----------------------------- MODULE RemoteEvent -----------------------------
(***************************************************************************)
(* core.event across interpreters (event.lua over channel.lua): one event  *)
(* of a server addon, and the client addons that register a handler of     *)
(* theirs with it.                                                         *)
(*                                                                         *)
(* Every addon is an interpreter of its own and calls the others through   *)
(* channels, synchronously, on one thread.  A client keeps its handler in  *)
(* an event object it holds; with the first one it asks the server to      *)
(* register, and the server does so in a coroutine it schedules.           *)
(***************************************************************************)
EXTENDS Integers, Sequences, FiniteSets, SequencesExt

CONSTANTS
    Clients,            \* the client addons
    OneShot,            \* the values of oneShot
    Collects,           \* whether clients drop their event objects
    MaxRegistrations,   \* bound: calls of remote_register
    MaxLoads            \* bound: loads of each client

ASSUME RemoteEventAssumption ==
    /\ IsFiniteSet(Clients)
    /\ OneShot \subseteq BOOLEAN
    /\ Collects \in BOOLEAN
    /\ MaxRegistrations \in Nat
    /\ MaxLoads \in Nat \ {0}

VARIABLES
    handlers,   \* remote_handlers of the event: a Lua table with integer keys
    count,      \* its count field
    lookup,     \* remote_handlers_lookup: the last handler of each client
    scheduled,  \* the coroutines register_by_name scheduled, in order
    ids,        \* how many there have been
    load,       \* how often each client was loaded; its interpreter's name
    loaded,     \* whether it is
    local,      \* its event object: none, one without or one with the handler
    at,         \* trigger_remote_handlers: 0, or the index it is at
    slot,       \* its local slot
    heard,      \* history: how often each client's handler was called by the trigger
    subscribed, \* history: the clients the trigger has to reach
    installed,  \* rigid: the clients that use the event
    oneShot     \* rigid: whether handlers may unregister themselves when called

eventVars == <<handlers, count, lookup, scheduled, ids, load, loaded, local, at,
          slot, heard, subscribed, installed, oneShot>>

rigid == <<installed, oneShot>>
serverVars == <<handlers, count, lookup, scheduled, ids>>
clientVars == <<load, loaded, local, rigid>>
triggerVars == <<at, slot, heard, subscribed>>

-----------------------------------------------------------------------------
Indices == 1 .. MaxRegistrations + 1

\* A remote_handler closure: its client, and the interpreter its channel leads
\* to; 0 when the client was not loaded as the closure was made.
Handler == [id : 1 .. MaxRegistrations, client : Clients, to : 0 .. MaxLoads]
nil == [id |-> 0]

(***************************************************************************)
(* Lua tables: the length of a table with holes is any of its borders, and *)
(* table.remove shifts what is up to the border.                           *)
(***************************************************************************)
Border(t) ==
    {n \in 0 .. MaxRegistrations :
        /\ n > 0 => t[n] # nil
        /\ t[n + 1] = nil}

Remove1(t, i, n) ==
    IF i > n THEN t
    ELSE [j \in Indices |-> IF j < i \/ j > n THEN t[j] ELSE IF j = n THEN nil ELSE t[j + 1]]

\* table.remove(handlers, i) for i from last down to first.
Truncated(t, first, last) ==
    LET after[i \in 0 .. last] ==
            IF i < first THEN {t}
            ELSE UNION {{Remove1(s, last + first - i, n) : n \in Border(s)} : s \in after[i - 1]}
    IN after[last]

Live(c, to) == loaded[c] /\ to = load[c]

\* The client is registered for good: its handler is known to the server.
Confirmed(c) == \E i \in 1 .. count : handlers[i] # nil /\ handlers[i].client = c
                                         /\ Live(c, handlers[i].to)

Subscribed == {c \in Clients : loaded[c] /\ local[c] = "handler" /\ Confirmed(c)}

EventInit ==
    /\ handlers = [i \in Indices |-> nil] /\ count = 0
    /\ lookup = [c \in Clients |-> nil]
    /\ scheduled = <<>> /\ ids = 0
    /\ load = [c \in Clients |-> 1]
    /\ installed \in SUBSET Clients \ {{}}
    /\ oneShot \in OneShot
    /\ oneShot => Cardinality(installed) = 1
    /\ loaded = [c \in Clients |-> c \in installed]
    /\ local = [c \in Clients |-> "none"]
    /\ at = 0 /\ slot = 0
    /\ heard = [c \in Clients |-> 0]
    /\ subscribed = {}

Between == at = 0

-----------------------------------------------------------------------------
(***************************************************************************)
(* The client.                                                             *)
(***************************************************************************)
\* new_remote_client: a value with the event in it was deserialized.
Receive(c) ==
    /\ Between
    /\ loaded[c]
    /\ local[c] = "none"
    /\ local' = [local EXCEPT ![c] = "empty"]
    /\ UNCHANGED <<serverVars, load, loaded, triggerVars, rigid>>

\* remote_clients holds the object weakly: it goes with its handlers.
Collect(c) ==
    /\ Collects
    /\ Between
    /\ loaded[c]
    /\ local[c] # "none"
    /\ local' = [local EXCEPT ![c] = "none"]
    /\ UNCHANGED <<serverVars, load, loaded, triggerVars, rigid>>

\* Mutant of Register: the server schedules no coroutine.
RegisterUnheard(c) ==
    /\ Between
    /\ loaded[c]
    /\ local[c] = "empty"
    /\ ids < MaxRegistrations
    /\ ids' = ids + 1
    /\ local' = [local EXCEPT ![c] = "handler"]
    /\ UNCHANGED <<handlers, count, lookup, scheduled, load, loaded, triggerVars, rigid>>

\* register, and register_by_name on the server.
Register(c) ==
    /\ Between
    /\ loaded[c]
    /\ local[c] = "empty"
    /\ ids < MaxRegistrations
    /\ scheduled' = Append(scheduled, c)
    /\ ids' = ids + 1
    /\ local' = [local EXCEPT ![c] = "handler"]
    /\ UNCHANGED <<handlers, count, lookup, load, loaded, triggerVars, rigid>>

(***************************************************************************)
(* unregister_by_name: goes up to #handlers for the client's last handler, *)
(* which lookup has lost when nothing else held it.  count stays.          *)
(***************************************************************************)
Found(c, fn, n) == {i \in 1 .. n : handlers[i] = fn}

LookedUp(c) ==
    {lookup[c]} \cup (IF lookup[c] \in {handlers[i] : i \in Indices} THEN {} ELSE {nil})

Removed(c) ==
    \E n \in Border(handlers), fn \in LookedUp(c) :
        /\ Found(c, fn, n) # {}
        /\ \E m \in Border(handlers) :
              handlers' = Remove1(handlers, Min(Found(c, fn, n)), m)
        /\ lookup' = [lookup EXCEPT ![c] = fn]

NotFound(c) ==
    \E n \in Border(handlers), fn \in LookedUp(c) :
        /\ Found(c, fn, n) = {}
        /\ lookup' = [lookup EXCEPT ![c] = fn]

\* unregister: the local handler is removed whatever the server answers.  When the
\* coroutine that registers it has not run it answers false, which is an error.
Unregister(c) ==
    /\ Between
    /\ loaded[c]
    /\ local[c] = "handler"
    /\ local' = [local EXCEPT ![c] = "empty"]
    /\ \/ Removed(c)
       \/ NotFound(c) /\ UNCHANGED handlers
    /\ UNCHANGED <<count, scheduled, ids, load, loaded, triggerVars, rigid>>

Unloaded(c) ==
    /\ loaded' = [loaded EXCEPT ![c] = FALSE]
    /\ local' = [local EXCEPT ![c] = "none"]

Unload(c) ==
    /\ Between
    /\ loaded[c]
    /\ Unloaded(c)
    /\ UNCHANGED <<serverVars, load, triggerVars, rigid>>

Load(c) ==
    /\ Between
    /\ c \in installed
    /\ ~loaded[c]
    /\ load[c] < MaxLoads
    /\ load' = [load EXCEPT ![c] = @ + 1]
    /\ loaded' = [loaded EXCEPT ![c] = TRUE]
    /\ UNCHANGED <<serverVars, local, triggerVars, rigid>>

-----------------------------------------------------------------------------
(***************************************************************************)
(* The server.                                                             *)
(***************************************************************************)
\* The coroutine of register_by_name.
RunScheduled ==
    /\ Between
    /\ scheduled # <<>>
    /\ LET c == Head(scheduled)
           handler == [id |-> ids - Len(scheduled) + 1, client |-> c,
                       to |-> IF loaded[c] THEN load[c] ELSE 0]
       IN /\ handlers' = [handlers EXCEPT ![count + 1] = handler]
          /\ count' = count + 1
          /\ lookup' = [lookup EXCEPT ![c] = handler]
    /\ scheduled' = Tail(scheduled)
    /\ UNCHANGED <<ids, clientVars, triggerVars>>

\* Mutant of BeginTrigger: the loop counts from zero, the table from one.
BeginTriggerLate ==
    /\ Between
    /\ count > 0
    /\ at' = 2 /\ slot' = 2
    /\ heard' = [c \in Clients |-> 0]
    /\ subscribed' = Subscribed
    /\ UNCHANGED <<serverVars, clientVars>>

\* trigger_remote_handlers: count is read once.
BeginTrigger ==
    /\ Between
    /\ count > 0
    /\ at' = 1 /\ slot' = 1
    /\ heard' = [c \in Clients |-> 0]
    /\ subscribed' = Subscribed
    /\ UNCHANGED <<serverVars, clientVars>>

AtHandler == at \in 1 .. count
Called == handlers[at]

\* Mutant of Kept: the handler is not moved down to the slot.
KeptInPlace(t, handler) == t

\* The handler answered: it stays, moved down to the slot.
Kept(t, handler) == IF at = slot THEN t ELSE [t EXCEPT ![slot] = handler]

Onward == at' = at + 1 /\ UNCHANGED <<count, scheduled, ids, load, rigid>>

\* trigger_by_name calls the client's handler, if it has one, and it returns.
Delivered ==
    /\ AtHandler
    /\ Called # nil
    /\ Live(Called.client, Called.to)
    /\ local[Called.client] # "none"
    /\ heard' = IF local[Called.client] = "handler"
                THEN [heard EXCEPT ![Called.client] = @ + 1] ELSE heard
    /\ handlers' = Kept(handlers, Called)
    /\ slot' = slot + 1
    /\ Onward
    /\ UNCHANGED <<lookup, loaded, local, subscribed>>

\* It unregisters itself before it returns: handlers changes under the loop.
UnregistersItself ==
    /\ oneShot
    /\ AtHandler
    /\ Called # nil
    /\ LET c == Called.client IN
          /\ Live(c, Called.to)
          /\ local[c] = "handler"
          /\ heard' = [heard EXCEPT ![c] = @ + 1]
          /\ local' = [local EXCEPT ![c] = "empty"]
          /\ \E n \in Border(handlers), fn \in LookedUp(c) :
                /\ Found(c, fn, n) # {}
                /\ handlers' = Kept(Remove1(handlers, Min(Found(c, fn, n)), n), Called)
                /\ lookup' = [lookup EXCEPT ![c] = fn]
    /\ slot' = slot + 1
    /\ Onward
    /\ UNCHANGED <<loaded, subscribed>>

\* It throws: error_addon unloads the client, and the handler is not kept.
HandlerThrows ==
    /\ AtHandler
    /\ Called # nil
    /\ Live(Called.client, Called.to)
    /\ local[Called.client] = "handler"
    /\ heard' = [heard EXCEPT ![Called.client] = @ + 1]
    /\ Unloaded(Called.client)
    /\ Onward
    /\ UNCHANGED <<handlers, lookup, slot, subscribed>>

(***************************************************************************)
(* trigger_by_name finds no event: the client let go of the object, or the *)
(* channel had no interpreter to lead to and the server asked itself.  The *)
(* answer is false, and error_addon unloads the client if it is loaded.    *)
(***************************************************************************)
Unknown ==
    /\ AtHandler
    /\ Called # nil
    /\ \/ Live(Called.client, Called.to) /\ local[Called.client] = "none"
       \/ Called.to = 0
    /\ IF loaded[Called.client]
       THEN Unloaded(Called.client)
       ELSE UNCHANGED <<loaded, local>>
    /\ Onward
    /\ UNCHANGED <<handlers, lookup, slot, heard, subscribed>>

\* A hole, or an interpreter that is no more: pcall fails.
Dropped ==
    /\ AtHandler
    /\ Called # nil => Called.to # 0 /\ ~Live(Called.client, Called.to)
    /\ Onward
    /\ UNCHANGED <<handlers, lookup, slot, heard, loaded, local, subscribed>>

EndTrigger ==
    /\ at # 0
    /\ at > count
    /\ at' = 0 /\ slot' = 0
    /\ handlers' \in Truncated(handlers, slot, count)
    /\ count' = slot - 1
    /\ UNCHANGED <<lookup, scheduled, ids, clientVars, heard, subscribed>>

Trigger ==
    \/ BeginTrigger
    \/ Delivered
    \/ UnregistersItself
    \/ HandlerThrows
    \/ Unknown
    \/ Dropped
    \/ EndTrigger

EventNext ==
    \/ \E c \in Clients :
          Receive(c) \/ Collect(c) \/ Register(c) \/ Unregister(c) \/ Unload(c) \/ Load(c)
    \/ RunScheduled
    \/ Trigger

EventSpec == EventInit /\ [][EventNext]_eventVars

\* Every frame runs the coroutines that are ready, however often the event is
\* triggered in it; and a called handler returns.
EventFairSpec == EventSpec /\ SF_eventVars(RunScheduled) /\ WF_eventVars(Trigger)

-----------------------------------------------------------------------------
(***************************************************************************)
(* Properties                                                              *)
(***************************************************************************)
EventTypeOK ==
    /\ handlers \in [Indices -> Handler \cup {nil}]
    /\ count \in 0 .. ids - Len(scheduled)
    /\ lookup \in [Clients -> Handler \cup {nil}]
    /\ scheduled \in Seq(Clients) /\ ids \in 0 .. MaxRegistrations
    /\ load \in [Clients -> 1 .. MaxLoads]
    /\ loaded \in [Clients -> BOOLEAN]
    /\ local \in [Clients -> {"none", "empty", "handler"}]
    /\ at \in 0 .. count + 1 /\ slot \in 0 .. at
    /\ heard \in [Clients -> Nat]
    /\ subscribed \subseteq Clients
    /\ installed \subseteq Clients /\ oneShot \in BOOLEAN

\* Whatever other clients do, and however often the table was compacted, a
\* client that has registered its handler is known to the server, or will be
\* when the coroutine runs.  With handlers that unregister themselves this is
\* asked of a client that has the event alone: the compaction can remove the
\* handler of another one.
NoLostRegistration ==
    Between => \A c \in Clients :
        loaded[c] /\ local[c] = "handler" => Confirmed(c) \/ c \in ToSet(scheduled)

\* A trigger reaches every client that was registered as it began and is still
\* loaded, although holes and dead handlers are dropped on the way.
AllHear == at > count /\ at # 0 => \A c \in subscribed : loaded[c] => heard[c] > 0

\* A client that registers is known to the server in the end.  With handlers that
\* unregister themselves it holds of a client that has the event alone.
RegistrationTakesEffect ==
    \A c \in Clients :
        loaded[c] /\ local[c] = "handler" ~> Confirmed(c) \/ local[c] # "handler"
=============================================================================
