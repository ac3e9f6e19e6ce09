---------------------------- MODULE CommandManager ----------------------------
(***************************************************************************)
(* windower::command_manager: the commands of the client, of the core, of  *)
(* addons and of scripts, in four layers, and the aliases; with the module *)
(* core.command through which interpreters register theirs.                *)
(*                                                                         *)
(* A command is kept with a weak pointer, its tag, to the handle of the    *)
(* interpreter that registered it.  While a handler runs, handle_command   *)
(* and the handler itself hold that handle: so an addon that is unloaded   *)
(* because its handler failed is gone, and its tag is not expired yet.     *)
(*                                                                         *)
(* Everything runs on the game's thread.  What an interpreter does inside  *)
(* another one's handler, through events, is left out.                     *)
(***************************************************************************)
EXTENDS Naturals, Sequences, SequencesExt, FiniteSets

CONSTANTS
    Addons,             \* the packages that may be loaded
    Names,              \* the names of commands
    ClientCommands,     \* the names the client's resource lists
    CoreCommands,       \* the names core's constructor registers
    AliasArguments,     \* what /alias is given: a name and what it stands for
    MaxGen,             \* bound: interpreters made for an addon, or for scripts
    MaxDepth            \* bound: handlers inside one another

Interpreters == Addons \cup {"script"}
Layers == <<"client", "core", "addon", "script">>

\* The component a registration is filed under; client and core have the empty one.
Components == Interpreters \cup {""}
NoComponent == "none"

\* What is typed: a name, with its component or without.
Typed == [component : Components \cup {NoComponent}, command : Names]
NotAliased == [component |-> NoComponent, command |-> "none"]

ASSUME CommandAssumption ==
    /\ {"client", "core", "script", "", "none"} \cap Addons = {}
    /\ ClientCommands \subseteq Names /\ CoreCommands \subseteq Names
    /\ AliasArguments \subseteq Names \X Typed
    /\ MaxGen \in Nat \ {0} /\ MaxDepth \in Nat

Tags == [owner : Interpreters, gen : 1..MaxGen] \cup [owner : {"client", "core"}, gen : {0}]
Descriptors == [layer : ToSet(Layers), component : Components, command : Names, tag : Tags]

VARIABLES
    commands,   \* m_commands
    aliases,    \* m_aliases
    handlers,   \* the table handlers of each interpreter's core.command
    live,       \* the interpreters there are
    gen,        \* root handles made for each, so far
    calls,      \* the tags of the handlers under way, the innermost last
    answer,     \* what handle_command answered, in the step it did
    broken      \* an interpreter was closed under code of its own

vars == <<commands, aliases, handlers, live, gen, calls, answer, broken>>

NoAnswer == [kind |-> "none"]
Answers ==
    {NoAnswer} \cup [kind : {"unknown", "ambiguous"}, typed : Typed]
               \cup [kind : {"called"}, typed : Typed, descriptor : Descriptors]

TypeOK ==
    /\ commands \subseteq Descriptors
    /\ aliases \in [Names -> Typed \cup {NotAliased}]
    /\ handlers \in [Interpreters -> SUBSET Names]
    /\ live \subseteq Interpreters
    /\ gen \in [Interpreters -> 0..MaxGen]
    /\ calls \in Seq(Tags) /\ Len(calls) <= MaxDepth
    /\ answer \in Answers
    /\ broken \in BOOLEAN

Built(layer, names) ==
    [layer : {layer}, component : {""}, command : names, tag : {[owner |-> layer, gen |-> 0]}]

Init ==
    /\ commands = Built("client", ClientCommands) \cup Built("core", CoreCommands)
    /\ aliases = [n \in Names |-> NotAliased]
    /\ handlers = [i \in Interpreters |-> {}]
    /\ live = {"script"}
    /\ gen = [i \in Interpreters |-> IF i = "script" THEN 1 ELSE 0]
    /\ calls = <<>>
    /\ answer = NoAnswer
    /\ broken = FALSE

-----------------------------------------------------------------------------
(***************************************************************************)
(* Tags                                                                    *)
(***************************************************************************)
TagOf(i) == [owner |-> i, gen |-> gen[i]]

\* The interpreter a tag was made for is there, and is still that one.
Alive(tag) == tag.owner \in {"client", "core"} \/ (tag.owner \in live /\ tag = TagOf(tag.owner))

Running(i) == \E k \in DOMAIN calls : calls[k].owner = i

\* weak_ptr::expired, with the interpreters left as they will be.
Expired(tag, left) ==
    /\ tag \notin ToSet(calls)
    /\ ~(Alive(tag) /\ tag.owner \in left \cup {"client", "core"})

Purge(left) == {d \in commands : ~Expired(d.tag, left)}

\* Who may call into core.command now: the innermost handler, or, with none
\* under way, a coroutine or an event's handler of any interpreter.
Acts(i) ==
    /\ ~broken
    /\ i \in live
    /\ calls # <<>> => Last(calls) = TagOf(i)

-----------------------------------------------------------------------------
(***************************************************************************)
(* core.command: register and unregister                                   *)
(***************************************************************************)
LayerOf(i) == IF i = "script" THEN "script" ELSE "addon"

SameName(d, i, n) == d.layer = LayerOf(i) /\ d.component = i /\ d.command = n

\* Mutant of Register: a name that is there already is left as it is.
RegisterOnce(i, n) ==
    /\ Acts(i)
    /\ handlers' = [handlers EXCEPT ![i] = @ \cup {n}]
    /\ commands' =
        IF \E d \in commands : SameName(d, i, n) THEN commands
        ELSE commands \cup {[layer |-> LayerOf(i), component |-> i, command |-> n, tag |-> TagOf(i)]}
    /\ answer' = NoAnswer
    /\ UNCHANGED <<aliases, live, gen, calls, broken>>

\* A registration under a component and a name replaces the one there is.
Register(i, n) ==
    /\ Acts(i)
    /\ handlers' = [handlers EXCEPT ![i] = @ \cup {n}]
    /\ commands' = {d \in commands : ~SameName(d, i, n)}
            \cup {[layer |-> LayerOf(i), component |-> i, command |-> n, tag |-> TagOf(i)]}
    /\ answer' = NoAnswer
    /\ UNCHANGED <<aliases, live, gen, calls, broken>>

Unregister(i, n) ==
    /\ Acts(i)
    /\ commands' = {d \in commands : ~SameName(d, i, n)}
    /\ handlers' = [handlers EXCEPT ![i] = @ \ {n}]
    /\ answer' = NoAnswer
    /\ UNCHANGED <<aliases, live, gen, calls, broken>>

-----------------------------------------------------------------------------
(***************************************************************************)
(* handle_command                                                          *)
(***************************************************************************)
\* An alias stands for a name without a component, and is expanded once.
Expand(typed) ==
    IF typed.component = NoComponent /\ aliases[typed.command] # NotAliased
    THEN aliases[typed.command] ELSE typed

Matches(d, typed) ==
    /\ d.command = typed.command
    /\ typed.component \in {NoComponent, d.component}

Bounds(table, layer, typed) == {d \in table : d.layer = layer /\ Matches(d, typed)}

\* A layer's only match whose tag is expired is removed, and find begins again:
\* so a layer is passed over when it has no match, or only that one.
PassedOver(layer, typed) ==
    LET matches == Bounds(commands, layer, typed)
    IN  Cardinality(matches) <= 1 /\ \A d \in matches : Expired(d.tag, live)

\* Mutant of Reached: a later layer hides an earlier one.
ReachedFromBelow(typed) ==
    {k \in DOMAIN Layers : \A m \in DOMAIN Layers : m > k => PassedOver(Layers[m], typed)}

\* The layers find comes to: those up to the first that is not passed over.
Reached(typed) ==
    LET last == {k \in DOMAIN Layers : ~PassedOver(Layers[k], typed)}
    IN  {k \in DOMAIN Layers : \A m \in last : k <= m}

\* What find answers in the end: the matches of the layer it stops at, if it does.
\* All it removed before are of tags that are expired.
Found(typed) ==
    LET reached == Reached(typed)
        matches == Bounds(commands, Layers[Max(reached)], typed)
    IN  IF Cardinality(matches) = 1 /\ \A d \in matches : Expired(d.tag, live) THEN {} ELSE matches

\* The expired descriptors that were removed on the way.  (The name one is removed
\* by lies in the descriptor itself; what the comparisons after it read is the name
\* that was moved there, which no other descriptor of the layer has.)
Removed(typed) ==
    LET reached == Reached(typed)
    IN  {d \in commands :
            /\ Matches(d, typed)
            /\ \E k \in reached : d.layer = Layers[k] /\ PassedOver(Layers[k], typed)}

\* The user, with no handler under way, or an interpreter's handler.
Inputs == ~broken /\ (calls # <<>> => Last(calls).owner \in Interpreters)

(***************************************************************************)
(* handle_command, up to the call of the handler.  An unknown name goes to *)
(* the event unknown_command before it is refused; an error is raised in   *)
(* the handler that gave the command, which may catch it.                  *)
(***************************************************************************)
Handle(typed) ==
    /\ Inputs
    /\ Len(calls) < MaxDepth
    /\ LET name == Expand(typed)
           found == Found(name)
       IN  /\ commands' = commands \ Removed(name)
           /\ \/ /\ found = {}
                 /\ answer' = [kind |-> "unknown", typed |-> typed]
                 /\ UNCHANGED calls
              \/ /\ Cardinality(found) > 1
                 /\ answer' = [kind |-> "ambiguous", typed |-> typed]
                 /\ UNCHANGED calls
              \/ /\ Cardinality(found) = 1
                 /\ \E d \in found :
                        /\ answer' = [kind |-> "called", typed |-> typed, descriptor |-> d]
                        /\ calls' = Append(calls, d.tag)
    /\ UNCHANGED <<aliases, handlers, live, gen, broken>>

\* The handler returns: of an interpreter, of the client, or one of the core's that
\* has nothing to do with commands.
Return ==
    /\ ~broken
    /\ calls # <<>>
    /\ calls' = Front(calls)
    /\ answer' = NoAnswer
    /\ UNCHANGED <<commands, aliases, handlers, live, gen, broken>>

-----------------------------------------------------------------------------
(***************************************************************************)
(* Interpreters come and go                                                *)
(***************************************************************************)
\* An interpreter is closed; where it is under way, nothing more is promised.
Close(i, rest) == broken' = (\E k \in DOMAIN rest : rest[k].owner = i)

\* addon_manager::unload of one addon that is loaded, and the purge after it.
UnloadAddon(a, rest) ==
    /\ live' = live \ {a}
    /\ handlers' = [handlers EXCEPT ![a] = {}]
    /\ commands' = Purge(live \ {a})
    /\ calls' = rest
    /\ Close(a, rest)
    /\ answer' = NoAnswer
    /\ UNCHANGED <<aliases, gen>>

\* A handler of an addon fails: raise_error unloads the addon.  The handler's
\* frame still holds the addon's handle when its commands are purged.
Throw ==
    /\ ~broken
    /\ calls # <<>> /\ Last(calls).owner \in Addons
    /\ UnloadAddon(Last(calls).owner, Front(calls))

\* A handler of a script fails: raise_error refuses the package there is none of.
ThrowInScript ==
    /\ ~broken
    /\ calls # <<>> /\ Last(calls).owner = "script"
    /\ broken' = TRUE
    /\ answer' = NoAnswer
    /\ UNCHANGED <<commands, aliases, handlers, live, gen, calls>>

\* A coroutine or an event's handler of an addon fails.
Fail(a) ==
    /\ ~broken
    /\ calls = <<>>
    /\ a \in live
    /\ UnloadAddon(a, calls)

\* A command of the core is under way.
AtCore == ~broken /\ calls # <<>> /\ Last(calls).owner = "core"

\* /unload
Unload(a) ==
    /\ AtCore
    /\ a \in live
    /\ UnloadAddon(a, Front(calls))

NewInterpreter(i) ==
    /\ gen[i] < MaxGen
    /\ gen' = [gen EXCEPT ![i] = @ + 1]
    /\ live' = live \cup {i}
    /\ handlers' = [handlers EXCEPT ![i] = {}]
    /\ calls' = Front(calls)
    /\ answer' = NoAnswer
    /\ UNCHANGED <<commands, aliases>>

\* /load
Load(a) ==
    /\ AtCore
    /\ a \notin live
    /\ NewInterpreter(a)
    /\ UNCHANGED broken

\* /reset: what the scripts registered is not purged.
Reset ==
    /\ AtCore
    /\ NewInterpreter("script")
    /\ Close("script", Front(calls))

\* /alias and /unalias
Alias(n, typed) ==
    /\ AtCore
    /\ aliases' = [aliases EXCEPT ![n] = typed]
    /\ calls' = Front(calls)
    /\ answer' = NoAnswer
    /\ UNCHANGED <<commands, handlers, live, gen, broken>>

Unalias(n) ==
    /\ AtCore
    /\ aliases' = [aliases EXCEPT ![n] = NotAliased]
    /\ calls' = Front(calls)
    /\ answer' = NoAnswer
    /\ UNCHANGED <<commands, handlers, live, gen, broken>>

Next ==
    \/ \E i \in Interpreters, n \in Names : Register(i, n) \/ Unregister(i, n)
    \/ \E typed \in Typed : Handle(typed)
    \/ Return \/ Throw \/ ThrowInScript \/ Reset
    \/ \E a \in Addons : Fail(a) \/ Unload(a) \/ Load(a)
    \/ \E arguments \in AliasArguments : Alias(arguments[1], arguments[2]) \/ Unalias(arguments[1])

Spec == Init /\ [][Next]_vars

-----------------------------------------------------------------------------
(***************************************************************************)
(* Properties                                                              *)
(***************************************************************************)
AliveMatches(typed) == {d \in commands : Matches(d, Expand(typed)) /\ Alive(d.tag)}

Rank(d) == CHOOSE k \in DOMAIN Layers : Layers[k] = d.layer

\* handle_command calls the one match, in the first layer that has any, of an
\* interpreter that is still there; it calls a name unknown only when no
\* interpreter has it, and ambiguous only in the first layer with a match
\* of one that is there, unless none has.
AnsweredRight(a) ==
    CASE a.kind = "called" ->
            /\ a.descriptor \in AliveMatches(a.typed)
            /\ \A d \in AliveMatches(a.typed) \ {a.descriptor} : Rank(d) > Rank(a.descriptor)
      [] a.kind = "unknown" -> AliveMatches(a.typed) = {}
      [] a.kind = "ambiguous" ->
            /\ Expand(a.typed).component = NoComponent
            /\ \E k \in DOMAIN Layers :
                  /\ Cardinality(Bounds(commands, Layers[k], Expand(a.typed))) > 1
                  /\ \A d \in AliveMatches(a.typed) : Rank(d) >= k
      [] OTHER -> TRUE

AnswersRight == [][AnsweredRight(answer')]_vars

\* A handler an interpreter has registered, and not taken back, is the one its
\* full name leads to, whatever was unloaded, reset or registered in between;
\* and no descriptor leads an interpreter to a handler it does not have.
Reachable ==
    /\ \A i \in live : \A n \in handlers[i] :
            {d.tag : d \in Found([component |-> i, command |-> n])} = {TagOf(i)}
    /\ \A d \in commands :
            Alive(d.tag) /\ d.tag.owner \in Interpreters => d.command \in handlers[d.tag.owner]

\* Once no handler is under way, a name without a component is ambiguous only
\* between interpreters that are there: "command is ambiguous".  This fails: the
\* command of an addon that is gone counts as long as nothing removed it.
AmbiguityIsReal ==
    [][answer'.kind = "ambiguous" /\ calls = <<>> =>
            Cardinality(AliveMatches(answer'.typed)) > 1]_vars
=============================================================================
