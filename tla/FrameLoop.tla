------------------------------- MODULE FrameLoop -------------------------------
(***************************************************************************)
(* core::update and what is left for it to run: the functions for the next *)
(* frame, the Direct3D device whose life everything in a game follows, and *)
(* the thread of the debug console.                                        *)
(*                                                                         *)
(* The launcher's viewer draws with DirectDraw, a game with Direct3D.      *)
(* Every hook that draws calls core::update; m_updated, which a frame of   *)
(* the device clears, makes it do its work once.                           *)
(***************************************************************************)
EXTENDS Naturals, Sequences, SequencesExt

CONSTANTS
    MaxDevices,     \* bound: devices made
    MaxQueued       \* bound: functions waiting, for handlers to add another

ASSUME FrameAssumption == MaxDevices \in Nat /\ MaxQueued \in Nat

VARIABLES
    \* chosen once
    debug,      \* settings.debug: there is a console
    echo,       \* an addon answers a line of text with a line of text
    \* core
    updated,    \* m_updated
    queue,      \* m_queued_functions
    packages,   \* there is a package_manager
    ui,         \* the device the interface's context was made for, or 0
    manager,    \* the device addon_manager was made for, or 0
    \* the device; the packet queues and the hooks of the game come and go with it
    device,     \* its number, or 0
    made,       \* devices made so far
    inFrame,    \* m_frame_in_progress
    \* threads
    pc,         \* where core::update is
    hook,       \* who called it
    console,    \* the console's thread
    \* what properties are about
    updates,    \* updates since the frame began
    frames,     \* whether the device has presented a frame
    fault       \* a function ran without what it needs

vars == <<debug, echo, updated, queue, packages, ui, manager, device, made, inFrame,
          pc, hook, console, updates, frames, fault>>

chosen == <<debug, echo>>
owned == <<packages, ui, manager>>

Devices == 1..MaxDevices

Start == [run |-> "start"]                  \* core's constructor
SetUp(d) == [run |-> "setup", device |-> d] \* the device's constructor
Inject == [run |-> "inject"]                \* packet.inject_incoming and _outgoing
Text == [run |-> "text"]                    \* chat.add_text, core::output, core::error
Command == [run |-> "command"]              \* a line of the console
Functions == {Start, Inject, Text, Command} \cup {SetUp(d) : d \in Devices}

TypeOK ==
    /\ debug \in BOOLEAN /\ echo \in BOOLEAN
    /\ updated \in BOOLEAN /\ inFrame \in BOOLEAN /\ packages \in BOOLEAN /\ frames \in BOOLEAN
    /\ queue \in Seq(Functions)
    /\ made \in 0..MaxDevices
    /\ ui \in 0..made /\ manager \in 0..made /\ device \in 0..made
    /\ pc \in {"idle", "coroutines", "drain"}
    /\ hook \in {"none", "blit", "draw", "present"}
    /\ console \in {"closed", "reading", "waiting"}
    /\ updates \in Nat
    /\ fault \in {"none", "packages", "device", "queues"}

Init ==
    /\ debug \in BOOLEAN /\ echo \in BOOLEAN
    /\ updated = FALSE
    /\ queue = <<Start>>
    /\ packages = FALSE
    /\ ui = 0 /\ manager = 0
    /\ device = 0 /\ made = 0 /\ inFrame = FALSE
    /\ pc = "idle" /\ hook = "none"
    /\ console = "closed"
    /\ updates = 0 /\ frames = FALSE /\ fault = "none"

\* The game's thread is in no function of the core.
Idle == fault = "none" /\ pc = "idle"

-----------------------------------------------------------------------------
(***************************************************************************)
(* The device.  A game begins frames and presents them, and releases the   *)
(* device between two frames, when it has presented one.                   *)
(***************************************************************************)
\* Mutant of CreateDevice: the function is left for the device before.
CreateDeviceEarly ==
    /\ Idle
    /\ device = 0
    /\ made < MaxDevices
    /\ made' = made + 1
    /\ device' = made + 1
    /\ inFrame' = FALSE /\ frames' = FALSE
    /\ queue' = Append(queue, SetUp(made))
    /\ UNCHANGED <<chosen, updated, owned, pc, hook, console, updates, fault>>

CreateDevice ==
    /\ Idle
    /\ device = 0
    /\ made < MaxDevices
    /\ made' = made + 1
    /\ device' = made + 1
    /\ inFrame' = FALSE /\ frames' = FALSE
    /\ queue' = Append(queue, SetUp(made + 1))
    /\ UNCHANGED <<chosen, updated, owned, pc, hook, console, updates, fault>>

\* Mutant of ReleaseDevice: the next hook that draws has a frame to update.
ReleaseAndBegin ==
    /\ Idle
    /\ device # 0 /\ ~inFrame /\ frames
    /\ device' = 0
    /\ ui' = 0 /\ manager' = 0
    /\ updated' = FALSE
    /\ UNCHANGED <<chosen, queue, packages, made, inFrame, pc, hook, console,
                   updates, frames, fault>>

\* What waits for the next frame is left where it is.
ReleaseDevice ==
    /\ Idle
    /\ device # 0 /\ ~inFrame /\ frames
    /\ device' = 0
    /\ ui' = 0 /\ manager' = 0
    /\ UNCHANGED <<chosen, updated, queue, packages, made, inFrame, pc, hook, console,
                   updates, frames, fault>>

\* BeginScene, which a frame may call more than once: core::begin_frame.
BeginScene ==
    /\ Idle
    /\ device # 0 /\ ~inFrame
    /\ inFrame' = TRUE
    /\ updated' = FALSE
    /\ updates' = 0
    /\ UNCHANGED <<chosen, queue, owned, device, made, pc, hook, console, frames, fault>>

-----------------------------------------------------------------------------
(***************************************************************************)
(* core::update                                                            *)
(***************************************************************************)
\* The end of a hook that has called update: Present ends the frame.
Leave(h) ==
    /\ pc' = "idle" /\ hook' = "none"
    /\ inFrame' = (inFrame /\ h # "present")
    /\ frames' = (frames \/ h = "present")

\* Flip and Blt of a DirectDraw surface, at any time; draw_scene and Present.
Calls(h) == h \in {"draw", "present"} => device # 0 /\ inFrame

\* Mutant of Update: whether the frame was updated is not looked at.
UpdateAlways(h) ==
    /\ Idle
    /\ Calls(h)
    /\ pc' = "coroutines" /\ hook' = h
    /\ updated' = TRUE
    /\ updates' = updates + 1
    /\ UNCHANGED <<chosen, queue, owned, device, made, inFrame, console, frames, fault>>

Update(h) ==
    /\ Idle
    /\ Calls(h)
    /\ \/ /\ updated
          /\ Leave(h)
          /\ UNCHANGED <<updated, updates>>
       \/ /\ ~updated
          /\ updated' = TRUE
          /\ updates' = updates + 1
          /\ pc' = "coroutines" /\ hook' = h
          /\ UNCHANGED <<inFrame, frames>>
    /\ UNCHANGED <<chosen, queue, owned, device, made, console, fault>>

\* What Lua code may leave for the next frame, while there is any.  (Code a line of
\* the console evaluates before a game has begun is left out.)
Left == {<<>>} \cup
    (IF manager # 0 /\ Len(queue) < MaxQueued THEN {<<Inject>>, <<Text>>} ELSE {})

\* The script environment and the addons run until they are idle.
RunCoroutines ==
    /\ fault = "none" /\ pc = "coroutines"
    /\ \E left \in Left : queue' = queue \o left
    /\ pc' = "drain"
    /\ UNCHANGED <<chosen, updated, owned, device, made, inFrame, hook, console,
                   updates, frames, fault>>

\* The game calls a hook for its input or its packets, and a handler runs.
RunHandlers ==
    /\ Idle
    /\ \E left \in Left : queue' = queue \o left
    /\ UNCHANGED <<chosen, updated, owned, device, made, inFrame, pc, hook, console,
                   updates, frames, fault>>

\* Mutant of Rest: a function is called before it is taken from the queue.
RestKept == queue

\* What try_pop leaves.
Rest == Tail(queue)

\* There is a function to run: try_pop succeeds.
Popped(function) ==
    /\ fault = "none" /\ pc = "drain"
    /\ queue # <<>>
    /\ Head(queue) = function
    /\ UNCHANGED <<chosen, updated, device, made, inFrame, pc, hook, updates, frames>>

RunStart ==
    /\ Popped(Start)
    /\ packages' = TRUE
    /\ console' = IF debug THEN "reading" ELSE console
    /\ queue' = Rest
    /\ UNCHANGED <<ui, manager, fault>>

\* The interface is made for the device, scripts and addons begin anew; services
\* are loaded, and what they run may leave something for the next frame.  (An error of
\* theirs changes nothing here; that the interface cannot be made is left out.)
RunSetUp(d) ==
    /\ Popped(SetUp(d))
    /\ fault' = CASE d # device -> "device" [] ~packages -> "packages" [] OTHER -> "none"
    /\ ui' = d /\ manager' = d
    /\ \E left \in {<<>>, <<Inject>>} : queue' = Rest \o left
    /\ UNCHANGED <<packages, console>>

RunInject ==
    /\ Popped(Inject)
    /\ fault' = IF device = 0 THEN "queues" ELSE "none"
    /\ queue' = Rest
    /\ UNCHANGED <<owned, console>>

\* add_to_chat does nothing without the game's hooks; text_added reaches addons.
RunText ==
    /\ Popped(Text)
    /\ queue' = IF echo /\ device # 0 /\ manager # 0 THEN Append(Rest, Text) ELSE Rest
    /\ UNCHANGED <<owned, console, fault>>

\* Mutant of RunCommand: a command that fails does not come to the signal.
RunCommandUnsignalled ==
    /\ Popped(Command)
    /\ console' \in {"reading", console}
    /\ \E left \in Left : queue' = Rest \o left
    /\ UNCHANGED <<owned, fault>>

\* The command runs, whatever it answers, and its thread is signalled.
RunCommand ==
    /\ Popped(Command)
    /\ console' = "reading"
    /\ \E left \in Left : queue' = Rest \o left
    /\ UNCHANGED <<owned, fault>>

\* try_pop finds the queue empty.
EndUpdate ==
    /\ fault = "none" /\ pc = "drain"
    /\ queue = <<>>
    /\ Leave(hook)
    /\ UNCHANGED <<chosen, updated, queue, owned, device, made, console, updates, fault>>

\* The console's thread has read a line: it queues it and waits for the signal.
ReadLine ==
    /\ fault = "none"
    /\ console = "reading"
    /\ console' = "waiting"
    /\ queue' = Append(queue, Command)
    /\ UNCHANGED <<chosen, updated, owned, device, made, inFrame, pc, hook, updates, frames, fault>>

Drain ==
    \/ RunStart \/ RunInject \/ RunText \/ RunCommand
    \/ \E d \in Devices : RunSetUp(d)

Hooks == {"blit", "draw", "present"}

Next ==
    \/ CreateDevice \/ ReleaseDevice \/ BeginScene
    \/ \E h \in Hooks : Update(h)
    \/ RunCoroutines \/ RunHandlers \/ Drain \/ EndUpdate \/ ReadLine

Spec == Init /\ [][Next]_vars

\* A game with a device draws and presents frames; functions return.
FairSpec ==
    /\ Spec
    /\ WF_vars(BeginScene) /\ WF_vars(Update("present"))
    /\ WF_vars(RunCoroutines) /\ WF_vars(Drain) /\ WF_vars(EndUpdate)

-----------------------------------------------------------------------------
(***************************************************************************)
(* Properties                                                              *)
(***************************************************************************)
\* A function finds the device, the packet queues and the package manager it uses,
\* although it may have been left by an earlier device: what is left when a device
\* is released waits for a frame, and so for the next device.
FindsWhatItNeeds == fault = "none"

\* A frame that is presented was updated once, whichever hooks were called, and it
\* is drawn by the interface, and had the addons, of the device there is.
FrameComplete ==
    [][inFrame /\ ~inFrame' => updates' = 1 /\ ui' = device /\ manager' = device]_vars

\* A command of the console is answered, as long as there is a device: though an
\* addon keeps the drain busy.
CommandAnswered == console = "waiting" ~> (console # "waiting" \/ device = 0)

\* update comes to its end, unless an addon answers text with text, or the console
\* has a command again and again.
UpdateEnds == ~echo => ([]<>(pc = "idle") \/ []<>(console = "waiting"))
================================================================================
