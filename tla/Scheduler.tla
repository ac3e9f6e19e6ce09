------------------------------ MODULE Scheduler ------------------------------
(***************************************************************************)
(* windower::scheduler and the coroutines it runs: the scheduled Lua       *)
(* coroutines of one script_base (an addon or the script environment).     *)
(*                                                                         *)
(* core::update counts a frame and calls run_until_idle, which goes over   *)
(* m_scheduled_tasks again and again until a pass resumes nothing.  A      *)
(* resumed coroutine runs until it sleeps, yields, ends or throws, and may *)
(* schedule others meanwhile, into the vector the loop is iterating over.  *)
(*                                                                         *)
(* How long a coroutine sleeps travels through two registry slots of its   *)
(* interpreter, sleep_delay and sleep_type, which sleep and sleep_frame    *)
(* write and schedulable_resume reads.                                     *)
(***************************************************************************)
EXTENDS Integers, Sequences, SequencesExt, Positions

CONSTANTS
    Delays,         \* arguments of coroutine.sleep and coroutine.schedule, in ticks
    FrameDelays,    \* arguments of coroutine.sleep_frame
    Handled,        \* whether the host may have an error handler: the script
                    \* environment has one, an addon has not
    MaxTasks,       \* bound: coroutines scheduled in the whole run
    MaxTime,        \* bound: the steady clock
    MaxFrame        \* bound: m_current_frame, far from wrapping round

ASSUME SchedulerAssumption ==
    /\ Delays \subseteq Nat
    /\ FrameDelays \subseteq Nat
    /\ Handled \subseteq BOOLEAN
    /\ MaxTasks \in Nat
    /\ MaxTime \in Nat
    /\ MaxFrame \in Nat

VARIABLES
    handled,    \* whether the host has an error handler
    tasks,      \* m_scheduled_tasks
    capacity,   \* its capacity: beyond it, emplace_back moves the elements
    clock,      \* steady_clock::now()
    frame,      \* scheduler::m_current_frame
    sleep,      \* the sleep_type and sleep_delay slots of the registry
    pc,         \* where run_until_idle is
    pos,        \* the element the loop is at
    last,       \* the end of the pass: end() when the pass began
    idle,       \* the local idle
    moved,      \* whether the elements were moved since the pass began
    due,        \* history: what each coroutine last asked to wait for
    passClock,  \* history: the time the pass began
    ended       \* history: the coroutines that ended or threw

vars == <<handled, tasks, capacity, clock, frame, sleep, pc, pos, last, idle, moved,
          due, passClock, ended>>

-----------------------------------------------------------------------------
\* wait_state: a point in time, a frame.  Zero stands for time_point::min().
Wait == [time : Nat, frame : Nat]
resume == [time |-> 0, frame |-> 0]

\* Mutant of sleep_for: the delay is taken away from the time.
sleep_ago(d) == [time |-> clock - d, frame |-> 0]

sleep_for(d) == [time |-> clock + d, frame |-> 0]
sleep_frame(n) == [time |-> 0, frame |-> frame + n]

Sleep == [type : {"time", "frame"}, delay : Nat]
NoSleep == [type |-> "time", delay |-> 0]

Ids == 1 .. MaxTasks
Task == [id : Ids, wait : Wait, delay : Nat, started : BOOLEAN, done : BOOLEAN]

\* Not done, and task.wait_state() <= wait_state{now, current_frame()}.
Ready(task) ==
    ~task.done /\ task.wait.time <= clock /\ task.wait.frame <= frame

Scheduled == {tasks[i].id : i \in DOMAIN tasks}
Running == tasks[pos].id

\* The capacity std::vector takes when it has to grow.
Grown == IF capacity + capacity \div 2 > Len(tasks) THEN capacity + capacity \div 2
         ELSE Len(tasks) + 1

Init ==
    /\ handled \in Handled
    /\ tasks = <<>> /\ capacity = 0
    /\ clock = 0 /\ frame = 0
    /\ sleep = NoSleep
    /\ pc = "out" /\ pos = 0 /\ last = 0 /\ idle = FALSE /\ moved = FALSE
    /\ due = <<>> /\ passClock = 0 /\ ended = {}

Tick ==
    /\ pc # "broken"
    /\ clock < MaxTime
    /\ clock' = clock + 1
    /\ UNCHANGED <<handled, tasks, capacity, frame, sleep, pc, pos, last, idle, moved,
                   due, passClock, ended>>

(***************************************************************************)
(* coroutine.schedule, from any Lua code of the interpreter: outside the   *)
(* loop (a handler, the main chunk) or from a coroutine being resumed.     *)
(* The new task is ready at once; its first resumption only starts the     *)
(* initial delay.                                                          *)
(***************************************************************************)
Schedule(delay) ==
    /\ pc \in {"out", "body"}
    /\ Len(due) < MaxTasks
    /\ tasks' = Append(tasks, [id |-> Len(due) + 1, wait |-> resume, delay |-> delay,
                               started |-> FALSE, done |-> FALSE])
    /\ IF Len(tasks) < capacity
       THEN UNCHANGED <<capacity, moved>>
       ELSE capacity' = Grown /\ moved' = (pc = "body")
    /\ due' = Append(due, resume)
    /\ UNCHANGED <<handled, clock, frame, sleep, pc, pos, last, idle, passClock, ended>>

-----------------------------------------------------------------------------
(***************************************************************************)
(* run_until_idle                                                          *)
(***************************************************************************)
\* Mutant of BeginPass: the last element is left out.
BeginPassShort ==
    /\ pos' = 1
    /\ last' = Len(tasks) - 1
    /\ idle' = TRUE
    /\ moved' = FALSE
    /\ passClock' = clock

BeginPass ==
    /\ pos' = 1
    /\ last' = Len(tasks)
    /\ idle' = TRUE
    /\ moved' = FALSE
    /\ passClock' = clock

\* core::update: next_frame, then run_until_idle.  At the bound the frames
\* still come, uncounted.
NextFrame ==
    /\ pc = "out"
    /\ frame' = IF frame < MaxFrame THEN frame + 1 ELSE frame
    /\ IF tasks = <<>>
       THEN UNCHANGED <<pc, pos, last, idle, moved, passClock>>
       ELSE pc' = "pass" /\ BeginPass
    /\ UNCHANGED <<handled, tasks, capacity, clock, sleep, due, ended>>

AtTask == pc = "pass" /\ pos <= last /\ ~moved

Skip ==
    /\ AtTask
    /\ ~Ready(tasks[pos])
    /\ pos' = pos + 1
    /\ UNCHANGED <<handled, tasks, capacity, clock, frame, sleep, pc, last, idle, moved,
                   due, passClock, ended>>

\* The first resumption of a task: co_yield sleep_for(initial_delay).
StartDelay ==
    /\ AtTask
    /\ Ready(tasks[pos])
    /\ ~tasks[pos].started
    /\ tasks' = [tasks EXCEPT ![pos].started = TRUE,
                              ![pos].wait = sleep_for(tasks[pos].delay)]
    /\ due' = [due EXCEPT ![Running] = sleep_for(tasks[pos].delay)]
    /\ pos' = pos + 1
    /\ idle' = FALSE
    /\ UNCHANGED <<handled, capacity, clock, frame, sleep, pc, last, moved, passClock, ended>>

\* schedulable_resume enters the Lua coroutine.
Enter ==
    /\ AtTask
    /\ Ready(tasks[pos])
    /\ tasks[pos].started
    /\ pc' = "body"
    /\ UNCHANGED <<handled, tasks, capacity, clock, frame, sleep, pos, last, idle, moved,
                   due, passClock, ended>>

\* The coroutine yields: schedulable_resume reads the slots, whoever wrote
\* them, and the loop goes on.
Yielded(slots) ==
    /\ tasks' = [tasks EXCEPT ![pos].wait =
                    IF slots.type = "time" THEN sleep_for(slots.delay)
                    ELSE sleep_frame(slots.delay + 1)]
    /\ sleep' = slots
    /\ pos' = pos + 1
    /\ idle' = FALSE
    /\ pc' = "pass"
    /\ UNCHANGED <<handled, capacity, clock, frame, last, moved, passClock, ended>>

\* coroutine.sleep and coroutine.sleep_frame.  What is due is stated here on
\* its own: d ticks from now, or with n frames between.
SleepFor(d) ==
    /\ pc = "body"
    /\ Yielded([type |-> "time", delay |-> d])
    /\ due' = [due EXCEPT ![Running] = [time |-> clock + d, frame |-> 0]]

\* Mutant of SleepFrame: the frame under way counts.
SleepFrameShort(n) ==
    /\ pc = "body"
    /\ tasks' = [tasks EXCEPT ![pos].wait = sleep_frame(n)]
    /\ sleep' = [type |-> "frame", delay |-> n]
    /\ pos' = pos + 1
    /\ idle' = FALSE
    /\ pc' = "pass"
    /\ UNCHANGED <<handled, capacity, clock, frame, last, moved, passClock, ended>>
    /\ due' = [due EXCEPT ![Running] = [time |-> 0, frame |-> frame + n + 1]]

SleepFrame(n) ==
    /\ pc = "body"
    /\ Yielded([type |-> "frame", delay |-> n])
    /\ due' = [due EXCEPT ![Running] = [time |-> 0, frame |-> frame + n + 1]]

\* coroutine.yield of the Lua library, which knows nothing of the slots.
Yield ==
    /\ pc = "body"
    /\ Yielded(sleep)
    /\ due' = [due EXCEPT ![Running] = [time |-> clock, frame |-> 0]]

\* The coroutine returns: the C++ coroutine ends too.
Return ==
    /\ pc = "body"
    /\ tasks' = [tasks EXCEPT ![pos].done = TRUE]
    /\ ended' = ended \cup {Running}
    /\ pos' = pos + 1
    /\ idle' = FALSE
    /\ pc' = "pass"
    /\ UNCHANGED <<handled, capacity, clock, frame, sleep, last, moved, due, passClock>>

\* Mutant of Throw: the script environment's error ends the loop too.
ThrowOut ==
    /\ pc = "body"
    /\ handled
    /\ tasks' = [tasks EXCEPT ![pos].done = TRUE]
    /\ ended' = ended \cup {Running}
    /\ pc' = "out"
    /\ UNCHANGED <<handled, capacity, clock, frame, sleep, pos, last, idle, moved, due,
                   passClock>>

\* The coroutine throws, and the error handler takes the error.
Throw ==
    /\ pc = "body"
    /\ handled
    /\ tasks' = [tasks EXCEPT ![pos].done = TRUE]
    /\ ended' = ended \cup {Running}
    /\ pos' = pos + 1
    /\ idle' = FALSE
    /\ pc' = "pass"
    /\ UNCHANGED <<handled, capacity, clock, frame, sleep, last, moved, due, passClock>>

\* Without a handler the error leaves the loop, and raise_error unloads the
\* addon with all it has scheduled.
ThrowUnhandled ==
    /\ pc = "body"
    /\ ~handled
    /\ tasks' = <<>>
    /\ pc' = "unloaded"
    /\ UNCHANGED <<handled, capacity, clock, frame, sleep, pos, last, idle, moved, due,
                   passClock, ended>>

AtEnd == pc = "pass" /\ pos > last

NextPass ==
    /\ AtEnd
    /\ ~idle
    /\ BeginPass
    /\ UNCHANGED <<handled, tasks, capacity, clock, frame, sleep, pc, due, ended>>

Pending(task) == ~task.done

\* The loop ends; what is done is erased.
Leave ==
    /\ AtEnd
    /\ idle
    /\ \E at \in Upwards({i \in DOMAIN tasks : Pending(tasks[i])}) : tasks' = Picked(tasks, at)
    /\ pc' = "out"
    /\ UNCHANGED <<handled, capacity, clock, frame, sleep, pos, last, idle, moved, due,
                   passClock, ended>>

(***************************************************************************)
(* The elements were moved while the loop was between two of them: the     *)
(* next one is read through a dangling reference, a task without a         *)
(* coroutine at best, whose wait_state() reads a null promise.             *)
(***************************************************************************)
Dangle ==
    /\ pc = "pass"
    /\ pos <= last
    /\ moved
    /\ pc' = "broken"
    /\ UNCHANGED <<handled, tasks, capacity, clock, frame, sleep, pos, last, idle, moved,
                   due, passClock, ended>>

\* script_environment::reset between two updates: the tasks and the
\* interpreter are replaced.
Reset ==
    /\ handled
    /\ pc = "out"
    /\ tasks' = <<>>
    /\ sleep' = NoSleep
    /\ UNCHANGED <<handled, capacity, clock, frame, pc, pos, last, idle, moved, due,
                   passClock, ended>>

\* A coroutine of the script environment gives the /reset command: the loop's
\* vector is cleared and the coroutine under way destroyed.
ResetWithin ==
    /\ handled
    /\ pc = "body"
    /\ pc' = "broken"
    /\ UNCHANGED <<handled, tasks, capacity, clock, frame, sleep, pos, last, idle, moved,
                   due, passClock, ended>>

-----------------------------------------------------------------------------
Resumed == StartDelay \/ Enter

Body ==
    \/ \E d \in Delays : SleepFor(d)
    \/ \E n \in FrameDelays : SleepFrame(n)
    \/ Yield
    \/ Return
    \/ Throw
    \/ ThrowUnhandled
    \/ ResetWithin

Loop == Skip \/ Resumed \/ NextPass \/ Leave \/ Dangle

Next ==
    \/ Tick
    \/ \E d \in Delays : Schedule(d)
    \/ NextFrame
    \/ Loop
    \/ Body
    \/ Reset

Spec == Init /\ [][Next]_vars

\* The game draws frames, and a resumed coroutine gives the thread back.
FairSpec == Spec /\ WF_vars(NextFrame) /\ WF_vars(Loop) /\ WF_vars(Body)

-----------------------------------------------------------------------------
(***************************************************************************)
(* Properties                                                              *)
(***************************************************************************)
TypeOK ==
    /\ handled \in Handled
    /\ tasks \in Seq(Task) /\ capacity \in Nat
    /\ clock \in Nat /\ frame \in Nat
    /\ sleep \in Sleep
    /\ pc \in {"out", "pass", "body", "unloaded", "broken"}
    /\ pos \in Nat /\ last \in Nat /\ idle \in BOOLEAN /\ moved \in BOOLEAN
    /\ due \in Seq(Wait) /\ Len(due) <= MaxTasks
    /\ passClock \in Nat
    /\ ended \subseteq Ids

\* A coroutine is never resumed before the time or the frame it asked for,
\* and never after it has ended.
NotEarly ==
    pc = "body" =>
        /\ due[Running].time <= clock
        /\ due[Running].frame <= frame
        /\ Running \notin ended

\* When run_until_idle returns, whatever the coroutines did and threw, it
\* leaves nothing it could have resumed: no coroutine, not one scheduled
\* meanwhile either, was ready when the last pass began.
NothingLeftReady ==
    [][pc # "out" /\ pc' = "out" =>
          \A i \in DOMAIN tasks :
              tasks[i].done \/ tasks[i].wait.time > passClock
                            \/ tasks[i].wait.frame > frame]_vars

\* A waiting coroutine waits for what it asked for itself.  This fails: a
\* plain coroutine.yield waits as long as the last sleep of another coroutine.
OwnDelay ==
    \A i \in DOMAIN tasks :
        tasks[i].started /\ ~tasks[i].done /\ (pc = "body" => pos # i)
            => tasks[i].wait = due[tasks[i].id]

Unstarted(id) == \E i \in DOMAIN tasks : tasks[i].id = id /\ ~tasks[i].started
Wakeable(id) == \E i \in DOMAIN tasks :
    tasks[i].id = id /\ tasks[i].started /\ Ready(tasks[i])
Entered(id) == pc = "body" /\ Running = id
Gone(id) == id \notin Scheduled \/ pc = "broken"

\* A coroutine whose time has come is resumed, even if others keep the loop
\* from ever returning.
ReadyIsResumed ==
    \A id \in Ids :
        /\ Unstarted(id) ~> ~Unstarted(id) \/ Gone(id)
        /\ Wakeable(id) ~> Entered(id) \/ Gone(id)
=============================================================================
