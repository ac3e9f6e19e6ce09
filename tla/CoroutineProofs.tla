---------------------------- MODULE CoroutineProofs ----------------------------
(***************************************************************************)
(* What the coroutines of an interpreter, and an event that registers its  *)
(* clients in coroutines, keep: for any delays, any number of coroutines   *)
(* and frames and both kinds of hosts, and for any clients, loads and      *)
(* registrations.                                                          *)
(*                                                                         *)
(* The scheduler.  What a task waits for is never before what its          *)
(* coroutine asked for, unless that has come already: a plain yield takes  *)
(* the delay of another coroutine, which only makes it wait too long.  And *)
(* a pass in which nothing was resumed has gone over all tasks there are,  *)
(* for only what is resumed schedules others.                              *)
(*                                                                         *)
(* The event.  While a trigger goes over the table, what the table holds   *)
(* is what it has kept, below its slot, and what it has not reached: the   *)
(* positions between the two are on their way to be removed.  A client     *)
(* that has a handler is led to from one of the positions held, or a       *)
(* coroutine is scheduled that puts it there.                              *)
(***************************************************************************)
EXTENDS Scheduler, RemoteEvent, FiniteSetTheorems, SequenceTheorems, WellFoundedInduction, TLAPS

-----------------------------------------------------------------------------
(***************************************************************************)
(* The invariant                                                           *)
(***************************************************************************)
\* The loop is at an element of the vector, or at the end of the pass.
Placed ==
    /\ pc \in {"pass", "body"} => pos \in 1 .. last + 1 /\ last <= Len(tasks)
    /\ pc = "body" => pos <= last
    /\ passClock <= clock

\* Every coroutine has one task, and a number of its own.
Numbered ==
    /\ \A i \in 1 .. Len(tasks) : tasks[i].id \in 1 .. Len(due)
    /\ \A i, j \in 1 .. Len(tasks) : tasks[i].id = tasks[j].id => i = j

\* A task does not wait less than its coroutine asked for.
Suffices(wait, asked) ==
    /\ asked.time <= wait.time \/ asked.time <= clock
    /\ asked.frame <= wait.frame \/ asked.frame <= frame

Awaited == \A i \in 1 .. Len(tasks) : Suffices(tasks[i].wait, due[tasks[i].id])

\* What has ended is done, and is not scheduled again.
EndedDone ==
    /\ ended \subseteq 1 .. Len(due)
    /\ \A i \in 1 .. Len(tasks) : tasks[i].id \in ended => tasks[i].done

\* A coroutine that is under way was ready.
InBody == pc = "body" => Ready(tasks[pos])

\* There was nothing to resume in a task when the pass began.
Settled(i) == tasks[i].done \/ tasks[i].wait.time > passClock \/ tasks[i].wait.frame > frame

\* As long as nothing was resumed, nothing was scheduled.
IdlePass ==
    pc = "pass" /\ idle => last = Len(tasks) /\ \A i \in 1 .. pos - 1 : Settled(i)

SchedulerInvariant ==
    TypeOK /\ Placed /\ Numbered /\ Awaited /\ EndedDone /\ InBody /\ IdlePass

-----------------------------------------------------------------------------
(***************************************************************************)
(* Tasks and waits                                                         *)
(***************************************************************************)
LEMMA WaitsTyped ==
    ASSUME TypeOK, NEW d \in Nat
    PROVE  sleep_for(d) \in Wait /\ sleep_frame(d) \in Wait /\ resume \in Wait
BY DEF TypeOK, sleep_for, sleep_frame, resume, Wait

\* The element the loop is at.
LEMMA RunningTyped ==
    ASSUME SchedulerInvariant, pc \in {"pass", "body"}, pos <= last
    PROVE  /\ pos \in 1 .. Len(tasks) /\ tasks[pos] \in Task
           /\ Running \in Ids /\ Running \in 1 .. Len(due)
<1>1. pos \in 1 .. Len(tasks)
  BY DEF SchedulerInvariant, Placed, TypeOK
<1>2. tasks[pos] \in Task
  BY <1>1 DEF SchedulerInvariant, TypeOK
<1>3. tasks[pos].id \in 1 .. Len(due) /\ tasks[pos].id \in Ids
  BY <1>1, <1>2 DEF SchedulerInvariant, Numbered, Task
<1> QED
  BY <1>1, <1>2, <1>3 DEF Running

\* The waits of the tasks, and of their coroutines.
LEMMA TaskTyped ==
    ASSUME SchedulerInvariant, NEW i \in 1 .. Len(tasks)
    PROVE  /\ tasks[i] \in Task /\ tasks[i].wait \in Wait
           /\ tasks[i].id \in 1 .. Len(due) /\ due[tasks[i].id] \in Wait
<1>1. tasks \in Seq(Task) /\ due \in Seq(Wait)
  BY DEF SchedulerInvariant, TypeOK
<1>2. tasks[i] \in Task
  BY <1>1
<1>3. tasks[i].wait \in Wait
  BY <1>2 DEF Task
<1>4. tasks[i].id \in 1 .. Len(due)
  BY DEF SchedulerInvariant, Numbered
<1>5. due[tasks[i].id] \in Wait
  BY <1>1, <1>4
<1> QED
  BY <1>2, <1>3, <1>4, <1>5

\* Between two steps of the clock or of the frames the tasks stay as they are.
LEMMA TimeKeeps ==
    ASSUME SchedulerInvariant, UNCHANGED <<tasks, due, ended>>,
           clock' \in Nat, frame' \in Nat, clock <= clock', frame <= frame'
    PROVE  Numbered' /\ Awaited' /\ EndedDone'
<1>1. Numbered' /\ EndedDone'
  BY DEF SchedulerInvariant, Numbered, EndedDone
<1>2. Awaited'
  <2> SUFFICES ASSUME NEW i \in 1 .. Len(tasks)
               PROVE  Suffices(tasks[i].wait, due[tasks[i].id])'
    BY DEF Awaited
  <2>1. Suffices(tasks[i].wait, due[tasks[i].id])
    BY DEF SchedulerInvariant, Awaited
  <2>2. tasks[i].wait \in Wait /\ due[tasks[i].id] \in Wait
    BY TaskTyped
  <2>3. clock \in Nat /\ frame \in Nat
    BY DEF SchedulerInvariant, TypeOK
  <2> QED
    BY <2>1, <2>2, <2>3 DEF Suffices, Wait
<1> QED
  BY <1>1, <1>2

(***************************************************************************)
(* The task under way is replaced: it waits anew, or is done.              *)
(***************************************************************************)
LEMMA ReplacedKeeps ==
    ASSUME SchedulerInvariant, UNCHANGED <<clock, frame>>,
           pos \in 1 .. Len(tasks), Running \in 1 .. Len(due),
           NEW new \in Task, new.id = Running, tasks' = [tasks EXCEPT ![pos] = new],
           NEW asked \in Wait, due' = [due EXCEPT ![Running] = asked],
           Suffices(new.wait, asked),
           ended' \in {ended, ended \cup {Running}}, Running \in ended' => new.done
    PROVE  /\ tasks' \in Seq(Task) /\ due' \in Seq(Wait) /\ Len(due') = Len(due)
           /\ Len(tasks') = Len(tasks)
           /\ Numbered' /\ Awaited' /\ EndedDone'
<1>1. tasks \in Seq(Task) /\ due \in Seq(Wait)
  BY DEF SchedulerInvariant, TypeOK
<1>2. /\ tasks' \in Seq(Task) /\ Len(tasks') = Len(tasks)
      /\ \A i \in 1 .. Len(tasks) : tasks'[i] = IF i = pos THEN new ELSE tasks[i]
  BY <1>1, ExceptSeq
<1>3. /\ due' \in Seq(Wait) /\ Len(due') = Len(due)
      /\ \A n \in 1 .. Len(due) : due'[n] = IF n = Running THEN asked ELSE due[n]
  BY <1>1, ExceptSeq
<1>4. \A i \in 1 .. Len(tasks) : tasks'[i].id = tasks[i].id /\ tasks[i].id \in 1 .. Len(due)
  BY <1>2, TaskTyped DEF Running
<1>5. \A i, j \in 1 .. Len(tasks) : tasks[i].id = tasks[j].id => i = j
  BY DEF SchedulerInvariant, Numbered
<1>6. Numbered'
  BY <1>2, <1>3, <1>4, <1>5 DEF Numbered
<1>7. Awaited'
  <2> SUFFICES ASSUME NEW i \in 1 .. Len(tasks)
               PROVE  Suffices(tasks'[i].wait, due'[tasks[i].id])
    BY <1>2, <1>4 DEF Awaited, Suffices
  <2>1. CASE i = pos
    BY <1>2, <1>3, <2>1 DEF Running
  <2>2. CASE i # pos
    <3>1. tasks[i].id # Running
      BY <1>5, <2>2 DEF Running
    <3>2. due'[tasks[i].id] = due[tasks[i].id] /\ tasks'[i] = tasks[i]
      BY <1>2, <1>3, <1>4, <2>2, <3>1
    <3> QED
      BY <3>2 DEF SchedulerInvariant, Awaited
  <2> QED
    BY <2>1, <2>2
<1>8. EndedDone'
  <2>1. ended' \subseteq 1 .. Len(due')
    BY <1>3 DEF SchedulerInvariant, EndedDone
  <2>2. ASSUME NEW i \in 1 .. Len(tasks), tasks[i].id \in ended'
        PROVE  tasks'[i].done
    <3>1. CASE i = pos
      BY <1>2, <2>2, <3>1 DEF Running
    <3>2. CASE i # pos
      <4>1. tasks[i].id # Running
        BY <1>5, <3>2 DEF Running
      <4> QED
        BY <1>2, <2>2, <3>2, <4>1 DEF SchedulerInvariant, EndedDone
    <3> QED
      BY <3>1, <3>2
  <2> QED
    BY <1>2, <1>4, <2>1, <2>2 DEF EndedDone
<1> QED
  BY <1>2, <1>3, <1>6, <1>7, <1>8

\* One step of the loop or of the coroutine under way, after which the loop
\* is at the next task.
LEMMA AdvancedKeeps ==
    ASSUME SchedulerInvariant, pc \in {"pass", "body"}, pos <= last,
           UNCHANGED <<handled, capacity, clock, frame, last, moved, passClock>>,
           sleep' \in Sleep, pos' = pos + 1, idle' = FALSE, pc' = "pass",
           NEW new \in Task, new.id = Running, tasks' = [tasks EXCEPT ![pos] = new],
           NEW asked \in Wait, due' = [due EXCEPT ![Running] = asked],
           Suffices(new.wait, asked),
           ended' \in {ended, ended \cup {Running}}, Running \in ended' => new.done
    PROVE  SchedulerInvariant'
<1>1. pos \in 1 .. Len(tasks) /\ Running \in Ids /\ Running \in 1 .. Len(due)
  BY RunningTyped
<1>2. /\ tasks' \in Seq(Task) /\ due' \in Seq(Wait) /\ Len(due') = Len(due)
      /\ Len(tasks') = Len(tasks)
      /\ Numbered' /\ Awaited' /\ EndedDone'
  BY <1>1, ReplacedKeeps
<1>3. ended' \subseteq Ids
  BY <1>1 DEF SchedulerInvariant, TypeOK
<1>4. TypeOK'
  <2>1. TypeOK
    BY DEF SchedulerInvariant
  <2>2. /\ handled' = handled /\ capacity' = capacity /\ clock' = clock /\ frame' = frame
        /\ last' = last /\ moved' = moved /\ passClock' = passClock
    OBVIOUS
  <2>3. pos' \in Nat /\ last' \in Nat /\ Len(due') <= MaxTasks
    BY <1>2, <2>1, <2>2 DEF TypeOK
  <2>4. idle' \in BOOLEAN /\ pc' \in {"out", "pass", "body", "unloaded", "broken"}
    OBVIOUS
  <2> QED
    BY <1>2, <1>3, <2>1, <2>2, <2>3, <2>4, Zenon DEF TypeOK
<1>5. Placed'
  BY <1>2 DEF SchedulerInvariant, TypeOK, Placed
<1>6. InBody' /\ IdlePass'
  BY DEF InBody, IdlePass
<1> QED
  BY <1>2, <1>4, <1>5, <1>6 DEF SchedulerInvariant

-----------------------------------------------------------------------------
(***************************************************************************)
(* The clock, the frames and what is scheduled                             *)
(***************************************************************************)
LEMMA InitHolds == Init => SchedulerInvariant
<1> SUFFICES ASSUME Init PROVE SchedulerInvariant
  OBVIOUS
<1>1. tasks = <<>> /\ due = <<>> /\ Len(tasks) = 0 /\ Len(due) = 0
  BY DEF Init
<1>2. TypeOK
  <2>1. sleep \in Sleep
    BY DEF Init, Sleep, NoSleep
  <2>2. tasks \in Seq(Task) /\ due \in Seq(Wait) /\ Len(due) <= MaxTasks
    BY <1>1, SchedulerAssumption
  <2>3. capacity \in Nat /\ clock \in Nat /\ frame \in Nat /\ pos \in Nat /\ last \in Nat
        /\ passClock \in Nat
    BY DEF Init
  <2>4. /\ idle \in BOOLEAN /\ moved \in BOOLEAN /\ handled \in Handled
        /\ ended \subseteq Ids /\ pc \in {"out", "pass", "body", "unloaded", "broken"}
    BY DEF Init
  <2> QED
    BY <2>1, <2>2, <2>3, <2>4, Zenon DEF TypeOK
<1>3. Placed /\ InBody /\ IdlePass
  BY DEF Init, Placed, InBody, IdlePass
<1>4. Numbered /\ Awaited /\ EndedDone
  BY <1>1 DEF Init, Numbered, Awaited, EndedDone
<1> QED
  BY <1>2, <1>3, <1>4 DEF SchedulerInvariant

LEMMA TickKeeps == ASSUME SchedulerInvariant, Tick PROVE SchedulerInvariant'
<1>1. clock \in Nat /\ frame \in Nat /\ clock' \in Nat /\ frame' = frame /\ clock <= clock'
  BY DEF Tick, SchedulerInvariant, TypeOK
<1>2. Numbered' /\ Awaited' /\ EndedDone'
  BY <1>1, TimeKeeps DEF Tick
<1>3. TypeOK'
  BY <1>1 DEF Tick, SchedulerInvariant, TypeOK
<1>4. Placed'
  BY <1>1 DEF Tick, SchedulerInvariant, TypeOK, Placed
<1>5. IdlePass'
  BY DEF Tick, SchedulerInvariant, IdlePass, Settled
<1>6. InBody'
  <2> SUFFICES ASSUME pc = "body"
               PROVE  Ready(tasks[pos])'
    BY DEF Tick, InBody
  <2>1. tasks[pos] \in Task /\ Ready(tasks[pos])
    BY RunningTyped DEF SchedulerInvariant, Placed, InBody
  <2> QED
    BY <1>1, <2>1 DEF Tick, Ready, Task, Wait
<1> QED
  BY <1>2, <1>3, <1>4, <1>5, <1>6 DEF SchedulerInvariant

LEMMA ScheduleKeeps ==
    ASSUME SchedulerInvariant, NEW delay \in Delays, Schedule(delay)
    PROVE  SchedulerInvariant'
<1> DEFINE new == [id |-> Len(due) + 1, wait |-> resume, delay |-> delay,
                   started |-> FALSE, done |-> FALSE]
<1>1. tasks \in Seq(Task) /\ due \in Seq(Wait) /\ Len(due) \in Nat /\ Len(tasks) \in Nat
  BY DEF SchedulerInvariant, TypeOK
<1>2. resume \in Wait /\ resume.time = 0 /\ resume.frame = 0
  BY DEF resume, Wait
<1>3. Len(due) + 1 \in Ids
  BY <1>1, SchedulerAssumption DEF Schedule, Ids
<1>4. /\ new \in Task /\ new.id = Len(due) + 1 /\ new.wait = resume /\ ~new.done
  BY <1>2, <1>3, SchedulerAssumption DEF Task
<1>5. tasks' = Append(tasks, new)
  BY DEF Schedule
<1> HIDE DEF new
<1>6. /\ tasks' \in Seq(Task) /\ Len(tasks') = Len(tasks) + 1
      /\ tasks'[Len(tasks) + 1] = new
      /\ \A i \in 1 .. Len(tasks) : tasks'[i] = tasks[i]
  BY <1>1, <1>4, <1>5, AppendProperties
<1>7. /\ due' \in Seq(Wait) /\ Len(due') = Len(due) + 1
      /\ due'[Len(due) + 1] = resume
      /\ \A n \in 1 .. Len(due) : due'[n] = due[n]
  BY <1>1, <1>2, AppendProperties DEF Schedule
<1>8. capacity' \in Nat /\ moved' \in BOOLEAN
  <2>1. capacity \in Nat /\ capacity \div 2 \in Nat
    BY DEF SchedulerInvariant, TypeOK
  <2>2. Grown \in Nat
    BY <1>1, <2>1 DEF Grown
  <2> QED
    BY <2>1, <2>2 DEF Schedule, SchedulerInvariant, TypeOK
<1>9. Len(due) < MaxTasks /\ pc \in {"out", "body"} /\ MaxTasks \in Nat
  BY SchedulerAssumption DEF Schedule
<1>10. UNCHANGED <<handled, clock, frame, sleep, pc, pos, last, idle, passClock, ended>>
  BY DEF Schedule
<1>11. Len(due') <= MaxTasks
  BY <1>1, <1>7, <1>9
<1>12. TypeOK'
  BY <1>6, <1>7, <1>8, <1>10, <1>11 DEF SchedulerInvariant, TypeOK
<1>13. Placed' /\ IdlePass'
  BY <1>1, <1>6, <1>9, <1>10 DEF SchedulerInvariant, TypeOK, Placed, IdlePass
<1>14. \A i \in 1 .. Len(tasks) : tasks[i].id \in 1 .. Len(due)
  BY TaskTyped
<1>15. Numbered'
  <2>1. ASSUME NEW i \in 1 .. Len(tasks) + 1
        PROVE  /\ tasks'[i].id \in 1 .. Len(due) + 1
               /\ i \in 1 .. Len(tasks) => tasks'[i].id # Len(due) + 1
    BY <1>1, <1>4, <1>6, <1>14
  <2>2. ASSUME NEW i \in 1 .. Len(tasks) + 1, NEW j \in 1 .. Len(tasks) + 1,
               tasks'[i].id = tasks'[j].id
        PROVE  i = j
    <3>1. \A k \in 1 .. Len(tasks) + 1 : k = Len(tasks) + 1 \/ k \in 1 .. Len(tasks)
      BY <1>1
    <3>2. CASE i \in 1 .. Len(tasks) /\ j \in 1 .. Len(tasks)
      <4>1. tasks[i].id = tasks[j].id
        BY <1>6, <2>2, <3>2
      <4> QED
        BY <3>2, <4>1 DEF SchedulerInvariant, Numbered
    <3>3. tasks'[Len(tasks) + 1].id = Len(due) + 1
      BY <1>4, <1>6
    <3> QED
      BY <2>1, <2>2, <3>1, <3>2, <3>3
  <2> QED
    BY <1>6, <1>7, <2>1, <2>2 DEF Numbered
<1>16. Awaited'
  <2> SUFFICES ASSUME NEW i \in 1 .. Len(tasks) + 1
               PROVE  Suffices(tasks'[i].wait, due'[tasks'[i].id])
    BY <1>6, <1>10 DEF Awaited, Suffices
  <2>1. CASE i = Len(tasks) + 1
    BY <1>2, <1>4, <1>6, <1>7, <2>1 DEF Suffices
  <2>2. CASE i # Len(tasks) + 1
    <3>1. i \in 1 .. Len(tasks)
      BY <1>1, <2>2
    <3> QED
      BY <1>6, <1>7, <1>14, <3>1 DEF SchedulerInvariant, Awaited
  <2> QED
    BY <2>1, <2>2
<1>17. EndedDone'
  <2>1. ended \subseteq 1 .. Len(due')
    BY <1>1, <1>7 DEF SchedulerInvariant, EndedDone
  <2>2. Len(due) + 1 \notin ended
    BY <1>1 DEF SchedulerInvariant, EndedDone
  <2>3. ASSUME NEW i \in 1 .. Len(tasks) + 1, tasks'[i].id \in ended
        PROVE  tasks'[i].done
    <3>1. i # Len(tasks) + 1
      BY <1>4, <1>6, <2>2, <2>3
    <3>2. i \in 1 .. Len(tasks)
      BY <1>1, <3>1
    <3> QED
      BY <1>6, <2>3, <3>2 DEF SchedulerInvariant, EndedDone
  <2> QED
    BY <1>6, <1>10, <2>1, <2>3 DEF EndedDone
<1>18. InBody'
  <2> SUFFICES ASSUME pc = "body"
               PROVE  Ready(tasks'[pos])
    BY <1>10 DEF InBody, Ready
  <2>1. pos \in 1 .. Len(tasks)
    BY RunningTyped DEF SchedulerInvariant, Placed
  <2> QED
    BY <1>6, <2>1 DEF SchedulerInvariant, InBody
<1> QED
  BY <1>12, <1>13, <1>15, <1>16, <1>17, <1>18 DEF SchedulerInvariant

LEMMA NextFrameKeeps == ASSUME SchedulerInvariant, NextFrame PROVE SchedulerInvariant'
<1>1. clock \in Nat /\ frame \in Nat /\ clock' = clock /\ frame' \in Nat /\ frame <= frame'
  BY DEF NextFrame, SchedulerInvariant, TypeOK
<1>2. Numbered' /\ Awaited' /\ EndedDone'
  BY <1>1, TimeKeeps DEF NextFrame
<1>3. Len(tasks) \in Nat
  BY DEF SchedulerInvariant, TypeOK
<1>4. TypeOK'
  <2>1. TypeOK
    BY DEF SchedulerInvariant
  <2>2. /\ pos' \in Nat /\ last' \in Nat /\ idle' \in BOOLEAN /\ moved' \in BOOLEAN
        /\ pc' \in {"out", "pass", "body", "unloaded", "broken"} /\ passClock' \in Nat
    <3>1. CASE tasks = <<>>
      BY <2>1, <3>1 DEF NextFrame, TypeOK
    <3>2. CASE tasks # <<>>
      <4>1. pos' = 1 /\ last' = Len(tasks) /\ idle' = TRUE /\ moved' = FALSE
            /\ passClock' = clock /\ pc' = "pass"
        BY <3>2 DEF NextFrame, BeginPass
      <4> QED
        BY <1>1, <1>3, <4>1
    <3> QED
      BY <3>1, <3>2
  <2>3. UNCHANGED <<handled, tasks, capacity, clock, sleep, due, ended>>
    BY DEF NextFrame
  <2> QED
    BY <1>1, <2>1, <2>2, <2>3 DEF TypeOK
<1>5. Placed'
  BY <1>1, <1>3 DEF NextFrame, BeginPass, SchedulerInvariant, TypeOK, Placed
<1>6. InBody' /\ IdlePass'
  BY <1>3 DEF NextFrame, BeginPass, InBody, IdlePass
<1> QED
  BY <1>2, <1>4, <1>5, <1>6 DEF SchedulerInvariant

-----------------------------------------------------------------------------
(***************************************************************************)
(* The loop                                                                *)
(***************************************************************************)
LEMMA SkipKeeps == ASSUME SchedulerInvariant, Skip PROVE SchedulerInvariant'
<1>1. pos \in 1 .. Len(tasks) /\ tasks[pos] \in Task
  BY RunningTyped DEF Skip, AtTask
<1>2. Numbered' /\ Awaited' /\ EndedDone'
  BY TimeKeeps DEF Skip, SchedulerInvariant, TypeOK
<1>3. TypeOK' /\ Placed' /\ InBody'
  BY DEF Skip, AtTask, SchedulerInvariant, TypeOK, Placed, InBody
<1>4. Settled(pos)
  BY <1>1, SMTT(30) DEF Skip, Ready, Settled, Task, Wait, SchedulerInvariant, TypeOK, Placed
<1>5. IdlePass'
  <2> SUFFICES ASSUME idle
               PROVE  last = Len(tasks) /\ \A i \in 1 .. pos : Settled(i)
    BY <1>1 DEF Skip, IdlePass, Settled
  <2>1. last = Len(tasks) /\ \A i \in 1 .. pos - 1 : Settled(i)
    BY DEF Skip, AtTask, SchedulerInvariant, IdlePass
  <2> QED
    BY <1>1, <1>4, <2>1
<1> QED
  BY <1>2, <1>3, <1>5 DEF SchedulerInvariant

LEMMA StartDelayKeeps == ASSUME SchedulerInvariant, StartDelay PROVE SchedulerInvariant'
<1> DEFINE wait == sleep_for(tasks[pos].delay)
           new == [tasks[pos] EXCEPT !.started = TRUE, !.wait = wait]
<1>1. /\ pos \in 1 .. Len(tasks) /\ tasks[pos] \in Task
      /\ Running \in Ids /\ Running \in 1 .. Len(due)
  BY RunningTyped DEF StartDelay, AtTask
<1>2. wait \in Wait
  BY <1>1, WaitsTyped DEF SchedulerInvariant, Task
<1>3. tasks' = [tasks EXCEPT ![pos] = new] /\ due' = [due EXCEPT ![Running] = wait]
  BY DEF StartDelay
<1> HIDE DEF wait
<1>4. new \in Task /\ new.id = Running /\ new.wait = wait /\ new.done = tasks[pos].done
  BY <1>1, <1>2 DEF Task, Running
<1>5. Running \notin ended
  BY <1>1 DEF StartDelay, Ready, SchedulerInvariant, EndedDone, Running
<1>6. Suffices(new.wait, wait)
  BY <1>2, <1>4 DEF Suffices, Wait
<1> HIDE DEF new
<1> QED
  BY <1>1, <1>2, <1>3, <1>4, <1>5, <1>6, AdvancedKeeps
     DEF StartDelay, AtTask, SchedulerInvariant, TypeOK

LEMMA EnterKeeps == ASSUME SchedulerInvariant, Enter PROVE SchedulerInvariant'
<1>1. Numbered' /\ Awaited' /\ EndedDone'
  BY TimeKeeps DEF Enter, SchedulerInvariant, TypeOK
<1>2. TypeOK' /\ Placed' /\ IdlePass'
  BY DEF Enter, AtTask, SchedulerInvariant, TypeOK, Placed, IdlePass
<1>3. InBody'
  BY DEF Enter, InBody, Ready
<1> QED
  BY <1>1, <1>2, <1>3 DEF SchedulerInvariant

LEMMA NextPassKeeps == ASSUME SchedulerInvariant, NextPass PROVE SchedulerInvariant'
<1>1. Numbered' /\ Awaited' /\ EndedDone'
  BY TimeKeeps DEF NextPass, SchedulerInvariant, TypeOK
<1>2. Len(tasks) \in Nat
  BY DEF SchedulerInvariant, TypeOK
<1>3. TypeOK'
  <2>1. TypeOK
    BY DEF SchedulerInvariant
  <2>2. /\ pos' \in Nat /\ last' \in Nat /\ idle' \in BOOLEAN /\ moved' \in BOOLEAN
        /\ passClock' \in Nat
    BY <1>2, <2>1 DEF NextPass, BeginPass, TypeOK
  <2>3. UNCHANGED <<handled, tasks, capacity, clock, frame, sleep, pc, due, ended>>
    BY DEF NextPass
  <2> QED
    BY <2>1, <2>2, <2>3 DEF TypeOK
<1>4. Placed'
  BY <1>2 DEF NextPass, AtEnd, BeginPass, SchedulerInvariant, TypeOK, Placed
<1>5. InBody' /\ IdlePass'
  BY <1>2 DEF NextPass, AtEnd, BeginPass, InBody, IdlePass
<1> QED
  BY <1>1, <1>3, <1>5, <1>4 DEF SchedulerInvariant

\* What is done is erased: the positions that stay are counted upwards, so no
\* task is left twice.
LEMMA LeaveKeeps == ASSUME SchedulerInvariant, Leave PROVE SchedulerInvariant'
<1> DEFINE Left == {i \in DOMAIN tasks : Pending(tasks[i])}
<1>1. tasks \in Seq(Task) /\ Len(tasks) \in Nat /\ DOMAIN tasks = 1 .. Len(tasks)
  BY DEF SchedulerInvariant, TypeOK
<1>2. PICK where \in Upwards(Left) : tasks' = Picked(tasks, where)
  BY DEF Leave
<1>3. Left \subseteq 1 .. Len(tasks)
  BY <1>1
<1>4. Cardinality(Left) \in Nat
  <2>1. IsFiniteSet(1 .. Len(tasks))
    BY <1>1, FS_Interval
  <2>2. IsFiniteSet(Left)
    BY <1>3, <2>1, FS_Subset
  <2> QED
    BY <2>2, FS_CardinalityType
<1> DEFINE n == Cardinality(Left)
<1> HIDE DEF Left, n
<1>5. /\ n \in Nat /\ DOMAIN where = 1 .. n /\ \A k \in 1 .. n : where[k] \in 1 .. Len(tasks)
      /\ \A j, k \in 1 .. n : j < k => where[j] < where[k]
  BY <1>2, <1>3, <1>4 DEF Upwards, n
<1>6. tasks' = [k \in 1 .. n |-> tasks[where[k]]]
  BY <1>2, <1>5 DEF Picked
<1>7. \A k \in 1 .. n : tasks[where[k]] \in Task
  BY <1>1, <1>5
<1>8. /\ tasks' \in Seq(Task) /\ Len(tasks') = n
      /\ \A k \in 1 .. n : tasks'[k] = tasks[where[k]]
  BY <1>5, <1>6, <1>7, IsASeq
<1>9. \A j, k \in 1 .. n : where[j] = where[k] => j = k
  <2> SUFFICES ASSUME NEW j \in 1 .. n, NEW k \in 1 .. n, where[j] = where[k], j # k
               PROVE  FALSE
    OBVIOUS
  <2>1. where[j] \in Nat /\ where[k] \in Nat
    BY <1>5
  <2>2. where[j] < where[k] \/ where[k] < where[j]
    BY <1>5
  <2> QED
    BY <2>1, <2>2
<1>10. UNCHANGED <<handled, capacity, clock, frame, sleep, pos, last, idle, moved, due,
                  passClock, ended>>
  BY DEF Leave
<1>11. pc' = "out"
  BY DEF Leave
<1>12. TypeOK'
  BY <1>8, <1>10, <1>11 DEF SchedulerInvariant, TypeOK
<1>13. Placed' /\ InBody' /\ IdlePass'
  BY <1>10, <1>11 DEF SchedulerInvariant, Placed, InBody, IdlePass
<1>14. Numbered'
  <2>1. ASSUME NEW k \in 1 .. n
        PROVE  tasks'[k].id \in 1 .. Len(due)
    BY <1>5, <1>8, TaskTyped
  <2>2. ASSUME NEW j \in 1 .. n, NEW k \in 1 .. n, tasks'[j].id = tasks'[k].id
        PROVE  j = k
    <3>1. where[j] \in 1 .. Len(tasks) /\ where[k] \in 1 .. Len(tasks)
      BY <1>5
    <3>2. tasks[where[j]].id = tasks[where[k]].id
      BY <1>8, <2>2
    <3>3. where[j] = where[k]
      BY <3>1, <3>2 DEF SchedulerInvariant, Numbered
    <3> QED
      BY <1>9, <3>3
  <2> QED
    BY <1>8, <1>10, <2>1, <2>2 DEF Numbered
<1>15. Awaited'
  <2> SUFFICES ASSUME NEW k \in 1 .. n
               PROVE  Suffices(tasks[where[k]].wait, due[tasks[where[k]].id])
    BY <1>8, <1>10 DEF Awaited, Suffices
  <2>1. where[k] \in 1 .. Len(tasks)
    BY <1>5
  <2> QED
    BY <2>1 DEF SchedulerInvariant, Awaited
<1>16. EndedDone'
  <2>1. ASSUME NEW k \in 1 .. n, tasks[where[k]].id \in ended
        PROVE  tasks[where[k]].done
    <3>1. where[k] \in 1 .. Len(tasks)
      BY <1>5
    <3> QED
      BY <2>1, <3>1 DEF SchedulerInvariant, EndedDone
  <2>2. ended \subseteq 1 .. Len(due)
    BY DEF SchedulerInvariant, EndedDone
  <2> QED
    BY <1>8, <1>10, <2>1, <2>2 DEF EndedDone
<1> QED
  BY <1>12, <1>13, <1>14, <1>15, <1>16 DEF SchedulerInvariant

LEMMA DangleKeeps == ASSUME SchedulerInvariant, Dangle PROVE SchedulerInvariant'
<1>1. Numbered' /\ Awaited' /\ EndedDone'
  BY TimeKeeps DEF Dangle, SchedulerInvariant, TypeOK
<1>2. TypeOK' /\ Placed' /\ InBody' /\ IdlePass'
  BY DEF Dangle, SchedulerInvariant, TypeOK, Placed, InBody, IdlePass
<1> QED
  BY <1>1, <1>2 DEF SchedulerInvariant

-----------------------------------------------------------------------------
(***************************************************************************)
(* The coroutine under way                                                 *)
(***************************************************************************)
\* What it leaves in the slots may be what another one has asked for: it is
\* resumed when that has passed.
LEMMA YieldedKeeps ==
    ASSUME SchedulerInvariant, pc = "body", NEW slots \in Sleep, Yielded(slots),
           NEW asked \in Wait, due' = [due EXCEPT ![Running] = asked],
           \/ asked = [time |-> clock, frame |-> 0]
           \/ slots.type = "time" /\ asked = sleep_for(slots.delay)
           \/ slots.type = "frame" /\ asked = sleep_frame(slots.delay + 1)
    PROVE  SchedulerInvariant'
<1> DEFINE wait == IF slots.type = "time" THEN sleep_for(slots.delay)
                   ELSE sleep_frame(slots.delay + 1)
           new == [tasks[pos] EXCEPT !.wait = wait]
<1>1. pos <= last
  BY DEF SchedulerInvariant, Placed
<1>2. /\ pos \in 1 .. Len(tasks) /\ tasks[pos] \in Task
      /\ Running \in Ids /\ Running \in 1 .. Len(due)
  BY <1>1, RunningTyped
<1>3. slots.delay \in Nat /\ slots.delay + 1 \in Nat /\ slots.type \in {"time", "frame"}
  BY DEF Sleep
<1>4. wait \in Wait
  BY <1>3, WaitsTyped DEF SchedulerInvariant
<1>5. Suffices(wait, asked)
  BY <1>3, <1>4, SMTT(30) DEF Suffices, Wait, sleep_for, sleep_frame, SchedulerInvariant, TypeOK
<1>6. tasks' = [tasks EXCEPT ![pos] = new]
  BY DEF Yielded
<1> HIDE DEF wait
<1>7. new \in Task /\ new.id = Running /\ new.wait = wait /\ new.done = tasks[pos].done
  BY <1>2, <1>4 DEF Task, Running
<1>8. Running \notin ended
  BY <1>2 DEF Ready, SchedulerInvariant, EndedDone, InBody, Running
<1> HIDE DEF new
<1> QED
  BY <1>1, <1>2, <1>5, <1>6, <1>7, <1>8, AdvancedKeeps DEF Yielded

LEMMA SleepForKeeps ==
    ASSUME SchedulerInvariant, NEW d \in Delays, SleepFor(d) PROVE SchedulerInvariant'
<1>1. d \in Nat
  BY SchedulerAssumption
<1>2. sleep_for(d) \in Wait
  BY <1>1, WaitsTyped DEF SchedulerInvariant
<1>3. PICK slots \in Sleep : Yielded(slots) /\ slots.type = "time" /\ slots.delay = d
  BY <1>1 DEF SleepFor, Sleep
<1>4. due' = [due EXCEPT ![Running] = sleep_for(d)]
  BY DEF SleepFor, sleep_for
<1> QED
  BY <1>2, <1>3, <1>4, YieldedKeeps DEF SleepFor

LEMMA SleepFrameKeeps ==
    ASSUME SchedulerInvariant, NEW n \in FrameDelays, SleepFrame(n) PROVE SchedulerInvariant'
<1>1. n \in Nat /\ n + 1 \in Nat /\ frame \in Nat
  BY SchedulerAssumption DEF SchedulerInvariant, TypeOK
<1>2. sleep_frame(n + 1) \in Wait
  BY <1>1, WaitsTyped DEF SchedulerInvariant
<1>3. PICK slots \in Sleep : Yielded(slots) /\ slots.type = "frame" /\ slots.delay = n
  BY <1>1 DEF SleepFrame, Sleep
<1>4. frame + n + 1 = frame + (n + 1)
  BY <1>1
<1>5. due' = [due EXCEPT ![Running] = sleep_frame(n + 1)]
  BY <1>4 DEF SleepFrame, sleep_frame
<1> QED
  BY <1>2, <1>3, <1>5, YieldedKeeps DEF SleepFrame

LEMMA YieldKeeps == ASSUME SchedulerInvariant, Yield PROVE SchedulerInvariant'
<1>1. sleep \in Sleep /\ [time |-> clock, frame |-> 0] \in Wait
  BY DEF SchedulerInvariant, TypeOK, Wait
<1> QED
  BY <1>1, YieldedKeeps DEF Yield

\* It returns, or throws and the error handler takes the error.
LEMMA FinishedKeeps ==
    ASSUME SchedulerInvariant, Return \/ Throw PROVE SchedulerInvariant'
<1> DEFINE new == [tasks[pos] EXCEPT !.done = TRUE]
           asked == due[Running]
<1>1. pc = "body" /\ pos <= last
  BY DEF Return, Throw, SchedulerInvariant, Placed
<1>2. /\ pos \in 1 .. Len(tasks) /\ tasks[pos] \in Task
      /\ Running \in Ids /\ Running \in 1 .. Len(due)
  BY <1>1, RunningTyped
<1>3. new \in Task /\ new.id = Running /\ new.wait = tasks[pos].wait /\ new.done
  BY <1>2 DEF Task, Running
<1>4. tasks' = [tasks EXCEPT ![pos] = new]
  BY DEF Return, Throw
<1>5. due \in Seq(Wait) /\ sleep \in Sleep
  BY DEF SchedulerInvariant, TypeOK
<1>6. asked \in Wait /\ due' = [due EXCEPT ![Running] = asked]
  BY <1>2, <1>5 DEF Return, Throw
<1>7. Suffices(new.wait, asked)
  BY <1>2, <1>3 DEF SchedulerInvariant, Awaited, Running
<1> HIDE DEF new, asked
<1> QED
  BY <1>1, <1>2, <1>3, <1>4, <1>5, <1>6, <1>7, AdvancedKeeps DEF Return, Throw

\* The addon is unloaded, or the script environment reset between two frames.
LEMMA ClearedKeeps ==
    ASSUME SchedulerInvariant, ThrowUnhandled \/ Reset PROVE SchedulerInvariant'
<1>1. tasks' = <<>> /\ due' = due /\ ended' = ended
  BY DEF ThrowUnhandled, Reset
<1>2. /\ tasks' = <<>> /\ tasks' \in Seq(Task) /\ Len(tasks') = 0
      /\ due' = due /\ ended' = ended
  BY <1>1
<1>3. Numbered' /\ Awaited' /\ EndedDone'
  BY <1>2 DEF SchedulerInvariant, Numbered, Awaited, EndedDone
<1>4. TypeOK'
  <2>1. TypeOK
    BY DEF SchedulerInvariant
  <2>2. sleep' \in Sleep /\ pc' \in {"out", "pass", "body", "unloaded", "broken"}
    BY <2>1 DEF ThrowUnhandled, Reset, TypeOK, NoSleep, Sleep
  <2>3. UNCHANGED <<handled, capacity, clock, frame, pos, last, idle, moved, passClock>>
    BY DEF ThrowUnhandled, Reset
  <2> QED
    BY <1>2, <2>1, <2>2, <2>3 DEF TypeOK
<1>5. UNCHANGED <<clock, passClock>> /\ pc' \in {"out", "unloaded"}
  <2>1. CASE ThrowUnhandled
    BY <2>1 DEF ThrowUnhandled
  <2>2. CASE Reset
    BY <2>2 DEF Reset
  <2> QED
    BY <2>1, <2>2
<1>6. Placed' /\ InBody' /\ IdlePass'
  BY <1>5 DEF SchedulerInvariant, Placed, InBody, IdlePass
<1> QED
  BY <1>3, <1>4, <1>6 DEF SchedulerInvariant

LEMMA ResetWithinKeeps == ASSUME SchedulerInvariant, ResetWithin PROVE SchedulerInvariant'
<1>1. /\ UNCHANGED <<tasks, due, ended>> /\ UNCHANGED <<clock, frame>>
      /\ clock \in Nat /\ frame \in Nat
  BY DEF ResetWithin, SchedulerInvariant, TypeOK
<1>2. Numbered' /\ Awaited' /\ EndedDone'
  BY <1>1, TimeKeeps
<1>3. TypeOK' /\ Placed' /\ InBody' /\ IdlePass'
  BY DEF ResetWithin, SchedulerInvariant, TypeOK, Placed, InBody, IdlePass
<1> QED
  BY <1>2, <1>3 DEF SchedulerInvariant

LEMMA UnchangedKeeps == ASSUME SchedulerInvariant, UNCHANGED vars PROVE SchedulerInvariant'
<1>1. Numbered' /\ Awaited' /\ EndedDone'
  BY TimeKeeps DEF vars, SchedulerInvariant, TypeOK
<1>2. TypeOK' /\ Placed' /\ InBody' /\ IdlePass'
  BY DEF vars, SchedulerInvariant, TypeOK, Placed, InBody, Ready, IdlePass, Settled
<1> QED
  BY <1>1, <1>2 DEF SchedulerInvariant

-----------------------------------------------------------------------------
(***************************************************************************)
(* The theorems                                                            *)
(***************************************************************************)
\* The inductive invariant holds in every state scheduler::run_until_idle, the
\* coroutines it resumes and the frames between them reach.
THEOREM InvariantHolds == Spec => []SchedulerInvariant
<1>1. SchedulerInvariant /\ [Next]_vars => SchedulerInvariant'
  <2> SUFFICES ASSUME SchedulerInvariant, [Next]_vars PROVE SchedulerInvariant'
    OBVIOUS
  <2>1. CASE Tick
    BY <2>1, TickKeeps
  <2>2. CASE \E d \in Delays : Schedule(d)
    BY <2>2, ScheduleKeeps
  <2>3. CASE NextFrame
    BY <2>3, NextFrameKeeps
  <2>4. CASE Loop
    BY <2>4, SkipKeeps, StartDelayKeeps, EnterKeeps, NextPassKeeps, LeaveKeeps, DangleKeeps
       DEF Loop, Resumed
  <2>5. CASE Body
    BY <2>5, SleepForKeeps, SleepFrameKeeps, YieldKeeps, FinishedKeeps, ClearedKeeps,
       ResetWithinKeeps DEF Body
  <2>6. CASE Reset
    BY <2>6, ClearedKeeps
  <2>7. CASE UNCHANGED vars
    BY <2>7, UnchangedKeeps
  <2> QED
    BY <2>1, <2>2, <2>3, <2>4, <2>5, <2>6, <2>7 DEF Next
<1> QED
  BY <1>1, InitHolds, PTL DEF Spec

\* Every variable of the scheduler has its type.
THEOREM TypeOKHolds == Spec => []TypeOK
<1>1. SchedulerInvariant => TypeOK
  BY DEF SchedulerInvariant
<1> QED
  BY <1>1, InvariantHolds, PTL

\* run_until_idle resumes no coroutine before the time or the frame it asked
\* for, and none that has ended, whoever wrote the slots its delay is read from.
THEOREM NotEarlyHolds == Spec => []NotEarly
<1>1. SchedulerInvariant => NotEarly
  <2> SUFFICES ASSUME SchedulerInvariant, pc = "body"
               PROVE  /\ due[Running].time <= clock
                      /\ due[Running].frame <= frame
                      /\ Running \notin ended
    BY DEF NotEarly
  <2>1. pos \in 1 .. Len(tasks) /\ clock \in Nat /\ frame \in Nat
    BY RunningTyped DEF SchedulerInvariant, Placed, TypeOK
  <2>2. tasks[pos].wait \in Wait /\ due[Running] \in Wait
    BY <2>1, TaskTyped DEF Running
  <2>3. Ready(tasks[pos]) /\ Suffices(tasks[pos].wait, due[Running])
    BY <2>1 DEF SchedulerInvariant, InBody, Awaited, Running
  <2>4. Running \notin ended
    BY <2>1, <2>3 DEF SchedulerInvariant, EndedDone, Ready, Running
  <2> QED
    BY <2>1, <2>2, <2>3, <2>4 DEF Ready, Suffices, Wait
<1> QED
  BY <1>1, InvariantHolds, PTL

\* When run_until_idle returns, the last pass has gone over every task there
\* is, those scheduled meanwhile too, and none was ready when it began.
THEOREM NothingLeftReadyHolds == Spec => NothingLeftReady
<1> DEFINE Left == \A i \in DOMAIN tasks :
                       tasks[i].done \/ tasks[i].wait.time > passClock
                                     \/ tasks[i].wait.frame > frame
<1>1. ASSUME SchedulerInvariant, [Next]_vars, pc # "out", pc' = "out"
      PROVE  Left
  <2>1. Leave
    BY <1>1 DEF Next, Tick, Schedule, NextFrame, Loop, Resumed, Body, Skip, StartDelay, Enter,
                NextPass, Dangle, SleepFor, SleepFrame, Yield, Yielded, Return, Throw,
                ThrowUnhandled, ResetWithin, Reset, vars
  <2>2. pc = "pass" /\ idle /\ pos > last
    BY <2>1 DEF Leave, AtEnd
  <2>3. last = Len(tasks) /\ \A i \in 1 .. pos - 1 : Settled(i)
    BY <1>1, <2>2 DEF SchedulerInvariant, IdlePass
  <2>4. DOMAIN tasks = 1 .. Len(tasks) /\ Len(tasks) \in Nat /\ pos \in Nat
    BY <1>1 DEF SchedulerInvariant, TypeOK
  <2>5. \A i \in 1 .. Len(tasks) : Settled(i)
    BY <2>2, <2>3, <2>4
  <2> QED
    BY <2>4, <2>5 DEF Settled
<1>2. SchedulerInvariant /\ [Next]_vars => [pc # "out" /\ pc' = "out" => Left]_vars
  BY <1>1
<1> QED
  BY <1>2, InvariantHolds, PTL DEF Spec, NothingLeftReady

-----------------------------------------------------------------------------
(***************************************************************************)
(* The event: the invariant                                                *)
(***************************************************************************)
\* Where the handler at i leads to, while its client is there.
Leads(i, c) == handlers[i] # nil /\ handlers[i].client = c /\ Live(c, handlers[i].to)

\* What the table holds while a trigger goes over it: what it kept, and what is before it.
Held == IF at = 0 THEN 1 .. count ELSE (1 .. slot - 1) \cup (at .. count)

\* What is loaded is installed, and what is not has no event.
Owned ==
    /\ \A c \in Clients : loaded[c] => c \in installed
    /\ \A c \in Clients : ~loaded[c] => local[c] = "none"
    /\ oneShot => \A c, d \in installed : c = d
    /\ at # 0 => slot >= 1

\* The handler looked up for a client is its own.
LookupOwn == \A c \in Clients : lookup[c] = nil \/ lookup[c].client = c

\* A client with a handler is to be registered, or the table leads to it.
Registered ==
    \A c \in Clients : loaded[c] /\ local[c] = "handler" =>
        c \in ToSet(scheduled) \/ \E i \in Held : Leads(i, c)

\* A client the trigger has to reach was reached, or is before it.
ToHear ==
    at # 0 => \A c \in subscribed : loaded[c] =>
        \/ heard[c] > 0
        \/ local[c] = "handler" /\ \E i \in at .. count : Leads(i, c)

EventInvariant == EventTypeOK /\ Owned /\ LookupOwn /\ Registered /\ ToHear

-----------------------------------------------------------------------------
(***************************************************************************)
(* The tables: what a removal, and the removals at the end of a trigger,   *)
(* leave where it was.  The removals are a function on the positions, which *)
(* exists because it does up to every position.                            *)
(***************************************************************************)
Table == [Indices -> Handler \cup {nil}]

LEMMA SmallestNumber ==
    ASSUME NEW S \in SUBSET Nat, S # {}
    PROVE  \E n \in S : \A m \in S : n <= m
<1> DEFINE R == {ss \in Nat \X Nat : ss[1] < ss[2]}
<1>1. IsWellFoundedOn(R, Nat)
  BY NatLessThanWellFounded DEF OpToRel, R
<1>2. \A m, n \in Nat : m < n => <<m, n>> \in R
  BY DEF R
<1> HIDE DEF R
<1>3. PICK n \in S : \A m \in S : ~ (<<m, n>> \in R)
  BY <1>1, WFMin
<1>4. n \in Nat /\ \A m \in S : m \in Nat /\ ~ (m < n)
  BY <1>2, <1>3
<1> QED
  BY <1>4

\* A removal takes one element away, and moves others down.
LEMMA RemoveFacts ==
    ASSUME NEW t \in Table, NEW i \in Nat \ {0}, NEW n \in 0 .. MaxRegistrations
    PROVE  /\ Remove1(t, i, n) \in Table
           /\ \A j \in Indices : j < i => Remove1(t, i, n)[j] = t[j]
           /\ \A b \in Nat : \A j \in Indices : j # i /\ j <= b =>
                 \E k \in Indices : k <= b /\ Remove1(t, i, n)[k] = t[j]
<1> DEFINE r == Remove1(t, i, n)
<1>0. MaxRegistrations \in Nat /\ Indices = 1 .. MaxRegistrations + 1
  BY RemoteEventAssumption DEF Indices
<1>1. CASE i > n
  <2>1. r = t
    BY <1>1 DEF Remove1
  <2> QED
    BY <2>1
<1>2. CASE ~ (i > n)
  <2>1. r = [j \in Indices |-> IF j < i \/ j > n THEN t[j] ELSE IF j = n THEN nil ELSE t[j + 1]]
    BY <1>2 DEF Remove1
  <2>2. ASSUME NEW j \in Indices
        PROVE  /\ r[j] \in Handler \cup {nil}
               /\ j < i \/ j > n => r[j] = t[j]
               /\ i <= j /\ j < n => j + 1 \in Indices /\ r[j] = t[j + 1]
    <3>1. j \in Nat /\ (j < n => j + 1 \in Indices)
      BY <1>0
    <3>2. r[j] = IF j < i \/ j > n THEN t[j] ELSE IF j = n THEN nil ELSE t[j + 1]
      BY <2>1
    <3>3. t[j] \in Handler \cup {nil} /\ (j < n => t[j + 1] \in Handler \cup {nil})
      BY <3>1 DEF Table
    <3>4. i <= j /\ j < n => ~ (j < i \/ j > n) /\ j # n
      BY <3>1
    <3>5. ~ (j < i \/ j > n) /\ j # n => j < n
      BY <3>1
    <3> HIDE DEF r
    <3> QED
      BY <3>1, <3>2, <3>3, <3>4, <3>5
  <2>3. r \in Table
    BY <2>1, <2>2 DEF Table
  <2> HIDE DEF r
  <2>4. ASSUME NEW b \in Nat, NEW j \in Indices, j # i, j <= b
        PROVE  \E k \in Indices : k <= b /\ r[k] = t[j]
    <3>1. CASE j < i \/ j > n
      BY <2>2, <2>4, <3>1
    <3>2. CASE ~ (j < i \/ j > n)
      <4>1. j - 1 \in Indices /\ i <= j - 1 /\ j - 1 < n /\ j - 1 <= b /\ (j - 1) + 1 = j
        BY <1>0, <2>4, <3>2
      <4> QED
        BY <2>2, <4>1
    <3> QED
      BY <3>1, <3>2
  <2> QED
    BY <2>2, <2>3, <2>4 DEF r
<1> QED
  BY <1>1, <1>2

\* What is removed from a position on leaves what is before it.
LEMMA TruncatedFacts ==
    ASSUME NEW t \in Table, NEW first \in Nat \ {0}, NEW final \in Nat, NEW r \in Truncated(t, first, final)
    PROVE  r \in Table /\ \A j \in Indices : j < first => r[j] = t[j]
<1> DEFINE Shift(i, S) == UNION {{Remove1(s, final + first - i, n) : n \in Border(s)} : s \in S}
           Value(f, i) == IF i < first THEN {t} ELSE Shift(i, f[i - 1])
           Steps(k, f) == [i \in 0 .. k |-> Value(f, i)]
           after == CHOOSE f : f = Steps(final, f)
           Good(s) == s \in Table /\ \A j \in Indices : j < first => s[j] = t[j]
<1>1. r \in after[final]
  BY DEF Truncated
<1>2. ASSUME NEW i \in first .. final, NEW S, \A s \in S : Good(s), NEW u \in Shift(i, S)
      PROVE  Good(u)
  <2>0. PICK s \in S : \E n \in Border(s) : u = Remove1(s, final + first - i, n)
    BY <1>2
  <2>1. PICK n \in Border(s) : u = Remove1(s, final + first - i, n)
    BY <2>0
  <2>2. s \in Table /\ n \in 0 .. MaxRegistrations
    BY <1>2 DEF Border
  <2>3. final + first - i \in Nat \ {0} /\ final + first - i >= first
    OBVIOUS
  <2>4. u \in Table /\ \A j \in Indices : j < final + first - i => u[j] = s[j]
    BY <2>1, <2>2, <2>3, RemoveFacts
  <2>5. \A j \in Indices : j \in Nat
    BY RemoteEventAssumption DEF Indices
  <2>6. \A j \in Indices : j < first => j < final + first - i
    BY <2>3, <2>5
  <2> QED
    BY <1>2, <2>4, <2>6
<1> HIDE DEF Shift
<1>3. \A k \in Nat : \E f : f = Steps(k, f)
  <2> DEFINE Bad == {k \in Nat : ~ \E f : f = Steps(k, f)}
  <2> SUFFICES ASSUME Bad # {}
               PROVE  FALSE
    OBVIOUS
  <2>1. PICK k \in Bad : \A m \in Bad : k <= m
    BY SmallestNumber
  <2>2. k \in Nat /\ ~ \E f : f = Steps(k, f)
    OBVIOUS
  <2>3. CASE k = 0
    <3> DEFINE f == [i \in 0 .. 0 |-> {t}]
    <3>1. \A i \in 0 .. 0 : Value(f, i) = {t}
      OBVIOUS
    <3> QED
      BY <2>2, <2>3, <3>1
  <2>4. CASE k # 0
    <3>1. k - 1 \in Nat /\ k - 1 \notin Bad
      <4>1. k - 1 \in Nat /\ ~ (k <= k - 1)
        BY <2>2, <2>4
      <4> HIDE DEF Bad
      <4> QED
        BY <2>1, <4>1
    <3>2. PICK f : f = Steps(k - 1, f)
      BY <3>1, Zenon
    <3> DEFINE g == [i \in 0 .. k |-> IF i = k THEN Value(f, k) ELSE f[i]]
    <3>3. \A i \in 0 .. k - 1 : i \in 0 .. k /\ g[i] = f[i] /\ f[i] = Value(f, i)
      <4>1. \A i \in 0 .. k - 1 : i \in 0 .. k /\ i # k
        BY <2>2
      <4>2. \A i \in 0 .. k - 1 : f[i] = Value(f, i)
        BY <3>2, Zenon
      <4> HIDE DEF Value
      <4> QED
        BY <4>1, <4>2
    <3>4. k \in 0 .. k /\ g[k] = Value(f, k)
      <4> HIDE DEF Value
      <4> QED
        BY <2>2
    <3> HIDE DEF g
    <3>5. \A i \in 0 .. k : Value(g, i) = Value(f, i)
      <4> TAKE i \in 0 .. k
      <4>1. CASE i < first
        BY <4>1
      <4>2. CASE ~ (i < first)
        <5>1. i - 1 \in 0 .. k - 1
          BY <2>2, <4>2
        <5>2. g[i - 1] = f[i - 1]
          BY <3>3, <5>1
        <5> QED
          BY <4>2, <5>2
      <4> QED
        BY <4>1, <4>2
    <3> HIDE DEF Value
    <3>6. \A i \in 0 .. k : g[i] = Value(f, i)
      <4> TAKE i \in 0 .. k
      <4>1. i = k \/ i \in 0 .. k - 1
        BY <2>2
      <4> QED
        BY <3>3, <3>4, <4>1
    <3>7. g = [i \in 0 .. k |-> g[i]]
      BY DEF g
    <3>8. g = Steps(k, g)
      BY <3>5, <3>6, <3>7
    <3> QED
      BY <2>2, <3>8
  <2> QED
    BY <2>3, <2>4
<1>4. after = Steps(final, after)
  BY <1>3
<1> HIDE DEF after
<1>5. \A i \in 0 .. final : after[i] = Value(after, i)
  BY <1>4, Zenon
<1> HIDE DEF Steps, Good
<1>6. \A i \in 0 .. final : \A s \in after[i] : Good(s)
  <2> DEFINE Bad == {i \in 0 .. final : \E s \in after[i] : ~Good(s)}
  <2> SUFFICES ASSUME Bad # {}
               PROVE  FALSE
    OBVIOUS
  <2>1. PICK k \in Bad : \A m \in Bad : k <= m
    <3>1. Bad \in SUBSET Nat
      OBVIOUS
    <3> HIDE DEF Bad
    <3> QED
      BY <3>1, SmallestNumber
  <2>2. k \in 0 .. final /\ \E s \in after[k] : ~Good(s)
    OBVIOUS
  <2>3. CASE k < first
    <3>1. after[k] = {t}
      BY <1>5, <2>2, <2>3
    <3>2. Good(t)
      BY DEF Good
    <3> QED
      BY <2>2, <3>1, <3>2
  <2>4. CASE ~ (k < first)
    <3>1. after[k] = Shift(k, after[k - 1]) /\ k \in first .. final
      BY <1>5, <2>2, <2>4
    <3>2. k - 1 \in 0 .. final /\ k - 1 \notin Bad
      BY <2>1, <2>2, <2>4
    <3>3. \A s \in after[k - 1] : Good(s)
      BY <3>2
    <3> QED
      BY <1>2, <2>2, <3>1, <3>3
  <2> QED
    BY <2>3, <2>4
<1>7. Good(r)
  BY <1>1, <1>6
<1> QED
  BY <1>7 DEF Good

-----------------------------------------------------------------------------
(***************************************************************************)
(* The clients                                                             *)
(***************************************************************************)
LEMMA TypesApart ==
    ASSUME EventTypeOK
    PROVE  /\ handlers \in Table /\ count \in Nat /\ count <= MaxRegistrations /\ MaxRegistrations \in Nat
           /\ \A i \in Nat \ {0} : i <= count + 1 => i \in Indices
           /\ Indices \subseteq Nat \ {0}
           /\ \A i \in Indices : handlers[i] \in Handler \cup {nil}
           /\ \A i \in Indices : handlers[i] # nil => handlers[i] \in Handler
           /\ nil \notin Handler
           /\ at \in Nat /\ slot \in Nat /\ slot <= at /\ at <= count + 1
           /\ Len(scheduled) \in Nat /\ count + Len(scheduled) <= ids /\ ids \in Nat /\ ids <= MaxRegistrations
<1>1. MaxRegistrations \in Nat /\ Indices = 1 .. MaxRegistrations + 1
  BY RemoteEventAssumption DEF Indices
<1>2. /\ handlers \in Table /\ ids \in 0 .. MaxRegistrations /\ Len(scheduled) \in Nat
      /\ count \in 0 .. ids - Len(scheduled) /\ at \in 0 .. count + 1 /\ slot \in 0 .. at
  BY DEF EventTypeOK, Table
<1>3. nil \notin Handler
  BY DEF nil, Handler
<1>4. count \in Nat /\ count <= MaxRegistrations /\ count + Len(scheduled) <= ids
  BY <1>1, <1>2
<1>5. \A i \in Nat \ {0} : i <= count + 1 => i \in Indices
  BY <1>1, <1>4
<1>6. \A i \in Indices : handlers[i] \in Handler \cup {nil}
  BY <1>2 DEF Table
<1> QED
  BY <1>1, <1>2, <1>3, <1>4, <1>5, <1>6

\* Where the table, the trigger and the histories stay as they are.
LEMMA ClientKeeps ==
    ASSUME EventInvariant, at = 0, UNCHANGED <<triggerVars, rigid, handlers, count, lookup>>,
           EventTypeOK', Owned',
           \A d \in Clients : loaded'[d] /\ local'[d] = "handler" =>
               \/ d \in ToSet(scheduled')
               \/ /\ loaded[d] /\ local[d] = "handler" /\ load'[d] = load[d]
                  /\ d \notin ToSet(scheduled)
    PROVE  EventInvariant'
<1>1. at' = 0 /\ Held' = Held
  BY DEF triggerVars, Held
<1>2. Registered'
  <2> SUFFICES ASSUME NEW d \in Clients, loaded'[d], local'[d] = "handler", d \notin ToSet(scheduled')
               PROVE  \E i \in Held : Leads(i, d)'
    BY <1>1 DEF Registered
  <2>1. loaded[d] /\ local[d] = "handler" /\ load'[d] = load[d] /\ d \notin ToSet(scheduled)
    OBVIOUS
  <2>2. PICK i \in Held : Leads(i, d)
    BY <2>1 DEF EventInvariant, Registered
  <2>3. Leads(i, d)'
    BY <2>1, <2>2 DEF Leads, Live
  <2> QED
    BY <2>3
<1>3. ToHear' /\ LookupOwn'
  BY <1>1 DEF ToHear, LookupOwn, EventInvariant
<1> QED
  BY <1>2, <1>3 DEF EventInvariant

LEMMA ReceiveKeeps ==
    ASSUME EventInvariant, NEW c \in Clients, Receive(c)
    PROVE  EventInvariant'
<1>1. /\ at = 0 /\ loaded[c] /\ local' = [local EXCEPT ![c] = "empty"]
      /\ UNCHANGED <<triggerVars, rigid, handlers, count, lookup, load, loaded, scheduled, ids>>
  BY DEF Receive, Between, serverVars
<1>2. EventTypeOK'
  BY <1>1 DEF EventInvariant, EventTypeOK, triggerVars, rigid
<1>3. Owned'
  BY <1>1 DEF EventInvariant, Owned, EventTypeOK, triggerVars, rigid
<1>4. \A d \in Clients : loaded'[d] /\ local'[d] = "handler" =>
               \/ d \in ToSet(scheduled')
               \/ /\ loaded[d] /\ local[d] = "handler" /\ load'[d] = load[d]
                  /\ d \notin ToSet(scheduled)
  BY <1>1 DEF EventInvariant, EventTypeOK
<1> QED
  BY <1>1, <1>2, <1>3, <1>4, ClientKeeps

LEMMA CollectKeeps ==
    ASSUME EventInvariant, NEW c \in Clients, Collect(c)
    PROVE  EventInvariant'
<1>1. /\ at = 0 /\ loaded[c] /\ local' = [local EXCEPT ![c] = "none"]
      /\ UNCHANGED <<triggerVars, rigid, handlers, count, lookup, load, loaded, scheduled, ids>>
  BY DEF Collect, Between, serverVars
<1>2. EventTypeOK'
  BY <1>1 DEF EventInvariant, EventTypeOK, triggerVars, rigid
<1>3. Owned'
  BY <1>1 DEF EventInvariant, Owned, EventTypeOK, triggerVars, rigid
<1>4. \A d \in Clients : loaded'[d] /\ local'[d] = "handler" =>
               \/ d \in ToSet(scheduled')
               \/ /\ loaded[d] /\ local[d] = "handler" /\ load'[d] = load[d]
                  /\ d \notin ToSet(scheduled)
  BY <1>1 DEF EventInvariant, EventTypeOK
<1> QED
  BY <1>1, <1>2, <1>3, <1>4, ClientKeeps

LEMMA RegisterKeeps ==
    ASSUME EventInvariant, NEW c \in Clients, Register(c)
    PROVE  EventInvariant'
<1>1. /\ at = 0 /\ loaded[c] /\ local' = [local EXCEPT ![c] = "handler"]
      /\ scheduled' = Append(scheduled, c) /\ ids' = ids + 1 /\ ids < MaxRegistrations
      /\ UNCHANGED <<triggerVars, rigid, handlers, count, lookup, load, loaded>>
  BY DEF Register, Between
<1>2. scheduled \in Seq(Clients)
  BY DEF EventInvariant, EventTypeOK
<1>3. /\ scheduled' \in Seq(Clients) /\ Len(scheduled') = Len(scheduled) + 1 /\ Len(scheduled) \in Nat
      /\ c \in ToSet(scheduled') /\ ToSet(scheduled) \subseteq ToSet(scheduled')
  <2> DEFINE s == Append(scheduled, c)
  <2>1. /\ s \in Seq(Clients) /\ Len(s) = Len(scheduled) + 1 /\ Len(scheduled) \in Nat
        /\ s[Len(scheduled) + 1] = c /\ \A i \in 1 .. Len(scheduled) : s[i] = scheduled[i]
        /\ DOMAIN s = 1 .. Len(scheduled) + 1 /\ DOMAIN scheduled = 1 .. Len(scheduled)
    BY <1>2
  <2> HIDE DEF s
  <2>2. Len(scheduled) + 1 \in DOMAIN s /\ DOMAIN scheduled \subseteq DOMAIN s
    BY <2>1
  <2>3. c \in ToSet(s) /\ ToSet(scheduled) \subseteq ToSet(s)
    BY <2>1, <2>2 DEF ToSet
  <2>4. scheduled' = s
    BY <1>1 DEF s
  <2> QED
    BY <2>1, <2>3, <2>4
<1>4. EventTypeOK'
  <2>1. ids' \in 0 .. MaxRegistrations /\ ids' - Len(scheduled') = ids - Len(scheduled)
    BY <1>1, <1>3, TypesApart DEF EventInvariant
  <2>2. local' \in [Clients -> {"none", "empty", "handler"}]
    BY <1>1 DEF EventInvariant, EventTypeOK
  <2> QED
    BY <1>1, <1>3, <2>1, <2>2 DEF EventInvariant, EventTypeOK, triggerVars, rigid
<1>5. Owned'
  BY <1>1 DEF EventInvariant, Owned, EventTypeOK, triggerVars, rigid
<1>6. \A d \in Clients : loaded'[d] /\ local'[d] = "handler" =>
               \/ d \in ToSet(scheduled')
               \/ /\ loaded[d] /\ local[d] = "handler" /\ load'[d] = load[d]
                  /\ d \notin ToSet(scheduled)
  BY <1>1, <1>3 DEF EventInvariant, EventTypeOK
<1> QED
  BY <1>1, <1>4, <1>5, <1>6, ClientKeeps

LEMMA UnloadKeepsEvent ==
    ASSUME EventInvariant, NEW c \in Clients, Unload(c)
    PROVE  EventInvariant'
<1>1. /\ at = 0 /\ loaded' = [loaded EXCEPT ![c] = FALSE] /\ local' = [local EXCEPT ![c] = "none"]
      /\ UNCHANGED <<triggerVars, rigid, handlers, count, lookup, load, scheduled, ids>>
  BY DEF Unload, Unloaded, Between, serverVars
<1>2. EventTypeOK'
  BY <1>1 DEF EventInvariant, EventTypeOK, triggerVars, rigid
<1>3. Owned'
  BY <1>1 DEF EventInvariant, Owned, EventTypeOK, triggerVars, rigid
<1>4. \A d \in Clients : loaded'[d] /\ local'[d] = "handler" =>
               \/ d \in ToSet(scheduled')
               \/ /\ loaded[d] /\ local[d] = "handler" /\ load'[d] = load[d]
                  /\ d \notin ToSet(scheduled)
  BY <1>1 DEF EventInvariant, EventTypeOK
<1> QED
  BY <1>1, <1>2, <1>3, <1>4, ClientKeeps

LEMMA LoadKeepsEvent ==
    ASSUME EventInvariant, NEW c \in Clients, Load(c)
    PROVE  EventInvariant'
<1>1. /\ at = 0 /\ c \in installed /\ ~loaded[c] /\ load[c] < MaxLoads
      /\ load' = [load EXCEPT ![c] = load[c] + 1] /\ loaded' = [loaded EXCEPT ![c] = TRUE]
      /\ UNCHANGED <<triggerVars, rigid, handlers, count, lookup, local, scheduled, ids>>
  BY DEF Load, Between, serverVars
<1>2. load[c] + 1 \in 1 .. MaxLoads
  BY <1>1, RemoteEventAssumption DEF EventInvariant, EventTypeOK
<1>3. EventTypeOK'
  BY <1>1, <1>2 DEF EventInvariant, EventTypeOK, triggerVars, rigid
<1>4. Owned'
  BY <1>1 DEF EventInvariant, Owned, EventTypeOK, triggerVars, rigid
<1>5. \A d \in Clients : loaded'[d] /\ local'[d] = "handler" =>
               \/ d \in ToSet(scheduled')
               \/ /\ loaded[d] /\ local[d] = "handler" /\ load'[d] = load[d]
                  /\ d \notin ToSet(scheduled)
  BY <1>1 DEF EventInvariant, EventTypeOK, Owned
<1> QED
  BY <1>1, <1>3, <1>4, <1>5, ClientKeeps

\* What unregister_by_name looks for is a handler of the client, or nothing.
LEMMA LookedUpFacts ==
    ASSUME EventInvariant, NEW c \in Clients, NEW fn \in LookedUp(c)
    PROVE  (fn = nil \/ fn = lookup[c]) /\ (fn = nil \/ fn.client = c)
BY DEF LookedUp, EventInvariant, LookupOwn

\* It removes nothing of the other clients.
LEMMA RemovalFacts ==
    ASSUME EventInvariant, NEW c \in Clients, NEW n \in Border(handlers), NEW m \in Border(handlers),
           NEW fn \in LookedUp(c), Found(c, fn, n) # {}
    PROVE  LET r == Remove1(handlers, Min(Found(c, fn, n)), m) IN
           /\ r \in Table
           /\ \A b \in Nat : \A j \in Indices :
                 j <= b /\ handlers[j] # nil /\ handlers[j].client # c =>
                     \E k \in Indices : k <= b /\ r[k] = handlers[j]
<1> DEFINE i == Min(Found(c, fn, n))
           r == Remove1(handlers, i, m)
<1>1. handlers \in Table /\ n \in 0 .. MaxRegistrations /\ m \in 0 .. MaxRegistrations
  BY TypesApart DEF EventInvariant, Border
<1>2. Found(c, fn, n) \in SUBSET Nat /\ \A j \in Found(c, fn, n) : j \in 1 .. n /\ handlers[j] = fn
  BY DEF Found
<1>3. i \in Found(c, fn, n)
  BY <1>2, SmallestNumber DEF Min
<1>4. i \in Nat \ {0} /\ handlers[i] = fn
  BY <1>1, <1>2, <1>3
<1> HIDE DEF i
<1>5. /\ r \in Table
      /\ \A b \in Nat : \A j \in Indices : j # i /\ j <= b =>
            \E k \in Indices : k <= b /\ r[k] = handlers[j]
  BY <1>1, <1>4, RemoveFacts
<1>6. \A j \in Indices : handlers[j] # nil /\ handlers[j].client # c => j # i
  BY <1>4, LookedUpFacts
<1> HIDE DEF r
<1> QED
  BY <1>5, <1>6 DEF r, i

LEMMA UnregisterKeeps ==
    ASSUME EventInvariant, NEW c \in Clients, Unregister(c)
    PROVE  EventInvariant'
<1>0. EventTypeOK
  BY DEF EventInvariant
<1>1. /\ at = 0 /\ loaded[c] /\ local' = [local EXCEPT ![c] = "empty"]
      /\ UNCHANGED <<triggerVars, rigid, count, load, loaded, scheduled, ids>>
  BY DEF Unregister, Between
<1>2. \E fn \in LookedUp(c) : lookup' = [lookup EXCEPT ![c] = fn]
  BY DEF Unregister, Removed, NotFound
<1>3. /\ handlers' \in Table
      /\ \A j \in Indices :
            j <= count /\ handlers[j] # nil /\ handlers[j].client # c =>
                \E k \in Indices : k <= count /\ handlers'[k] = handlers[j]
  <2>1. CASE UNCHANGED handlers
    BY <1>0, <2>1, TypesApart
  <2>2. CASE Removed(c)
    <3>1. PICK n \in Border(handlers) : \E fn \in LookedUp(c) :
              /\ Found(c, fn, n) # {}
              /\ \E m \in Border(handlers) : handlers' = Remove1(handlers, Min(Found(c, fn, n)), m)
      BY <2>2 DEF Removed
    <3>2. PICK fn \in LookedUp(c) :
              /\ Found(c, fn, n) # {}
              /\ \E m \in Border(handlers) : handlers' = Remove1(handlers, Min(Found(c, fn, n)), m)
      BY <3>1
    <3>3. PICK m \in Border(handlers) : handlers' = Remove1(handlers, Min(Found(c, fn, n)), m)
      BY <3>2
    <3> DEFINE r == Remove1(handlers, Min(Found(c, fn, n)), m)
    <3>4. /\ r \in Table
          /\ \A b \in Nat : \A j \in Indices :
                 j <= b /\ handlers[j] # nil /\ handlers[j].client # c =>
                     \E k \in Indices : k <= b /\ r[k] = handlers[j]
      BY <3>2, RemovalFacts
    <3> HIDE DEF r
    <3>5. handlers' = r /\ count \in Nat
      BY <1>0, <3>3, TypesApart DEF r
    <3> QED
      BY <3>4, <3>5
  <2> QED
    BY <2>1, <2>2 DEF Unregister
<1>4. lookup' \in [Clients -> Handler \cup {nil}] /\ LookupOwn'
  <2>1. PICK fn \in LookedUp(c) : lookup' = [lookup EXCEPT ![c] = fn]
    BY <1>2
  <2>2. (fn = nil \/ fn = lookup[c]) /\ (fn = nil \/ fn.client = c)
    BY LookedUpFacts
  <2>3. lookup \in [Clients -> Handler \cup {nil}]
    BY <1>0 DEF EventTypeOK
  <2>4. fn \in Handler \cup {nil}
    BY <2>2, <2>3
  <2> QED
    BY <2>1, <2>2, <2>3, <2>4 DEF EventInvariant, LookupOwn
<1>5. EventTypeOK'
  <2>1. local' \in [Clients -> {"none", "empty", "handler"}]
    BY <1>0, <1>1 DEF EventTypeOK
  <2> QED
    BY <1>0, <1>1, <1>3, <1>4, <2>1 DEF EventTypeOK, triggerVars, rigid, Table
<1>6. Owned'
  BY <1>0, <1>1 DEF EventInvariant, Owned, EventTypeOK, triggerVars, rigid
<1>7. at' = 0 /\ Held = 1 .. count /\ Held' = Held
  BY <1>1 DEF triggerVars, Held
<1>8. Registered'
  <2> SUFFICES ASSUME NEW d \in Clients, loaded'[d], local'[d] = "handler", d \notin ToSet(scheduled')
               PROVE  \E i \in Held : Leads(i, d)'
    BY <1>7 DEF Registered
  <2>1. d # c /\ loaded[d] /\ local[d] = "handler" /\ d \notin ToSet(scheduled)
    BY <1>0, <1>1 DEF EventTypeOK
  <2>2. PICK i \in Held : Leads(i, d)
    BY <2>1 DEF EventInvariant, Registered
  <2>3. i \in Indices /\ i <= count /\ handlers[i] # nil /\ handlers[i].client = d /\ Live(d, handlers[i].to)
    BY <1>0, <1>7, <2>2, TypesApart DEF Leads
  <2>4. PICK k \in Indices : k <= count /\ handlers'[k] = handlers[i]
    BY <1>3, <2>1, <2>3
  <2>5. k \in Held
    BY <1>0, <1>7, <2>4, TypesApart
  <2>6. Leads(k, d)'
    BY <1>1, <2>3, <2>4 DEF Leads, Live
  <2> QED
    BY <2>5, <2>6
<1>9. ToHear'
  BY <1>7 DEF ToHear
<1> QED
  BY <1>4, <1>5, <1>6, <1>8, <1>9 DEF EventInvariant

-----------------------------------------------------------------------------
(***************************************************************************)
(* The server and its trigger                                              *)
(***************************************************************************)
LEMMA RunScheduledKeeps ==
    ASSUME EventInvariant, RunScheduled
    PROVE  EventInvariant'
<1>0. EventTypeOK /\ scheduled \in Seq(Clients) /\ scheduled # <<>>
  BY DEF EventInvariant, EventTypeOK, RunScheduled
<1> DEFINE c == Head(scheduled)
           handler == [id |-> ids - Len(scheduled) + 1, client |-> c,
                       to |-> IF loaded[c] THEN load[c] ELSE 0]
<1> PICK n : n = count + 1
  OBVIOUS
<1>1. /\ at = 0 /\ handlers' = [handlers EXCEPT ![n] = handler] /\ count' = n
      /\ lookup' = [lookup EXCEPT ![c] = handler] /\ scheduled' = Tail(scheduled)
      /\ UNCHANGED <<ids, load, loaded, local, rigid, triggerVars>>
  BY DEF RunScheduled, Between, clientVars
<1>2. /\ c \in Clients /\ Tail(scheduled) \in Seq(Clients) /\ Len(Tail(scheduled)) = Len(scheduled) - 1
      /\ Len(scheduled) \in Nat \ {0} /\ ToSet(scheduled) \subseteq ToSet(Tail(scheduled)) \cup {c}
  <2> DEFINE s == scheduled
             t == Tail(s)
  <2>1. /\ t \in Seq(Clients) /\ Len(t) = Len(s) - 1 /\ Len(s) \in Nat \ {0} /\ c = s[1]
        /\ s[1] \in Clients
        /\ DOMAIN s = 1 .. Len(s) /\ DOMAIN t = 1 .. Len(s) - 1
        /\ \A i \in 1 .. Len(s) - 1 : t[i] = s[i + 1]
    BY <1>0
  <2>2. \A i \in DOMAIN s : i = 1 \/ (i - 1 \in DOMAIN t /\ t[i - 1] = s[i])
    <3> HIDE DEF t
    <3> TAKE i \in DOMAIN s
    <3>1. i # 1 => i - 1 \in 1 .. Len(s) - 1 /\ (i - 1) + 1 = i
      BY <2>1
    <3> QED
      BY <2>1, <3>1
  <2> HIDE DEF t
  <2>3. ToSet(s) \subseteq ToSet(t) \cup {s[1]}
    BY <2>2 DEF ToSet
  <2> QED
    BY <2>1, <2>3 DEF t
<1>3. /\ count \in Nat /\ n \in Indices /\ ids \in Nat /\ ids <= MaxRegistrations
      /\ count + Len(scheduled) <= ids /\ MaxRegistrations \in Nat
  BY <1>0, TypesApart
<1>4. handler \in Handler
  <2>1. ids - Len(scheduled) + 1 \in 1 .. MaxRegistrations
    BY <1>2, <1>3
  <2>2. (IF loaded[c] THEN load[c] ELSE 0) \in 0 .. MaxLoads
    BY <1>0, <1>2, RemoteEventAssumption DEF EventTypeOK
  <2> HIDE DEF c
  <2> QED
    BY <1>2, <2>1, <2>2 DEF Handler
<1>5. /\ handler.client = c /\ (loaded[c] => handler.to = load[c]) /\ handler # nil
      /\ handlers'[n] = handler /\ \A i \in Indices \ {n} : handlers'[i] = handlers[i]
  <2>1. handler.client = c /\ (loaded[c] => handler.to = load[c])
    OBVIOUS
  <2> HIDE DEF handler, c
  <2>2. handlers \in Table /\ nil \notin Handler
    BY <1>0, TypesApart
  <2> QED
    BY <1>1, <1>3, <1>4, <2>1, <2>2 DEF Table
<1> HIDE DEF handler, c
<1>6. EventTypeOK'
  <2>1. handlers' \in [Indices -> Handler \cup {nil}]
    BY <1>0, <1>1, <1>4 DEF EventTypeOK
  <2>2. lookup' \in [Clients -> Handler \cup {nil}]
    BY <1>0, <1>1, <1>4 DEF EventTypeOK
  <2>3. count' \in 0 .. ids' - Len(scheduled')
    BY <1>1, <1>2, <1>3
  <2>4. at' = 0 /\ slot' = slot /\ slot = 0 /\ 0 \in 0 .. count' + 1
    BY <1>0, <1>1, <1>3, TypesApart DEF triggerVars
  <2>5. at' \in 0 .. count' + 1 /\ slot' \in 0 .. at'
    BY <2>4
  <2> QED
    BY <1>0, <1>1, <1>2, <2>1, <2>2, <2>3, <2>5 DEF EventTypeOK, triggerVars, rigid
<1>7. Owned' /\ LookupOwn'
  BY <1>0, <1>1, <1>2, <1>5 DEF EventInvariant, Owned, LookupOwn, EventTypeOK, triggerVars, rigid
<1>8. at' = 0 /\ Held = 1 .. count /\ Held' = 1 .. n
  BY <1>1 DEF triggerVars, Held
<1>9. Registered'
  <2> SUFFICES ASSUME NEW d \in Clients, loaded'[d], local'[d] = "handler", d \notin ToSet(scheduled')
               PROVE  \E i \in 1 .. n : Leads(i, d)'
    BY <1>8 DEF Registered
  <2>1. loaded[d] /\ local[d] = "handler"
    BY <1>1
  <2>2. CASE d = c
    <3>1. Leads(n, d)'
      BY <1>1, <1>5, <2>1, <2>2 DEF Leads, Live
    <3>2. n \in 1 .. n
      BY <1>3
    <3> QED
      BY <3>1, <3>2
  <2>3. CASE d # c
    <3>1. d \notin ToSet(scheduled)
      BY <1>1, <1>2, <2>3
    <3>2. PICK i \in 1 .. count : Leads(i, d)
      BY <1>8, <2>1, <3>1 DEF EventInvariant, Registered
    <3>3. i \in 1 .. n /\ i \in Indices \ {n}
      BY <1>0, <1>3, <3>2, TypesApart
    <3>4. Leads(i, d)'
      BY <1>1, <1>5, <3>2, <3>3 DEF Leads, Live
    <3> QED
      BY <3>3, <3>4
  <2> QED
    BY <2>2, <2>3
<1>10. ToHear'
  BY <1>8 DEF ToHear
<1> QED
  BY <1>6, <1>7, <1>9, <1>10 DEF EventInvariant

LEMMA BeginTriggerKeeps ==
    ASSUME EventInvariant, BeginTrigger
    PROVE  EventInvariant'
<1>0. EventTypeOK
  BY DEF EventInvariant
<1>1. /\ at = 0 /\ count > 0 /\ at' = 1 /\ slot' = 1
      /\ heard' = [c \in Clients |-> 0] /\ subscribed' = Subscribed
      /\ UNCHANGED <<handlers, count, lookup, scheduled, ids, load, loaded, local, rigid>>
  BY DEF BeginTrigger, Between, serverVars, clientVars
<1>2. at' \in 0 .. count + 1 /\ slot' \in 0 .. at' /\ heard' \in [Clients -> Nat] /\ subscribed' \subseteq Clients
  BY <1>0, <1>1, TypesApart DEF Subscribed
<1>3. EventTypeOK'
  BY <1>0, <1>1, <1>2 DEF EventTypeOK, rigid
<1>4. Owned' /\ LookupOwn'
  BY <1>1 DEF EventInvariant, Owned, LookupOwn, rigid
<1>5. Held = 1 .. count /\ Held' = 1 .. count
  <2>1. (1 .. 1 - 1) \cup (1 .. count) = 1 .. count
    BY <1>0, TypesApart
  <2> QED
    BY <1>1, <2>1 DEF Held
<1>6. \A i, d : Leads(i, d)' <=> Leads(i, d)
  BY <1>1 DEF Leads, Live
<1>7. Registered'
  BY <1>1, <1>5, <1>6 DEF EventInvariant, Registered
<1>8. ToHear'
  <2> SUFFICES ASSUME NEW d \in Subscribed
               PROVE  local[d] = "handler" /\ \E i \in 1 .. count : Leads(i, d)
    BY <1>1, <1>6 DEF ToHear
  <2> QED
    BY DEF Subscribed, Confirmed, Leads
<1> QED
  BY <1>3, <1>4, <1>7, <1>8 DEF EventInvariant

\* A round of the loop, that keeps what leads to a client, reached it, or unloaded it.
LEMMA OnwardKeeps ==
    ASSUME EventInvariant, AtHandler, Onward, EventTypeOK', Owned', LookupOwn',
           NEW a, a = at, NEW b, b = slot,
           subscribed' = subscribed, slot' \in {slot, slot + 1},
           \A i \in Indices \ {at, slot} : handlers'[i] = handlers[i],
           \A d \in Clients : loaded'[d] => loaded[d],
           \A d \in Clients : loaded'[d] => local'[d] = local[d],
           \A d \in Clients : heard[d] > 0 => heard'[d] > 0,
           \A d \in Clients : Leads(at, d) /\ loaded'[d] /\ local[d] = "handler" =>
               slot' = slot + 1 /\ Leads(b, d)' /\ heard'[d] > 0
    PROVE  EventInvariant'
<1>0. /\ EventTypeOK /\ at \in 1 .. count /\ at' = at + 1
      /\ UNCHANGED <<count, scheduled, ids, load, rigid>>
  BY DEF EventInvariant, AtHandler, Onward
<1>1. /\ count \in Nat /\ at \in Nat \ {0} /\ slot \in Nat \ {0} /\ slot <= at
      /\ \A i \in 1 .. count : i \in Indices
  <2>1. at # 0
    BY <1>0
  <2>2. slot >= 1
    BY <2>1 DEF EventInvariant, Owned
  <2> QED
    BY <1>0, <2>2, TypesApart
<1>2. Held = (1 .. slot - 1) \cup (at .. count)
  BY <1>1 DEF Held
<1>3. Held' = (1 .. slot' - 1) \cup (at + 1 .. count)
  BY <1>0, <1>1 DEF Held
<1>4. ASSUME NEW i \in Held, i # at
      PROVE  i \in Held' /\ i \in Indices /\ i # slot
  <2>1. CASE i \in 1 .. slot - 1
    <3>0. i \in Nat /\ 1 <= i /\ i <= slot - 1 /\ slot \in Nat
      BY <1>1, <2>1
    <3>1. i \in 1 .. slot' - 1 /\ i \in 1 .. count /\ i # slot
      <4>1. i \in 1 .. slot' - 1
        <5>1. CASE slot' = slot
          BY <3>0, <5>1
        <5>2. CASE slot' = slot + 1
          BY <3>0, <5>2
        <5> QED
          BY <5>1, <5>2
      <4>2. i \in 1 .. count /\ i # slot
        <5>1. at \in Nat /\ at <= count
          BY <1>0, <1>1
        <5> QED
          BY <1>1, <3>0, <5>1
      <4> QED
        BY <4>1, <4>2
    <3> QED
      BY <1>1, <1>3, <3>1
  <2>2. CASE i \in at .. count
    <3>1. i \in at + 1 .. count /\ i \in 1 .. count /\ i # slot
      BY <1>0, <1>1, <1>4, <2>2
    <3> QED
      BY <1>1, <1>3, <3>1
  <2> QED
    BY <1>2, <1>4, <2>1, <2>2
<1>5. slot' = slot + 1 => b \in Held'
  BY <1>1, <1>3
<1>6. \A i \in at .. count : i # at => i \in at' .. count' /\ i \in Indices \ {at, slot}
  BY <1>0, <1>1
<1>7. \A d \in Clients, i \in Indices \ {at, slot} : Leads(i, d) /\ loaded'[d] => Leads(i, d)'
  BY <1>0 DEF Leads, Live
<1>8. Registered'
  <2> SUFFICES ASSUME NEW d \in Clients, loaded'[d], local'[d] = "handler", d \notin ToSet(scheduled')
               PROVE  \E i \in Held' : Leads(i, d)'
    BY DEF Registered
  <2>1. loaded[d] /\ local[d] = "handler" /\ d \notin ToSet(scheduled)
    BY <1>0
  <2>2. PICK i \in Held : Leads(i, d)
    BY <2>1 DEF EventInvariant, Registered
  <2>3. CASE i = at
    <3>1. Leads(at, d)
      BY <2>2, <2>3
    <3>2. slot' = slot + 1 /\ Leads(b, d)'
      BY <2>1, <3>1
    <3> QED
      BY <1>5, <3>2
  <2>4. CASE i # at
    BY <1>4, <1>7, <2>2, <2>4
  <2> QED
    BY <2>3, <2>4
<1>9. ToHear'
  <2> SUFFICES ASSUME NEW d \in subscribed, loaded'[d], ~ (heard'[d] > 0)
               PROVE  local'[d] = "handler" /\ \E i \in at' .. count' : Leads(i, d)'
    BY DEF ToHear
  <2>1. d \in Clients /\ loaded[d] /\ local'[d] = local[d]
    BY <1>0 DEF EventTypeOK
  <2>2. local[d] = "handler" /\ \E i \in at .. count : Leads(i, d)
    <3>1. at # 0
      BY <1>1
    <3> QED
      BY <2>1, <3>1 DEF EventInvariant, ToHear
  <2>3. PICK i \in at .. count : Leads(i, d)
    BY <2>2
  <2>4. i # at
    <3> SUFFICES ASSUME i = at
                 PROVE  FALSE
      OBVIOUS
    <3>1. Leads(at, d)
      BY <2>3
    <3> QED
      BY <2>1, <2>2, <3>1
  <2> QED
    BY <1>6, <1>7, <2>1, <2>2, <2>3, <2>4
<1> QED
  BY <1>8, <1>9 DEF EventInvariant

\* A round of the loop keeps the types.
LEMMA RoundTyped ==
    ASSUME EventTypeOK, AtHandler, Onward, handlers' \in Table, slot' \in {slot, slot + 1},
           lookup' \in [Clients -> Handler \cup {nil}], loaded' \in [Clients -> BOOLEAN],
           local' \in [Clients -> {"none", "empty", "handler"}], heard' \in [Clients -> Nat],
           subscribed' = subscribed
    PROVE  EventTypeOK'
<1>1. /\ at \in 1 .. count /\ at' = at + 1 /\ UNCHANGED <<count, scheduled, ids, load, rigid>>
      /\ count \in Nat /\ slot \in Nat /\ slot <= at
  BY TypesApart DEF AtHandler, Onward
<1>2. at' \in 0 .. count + 1
  BY <1>1
<1>3. slot' \in 0 .. at'
  <2>1. CASE slot' = slot
    BY <1>1, <2>1
  <2>2. CASE slot' = slot + 1
    BY <1>1, <2>2
  <2> QED
    BY <2>1, <2>2
<1> QED
  BY <1>1, <1>2, <1>3 DEF EventTypeOK, rigid, Table

\* The handler that is called, and what keeping it does to the table.
LEMMA CalledFacts ==
    ASSUME EventInvariant, AtHandler, Called # nil
    PROVE  /\ at \in Indices /\ slot \in Indices /\ at # 0 /\ slot >= 1 /\ Called = handlers[at]
           /\ Called \in Handler /\ Called.client \in Clients
           /\ \A t \in Table : /\ Kept(t, Called) \in Table
                               /\ \A i \in Indices \ {at, slot} : Kept(t, Called)[i] = t[i]
           /\ Kept(handlers, Called)[slot] = Called
<1>1. /\ handlers \in Table /\ at \in 1 .. count /\ count \in Nat /\ slot \in Nat /\ slot <= at
      /\ \A i \in Nat \ {0} : i <= count + 1 => i \in Indices
      /\ \A i \in Indices : handlers[i] # nil => handlers[i] \in Handler
  BY TypesApart DEF EventInvariant, AtHandler
<1>2. at # 0 /\ slot >= 1
  <2>1. at # 0
    BY <1>1
  <2> QED
    BY <2>1 DEF EventInvariant, Owned
<1>3. at \in Indices /\ slot \in Indices
  BY <1>1, <1>2
<1>4. Called = handlers[at] /\ Called \in Handler
  BY <1>1, <1>3 DEF Called
<1>5. Called.client \in Clients
  BY <1>4 DEF Handler
<1>6. \A t \in Table : /\ Kept(t, Called) \in Table
                       /\ \A i \in Indices \ {at, slot} : Kept(t, Called)[i] = t[i]
  BY <1>3, <1>4 DEF Kept, Table
<1>7. Kept(handlers, Called)[slot] = Called
  BY <1>1, <1>3, <1>4 DEF Kept, Table
<1> QED
  BY <1>2, <1>3, <1>4, <1>5, <1>6, <1>7

LEMMA DeliveredKeeps ==
    ASSUME EventInvariant, Delivered
    PROVE  EventInvariant'
<1> PICK a : a = at
  OBVIOUS
<1> PICK b : b = slot
  OBVIOUS
<1> PICK c : c = Called.client
  OBVIOUS
<1>0. EventTypeOK /\ AtHandler /\ Called # nil /\ Live(c, Called.to) /\ Onward
  BY DEF EventInvariant, Delivered
<1>1. /\ heard' = IF local[c] = "handler" THEN [heard EXCEPT ![c] = heard[c] + 1] ELSE heard
      /\ handlers' = Kept(handlers, Called) /\ slot' = slot + 1
      /\ UNCHANGED <<lookup, loaded, local, subscribed>>
  BY DEF Delivered
<1>2. /\ c \in Clients /\ Called \in Handler /\ Called = handlers[at] /\ at \in Indices /\ slot \in Indices
      /\ handlers' \in Table /\ \A i \in Indices \ {at, slot} : handlers'[i] = handlers[i]
      /\ handlers'[b] = Called
  <2>1. handlers \in Table
    BY <1>0, TypesApart
  <2> QED
    BY <1>0, <1>1, <2>1, CalledFacts
<1>3. /\ heard' \in [Clients -> Nat] /\ \A d \in Clients : heard[d] > 0 => heard'[d] > 0
      /\ local[c] = "handler" => heard'[c] > 0
  <2>1. heard \in [Clients -> Nat] /\ heard[c] + 1 \in Nat /\ heard[c] + 1 > 0
    BY <1>0, <1>2 DEF EventTypeOK
  <2>2. CASE local[c] = "handler"
    <3>1. heard' = [heard EXCEPT ![c] = heard[c] + 1]
      BY <1>1, <2>2
    <3> QED
      BY <1>2, <2>1, <3>1
  <2>3. CASE local[c] # "handler"
    BY <1>1, <2>1, <2>3
  <2> QED
    BY <2>2, <2>3
<1>4. EventTypeOK'
  <2>1. /\ lookup' \in [Clients -> Handler \cup {nil}] /\ loaded' \in [Clients -> BOOLEAN]
        /\ local' \in [Clients -> {"none", "empty", "handler"}]
    BY <1>0, <1>1 DEF EventTypeOK
  <2> QED
    BY <1>0, <1>1, <1>2, <1>3, <2>1, RoundTyped
<1>5. Owned' /\ LookupOwn'
  <2>1. at' # 0 => slot' >= 1
    BY <1>0, <1>1, TypesApart
  <2> QED
    BY <1>0, <1>1, <2>1 DEF EventInvariant, Owned, LookupOwn, Onward, rigid
<1>6. \A d \in Clients : Leads(at, d) /\ loaded'[d] /\ local[d] = "handler" =>
          slot' = slot + 1 /\ Leads(b, d)' /\ heard'[d] > 0
  <2> SUFFICES ASSUME NEW d \in Clients, Leads(at, d), local[d] = "handler"
               PROVE  Leads(b, d)' /\ heard'[d] > 0
    BY <1>1
  <2>1. d = c
    BY <1>2, CalledFacts DEF Leads
  <2>2. Leads(b, d)'
    BY <1>0, <1>1, <1>2, <2>1 DEF Leads, Live, Onward
  <2> QED
    BY <1>3, <2>1, <2>2
<1> QED
  BY <1>0, <1>1, <1>2, <1>3, <1>4, <1>5, <1>6, OnwardKeeps

LEMMA UnregistersItselfKeeps ==
    ASSUME EventInvariant, UnregistersItself
    PROVE  EventInvariant'
<1> PICK c : c = Called.client
  OBVIOUS
<1>0. EventTypeOK /\ AtHandler /\ Called # nil /\ Live(c, Called.to) /\ Onward /\ oneShot
  BY DEF EventInvariant, UnregistersItself
<1>1. /\ heard' = [heard EXCEPT ![c] = heard[c] + 1] /\ local' = [local EXCEPT ![c] = "empty"]
      /\ slot' = slot + 1 /\ UNCHANGED <<loaded, subscribed>>
  BY DEF UnregistersItself
<1>2. \E n \in Border(handlers) : \E fn \in LookedUp(c) :
         /\ Found(c, fn, n) # {}
         /\ handlers' = Kept(Remove1(handlers, Min(Found(c, fn, n)), n), Called)
         /\ lookup' = [lookup EXCEPT ![c] = fn]
  BY DEF UnregistersItself
<1>3. c \in Clients
  BY <1>0, CalledFacts
<1>4. PICK n \in Border(handlers) : \E fn \in LookedUp(c) :
         /\ Found(c, fn, n) # {}
         /\ handlers' = Kept(Remove1(handlers, Min(Found(c, fn, n)), n), Called)
         /\ lookup' = [lookup EXCEPT ![c] = fn]
  BY <1>2
<1>5. PICK fn \in LookedUp(c) :
         /\ Found(c, fn, n) # {}
         /\ handlers' = Kept(Remove1(handlers, Min(Found(c, fn, n)), n), Called)
         /\ lookup' = [lookup EXCEPT ![c] = fn]
  BY <1>4
<1>6. handlers' \in Table
  <2> DEFINE r == Remove1(handlers, Min(Found(c, fn, n)), n)
  <2>1. r \in Table
    BY <1>3, <1>5, RemovalFacts
  <2>2. handlers' = Kept(r, Called)
    BY <1>5
  <2> HIDE DEF r
  <2> QED
    BY <1>0, <2>1, <2>2, CalledFacts
<1>7. lookup' \in [Clients -> Handler \cup {nil}] /\ LookupOwn'
  <2>1. (fn = nil \/ fn = lookup[c]) /\ (fn = nil \/ fn.client = c)
    BY <1>3, LookedUpFacts
  <2>2. lookup \in [Clients -> Handler \cup {nil}]
    BY <1>0 DEF EventTypeOK
  <2>3. fn \in Handler \cup {nil}
    BY <1>3, <2>1, <2>2
  <2> QED
    BY <1>3, <1>5, <2>1, <2>2, <2>3 DEF EventInvariant, LookupOwn
<1>8. /\ local' \in [Clients -> {"none", "empty", "handler"}] /\ heard' \in [Clients -> Nat]
      /\ loaded' \in [Clients -> BOOLEAN] /\ heard'[c] > 0 /\ local'[c] = "empty" /\ loaded[c]
      /\ \A d \in Clients \ {c} : local'[d] = local[d]
  BY <1>0, <1>1, <1>3 DEF EventTypeOK, Live
<1>9. EventTypeOK'
  BY <1>0, <1>1, <1>6, <1>7, <1>8, RoundTyped
<1>10. \A d \in Clients : loaded[d] => d = c
  BY <1>0, <1>3, <1>8 DEF EventInvariant, Owned
<1>11. Owned'
  <2>1. at' # 0 => slot' >= 1
    BY <1>0, <1>1, TypesApart
  <2>2. \A d \in Clients : ~loaded'[d] => local'[d] = "none"
    BY <1>1, <1>8 DEF EventInvariant, Owned
  <2> QED
    BY <1>0, <1>1, <2>1, <2>2 DEF EventInvariant, Owned, Onward, rigid
<1>12. Registered' /\ ToHear'
  <2>1. subscribed \subseteq Clients
    BY <1>0 DEF EventTypeOK
  <2> QED
    BY <1>1, <1>8, <1>10, <2>1 DEF Registered, ToHear
<1> QED
  BY <1>7, <1>9, <1>11, <1>12 DEF EventInvariant

LEMMA HandlerThrowsKeeps ==
    ASSUME EventInvariant, HandlerThrows
    PROVE  EventInvariant'
<1> PICK a : a = at
  OBVIOUS
<1> PICK b : b = slot
  OBVIOUS
<1> PICK c : c = Called.client
  OBVIOUS
<1>0. EventTypeOK /\ AtHandler /\ Called # nil /\ Onward
  BY DEF EventInvariant, HandlerThrows
<1>1. /\ heard' = [heard EXCEPT ![c] = heard[c] + 1]
      /\ loaded' = [loaded EXCEPT ![c] = FALSE] /\ local' = [local EXCEPT ![c] = "none"]
      /\ UNCHANGED <<handlers, lookup, slot, subscribed>>
  BY DEF HandlerThrows, Unloaded
<1>2. c \in Clients /\ Called = handlers[at]
  BY <1>0, CalledFacts
<1>3. /\ local' \in [Clients -> {"none", "empty", "handler"}] /\ heard' \in [Clients -> Nat]
      /\ loaded' \in [Clients -> BOOLEAN] /\ ~loaded'[c]
      /\ \A d \in Clients : loaded'[d] => loaded[d] /\ local'[d] = local[d]
      /\ \A d \in Clients : ~loaded'[d] => d = c \/ (~loaded[d] /\ local'[d] = local[d])
      /\ local'[c] = "none"
      /\ \A d \in Clients : heard[d] > 0 => heard'[d] > 0
  BY <1>0, <1>1, <1>2 DEF EventTypeOK
<1>4. EventTypeOK'
  <2>1. lookup' \in [Clients -> Handler \cup {nil}] /\ handlers' \in Table
    BY <1>0, <1>1 DEF EventTypeOK, Table
  <2> QED
    BY <1>0, <1>1, <1>3, <2>1, RoundTyped
<1>5. Owned' /\ LookupOwn'
  <2>1. at' # 0 => slot' >= 1
    <3>1. slot >= 1
      BY <1>0, CalledFacts
    <3> QED
      BY <1>1, <3>1
  <2>2. /\ \A d \in Clients : ~loaded'[d] => local'[d] = "none"
        /\ \A d \in Clients : loaded'[d] => d \in installed
    BY <1>3 DEF EventInvariant, Owned
  <2> QED
    BY <1>0, <1>1, <2>1, <2>2 DEF EventInvariant, Owned, LookupOwn, Onward, rigid
<1>6. \A d \in Clients : Leads(at, d) /\ loaded'[d] /\ local[d] = "handler" =>
          slot' = slot + 1 /\ Leads(b, d)' /\ heard'[d] > 0
  BY <1>2, <1>3 DEF Leads
<1> QED
  BY <1>0, <1>1, <1>3, <1>4, <1>5, <1>6, OnwardKeeps

LEMMA UnknownKeeps ==
    ASSUME EventInvariant, Unknown
    PROVE  EventInvariant'
<1> PICK a : a = at
  OBVIOUS
<1> PICK b : b = slot
  OBVIOUS
<1> PICK c : c = Called.client
  OBVIOUS
<1>0. EventTypeOK /\ AtHandler /\ Called # nil /\ Onward
  BY DEF EventInvariant, Unknown
<1>1. /\ (Live(c, Called.to) /\ local[c] = "none") \/ Called.to = 0
      /\ IF loaded[c]
         THEN loaded' = [loaded EXCEPT ![c] = FALSE] /\ local' = [local EXCEPT ![c] = "none"]
         ELSE UNCHANGED <<loaded, local>>
      /\ UNCHANGED <<handlers, lookup, slot, heard, subscribed>>
  BY DEF Unknown, Unloaded
<1>2. c \in Clients /\ Called = handlers[at]
  BY <1>0, CalledFacts
<1>3. /\ local' \in [Clients -> {"none", "empty", "handler"}] /\ heard' \in [Clients -> Nat]
      /\ loaded' \in [Clients -> BOOLEAN]
      /\ \A d \in Clients : loaded'[d] => loaded[d] /\ local'[d] = local[d]
      /\ \A d \in Clients : ~loaded'[d] => local'[d] = "none" \/ (~loaded[d] /\ local'[d] = local[d])
      /\ \A d \in Clients : heard[d] > 0 => heard'[d] > 0
  BY <1>0, <1>1, <1>2 DEF EventTypeOK
<1>4. EventTypeOK'
  <2>1. lookup' \in [Clients -> Handler \cup {nil}] /\ handlers' \in Table
    BY <1>0, <1>1 DEF EventTypeOK, Table
  <2> QED
    BY <1>0, <1>1, <1>3, <2>1, RoundTyped
<1>5. Owned' /\ LookupOwn'
  <2>1. at' # 0 => slot' >= 1
    <3>1. slot >= 1
      BY <1>0, CalledFacts
    <3> QED
      BY <1>1, <3>1
  <2>2. /\ \A d \in Clients : ~loaded'[d] => local'[d] = "none"
        /\ \A d \in Clients : loaded'[d] => d \in installed
    BY <1>3 DEF EventInvariant, Owned
  <2> QED
    BY <1>0, <1>1, <2>1, <2>2 DEF EventInvariant, Owned, LookupOwn, Onward, rigid
<1>6. \A d \in Clients : ~ (Leads(at, d) /\ local[d] = "handler")
  <2> SUFFICES ASSUME NEW d \in Clients, Leads(at, d), local[d] = "handler"
               PROVE  FALSE
    OBVIOUS
  <2>1. d = c /\ Live(d, Called.to)
    BY <1>2 DEF Leads
  <2>2. load[d] # 0
    BY <1>0, RemoteEventAssumption DEF EventTypeOK
  <2> QED
    BY <1>1, <2>1, <2>2 DEF Live
<1> QED
  BY <1>0, <1>1, <1>3, <1>4, <1>5, <1>6, OnwardKeeps

LEMMA DroppedKeeps ==
    ASSUME EventInvariant, Dropped
    PROVE  EventInvariant'
<1> PICK a : a = at
  OBVIOUS
<1> PICK b : b = slot
  OBVIOUS
<1>0. EventTypeOK /\ AtHandler /\ Onward
  BY DEF EventInvariant, Dropped
<1>1. /\ Called # nil => ~Live(Called.client, Called.to)
      /\ UNCHANGED <<handlers, lookup, slot, heard, loaded, local, subscribed>>
  BY DEF Dropped
<1>2. EventTypeOK'
  <2>1. /\ lookup' \in [Clients -> Handler \cup {nil}] /\ handlers' \in Table
        /\ local' \in [Clients -> {"none", "empty", "handler"}] /\ heard' \in [Clients -> Nat]
        /\ loaded' \in [Clients -> BOOLEAN]
    BY <1>0, <1>1 DEF EventTypeOK, Table
  <2> QED
    BY <1>0, <1>1, <2>1, RoundTyped
<1>3. Owned' /\ LookupOwn'
  <2>1. at' # 0 => slot' >= 1
    <3>1. at # 0
      BY <1>0, TypesApart DEF AtHandler
    <3> QED
      BY <1>1, <3>1 DEF EventInvariant, Owned
  <2> QED
    BY <1>0, <1>1, <2>1 DEF EventInvariant, Owned, LookupOwn, Onward, rigid
<1>4. \A d \in Clients : ~Leads(at, d)
  BY <1>1 DEF Leads, Called
<1> QED
  BY <1>0, <1>1, <1>2, <1>3, <1>4, OnwardKeeps

LEMMA EndTriggerKeeps ==
    ASSUME EventInvariant, EndTrigger
    PROVE  EventInvariant'
<1>0. EventTypeOK
  BY DEF EventInvariant
<1>1. /\ at # 0 /\ at > count /\ at' = 0 /\ slot' = 0 /\ count' = slot - 1
      /\ handlers' \in Truncated(handlers, slot, count)
      /\ UNCHANGED <<lookup, scheduled, ids, load, loaded, local, rigid, heard, subscribed>>
  BY DEF EndTrigger, clientVars
<1>2. slot >= 1
  BY <1>1 DEF EventInvariant, Owned
<1>3. slot \in Nat \ {0} /\ slot - 1 <= count /\ count \in Nat /\ at \in Nat
  BY <1>0, <1>1, <1>2, TypesApart
<1>4. handlers' \in Table /\ \A j \in Indices : j < slot => handlers'[j] = handlers[j]
  BY <1>0, <1>1, <1>3, TypesApart, TruncatedFacts
<1>5. EventTypeOK'
  <2>1. count' \in 0 .. ids - Len(scheduled)
    <3>1. count + Len(scheduled) <= ids /\ Len(scheduled) \in Nat /\ ids \in Nat
      BY <1>0, TypesApart
    <3> HIDE DEF EventTypeOK
    <3> QED
      BY <1>1, <1>3, <3>1
  <2>2. at' \in 0 .. count' + 1 /\ slot' \in 0 .. at'
    BY <1>1, <1>3
  <2> QED
    BY <1>0, <1>1, <1>4, <2>1, <2>2 DEF EventTypeOK, rigid, Table
<1>6. Owned' /\ LookupOwn'
  BY <1>1 DEF EventInvariant, Owned, LookupOwn, rigid
<1>7. Held = 1 .. slot - 1 /\ Held' = 1 .. slot - 1
  <2>1. at .. count = {}
    BY <1>1, <1>3
  <2> QED
    BY <1>1, <2>1 DEF Held
<1>8. \A i \in 1 .. slot - 1 : i \in Indices /\ i < slot
  BY <1>0, <1>3, TypesApart
<1>9. \A d \in Clients : \A i \in 1 .. slot - 1 : Leads(i, d) => Leads(i, d)'
  BY <1>1, <1>4, <1>8 DEF Leads, Live
<1>10. Registered'
  <2> SUFFICES ASSUME NEW d \in Clients, loaded'[d], local'[d] = "handler", d \notin ToSet(scheduled')
               PROVE  \E i \in 1 .. slot - 1 : Leads(i, d)'
    BY <1>7 DEF Registered
  <2>1. PICK i \in 1 .. slot - 1 : Leads(i, d)
    BY <1>1, <1>7 DEF EventInvariant, Registered
  <2> QED
    BY <1>9, <2>1
<1>11. ToHear'
  BY <1>1 DEF ToHear
<1> QED
  BY <1>5, <1>6, <1>10, <1>11 DEF EventInvariant

-----------------------------------------------------------------------------
(***************************************************************************)
(* The theorems of the event                                               *)
(***************************************************************************)
LEMMA EventBegins ==
    ASSUME EventInit
    PROVE  EventInvariant
<1>0. MaxRegistrations \in Nat /\ MaxLoads \in Nat \ {0} /\ OneShot \subseteq BOOLEAN
  BY RemoteEventAssumption
<1>1. EventTypeOK
  <2>1. scheduled \in Seq(Clients) /\ Len(scheduled) = 0
    BY DEF EventInit
  <2>2. load \in [Clients -> 1 .. MaxLoads]
    BY <1>0 DEF EventInit
  <2>3. count \in 0 .. ids - Len(scheduled) /\ ids \in 0 .. MaxRegistrations
        /\ at \in 0 .. count + 1 /\ slot \in 0 .. at
    BY <1>0, <2>1 DEF EventInit
  <2> QED
    BY <1>0, <2>1, <2>2, <2>3 DEF EventInit, EventTypeOK
<1>2. Owned
  <2>1. oneShot => \A c, d \in installed : c = d
    <3> SUFFICES ASSUME oneShot
                 PROVE  \A c, d \in installed : c = d
      OBVIOUS
    <3>1. Cardinality(installed) = 1 /\ installed \subseteq Clients /\ IsFiniteSet(Clients)
      BY RemoteEventAssumption DEF EventInit
    <3>2. IsFiniteSet(installed)
      BY <3>1, FS_Subset
    <3>3. \E x : installed = {x}
      BY <3>1, <3>2, FS_Singleton
    <3> QED
      BY <3>3
  <2> QED
    BY <2>1 DEF EventInit, Owned
<1> QED
  BY <1>1, <1>2 DEF EventInit, EventInvariant, LookupOwn, Registered, ToHear

LEMMA EventGoesOn ==
    ASSUME EventInvariant, [EventNext]_eventVars
    PROVE  EventInvariant'
<1>1. CASE \E c \in Clients :
              Receive(c) \/ Collect(c) \/ Register(c) \/ Unregister(c) \/ Unload(c) \/ Load(c)
  BY <1>1, ReceiveKeeps, CollectKeeps, RegisterKeeps, UnregisterKeeps, UnloadKeepsEvent, LoadKeepsEvent
<1>2. CASE RunScheduled
  BY <1>2, RunScheduledKeeps
<1>3. CASE Trigger
  BY <1>3, BeginTriggerKeeps, DeliveredKeeps, UnregistersItselfKeeps, HandlerThrowsKeeps,
     UnknownKeeps, DroppedKeeps, EndTriggerKeeps DEF Trigger
<1>4. CASE UNCHANGED eventVars
  <2>1. Held' = Held /\ \A i, d : Leads(i, d)' <=> Leads(i, d)
    BY <1>4 DEF eventVars, Held, Leads, Live
  <2>2. EventTypeOK' /\ Owned' /\ LookupOwn'
    BY <1>4 DEF eventVars, EventInvariant, EventTypeOK, Owned, LookupOwn
  <2>3. Registered' /\ ToHear'
    BY <1>4, <2>1 DEF eventVars, EventInvariant, Registered, ToHear
  <2> QED
    BY <2>2, <2>3 DEF EventInvariant
<1> QED
  BY <1>1, <1>2, <1>3, <1>4 DEF EventNext

LEMMA EventInvariantHolds == EventSpec => []EventInvariant
<1>1. EventInit => EventInvariant
  BY EventBegins
<1>2. EventInvariant /\ [EventNext]_eventVars => EventInvariant'
  BY EventGoesOn
<1> QED
  BY <1>1, <1>2, PTL DEF EventSpec

\* Every variable of the event keeps its type: count is never more than the
\* coroutines that have run, and the slot never past where the trigger is.
THEOREM EventTypeOKHolds == EventSpec => []EventTypeOK
<1>1. EventInvariant => EventTypeOK
  BY DEF EventInvariant
<1> QED
  BY <1>1, EventInvariantHolds, PTL

\* A client that has registered its handler is known to the server, or will be:
\* the handlers the trigger keeps are the ones that lead somewhere, whatever
\* was unregistered, unloaded or loaded again before it.
THEOREM NoLostRegistrationHolds == EventSpec => []NoLostRegistration
<1>1. EventInvariant => NoLostRegistration
  <2> SUFFICES ASSUME EventInvariant, at = 0, NEW c \in Clients, loaded[c], local[c] = "handler"
               PROVE  Confirmed(c) \/ c \in ToSet(scheduled)
    BY DEF NoLostRegistration, Between
  <2>1. Held = 1 .. count
    BY DEF Held
  <2>2. c \in ToSet(scheduled) \/ \E i \in Held : Leads(i, c)
    BY DEF EventInvariant, Registered
  <2> QED
    BY <2>1, <2>2 DEF Confirmed, Leads
<1> QED
  BY <1>1, EventInvariantHolds, PTL

\* A trigger that came to its end reached whoever was registered as it began and
\* is still loaded.
THEOREM AllHearHolds == EventSpec => []AllHear
<1>1. EventInvariant => AllHear
  <2> SUFFICES ASSUME EventInvariant, at > count, at # 0, NEW c \in subscribed, loaded[c]
               PROVE  heard[c] > 0
    BY DEF AllHear
  <2>1. at .. count = {}
    BY TypesApart DEF EventInvariant
  <2> QED
    BY <2>1 DEF EventInvariant, ToHear
<1> QED
  BY <1>1, EventInvariantHolds, PTL
=============================================================================
