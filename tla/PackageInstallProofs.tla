-------------------------- MODULE PackageInstallProofs -------------------------
(***************************************************************************)
(* Two promises of install_or_update, for any number of operations,        *)
(* packages, worlds, failures and removals.                                *)
(*                                                                         *)
(* An operation that waits for a download is resumed by it: the job a      *)
(* coroutine waits for is before the thread of the downloader, and not     *)
(* complete.  The invariant does not ask that what is queued is still of   *)
(* use.  It asks that every job there is, and that is not complete, is     *)
(* queued or in hand, whoever waits for it and when.                       *)
(*                                                                         *)
(* And what was asked for is in place once everything is quiet, or         *)
(* something was reported.  This is not inductive, as it says nothing      *)
(* before the end.  The second half of the module follows each file that   *)
(* was asked for on its way: the name is still to be selected, or the      *)
(* package to be queued, or a job for it is owed to an operation, or the   *)
(* file is in place; and it is so until something is doomed to be          *)
(* reported.  That needs to know where the operations are, and in which    *)
(* order their jobs are, which is the invariant Structure, and the         *)
(* type invariant with it.                                                 *)
(***************************************************************************)
EXTENDS PackageInstall, SequenceTheorems, FiniteSetTheorems, FunctionTheorems,
        WellFoundedInduction, TLAPS

-----------------------------------------------------------------------------
(***************************************************************************)
(* The invariant                                                           *)
(***************************************************************************)
Fields == {"pc", "asked", "names", "force", "packages", "jobs", "k", "thread", "modified",
           "result", "reported"}

FileNames == {"packages.xml", "manifest.xml", "code"}

\* Jobs for any of a set of targets.
JobSet(targets) ==
    [of : targets, timed : SUBSET FileNames,
     status : UNION {[files -> Statuses] : files \in SUBSET FileNames}, complete : BOOLEAN]

Shape ==
    /\ op = [o \in Ops |-> op[o]]
    /\ \A o \in Ops : op[o] = [f \in Fields |-> op[o][f]]
    /\ \A o \in Ops : \E targets : op[o].jobs \in Seq(JobSet(targets))

QueueShape == queue \in Seq(Ops \X Nat) /\ busy \in (Ops \X Nat) \cup {None}

\* The job is in a queue.
Has(s, o, i) == \E n \in 1 .. Len(s) : s[n] = <<o, i>>

\* Every job that is not complete is before the thread.
JobsKept ==
    \A o \in Ops : \A i \in 1 .. Len(op[o].jobs) :
        ~op[o].jobs[i].complete => busy = <<o, i>> \/ Has(queue, o, i)

\* Where an operation awaits a job, there is one.
AwaitsOne ==
    \A o \in Ops :
        /\ op[o].pc \in {"ready", "suspend", "waiting", "resumed"} => op[o].k \in 1 .. Len(op[o].jobs)
        /\ op[o].pc = "waiting" => ~op[o].jobs[op[o].k].complete
        /\ op[o].pc = "check" => op[o].jobs = <<>>

InstallInvariant == Shape /\ QueueShape /\ JobsKept /\ AwaitsOne

-----------------------------------------------------------------------------
(***************************************************************************)
(* Lemmas about jobs and sequences                                         *)
(***************************************************************************)
\* A new job is for its target, with no file done, and not complete.
LEMMA JobTyped ==
    ASSUME NEW t, NEW force
    PROVE  Job(t, force) \in JobSet({t}) /\ ~Job(t, force).complete
<1>1. FilesOf(t) \subseteq FileNames
  BY DEF FilesOf, Files, ToSet, FileNames
<1>2. [f \in FilesOf(t) |-> "pending"] \in UNION {[files -> Statuses] : files \in SUBSET FileNames}
  BY <1>1 DEF Statuses
<1>3. {f \in FilesOf(t) : ~force /\ disk[<<t, f>>] # "none"} \in SUBSET FileNames
  BY <1>1
<1> QED
  BY <1>2, <1>3 DEF Job, JobSet

\* A set of targets may be larger.
LEMMA JobSetMonotone ==
    ASSUME NEW S, NEW T, S \subseteq T
    PROVE  JobSet(S) \subseteq JobSet(T)
BY DEF JobSet

LEMMA SeqMonotone ==
    ASSUME NEW S, NEW T, S \subseteq T, NEW s \in Seq(S)
    PROVE  s \in Seq(T)
<1>1. /\ Len(s) \in Nat /\ s = [i \in 1 .. Len(s) |-> s[i]]
      /\ \A i \in 1 .. Len(s) : s[i] \in T
  OBVIOUS
<1>2. [i \in 1 .. Len(s) |-> s[i]] \in Seq(T)
  BY <1>1
<1> QED
  BY <1>1, <1>2

\* A sequence with a position replaced, if it has that position.
LEMMA ExceptInSeq ==
    ASSUME NEW S, NEW s \in Seq(S), NEW n \in Nat, NEW e, n \in 1 .. Len(s) => e \in S
    PROVE  /\ [s EXCEPT ![n] = e] \in Seq(S)
           /\ Len([s EXCEPT ![n] = e]) = Len(s)
           /\ \A i \in 1 .. Len(s) : [s EXCEPT ![n] = e][i] = IF i = n THEN e ELSE s[i]
<1>1. CASE n \in 1 .. Len(s)
  BY <1>1, ExceptSeq
<1>2. CASE n \notin 1 .. Len(s)
  <2>1. s = [i \in 1 .. Len(s) |-> s[i]]
    OBVIOUS
  <2>2. [s EXCEPT ![n] = e] = s
    BY <1>2, <2>1
  <2> QED
    BY <1>2, <2>2
<1> QED
  BY <1>1, <1>2

\* What the downloader does to the status of a file leaves the job what it is.
LEMMA StatusTyped ==
    ASSUME NEW S, NEW job \in JobSet(S), NEW f, NEW status \in Statuses
    PROVE  /\ [job EXCEPT !.status[f] = status] \in JobSet(S)
           /\ [job EXCEPT !.status[f] = status].complete = job.complete
<1>1. PICK files \in SUBSET FileNames : job.status \in [files -> Statuses]
  BY DEF JobSet
<1>2. [job.status EXCEPT ![f] = status] \in [files -> Statuses]
  BY <1>1
<1>3. [job EXCEPT !.status[f] = status] = [job EXCEPT !.status = [job.status EXCEPT ![f] = status]]
  BY DEF JobSet
<1> QED
  BY <1>1, <1>2, <1>3 DEF JobSet

LEMMA CompleteTyped ==
    ASSUME NEW S, NEW job \in JobSet(S)
    PROVE  /\ [job EXCEPT !.complete = TRUE] \in JobSet(S)
           /\ [job EXCEPT !.complete = TRUE].complete
BY DEF JobSet

-----------------------------------------------------------------------------
(***************************************************************************)
(* What the actions do to the jobs                                         *)
(***************************************************************************)
\* Where the jobs and what is queued stay as they are, so does what is kept.
LEMMA JobsAlone ==
    ASSUME InstallInvariant, Shape', UNCHANGED <<queue, busy>>,
           \A o \in Ops : op'[o].jobs = op[o].jobs
    PROVE  QueueShape' /\ JobsKept'
BY DEF InstallInvariant, QueueShape, JobsKept, Has

\* Of an operation that drops its jobs nothing is asked.
LEMMA JobsDropped ==
    ASSUME InstallInvariant, UNCHANGED <<queue, busy>>, NEW o \in Ops, op'[o].jobs = <<>>,
           \A q \in Ops \ {o} : op'[q] = op[q]
    PROVE  QueueShape' /\ JobsKept'
BY DEF InstallInvariant, QueueShape, JobsKept, Has

\* A step of one operation that is not one of the others, and leaves it the same jobs.
LEMMA OwnStep ==
    ASSUME InstallInvariant, UNCHANGED <<queue, busy>>, NEW o \in Ops, Shape',
           op'[o].jobs = op[o].jobs,
           op'[o].pc \in {"ready", "suspend", "waiting", "resumed"} => op'[o].k \in 1 .. Len(op[o].jobs),
           op'[o].pc = "waiting" => ~op[o].jobs[op'[o].k].complete,
           op'[o].pc = "check" => op[o].jobs = <<>>,
           \A q \in Ops \ {o} : op'[q] = op[q]
    PROVE  InstallInvariant'
<1>1. QueueShape' /\ JobsKept'
  <2>1. \A q \in Ops : op'[q].jobs = op[q].jobs
    OBVIOUS
  <2> QED
    BY <2>1, JobsAlone
<1>2. AwaitsOne'
  BY DEF InstallInvariant, AwaitsOne
<1> QED
  BY <1>1, <1>2 DEF InstallInvariant

LEMMA AwaitReadyKeeps ==
    ASSUME InstallInvariant, NEW o \in Ops, AwaitReady(o)
    PROVE  InstallInvariant'
<1>1. op' = [op EXCEPT ![o].pc = IF Current(o).complete THEN "resumed" ELSE "suspend"]
  BY DEF AwaitReady
<1>2. Shape'
  BY <1>1 DEF InstallInvariant, Shape, Fields
<1>3. /\ op'[o].jobs = op[o].jobs /\ op'[o].k = op[o].k
      /\ op'[o].pc \in {"resumed", "suspend"}
      /\ \A q \in Ops \ {o} : op'[q] = op[q]
  BY <1>1 DEF InstallInvariant, Shape, Fields
<1>4. op[o].k \in 1 .. Len(op[o].jobs)
  BY DEF AwaitReady, InstallInvariant, AwaitsOne
<1> QED
  BY <1>2, <1>3, <1>4, OwnStep DEF AwaitReady

LEMMA AwaitSuspendKeeps ==
    ASSUME InstallInvariant, NEW o \in Ops, AwaitSuspend(o)
    PROVE  InstallInvariant'
<1>1. op' = [op EXCEPT ![o].pc = IF Current(o).complete THEN "resumed" ELSE "waiting",
                       ![o].thread = IF Current(o).complete THEN @ ELSE "own"]
  BY DEF AwaitSuspend
<1>2. Shape'
  BY <1>1, ZenonT(30) DEF InstallInvariant, Shape, Fields
<1>3. /\ op'[o].jobs = op[o].jobs /\ op'[o].k = op[o].k
      /\ op'[o].pc = IF Current(o).complete THEN "resumed" ELSE "waiting"
      /\ \A q \in Ops \ {o} : op'[q] = op[q]
  BY <1>1, ZenonT(30) DEF InstallInvariant, Shape, Fields
<1>4. op[o].k \in 1 .. Len(op[o].jobs)
  BY DEF AwaitSuspend, InstallInvariant, AwaitsOne
<1>5. op'[o].pc # "check" /\ (op'[o].pc = "waiting" => ~op[o].jobs[op'[o].k].complete)
  BY <1>3 DEF Current
<1> QED
  BY <1>2, <1>3, <1>4, <1>5, OwnStep DEF AwaitSuspend

LEMMA ApplyIndexKeeps ==
    ASSUME InstallInvariant, NEW o \in Ops, ApplyIndex(o)
    PROVE  InstallInvariant'
<1>1. PICK reported : op' = [op EXCEPT ![o].pc = "reload", ![o].thread = "own",
                                      ![o].reported = reported]
  BY DEF ApplyIndex
<1>2. Shape'
  BY <1>1 DEF InstallInvariant, Shape, Fields
<1>3. /\ op'[o].jobs = op[o].jobs /\ op'[o].pc = "reload"
      /\ \A q \in Ops \ {o} : op'[q] = op[q]
  BY <1>1 DEF InstallInvariant, Shape, Fields
<1> QED
  BY <1>2, <1>3, OwnStep DEF ApplyIndex

LEMMA ApplyPackageKeeps ==
    ASSUME InstallInvariant, NEW o \in Ops, ApplyPackage(o)
    PROVE  InstallInvariant'
<1>1. PICK reported : op' = [op EXCEPT ![o].pc = Onward(o),
                                      ![o].k = IF Onward(o) = "ready" THEN @ + 1 ELSE @,
                                      ![o].reported = reported]
  BY DEF ApplyPackage
<1>2. Shape'
  BY <1>1, ZenonT(30) DEF InstallInvariant, Shape, Fields
<1>3. /\ op'[o].jobs = op[o].jobs /\ op'[o].pc = Onward(o)
      /\ op'[o].k = IF Onward(o) = "ready" THEN op[o].k + 1 ELSE op[o].k
      /\ \A q \in Ops \ {o} : op'[q] = op[q]
  BY <1>1 DEF InstallInvariant, Shape, Fields
<1>4. op[o].k \in 1 .. Len(op[o].jobs) /\ Len(op[o].jobs) \in Nat
  BY DEF ApplyPackage, InstallInvariant, AwaitsOne, Shape
<1>5. op'[o].pc \in {"ready", "reset"} /\ (op'[o].pc = "ready" => op'[o].k \in 1 .. Len(op[o].jobs))
  BY <1>3, <1>4 DEF Onward
<1> QED
  BY <1>2, <1>3, <1>5, OwnStep DEF ApplyPackage

\* An operation that drops its jobs awaits none.
LEMMA DropStep ==
    ASSUME InstallInvariant, UNCHANGED <<queue, busy>>, NEW o \in Ops, Shape',
           op'[o].jobs = <<>>,
           op'[o].pc \in {"ended", "select", "enqueue", "check"},
           \A q \in Ops \ {o} : op'[q] = op[q]
    PROVE  InstallInvariant'
<1>1. QueueShape' /\ JobsKept'
  BY JobsDropped
<1>2. AwaitsOne'
  BY DEF InstallInvariant, AwaitsOne
<1> QED
  BY <1>1, <1>2 DEF InstallInvariant

LEMMA EmptyTyped ==
    ASSUME NEW S
    PROVE  <<>> \in Seq(S)
OBVIOUS

LEMMA ReloadKeeps ==
    ASSUME InstallInvariant, NEW o \in Ops, Reload(o)
    PROVE  InstallInvariant'
<1>1. PICK pc \in {"ended", "select"} :
         op' = [op EXCEPT ![o].pc = pc, ![o].jobs = <<>>, ![o].k = 0]
  BY DEF Reload
<1>2. Shape'
  BY <1>1, EmptyTyped, ZenonT(30) DEF InstallInvariant, Shape, Fields
<1>3. op'[o].jobs = <<>> /\ op'[o].pc = pc /\ \A q \in Ops \ {o} : op'[q] = op[q]
  BY <1>1 DEF InstallInvariant, Shape, Fields
<1> QED
  BY <1>2, <1>3, DropStep DEF Reload

LEMMA SelectKeeps ==
    ASSUME InstallInvariant, NEW o \in Ops, Select(o)
    PROVE  InstallInvariant'
<1>0. PICK pc \in {"ended", "enqueue"} : \E thread, packages, reported :
         op' = [op EXCEPT ![o].pc = pc, ![o].thread = thread, ![o].packages = packages,
                          ![o].jobs = <<>>, ![o].reported = reported]
  BY DEF Select
<1>1. PICK thread, packages, reported :
         op' = [op EXCEPT ![o].pc = pc, ![o].thread = thread, ![o].packages = packages,
                          ![o].jobs = <<>>, ![o].reported = reported]
  BY <1>0
<1>2. Shape'
  <2> DEFINE after == [op[o] EXCEPT !.pc = pc, !.thread = thread, !.packages = packages,
                                    !.jobs = <<>>, !.reported = reported]
  <2>1. op' = [op EXCEPT ![o] = after]
    BY <1>1 DEF InstallInvariant, Shape
  <2>2. after = [f \in Fields |-> after[f]] /\ after.jobs = <<>>
    BY DEF InstallInvariant, Shape, Fields
  <2> HIDE DEF after
  <2> QED
    BY <2>1, <2>2, EmptyTyped DEF InstallInvariant, Shape
<1>3. op'[o].jobs = <<>> /\ op'[o].pc = pc /\ \A q \in Ops \ {o} : op'[q] = op[q]
  BY <1>1 DEF InstallInvariant, Shape, Fields
<1> QED
  BY <1>0, <1>2, <1>3, DropStep DEF Select

LEMMA ResetKeeps ==
    ASSUME InstallInvariant, NEW o \in Ops, Reset(o)
    PROVE  InstallInvariant'
<1>1. op' = [op EXCEPT ![o].pc = "check", ![o].jobs = <<>>, ![o].k = 0]
  BY DEF Reset
<1>2. Shape'
  BY <1>1, EmptyTyped, ZenonT(30) DEF InstallInvariant, Shape, Fields
<1>3. op'[o].jobs = <<>> /\ op'[o].pc = "check" /\ \A q \in Ops \ {o} : op'[q] = op[q]
  BY <1>1 DEF InstallInvariant, Shape, Fields
<1> QED
  BY <1>2, <1>3, DropStep DEF Reset

\* A round that is checked has dropped its jobs before.
LEMMA CheckKeeps ==
    ASSUME InstallInvariant, NEW o \in Ops, Check(o)
    PROVE  InstallInvariant'
<1>0. PICK pc \in {"ended", "select"} : \E thread, names, modified, result :
         op' = [op EXCEPT ![o].pc = pc, ![o].thread = thread, ![o].names = names,
                          ![o].packages = <<>>, ![o].modified = modified, ![o].result = result]
  BY DEF Check
<1>1. PICK thread, names, modified, result :
         op' = [op EXCEPT ![o].pc = pc, ![o].thread = thread, ![o].names = names,
                          ![o].packages = <<>>, ![o].modified = modified, ![o].result = result]
  BY <1>0
<1>2. op[o].jobs = <<>>
  BY DEF Check, InstallInvariant, AwaitsOne
<1>3. Shape'
  <2> DEFINE after == [op[o] EXCEPT !.pc = pc, !.thread = thread, !.names = names,
                                    !.packages = <<>>, !.modified = modified, !.result = result]
  <2>1. op' = [op EXCEPT ![o] = after]
    BY <1>1 DEF InstallInvariant, Shape
  <2>2. after = [f \in Fields |-> after[f]] /\ after.jobs = op[o].jobs
    BY DEF InstallInvariant, Shape, Fields
  <2> HIDE DEF after
  <2> QED
    BY <2>1, <2>2 DEF InstallInvariant, Shape
<1>4. op'[o].jobs = <<>> /\ op'[o].pc = pc /\ \A q \in Ops \ {o} : op'[q] = op[q]
  BY <1>1, <1>2 DEF InstallInvariant, Shape, Fields
<1> QED
  BY <1>0, <1>3, <1>4, DropStep DEF Check

-----------------------------------------------------------------------------
(***************************************************************************)
(* New jobs are queued, and taken in the order they are queued.            *)
(***************************************************************************)
\* What is queued stays queued when something is added, and that is too.
LEMMA QueuedMore ==
    ASSUME QueueShape, NEW o \in Ops, NEW i \in Nat, queue' = Append(queue, <<o, i>>)
    PROVE  /\ queue' \in Seq(Ops \X Nat)
           /\ Has(queue', o, i)
           /\ \A q, j : Has(queue, q, j) => Has(queue', q, j)
<1>1. /\ queue' \in Seq(Ops \X Nat) /\ Len(queue') = Len(queue) + 1
      /\ queue'[Len(queue) + 1] = <<o, i>>
      /\ \A n \in 1 .. Len(queue) : queue'[n] = queue[n]
  BY DEF QueueShape
<1>2. Len(queue) \in Nat
  BY DEF QueueShape
<1>3. Has(queue', o, i)
  <2>1. Len(queue) + 1 \in 1 .. Len(queue')
    BY <1>1, <1>2
  <2> QED
    BY <1>1, <2>1 DEF Has
<1>4. ASSUME NEW q, NEW j, Has(queue, q, j)
      PROVE  Has(queue', q, j)
  <2>1. PICK n \in 1 .. Len(queue) : queue[n] = <<q, j>>
    BY <1>4 DEF Has
  <2>2. n \in 1 .. Len(queue') /\ queue'[n] = <<q, j>>
    BY <2>1, <1>1, <1>2
  <2> QED
    BY <2>2 DEF Has
<1> QED
  BY <1>1, <1>3, <1>4

LEMMA BeginKeeps ==
    ASSUME InstallInvariant, NEW o \in Ops, NEW c \in Commands, Begin(o, c)
    PROVE  InstallInvariant'
<1> DEFINE job == Job(Index, c.force)
           after == [Idle EXCEPT !.pc = "ready", !.asked = Asked(c), !.names = Asked(c),
                                 !.force = c.force, !.jobs = <<job>>, !.k = 1]
<1>1. op' = [op EXCEPT ![o] = after] /\ queue' = Append(queue, <<o, 1>>) /\ busy' = busy
  BY DEF Begin
<1>2. /\ after = [f \in Fields |-> after[f]] /\ after.jobs = <<job>> /\ after.k = 1
      /\ after.pc = "ready"
  BY DEF Idle, Fields
<1>3. job \in JobSet({Index}) /\ ~job.complete
  BY JobTyped
<1>4. <<job>> \in Seq(JobSet({Index})) /\ Len(<<job>>) = 1 /\ <<job>>[1] = job
  BY <1>3
<1> HIDE DEF job, after
<1>5. op'[o] = after /\ \A q \in Ops \ {o} : op'[q] = op[q]
  BY <1>1 DEF InstallInvariant, Shape
<1>6. Shape'
  BY <1>1, <1>2, <1>4 DEF InstallInvariant, Shape
<1>7. /\ queue' \in Seq(Ops \X Nat) /\ Has(queue', o, 1)
      /\ \A q, j : Has(queue, q, j) => Has(queue', q, j)
  BY <1>1, QueuedMore DEF InstallInvariant
<1>8. QueueShape'
  BY <1>1, <1>7 DEF InstallInvariant, QueueShape
<1>9. JobsKept'
  <2> SUFFICES ASSUME NEW q \in Ops, NEW i \in 1 .. Len(op'[q].jobs), ~op'[q].jobs[i].complete
               PROVE  busy' = <<q, i>> \/ Has(queue', q, i)
    BY DEF JobsKept
  <2>1. CASE q = o
    <3>1. i = 1
      BY <2>1, <1>5, <1>2, <1>4
    <3> QED
      BY <2>1, <3>1, <1>7
  <2>2. CASE q # o
    BY <2>2, <1>1, <1>5, <1>7 DEF InstallInvariant, JobsKept
  <2> QED
    BY <2>1, <2>2
<1>10. AwaitsOne'
  <2>1. /\ op'[o].pc = "ready" /\ op'[o].k = 1 /\ Len(op'[o].jobs) = 1
    BY <1>2, <1>4, <1>5
  <2>2. 1 \in 1 .. Len(op'[o].jobs)
    BY <2>1
  <2> QED
    BY <2>1, <2>2, <1>5 DEF InstallInvariant, AwaitsOne
<1> QED
  BY <1>6, <1>8, <1>9, <1>10 DEF InstallInvariant

LEMMA EnqueueKeeps ==
    ASSUME InstallInvariant, NEW o \in Ops, Enqueue(o)
    PROVE  InstallInvariant'
<1> DEFINE i == Len(op[o].jobs) + 1
           target == op[o].packages[i]
           job == Job(target, op[o].force)
           jobs == Append(op[o].jobs, job)
           pc == IF i = Len(op[o].packages) THEN "ready" ELSE op[o].pc
           after == [op[o] EXCEPT !.jobs = jobs, !.pc = pc, !.k = 1]
<1>1. queue' = Append(queue, <<o, i>>) /\ busy' = busy /\ op[o].pc = "enqueue"
  BY DEF Enqueue
<1>2. op' = [op EXCEPT ![o] = after]
  BY DEF Enqueue, InstallInvariant, Shape
<1>3. /\ after = [f \in Fields |-> after[f]] /\ after.jobs = jobs /\ after.k = 1
      /\ after.pc = pc
  BY DEF InstallInvariant, Shape, Fields
<1>4. PICK targets : op[o].jobs \in Seq(JobSet(targets))
  BY DEF InstallInvariant, Shape
<1>5. job \in JobSet({target}) /\ ~job.complete
  BY JobTyped
<1>6. op[o].jobs \in Seq(JobSet(targets \cup {target})) /\ job \in JobSet(targets \cup {target})
  <2> HIDE DEF job, target
  <2>1. /\ JobSet(targets) \subseteq JobSet(targets \cup {target})
        /\ JobSet({target}) \subseteq JobSet(targets \cup {target})
    BY JobSetMonotone
  <2> QED
    BY <1>4, <1>5, <2>1, SeqMonotone
<1> HIDE DEF job
<1>7. /\ jobs \in Seq(JobSet(targets \cup {target})) /\ Len(jobs) = i /\ i \in Nat \ {0}
      /\ \A j \in 1 .. Len(op[o].jobs) : jobs[j] = op[o].jobs[j]
      /\ 1 .. i = (1 .. Len(op[o].jobs)) \cup {i}
  BY <1>6
<1> HIDE DEF i, jobs, after
<1>8. op'[o] = after /\ \A q \in Ops \ {o} : op'[q] = op[q]
  BY <1>2 DEF InstallInvariant, Shape
<1>9. Shape'
  BY <1>2, <1>3, <1>7 DEF InstallInvariant, Shape
<1>10. /\ queue' \in Seq(Ops \X Nat) /\ Has(queue', o, i)
       /\ \A q, j : Has(queue, q, j) => Has(queue', q, j)
  BY <1>1, <1>7, QueuedMore DEF InstallInvariant
<1>11. QueueShape'
  BY <1>1, <1>10 DEF InstallInvariant, QueueShape
<1>12. JobsKept'
  <2> SUFFICES ASSUME NEW q \in Ops, NEW j \in 1 .. Len(op'[q].jobs), ~op'[q].jobs[j].complete
               PROVE  busy' = <<q, j>> \/ Has(queue', q, j)
    BY DEF JobsKept
  <2>1. CASE q = o /\ j = i
    BY <2>1, <1>10
  <2>2. CASE q = o /\ j # i
    <3>1. j \in 1 .. Len(op[o].jobs) /\ op'[o].jobs[j] = op[o].jobs[j]
      BY <2>2, <1>3, <1>7, <1>8
    <3> QED
      BY <2>2, <3>1, <1>1, <1>10 DEF InstallInvariant, JobsKept
  <2>3. CASE q # o
    BY <2>3, <1>1, <1>8, <1>10 DEF InstallInvariant, JobsKept
  <2> QED
    BY <2>1, <2>2, <2>3
<1>13. AwaitsOne'
  BY <1>1, <1>3, <1>7, <1>8, SMTT(30) DEF InstallInvariant, AwaitsOne
<1> QED
  BY <1>9, <1>11, <1>12, <1>13 DEF InstallInvariant

LEMMA TakeJobKeeps ==
    ASSUME InstallInvariant, TakeJob
    PROVE  InstallInvariant'
<1>1. /\ busy = None /\ queue # <<>> /\ busy' = Head(queue) /\ queue' = Tail(queue) /\ op' = op
  BY DEF TakeJob
<1>2. queue \in Seq(Ops \X Nat)
  BY DEF InstallInvariant, QueueShape
<1>3. /\ Len(queue) \in Nat \ {0} /\ busy' = queue[1] /\ busy' \in Ops \X Nat
      /\ queue' \in Seq(Ops \X Nat) /\ Len(queue') = Len(queue) - 1
      /\ \A n \in 1 .. Len(queue) - 1 : queue'[n] = queue[n + 1]
  BY <1>1, <1>2, HeadTailProperties
<1>4. QueueShape' /\ Shape' /\ AwaitsOne'
  BY <1>1, <1>3 DEF InstallInvariant, Shape, QueueShape, AwaitsOne
<1>5. \A q, j : Has(queue, q, j) => busy' = <<q, j>> \/ Has(queue', q, j)
  <2> SUFFICES ASSUME NEW q, NEW j, NEW n \in 1 .. Len(queue), queue[n] = <<q, j>>, n # 1
               PROVE  Has(queue', q, j)
    BY <1>3 DEF Has
  <2>1. /\ n - 1 \in 1 .. Len(queue) - 1 /\ (n - 1) + 1 = n
        /\ queue'[n - 1] = queue[(n - 1) + 1]
    BY <1>3
  <2> QED
    BY <2>1, <1>3 DEF Has
<1>6. \A q \in Ops : \A j : busy # <<q, j>>
  BY <1>1 DEF None, Ops
<1> QED
  BY <1>1, <1>4, <1>5, <1>6 DEF InstallInvariant, JobsKept

-----------------------------------------------------------------------------
(***************************************************************************)
(* The thread of the downloader at a job, which may be one an operation has *)
(* dropped: then there is nothing at its place, and nothing changes.       *)
(***************************************************************************)
LEMMA BusyTyped ==
    ASSUME InstallInvariant, busy # None
    PROVE  busy[1] \in Ops /\ busy[2] \in Nat /\ busy = <<busy[1], busy[2]>>
BY DEF InstallInvariant, QueueShape

LEMMA StatusKeeps ==
    ASSUME InstallInvariant, busy # None, NEW f, NEW status \in Statuses, Becomes(f, status),
           UNCHANGED <<queue, busy>>
    PROVE  InstallInvariant'
<1> DEFINE o == busy[1]
           n == busy[2]
           job == [op[o].jobs[n] EXCEPT !.status[f] = status]
           jobs == [op[o].jobs EXCEPT ![n] = job]
           after == [op[o] EXCEPT !.jobs = jobs]
<1>1. o \in Ops /\ n \in Nat
  BY BusyTyped
<1>2. op' = [op EXCEPT ![o] = after]
  BY DEF Becomes, InstallInvariant, Shape
<1>3. PICK targets : op[o].jobs \in Seq(JobSet(targets))
  BY <1>1 DEF InstallInvariant, Shape
<1>4. n \in 1 .. Len(op[o].jobs) => /\ job \in JobSet(targets)
                                    /\ job.complete = op[o].jobs[n].complete
  <2> SUFFICES ASSUME n \in 1 .. Len(op[o].jobs)
               PROVE  job \in JobSet(targets) /\ job.complete = op[o].jobs[n].complete
    OBVIOUS
  <2>1. op[o].jobs[n] \in JobSet(targets)
    BY <1>3
  <2>2. \A old \in JobSet(targets) :
           /\ [old EXCEPT !.status[f] = status] \in JobSet(targets)
           /\ [old EXCEPT !.status[f] = status].complete = old.complete
    BY StatusTyped
  <2> QED
    BY <2>1, <2>2, Zenon
<1>5. /\ after = [g \in Fields |-> after[g]] /\ after.jobs = jobs
      /\ after.pc = op[o].pc /\ after.k = op[o].k
  BY <1>1, ZenonT(30) DEF InstallInvariant, Shape, Fields
<1> HIDE DEF job
<1>6. /\ jobs \in Seq(JobSet(targets)) /\ Len(jobs) = Len(op[o].jobs)
      /\ \A i \in 1 .. Len(op[o].jobs) : jobs[i] = IF i = n THEN job ELSE op[o].jobs[i]
  BY <1>1, <1>3, <1>4, ExceptInSeq
<1>7. \A i \in 1 .. Len(op[o].jobs) : jobs[i].complete = op[o].jobs[i].complete
  BY <1>4, <1>6
<1> HIDE DEF o, n, jobs, after
<1>8. op'[o] = after /\ \A q \in Ops \ {o} : op'[q] = op[q]
  BY <1>1, <1>2 DEF InstallInvariant, Shape
<1>9. Shape'
  BY <1>1, <1>2, <1>5, <1>6 DEF InstallInvariant, Shape
<1>10. /\ \A q \in Ops : Len(op'[q].jobs) = Len(op[q].jobs)
       /\ \A q \in Ops : \A i \in 1 .. Len(op[q].jobs) :
             op'[q].jobs[i].complete = op[q].jobs[i].complete
       /\ \A q \in Ops : op'[q].pc = op[q].pc /\ op'[q].k = op[q].k
  BY <1>5, <1>6, <1>7, <1>8
<1>11. JobsKept'
  BY <1>10 DEF InstallInvariant, JobsKept
<1>12. AwaitsOne'
  <2> SUFFICES ASSUME NEW q \in Ops
               PROVE  /\ op'[q].pc \in {"ready", "suspend", "waiting", "resumed"} =>
                            op'[q].k \in 1 .. Len(op'[q].jobs)
                      /\ op'[q].pc = "waiting" => ~op'[q].jobs[op'[q].k].complete
                      /\ op'[q].pc = "check" => op'[q].jobs = <<>>
    BY DEF AwaitsOne
  <2>1. /\ op[q].pc \in {"ready", "suspend", "waiting", "resumed"} => op[q].k \in 1 .. Len(op[q].jobs)
        /\ op[q].pc = "waiting" => ~op[q].jobs[op[q].k].complete
        /\ op[q].pc = "check" => op[q].jobs = <<>>
    BY DEF InstallInvariant, AwaitsOne
  <2>2. op[q].jobs = <<>> => op'[q].jobs = <<>>
    <3>1. op'[q].jobs \in Seq(JobSet(targets)) \/ op'[q].jobs = op[q].jobs
      BY <1>5, <1>6, <1>8
    <3> QED
      BY <3>1, <1>10, EmptySeq
  <2> QED
    BY <2>1, <2>2, <1>10
<1> QED
  BY <1>9, <1>11, <1>12 DEF InstallInvariant, QueueShape

LEMMA CompleteJobKeeps ==
    ASSUME InstallInvariant, CompleteJob
    PROVE  InstallInvariant'
<1> DEFINE o == busy[1]
           n == busy[2]
           job == [op[o].jobs[n] EXCEPT !.complete = TRUE]
           jobs == [op[o].jobs EXCEPT ![n] = job]
           resumes == op[o].pc = "waiting" /\ op[o].k = n
           after == IF resumes THEN [op[o] EXCEPT !.jobs = jobs, !.pc = "resumed",
                                                  !.thread = "downloader"]
                               ELSE [op[o] EXCEPT !.jobs = jobs]
<1>1. o \in Ops /\ n \in Nat /\ busy = <<o, n>>
  BY BusyTyped DEF CompleteJob
<1>2. op' = [op EXCEPT ![o] = after] /\ busy' = None /\ queue' = queue
  BY DEF CompleteJob, InstallInvariant, Shape
<1>3. PICK targets : op[o].jobs \in Seq(JobSet(targets))
  BY <1>1 DEF InstallInvariant, Shape
<1>4. n \in 1 .. Len(op[o].jobs) => job \in JobSet(targets) /\ job.complete
  BY <1>3, CompleteTyped
<1>5. /\ after = [g \in Fields |-> after[g]] /\ after.jobs = jobs
      /\ after.k = op[o].k
      /\ after.pc = IF resumes THEN "resumed" ELSE op[o].pc
  BY <1>1, ZenonT(30) DEF InstallInvariant, Shape, Fields
<1> HIDE DEF job
<1>6. /\ jobs \in Seq(JobSet(targets)) /\ Len(jobs) = Len(op[o].jobs)
      /\ \A i \in 1 .. Len(op[o].jobs) : jobs[i] = IF i = n THEN job ELSE op[o].jobs[i]
  BY <1>1, <1>3, <1>4, ExceptInSeq
<1> HIDE DEF jobs, after
<1>7. op'[o] = after /\ \A q \in Ops \ {o} : op'[q] = op[q]
  BY <1>1, <1>2 DEF InstallInvariant, Shape
<1>8. Shape'
  BY <1>1, <1>2, <1>5, <1>6 DEF InstallInvariant, Shape
<1>9. JobsKept'
  <2> SUFFICES ASSUME NEW q \in Ops, NEW i \in 1 .. Len(op'[q].jobs), ~op'[q].jobs[i].complete
               PROVE  Has(queue', q, i)
    BY DEF JobsKept
  <2>1. i \in 1 .. Len(op[q].jobs)
    BY <1>5, <1>6, <1>7
  <2>2. <<q, i>> # <<o, n>>
    BY <2>1, <1>4, <1>5, <1>6, <1>7
  <2>3. ~op[q].jobs[i].complete
    BY <2>1, <2>2, <1>5, <1>6, <1>7
  <2> QED
    BY <2>1, <2>2, <2>3, <1>1, <1>2 DEF InstallInvariant, JobsKept
<1>10. AwaitsOne'
  <2> SUFFICES ASSUME NEW q \in Ops
               PROVE  /\ op'[q].pc \in {"ready", "suspend", "waiting", "resumed"} =>
                            op'[q].k \in 1 .. Len(op'[q].jobs)
                      /\ op'[q].pc = "waiting" => ~op'[q].jobs[op'[q].k].complete
                      /\ op'[q].pc = "check" => op'[q].jobs = <<>>
    BY DEF AwaitsOne
  <2>1. /\ op[q].pc \in {"ready", "suspend", "waiting", "resumed"} => op[q].k \in 1 .. Len(op[q].jobs)
        /\ op[q].pc = "waiting" => ~op[q].jobs[op[q].k].complete
        /\ op[q].pc = "check" => op[q].jobs = <<>>
    BY DEF InstallInvariant, AwaitsOne
  <2>2. CASE q # o
    BY <2>1, <2>2, <1>7
  <2>3. CASE q = o /\ resumes
    BY <2>1, <2>3, <1>5, <1>6, <1>7
  <2>4. CASE q = o /\ ~resumes
    <3>1. op'[q].pc = op[q].pc /\ op'[q].k = op[q].k /\ op'[q].jobs = jobs
      BY <2>4, <1>5, <1>7
    <3>2. op[q].pc = "waiting" => op[q].k # n
      BY <2>4
    <3>3. op[q].jobs = <<>> => jobs = <<>>
      BY <2>4, <1>6, EmptySeq
    <3> QED
      BY <2>1, <2>4, <3>1, <3>2, <3>3, <1>6
  <2> QED
    BY <2>2, <2>3, <2>4
<1> QED
  BY <1>2, <1>8, <1>9, <1>10 DEF InstallInvariant, QueueShape

LEMMA DownloadKeeps ==
    ASSUME InstallInvariant, Download
    PROVE  InstallInvariant'
<1>1. CASE TakeJob
  BY <1>1, TakeJobKeeps
<1>2. CASE \E f \in {"packages.xml", "manifest.xml", "code"} :
               NotModified(f) \/ Receive(f) \/ Finish(f) \/ Fail(f)
  <2>1. PICK f \in {"packages.xml", "manifest.xml", "code"}, status \in Statuses :
           Becomes(f, status) /\ Turn(f) /\ UNCHANGED <<queue, busy>>
    BY <1>2 DEF NotModified, Receive, Finish, Fail, Statuses
  <2> QED
    BY <2>1, StatusKeeps DEF Turn
<1>3. CASE CompleteJob
  BY <1>3, CompleteJobKeeps
<1> QED
  BY <1>1, <1>2, <1>3 DEF Download

-----------------------------------------------------------------------------
(***************************************************************************)
(* The theorem                                                             *)
(***************************************************************************)
LEMMA InitiallyInvariant == Init => InstallInvariant
<1> SUFFICES ASSUME Init
             PROVE  InstallInvariant
  OBVIOUS
<1>1. /\ op = [o \in Ops |-> Idle] /\ queue = <<>> /\ busy = None
      /\ Idle = [f \in Fields |-> Idle[f]] /\ Idle.jobs = <<>> /\ Idle.pc = "idle"
  BY DEF Init, Idle, Fields
<1>2. Shape
  BY <1>1, EmptyTyped DEF Shape
<1>3. QueueShape
  BY <1>1, EmptyTyped DEF QueueShape
<1>4. JobsKept /\ AwaitsOne
  BY <1>1 DEF JobsKept, AwaitsOne
<1> QED
  BY <1>2, <1>3, <1>4 DEF InstallInvariant

LEMMA StepKeeps ==
    ASSUME InstallInvariant, [Next]_vars
    PROVE  InstallInvariant'
<1>1. CASE \E o \in Ops, c \in Commands : Begin(o, c)
  BY <1>1, BeginKeeps
<1>2. CASE UNCHANGED <<op, queue, busy>>
  BY <1>2 DEF InstallInvariant, Shape, QueueShape, JobsKept, AwaitsOne
<1>3. CASE \E o \in Ops : Step(o)
  BY <1>3, AwaitReadyKeeps, AwaitSuspendKeeps, ApplyIndexKeeps, ReloadKeeps, SelectKeeps,
     EnqueueKeeps, ApplyPackageKeeps, ResetKeeps, CheckKeeps DEF Step
<1>4. CASE Download
  BY <1>4, DownloadKeeps
<1>5. CASE \E p \in Packages : Uninstall(p)
  <2>1. UNCHANGED <<op, queue, busy>>
    BY <1>5 DEF Uninstall
  <2> QED
    BY <2>1, <1>2
<1>6. CASE UNCHANGED vars
  BY <1>2, <1>6 DEF vars
<1> QED
  BY <1>1, <1>3, <1>4, <1>5, <1>6 DEF Next

\* The jobs and the operations that await them keep their shape, and every job
\* that is not complete is before the thread of the downloader.
THEOREM InvariantHolds == Spec => []InstallInvariant
<1>1. Init => InstallInvariant
  BY InitiallyInvariant
<1>2. InstallInvariant /\ [Next]_vars => InstallInvariant'
  BY StepKeeps
<1> QED
  BY <1>1, <1>2, PTL DEF Spec

\* A coroutine that is suspended has its job before it, however many operations
\* there are, whatever they ask for and whatever fails: looking again with the
\* job's mutex held (coroutine.hpp) leaves no moment at which it could be missed.
THEOREM NeverForgottenHolds == Spec => []NeverForgotten
<1>1. InstallInvariant => NeverForgotten
  <2> SUFFICES ASSUME InstallInvariant, NEW o \in Ops, op[o].pc = "waiting"
               PROVE  <<o, op[o].k>> = busy \/ <<o, op[o].k>> \in ToSet(queue)
    BY DEF NeverForgotten
  <2>1. op[o].k \in 1 .. Len(op[o].jobs) /\ ~op[o].jobs[op[o].k].complete
    BY DEF InstallInvariant, AwaitsOne
  <2>2. busy = <<o, op[o].k>> \/ Has(queue, o, op[o].k)
    BY <2>1 DEF InstallInvariant, JobsKept
  <2>3. DOMAIN queue = 1 .. Len(queue)
    BY DEF InstallInvariant, QueueShape
  <2> QED
    BY <2>2, <2>3 DEF Has, ToSet
<1> QED
  BY <1>1, InvariantHolds, PTL

-----------------------------------------------------------------------------
(***************************************************************************)
(* Numbers, and positions of sequences                                     *)
(***************************************************************************)

\* A set of numbers has a least one.
LEMMA LeastNumber ==
    ASSUME NEW S \in SUBSET Nat, S # {}
    PROVE  \E n \in S : \A m \in S : n <= m
<1> DEFINE R == {ss \in Nat \X Nat : ss[1] < ss[2]}
<1>1. IsWellFoundedOn(R, Nat)
  BY NatLessThanWellFounded DEF OpToRel, R
<1>2. \A m, n \in Nat : m < n => <<m, n>> \in R
  BY DEF R
<1> HIDE DEF R
<1>3. PICK n \in S : \A m \in S : ~ (<<m, n>> \in R)
  BY <1>1, WFMin
<1>4. n \in Nat /\ \A m \in S : m \in Nat /\ ~ (m < n)
  BY <1>2, <1>3
<1> QED
  BY <1>4

\* The members of a finite set of numbers, counted upwards.
LEMMA InOrderFacts ==
    ASSUME NEW I \in SUBSET Nat, IsFiniteSet(I)
    PROVE  /\ InOrder(I) \in Seq(I) /\ Len(InOrder(I)) = Cardinality(I) /\ Cardinality(I) \in Nat
           /\ \A i \in I : \E k \in DOMAIN InOrder(I) : InOrder(I)[k] = i
           /\ \A j, k \in DOMAIN InOrder(I) : j < k => InOrder(I)[j] < InOrder(I)[k]
<1> DEFINE n == Cardinality(I)
           Lower(i) == {j \in I : j < i}
           rank == [i \in I |-> Cardinality(Lower(i))]
<1>1. n \in Nat
  BY FS_CardinalityType
<1>2. \A i \in I : IsFiniteSet(Lower(i)) /\ Cardinality(Lower(i)) \in Nat
  BY FS_Subset, FS_CardinalityType
<1>3. ASSUME NEW i \in I, NEW T \in SUBSET I, IsFiniteSet(T),
             Lower(i) \subseteq T, i \in T
      PROVE  Cardinality(Lower(i)) < Cardinality(T)
  <2>1. Lower(i) \in SUBSET T /\ Lower(i) # T
    BY <1>3
  <2> HIDE DEF Lower
  <2>2. Cardinality(T) \in Nat /\ Cardinality(Lower(i)) \in Nat
    BY <1>2, <1>3, FS_CardinalityType
  <2>3. Cardinality(Lower(i)) <= Cardinality(T) /\ Cardinality(T) # Cardinality(Lower(i))
    BY <1>3, <2>1, FS_Subset
  <2> QED
    BY <2>2, <2>3
<1>4. \A i \in I : Cardinality(Lower(i)) < n
  BY <1>3
<1>5. \A i, j \in I : i < j => Cardinality(Lower(i)) < Cardinality(Lower(j))
  <2> TAKE i, j \in I
  <2> HAVE i < j
  <2>0. IsFiniteSet(Lower(j))
    BY <1>2, ZenonT(30)
  <2>2. \A k \in I : k < i => k < j
    OBVIOUS
  <2> HIDE DEF rank, n
  <2>1. Lower(j) \in SUBSET I /\ Lower(i) \subseteq Lower(j) /\ i \in Lower(j)
    BY <2>2
  <2> HIDE DEF Lower
  <2> QED
    BY <1>3, <2>0, <2>1
<1> HIDE DEF Lower
<1>6. \A i, j \in I : rank[i] < rank[j] <=> i < j
  <2> TAKE i, j \in I
  <2>1. rank[i] \in Nat /\ rank[j] \in Nat
    BY <1>2
  <2>2. i < j \/ j < i \/ i = j
    OBVIOUS
  <2> QED
    BY <1>5, <2>1, <2>2
<1>7. rank \in Injection(I, 0 .. n - 1)
  <2>1. rank \in [I -> 0 .. n - 1]
    BY <1>1, <1>2, <1>4
  <2>2. \A i, j \in I : rank[i] = rank[j] => i = j
    <3> TAKE i, j \in I
    <3>1. i < j \/ j < i \/ i = j
      OBVIOUS
    <3>2. rank[i] \in Nat /\ rank[j] \in Nat
      BY <1>2
    <3> QED
      BY <1>6, <3>1, <3>2
  <2> HIDE DEF rank
  <2> QED
    BY <2>1, <2>2 DEF Injection, IsInjective
<1>8. rank \in Surjection(I, 0 .. n - 1)
  <2>1. IsFiniteSet(0 .. n - 1) /\ Cardinality(0 .. n - 1) = n
    <3> HIDE DEF n
    <3> QED
      BY <1>1, FS_Interval
  <2> HIDE DEF rank
  <2> QED
    BY <1>7, <2>1, FS_Injection
<1>9. ASSUME NEW k \in 1 .. n
      PROVE  InOrder(I)[k] \in I /\ rank[InOrder(I)[k]] = k - 1
  <2>1. k - 1 \in 0 .. n - 1
    BY <1>1
  <2>2. \E i \in I : rank[i] = k - 1
    BY <1>8, <2>1 DEF Surjection
  <2>3. \E i \in I : Cardinality({j \in I : j < i}) = k - 1
    BY <2>2 DEF Lower
  <2>4. InOrder(I)[k] = CHOOSE i \in I : Cardinality({j \in I : j < i}) = k - 1
    BY DEF InOrder
  <2> QED
    BY <2>3, <2>4 DEF Lower
<1> HIDE DEF rank
<1>10. DOMAIN InOrder(I) = 1 .. n
  BY DEF InOrder
<1>11. InOrder(I) \in Seq(I) /\ Len(InOrder(I)) = n
  <2> DEFINE nth(k) == CHOOSE i \in I : Cardinality({j \in I : j < i}) = k - 1
  <2>1. InOrder(I) = [k \in 1 .. n |-> nth(k)]
    BY Zenon DEF InOrder
  <2> HIDE DEF nth
  <2>2. \A k \in 1 .. n : nth(k) \in I
    BY <1>9, <2>1
  <2> HIDE DEF n
  <2> QED
    BY <1>1, <2>1, <2>2
<1>12. ASSUME NEW i \in I
       PROVE  \E k \in DOMAIN InOrder(I) : InOrder(I)[k] = i
  <2>1. rank[i] + 1 \in 1 .. n /\ rank[i] \in 0 .. n - 1
    BY <1>1, <1>7 DEF Injection
  <2> DEFINE k == rank[i] + 1
  <2>2. InOrder(I)[k] \in I /\ rank[InOrder(I)[k]] = rank[i]
    BY <1>9, <2>1
  <2>3. InOrder(I)[k] = i
    BY <1>7, <2>2 DEF Injection, IsInjective
  <2> QED
    BY <1>10, <2>1, <2>3
<1>13. ASSUME NEW j \in DOMAIN InOrder(I), NEW k \in DOMAIN InOrder(I), j < k
       PROVE  InOrder(I)[j] < InOrder(I)[k]
  <2>1. /\ InOrder(I)[j] \in I /\ rank[InOrder(I)[j]] = j - 1
        /\ InOrder(I)[k] \in I /\ rank[InOrder(I)[k]] = k - 1
    BY <1>9, <1>10
  <2>2. j - 1 < k - 1
    BY <1>10, <1>13
  <2> QED
    BY <1>6, <2>1, <2>2
<1> QED
  BY <1>1, <1>11, <1>12, <1>13

\* Some positions of a sequence, in order.
LEMMA PickedFacts ==
    ASSUME NEW X, NEW s \in Seq(X), NEW I \in SUBSET (DOMAIN s)
    PROVE  LET at == InOrder(I) IN
           /\ Picked(s, at) \in Seq(X) /\ DOMAIN Picked(s, at) = DOMAIN at
           /\ \A k \in DOMAIN at : k \in Nat \ {0} /\ at[k] \in I /\ Picked(s, at)[k] = s[at[k]]
           /\ \A i \in I : \E k \in DOMAIN at : at[k] = i
           /\ \A j, k \in DOMAIN at : j < k => at[j] < at[k]
<1> DEFINE at == InOrder(I)
           n == Cardinality(I)
<1>1. Len(s) \in Nat /\ DOMAIN s = 1 .. Len(s) /\ \A i \in DOMAIN s : s[i] \in X
  OBVIOUS
<1>2. I \in SUBSET Nat /\ IsFiniteSet(I)
  <2>1. IsFiniteSet(1 .. Len(s))
    BY <1>1, FS_Interval
  <2> QED
    BY <1>1, <2>1, FS_Subset
<1>3. /\ at \in Seq(I) /\ Len(at) = n /\ n \in Nat
      /\ \A i \in I : \E k \in DOMAIN at : at[k] = i
      /\ \A j, k \in DOMAIN at : j < k => at[j] < at[k]
  BY <1>2, InOrderFacts
<1> HIDE DEF at, n
<1>4. DOMAIN at = 1 .. n /\ \A k \in 1 .. n : at[k] \in I /\ k \in Nat \ {0}
  BY <1>3
<1>5. Picked(s, at) = [k \in 1 .. n |-> s[at[k]]]
  BY <1>4 DEF Picked
<1>6. \A k \in 1 .. n : s[at[k]] \in X
  BY <1>1, <1>4
<1>7. Picked(s, at) \in Seq(X) /\ DOMAIN Picked(s, at) = DOMAIN at
  BY <1>3, <1>4, <1>5, <1>6
<1>8. \A k \in DOMAIN at : Picked(s, at)[k] = s[at[k]]
  BY <1>4, <1>5
<1> QED
  BY <1>3, <1>4, <1>7, <1>8 DEF at

\* Those of some names that are in a set.
LEMMA ThoseFacts ==
    ASSUME NEW names \in Seq(Packages), NEW S
    PROVE  /\ Those(names, S) \in Seq(Packages)
           /\ \A i \in DOMAIN names : names[i] \in S =>
                 \E k \in DOMAIN Those(names, S) : Those(names, S)[k] = names[i]
<1> DEFINE I == {i \in DOMAIN names : names[i] \in S}
<1>1. I \in SUBSET (DOMAIN names)
  OBVIOUS
<1>2. Those(names, S) = Picked(names, InOrder(I))
  BY DEF Those
<1>3. \A i \in DOMAIN names : names[i] \in S <=> i \in I
  OBVIOUS
<1> HIDE DEF I
<1>4. /\ Picked(names, InOrder(I)) \in Seq(Packages)
      /\ DOMAIN Picked(names, InOrder(I)) = DOMAIN InOrder(I)
      /\ \A k \in DOMAIN InOrder(I) : Picked(names, InOrder(I))[k] = names[InOrder(I)[k]]
      /\ \A i \in I : \E k \in DOMAIN InOrder(I) : InOrder(I)[k] = i
  BY <1>1, PickedFacts
<1>5. ASSUME NEW i \in DOMAIN names, names[i] \in S
      PROVE  \E k \in DOMAIN Those(names, S) : Those(names, S)[k] = names[i]
  <2>1. i \in I
    BY <1>3, <1>5
  <2>2. PICK k \in DOMAIN InOrder(I) : InOrder(I)[k] = i
    BY <1>4, <2>1
  <2> QED
    BY <1>2, <1>4, <2>2
<1> QED
  BY <1>2, <1>4, <1>5

\* The members of a finite set, as a sequence.
LEMMA SetToSeqTyped ==
    ASSUME NEW S \in SUBSET Packages
    PROVE  SetToSeq(S) \in Seq(Packages)
<1>1. IsFiniteSet(S)
  BY PackageInstallAssumption, FS_Subset
<1>2. Cardinality(S) \in Nat /\ \E f : f \in [1 .. Cardinality(S) -> S] /\ IsInjective(f)
  <2>1. Cardinality(S) \in Nat /\ ExistsBijection(1 .. Cardinality(S), S)
    BY <1>1, FS_CardinalityType
  <2> DEFINE n == Cardinality(S)
  <2> HIDE DEF n
  <2>2. PICK f : f \in Bijection(1 .. n, S)
    BY <2>1 DEF ExistsBijection, n
  <2>3. f \in [1 .. n -> S] /\ \A i, j \in 1 .. n : f[i] = f[j] => i = j
    BY <2>2 DEF Bijection, Injection, IsInjective
  <2> QED
    BY <2>1, <2>3 DEF IsInjective, n
<1>3. SetToSeq(S) \in [1 .. Cardinality(S) -> S]
  BY <1>2 DEF SetToSeq
<1> DEFINE n == Cardinality(S)
           s == SetToSeq(S)
<1>4. n \in Nat /\ s \in [1 .. n -> S]
  BY <1>2, <1>3
<1> HIDE DEF n, s
<1>5. s \in Seq(S)
  BY <1>4
<1> QED
  BY <1>5, SeqMonotone DEF s

-----------------------------------------------------------------------------
(***************************************************************************)
(* What out_of_date comes to                                               *)
(***************************************************************************)

\* A function that adds one sequence after the other exists.
LEMMA FlattenExists ==
    ASSUME NEW X, NEW ss \in Seq(Seq(X)), Len(ss) # 0
    PROVE  \E g \in [1 .. Len(ss) -> Seq(X)] :
              g[1] = ss[1] /\ \A i \in 2 .. Len(ss) : g[i] = g[i - 1] \o ss[i]
<1>n. PICK n : n = Len(ss)
  OBVIOUS
<1> DEFINE Upto(g, m) == \A i \in 1 .. n : i <= m =>
                            g[i] = IF i = 1 THEN ss[i] ELSE g[i - 1] \o ss[i]
           Begun(m) == \E g \in [1 .. n -> Seq(X)] : Upto(g, m)
           Bad == {m \in 0 .. n : ~Begun(m)}
<1>0. n \in Nat /\ n # 0 /\ \A i \in 1 .. n : ss[i] \in Seq(X)
  BY <1>n
<1>1. Begun(0)
  <2>1. [i \in 1 .. n |-> ss[i]] \in [1 .. n -> Seq(X)]
    BY <1>0
  <2>2. \A i \in 1 .. n : ~ (i <= 0)
    BY <1>0
  <2> QED
    BY <2>1, <2>2
<1>2. ASSUME NEW m \in 0 .. n - 1, Begun(m)
      PROVE  Begun(m + 1)
  <2>1. PICK g \in [1 .. n -> Seq(X)] : Upto(g, m)
    BY <1>2
  <2> DEFINE new == IF m + 1 = 1 THEN ss[m + 1] ELSE g[m] \o ss[m + 1]
             h == [g EXCEPT ![m + 1] = new]
  <2>2. m + 1 \in 1 .. n /\ ss[m + 1] \in Seq(X) /\ (m # 0 => m \in 1 .. n)
    BY <1>0
  <2>3. new \in Seq(X)
    <3>1. CASE m = 0
      BY <2>2, <3>1
    <3>2. CASE m # 0
      <4>1. g[m] \in Seq(X)
        BY <2>2, <3>2
      <4>2. g[m] \o ss[m + 1] \in Seq(X)
        BY <2>2, <4>1, ConcatProperties
      <4> QED
        BY <3>2, <4>2
    <3> QED
      BY <3>1, <3>2
  <2>4. h \in [1 .. n -> Seq(X)] /\ \A i \in 1 .. n : h[i] = IF i = m + 1 THEN new ELSE g[i]
    <3> HIDE DEF new
    <3> QED
      BY <2>2, <2>3
  <2> HIDE DEF h
  <2>5. ASSUME NEW i \in 1 .. n, i <= m + 1
        PROVE  h[i] = IF i = 1 THEN ss[i] ELSE h[i - 1] \o ss[i]
    <3>1. CASE i = m + 1
      <4>1. h[i] = new
        BY <2>4, <3>1
      <4>2. i # 1 => i - 1 = m /\ m \in 1 .. n /\ h[i - 1] = g[m]
        <5>1. i # 1 => i - 1 = m /\ m \in 1 .. n /\ m # m + 1
          BY <2>2, <3>1
        <5> HIDE DEF new
        <5> QED
          BY <2>4, <5>1
      <4>3. i = 1 <=> m + 1 = 1
        BY <3>1
      <4> QED
        BY <3>1, <4>1, <4>2, <4>3
    <3>2. CASE i # m + 1
      <4>1. i <= m /\ (i # 1 => i - 1 \in 1 .. n /\ i - 1 # m + 1)
        BY <1>0, <2>5, <3>2
      <4>2. h[i] = g[i] /\ (i # 1 => h[i - 1] = g[i - 1])
        <5> HIDE DEF new
        <5> QED
          BY <2>4, <3>2, <4>1
      <4>3. g[i] = IF i = 1 THEN ss[i] ELSE g[i - 1] \o ss[i]
        BY <2>1, <4>1
      <4> QED
        BY <4>2, <4>3
    <3> QED
      BY <3>1, <3>2
  <2>6. Upto(h, m + 1)
    BY <2>5
  <2> QED
    BY <2>4, <2>6
<1> HIDE DEF Begun
<1>3. Bad = {}
  <2> SUFFICES ASSUME Bad # {}
               PROVE  FALSE
    OBVIOUS
  <2>1. Bad \in SUBSET Nat
    OBVIOUS
  <2>2. PICK m \in Bad : \A b \in Bad : m <= b
    <3> HIDE DEF Bad
    <3> QED
      BY <2>1, LeastNumber
  <2>3. m \in 0 .. n /\ ~Begun(m) /\ m # 0
    BY <1>1, <2>2
  <2>4. m - 1 \in 0 .. n - 1 /\ m - 1 \in 0 .. n /\ ~ (m <= m - 1) /\ (m - 1) + 1 = m
    BY <1>0, <2>3
  <2>5. Begun(m - 1)
    BY <2>2, <2>4
  <2>6. Begun((m - 1) + 1)
    BY <1>2, <2>4, <2>5
  <2> QED
    BY <2>3, <2>4, <2>6
<1>4. Begun(n)
  BY <1>0, <1>3
<1>5. PICK g \in [1 .. n -> Seq(X)] : Upto(g, n)
  BY <1>4 DEF Begun
<1>6. \A i \in 1 .. n : i <= n
  BY <1>0
<1>7. g[1] = ss[1] /\ \A i \in 2 .. n : g[i] = g[i - 1] \o ss[i]
  <2>1. 1 \in 1 .. n /\ \A i \in 2 .. n : i \in 1 .. n /\ i # 1
    BY <1>0
  <2> QED
    BY <1>5, <1>6, <2>1
<1> QED
  BY <1>n, <1>5, <1>7

\* Sequences after each other make a sequence that has the elements of each.
LEMMA FlattenFacts ==
    ASSUME NEW X, NEW ss \in Seq(Seq(X))
    PROVE  /\ FlattenSeq(ss) \in Seq(X)
           /\ \A i \in DOMAIN ss : \A k \in DOMAIN ss[i] :
                 \E m \in DOMAIN FlattenSeq(ss) : FlattenSeq(ss)[m] = ss[i][k]
<1>0. Len(ss) \in Nat /\ DOMAIN ss = 1 .. Len(ss) /\ \A i \in 1 .. Len(ss) : ss[i] \in Seq(X)
  OBVIOUS
<1>1. CASE Len(ss) = 0
  <2>1. FlattenSeq(ss) = ss
    BY <1>1 DEF FlattenSeq
  <2>2. ss = <<>>
    BY <1>1
  <2> QED
    BY <2>1, <2>2, <1>0
<1>2. CASE Len(ss) # 0
  <2>1. PICK n : n = Len(ss)
    OBVIOUS
  <2> DEFINE flat(g) == g = [i \in 1 .. n |-> IF i = 1 THEN ss[i] ELSE g[i - 1] \o ss[i]]
             f == CHOOSE g : flat(g)
  <2>2. FlattenSeq(ss) = f[n]
    BY <1>2, <2>1 DEF FlattenSeq
  <2>3. \E g : flat(g)
    <3>0. n \in Nat /\ n = Len(ss) /\ n # 0
      BY <1>0, <1>2, <2>1
    <3>1. PICK g \in [1 .. n -> Seq(X)] :
             g[1] = ss[1] /\ \A i \in 2 .. n : g[i] = g[i - 1] \o ss[i]
      BY <1>2, <2>1, FlattenExists
    <3>2. \A i \in 1 .. n : i = 1 \/ i \in 2 .. n
      BY <3>0
    <3>3. \A i \in 1 .. n : g[i] = IF i = 1 THEN ss[i] ELSE g[i - 1] \o ss[i]
      BY <3>1, <3>2
    <3>4. flat(g)
      BY <3>3
    <3> QED
      BY <3>4
  <2>4. flat(f)
    BY <2>3
  <2> HIDE DEF f
  <2>5. \A i \in 1 .. n : f[i] = IF i = 1 THEN ss[i] ELSE f[i - 1] \o ss[i]
    BY <2>4
  <2> HIDE DEF flat
  <2> DEFINE Carries(m) == f[m] \in Seq(X) /\ \A i \in 1 .. m : \A k \in DOMAIN ss[i] :
                          \E j \in DOMAIN f[m] : f[m][j] = ss[i][k]
             Bad == {m \in 1 .. n : ~Carries(m)}
  <2>6. n \in Nat /\ n # 0 /\ 1 \in 1 .. n
    BY <1>0, <1>2, <2>1
  <2>7. Carries(1)
    <3>1. f[1] = ss[1] /\ ss[1] \in Seq(X)
      BY <1>0, <2>1, <2>5, <2>6
    <3>2. 1 .. 1 = {1}
      OBVIOUS
    <3> QED
      BY <3>1, <3>2
  <2>8. ASSUME NEW m \in 1 .. n, m + 1 \in 1 .. n, Carries(m)
        PROVE  Carries(m + 1)
    <3>1. f[m + 1] = f[m] \o ss[m + 1]
      <4>1. m + 1 # 1 /\ (m + 1) - 1 = m
        BY <2>6
      <4> QED
        BY <2>5, <2>8, <4>1
    <3> DEFINE s == f[m]
               t == ss[m + 1]
    <3>2. s \in Seq(X) /\ t \in Seq(X)
      BY <1>0, <2>1, <2>8
    <3> HIDE DEF s, t
    <3>3. /\ s \o t \in Seq(X) /\ Len(s \o t) = Len(s) + Len(t)
          /\ \A i \in 1 .. Len(s) + Len(t) : (s \o t)[i] = IF i <= Len(s) THEN s[i] ELSE t[i - Len(s)]
      BY <3>2, ConcatProperties
    <3>4. /\ Len(s) \in Nat /\ Len(t) \in Nat /\ DOMAIN s = 1 .. Len(s) /\ DOMAIN t = 1 .. Len(t)
          /\ DOMAIN (s \o t) = 1 .. Len(s) + Len(t)
      BY <3>2, <3>3
    <3>5. \A j \in DOMAIN s : j \in DOMAIN (s \o t) /\ (s \o t)[j] = s[j]
      BY <3>3, <3>4
    <3>6. \A j \in DOMAIN t : Len(s) + j \in DOMAIN (s \o t) /\ (s \o t)[Len(s) + j] = t[j]
      <4> TAKE j \in DOMAIN t
      <4>1. Len(s) + j \in 1 .. Len(s) + Len(t) /\ ~(Len(s) + j <= Len(s)) /\ (Len(s) + j) - Len(s) = j
        BY <3>4
      <4> QED
        BY <3>3, <3>4, <4>1
    <3>7. ASSUME NEW i \in 1 .. m + 1, NEW k \in DOMAIN ss[i]
          PROVE  \E j \in DOMAIN (s \o t) : (s \o t)[j] = ss[i][k]
      <4>1. CASE i = m + 1
        BY <3>6, <4>1 DEF t
      <4>2. CASE i # m + 1
        <5>1. i \in 1 .. m
          BY <2>6, <4>2
        <5>2. PICK j \in DOMAIN s : s[j] = ss[i][k]
          BY <2>8, <5>1 DEF s
        <5> QED
          BY <3>5, <5>2
      <4> QED
        BY <4>1, <4>2
    <3>8. f[m + 1] = s \o t
      BY <3>1 DEF s, t
    <3> QED
      BY <3>3, <3>7, <3>8
  <2>9. Bad = {}
    <3> SUFFICES ASSUME Bad # {}
                 PROVE  FALSE
      OBVIOUS
    <3>1. Bad \in SUBSET Nat
      OBVIOUS
    <3> HIDE DEF Carries
    <3>2. PICK m \in Bad : \A b \in Bad : m <= b
      <4> HIDE DEF Bad
      <4> QED
        BY <3>1, LeastNumber
    <3>3. m \in 1 .. n /\ ~Carries(m) /\ m # 1
      BY <2>7, <3>2
    <3>4. m - 1 \in 1 .. n /\ ~ (m <= m - 1) /\ (m - 1) + 1 = m /\ (m - 1) + 1 \in 1 .. n
      BY <2>6, <3>3
    <3>5. Carries(m - 1)
      BY <3>2, <3>4
    <3>6. Carries((m - 1) + 1)
      BY <2>8, <3>4, <3>5
    <3> QED
      BY <3>3, <3>4, <3>6
  <2>10. Carries(n)
    BY <2>6, <2>9
  <2> QED
    BY <1>0, <2>1, <2>2, <2>10
<1> QED
  BY <1>1, <1>2

-----------------------------------------------------------------------------
(***************************************************************************)
(* The names that install_or_update comes to                               *)
(***************************************************************************)
\* What a name comes to, from what the names listed for it come to.
Follows(g, p) ==
    IF Available(p)
    THEN <<p>> \o FlattenSeq([i \in 1 .. Len(world.listed[p]) |-> g[Reverse(world.listed[p])[i]]])
    ELSE <<p>>

\* A name comes to a sequence of names that begins with itself.
LEMMA FollowsTyped ==
    ASSUME world \in Worlds, NEW g \in [Packages -> Seq(Packages)], NEW p \in Packages
    PROVE  /\ Follows(g, p) \in Seq(Packages)
           /\ 1 \in DOMAIN Follows(g, p) /\ Follows(g, p)[1] = p
           /\ \A i \in 1 .. Len(world.listed[p]) : Reverse(world.listed[p])[i] \in ToSet(world.listed[p])
<1> DEFINE listed == world.listed[p]
           n == Len(listed)
           parts == [i \in 1 .. n |-> g[Reverse(listed)[i]]]
<1>1. listed \in Seq(Packages)
  BY PackageInstallAssumption DEF World
<1> HIDE DEF listed
<1>2. n \in Nat /\ DOMAIN listed = 1 .. n /\ \A i \in 1 .. n : listed[i] \in Packages
  BY <1>1
<1>3. \A i \in 1 .. n : Reverse(listed)[i] \in ToSet(listed) /\ Reverse(listed)[i] \in Packages
  <2> TAKE i \in 1 .. n
  <2>1. (n - i) + 1 \in 1 .. n
    BY <1>2
  <2>2. Reverse(listed)[i] = listed[(n - i) + 1]
    BY DEF Reverse
  <2> QED
    BY <1>2, <2>1, <2>2 DEF ToSet
<1>4. parts \in Seq(Seq(Packages))
  <2>1. \A i \in 1 .. n : g[Reverse(listed)[i]] \in Seq(Packages)
    BY <1>3
  <2> HIDE DEF n
  <2> QED
    BY <1>2, <2>1
<1> HIDE DEF n, parts
<1>5. FlattenSeq(parts) \in Seq(Packages)
  BY <1>4, FlattenFacts
<1>6. Follows(g, p) = IF Available(p) THEN <<p>> \o FlattenSeq(parts) ELSE <<p>>
  BY DEF Follows, listed, n, parts
<1>7. <<p>> \in Seq(Packages) /\ Len(<<p>>) = 1 /\ <<p>>[1] = p
  OBVIOUS
<1>8. PICK rest : rest = FlattenSeq(parts)
  OBVIOUS
<1>9. PICK s : s = <<p>>
  OBVIOUS
<1>10. /\ s \o rest \in Seq(Packages) /\ Len(s \o rest) = 1 + Len(rest)
       /\ Len(rest) \in Nat
       /\ \A i \in 1 .. 1 + Len(rest) : (s \o rest)[i] = IF i <= 1 THEN s[i] ELSE rest[i - 1]
  <2>1. s \in Seq(Packages) /\ rest \in Seq(Packages) /\ Len(s) = 1 /\ Len(rest) \in Nat
    BY <1>5, <1>7, <1>8, <1>9
  <2>2. /\ s \o rest \in Seq(Packages) /\ Len(s \o rest) = Len(s) + Len(rest)
        /\ \A i \in 1 .. Len(s) + Len(rest) : (s \o rest)[i] = IF i <= Len(s) THEN s[i] ELSE rest[i - Len(s)]
    BY <2>1, ConcatProperties
  <2> QED
    BY <2>1, <2>2
<1>11. 1 \in DOMAIN (s \o rest) /\ (s \o rest)[1] = p
  BY <1>7, <1>9, <1>10
<1>12. 1 \in DOMAIN <<p>>
  OBVIOUS
<1>13. /\ Follows(g, p) \in Seq(Packages)
       /\ 1 \in DOMAIN Follows(g, p) /\ Follows(g, p)[1] = p
  BY <1>6, <1>7, <1>8, <1>9, <1>10, <1>11, <1>12
<1>14. \A i \in 1 .. n : Reverse(listed)[i] \in ToSet(listed)
  BY <1>3
<1> QED
  BY <1>13, <1>14 DEF n, listed

\* It depends on what the listed names come to, and nothing else.
LEMMA FollowsOnly ==
    ASSUME world \in Worlds, NEW p \in Packages, NEW g, NEW h,
           \A q \in ToSet(world.listed[p]) : h[q] = g[q]
    PROVE  Follows(h, p) = Follows(g, p)
<1>1. [q \in Packages |-> <<>>] \in [Packages -> Seq(Packages)]
  BY EmptySeq
<1>2. \A i \in 1 .. Len(world.listed[p]) : Reverse(world.listed[p])[i] \in ToSet(world.listed[p])
  BY <1>1, FollowsTyped
<1>3. [i \in 1 .. Len(world.listed[p]) |-> h[Reverse(world.listed[p])[i]]]
      = [i \in 1 .. Len(world.listed[p]) |-> g[Reverse(world.listed[p])[i]]]
  BY <1>2
<1> QED
  BY <1>3 DEF Follows

\* What is listed is listed without a cycle: there is an answer for each name.
LEMMA VisitsExist ==
    ASSUME world \in Worlds
    PROVE  \E g \in [Packages -> Seq(Packages)] : \A p \in Packages : g[p] = Follows(g, p)
<1>1. PICK rank \in [Packages -> 0 .. Cardinality(Packages)] :
         \A p \in Packages : \A q \in ToSet(world.listed[p]) : rank[q] < rank[p]
  BY PackageInstallAssumption DEF Acyclic
<1>2. PICK n : n = Cardinality(Packages)
  OBVIOUS
<1>3. n \in Nat
  BY <1>2, PackageInstallAssumption, FS_CardinalityType
<1> DEFINE Known(m) == \E g \in [Packages -> Seq(Packages)] :
                          \A p \in Packages : rank[p] < m => g[p] = Follows(g, p)
           Bad == {m \in 0 .. n + 1 : ~Known(m)}
<1>4. rank \in [Packages -> 0 .. n]
  BY <1>1, <1>2
<1>5. Known(0)
  <2>1. [p \in Packages |-> <<>>] \in [Packages -> Seq(Packages)]
    BY EmptySeq
  <2>2. \A p \in Packages : ~ (rank[p] < 0)
    BY <1>3, <1>4
  <2> QED
    BY <2>1, <2>2
<1>6. ASSUME NEW m \in 0 .. n, Known(m)
      PROVE  Known(m + 1)
  <2>1. PICK g \in [Packages -> Seq(Packages)] :
           \A p \in Packages : rank[p] < m => g[p] = Follows(g, p)
    BY <1>6
  <2> DEFINE h == [p \in Packages |-> IF rank[p] < m THEN g[p] ELSE Follows(g, p)]
  <2>2. h \in [Packages -> Seq(Packages)]
    <3>1. \A p \in Packages : Follows(g, p) \in Seq(Packages)
      BY FollowsTyped
    <3> QED
      BY <3>1
  <2>3. \A p \in Packages : h[p] = Follows(g, p)
    BY <2>1
  <2>4. \A p \in Packages : rank[p] < m => h[p] = g[p]
    OBVIOUS
  <2> HIDE DEF h
  <2>5. ASSUME NEW p \in Packages, rank[p] < m + 1
        PROVE  Follows(h, p) = Follows(g, p)
    <3>1. world.listed[p] \in Seq(Packages)
      BY PackageInstallAssumption DEF World
    <3>2. \A q \in ToSet(world.listed[p]) : h[q] = g[q]
      <4> TAKE q \in ToSet(world.listed[p])
      <4>1. q \in Packages /\ rank[q] < rank[p]
        BY <1>1, <3>1 DEF ToSet
      <4>2. rank[q] < m
        BY <1>3, <1>4, <2>5, <4>1
      <4> QED
        BY <2>4, <4>1, <4>2
    <3> QED
      BY <3>2, FollowsOnly
  <2>6. \A p \in Packages : rank[p] < m + 1 => h[p] = Follows(h, p)
    BY <2>3, <2>5
  <2> QED
    BY <2>2, <2>6
<1> HIDE DEF Known
<1>7. Bad = {}
  <2> SUFFICES ASSUME Bad # {}
               PROVE  FALSE
    OBVIOUS
  <2>1. Bad \in SUBSET Nat
    BY <1>3
  <2>2. PICK m \in Bad : \A b \in Bad : m <= b
    <3> HIDE DEF Bad
    <3> QED
      BY <2>1, LeastNumber
  <2>3. m \in 0 .. n + 1 /\ ~Known(m) /\ m # 0
    BY <1>5, <2>2
  <2>4. m - 1 \in 0 .. n /\ m - 1 \in 0 .. n + 1 /\ ~ (m <= m - 1) /\ (m - 1) + 1 = m
    BY <1>3, <2>3
  <2>5. Known(m - 1)
    BY <2>2, <2>4
  <2>6. Known((m - 1) + 1)
    BY <1>6, <2>4, <2>5
  <2> QED
    BY <2>3, <2>4, <2>6
<1>8. Known(n + 1)
  BY <1>3, <1>7
<1>9. \A p \in Packages : rank[p] < n + 1
  BY <1>3, <1>4
<1> QED
  BY <1>8, <1>9 DEF Known

\* So do all names, in every world.
LEMMA VisitsFacts ==
    ASSUME world \in Worlds
    PROVE  /\ Visits \in [Packages -> Seq(Packages)]
           /\ \A p \in Packages : 1 \in DOMAIN Visits[p] /\ Visits[p][1] = p
<1> DEFINE answers(g) == g = [p \in Packages |->
              IF Available(p)
              THEN <<p>> \o FlattenSeq([i \in 1 .. Len(world.listed[p]) |->
                                           g[Reverse(world.listed[p])[i]]])
              ELSE <<p>>]
           f == CHOOSE g : answers(g)
<1>1. Visits = f
  BY DEF Visits
<1>2. \E g : answers(g)
  <2>1. PICK g \in [Packages -> Seq(Packages)] : \A p \in Packages : g[p] = Follows(g, p)
    BY VisitsExist
  <2>2. g = [p \in Packages |-> Follows(g, p)]
    BY <2>1
  <2>3. answers(g)
    BY <2>2 DEF Follows
  <2> QED
    BY <2>3
<1>3. answers(f)
  BY <1>2
<1> HIDE DEF f
<1>4. f = [p \in Packages |-> Follows(f, p)]
  BY <1>3 DEF Follows
<1> HIDE DEF answers
<1>5. \A p \in Packages : f[p] = Follows(f, p)
  BY <1>4
<1>6. PICK g \in [Packages -> Seq(Packages)] : \A p \in Packages : g[p] = Follows(g, p)
  BY VisitsExist
<1>7. PICK rank \in [Packages -> 0 .. Cardinality(Packages)] :
         \A p \in Packages : \A q \in ToSet(world.listed[p]) : rank[q] < rank[p]
  BY PackageInstallAssumption DEF Acyclic
<1> DEFINE bad == {p \in Packages : f[p] # g[p]}
<1>8. bad = {}
  <2> SUFFICES ASSUME bad # {}
               PROVE  FALSE
    OBVIOUS
  <2> DEFINE ranks == {rank[p] : p \in bad}
  <2>1. ranks \in SUBSET Nat /\ ranks # {}
    BY <1>7
  <2>2. PICK m \in ranks : \A r \in ranks : m <= r
    <3> HIDE DEF ranks
    <3> QED
      BY <2>1, LeastNumber
  <2>3. PICK p \in bad : rank[p] = m
    BY <2>2
  <2>4. world.listed[p] \in Seq(Packages)
    BY <2>3, PackageInstallAssumption DEF World
  <2>5. \A q \in ToSet(world.listed[p]) : f[q] = g[q]
    <3> TAKE q \in ToSet(world.listed[p])
    <3>1. q \in Packages /\ rank[q] < rank[p]
      BY <1>7, <2>3, <2>4 DEF ToSet
    <3>2. rank[q] \in Nat /\ m \in Nat /\ rank[q] < m
      BY <1>7, <2>1, <2>2, <2>3, <3>1
    <3>3. ~ (m <= rank[q])
      BY <3>2
    <3> QED
      BY <2>2, <3>1, <3>3
  <2>6. Follows(f, p) = Follows(g, p)
    BY <2>3, <2>5, FollowsOnly
  <2> QED
    BY <1>5, <1>6, <2>3, <2>6
<1>9. f \in [Packages -> Seq(Packages)]
  <2>1. \A p \in Packages : Follows(f, p) = g[p]
    BY <1>5, <1>8
  <2> QED
    BY <1>4, <1>6, <2>1
<1> QED
  BY <1>1, <1>5, <1>9, FollowsTyped

\* out_of_date comes to each of the names it is given.
LEMMA VisitedFacts ==
    ASSUME world \in Worlds, NEW names \in Seq(Packages)
    PROVE  /\ Visited(names) \in Seq(Packages)
           /\ \A i \in DOMAIN names : \E m \in DOMAIN Visited(names) : Visited(names)[m] = names[i]
<1> DEFINE parts == [i \in 1 .. Len(names) |-> Visits[names[i]]]
<1>1. Len(names) \in Nat /\ DOMAIN names = 1 .. Len(names) /\ \A i \in 1 .. Len(names) : names[i] \in Packages
  OBVIOUS
<1>2. \A i \in 1 .. Len(names) :
         Visits[names[i]] \in Seq(Packages) /\ 1 \in DOMAIN Visits[names[i]] /\ Visits[names[i]][1] = names[i]
  BY <1>1, VisitsFacts
<1>3. /\ parts \in Seq(Seq(Packages)) /\ DOMAIN parts = 1 .. Len(names)
      /\ \A i \in 1 .. Len(names) : parts[i] = Visits[names[i]]
  BY <1>1, <1>2
<1>4. Visited(names) = FlattenSeq(parts)
  BY DEF Visited
<1> HIDE DEF parts
<1>5. /\ FlattenSeq(parts) \in Seq(Packages)
      /\ \A i \in DOMAIN parts : \A k \in DOMAIN parts[i] :
            \E m \in DOMAIN FlattenSeq(parts) : FlattenSeq(parts)[m] = parts[i][k]
  BY <1>3, FlattenFacts
<1>6. ASSUME NEW i \in DOMAIN names
      PROVE  \E m \in DOMAIN FlattenSeq(parts) : FlattenSeq(parts)[m] = names[i]
  <2>1. i \in DOMAIN parts /\ 1 \in DOMAIN parts[i] /\ parts[i][1] = names[i]
    BY <1>1, <1>2, <1>3
  <2>2. PICK m \in DOMAIN FlattenSeq(parts) : FlattenSeq(parts)[m] = parts[i][1]
    BY <1>5, <2>1
  <2> QED
    BY <2>1, <2>2
<1> QED
  BY <1>4, <1>5, <1>6

-----------------------------------------------------------------------------
(***************************************************************************)
(* What the variables are                                                  *)
(***************************************************************************)
\* An operation is at its co_await of a job.
Awaiting == {"ready", "suspend", "waiting", "resumed"}
Stages == Awaiting \cup {"idle", "reload", "select", "enqueue", "reset", "check", "ended"}

\* A job has a status for each of its files.
JobRecord == {job \in JobSet(Targets) : job.status \in [FilesOf(job.of) -> Statuses]}

\* What an operation keeps.
Operation ==
    [pc : Stages, asked : Seq(Packages), names : Seq(Packages), force : BOOLEAN,
     packages : Seq(Packages), jobs : Seq(JobRecord), k : Nat, thread : {"own", "downloader"},
     modified : SUBSET Packages, result : SUBSET Packages, reported : BOOLEAN]

\* The variables have their types.
Typed ==
    /\ world \in Worlds
    /\ disk \in [Places -> Content] /\ staged \in [Places -> {"none", "part", "new"}]
    /\ known \in [Packages -> {"none", "old", "new"}]
    /\ available \in {"none", "old", "new"}
    /\ op \in [Ops -> Operation]
    /\ queue \in Seq(Ops \X (Nat \ {0})) /\ busy \in (Ops \X (Nat \ {0})) \cup {None}
    /\ removed \in SUBSET Packages /\ failures \in 0 .. MaxFailures

\* A package is two files, the index one, and no package is the index.
LEMMA FilesFacts ==
    /\ FilesOf(Index) = {"packages.xml"}
    /\ \A p \in Packages : FilesOf(p) = {"manifest.xml", "code"} /\ p # Index
    /\ \A t \in Targets : FilesOf(t) \subseteq FileNames
    /\ \A t : DOMAIN Files(t) \in {{1}, {1, 2}} /\ \A i \in DOMAIN Files(t) : Files(t)[i] \in FilesOf(t)
<1>1. FilesOf(Index) = {"packages.xml"}
  BY DEF FilesOf, Files, ToSet
<1>2. \A t : t # Index => FilesOf(t) = {"manifest.xml", "code"}
  <2> TAKE t
  <2> HAVE t # Index
  <2>1. PICK s : s = <<"manifest.xml", "code">>
    OBVIOUS
  <2>2. DOMAIN s = {1, 2} /\ s[1] = "manifest.xml" /\ s[2] = "code"
    BY <2>1
  <2>3. Files(t) = s
    BY <2>1 DEF Files
  <2> QED
    BY <2>2, <2>3 DEF FilesOf, ToSet
<1>3. \A p \in Packages : p # Index
  BY PackageInstallAssumption
<1>4. \A t : DOMAIN Files(t) \in {{1}, {1, 2}} /\ \A i \in DOMAIN Files(t) : Files(t)[i] \in FilesOf(t)
  <2>1. \A t : DOMAIN Files(t) \in {{1}, {1, 2}}
    BY DEF Files
  <2> QED
    BY <2>1 DEF FilesOf, ToSet
<1> QED
  BY <1>1, <1>2, <1>3, <1>4 DEF Targets, FileNames

\* Every file has its place, and every place is of a file.
LEMMA PlaceFacts ==
    /\ \A x \in Places : x[1] \in Targets /\ x[2] \in FilesOf(x[1]) /\ x = <<x[1], x[2]>>
    /\ \A t \in Targets : \A f \in FilesOf(t) : <<t, f>> \in Places
<1>1. Places = UNION {{t} \X FilesOf(t) : t \in Targets}
  BY DEF Places
<1>2. ASSUME NEW x \in Places
      PROVE  x[1] \in Targets /\ x[2] \in FilesOf(x[1]) /\ x = <<x[1], x[2]>>
  <2>1. PICK t \in Targets : x \in {t} \X FilesOf(t)
    BY <1>1
  <2> QED
    BY <2>1
<1>3. ASSUME NEW t \in Targets, NEW f \in FilesOf(t)
      PROVE  <<t, f>> \in Places
  <2>1. <<t, f>> \in {t} \X FilesOf(t)
    OBVIOUS
  <2> QED
    BY <1>1, <2>1
<1> QED
  BY <1>2, <1>3

\* A new job is typed, and has none of its files.
LEMMA NewJob ==
    ASSUME NEW t \in Targets, NEW force
    PROVE  /\ Job(t, force) \in JobRecord /\ Job(t, force).of = t /\ ~Job(t, force).complete
           /\ \A f \in FilesOf(t) : Job(t, force).status[f] = "pending"
<1>1. Job(t, force) \in JobSet({t}) /\ ~Job(t, force).complete
  BY JobTyped
<1>2. Job(t, force).of = t /\ Job(t, force).status = [f \in FilesOf(t) |-> "pending"]
  BY DEF Job
<1>3. Job(t, force) \in JobSet(Targets)
  BY <1>1, JobSetMonotone
<1>4. Job(t, force).status \in [FilesOf(t) -> Statuses]
  BY <1>2 DEF Statuses
<1> QED
  BY <1>1, <1>2, <1>3, <1>4 DEF JobRecord

\* What a command asks for are packages.
LEMMA AskedTyped ==
    ASSUME Typed, NEW c \in Commands
    PROVE  Asked(c) \in Seq(Packages) /\ c.force \in BOOLEAN
<1> DEFINE installed == {p \in Packages : known[p] # "none"}
<1>1. c \in Command
  BY PackageInstallAssumption
<1>2. c.names \in Seq(Packages) /\ c.force \in BOOLEAN
  BY <1>1 DEF Command
<1>3. installed \in SUBSET Packages
  OBVIOUS
<1>4. Asked(c) = CASE c.kind = "install" -> Those(c.names, Packages \ installed)
                   [] c.kind = "update" -> Those(c.names, installed)
                   [] OTHER -> SetToSeq(installed)
  BY DEF Asked
<1> HIDE DEF installed
<1>5. /\ Those(c.names, Packages \ installed) \in Seq(Packages)
      /\ Those(c.names, installed) \in Seq(Packages)
      /\ SetToSeq(installed) \in Seq(Packages)
  BY <1>2, <1>3, ThoseFacts, SetToSeqTyped
<1> QED
  BY <1>2, <1>4, <1>5

-----------------------------------------------------------------------------
(***************************************************************************)
(* What the actions do to an operation                                     *)
(***************************************************************************)
\* Only this operation takes a step.
OthersSame(o) == op' \in [Ops -> Operation] /\ \A q \in Ops \ {o} : op'[q] = op[q]

\* What an operation asked for, and where it is in it, stays.
KeepsAim(o) ==
    /\ op'[o].asked = op[o].asked /\ op'[o].names = op[o].names
    /\ op'[o].packages = op[o].packages

\* A step replaces the record of one operation.
LEMMA Replaced ==
    ASSUME Typed, NEW o \in Ops, NEW after \in Operation, op' = [op EXCEPT ![o] = after]
    PROVE  OthersSame(o) /\ op'[o] = after
BY DEF Typed, OthersSame

\* An operation that has not begun is typed.
LEMMA IdleTyped ==
    /\ Idle \in Operation /\ Idle.pc = "idle" /\ Idle.jobs = <<>> /\ Idle.thread = "own"
    /\ Idle.reported = FALSE /\ Idle.result = {} /\ Idle.modified = {} /\ Idle.asked = <<>>
    /\ Idle.k = 0
<1>1. <<>> \in Seq(Packages) /\ <<>> \in Seq(JobRecord)
  BY EmptySeq
<1> QED
  BY <1>1 DEF Idle, Operation, Stages, Awaiting

\* The operation begins, with the job of the index.
LEMMA BeginFacts ==
    ASSUME Typed, NEW o \in Ops, NEW c \in Commands, Begin(o, c)
    PROVE  LET job == Job(Index, c.force) IN
           /\ OthersSame(o) /\ op[o].pc = "idle" /\ job \in JobRecord
           /\ op'[o].pc = "ready" /\ op'[o].names = op'[o].asked /\ op'[o].jobs = <<job>>
           /\ op'[o].k = 1 /\ op'[o].thread = "own" /\ op'[o].reported = FALSE
           /\ op'[o].result = {} /\ op'[o].modified = {}
<1> DEFINE job == Job(Index, c.force)
<1>1. PICK asked : asked = Asked(c)
  OBVIOUS
<1>2. asked \in Seq(Packages) /\ c.force \in BOOLEAN
  BY <1>1, AskedTyped
<1>3. job \in JobRecord
  BY NewJob DEF Targets
<1>4. PICK jobs : jobs = <<job>>
  OBVIOUS
<1>5. jobs \in Seq(JobRecord)
  BY <1>3, <1>4
<1> DEFINE after == [Idle EXCEPT !.pc = "ready", !.asked = asked, !.names = asked,
                                 !.force = c.force, !.jobs = jobs, !.k = 1]
<1>6. op' = [op EXCEPT ![o] = after] /\ op[o].pc = "idle"
  BY <1>1, <1>4 DEF Begin
<1>7. Idle \in Operation /\ Idle.thread = "own" /\ Idle.reported = FALSE
      /\ Idle.result = {} /\ Idle.modified = {}
  BY IdleTyped
<1>8. after \in Operation /\ after.pc = "ready" /\ after.asked = asked /\ after.names = asked
      /\ after.jobs = jobs /\ after.k = 1 /\ after.thread = "own" /\ after.reported = FALSE
      /\ after.result = {} /\ after.modified = {}
  BY <1>2, <1>5, <1>7 DEF Operation, Stages, Awaiting
<1> HIDE DEF after, job
<1>9. OthersSame(o) /\ op'[o] = after
  BY <1>6, <1>8, Replaced
<1> QED
  BY <1>3, <1>4, <1>6, <1>8, <1>9 DEF job

\* await_ready goes by whether the job is complete.
LEMMA AwaitReadyFacts ==
    ASSUME Typed, NEW o \in Ops, AwaitReady(o)
    PROVE  /\ OthersSame(o) /\ KeepsAim(o) /\ op[o].pc = "ready"
           /\ op'[o].pc = IF Current(o).complete THEN "resumed" ELSE "suspend"
           /\ op'[o].jobs = op[o].jobs /\ op'[o].k = op[o].k /\ op'[o].thread = op[o].thread
           /\ op'[o].reported = op[o].reported
           /\ op'[o].result = op[o].result /\ op'[o].modified = op[o].modified
<1>1. PICK pc : pc = IF Current(o).complete THEN "resumed" ELSE "suspend"
  OBVIOUS
<1> DEFINE after == [op[o] EXCEPT !.pc = pc]
<1>2. op' = [op EXCEPT ![o] = after] /\ op[o].pc = "ready"
  BY <1>1 DEF AwaitReady
<1>3. op[o] \in Operation
  BY DEF Typed
<1>4. after \in Operation /\ after.pc = pc
      /\ after.asked = op[o].asked /\ after.names = op[o].names /\ after.packages = op[o].packages
      /\ after.jobs = op[o].jobs /\ after.k = op[o].k /\ after.thread = op[o].thread
      /\ after.reported = op[o].reported /\ after.result = op[o].result /\ after.modified = op[o].modified
  BY <1>1, <1>3 DEF Operation, Stages, Awaiting
<1> HIDE DEF after
<1>5. OthersSame(o) /\ op'[o] = after
  BY <1>2, <1>4, Replaced
<1> QED
  BY <1>1, <1>2, <1>4, <1>5 DEF KeepsAim

-----------------------------------------------------------------------------
(***************************************************************************)
(* The steps of a coroutine, one after the other                           *)
(***************************************************************************)

\* await_suspend looks again, with the mutex of the job held.
LEMMA AwaitSuspendFacts ==
    ASSUME Typed, NEW o \in Ops, AwaitSuspend(o)
    PROVE  /\ OthersSame(o) /\ KeepsAim(o) /\ op[o].pc = "suspend"
           /\ op'[o].pc = IF Current(o).complete THEN "resumed" ELSE "waiting"
           /\ op'[o].thread = IF Current(o).complete THEN op[o].thread ELSE "own"
           /\ op'[o].jobs = op[o].jobs /\ op'[o].k = op[o].k
           /\ op'[o].reported = op[o].reported
           /\ op'[o].result = op[o].result /\ op'[o].modified = op[o].modified
<1>1. PICK pc : pc = IF Current(o).complete THEN "resumed" ELSE "waiting"
  OBVIOUS
<1>2. PICK thread : thread = IF Current(o).complete THEN op[o].thread ELSE "own"
  OBVIOUS
<1> DEFINE after == [op[o] EXCEPT !.pc = pc, !.thread = thread]
<1>3. op' = [op EXCEPT ![o] = after] /\ op[o].pc = "suspend"
  BY <1>1, <1>2 DEF AwaitSuspend
<1>4. op[o] \in Operation
  BY DEF Typed
<1>5. pc \in Stages /\ thread \in {"own", "downloader"}
  BY <1>1, <1>2, <1>4 DEF Operation, Stages, Awaiting
<1>6. after \in Operation /\ after.pc = pc /\ after.thread = thread
      /\ after.asked = op[o].asked /\ after.names = op[o].names /\ after.packages = op[o].packages
      /\ after.jobs = op[o].jobs /\ after.k = op[o].k
      /\ after.reported = op[o].reported /\ after.result = op[o].result /\ after.modified = op[o].modified
  BY <1>4, <1>5 DEF Operation
<1> HIDE DEF after
<1>7. OthersSame(o) /\ op'[o] = after
  BY <1>3, <1>6, Replaced
<1> QED
  BY <1>1, <1>2, <1>3, <1>6, <1>7 DEF KeepsAim

\* The index is moved into place, and what failed is reported.
LEMMA ApplyIndexFacts ==
    ASSUME Typed, NEW o \in Ops, ApplyIndex(o)
    PROVE  /\ OthersSame(o) /\ KeepsAim(o) /\ op[o].pc = "resumed" /\ OfIndex(o) /\ Moved(Current(o))
           /\ op'[o].pc = "reload" /\ op'[o].thread = "own"
           /\ op'[o].reported = (~AllGood(Current(o)) \/ Movable(Current(o)) # Arrived(Current(o)))
           /\ op'[o].jobs = op[o].jobs /\ op'[o].k = op[o].k
           /\ op'[o].result = op[o].result /\ op'[o].modified = op[o].modified
<1>1. PICK reported \in BOOLEAN :
         reported = (~AllGood(Current(o)) \/ Movable(Current(o)) # Arrived(Current(o)))
  OBVIOUS
<1> DEFINE after == [op[o] EXCEPT !.pc = "reload", !.thread = "own", !.reported = reported]
<1>3. op' = [op EXCEPT ![o] = after]
  BY <1>1 DEF ApplyIndex
<1>4. op[o] \in Operation
  BY DEF Typed
<1>6. after \in Operation /\ after.pc = "reload" /\ after.thread = "own" /\ after.reported = reported
      /\ after.asked = op[o].asked /\ after.names = op[o].names /\ after.packages = op[o].packages
      /\ after.jobs = op[o].jobs /\ after.k = op[o].k
      /\ after.result = op[o].result /\ after.modified = op[o].modified
  BY <1>4 DEF Operation, Stages
<1> HIDE DEF after
<1>7. OthersSame(o) /\ op'[o] = after
  BY <1>3, <1>6, Replaced
<1> QED
  BY <1>1, <1>6, <1>7 DEF KeepsAim, ApplyIndex

\* The index is read, or ends the operation if it is torn.
LEMMA ReloadFacts ==
    ASSUME Typed, NEW o \in Ops, Reload(o)
    PROVE  LET index == disk[<<Index, "packages.xml">>] IN
           /\ OthersSame(o) /\ KeepsAim(o) /\ op[o].pc = "reload"
           /\ available' = IF index = "part" THEN "none" ELSE index
           /\ op'[o].pc = IF index = "part" THEN "ended" ELSE "select"
           /\ op'[o].jobs = <<>> /\ op'[o].k = 0
           /\ op'[o].thread = op[o].thread /\ op'[o].reported = op[o].reported
           /\ op'[o].result = op[o].result /\ op'[o].modified = op[o].modified
<1> DEFINE index == disk[<<Index, "packages.xml">>]
<1>1. PICK pc : pc = IF index = "part" THEN "ended" ELSE "select"
  OBVIOUS
<1>2. PICK jobs : jobs = <<>> /\ jobs \in Seq(JobRecord)
  BY EmptySeq
<1> DEFINE after == [op[o] EXCEPT !.pc = pc, !.jobs = jobs, !.k = 0]
<1>3. op' = [op EXCEPT ![o] = after]
  BY <1>1, <1>2 DEF Reload
<1>4. op[o] \in Operation
  BY DEF Typed
<1>5. pc \in Stages
  BY <1>1 DEF Stages
<1>6. after \in Operation /\ after.pc = pc /\ after.thread = op[o].thread /\ after.reported = op[o].reported
      /\ after.asked = op[o].asked /\ after.names = op[o].names /\ after.packages = op[o].packages
      /\ after.jobs = jobs /\ after.k = 0
      /\ after.result = op[o].result /\ after.modified = op[o].modified
  BY <1>2, <1>4, <1>5 DEF Operation
<1> HIDE DEF after
<1>7. OthersSame(o) /\ op'[o] = after
  BY <1>3, <1>6, Replaced
<1> QED
  BY <1>1, <1>2, <1>6, <1>7 DEF KeepsAim, Reload

\* What is out of date is selected, and a name that is nowhere is reported.
LEMMA SelectFacts ==
    ASSUME Typed, NEW o \in Ops, Select(o)
    PROVE  LET packages == Those(Visited(op[o].names), {p \in Packages : Outdated(p)}) IN
           /\ OthersSame(o) /\ op[o].pc = "select"
           /\ op'[o].pc = IF packages = <<>> THEN "ended" ELSE "enqueue"
           /\ op'[o].thread = IF packages = <<>> THEN "own" ELSE op[o].thread
           /\ op'[o].packages = packages
           /\ op'[o].asked = op[o].asked /\ op'[o].names = op[o].names
           /\ op'[o].jobs = <<>> /\ op'[o].k = op[o].k
           /\ op'[o].reported = (op[o].reported \/ NotFound(op[o].names))
           /\ op'[o].result = op[o].result /\ op'[o].modified = op[o].modified
<1>1. PICK packages : packages = Those(Visited(op[o].names), {p \in Packages : Outdated(p)})
  OBVIOUS
<1>2. PICK jobs : jobs = <<>> /\ jobs \in Seq(JobRecord)
  BY EmptySeq
<1>4. op[o] \in Operation
  BY DEF Typed
<1>5. packages \in Seq(Packages)
  <2>1. op[o].names \in Seq(Packages)
    BY <1>4 DEF Operation
  <2>2. Visited(op[o].names) \in Seq(Packages)
    BY <2>1, VisitedFacts DEF Typed
  <2> QED
    BY <1>1, <2>2, ThoseFacts
<1>8. PICK pc : pc = IF packages = <<>> THEN "ended" ELSE "enqueue"
  OBVIOUS
<1>9. PICK thread : thread = IF packages = <<>> THEN "own" ELSE op[o].thread
  OBVIOUS
<1>10. PICK reported \in BOOLEAN : reported = (op[o].reported \/ NotFound(op[o].names))
  OBVIOUS
<1> DEFINE after == [op[o] EXCEPT !.pc = pc, !.thread = thread, !.packages = packages, !.jobs = jobs,
                                  !.reported = reported]
<1>3. op' = [op EXCEPT ![o] = after]
  BY <1>1, <1>2, <1>8, <1>9, <1>10 DEF Select
<1>11. pc \in Stages /\ thread \in {"own", "downloader"}
  BY <1>4, <1>8, <1>9 DEF Stages, Operation
<1>6. after \in Operation /\ after.pc = pc /\ after.thread = thread /\ after.reported = reported
      /\ after.asked = op[o].asked /\ after.names = op[o].names /\ after.packages = packages
      /\ after.jobs = jobs /\ after.k = op[o].k
      /\ after.result = op[o].result /\ after.modified = op[o].modified
  BY <1>2, <1>4, <1>5, <1>11 DEF Operation
<1> HIDE DEF after
<1>7. OthersSame(o) /\ op'[o] = after
  BY <1>3, <1>6, Replaced
<1>12. op[o].pc = "select"
  BY DEF Select
<1> QED
  BY <1>1, <1>2, <1>6, <1>7, <1>8, <1>9, <1>10, <1>12

\* The next of the selected packages gets its job.
LEMMA EnqueueFacts ==
    ASSUME Typed, NEW o \in Ops, Enqueue(o), Len(op[o].jobs) < Len(op[o].packages)
    PROVE  LET i == Len(op[o].jobs) + 1
               job == Job(op[o].packages[i], op[o].force) IN
           /\ OthersSame(o) /\ KeepsAim(o) /\ op[o].pc = "enqueue"
           /\ i \in 1 .. Len(op[o].packages) /\ op[o].packages[i] \in Packages /\ job \in JobRecord
           /\ op'[o].pc = IF i = Len(op[o].packages) THEN "ready" ELSE "enqueue"
           /\ op'[o].jobs = Append(op[o].jobs, job) /\ op'[o].k = 1
           /\ op'[o].thread = op[o].thread /\ op'[o].reported = op[o].reported
           /\ op'[o].result = op[o].result /\ op'[o].modified = op[o].modified
<1> DEFINE i == Len(op[o].jobs) + 1
           job == Job(op[o].packages[i], op[o].force)
<1>4. op[o] \in Operation
  BY DEF Typed
<1>1. i \in 1 .. Len(op[o].packages) /\ op[o].packages[i] \in Packages
  BY <1>4 DEF Operation
<1>2. job \in JobRecord
  BY <1>1, NewJob DEF Targets
<1> HIDE DEF job
<1>3. PICK jobs : jobs = Append(op[o].jobs, job)
  OBVIOUS
<1>5. jobs \in Seq(JobRecord)
  BY <1>2, <1>3, <1>4 DEF Operation
<1>8. PICK pc : pc = IF i = Len(op[o].packages) THEN "ready" ELSE "enqueue"
  OBVIOUS
<1>9. pc \in Stages
  BY <1>8 DEF Stages, Awaiting
<1> DEFINE after == [op[o] EXCEPT !.jobs = jobs, !.pc = pc, !.k = 1]
<1>10. op' = [op EXCEPT ![o] = after] /\ op[o].pc = "enqueue"
  BY <1>3, <1>8 DEF Enqueue, job
<1>6. after \in Operation /\ after.pc = pc /\ after.thread = op[o].thread /\ after.reported = op[o].reported
      /\ after.asked = op[o].asked /\ after.names = op[o].names /\ after.packages = op[o].packages
      /\ after.jobs = jobs /\ after.k = 1
      /\ after.result = op[o].result /\ after.modified = op[o].modified
  BY <1>4, <1>5, <1>9 DEF Operation
<1> HIDE DEF after
<1>7. OthersSame(o) /\ op'[o] = after
  BY <1>6, <1>10, Replaced
<1> QED
  BY <1>1, <1>2, <1>3, <1>6, <1>7, <1>8, <1>10 DEF KeepsAim, job

\* The files of a package are moved if all are good, and else only reported.
LEMMA ApplyPackageFacts ==
    ASSUME Typed, NEW o \in Ops, ApplyPackage(o)
    PROVE  LET job == Current(o)
               failed == IF AllGood(job) THEN Movable(job) # Arrived(job) ELSE Verbose IN
           /\ OthersSame(o) /\ KeepsAim(o) /\ op[o].pc = "resumed" /\ ~OfIndex(o)
           /\ IF AllGood(job) THEN Moved(job) ELSE UNCHANGED <<disk, staged>>
           /\ op'[o].pc = Onward(o)
           /\ op'[o].k = IF Onward(o) = "ready" THEN op[o].k + 1 ELSE op[o].k
           /\ op'[o].reported = (op[o].reported \/ failed)
           /\ op'[o].jobs = op[o].jobs /\ op'[o].thread = op[o].thread
           /\ op'[o].result = op[o].result /\ op'[o].modified = op[o].modified
<1> DEFINE job == Current(o)
           failed == IF AllGood(job) THEN Movable(job) # Arrived(job) ELSE Verbose
<1>1. PICK reported \in BOOLEAN : reported = (op[o].reported \/ failed)
  OBVIOUS
<1>2. PICK pc : pc = Onward(o)
  OBVIOUS
<1>3. PICK k : k = IF Onward(o) = "ready" THEN op[o].k + 1 ELSE op[o].k
  OBVIOUS
<1>4. op[o] \in Operation
  BY DEF Typed
<1>5. pc \in Stages /\ k \in Nat
  BY <1>2, <1>3, <1>4 DEF Onward, Stages, Awaiting, Operation
<1> DEFINE after == [op[o] EXCEPT !.pc = pc, !.k = k, !.reported = reported]
<1>8. op' = [op EXCEPT ![o] = after]
  BY <1>1, <1>2, <1>3 DEF ApplyPackage
<1>6. after \in Operation /\ after.pc = pc /\ after.thread = op[o].thread /\ after.reported = reported
      /\ after.asked = op[o].asked /\ after.names = op[o].names /\ after.packages = op[o].packages
      /\ after.jobs = op[o].jobs /\ after.k = k
      /\ after.result = op[o].result /\ after.modified = op[o].modified
  BY <1>4, <1>5 DEF Operation
<1> HIDE DEF after, failed
<1>7. OthersSame(o) /\ op'[o] = after
  BY <1>6, <1>8, Replaced
<1>9. op[o].pc = "resumed" /\ ~OfIndex(o) /\ IF AllGood(job) THEN Moved(job) ELSE UNCHANGED <<disk, staged>>
  BY DEF ApplyPackage
<1> QED
  BY <1>1, <1>2, <1>3, <1>6, <1>7, <1>9 DEF KeepsAim, failed

\* The jobs are dropped after the last of them.
LEMMA ResetFacts ==
    ASSUME Typed, NEW o \in Ops, Reset(o)
    PROVE  /\ OthersSame(o) /\ KeepsAim(o) /\ op[o].pc = "reset"
           /\ op'[o].pc = "check" /\ op'[o].jobs = <<>> /\ op'[o].k = 0
           /\ op'[o].thread = op[o].thread /\ op'[o].reported = op[o].reported
           /\ op'[o].result = op[o].result /\ op'[o].modified = op[o].modified
<1>2. PICK jobs : jobs = <<>> /\ jobs \in Seq(JobRecord)
  BY EmptySeq
<1> DEFINE after == [op[o] EXCEPT !.pc = "check", !.jobs = jobs, !.k = 0]
<1>3. op' = [op EXCEPT ![o] = after]
  BY <1>2 DEF Reset
<1>4. op[o] \in Operation
  BY DEF Typed
<1>6. after \in Operation /\ after.pc = "check" /\ after.thread = op[o].thread /\ after.reported = op[o].reported
      /\ after.asked = op[o].asked /\ after.names = op[o].names /\ after.packages = op[o].packages
      /\ after.jobs = jobs /\ after.k = 0
      /\ after.result = op[o].result /\ after.modified = op[o].modified
  BY <1>2, <1>4 DEF Operation, Stages
<1> HIDE DEF after
<1>7. OthersSame(o) /\ op'[o] = after
  BY <1>3, <1>6, Replaced
<1> QED
  BY <1>2, <1>6, <1>7 DEF KeepsAim, Reset

\* Another round begins, or the operation ends with its answer.
LEMMA CheckFacts ==
    ASSUME Typed, NEW o \in Ops, Check(o)
    PROVE  /\ OthersSame(o) /\ op[o].pc = "check"
           /\ \/ op'[o].pc = "ended" /\ op'[o].thread = "own"
              \/ op'[o].pc = "select" /\ op'[o].thread = op[o].thread
           /\ op'[o].asked = op[o].asked
           /\ op'[o].jobs = op[o].jobs /\ op'[o].k = op[o].k
           /\ op'[o].reported = op[o].reported
           /\ op'[o].result \subseteq op'[o].modified
<1> DEFINE done == ToSet(op[o].packages)
           lacking == {q \in Packages : known[q] = "none" /\
                         \E p \in done : known[p] # "none" /\ q \in world.required[p]}
<1>1. PICK missing : missing = SetToSeq(lacking)
  OBVIOUS
<1>2. PICK modified : modified = op[o].modified \cup done
  OBVIOUS
<1>3. PICK pc : pc = IF missing = <<>> THEN "ended" ELSE "select"
  OBVIOUS
<1>4. PICK thread : thread = IF missing = <<>> THEN "own" ELSE op[o].thread
  OBVIOUS
<1>5. PICK result : result = IF missing = <<>> THEN modified ELSE {}
  OBVIOUS
<1>6. PICK packages : packages = <<>> /\ packages \in Seq(Packages)
  BY EmptySeq
<1>7. op[o] \in Operation
  BY DEF Typed
<1>8. missing \in Seq(Packages)
  <2>1. lacking \in SUBSET Packages
    OBVIOUS
  <2> HIDE DEF lacking
  <2> QED
    BY <1>1, <2>1, SetToSeqTyped
<1>9. done \in SUBSET Packages
  BY <1>7 DEF Operation, ToSet
<1> DEFINE after == [op[o] EXCEPT !.pc = pc, !.thread = thread, !.names = missing, !.packages = packages,
                                  !.modified = modified, !.result = result]
<1>10. op' = [op EXCEPT ![o] = after] /\ op[o].pc = "check"
  BY <1>1, <1>2, <1>3, <1>4, <1>5, <1>6 DEF Check
<1> HIDE DEF done, lacking
<1>11. /\ pc \in Stages /\ thread \in {"own", "downloader"}
       /\ modified \in SUBSET Packages /\ result \in SUBSET Packages
  BY <1>2, <1>3, <1>4, <1>5, <1>7, <1>9 DEF Stages, Operation
<1>12. after \in Operation /\ after.pc = pc /\ after.thread = thread /\ after.reported = op[o].reported
      /\ after.asked = op[o].asked
      /\ after.jobs = op[o].jobs /\ after.k = op[o].k
      /\ after.result = result /\ after.modified = modified
  BY <1>6, <1>7, <1>8, <1>11 DEF Operation
<1> HIDE DEF after
<1>13. OthersSame(o) /\ op'[o] = after
  BY <1>10, <1>12, Replaced
<1> QED
  BY <1>3, <1>4, <1>5, <1>10, <1>12, <1>13

-----------------------------------------------------------------------------
(***************************************************************************)
(* The steps of the downloader                                             *)
(***************************************************************************)
\* The job the downloader is at is one of an operation.
BusyLive ==
    busy # None => busy[1] \in Ops /\ busy[2] \in 1 .. Len(op[busy[1]].jobs)

\* An operation has the jobs it had, for the same targets.
SameJobs ==
    /\ op' \in [Ops -> Operation]
    /\ \A q \in Ops :
          /\ op'[q].asked = op[q].asked /\ op'[q].names = op[q].names
          /\ op'[q].packages = op[q].packages /\ op'[q].k = op[q].k
          /\ op'[q].reported = op[q].reported
          /\ op'[q].result = op[q].result /\ op'[q].modified = op[q].modified
          /\ Len(op'[q].jobs) = Len(op[q].jobs)
          /\ \A i \in 1 .. Len(op[q].jobs) :
                /\ op'[q].jobs[i].of = op[q].jobs[i].of
                /\ <<q, i>> # busy => op'[q].jobs[i] = op[q].jobs[i]

\* A step that changes the job of the downloader leaves all others.
LEMMA JobReplaced ==
    ASSUME Typed, NEW o \in Ops, NEW n \in 1 .. Len(op[o].jobs), busy = <<o, n>>,
           OthersSame(o), KeepsAim(o), op'[o].k = op[o].k, op'[o].reported = op[o].reported,
           op'[o].result = op[o].result, op'[o].modified = op[o].modified,
           Len(op'[o].jobs) = Len(op[o].jobs), op'[o].jobs[n].of = op[o].jobs[n].of,
           \A j \in 1 .. Len(op[o].jobs) : j # n => op'[o].jobs[j] = op[o].jobs[j]
    PROVE  SameJobs /\ \A q \in Ops : (op'[q].jobs = <<>> <=> op[q].jobs = <<>>)
<1>1. SameJobs
  <2> SUFFICES ASSUME NEW q \in Ops
               PROVE  /\ op'[q].asked = op[q].asked /\ op'[q].names = op[q].names
                      /\ op'[q].packages = op[q].packages /\ op'[q].k = op[q].k
                      /\ op'[q].reported = op[q].reported
                      /\ op'[q].result = op[q].result /\ op'[q].modified = op[q].modified
                      /\ Len(op'[q].jobs) = Len(op[q].jobs)
                      /\ \A i \in 1 .. Len(op[q].jobs) :
                            /\ op'[q].jobs[i].of = op[q].jobs[i].of
                            /\ <<q, i>> # busy => op'[q].jobs[i] = op[q].jobs[i]
    BY DEF SameJobs, OthersSame
  <2>1. CASE q = o
    BY <2>1 DEF KeepsAim
  <2>2. CASE q # o
    BY <2>2 DEF OthersSame
  <2> QED
    BY <2>1, <2>2
<1>2. op'[o].jobs = <<>> <=> op[o].jobs = <<>>
  <2>1. op[o].jobs \in Seq(JobRecord) /\ op'[o].jobs \in Seq(JobRecord)
    BY DEF Typed, OthersSame, Operation
  <2> QED
    BY <2>1, EmptySeq
<1> QED
  BY <1>1, <1>2 DEF OthersSame

\* A file of the job in hand comes to another status, and nothing else changes.
LEMMA BecomesFacts ==
    ASSUME Typed, BusyLive, busy # None, NEW f \in FilesOf(BusyJob.of), NEW status \in Statuses,
           Becomes(f, status)
    PROVE  LET job == op'[busy[1]].jobs[busy[2]] IN
           /\ SameJobs /\ job.complete = BusyJob.complete
           /\ job.status = [BusyJob.status EXCEPT ![f] = status]
           /\ BusyJob \in JobRecord /\ job \in JobRecord
           /\ \A q \in Ops : op'[q].pc = op[q].pc /\ op'[q].thread = op[q].thread
           /\ \A q \in Ops \ {busy[1]} : op'[q] = op[q]
           /\ \A q \in Ops : (op'[q].jobs = <<>> <=> op[q].jobs = <<>>)
<1>1. PICK o \in Ops, n \in Nat \ {0} : busy = <<o, n>>
  BY DEF Typed
<1>2. n \in 1 .. Len(op[o].jobs)
  BY <1>1 DEF BusyLive
<1>3. PICK old : old = op[o].jobs[n]
  OBVIOUS
<1>4. old \in JobRecord /\ op[o] \in Operation
  <2>1. op[o] \in Operation
    BY DEF Typed
  <2>2. op[o].jobs \in Seq(JobRecord)
    BY <2>1 DEF Operation
  <2> QED
    BY <1>2, <1>3, <2>1, <2>2
<1>5. BusyJob = old
  BY <1>1, <1>3 DEF BusyJob
<1> DEFINE job == [old EXCEPT !.status[f] = status]
<1>6. job \in JobRecord /\ job.of = old.of /\ job.complete = old.complete
      /\ job.status = [old.status EXCEPT ![f] = status]
  <2>1. old \in JobSet(Targets) /\ old.status \in [FilesOf(old.of) -> Statuses]
    BY <1>4 DEF JobRecord
  <2>2. job \in JobSet(Targets) /\ job.complete = old.complete
    BY <2>1, StatusTyped
  <2>3. job.of = old.of /\ job.status = [old.status EXCEPT ![f] = status]
    BY <2>1 DEF JobSet
  <2>4. [old.status EXCEPT ![f] = status] \in [FilesOf(old.of) -> Statuses]
    BY <1>5, <2>1
  <2> HIDE DEF job
  <2> QED
    BY <2>2, <2>3, <2>4 DEF JobRecord
<1> DEFINE jobs == [op[o].jobs EXCEPT ![n] = job]
           after == [op[o] EXCEPT !.jobs = jobs, !.pc = op[o].pc, !.thread = op[o].thread]
<1>7. op' = [op EXCEPT ![o] = after]
  <2>1. op' = [op EXCEPT ![o] = [op[o] EXCEPT !.jobs = [op[o].jobs EXCEPT ![n] = job]]]
    BY <1>1, <1>3 DEF Becomes
  <2>2. op' = [op EXCEPT ![o] = [op[o] EXCEPT !.jobs = jobs]]
    BY <2>1
  <2> HIDE DEF jobs
  <2>3. [op[o] EXCEPT !.jobs = jobs] = [op[o] EXCEPT !.jobs = jobs, !.pc = op[o].pc, !.thread = op[o].thread]
    BY <1>4 DEF Operation
  <2> QED
    BY <2>2, <2>3
<1> HIDE DEF job
<1>8. op[o].pc \in Stages /\ op[o].thread \in {"own", "downloader"}
  BY <1>4 DEF Operation
<1>9. /\ SameJobs /\ op'[o].jobs[n] = job
      /\ op'[o].pc = op[o].pc /\ op'[o].thread = op[o].thread
      /\ \A q \in Ops \ {o} : op'[q] = op[q]
      /\ \A q \in Ops : (op'[q].jobs = <<>> <=> op[q].jobs = <<>>)
  <2>1. /\ jobs \in Seq(JobRecord) /\ Len(jobs) = Len(op[o].jobs)
        /\ \A j \in 1 .. Len(op[o].jobs) : jobs[j] = IF j = n THEN job ELSE op[o].jobs[j]
    <3>1. op[o].jobs \in Seq(JobRecord)
      BY <1>4 DEF Operation
    <3> QED
      BY <1>2, <1>6, <3>1, ExceptSeq
  <2> HIDE DEF jobs
  <2>2. after \in Operation /\ after.pc = op[o].pc /\ after.thread = op[o].thread
        /\ after.reported = op[o].reported
        /\ after.asked = op[o].asked /\ after.names = op[o].names /\ after.packages = op[o].packages
        /\ after.jobs = jobs /\ after.k = op[o].k
        /\ after.result = op[o].result /\ after.modified = op[o].modified
    BY <1>4, <1>8, <2>1 DEF Operation
  <2> HIDE DEF after
  <2>3. OthersSame(o) /\ op'[o] = after
    BY <1>7, <2>2, Replaced
  <2>4. SameJobs /\ \A q \in Ops : (op'[q].jobs = <<>> <=> op[q].jobs = <<>>)
    <3>1. /\ KeepsAim(o) /\ op'[o].k = op[o].k /\ op'[o].reported = op[o].reported
          /\ op'[o].result = op[o].result /\ op'[o].modified = op[o].modified
      BY <2>2, <2>3 DEF KeepsAim
    <3>2. /\ Len(op'[o].jobs) = Len(op[o].jobs) /\ op'[o].jobs[n].of = op[o].jobs[n].of
          /\ \A j \in 1 .. Len(op[o].jobs) : j # n => op'[o].jobs[j] = op[o].jobs[j]
      BY <1>2, <1>3, <1>6, <2>1, <2>2, <2>3
    <3> QED
      BY <1>1, <1>2, <2>3, <3>1, <3>2, JobReplaced
  <2> QED
    BY <1>2, <2>1, <2>2, <2>3, <2>4 DEF OthersSame
<1>10. \A q \in Ops : /\ op'[q].pc = op[q].pc /\ op'[q].thread = op[q].thread
                      /\ (op'[q].jobs = <<>> <=> op[q].jobs = <<>>)
  BY <1>9
<1>11. busy[1] = o /\ busy[2] = n
  BY <1>1
<1> QED
  BY <1>4, <1>5, <1>6, <1>9, <1>10, <1>11

\* A job that is complete resumes its operation, on the thread of the downloader.
LEMMA CompleteFacts ==
    ASSUME Typed, BusyLive, CompleteJob
    PROVE  LET job == op'[busy[1]].jobs[busy[2]] IN
           /\ SameJobs /\ job.complete /\ job.status = BusyJob.status
           /\ BusyJob \in JobRecord
           /\ \A q \in Ops \ {busy[1]} : op'[q] = op[q]
           /\ LET resumes == op[busy[1]].pc = "waiting" /\ op[busy[1]].k = busy[2] IN
              /\ op'[busy[1]].pc = IF resumes THEN "resumed" ELSE op[busy[1]].pc
              /\ op'[busy[1]].thread = IF resumes THEN "downloader" ELSE op[busy[1]].thread
           /\ \A q \in Ops : (op'[q].jobs = <<>> <=> op[q].jobs = <<>>)
<1>1. PICK o \in Ops, n \in Nat \ {0} : busy = <<o, n>>
  BY DEF Typed, CompleteJob
<1>2. n \in 1 .. Len(op[o].jobs)
  BY <1>1 DEF BusyLive, CompleteJob
<1>3. PICK old : old = op[o].jobs[n]
  OBVIOUS
<1>4. old \in JobRecord /\ op[o] \in Operation
  <2>1. op[o] \in Operation
    BY DEF Typed
  <2>2. op[o].jobs \in Seq(JobRecord)
    BY <2>1 DEF Operation
  <2> QED
    BY <1>2, <1>3, <2>1, <2>2
<1>5. BusyJob = old
  BY <1>1, <1>3 DEF BusyJob
<1> DEFINE job == [old EXCEPT !.complete = TRUE]
           resumes == op[o].pc = "waiting" /\ op[o].k = n
<1>6. job \in JobRecord /\ job.of = old.of /\ job.complete /\ job.status = old.status
  BY <1>4 DEF JobRecord, JobSet
<1>7. PICK pc : pc = IF resumes THEN "resumed" ELSE op[o].pc
  OBVIOUS
<1>8. PICK thread : thread = IF resumes THEN "downloader" ELSE op[o].thread
  OBVIOUS
<1>9. pc \in Stages /\ thread \in {"own", "downloader"}
  BY <1>4, <1>7, <1>8 DEF Operation, Stages, Awaiting
<1> DEFINE jobs == [op[o].jobs EXCEPT ![n] = job]
           after == [op[o] EXCEPT !.jobs = jobs, !.pc = pc, !.thread = thread]
<1>10. op' = [op EXCEPT ![o] = after]
  <2>1. op' = IF resumes
              THEN [op EXCEPT ![o].jobs[n].complete = TRUE, ![o].pc = "resumed", ![o].thread = "downloader"]
              ELSE [op EXCEPT ![o].jobs[n].complete = TRUE]
    BY <1>1 DEF CompleteJob
  <2>3. CASE resumes
    BY <1>3, <1>7, <1>8, <2>1, <2>3 DEF Typed
  <2>4. CASE ~resumes
    <3>1. op' = [op EXCEPT ![o] = [op[o] EXCEPT !.jobs = jobs]]
      BY <1>3, <2>1, <2>4
    <3> HIDE DEF job, jobs
    <3>2. [op[o] EXCEPT !.jobs = jobs] = [op[o] EXCEPT !.jobs = jobs, !.pc = op[o].pc, !.thread = op[o].thread]
      BY <1>4 DEF Operation
    <3>3. pc = op[o].pc /\ thread = op[o].thread
      BY <1>7, <1>8, <2>4
    <3> QED
      BY <3>1, <3>2, <3>3
  <2> QED
    BY <2>3, <2>4
<1> HIDE DEF job, resumes
<1>11. /\ SameJobs /\ op'[o].jobs[n] = job
       /\ op'[o].pc = pc /\ op'[o].thread = thread
       /\ \A q \in Ops \ {o} : op'[q] = op[q]
       /\ \A q \in Ops : (op'[q].jobs = <<>> <=> op[q].jobs = <<>>)
  <2>1. /\ jobs \in Seq(JobRecord) /\ Len(jobs) = Len(op[o].jobs)
        /\ \A j \in 1 .. Len(op[o].jobs) : jobs[j] = IF j = n THEN job ELSE op[o].jobs[j]
    <3>1. op[o].jobs \in Seq(JobRecord)
      BY <1>4 DEF Operation
    <3> QED
      BY <1>2, <1>6, <3>1, ExceptSeq
  <2> HIDE DEF jobs
  <2>2. after \in Operation /\ after.pc = pc /\ after.thread = thread
        /\ after.reported = op[o].reported
        /\ after.asked = op[o].asked /\ after.names = op[o].names /\ after.packages = op[o].packages
        /\ after.jobs = jobs /\ after.k = op[o].k
        /\ after.result = op[o].result /\ after.modified = op[o].modified
    BY <1>4, <1>9, <2>1 DEF Operation
  <2> HIDE DEF after
  <2>3. OthersSame(o) /\ op'[o] = after
    BY <1>10, <2>2, Replaced
  <2>4. SameJobs /\ \A q \in Ops : (op'[q].jobs = <<>> <=> op[q].jobs = <<>>)
    <3>1. /\ KeepsAim(o) /\ op'[o].k = op[o].k /\ op'[o].reported = op[o].reported
          /\ op'[o].result = op[o].result /\ op'[o].modified = op[o].modified
      BY <2>2, <2>3 DEF KeepsAim
    <3>2. /\ Len(op'[o].jobs) = Len(op[o].jobs) /\ op'[o].jobs[n].of = op[o].jobs[n].of
          /\ \A j \in 1 .. Len(op[o].jobs) : j # n => op'[o].jobs[j] = op[o].jobs[j]
      BY <1>2, <1>3, <1>6, <2>1, <2>2, <2>3
    <3> QED
      BY <1>1, <1>2, <2>3, <3>1, <3>2, JobReplaced
  <2> QED
    BY <1>2, <2>1, <2>2, <2>3, <2>4 DEF OthersSame
<1>12. busy[1] = o /\ busy[2] = n
  BY <1>1
<1>13. \A q \in Ops : (op'[q].jobs = <<>> <=> op[q].jobs = <<>>)
  BY <1>11
<1> QED
  BY <1>4, <1>5, <1>6, <1>7, <1>8, <1>11, <1>12, <1>13 DEF resumes

-----------------------------------------------------------------------------
(***************************************************************************)
(* Where the operations are, and their jobs                                *)
(***************************************************************************)
\* The operation awaits the job of the index.
AtIndex(o) == op[o].pc \in Awaiting /\ OfIndex(o)

\* How far an operation is, and which of its jobs are done.
ProgressOf(o) ==
    LET c == op[o]
        n == Len(op[o].jobs)
    IN /\ c.pc = "idle" => c = Idle
       /\ c.pc \in {"select", "check", "ended"} => c.jobs = <<>>
       /\ c.pc \in {"select", "check"} => c.k = 0
       /\ c.pc = "enqueue" => c.k <= 1 /\ n < Len(c.packages) /\ \A i \in 1 .. n : c.jobs[i].of \in Packages
       /\ c.pc \in Awaiting => c.k \in 1 .. n /\ \A i \in 1 .. c.k - 1 : c.jobs[i].complete
       /\ c.pc = "waiting" => ~Current(o).complete
       /\ c.pc = "resumed" => Current(o).complete
       /\ c.pc \in {"reload", "reset"} => \A i \in 1 .. n : c.jobs[i].complete
       /\ AtIndex(o) => n = 1 /\ c.k = 1 /\ ~c.reported /\ (c.pc # "resumed" => c.thread = "own")
       /\ c.pc \in Awaiting /\ ~OfIndex(o) => \A i \in 1 .. n : c.jobs[i].of \in Packages
       /\ c.result \subseteq c.modified

\* A job that is complete is done with its files, and one that is queued has not begun.
HonestOf(o) ==
    \A i \in 1 .. Len(op[o].jobs) :
        LET job == op[o].jobs[i] IN
        /\ job.complete => \A f \in FilesOf(job.of) : job.status[f] \notin {"pending", "downloading"}
        /\ ~job.complete /\ busy # <<o, i>> => \A f \in FilesOf(job.of) : job.status[f] = "pending"

\* There is such a job, and it is not complete.
Incomplete(u) == u[2] \in 1 .. Len(op[u[1]].jobs) /\ ~op[u[1]].jobs[u[2]].complete

\* A job is queued once, or in hand, and not complete.
QueueLive ==
    /\ \A n \in 1 .. Len(queue) : Incomplete(queue[n]) /\ queue[n] # busy
    /\ \A m, n \in 1 .. Len(queue) : queue[m] = queue[n] => m = n
    /\ busy # None => Incomplete(busy)

\* A coroutine on the thread of the downloader is alone there, and no job is in hand.
Threads ==
    \A o \in Ops : op[o].thread = "downloader" => busy = None /\ \A q \in Ops \ {o} : op[q].thread = "own"

\* The operations begin in order, and none while one is on the game thread; the indices
\* are downloaded in this order.
IndexOrder ==
    /\ \A o \in Ops : OnGameThread(o) \/ op[o].pc = "idle" => \A q \in Ops : q > o => op[q].pc = "idle"
    /\ \A o, q \in Ops : o < q /\ AtIndex(o) /\ AtIndex(q) =>
          \E n \in 1 .. Len(queue) :
             queue[n] = <<q, 1>> /\ \A m \in 1 .. Len(queue) : queue[m] = <<o, 1>> => m < n
    /\ \A o \in Ops : AtIndex(o) /\ Current(o).complete => op[o].thread = "downloader" \/ OnGameThread(o)

\* What holds of the operations, their jobs and the queue, in every state.
Structure ==
    /\ Typed /\ InstallInvariant
    /\ \A o \in Ops : ProgressOf(o) /\ HonestOf(o)
    /\ QueueLive /\ Threads /\ IndexOrder

-----------------------------------------------------------------------------
(***************************************************************************)
(* A step of an operation leaves the rest in order                         *)
(***************************************************************************)

\* An operation that does nothing is where it was.
LEMMA ProgressSame ==
    ASSUME NEW q \in Ops, ProgressOf(q), op'[q] = op[q]
    PROVE  ProgressOf(q)'
BY DEF ProgressOf, AtIndex, OfIndex, Current

\* And it awaits the index if it did.
LEMMA IndexSame ==
    ASSUME NEW q, op'[q] = op[q]
    PROVE  AtIndex(q)' = AtIndex(q) /\ OnGameThread(q)' = OnGameThread(q) /\ Current(q)' = Current(q)
BY DEF AtIndex, OnGameThread, OfIndex, Current

\* A step of one operation that adds no job, and does not turn to the index.
LEMMA LocalStep ==
    ASSUME Structure, UNCHANGED <<queue, busy>>, NEW o \in Ops, OthersSame(o),
           \/ op'[o].jobs = op[o].jobs
           \/ op'[o].jobs = <<>> /\ \A i \in 1 .. Len(op[o].jobs) : op[o].jobs[i].complete,
           op'[o].thread \in {op[o].thread, "own"},
           op[o].pc # "idle", op'[o].pc # "idle",
           AtIndex(o)' => AtIndex(o), OnGameThread(o)' => OnGameThread(o),
           AtIndex(o)' /\ Current(o)'.complete => op'[o].thread = "downloader" \/ OnGameThread(o)'
    PROVE  /\ \A q \in Ops : HonestOf(q)'
           /\ \A q \in Ops \ {o} : ProgressOf(q)'
           /\ QueueLive' /\ Threads' /\ IndexOrder'
<1>1. \A q \in Ops \ {o} : ProgressOf(q)'
  BY ProgressSame DEF Structure, OthersSame
<1>2. \A q \in Ops : HonestOf(q)'
  <2> SUFFICES ASSUME NEW q \in Ops
               PROVE  HonestOf(q)'
    OBVIOUS
  <2>1. op'[q].jobs = op[q].jobs \/ op'[q].jobs = <<>>
    BY DEF OthersSame
  <2>2. CASE op'[q].jobs = op[q].jobs
    BY <2>2 DEF Structure, HonestOf
  <2>3. CASE op'[q].jobs = <<>>
    BY <2>3 DEF HonestOf
  <2> QED
    BY <2>1, <2>2, <2>3
<1>3. \A u \in Ops \X (Nat \ {0}) : Incomplete(u) => Incomplete(u)'
  <2> TAKE u \in Ops \X (Nat \ {0})
  <2> HAVE Incomplete(u)
  <2>1. u[1] \in Ops
    OBVIOUS
  <2>2. op'[u[1]].jobs = op[u[1]].jobs
    BY <2>1 DEF OthersSame, Incomplete
  <2> QED
    BY <2>2 DEF Incomplete
<1>4. QueueLive'
  <2>1. \A n \in 1 .. Len(queue) : queue[n] \in Ops \X (Nat \ {0})
    BY DEF Structure, Typed
  <2>2. busy # None => busy \in Ops \X (Nat \ {0})
    BY DEF Structure, Typed
  <2> QED
    BY <1>3, <2>1, <2>2 DEF Structure, QueueLive
<1>5. Threads'
  BY DEF Structure, Threads, OthersSame
<1>6. IndexOrder'
  <2>1. \A q \in Ops : /\ AtIndex(q)' => AtIndex(q)
                       /\ OnGameThread(q)' => OnGameThread(q)
                       /\ op'[q].pc = "idle" <=> op[q].pc = "idle"
    BY IndexSame DEF OthersSame
  <2>2. \A q \in Ops : OnGameThread(q)' \/ op'[q].pc = "idle" => \A r \in Ops : r > q => op'[r].pc = "idle"
    BY <2>1 DEF Structure, IndexOrder
  <2>3. \A q, r \in Ops : q < r /\ AtIndex(q)' /\ AtIndex(r)' =>
          \E n \in 1 .. Len(queue) :
             queue[n] = <<r, 1>> /\ \A m \in 1 .. Len(queue) : queue[m] = <<q, 1>> => m < n
    BY <2>1 DEF Structure, IndexOrder
  <2>4. \A q \in Ops : AtIndex(q)' /\ Current(q)'.complete => op'[q].thread = "downloader" \/ OnGameThread(q)'
    <3> TAKE q \in Ops
    <3>1. CASE q = o
      BY <3>1
    <3>2. CASE q # o
      <4>1. op'[q] = op[q]
        BY <3>2 DEF OthersSame
      <4> QED
        BY <4>1, IndexSame DEF Structure, IndexOrder
    <3> QED
      BY <3>1, <3>2
  <2> QED
    BY <2>2, <2>3, <2>4 DEF IndexOrder
<1> QED
  BY <1>1, <1>2, <1>4, <1>5, <1>6

\* await_ready changes no job.
LEMMA AwaitReadyStructure ==
    ASSUME Structure, NEW o \in Ops, AwaitReady(o)
    PROVE  Structure'
<1>1. /\ OthersSame(o) /\ KeepsAim(o) /\ op[o].pc = "ready"
      /\ op'[o].pc = IF Current(o).complete THEN "resumed" ELSE "suspend"
      /\ op'[o].jobs = op[o].jobs /\ op'[o].k = op[o].k /\ op'[o].thread = op[o].thread
      /\ op'[o].reported = op[o].reported
      /\ op'[o].result = op[o].result /\ op'[o].modified = op[o].modified
  BY AwaitReadyFacts DEF Structure
<1>2. UNCHANGED <<world, disk, staged, known, available, queue, busy, removed, failures>>
  BY DEF AwaitReady
<1>3. ProgressOf(o)
  BY DEF Structure
<1>4. Current(o)' = Current(o) /\ OfIndex(o)' = OfIndex(o)
  BY <1>1 DEF Current, OfIndex
<1>5. AtIndex(o)' = AtIndex(o)
  BY <1>1, <1>4 DEF AtIndex, Awaiting
<1>6. OnGameThread(o)' = OnGameThread(o)
  BY <1>1, <1>4 DEF OnGameThread
<1>7. ProgressOf(o)'
  BY <1>1, <1>3, <1>4, <1>5 DEF ProgressOf, Awaiting
<1>8. AtIndex(o)' /\ Current(o)'.complete => op'[o].thread = "downloader" \/ OnGameThread(o)'
  BY <1>1, <1>4, <1>5, <1>6 DEF Structure, IndexOrder
<1>9. Typed'
  BY <1>1, <1>2 DEF Structure, Typed, OthersSame
<1>10. InstallInvariant'
  BY AwaitReadyKeeps DEF Structure
<1>11. /\ \A q \in Ops : HonestOf(q)'
       /\ \A q \in Ops \ {o} : ProgressOf(q)'
       /\ QueueLive' /\ Threads' /\ IndexOrder'
  BY <1>1, <1>2, <1>5, <1>6, <1>8, LocalStep
<1> QED
  BY <1>7, <1>9, <1>10, <1>11 DEF Structure

-----------------------------------------------------------------------------
(***************************************************************************)
(* The steps of a coroutine, and the order of things                       *)
(***************************************************************************)

\* await_suspend waits only for a job that is not complete.
LEMMA AwaitSuspendStructure ==
    ASSUME Structure, NEW o \in Ops, AwaitSuspend(o)
    PROVE  Structure'
<1>1. /\ OthersSame(o) /\ KeepsAim(o) /\ op[o].pc = "suspend"
      /\ op'[o].pc = IF Current(o).complete THEN "resumed" ELSE "waiting"
      /\ op'[o].thread = IF Current(o).complete THEN op[o].thread ELSE "own"
      /\ op'[o].jobs = op[o].jobs /\ op'[o].k = op[o].k
      /\ op'[o].reported = op[o].reported
      /\ op'[o].result = op[o].result /\ op'[o].modified = op[o].modified
  BY AwaitSuspendFacts DEF Structure
<1>2. UNCHANGED <<world, disk, staged, known, available, queue, busy, removed, failures>>
  BY DEF AwaitSuspend
<1>3. ProgressOf(o)
  BY DEF Structure
<1>4. Current(o)' = Current(o) /\ OfIndex(o)' = OfIndex(o)
  BY <1>1 DEF Current, OfIndex
<1>5. AtIndex(o)' = AtIndex(o)
  BY <1>1, <1>4 DEF AtIndex, Awaiting
<1>6. OnGameThread(o)' => OnGameThread(o)
  <2>1. AtIndex(o) => op[o].thread = "own"
    BY <1>1, <1>3 DEF ProgressOf
  <2> QED
    BY <1>1, <1>4, <2>1 DEF OnGameThread, AtIndex, Awaiting
<1>7. ProgressOf(o)'
  BY <1>1, <1>3, <1>4, <1>5 DEF ProgressOf, Awaiting
<1>8. AtIndex(o)' /\ Current(o)'.complete => op'[o].thread = "downloader" \/ OnGameThread(o)'
  <2>1. AtIndex(o) => op[o].thread = "own"
    BY <1>1, <1>3 DEF ProgressOf
  <2> QED
    BY <1>1, <1>4, <1>5, <2>1 DEF OnGameThread, AtIndex
<1>9. Typed'
  BY <1>1, <1>2 DEF Structure, Typed, OthersSame
<1>10. InstallInvariant'
  BY AwaitSuspendKeeps DEF Structure
<1>11. /\ \A q \in Ops : HonestOf(q)'
       /\ \A q \in Ops \ {o} : ProgressOf(q)'
       /\ QueueLive' /\ Threads' /\ IndexOrder'
  BY <1>1, <1>2, <1>5, <1>6, <1>8, LocalStep
<1> QED
  BY <1>7, <1>9, <1>10, <1>11 DEF Structure

\* Files that are moved leave typed directories.
LEMMA MovedTyped ==
    ASSUME Typed, NEW job, Moved(job)
    PROVE  disk' \in [Places -> Content] /\ staged' \in [Places -> {"none", "part", "new"}]
<1>1. PICK movable : movable = Movable(job)
  OBVIOUS
<1>2. /\ disk' = [x \in Places |-> IF x \in movable THEN staged[x] ELSE disk[x]]
      /\ staged' = [x \in Places |-> IF x \in movable THEN "none" ELSE staged[x]]
  BY <1>1 DEF Moved
<1> QED
  BY <1>2 DEF Typed, Content

\* The index is applied with its one job complete.
LEMMA ApplyIndexStructure ==
    ASSUME Structure, NEW o \in Ops, ApplyIndex(o)
    PROVE  Structure'
<1>1. /\ OthersSame(o) /\ KeepsAim(o) /\ op[o].pc = "resumed" /\ OfIndex(o) /\ Moved(Current(o))
      /\ op'[o].pc = "reload" /\ op'[o].thread = "own"
      /\ op'[o].jobs = op[o].jobs /\ op'[o].k = op[o].k
      /\ op'[o].result = op[o].result /\ op'[o].modified = op[o].modified
  BY ApplyIndexFacts DEF Structure
<1>2. UNCHANGED <<world, known, available, queue, busy, removed, failures>>
  BY DEF ApplyIndex
<1>3. ProgressOf(o)
  BY DEF Structure
<1>5. ~AtIndex(o)' /\ ~OnGameThread(o)'
  BY <1>1 DEF AtIndex, OnGameThread, Awaiting
<1>6. \A i \in 1 .. Len(op[o].jobs) : op[o].jobs[i].complete
  <2>1. Len(op[o].jobs) = 1 /\ op[o].k = 1 /\ Current(o).complete
    BY <1>1, <1>3 DEF ProgressOf, AtIndex, Awaiting
  <2> QED
    BY <2>1 DEF Current
<1>7. ProgressOf(o)'
  BY <1>1, <1>3, <1>5, <1>6 DEF ProgressOf, Awaiting
<1>9. Typed'
  BY <1>1, <1>2, MovedTyped DEF Structure, Typed, OthersSame
<1>10. InstallInvariant'
  BY ApplyIndexKeeps DEF Structure
<1>11. /\ \A q \in Ops : HonestOf(q)'
       /\ \A q \in Ops \ {o} : ProgressOf(q)'
       /\ QueueLive' /\ Threads' /\ IndexOrder'
  BY <1>1, <1>2, <1>5, LocalStep
<1> QED
  BY <1>7, <1>9, <1>10, <1>11 DEF Structure

\* The job of the index is dropped, complete.
LEMMA ReloadStructure ==
    ASSUME Structure, NEW o \in Ops, Reload(o)
    PROVE  Structure'
<1> DEFINE index == disk[<<Index, "packages.xml">>]
<1>1. /\ OthersSame(o) /\ KeepsAim(o) /\ op[o].pc = "reload"
      /\ available' = IF index = "part" THEN "none" ELSE index
      /\ op'[o].pc = IF index = "part" THEN "ended" ELSE "select"
      /\ op'[o].jobs = <<>> /\ op'[o].k = 0
      /\ op'[o].thread = op[o].thread /\ op'[o].reported = op[o].reported
      /\ op'[o].result = op[o].result /\ op'[o].modified = op[o].modified
  BY ReloadFacts DEF Structure
<1>2. UNCHANGED <<world, disk, staged, known, queue, busy, removed, failures>>
  BY DEF Reload
<1>3. ProgressOf(o)
  BY DEF Structure
<1>5. ~AtIndex(o)' /\ ~OnGameThread(o)'
  BY <1>1 DEF AtIndex, OnGameThread, Awaiting
<1>6. \A i \in 1 .. Len(op[o].jobs) : op[o].jobs[i].complete
  BY <1>1, <1>3 DEF ProgressOf
<1>7. ProgressOf(o)'
  <2>1. op'[o].pc \in {"ended", "select"}
    BY <1>1
  <2> QED
    BY <1>1, <1>3, <1>5, <2>1 DEF ProgressOf, Awaiting
<1>8. available' \in {"none", "old", "new"}
  <2>1. index \in Content
    BY PlaceFacts, FilesFacts DEF Structure, Typed, Targets
  <2> QED
    BY <1>1, <2>1 DEF Content
<1>9. Typed'
  BY <1>1, <1>2, <1>8 DEF Structure, Typed, OthersSame
<1>10. InstallInvariant'
  BY ReloadKeeps DEF Structure
<1>11. /\ \A q \in Ops : HonestOf(q)'
       /\ \A q \in Ops \ {o} : ProgressOf(q)'
       /\ QueueLive' /\ Threads' /\ IndexOrder'
  BY <1>1, <1>2, <1>5, <1>6, LocalStep
<1> QED
  BY <1>7, <1>9, <1>10, <1>11 DEF Structure

\* The selected packages are still without jobs.
LEMMA SelectStructure ==
    ASSUME Structure, NEW o \in Ops, Select(o)
    PROVE  Structure'
<1>1. PICK packages :
      /\ OthersSame(o) /\ op[o].pc = "select"
      /\ op'[o].pc = IF packages = <<>> THEN "ended" ELSE "enqueue"
      /\ op'[o].thread = IF packages = <<>> THEN "own" ELSE op[o].thread
      /\ op'[o].packages = packages
      /\ op'[o].jobs = <<>> /\ op'[o].k = op[o].k
      /\ op'[o].result = op[o].result /\ op'[o].modified = op[o].modified
  BY SelectFacts DEF Structure
<1>2. UNCHANGED <<world, disk, staged, known, available, queue, busy, removed, failures>>
  BY DEF Select
<1>3. ProgressOf(o)
  BY DEF Structure
<1>4. op'[o].pc \in {"ended", "enqueue"}
  BY <1>1
<1>5. ~AtIndex(o)' /\ ~OnGameThread(o)'
  BY <1>4 DEF AtIndex, OnGameThread, Awaiting
<1>6. op[o].jobs = <<>>
  BY <1>1, <1>3 DEF ProgressOf
<1>7. ProgressOf(o)'
  <2>1. op[o].k = 0
    BY <1>1, <1>3 DEF ProgressOf
  <2>2. packages # <<>> => 0 < Len(packages)
    <3>1. packages \in Seq(Packages)
      BY <1>1 DEF OthersSame, Operation
    <3> QED
      BY <3>1, EmptySeq
  <2>3. Len(<<>>) = 0 /\ 1 .. 0 = {}
    OBVIOUS
  <2> QED
    BY <1>1, <1>3, <1>4, <1>5, <2>1, <2>2, <2>3 DEF ProgressOf, Awaiting
<1>9. Typed'
  BY <1>1, <1>2 DEF Structure, Typed, OthersSame
<1>10. InstallInvariant'
  BY SelectKeeps DEF Structure
<1>11. /\ \A q \in Ops : HonestOf(q)'
       /\ \A q \in Ops \ {o} : ProgressOf(q)'
       /\ QueueLive' /\ Threads' /\ IndexOrder'
  <2>1. op'[o].thread \in {op[o].thread, "own"} /\ op'[o].jobs = op[o].jobs
    BY <1>1, <1>6
  <2> QED
    BY <1>1, <1>2, <1>4, <1>5, <2>1, LocalStep
<1> QED
  BY <1>7, <1>9, <1>10, <1>11 DEF Structure

\* The operation turns to the next job, with those before it complete.
LEMMA ApplyPackageStructure ==
    ASSUME Structure, NEW o \in Ops, ApplyPackage(o)
    PROVE  Structure'
<1>1. /\ OthersSame(o) /\ KeepsAim(o) /\ op[o].pc = "resumed" /\ ~OfIndex(o)
      /\ IF AllGood(Current(o)) THEN Moved(Current(o)) ELSE UNCHANGED <<disk, staged>>
      /\ op'[o].pc = Onward(o)
      /\ op'[o].k = IF Onward(o) = "ready" THEN op[o].k + 1 ELSE op[o].k
      /\ op'[o].jobs = op[o].jobs /\ op'[o].thread = op[o].thread
      /\ op'[o].result = op[o].result /\ op'[o].modified = op[o].modified
  BY ApplyPackageFacts DEF Structure
<1>2. UNCHANGED <<world, known, available, queue, busy, removed, failures>>
  BY DEF ApplyPackage
<1>3. ProgressOf(o)
  BY DEF Structure
<1>4. op[o].k \in 1 .. Len(op[o].jobs) /\ Len(op[o].jobs) \in Nat
  <2>1. op[o].jobs \in Seq(JobRecord)
    BY DEF Structure, Typed, Operation
  <2> QED
    BY <1>1, <1>3, <2>1 DEF ProgressOf, Awaiting
<1>5. \A i \in 1 .. op[o].k : op[o].jobs[i].complete
  <2>1. \A i \in 1 .. op[o].k - 1 : op[o].jobs[i].complete
    BY <1>1, <1>3 DEF ProgressOf, Awaiting
  <2>2. op[o].jobs[op[o].k].complete
    BY <1>1, <1>3 DEF ProgressOf, Current
  <2> QED
    BY <1>4, <2>1, <2>2
<1>6. \A i \in 1 .. Len(op[o].jobs) : op[o].jobs[i].of \in Packages
  BY <1>1, <1>3 DEF ProgressOf, Awaiting
<1>7. op'[o].pc \in {"ready", "reset"} /\ (op'[o].pc = "ready" <=> op[o].k < Len(op[o].jobs))
  BY <1>1 DEF Onward
<1>8. op'[o].pc = "ready" => op'[o].k \in 1 .. Len(op'[o].jobs) /\ op'[o].k = op[o].k + 1
  BY <1>1, <1>4, <1>7
<1>9. ~AtIndex(o)' /\ ~OnGameThread(o)'
  <2>1. op'[o].pc = "ready" => ~OfIndex(o)'
    <3> SUFFICES ASSUME op'[o].pc = "ready"
                 PROVE  ~OfIndex(o)'
      OBVIOUS
    <3>1. op'[o].jobs[op'[o].k].of \in Packages
      BY <1>1, <1>6, <1>8
    <3> QED
      BY <3>1, FilesFacts DEF OfIndex, Current
  <2> QED
    BY <1>7, <2>1 DEF AtIndex, OnGameThread, Awaiting
<1>10. ProgressOf(o)'
  <2>1. op'[o].pc = "reset" => \A i \in 1 .. Len(op'[o].jobs) : op'[o].jobs[i].complete
    BY <1>1, <1>4, <1>5, <1>7
  <2>2. op'[o].pc = "ready" => \A i \in 1 .. op'[o].k - 1 : op'[o].jobs[i].complete
    <3> SUFFICES ASSUME op'[o].pc = "ready", NEW i \in 1 .. op'[o].k - 1
                 PROVE  op'[o].jobs[i].complete
      OBVIOUS
    <3>1. i \in 1 .. op[o].k
      BY <1>4, <1>8
    <3> QED
      BY <1>1, <1>5, <3>1
  <2> QED
    BY <1>1, <1>3, <1>6, <1>7, <1>8, <1>9, <2>1, <2>2 DEF ProgressOf, Awaiting
<1>11. Typed'
  <2>1. disk' \in [Places -> Content] /\ staged' \in [Places -> {"none", "part", "new"}]
    BY <1>1, MovedTyped DEF Structure, Typed
  <2> QED
    BY <1>1, <1>2, <2>1 DEF Structure, Typed, OthersSame
<1>12. InstallInvariant'
  BY ApplyPackageKeeps DEF Structure
<1>13. /\ \A q \in Ops : HonestOf(q)'
       /\ \A q \in Ops \ {o} : ProgressOf(q)'
       /\ QueueLive' /\ Threads' /\ IndexOrder'
  BY <1>1, <1>2, <1>7, <1>9, LocalStep
<1> QED
  BY <1>10, <1>11, <1>12, <1>13 DEF Structure

\* All jobs that are dropped are complete.
LEMMA ResetStructure ==
    ASSUME Structure, NEW o \in Ops, Reset(o)
    PROVE  Structure'
<1>1. /\ OthersSame(o) /\ KeepsAim(o) /\ op[o].pc = "reset"
      /\ op'[o].pc = "check" /\ op'[o].jobs = <<>> /\ op'[o].k = 0
      /\ op'[o].thread = op[o].thread /\ op'[o].reported = op[o].reported
      /\ op'[o].result = op[o].result /\ op'[o].modified = op[o].modified
  BY ResetFacts DEF Structure
<1>2. UNCHANGED <<world, disk, staged, available, queue, busy, removed, failures>>
  BY DEF Reset
<1>3. ProgressOf(o)
  BY DEF Structure
<1>5. ~AtIndex(o)' /\ ~OnGameThread(o)'
  BY <1>1 DEF AtIndex, OnGameThread, Awaiting
<1>6. \A i \in 1 .. Len(op[o].jobs) : op[o].jobs[i].complete
  BY <1>1, <1>3 DEF ProgressOf
<1>7. ProgressOf(o)'
  BY <1>1, <1>3, <1>5 DEF ProgressOf, Awaiting
<1>8. known' \in [Packages -> {"none", "old", "new"}]
  <2>1. known' = FromDisk(disk)
    BY DEF Reset
  <2> QED
    BY <2>1 DEF FromDisk
<1>9. Typed'
  BY <1>1, <1>2, <1>8 DEF Structure, Typed, OthersSame
<1>10. InstallInvariant'
  BY ResetKeeps DEF Structure
<1>11. /\ \A q \in Ops : HonestOf(q)'
       /\ \A q \in Ops \ {o} : ProgressOf(q)'
       /\ QueueLive' /\ Threads' /\ IndexOrder'
  BY <1>1, <1>2, <1>5, <1>6, LocalStep
<1> QED
  BY <1>7, <1>9, <1>10, <1>11 DEF Structure

\* A round begins without jobs, as the first did.
LEMMA CheckStructure ==
    ASSUME Structure, NEW o \in Ops, Check(o)
    PROVE  Structure'
<1>1. /\ OthersSame(o) /\ op[o].pc = "check"
      /\ \/ op'[o].pc = "ended" /\ op'[o].thread = "own"
         \/ op'[o].pc = "select" /\ op'[o].thread = op[o].thread
      /\ op'[o].jobs = op[o].jobs /\ op'[o].k = op[o].k
      /\ op'[o].result \subseteq op'[o].modified
  BY CheckFacts DEF Structure
<1>2. UNCHANGED <<world, disk, staged, known, available, queue, busy, removed, failures>>
  BY DEF Check
<1>3. ProgressOf(o)
  BY DEF Structure
<1>4. op'[o].pc \in {"ended", "select"}
  BY <1>1
<1>5. ~AtIndex(o)' /\ ~OnGameThread(o)'
  BY <1>4 DEF AtIndex, OnGameThread, Awaiting
<1>7. ProgressOf(o)'
  BY <1>1, <1>3, <1>4, <1>5 DEF ProgressOf, Awaiting
<1>9. Typed'
  BY <1>1, <1>2 DEF Structure, Typed, OthersSame
<1>10. InstallInvariant'
  BY CheckKeeps DEF Structure
<1>11. /\ \A q \in Ops : HonestOf(q)'
       /\ \A q \in Ops \ {o} : ProgressOf(q)'
       /\ QueueLive' /\ Threads' /\ IndexOrder'
  <2>1. op'[o].thread \in {op[o].thread, "own"}
    BY <1>1
  <2> QED
    BY <1>1, <1>2, <1>4, <1>5, <2>1, LocalStep
<1> QED
  BY <1>7, <1>9, <1>10, <1>11 DEF Structure

-----------------------------------------------------------------------------
(***************************************************************************)
(* A job that is added                                                     *)
(***************************************************************************)

\* A step of one operation that queues a job, with its files pending.
LEMMA AddStep ==
    ASSUME Structure, NEW o \in Ops, OthersSame(o), NEW job \in JobRecord, ~job.complete,
           \A f \in FilesOf(job.of) : job.status[f] = "pending",
           op'[o].jobs = Append(op[o].jobs, job),
           queue' = Append(queue, <<o, Len(op[o].jobs) + 1>>), busy' = busy,
           op'[o].thread \in {op[o].thread, "own"}
    PROVE  /\ Len(op[o].jobs) \in Nat /\ Len(op'[o].jobs) = Len(op[o].jobs) + 1
           /\ op'[o].jobs[Len(op[o].jobs) + 1] = job
           /\ \A j \in 1 .. Len(op[o].jobs) : op'[o].jobs[j] = op[o].jobs[j]
           /\ queue' \in Seq(Ops \X (Nat \ {0})) /\ Len(queue) \in Nat /\ Len(queue') = Len(queue) + 1
           /\ \A m \in 1 .. Len(queue) : queue'[m] = queue[m]
           /\ queue'[Len(queue) + 1] = <<o, Len(op[o].jobs) + 1>>
           /\ \A q \in Ops : HonestOf(q)'
           /\ \A q \in Ops \ {o} : ProgressOf(q)'
           /\ QueueLive' /\ Threads'
<1>1. op[o].jobs \in Seq(JobRecord) /\ queue \in Seq(Ops \X (Nat \ {0}))
  BY DEF Structure, Typed, Operation
<1>2. /\ Len(op[o].jobs) \in Nat /\ Len(op'[o].jobs) = Len(op[o].jobs) + 1
      /\ op'[o].jobs[Len(op[o].jobs) + 1] = job
      /\ \A j \in 1 .. Len(op[o].jobs) : op'[o].jobs[j] = op[o].jobs[j]
  BY <1>1
<1>3. PICK i \in Nat \ {0} : i = Len(op[o].jobs) + 1
  BY <1>2
<1>4. PICK u : u = <<o, i>>
  OBVIOUS
<1>5. u \in Ops \X (Nat \ {0}) /\ u[1] = o /\ u[2] = i
  BY <1>4
<1>6. queue' = Append(queue, u)
  BY <1>3, <1>4
<1>7. /\ queue' \in Seq(Ops \X (Nat \ {0})) /\ Len(queue) \in Nat /\ Len(queue') = Len(queue) + 1
      /\ \A m \in 1 .. Len(queue) : queue'[m] = queue[m]
      /\ queue'[Len(queue) + 1] = u
  BY <1>1, <1>5, <1>6
<1>8. \A q \in Ops : HonestOf(q)'
  <2> SUFFICES ASSUME NEW q \in Ops, NEW j \in 1 .. Len(op'[q].jobs)
               PROVE  LET now == op'[q].jobs[j] IN
                      /\ now.complete => \A f \in FilesOf(now.of) : now.status[f] \notin {"pending", "downloading"}
                      /\ ~now.complete /\ busy # <<q, j>> => \A f \in FilesOf(now.of) : now.status[f] = "pending"
    BY DEF HonestOf
  <2>1. CASE q = o /\ j = i
    BY <2>1, <1>2, <1>3
  <2>2. CASE q # o \/ j # i
    <3>1. CASE q = o
      <4>1. j \in 1 .. Len(op[o].jobs)
        BY <2>2, <3>1, <1>2, <1>3
      <4> QED
        <5>1. op'[q].jobs[j] = op[q].jobs[j] /\ j \in 1 .. Len(op[q].jobs)
          BY <3>1, <4>1, <1>2
        <5> QED
          BY <5>1 DEF Structure, HonestOf
    <3>2. CASE q # o
      <4>1. op'[q] = op[q]
        BY <3>2 DEF OthersSame
      <4> QED
        BY <4>1 DEF Structure, HonestOf
    <3> QED
      BY <3>1, <3>2
  <2> QED
    BY <2>1, <2>2
<1>9. \A q \in Ops \ {o} : ProgressOf(q)'
  BY ProgressSame DEF Structure, OthersSame
<1>10. \A v \in Ops \X (Nat \ {0}) : Incomplete(v) => Incomplete(v)'
  <2> SUFFICES ASSUME NEW v \in Ops \X (Nat \ {0}), Incomplete(v)
               PROVE  Incomplete(v)'
    OBVIOUS
  <2>1. PICK q \in Ops, j \in Nat \ {0} : v = <<q, j>>
    OBVIOUS
  <2>2. j \in 1 .. Len(op[q].jobs) /\ ~op[q].jobs[j].complete
    BY <2>1 DEF Incomplete
  <2>3. j \in 1 .. Len(op'[q].jobs) /\ op'[q].jobs[j] = op[q].jobs[j]
    <3>1. CASE q = o
      BY <2>2, <3>1, <1>2
    <3>2. CASE q # o
      BY <2>2, <3>2 DEF OthersSame
    <3> QED
      BY <3>1, <3>2
  <2> QED
    BY <2>1, <2>2, <2>3 DEF Incomplete
<1>11. ~Incomplete(u) /\ Incomplete(u)'
  BY <1>2, <1>3, <1>5 DEF Incomplete
<1>12. u # busy /\ \A m \in 1 .. Len(queue) : queue[m] # u
  <2>1. busy # None => Incomplete(busy)
    BY DEF Structure, QueueLive
  <2>2. u # None
    BY <1>5 DEF None
  <2> QED
    BY <2>1, <2>2, <1>11 DEF Structure, QueueLive
<1>13. QueueLive'
  <2>1. PICK line : line = queue'
    OBVIOUS
  <2>2. PICK held : held = busy
    OBVIOUS
  <2>3. held # None => Incomplete(held)'
    <3>1. held # None => held \in Ops \X (Nat \ {0}) /\ Incomplete(held)
      BY <2>2 DEF Structure, Typed, QueueLive
    <3> QED
      BY <3>1, <1>10
  <2>4. \A m \in 1 .. Len(queue) : line[m] = queue[m] /\ Incomplete(line[m])' /\ line[m] # held
    <3> SUFFICES ASSUME NEW m \in 1 .. Len(queue)
                 PROVE  line[m] = queue[m] /\ Incomplete(line[m])' /\ line[m] # held
      OBVIOUS
    <3>1. line[m] = queue[m]
      BY <1>7, <2>1
    <3>2. PICK v : v = queue[m]
      OBVIOUS
    <3>3. v \in Ops \X (Nat \ {0}) /\ Incomplete(v) /\ v # held
      BY <1>1, <2>2, <3>2 DEF Structure, QueueLive
    <3>4. Incomplete(v)'
      BY <3>3, <1>10
    <3>5. line[m] = v
      BY <3>1, <3>2
    <3> QED
      BY <3>1, <3>3, <3>4, <3>5
  <2>5. Len(line) = Len(queue) + 1 /\ line[Len(queue) + 1] = u /\ Len(queue) \in Nat
    BY <1>7, <2>1
  <2>6. \A m \in 1 .. Len(line) : m \in 1 .. Len(queue) \/ (line[m] = u /\ m = Len(queue) + 1)
    BY <2>5
  <2>7. \A m \in 1 .. Len(line) : Incomplete(line[m])' /\ line[m] # held
    <3> TAKE m \in 1 .. Len(line)
    <3>1. CASE m \in 1 .. Len(queue)
      BY <3>1, <2>4
    <3>2. CASE line[m] = u
      BY <3>2, <2>2, <1>11, <1>12
    <3> QED
      BY <3>1, <3>2, <2>6
  <2>8. \A m, n \in 1 .. Len(line) : line[m] = line[n] => m = n
    <3>1. \A m, n \in 1 .. Len(queue) : line[m] = line[n] => m = n
      BY <2>4 DEF Structure, QueueLive
    <3>2. \A m \in 1 .. Len(queue) : line[m] # u
      BY <2>4, <1>12
    <3> QED
      BY <3>1, <3>2, <2>6
  <2>9. busy' = held
    BY <2>2
  <2> QED
    BY <2>1, <2>3, <2>7, <2>8, <2>9 DEF QueueLive, Incomplete
<1>14. Threads'
  BY DEF Structure, Threads, OthersSame
<1> QED
  BY <1>2, <1>3, <1>4, <1>7, <1>8, <1>9, <1>13, <1>14

\* The index of an operation is behind those of the operations before it.
LEMMA BeginStructure ==
    ASSUME Structure, NEW o \in Ops, NEW c \in Commands, Begin(o, c)
    PROVE  Structure'
<1>1. PICK job \in JobRecord : job = Job(Index, c.force)
  BY BeginFacts DEF Structure
<1>2. /\ OthersSame(o) /\ op[o].pc = "idle"
      /\ op'[o].pc = "ready" /\ op'[o].names = op'[o].asked /\ op'[o].jobs = <<job>>
      /\ op'[o].k = 1 /\ op'[o].thread = "own" /\ op'[o].reported = FALSE
      /\ op'[o].result = {} /\ op'[o].modified = {}
  BY <1>1, BeginFacts DEF Structure
<1>3. /\ queue' = Append(queue, <<o, 1>>) /\ GameThreadFree
      /\ staged' = [staged EXCEPT ![<<Index, "packages.xml">>] = "none"]
      /\ \A q \in 1 .. o - 1 : op[q].pc # "idle"
      /\ UNCHANGED <<world, disk, known, available, busy, removed, failures>>
  BY DEF Begin
<1>4. job.of = Index /\ ~job.complete /\ \A f \in FilesOf(job.of) : job.status[f] = "pending"
  <2>1. Index \in Targets
    BY DEF Targets
  <2> QED
    BY <1>1, <2>1, NewJob
<1>5. op[o].jobs = <<>>
  BY <1>2, IdleTyped DEF Structure, ProgressOf
<1>6. op'[o].jobs = Append(op[o].jobs, job) /\ queue' = Append(queue, <<o, Len(op[o].jobs) + 1>>)
  <2>1. Append(<<>>, job) = <<job>> /\ Len(<<>>) + 1 = 1
    OBVIOUS
  <2> QED
    BY <2>1, <1>2, <1>3, <1>5
<1>7. /\ queue' \in Seq(Ops \X (Nat \ {0})) /\ Len(queue) \in Nat /\ Len(queue') = Len(queue) + 1
      /\ \A m \in 1 .. Len(queue) : queue'[m] = queue[m]
      /\ queue'[Len(queue) + 1] = <<o, 1>>
      /\ \A q \in Ops : HonestOf(q)'
      /\ \A q \in Ops \ {o} : ProgressOf(q)'
      /\ QueueLive' /\ Threads' /\ Len(op'[o].jobs) = 1 /\ op'[o].jobs[1] = job
  <2>1. Len(op[o].jobs) + 1 = 1
    BY <1>5
  <2>2. op'[o].thread \in {op[o].thread, "own"} /\ busy' = busy
    BY <1>2, <1>3
  <2>3. /\ Len(op'[o].jobs) = Len(op[o].jobs) + 1
        /\ op'[o].jobs[Len(op[o].jobs) + 1] = job
        /\ queue' \in Seq(Ops \X (Nat \ {0})) /\ Len(queue) \in Nat /\ Len(queue') = Len(queue) + 1
        /\ \A m \in 1 .. Len(queue) : queue'[m] = queue[m]
        /\ queue'[Len(queue) + 1] = <<o, Len(op[o].jobs) + 1>>
        /\ \A q \in Ops : HonestOf(q)'
        /\ \A q \in Ops \ {o} : ProgressOf(q)'
        /\ QueueLive' /\ Threads'
    BY <1>2, <1>4, <1>6, <2>2, AddStep
  <2> QED
    BY <2>1, <2>3
<1>8. Current(o)' = job /\ AtIndex(o)' /\ OnGameThread(o)'
  BY <1>2, <1>4, <1>7 DEF Current, AtIndex, OfIndex, OnGameThread, Awaiting
<1>9. ProgressOf(o)'
  BY <1>2, <1>4, <1>7, <1>8 DEF ProgressOf, Awaiting, AtIndex
<1>10. Typed'
  <2>1. staged' \in [Places -> {"none", "part", "new"}]
    BY <1>3 DEF Structure, Typed
  <2> QED
    BY <1>2, <1>3, <1>7, <2>1 DEF Structure, Typed, OthersSame
<1>11. InstallInvariant'
  BY BeginKeeps DEF Structure
<1>12. \A q \in Ops : q > o => op[q].pc = "idle" /\ op'[q].pc = "idle"
  BY <1>2 DEF Structure, IndexOrder, OthersSame, Ops
<1>13. \A q \in Ops : q < o => op[q].pc # "idle"
  BY <1>3 DEF Ops
<1>14. \A a \in Ops : OnGameThread(a)' \/ op'[a].pc = "idle" => \A q \in Ops : q > a => op'[q].pc = "idle"
  <2> SUFFICES ASSUME NEW a \in Ops, OnGameThread(a)' \/ op'[a].pc = "idle"
               PROVE  \A q \in Ops : q > a => op'[q].pc = "idle"
    OBVIOUS
  <2>1. CASE a = o
    BY <2>1, <1>12
  <2>2. CASE a # o
    <3>1. op'[a] = op[a] /\ ~OnGameThread(a)
      BY <2>2, <1>2, <1>3 DEF OthersSame, GameThreadFree
    <3>2. op[a].pc = "idle"
      BY <3>1, IndexSame
    <3>3. a > o
      BY <2>2, <3>2, <1>13 DEF Ops
    <3> QED
      BY <3>3, <1>12 DEF Ops
  <2> QED
    BY <2>1, <2>2
<1>15. \A a, q \in Ops : a < q /\ AtIndex(a)' /\ AtIndex(q)' =>
          \E n \in 1 .. Len(queue') :
             queue'[n] = <<q, 1>> /\ \A m \in 1 .. Len(queue') : queue'[m] = <<a, 1>> => m < n
  <2> SUFFICES ASSUME NEW a \in Ops, NEW q \in Ops, a < q, AtIndex(a)', AtIndex(q)'
               PROVE  \E n \in 1 .. Len(queue') :
                         queue'[n] = <<q, 1>> /\ \A m \in 1 .. Len(queue') : queue'[m] = <<a, 1>> => m < n
    OBVIOUS
  <2>1. a # o
    BY <1>12 DEF AtIndex, Awaiting
  <2>2. <<a, 1>> # <<o, 1>>
    BY <2>1
  <2>3. \A m \in 1 .. Len(queue') : queue'[m] = <<a, 1>> => m \in 1 .. Len(queue) /\ queue[m] = <<a, 1>>
    BY <1>7, <2>2
  <2>4. CASE q = o
    <3>1. Len(queue) + 1 \in 1 .. Len(queue') /\ queue'[Len(queue) + 1] = <<q, 1>>
      BY <2>4, <1>7
    <3>2. \A m \in 1 .. Len(queue') : queue'[m] = <<a, 1>> => m < Len(queue) + 1
      BY <2>3, <1>7
    <3> QED
      BY <3>1, <3>2
  <2>5. CASE q # o
    <3>1. AtIndex(a) /\ AtIndex(q)
      BY <2>1, <2>5, <1>2, IndexSame DEF OthersSame
    <3>2. PICK n \in 1 .. Len(queue) :
             queue[n] = <<q, 1>> /\ \A m \in 1 .. Len(queue) : queue[m] = <<a, 1>> => m < n
      BY <3>1 DEF Structure, IndexOrder
    <3>3. n \in 1 .. Len(queue') /\ queue'[n] = <<q, 1>>
      BY <3>2, <1>7
    <3> QED
      BY <3>2, <3>3, <2>3
  <2> QED
    BY <2>4, <2>5
<1>16. \A q \in Ops : AtIndex(q)' /\ Current(q)'.complete => op'[q].thread = "downloader" \/ OnGameThread(q)'
  <2> TAKE q \in Ops
  <2>1. CASE q = o
    BY <2>1, <1>4, <1>8
  <2>2. CASE q # o
    <3>1. op'[q] = op[q]
      BY <2>2, <1>2 DEF OthersSame
    <3> QED
      BY <3>1, IndexSame DEF Structure, IndexOrder
  <2> QED
    BY <2>1, <2>2
<1>17. IndexOrder'
  BY <1>14, <1>15, <1>16 DEF IndexOrder
<1> QED
  BY <1>7, <1>9, <1>10, <1>11, <1>17 DEF Structure

\* A package is queued with its files pending.
LEMMA EnqueueStructure ==
    ASSUME Structure, NEW o \in Ops, Enqueue(o)
    PROVE  Structure'
<1>1. op[o].pc = "enqueue" /\ queue' = Append(queue, <<o, Len(op[o].jobs) + 1>>)
      /\ UNCHANGED <<world, disk, staged, known, available, busy, removed, failures>>
  BY DEF Enqueue
<1>2. ProgressOf(o)
  BY DEF Structure
<1>3. Len(op[o].jobs) < Len(op[o].packages) /\ \A i \in 1 .. Len(op[o].jobs) : op[o].jobs[i].of \in Packages
  BY <1>1, <1>2 DEF ProgressOf
<1>4. PICK i : i = Len(op[o].jobs) + 1
  OBVIOUS
<1>5. PICK job : job = Job(op[o].packages[i], op[o].force)
  OBVIOUS
<1>6. /\ OthersSame(o) /\ KeepsAim(o)
      /\ i \in 1 .. Len(op[o].packages) /\ op[o].packages[i] \in Packages /\ job \in JobRecord
      /\ op'[o].pc = IF i = Len(op[o].packages) THEN "ready" ELSE "enqueue"
      /\ op'[o].jobs = Append(op[o].jobs, job) /\ op'[o].k = 1
      /\ op'[o].thread = op[o].thread
      /\ op'[o].result = op[o].result /\ op'[o].modified = op[o].modified
  BY <1>3, <1>4, <1>5, EnqueueFacts DEF Structure
<1>7. job.of \in Packages /\ ~job.complete /\ \A f \in FilesOf(job.of) : job.status[f] = "pending"
  <2>1. op[o].packages[i] \in Targets
    BY <1>6 DEF Targets
  <2> QED
    BY <1>5, <1>6, <2>1, NewJob
<1>8. /\ Len(op[o].jobs) \in Nat /\ Len(op'[o].jobs) = Len(op[o].jobs) + 1
      /\ op'[o].jobs[Len(op[o].jobs) + 1] = job
      /\ \A j \in 1 .. Len(op[o].jobs) : op'[o].jobs[j] = op[o].jobs[j]
      /\ queue' \in Seq(Ops \X (Nat \ {0})) /\ Len(queue) \in Nat /\ Len(queue') = Len(queue) + 1
      /\ \A m \in 1 .. Len(queue) : queue'[m] = queue[m]
      /\ queue'[Len(queue) + 1] = <<o, Len(op[o].jobs) + 1>>
      /\ \A q \in Ops : HonestOf(q)'
      /\ \A q \in Ops \ {o} : ProgressOf(q)'
      /\ QueueLive' /\ Threads'
  BY <1>1, <1>4, <1>6, <1>7, AddStep
<1>9. /\ \A j \in 1 .. i : op'[o].jobs[j].of \in Packages
      /\ i = Len(op'[o].jobs) /\ 1 \in 1 .. i
  <2>1. /\ \A j \in 1 .. i : j \in 1 .. Len(op[o].jobs) \/ j = i
        /\ i = Len(op'[o].jobs) /\ 1 \in 1 .. i
    BY <1>4, <1>8
  <2>2. op'[o].jobs[i] = job
    BY <1>4, <1>8
  <2>3. \A j \in 1 .. Len(op[o].jobs) : op'[o].jobs[j].of \in Packages
    BY <1>3, <1>8
  <2> QED
    BY <2>1, <2>2, <2>3, <1>7
<1>10. ~AtIndex(o)' /\ ~OnGameThread(o)' /\ ~OfIndex(o)' /\ ~AtIndex(o) /\ ~OnGameThread(o)
  <2>1. ~OfIndex(o)'
    BY <1>6, <1>9, FilesFacts DEF OfIndex, Current
  <2> QED
    BY <1>1, <2>1 DEF AtIndex, OnGameThread, Awaiting
<1>11. ProgressOf(o)'
  <2>1. op'[o].pc \in {"ready", "enqueue"} /\ (op'[o].pc = "enqueue" => i # Len(op[o].packages))
    BY <1>6
  <2>2. Len(op[o].packages) \in Nat /\ op'[o].packages = op[o].packages
    BY <1>6 DEF KeepsAim, Structure, Typed, Operation
  <2>3. op'[o].pc = "enqueue" => i < Len(op'[o].packages)
    BY <2>1, <2>2, <1>6
  <2>4. \A j \in 1 .. 1 - 1 : op'[o].jobs[j].complete
    OBVIOUS
  <2> QED
    BY <1>2, <1>6, <1>9, <1>10, <2>1, <2>3, <2>4 DEF ProgressOf, Awaiting
<1>12. Typed'
  BY <1>1, <1>6, <1>8 DEF Structure, Typed, OthersSame
<1>13. InstallInvariant'
  BY EnqueueKeeps DEF Structure
<1>14. \A a \in Ops : /\ AtIndex(a)' = AtIndex(a) /\ OnGameThread(a)' = OnGameThread(a)
                      /\ (op'[a].pc = "idle" <=> op[a].pc = "idle")
                      /\ (a # o => op'[a] = op[a] /\ Current(a)' = Current(a))
  <2> TAKE a \in Ops
  <2>1. CASE a = o
    <3>1. op'[o].pc # "idle" /\ op[o].pc # "idle"
      BY <1>1, <1>6
    <3> QED
      BY <2>1, <3>1, <1>10 DEF AtIndex, OnGameThread, OfIndex, Current
  <2>2. CASE a # o
    BY <2>2, <1>6, IndexSame DEF OthersSame
  <2> QED
    BY <2>1, <2>2
<1>15. \A a \in Ops : OnGameThread(a)' \/ op'[a].pc = "idle" => \A q \in Ops : q > a => op'[q].pc = "idle"
  BY <1>14 DEF Structure, IndexOrder
<1>16. \A a, q \in Ops : a < q /\ AtIndex(a)' /\ AtIndex(q)' =>
          \E n \in 1 .. Len(queue') :
             queue'[n] = <<q, 1>> /\ \A m \in 1 .. Len(queue') : queue'[m] = <<a, 1>> => m < n
  <2> SUFFICES ASSUME NEW a \in Ops, NEW q \in Ops, a < q, AtIndex(a), AtIndex(q)
               PROVE  \E n \in 1 .. Len(queue') :
                         queue'[n] = <<q, 1>> /\ \A m \in 1 .. Len(queue') : queue'[m] = <<a, 1>> => m < n
    BY <1>14
  <2>1. a # o
    BY <1>10
  <2>2. <<a, 1>> # <<o, Len(op[o].jobs) + 1>>
    BY <2>1
  <2>3. \A m \in 1 .. Len(queue') : queue'[m] = <<a, 1>> => m \in 1 .. Len(queue) /\ queue[m] = <<a, 1>>
    BY <1>8, <2>2
  <2>4. PICK n \in 1 .. Len(queue) :
           queue[n] = <<q, 1>> /\ \A m \in 1 .. Len(queue) : queue[m] = <<a, 1>> => m < n
    BY DEF Structure, IndexOrder
  <2>5. n \in 1 .. Len(queue') /\ queue'[n] = <<q, 1>>
    BY <2>4, <1>8
  <2> QED
    BY <2>3, <2>4, <2>5
<1>17. \A q \in Ops : AtIndex(q)' /\ Current(q)'.complete => op'[q].thread = "downloader" \/ OnGameThread(q)'
  BY <1>10, <1>14 DEF Structure, IndexOrder
<1>18. IndexOrder'
  BY <1>15, <1>16, <1>17 DEF IndexOrder
<1> QED
  BY <1>8, <1>11, <1>12, <1>13, <1>18 DEF Structure

-----------------------------------------------------------------------------
(***************************************************************************)
(* The thread of the downloader                                            *)
(***************************************************************************)

\* The thread takes the first of the queue, which is not complete.
LEMMA TakeJobStructure ==
    ASSUME Structure, TakeJob
    PROVE  Structure'
<1>1. /\ busy = None /\ queue # <<>> /\ \A o \in Ops : op[o].thread # "downloader"
      /\ busy' = Head(queue) /\ queue' = Tail(queue)
      /\ UNCHANGED <<world, disk, staged, known, available, op, removed, failures>>
  BY DEF TakeJob
<1>2. queue \in Seq(Ops \X (Nat \ {0}))
  BY DEF Structure, Typed
<1>3. /\ Len(queue) \in Nat \ {0} /\ busy' = queue[1] /\ busy' \in Ops \X (Nat \ {0})
      /\ queue' \in Seq(Ops \X (Nat \ {0})) /\ Len(queue') = Len(queue) - 1
      /\ \A n \in 1 .. Len(queue) - 1 : queue'[n] = queue[n + 1]
  BY <1>1, <1>2, HeadTailProperties
<1>4. Typed'
  BY <1>1, <1>3 DEF Structure, Typed
<1>5. InstallInvariant'
  BY TakeJobKeeps DEF Structure
<1>6. \A o \in Ops : ProgressOf(o)'
  BY <1>1, ProgressSame DEF Structure
<1>7. \A o \in Ops : HonestOf(o)'
  <2> SUFFICES ASSUME NEW o \in Ops
               PROVE  HonestOf(o)'
    OBVIOUS
  <2>1. \A i : busy # <<o, i>>
    BY <1>1 DEF None, Ops
  <2>2. HonestOf(o)
    BY DEF Structure
  <2> QED
    BY <1>1, <2>1, <2>2 DEF HonestOf
<1>8. QueueLive'
  <2>1. PICK line : line = queue'
    OBVIOUS
  <2>2. PICK u : u = busy'
    OBVIOUS
  <2>3. PICK old : old = queue
    OBVIOUS
  <2>4. \A v : Incomplete(v) => Incomplete(v)'
    BY <1>1 DEF Incomplete
  <2>5. \A n \in 1 .. Len(old) : Incomplete(old[n])
    BY <2>3 DEF Structure, QueueLive
  <2>6. \A m, n \in 1 .. Len(old) : old[m] = old[n] => m = n
    BY <2>3 DEF Structure, QueueLive
  <2>7. /\ Len(old) \in Nat \ {0} /\ u = old[1] /\ Len(line) = Len(old) - 1
        /\ \A n \in 1 .. Len(old) - 1 : line[n] = old[n + 1]
    BY <1>3, <2>1, <2>2, <2>3
  <2>8. Incomplete(u)'
    BY <2>4, <2>5, <2>7
  <2>9. \A n \in 1 .. Len(line) : n + 1 \in 1 .. Len(old) /\ n + 1 # 1 /\ 1 \in 1 .. Len(old)
    BY <2>7
  <2>10. \A n \in 1 .. Len(line) : Incomplete(line[n])' /\ line[n] # u
    BY <2>4, <2>5, <2>6, <2>7, <2>9
  <2>11. \A m, n \in 1 .. Len(line) : line[m] = line[n] => m = n
    BY <2>6, <2>7, <2>9
  <2> QED
    BY <2>1, <2>2, <2>8, <2>10, <2>11 DEF QueueLive, Incomplete
<1>9. Threads'
  BY <1>1 DEF Threads
<1>10. \A a, q \in Ops : a < q /\ AtIndex(a)' /\ AtIndex(q)' =>
          \E n \in 1 .. Len(queue') :
             queue'[n] = <<q, 1>> /\ \A m \in 1 .. Len(queue') : queue'[m] = <<a, 1>> => m < n
  <2> SUFFICES ASSUME NEW a \in Ops, NEW q \in Ops, a < q, AtIndex(a), AtIndex(q)
               PROVE  \E n \in 1 .. Len(queue') :
                         queue'[n] = <<q, 1>> /\ \A m \in 1 .. Len(queue') : queue'[m] = <<a, 1>> => m < n
    BY <1>1, IndexSame
  <2>1. PICK n \in 1 .. Len(queue) :
           queue[n] = <<q, 1>> /\ \A m \in 1 .. Len(queue) : queue[m] = <<a, 1>> => m < n
    BY DEF Structure, IndexOrder
  <2>2. n # 1
    <3> SUFFICES ASSUME n = 1
                 PROVE  FALSE
      OBVIOUS
    <3>1. ~Has(queue, a, 1)
      BY <2>1 DEF Has
    <3>2. 1 \in 1 .. Len(op[a].jobs) /\ Current(a) = op[a].jobs[1]
      BY DEF Structure, ProgressOf, Current, AtIndex
    <3>3. busy # <<a, 1>>
      BY <1>1 DEF None, Ops
    <3>4. Current(a).complete
      BY <3>1, <3>2, <3>3 DEF Structure, InstallInvariant, JobsKept
    <3>5. OnGameThread(a)
      BY <1>1, <3>4 DEF Structure, IndexOrder
    <3>6. op[q].pc = "idle"
      BY <3>5 DEF Structure, IndexOrder
    <3> QED
      BY <3>6 DEF AtIndex, Awaiting
  <2>3. PICK p \in 1 .. Len(queue') : n = p + 1
    <3>1. n - 1 \in 1 .. Len(queue') /\ n = (n - 1) + 1
      BY <1>3, <2>1, <2>2
    <3> QED
      BY <3>1
  <2>4. queue'[p] = <<q, 1>>
    BY <1>3, <2>1, <2>3
  <2>5. \A m \in 1 .. Len(queue') : queue'[m] = <<a, 1>> => m < p
    <3> SUFFICES ASSUME NEW m \in 1 .. Len(queue'), queue'[m] = <<a, 1>>
                 PROVE  m < p
      OBVIOUS
    <3>1. m + 1 \in 1 .. Len(queue) /\ queue[m + 1] = <<a, 1>>
      BY <1>3
    <3>2. m + 1 < p + 1
      BY <2>1, <2>3, <3>1
    <3> QED
      BY <3>2
  <2> QED
    BY <2>4, <2>5
<1>11. IndexOrder'
  <2>1. \A q \in Ops : op'[q] = op[q]
    BY <1>1
  <2>2. \A a \in Ops : OnGameThread(a)' \/ op'[a].pc = "idle" => \A q \in Ops : q > a => op'[q].pc = "idle"
    BY <2>1, IndexSame DEF Structure, IndexOrder
  <2>3. \A q \in Ops : AtIndex(q)' /\ Current(q)'.complete => op'[q].thread = "downloader" \/ OnGameThread(q)'
    BY <2>1, IndexSame DEF Structure, IndexOrder
  <2> QED
    BY <1>10, <2>2, <2>3 DEF IndexOrder
<1> QED
  BY <1>4, <1>5, <1>6, <1>7, <1>8, <1>9, <1>11 DEF Structure

\* The job in hand is one of an operation that has begun, and not complete.
LEMMA StructureBusy ==
    ASSUME Structure, busy # None
    PROVE  /\ BusyLive /\ busy[1] \in Ops /\ busy[2] \in Nat \ {0} /\ busy = <<busy[1], busy[2]>>
           /\ busy[2] \in 1 .. Len(op[busy[1]].jobs) /\ ~BusyJob.complete
           /\ BusyJob \in JobRecord /\ op[busy[1]].pc # "idle"
<1>1. PICK o \in Ops, n \in Nat \ {0} : busy = <<o, n>>
  BY DEF Structure, Typed
<1>2. n \in 1 .. Len(op[o].jobs) /\ ~op[o].jobs[n].complete
  BY <1>1 DEF Structure, QueueLive, Incomplete
<1>3. op[o].jobs \in Seq(JobRecord)
  BY DEF Structure, Typed, Operation
<1>4. op[o].pc # "idle"
  BY <1>2, IdleTyped DEF Structure, ProgressOf
<1> QED
  BY <1>1, <1>2, <1>3, <1>4 DEF BusyLive, BusyJob

\* A turn of the download loop is about a file of the job in hand.
LEMMA TurnFacts ==
    ASSUME Structure, NEW f, Turn(f)
    PROVE  busy # None /\ f \in FilesOf(BusyJob.of) /\ Unfinished(f) /\ InStaging(f) \in Places
<1>1. busy # None
  BY DEF Turn
<1>2. PICK i \in DOMAIN Files(BusyJob.of) : f = Files(BusyJob.of)[i] /\ Unfinished(f)
  BY DEF Turn
<1>3. f \in FilesOf(BusyJob.of)
  BY <1>2, FilesFacts
<1>4. BusyJob.of \in Targets
  BY <1>1, StructureBusy DEF JobRecord, JobSet
<1> QED
  BY <1>1, <1>2, <1>3, <1>4, PlaceFacts DEF InStaging

\* A file of the busy job comes to another status.
LEMMA StatusStep ==
    ASSUME Structure, NEW f, Turn(f), NEW status \in Statuses, Becomes(f, status),
           UNCHANGED <<queue, busy, world, known, available, removed>>,
           disk' \in [Places -> Content], staged' \in [Places -> {"none", "part", "new"}],
           failures' \in 0 .. MaxFailures
    PROVE  Structure'
<1>1. busy # None /\ f \in FilesOf(BusyJob.of)
  BY TurnFacts
<1>2. PICK o \in Ops, n \in Nat \ {0} : busy = <<o, n>>
  BY <1>1 DEF Structure, Typed
<1>3. /\ n \in 1 .. Len(op[o].jobs) /\ BusyLive /\ BusyJob = op[o].jobs[n]
      /\ ~op[o].jobs[n].complete /\ op[o].pc # "idle"
  BY <1>1, <1>2, StructureBusy DEF BusyJob
<1>4. /\ SameJobs /\ op'[o].jobs[n].complete = op[o].jobs[n].complete
      /\ op'[o].jobs[n].status = [op[o].jobs[n].status EXCEPT ![f] = status]
      /\ \A q \in Ops : op'[q].pc = op[q].pc /\ op'[q].thread = op[q].thread
      /\ \A q \in Ops \ {o} : op'[q] = op[q]
      /\ \A q \in Ops : (op'[q].jobs = <<>> <=> op[q].jobs = <<>>)
  BY <1>1, <1>2, <1>3, BecomesFacts DEF Structure
<1>5. \A q \in Ops : \A j \in 1 .. Len(op[q].jobs) :
         /\ op'[q].jobs[j].of = op[q].jobs[j].of /\ op'[q].jobs[j].complete = op[q].jobs[j].complete
         /\ (<<q, j>> # busy => op'[q].jobs[j] = op[q].jobs[j])
  <2> SUFFICES ASSUME NEW q \in Ops, NEW j \in 1 .. Len(op[q].jobs)
               PROVE  /\ op'[q].jobs[j].of = op[q].jobs[j].of /\ op'[q].jobs[j].complete = op[q].jobs[j].complete
                      /\ (<<q, j>> # busy => op'[q].jobs[j] = op[q].jobs[j])
    OBVIOUS
  <2>1. CASE q = o /\ j = n
    BY <2>1, <1>2, <1>4 DEF SameJobs
  <2>2. CASE <<q, j>> # busy
    BY <2>2, <1>4 DEF SameJobs
  <2> QED
    BY <2>1, <2>2, <1>2
<1>6. \A q \in Ops : /\ AtIndex(q)' = AtIndex(q) /\ OnGameThread(q)' = OnGameThread(q)
                     /\ (op[q].pc \in Awaiting => Current(q)'.complete = Current(q).complete
                                                  /\ OfIndex(q)' = OfIndex(q))
  <2> SUFFICES ASSUME NEW q \in Ops
               PROVE  /\ AtIndex(q)' = AtIndex(q) /\ OnGameThread(q)' = OnGameThread(q)
                      /\ (op[q].pc \in Awaiting => Current(q)'.complete = Current(q).complete
                                                   /\ OfIndex(q)' = OfIndex(q))
    OBVIOUS
  <2>1. op'[q].pc = op[q].pc /\ op'[q].k = op[q].k /\ op'[q].thread = op[q].thread
    BY <1>4 DEF SameJobs
  <2>2. op[q].pc \in Awaiting => op[q].k \in 1 .. Len(op[q].jobs)
    BY DEF Structure, ProgressOf
  <2>3. op[q].pc \in Awaiting => Current(q)'.complete = Current(q).complete /\ OfIndex(q)' = OfIndex(q)
    BY <1>5, <2>1, <2>2 DEF Current, OfIndex
  <2> QED
    BY <2>1, <2>3 DEF AtIndex, OnGameThread, Awaiting
<1>7. \A q \in Ops : ProgressOf(q)'
  <2> SUFFICES ASSUME NEW q \in Ops
               PROVE  ProgressOf(q)'
    OBVIOUS
  <2>1. CASE q # o
    BY <2>1, <1>4, ProgressSame DEF Structure
  <2>2. CASE q = o
    <3>1. ProgressOf(o)
      BY DEF Structure
    <3>2. /\ op'[o].pc = op[o].pc /\ op'[o].k = op[o].k /\ op'[o].thread = op[o].thread
          /\ op'[o].packages = op[o].packages /\ op'[o].reported = op[o].reported
          /\ op'[o].result = op[o].result /\ op'[o].modified = op[o].modified
          /\ Len(op'[o].jobs) = Len(op[o].jobs)
          /\ (op'[o].jobs = <<>> <=> op[o].jobs = <<>>)
      BY <1>4 DEF SameJobs
    <3>3. /\ AtIndex(o)' = AtIndex(o)
          /\ (op[o].pc \in Awaiting => Current(o)'.complete = Current(o).complete
                                       /\ OfIndex(o)' = OfIndex(o))
      BY <1>6
    <3>4. \A j \in 1 .. Len(op[o].jobs) : op'[o].jobs[j].of = op[o].jobs[j].of
                                          /\ op'[o].jobs[j].complete = op[o].jobs[j].complete
      BY <1>5
    <3>5. op[o].pc \in Awaiting => \A j \in 1 .. op[o].k - 1 : j \in 1 .. Len(op[o].jobs)
      <4>1. Len(op[o].jobs) \in Nat
        BY DEF Structure, Typed, Operation
      <4> QED
        BY <3>1, <4>1 DEF ProgressOf
    <3> QED
      BY <2>2, <1>3, <3>1, <3>2, <3>3, <3>4, <3>5 DEF ProgressOf, Awaiting
  <2> QED
    BY <2>1, <2>2
<1>8. \A q \in Ops : HonestOf(q)'
  <2> SUFFICES ASSUME NEW q \in Ops, NEW j \in 1 .. Len(op[q].jobs)
               PROVE  LET now == op'[q].jobs[j] IN
                      /\ now.complete => \A g \in FilesOf(now.of) : now.status[g] \notin {"pending", "downloading"}
                      /\ ~now.complete /\ busy # <<q, j>> => \A g \in FilesOf(now.of) : now.status[g] = "pending"
    BY <1>4 DEF HonestOf, SameJobs
  <2>1. CASE busy = <<q, j>>
    BY <2>1, <1>2, <1>3, <1>4
  <2>2. CASE busy # <<q, j>>
    BY <2>2, <1>5 DEF Structure, HonestOf
  <2> QED
    BY <2>1, <2>2
<1>9. \A v \in Ops \X (Nat \ {0}) : Incomplete(v) => Incomplete(v)'
  <2> SUFFICES ASSUME NEW v \in Ops \X (Nat \ {0}), Incomplete(v)
               PROVE  Incomplete(v)'
    OBVIOUS
  <2>1. PICK q \in Ops, j \in Nat \ {0} : v = <<q, j>>
    OBVIOUS
  <2>2. j \in 1 .. Len(op[q].jobs) /\ ~op[q].jobs[j].complete
    BY <2>1 DEF Incomplete
  <2>3. j \in 1 .. Len(op'[q].jobs) /\ ~op'[q].jobs[j].complete
    BY <2>2, <1>4, <1>5 DEF SameJobs
  <2> QED
    BY <2>1, <2>3 DEF Incomplete
<1>10. QueueLive'
  <2>1. \A m \in 1 .. Len(queue) : queue[m] \in Ops \X (Nat \ {0})
    BY DEF Structure, Typed
  <2>2. busy \in Ops \X (Nat \ {0})
    BY <1>2
  <2> QED
    BY <1>9, <2>1, <2>2 DEF Structure, QueueLive
<1>11. Threads'
  BY <1>4 DEF Structure, Threads
<1>12. IndexOrder'
  <2>1. \A a \in Ops : OnGameThread(a)' \/ op'[a].pc = "idle" => \A q \in Ops : q > a => op'[q].pc = "idle"
    BY <1>4, <1>6 DEF Structure, IndexOrder
  <2>2. \A a, q \in Ops : a < q /\ AtIndex(a)' /\ AtIndex(q)' =>
          \E m \in 1 .. Len(queue) :
             queue[m] = <<q, 1>> /\ \A j \in 1 .. Len(queue) : queue[j] = <<a, 1>> => j < m
    BY <1>6 DEF Structure, IndexOrder
  <2>3. \A q \in Ops : AtIndex(q)' /\ Current(q)'.complete => op'[q].thread = "downloader" \/ OnGameThread(q)'
    <3> SUFFICES ASSUME NEW q \in Ops, AtIndex(q)', Current(q)'.complete
                 PROVE  op'[q].thread = "downloader" \/ OnGameThread(q)'
      OBVIOUS
    <3>1. AtIndex(q) /\ Current(q).complete
      BY <1>6 DEF AtIndex
    <3> QED
      BY <3>1, <1>4, <1>6 DEF Structure, IndexOrder
  <2> QED
    BY <2>1, <2>2, <2>3 DEF IndexOrder
<1>13. Typed'
  BY <1>4 DEF Structure, Typed, SameJobs
<1>14. InstallInvariant'
  BY <1>1, StatusKeeps DEF Structure
<1> QED
  BY <1>7, <1>8, <1>10, <1>11, <1>12, <1>13, <1>14 DEF Structure

\* A job is complete with no file left, and resumes its operation alone.
LEMMA CompleteJobStructure ==
    ASSUME Structure, CompleteJob
    PROVE  Structure'
<1>1. /\ busy # None /\ \A f \in FilesOf(BusyJob.of) : ~Unfinished(f)
      /\ busy' = None
      /\ UNCHANGED <<world, disk, staged, known, available, queue, removed, failures>>
  BY DEF CompleteJob
<1>2. PICK o \in Ops, n \in Nat \ {0} : busy = <<o, n>>
  BY <1>1 DEF Structure, Typed
<1>3. /\ n \in 1 .. Len(op[o].jobs) /\ BusyLive /\ BusyJob = op[o].jobs[n]
      /\ ~op[o].jobs[n].complete /\ op[o].pc # "idle"
  BY <1>1, <1>2, StructureBusy DEF BusyJob
<1>4. PICK resumes \in BOOLEAN : resumes = (op[o].pc = "waiting" /\ op[o].k = n)
  OBVIOUS
<1>5. /\ SameJobs /\ op'[o].jobs[n].complete /\ op'[o].jobs[n].status = op[o].jobs[n].status
      /\ \A q \in Ops \ {o} : op'[q] = op[q]
      /\ op'[o].pc = IF resumes THEN "resumed" ELSE op[o].pc
      /\ op'[o].thread = IF resumes THEN "downloader" ELSE op[o].thread
      /\ \A q \in Ops : (op'[q].jobs = <<>> <=> op[q].jobs = <<>>)
  BY <1>2, <1>3, <1>4, CompleteFacts DEF Structure
<1>6. \A j \in 1 .. Len(op[o].jobs) :
         /\ op'[o].jobs[j].of = op[o].jobs[j].of
         /\ (j # n => op'[o].jobs[j] = op[o].jobs[j])
         /\ (op[o].jobs[j].complete => op'[o].jobs[j].complete)
  BY <1>2, <1>5 DEF SameJobs
<1>7. /\ op'[o].k = op[o].k
      /\ op'[o].packages = op[o].packages /\ op'[o].reported = op[o].reported
      /\ op'[o].result = op[o].result /\ op'[o].modified = op[o].modified
      /\ Len(op'[o].jobs) = Len(op[o].jobs)
      /\ (op'[o].jobs = <<>> <=> op[o].jobs = <<>>)
      /\ (op'[o].pc \in Awaiting <=> op[o].pc \in Awaiting)
      /\ (op'[o].pc = "idle" <=> op[o].pc = "idle")
  BY <1>4, <1>5 DEF SameJobs, Awaiting
<1>8. ProgressOf(o) /\ Len(op[o].jobs) \in Nat
  BY DEF Structure, Typed, Operation
<1>9. op[o].pc \in Awaiting => op[o].k \in 1 .. Len(op[o].jobs) /\ OfIndex(o)' = OfIndex(o)
  <2>1. op[o].pc \in Awaiting => op[o].k \in 1 .. Len(op[o].jobs)
    BY <1>8 DEF ProgressOf
  <2> QED
    BY <1>6, <1>7, <2>1 DEF OfIndex, Current
<1>10. AtIndex(o)' = AtIndex(o)
  BY <1>7, <1>9 DEF AtIndex
<1>11. OnGameThread(o)' => OnGameThread(o)
  <2>1. op'[o].thread = "own" => op'[o].pc = op[o].pc /\ op'[o].thread = op[o].thread
    BY <1>5
  <2> QED
    BY <1>9, <2>1 DEF OnGameThread, Awaiting
<1>12. ProgressOf(o)'
  <2>1. op'[o].pc = "waiting" => ~op'[o].jobs[op'[o].k].complete
    BY <1>4, <1>5, <1>6, <1>7, <1>8, <1>9 DEF ProgressOf, Awaiting, Current
  <2>2. op'[o].pc = "resumed" => op'[o].jobs[op'[o].k].complete
    BY <1>4, <1>5, <1>6, <1>7, <1>8, <1>9 DEF ProgressOf, Awaiting, Current
  <2>3. op'[o].pc \in Awaiting => \A j \in 1 .. op'[o].k - 1 : op'[o].jobs[j].complete
    <3> SUFFICES ASSUME op'[o].pc \in Awaiting, NEW j \in 1 .. op[o].k - 1
                 PROVE  op'[o].jobs[j].complete
      BY <1>7
    <3>1. j \in 1 .. Len(op[o].jobs)
      BY <1>7, <1>8, <1>9
    <3> QED
      BY <3>1, <1>6, <1>7, <1>8 DEF ProgressOf
  <2>4. op'[o].pc \notin Awaiting => op'[o].pc = op[o].pc
    BY <1>5 DEF Awaiting
  <2>5. op'[o].pc \in {"reload", "reset"} => \A j \in 1 .. Len(op'[o].jobs) : op'[o].jobs[j].complete
    BY <1>6, <1>7, <1>8, <2>4 DEF ProgressOf, Awaiting
  <2>6. op'[o].pc = "enqueue" => \A j \in 1 .. Len(op'[o].jobs) : op'[o].jobs[j].of \in Packages
    BY <1>6, <1>7, <1>8, <2>4 DEF ProgressOf, Awaiting
  <2>7. op'[o].pc \in Awaiting /\ ~OfIndex(o)' => \A j \in 1 .. Len(op'[o].jobs) : op'[o].jobs[j].of \in Packages
    BY <1>6, <1>7, <1>8, <1>9 DEF ProgressOf
  <2>8. AtIndex(o)' /\ op'[o].pc # "resumed" => op'[o].thread = "own"
    BY <1>5, <1>8, <1>10 DEF ProgressOf
  <2>9. op'[o].pc \in {"select", "check", "ended"} => op'[o].jobs = <<>>
    BY <1>7, <1>8, <2>4 DEF ProgressOf, Awaiting
  <2>10. op'[o].pc \in {"select", "check"} => op'[o].k = 0
    BY <1>7, <1>8, <2>4 DEF ProgressOf, Awaiting
  <2>11. op'[o].pc = "enqueue" => op'[o].k <= 1 /\ Len(op'[o].jobs) < Len(op'[o].packages)
    BY <1>7, <1>8, <2>4 DEF ProgressOf, Awaiting
  <2>12. op'[o].pc \in Awaiting => op'[o].k \in 1 .. Len(op'[o].jobs)
    BY <1>7, <1>9
  <2>13. AtIndex(o)' => Len(op'[o].jobs) = 1 /\ op'[o].k = 1 /\ ~op'[o].reported
    BY <1>7, <1>8, <1>10 DEF ProgressOf
  <2>14. op'[o].pc # "idle" /\ op'[o].result \subseteq op'[o].modified
    BY <1>3, <1>7, <1>8 DEF ProgressOf
  <2> QED
    BY <2>1, <2>2, <2>3, <2>5, <2>6, <2>7, <2>8, <2>9, <2>10, <2>11, <2>12, <2>13, <2>14
    DEF ProgressOf, Current
<1>13. \A q \in Ops \ {o} : ProgressOf(q)'
  BY <1>5, ProgressSame DEF Structure
<1>14. \A q \in Ops : HonestOf(q)'
  <2> SUFFICES ASSUME NEW q \in Ops, NEW j \in 1 .. Len(op[q].jobs)
               PROVE  LET now == op'[q].jobs[j] IN
                      /\ now.complete => \A g \in FilesOf(now.of) : now.status[g] \notin {"pending", "downloading"}
                      /\ ~now.complete => \A g \in FilesOf(now.of) : now.status[g] = "pending"
    BY <1>5 DEF HonestOf, SameJobs
  <2>1. CASE q = o /\ j = n
    <3>1. \A g \in FilesOf(op[o].jobs[n].of) : op[o].jobs[n].status[g] \notin {"pending", "downloading"}
      BY <1>1, <1>3 DEF Unfinished, Status
    <3> QED
      BY <2>1, <3>1, <1>3, <1>5, <1>6
  <2>2. CASE <<q, j>> # busy
    <3>1. op'[q].jobs[j] = op[q].jobs[j]
      BY <2>2, <1>5 DEF SameJobs
    <3> QED
      BY <2>2, <3>1 DEF Structure, HonestOf
  <2> QED
    BY <2>1, <2>2, <1>2
<1>15. QueueLive'
  <2>1. PICK line : line = queue
    OBVIOUS
  <2>2. \A m \in 1 .. Len(line) : line[m] # <<o, n>> /\ Incomplete(line[m])
                                  /\ line[m] \in Ops \X (Nat \ {0})
    BY <1>2, <2>1 DEF Structure, Typed, QueueLive
  <2>3. \A v \in Ops \X (Nat \ {0}) : v # <<o, n>> /\ Incomplete(v) => Incomplete(v)'
    <3> SUFFICES ASSUME NEW v \in Ops \X (Nat \ {0}), v # <<o, n>>, Incomplete(v)
                 PROVE  Incomplete(v)'
      OBVIOUS
    <3>1. PICK q \in Ops, j \in Nat \ {0} : v = <<q, j>>
      OBVIOUS
    <3>2. j \in 1 .. Len(op[q].jobs) /\ ~op[q].jobs[j].complete
      BY <3>1 DEF Incomplete
    <3>3. Len(op'[q].jobs) = Len(op[q].jobs) /\ op'[q].jobs[j] = op[q].jobs[j]
      BY <3>1, <3>2, <1>2, <1>5 DEF SameJobs
    <3> QED
      BY <3>1, <3>2, <3>3 DEF Incomplete
  <2>4. \A m \in 1 .. Len(line) : Incomplete(line[m])' /\ line[m] # None
    BY <2>2, <2>3 DEF None, Ops
  <2>5. \A m, j \in 1 .. Len(line) : line[m] = line[j] => m = j
    BY <2>1 DEF Structure, QueueLive
  <2>6. queue' = line
    BY <1>1, <2>1
  <2> QED
    BY <1>1, <2>4, <2>5, <2>6 DEF QueueLive, Incomplete
<1>16. Threads'
  <2>1. \A q \in Ops : op[q].thread = "own"
    BY <1>1 DEF Structure, Threads, Typed, Operation
  <2>2. \A q \in Ops : q # o => op'[q].thread = "own"
    BY <2>1, <1>5
  <2> QED
    BY <1>1, <2>2 DEF Threads
<1>17. \A q \in Ops : /\ AtIndex(q)' = AtIndex(q) /\ (OnGameThread(q)' => OnGameThread(q))
                      /\ (op'[q].pc = "idle" <=> op[q].pc = "idle")
  <2> TAKE q \in Ops
  <2>1. CASE q = o
    BY <2>1, <1>7, <1>10, <1>11 DEF AtIndex, OnGameThread, OfIndex, Current
  <2>2. CASE q # o
    BY <2>2, <1>5, IndexSame
  <2> QED
    BY <2>1, <2>2
<1>18. IndexOrder'
  <2>1. \A a \in Ops : OnGameThread(a)' \/ op'[a].pc = "idle" => \A q \in Ops : q > a => op'[q].pc = "idle"
    BY <1>17 DEF Structure, IndexOrder
  <2>2. \A a, q \in Ops : a < q /\ AtIndex(a)' /\ AtIndex(q)' =>
          \E m \in 1 .. Len(queue) :
             queue[m] = <<q, 1>> /\ \A j \in 1 .. Len(queue) : queue[j] = <<a, 1>> => j < m
    BY <1>17 DEF Structure, IndexOrder
  <2>3. AtIndex(o)' /\ Current(o)'.complete => op'[o].thread = "downloader" \/ OnGameThread(o)'
    <3> SUFFICES ASSUME AtIndex(o)', ~resumes
                 PROVE  OnGameThread(o)'
      BY <1>5
    <3>1. AtIndex(o) /\ op[o].k = 1 /\ Len(op[o].jobs) = 1
      BY <1>8, <1>10 DEF ProgressOf
    <3>2. n = 1 /\ Current(o) = op[o].jobs[n]
      BY <1>3, <3>1 DEF Current
    <3>3. op[o].pc \in {"ready", "suspend"}
      BY <1>3, <1>4, <1>8, <3>1, <3>2 DEF ProgressOf, AtIndex, Awaiting
    <3>4. op[o].thread = "own"
      BY <1>8, <3>1, <3>3 DEF ProgressOf
    <3>5. OfIndex(o)'
      BY DEF AtIndex
    <3> QED
      BY <1>5, <3>3, <3>4, <3>5 DEF OnGameThread
  <2>4. \A q \in Ops : AtIndex(q)' /\ Current(q)'.complete => op'[q].thread = "downloader" \/ OnGameThread(q)'
    <3> TAKE q \in Ops
    <3>1. CASE q = o
      BY <3>1, <2>3
    <3>2. CASE q # o
      BY <3>2, <1>5, IndexSame DEF Structure, IndexOrder
    <3> QED
      BY <3>1, <3>2
  <2> QED
    BY <1>1, <2>1, <2>2, <2>4 DEF IndexOrder
<1>19. Typed'
  BY <1>1, <1>5 DEF Structure, Typed, SameJobs
<1>20. InstallInvariant'
  BY CompleteJobKeeps DEF Structure
<1> QED
  BY <1>12, <1>13, <1>14, <1>15, <1>16, <1>18, <1>19, <1>20 DEF Structure

\* Each turn of the download loop ends in another status of a file.
LEMMA DownloadStructure ==
    ASSUME Structure, Download
    PROVE  Structure'
<1>1. CASE TakeJob
  BY <1>1, TakeJobStructure
<1>2. CASE CompleteJob
  BY <1>2, CompleteJobStructure
<1>3. ASSUME NEW f, NotModified(f) \/ Receive(f) \/ Finish(f) \/ Fail(f)
      PROVE  Structure'
  <2>1. Turn(f) /\ UNCHANGED <<queue, busy, world, disk, known, available, removed>>
    BY <1>3 DEF NotModified, Receive, Finish, Fail
  <2>2. PICK status \in Statuses : Becomes(f, status)
    BY <1>3 DEF NotModified, Receive, Finish, Fail, Statuses
  <2>3. staged' \in [Places -> {"none", "part", "new"}]
    <3>1. staged \in [Places -> {"none", "part", "new"}]
      BY DEF Structure, Typed
    <3> QED
      BY <3>1, <1>3 DEF NotModified, Receive, Finish, Fail
  <2>4. failures' \in 0 .. MaxFailures
    <3>1. failures \in 0 .. MaxFailures /\ MaxFailures \in Nat
      BY PackageInstallAssumption DEF Structure, Typed
    <3> QED
      BY <3>1, <1>3 DEF NotModified, Receive, Finish, Fail
  <2>5. disk' \in [Places -> Content]
    BY <2>1 DEF Structure, Typed
  <2> QED
    BY <2>1, <2>2, <2>3, <2>4, <2>5, StatusStep
<1> QED
  BY <1>1, <1>2, <1>3 DEF Download

\* The order of the indices is one of the operations and the queue.
LEMMA OrderSame ==
    ASSUME Structure, \A o \in Ops : op'[o] = op[o], queue' = queue
    PROVE  IndexOrder'
<1>1. \A o \in Ops : AtIndex(o)' = AtIndex(o) /\ OnGameThread(o)' = OnGameThread(o) /\ Current(o)' = Current(o)
  BY IndexSame
<1>2. \A a \in Ops : OnGameThread(a)' \/ op'[a].pc = "idle" => \A q \in Ops : q > a => op'[q].pc = "idle"
  BY <1>1 DEF Structure, IndexOrder
<1>3. \A a, q \in Ops : a < q /\ AtIndex(a)' /\ AtIndex(q)' =>
          \E n \in 1 .. Len(queue) :
             queue[n] = <<q, 1>> /\ \A m \in 1 .. Len(queue) : queue[m] = <<a, 1>> => m < n
  BY <1>1 DEF Structure, IndexOrder
<1>4. \A o \in Ops : AtIndex(o)' /\ Current(o)'.complete => op'[o].thread = "downloader" \/ OnGameThread(o)'
  BY <1>1 DEF Structure, IndexOrder
<1> QED
  BY <1>2, <1>3, <1>4 DEF IndexOrder

\* An uninstall changes no operation.
LEMMA UninstallStructure ==
    ASSUME Structure, NEW p \in Packages, Uninstall(p)
    PROVE  Structure'
<1>1. /\ disk' = [x \in Places |-> IF x[1] = p THEN "none" ELSE disk[x]]
      /\ known' = [known EXCEPT ![p] = "none"] /\ removed' = removed \cup {p}
      /\ UNCHANGED <<world, staged, available, op, queue, busy, failures>>
  BY DEF Uninstall
<1>2. Typed'
  <2>1. disk' \in [Places -> Content]
    BY <1>1 DEF Structure, Typed, Content
  <2> QED
    BY <1>1, <2>1 DEF Structure, Typed
<1>3. InstallInvariant'
  BY <1>1 DEF Structure, InstallInvariant, Shape, QueueShape, JobsKept, AwaitsOne
<1>4. \A o \in Ops : ProgressOf(o)' /\ HonestOf(o)'
  BY <1>1, ProgressSame DEF Structure, HonestOf
<1>5. QueueLive' /\ Threads'
  BY <1>1 DEF Structure, QueueLive, Incomplete, Threads
<1>6. IndexOrder'
  <2>1. \A o \in Ops : op'[o] = op[o]
    BY <1>1
  <2> QED
    BY <1>1, <2>1, OrderSame
<1> QED
  BY <1>2, <1>3, <1>4, <1>5, <1>6 DEF Structure

\* Every step keeps the structure.
LEMMA StepStructure ==
    ASSUME Structure, [Next]_vars
    PROVE  Structure'
<1>1. CASE \E o \in Ops, c \in Commands : Begin(o, c)
  BY <1>1, BeginStructure
<1>2. CASE \E p \in Packages : Uninstall(p)
  BY <1>2, UninstallStructure
<1>3. CASE \E o \in Ops : Step(o)
  BY <1>3, AwaitReadyStructure, AwaitSuspendStructure, ApplyIndexStructure, ReloadStructure,
     SelectStructure, EnqueueStructure, ApplyPackageStructure, ResetStructure, CheckStructure
  DEF Step
<1>4. CASE Download
  BY <1>4, DownloadStructure
<1>5. CASE UNCHANGED vars
  <2>1. UNCHANGED <<world, disk, staged, known, available, op, queue, busy, removed, failures>>
    BY <1>5 DEF vars
  <2>2. Typed' /\ InstallInvariant'
    BY <2>1 DEF Structure, Typed, InstallInvariant, Shape, QueueShape, JobsKept, AwaitsOne
  <2>3. \A o \in Ops : ProgressOf(o)' /\ HonestOf(o)'
    BY <2>1, ProgressSame DEF Structure, HonestOf
  <2>4. QueueLive' /\ Threads'
    BY <2>1 DEF Structure, QueueLive, Incomplete, Threads
  <2>5. IndexOrder'
    <3>1. \A o \in Ops : op'[o] = op[o]
      BY <2>1
    <3> QED
      BY <2>1, <3>1, OrderSame
  <2> QED
    BY <2>2, <2>3, <2>4, <2>5 DEF Structure
<1> QED
  BY <1>1, <1>2, <1>3, <1>4, <1>5 DEF Next

\* It is there at the start, with nothing begun.
LEMMA InitialStructure ==
    ASSUME Init
    PROVE  Structure
<1>1. /\ world \in Worlds /\ queue = <<>> /\ busy = None /\ failures = 0 /\ removed = {}
      /\ disk = [x \in Places |-> IF x[1] = Index THEN world.index
                                  ELSE IF x[1] \in world.installed THEN "old" ELSE "none"]
      /\ staged = [x \in Places |-> "none"]
      /\ known = FromDisk(disk) /\ available = "none"
      /\ op = [o \in Ops |-> Idle]
  BY DEF Init
<1>2. Typed
  <2>1. op \in [Ops -> Operation]
    BY <1>1, IdleTyped
  <2>2. disk \in [Places -> Content] /\ staged \in [Places -> {"none", "part", "new"}]
    <3>1. world.index \in {"none", "old"}
      BY <1>1, PackageInstallAssumption DEF World
    <3> QED
      BY <1>1, <3>1 DEF Content
  <2>3. known \in [Packages -> {"none", "old", "new"}]
    BY <1>1 DEF FromDisk
  <2>4. failures \in 0 .. MaxFailures
    BY <1>1, PackageInstallAssumption
  <2>5. queue \in Seq(Ops \X (Nat \ {0}))
    BY <1>1
  <2> QED
    BY <1>1, <2>1, <2>2, <2>3, <2>4, <2>5 DEF Typed
<1>3. InstallInvariant
  BY InitiallyInvariant
<1>4. \A o \in Ops : op[o] = Idle /\ op[o].pc = "idle" /\ op[o].jobs = <<>> /\ op[o].thread = "own"
                     /\ op[o].result = {}
  BY <1>1, IdleTyped
<1>5. Len(<<>>) = 0 /\ 1 .. 0 = {}
  OBVIOUS
<1>6. \A o \in Ops : ~AtIndex(o) /\ ~OnGameThread(o)
  BY <1>4 DEF AtIndex, OnGameThread, Awaiting
<1>7. \A o \in Ops : ProgressOf(o)
  BY <1>4, <1>6 DEF ProgressOf, Awaiting
<1>8. \A o \in Ops : HonestOf(o)
  BY <1>4, <1>5 DEF HonestOf
<1>9. QueueLive /\ Threads
  <2>1. Len(queue) = 0
    BY <1>1
  <2> QED
    BY <1>1, <1>4, <2>1 DEF QueueLive, Threads
<1>10. IndexOrder
  BY <1>4, <1>6 DEF IndexOrder
<1> QED
  BY <1>2, <1>3, <1>7, <1>8, <1>9, <1>10 DEF Structure

\* For all operations, worlds, failures and removals: the jobs of an operation are complete
\* up to the one it awaits, a job in the queue has begun nothing, the thread of the
\* downloader runs at most one coroutine, and indices are downloaded in the order in which
\* install_or_update was entered.
THEOREM StructureHolds == Spec => []Structure
<1>1. Init => Structure
  BY InitialStructure
<1>2. Structure /\ [Next]_vars => Structure'
  BY StepStructure
<1> QED
  BY <1>1, <1>2, PTL DEF Spec

\* For the same: the variables are what the code keeps in them, a coroutine awaits a job it
\* has, only the one that was resumed last is on the thread of the downloader, and what
\* install_or_update answers was modified by it.
THEOREM TypeHolds == Spec => []TypeOK
<1>1. Structure => TypeOK
  <2> SUFFICES ASSUME Structure
               PROVE  TypeOK
    OBVIOUS
  <2>1. /\ world \in Worlds
        /\ disk \in [Places -> Content] /\ staged \in [Places -> {"none", "part", "new"}]
        /\ known \in [Packages -> {"none", "old", "new"}]
        /\ available \in {"none", "old", "new"}
        /\ removed \subseteq Packages /\ failures \in 0 .. MaxFailures
    BY DEF Structure, Typed
  <2>2. \A i \in 1 .. Len(queue) : queue[i][1] \in Ops /\ queue[i][2] \in 1 .. Len(op[queue[i][1]].jobs)
    <3>1. \A i \in 1 .. Len(queue) : queue[i] \in Ops \X (Nat \ {0}) /\ Incomplete(queue[i])
      BY DEF Structure, Typed, QueueLive
    <3> QED
      BY <3>1 DEF Incomplete
  <2>3. busy # None => busy[2] \in 1 .. Len(op[busy[1]].jobs) /\ ~BusyJob.complete
    BY StructureBusy
  <2>4. ASSUME NEW o \in Ops
        PROVE  /\ op[o].pc \in {"idle", "ready", "suspend", "waiting", "resumed", "reload", "select",
                                "enqueue", "reset", "check", "ended"}
               /\ op[o].pc \in {"ready", "suspend", "waiting", "resumed"} => op[o].k \in 1 .. Len(op[o].jobs)
               /\ op[o].thread = "downloader" =>
                     busy = None /\ \A q \in Ops \ {o} : op[q].thread = "own"
               /\ op[o].result \subseteq op[o].modified
    <3>1. op[o].pc \in Stages
      BY DEF Structure, Typed, Operation
    <3>2. ProgressOf(o)
      BY DEF Structure
    <3>3. op[o].pc \in Awaiting => op[o].k \in 1 .. Len(op[o].jobs)
      BY <3>2 DEF ProgressOf
    <3>4. op[o].result \subseteq op[o].modified
      BY <3>2 DEF ProgressOf
    <3> QED
      BY <3>1, <3>3, <3>4 DEF Structure, Threads, Stages, Awaiting
  <2> QED
    BY <2>1, <2>2, <2>3, <2>4 DEF TypeOK
<1> QED
  BY <1>1, StructureHolds, PTL

-----------------------------------------------------------------------------
(***************************************************************************)
(* What is on its way                                                      *)
(***************************************************************************)
\* The operation has not come to the files of the job yet.
Owed(o, i) ==
    /\ i \in 1 .. Len(op[o].jobs) /\ i >= op[o].k
    /\ op[o].pc \in Awaiting \cup {"enqueue"}

\* A job for the target that is owed has the file with this status.
Seen(t, f, s) ==
    \E o \in Ops : \E i \in 1 .. Len(op[o].jobs) :
        Owed(o, i) /\ op[o].jobs[i].of = t /\ op[o].jobs[i].status[f] = s

\* Something was reported, or will be.
Doomed ==
    \/ \E o \in Ops : op[o].reported
    \/ \E t \in Targets : \E f \in FilesOf(t) : Seen(t, f, "error")

\* The file is in place as published, or will be if nothing fails.
Coming(t, f) == disk[<<t, f>>] = "new" \/ \E s \in {"pending", "downloading", "complete"} : Seen(t, f, s)
AllComing(p) == \A f \in FilesOf(p) : Coming(p, f)

\* What nobody is promised: it was uninstalled, or a manifest of the user overrides it.
Exempt == removed \cup world.overridden
Manifest(p) == disk[<<p, "manifest.xml">>]

\* A staged file belongs to a job that is owed, and is torn only while it is written.
StagedWell ==
    \A t \in Targets : \A f \in FilesOf(t) :
        /\ staged[<<t, f>>] = "part" => Open(<<t, f>>)
        /\ staged[<<t, f>>] # "none" => \E s \in {"downloading", "complete"} : Seen(t, f, s)

\* A file was skipped because it is in place, or comes with another job.
SkippedWell ==
    \A t \in Targets : \A f \in FilesOf(t) :
        Seen(t, f, "skipped") => t # Index /\ (t \in removed \/ Coming(t, f))

\* A new manifest means that the other file is in place or on its way.
ListedWell ==
    \A p \in Packages \ Exempt :
        /\ Manifest(p) = "new" => AllComing(p)
        /\ known[p] = "new" => AllComing(p)
        /\ known[p] # "none" => Manifest(p) # "none"

FilesOnTheirWay == StagedWell /\ SkippedWell /\ ListedWell

-----------------------------------------------------------------------------
(***************************************************************************)
(* How the steps change what is seen                                       *)
(***************************************************************************)
\* The same is seen after the step.
SeenSame == \A t, f, s : Seen(t, f, s)' <=> Seen(t, f, s)

\* What is owed, with its status, decides what is seen.
LEMMA SameSeen ==
    ASSUME \A o \in Ops : \A i : Owed(o, i)' <=> Owed(o, i),
           \A o \in Ops : \A i : Owed(o, i) => /\ op'[o].jobs[i].of = op[o].jobs[i].of
                                               /\ op'[o].jobs[i].status = op[o].jobs[i].status
    PROVE  SeenSame
<1> SUFFICES ASSUME NEW t, NEW f, NEW s
             PROVE  Seen(t, f, s)' <=> Seen(t, f, s)
  BY DEF SeenSame
<1>1. ASSUME Seen(t, f, s)
      PROVE  Seen(t, f, s)'
  <2>1. PICK o \in Ops : \E i \in 1 .. Len(op[o].jobs) :
           Owed(o, i) /\ op[o].jobs[i].of = t /\ op[o].jobs[i].status[f] = s
    BY <1>1 DEF Seen
  <2>2. PICK i \in 1 .. Len(op[o].jobs) : Owed(o, i) /\ op[o].jobs[i].of = t /\ op[o].jobs[i].status[f] = s
    BY <2>1
  <2>3. Owed(o, i)'
    BY <2>2
  <2>4. i \in 1 .. Len(op'[o].jobs)
    BY <2>3 DEF Owed
  <2>5. op'[o].jobs[i].of = t /\ op'[o].jobs[i].status[f] = s
    BY <2>2
  <2> QED
    BY <2>3, <2>4, <2>5 DEF Seen
<1>2. ASSUME Seen(t, f, s)'
      PROVE  Seen(t, f, s)
  <2>1. PICK o \in Ops : \E i \in 1 .. Len(op'[o].jobs) :
           Owed(o, i)' /\ op'[o].jobs[i].of = t /\ op'[o].jobs[i].status[f] = s
    BY <1>2 DEF Seen
  <2>2. PICK i \in 1 .. Len(op'[o].jobs) : Owed(o, i)' /\ op'[o].jobs[i].of = t /\ op'[o].jobs[i].status[f] = s
    BY <2>1
  <2>3. Owed(o, i)
    BY <2>2
  <2>4. i \in 1 .. Len(op[o].jobs)
    BY <2>3 DEF Owed
  <2>5. op[o].jobs[i].of = t /\ op[o].jobs[i].status[f] = s
    BY <2>2, <2>3
  <2> QED
    BY <2>3, <2>4, <2>5 DEF Seen
<1> QED
  BY <1>1, <1>2

\* One operation goes on, and no job comes, goes or changes.
LEMMA OneSame ==
    ASSUME NEW o \in Ops, OthersSame(o),
           \/ /\ op'[o].jobs = op[o].jobs /\ op'[o].k = op[o].k
              /\ op[o].pc \in Awaiting /\ op'[o].pc \in Awaiting
           \/ /\ op[o].pc \notin Awaiting \cup {"enqueue"}
              /\ op'[o].pc \notin Awaiting \cup {"enqueue"} \/ op'[o].jobs = <<>>
    PROVE  SeenSame
<1>1. \A q \in Ops \ {o} : op'[q] = op[q]
  BY DEF OthersSame
<1>2. \A q \in Ops \ {o} : \A i : Owed(q, i)' <=> Owed(q, i)
  BY <1>1 DEF Owed
<1>3. \A i : Owed(o, i)' <=> Owed(o, i)
  <2>1. CASE op'[o].jobs = <<>> /\ op[o].pc \notin Awaiting \cup {"enqueue"}
    <3>1. 1 .. Len(op'[o].jobs) = {}
      BY <2>1
    <3> QED
      BY <2>1, <3>1 DEF Owed
  <2>2. CASE op[o].pc \notin Awaiting \cup {"enqueue"} /\ op'[o].pc \notin Awaiting \cup {"enqueue"}
    BY <2>2 DEF Owed
  <2>3. CASE op'[o].jobs = op[o].jobs /\ op'[o].k = op[o].k
             /\ op[o].pc \in Awaiting /\ op'[o].pc \in Awaiting
    BY <2>3 DEF Owed
  <2> QED
    BY <2>1, <2>2, <2>3
<1>4. \A i : Owed(o, i) => op'[o].jobs = op[o].jobs
  BY DEF Owed
<1>5. \A q \in Ops : \A i : Owed(q, i)' <=> Owed(q, i)
  <2> SUFFICES ASSUME NEW q \in Ops, NEW i
               PROVE  Owed(q, i)' <=> Owed(q, i)
    OBVIOUS
  <2>1. CASE q = o
    <3>1. Owed(o, i)' <=> Owed(o, i)
      BY <1>3
    <3> QED
      BY <2>1, <3>1 DEF Owed
  <2>2. CASE q # o
    BY <2>2, <1>2
  <2> QED
    BY <2>1, <2>2
<1>6. \A q \in Ops : \A i : Owed(q, i) => /\ op'[q].jobs[i].of = op[q].jobs[i].of
                                          /\ op'[q].jobs[i].status = op[q].jobs[i].status
  <2> SUFFICES ASSUME NEW q \in Ops, NEW i, Owed(q, i)
               PROVE  op'[q].jobs = op[q].jobs
    BY Zenon
  <2>1. CASE q = o
    BY <2>1, <1>4
  <2>2. CASE q # o
    BY <2>2, <1>1
  <2> QED
    BY <2>1, <2>2
<1> QED
  BY <1>5, <1>6, SameSeen

\* A job is added, with all of its files pending.
SeenMore(job) ==
    \A t, f, s : Seen(t, f, s)' <=> Seen(t, f, s) \/ (job.of = t /\ job.status[f] = s)

\* A job that is added is owed.
LEMMA AddSeen ==
    ASSUME NEW o \in Ops, OthersSame(o), NEW job, Len(op[o].jobs) \in Nat,
           Len(op'[o].jobs) = Len(op[o].jobs) + 1, op'[o].jobs[Len(op[o].jobs) + 1] = job,
           \A j \in 1 .. Len(op[o].jobs) : op'[o].jobs[j] = op[o].jobs[j],
           op'[o].k = 1, op'[o].pc \in Awaiting \cup {"enqueue"},
           (op[o].pc = "enqueue" /\ op[o].k \in Nat /\ op[o].k <= 1) \/ Len(op[o].jobs) = 0
    PROVE  SeenMore(job)
<1>1. PICK n \in Nat : n = Len(op[o].jobs)
  OBVIOUS
<1>2. \A i : Owed(o, i)' <=> i \in 1 .. n + 1
  BY <1>1 DEF Owed
<1>3. \A i : Owed(o, i) <=> i \in 1 .. n
  BY <1>1 DEF Owed
<1>4. n + 1 \in 1 .. n + 1 /\ \A i \in 1 .. n + 1 : i \in 1 .. n \/ i = n + 1
  OBVIOUS
<1> SUFFICES ASSUME NEW t, NEW f, NEW s
             PROVE  Seen(t, f, s)' <=> Seen(t, f, s) \/ (job.of = t /\ job.status[f] = s)
  BY DEF SeenMore
<1>5. ASSUME job.of = t, job.status[f] = s
      PROVE  Seen(t, f, s)'
  <2>1. n + 1 \in 1 .. Len(op'[o].jobs) /\ Owed(o, n + 1)' /\ op'[o].jobs[n + 1] = job
    BY <1>1, <1>2, <1>4
  <2> QED
    BY <1>5, <2>1 DEF Seen
<1>6. ASSUME Seen(t, f, s)
      PROVE  Seen(t, f, s)'
  <2>1. PICK q \in Ops : \E i \in 1 .. Len(op[q].jobs) :
           Owed(q, i) /\ op[q].jobs[i].of = t /\ op[q].jobs[i].status[f] = s
    BY <1>6 DEF Seen
  <2>2. PICK i \in 1 .. Len(op[q].jobs) : Owed(q, i) /\ op[q].jobs[i].of = t /\ op[q].jobs[i].status[f] = s
    BY <2>1
  <2>3. CASE q = o
    <3>1. i \in 1 .. n /\ i \in 1 .. n + 1
      BY <2>2, <2>3, <1>1
    <3>2. Owed(o, i)' /\ i \in 1 .. Len(op'[o].jobs) /\ op'[o].jobs[i] = op[o].jobs[i]
      BY <1>1, <1>2, <3>1
    <3> QED
      BY <2>2, <2>3, <3>2 DEF Seen
  <2>4. CASE q # o
    <3>1. op'[q] = op[q]
      BY <2>4 DEF OthersSame
    <3> QED
      BY <2>2, <3>1 DEF Seen, Owed
  <2> QED
    BY <2>3, <2>4
<1>7. ASSUME Seen(t, f, s)'
      PROVE  Seen(t, f, s) \/ (job.of = t /\ job.status[f] = s)
  <2>1. PICK q \in Ops : \E i \in 1 .. Len(op'[q].jobs) :
           Owed(q, i)' /\ op'[q].jobs[i].of = t /\ op'[q].jobs[i].status[f] = s
    BY <1>7 DEF Seen
  <2>2. PICK i \in 1 .. Len(op'[q].jobs) : Owed(q, i)' /\ op'[q].jobs[i].of = t /\ op'[q].jobs[i].status[f] = s
    BY <2>1
  <2>3. CASE q = o /\ i = n + 1
    BY <1>1, <2>2, <2>3
  <2>4. CASE q = o /\ i # n + 1
    <3>1. i \in 1 .. n
      BY <1>1, <1>4, <2>2, <2>4
    <3>2. Owed(o, i) /\ i \in 1 .. Len(op[o].jobs) /\ op'[o].jobs[i] = op[o].jobs[i]
      BY <1>1, <1>3, <3>1
    <3> QED
      BY <2>2, <2>4, <3>2 DEF Seen
  <2>5. CASE q # o
    <3>1. op'[q] = op[q]
      BY <2>5 DEF OthersSame
    <3> QED
      BY <2>2, <3>1 DEF Seen, Owed
  <2> QED
    BY <2>3, <2>4, <2>5
<1> QED
  BY <1>5, <1>6, <1>7

\* The operation has come to the files of its current job.
SeenLess(job) ==
    \A t, f, s : /\ Seen(t, f, s)' => Seen(t, f, s)
                 /\ Seen(t, f, s) => Seen(t, f, s)' \/ (job.of = t /\ job.status[f] = s)

\* An operation that goes on to the next job is no longer owed the last.
LEMMA ApplySeen ==
    ASSUME NEW o \in Ops, OthersSame(o), op[o].pc \in Awaiting, op[o].k \in Nat, op'[o].jobs = op[o].jobs,
           \/ op'[o].pc \notin Awaiting \cup {"enqueue"} /\ op[o].k >= Len(op[o].jobs)
           \/ op'[o].pc \in Awaiting /\ op'[o].k = op[o].k + 1,
           Len(op[o].jobs) \in Nat
    PROVE  SeenLess(Current(o))
<1>1. \A i : Owed(o, i)' <=> Owed(o, i) /\ i # op[o].k
  <2>1. \A i \in 1 .. Len(op[o].jobs) : i >= op[o].k + 1 <=> i >= op[o].k /\ i # op[o].k
    OBVIOUS
  <2>2. op[o].k >= Len(op[o].jobs) => \A i \in 1 .. Len(op[o].jobs) : i >= op[o].k => i = op[o].k
    OBVIOUS
  <2> QED
    BY <2>1, <2>2 DEF Owed
<1>2. \A q \in Ops \ {o} : op'[q] = op[q]
  BY DEF OthersSame
<1> SUFFICES ASSUME NEW t, NEW f, NEW s
             PROVE  /\ Seen(t, f, s)' => Seen(t, f, s)
                    /\ Seen(t, f, s) => Seen(t, f, s)' \/ (Current(o).of = t /\ Current(o).status[f] = s)
  BY DEF SeenLess
<1>3. ASSUME Seen(t, f, s)'
      PROVE  Seen(t, f, s)
  <2>1. PICK q \in Ops : \E i \in 1 .. Len(op'[q].jobs) :
           Owed(q, i)' /\ op'[q].jobs[i].of = t /\ op'[q].jobs[i].status[f] = s
    BY <1>3 DEF Seen
  <2>2. PICK i \in 1 .. Len(op'[q].jobs) : Owed(q, i)' /\ op'[q].jobs[i].of = t /\ op'[q].jobs[i].status[f] = s
    BY <2>1
  <2>3. CASE q = o
    <3>1. Owed(o, i)'
      BY <2>2, <2>3 DEF Owed
    <3>2. Owed(o, i)
      BY <3>1, <1>1
    <3> QED
      BY <2>2, <2>3, <3>2 DEF Seen
  <2>4. CASE q # o
    <3>1. op'[q] = op[q]
      BY <2>4, <1>2
    <3> QED
      BY <2>2, <3>1 DEF Seen, Owed
  <2> QED
    BY <2>3, <2>4
<1>4. ASSUME Seen(t, f, s)
      PROVE  Seen(t, f, s)' \/ (Current(o).of = t /\ Current(o).status[f] = s)
  <2>1. PICK q \in Ops : \E i \in 1 .. Len(op[q].jobs) :
           Owed(q, i) /\ op[q].jobs[i].of = t /\ op[q].jobs[i].status[f] = s
    BY <1>4 DEF Seen
  <2>2. PICK i \in 1 .. Len(op[q].jobs) : Owed(q, i) /\ op[q].jobs[i].of = t /\ op[q].jobs[i].status[f] = s
    BY <2>1
  <2>3. CASE q = o /\ i = op[o].k
    BY <2>2, <2>3 DEF Current
  <2>4. CASE q = o /\ i # op[o].k
    <3>1. Owed(o, i)'
      BY <2>2, <2>4, <1>1
    <3> QED
      BY <2>2, <2>4, <3>1 DEF Seen
  <2>5. CASE q # o
    <3>1. op'[q] = op[q]
      BY <2>5, <1>2
    <3> QED
      BY <2>2, <3>1 DEF Seen, Owed
  <2> QED
    BY <2>3, <2>4, <2>5
<1> QED
  BY <1>3, <1>4

\* The job in hand is owed: it is not complete, and those before the awaited one are.
LEMMA BusyOwed ==
    ASSUME Structure, busy # None
    PROVE  Owed(busy[1], busy[2])
<1>1. /\ busy[1] \in Ops /\ busy[2] \in Nat \ {0} /\ busy[2] \in 1 .. Len(op[busy[1]].jobs)
      /\ ~op[busy[1]].jobs[busy[2]].complete
  BY StructureBusy DEF BusyJob
<1>2. PICK o \in Ops, n \in Nat \ {0} : o = busy[1] /\ n = busy[2]
  BY <1>1
<1>3. ProgressOf(o) /\ op[o].pc \in Stages /\ op[o].k \in Nat
  BY DEF Structure, Typed, Operation
<1>4. n \in 1 .. Len(op[o].jobs) /\ ~op[o].jobs[n].complete
  BY <1>1, <1>2
<1>5. op[o].pc \notin {"idle", "select", "check", "ended"}
  <2>1. op[o].jobs # <<>>
    <3>1. Len(<<>>) = 0
      OBVIOUS
    <3> QED
      BY <1>4, <3>1
  <2> QED
    BY <1>3, <2>1, IdleTyped DEF ProgressOf
<1>6. op[o].pc \notin {"reload", "reset"}
  BY <1>3, <1>4 DEF ProgressOf
<1>7. op[o].pc \in Awaiting \cup {"enqueue"}
  BY <1>3, <1>5, <1>6 DEF Stages
<1>8. n >= op[o].k
  <2>1. op[o].pc = "enqueue" => op[o].k <= 1
    BY <1>3 DEF ProgressOf
  <2>2. op[o].pc \in Awaiting => n \notin 1 .. op[o].k - 1
    BY <1>3, <1>4 DEF ProgressOf
  <2> QED
    BY <1>3, <1>7, <2>1, <2>2
<1> QED
  BY <1>2, <1>4, <1>7, <1>8 DEF Owed

\* The job of the index that is owed is the only job of its operation.
LEMMA IndexJob ==
    ASSUME Structure, NEW o \in Ops, NEW i, Owed(o, i), op[o].jobs[i].of = Index
    PROVE  AtIndex(o) /\ i = 1 /\ op[o].k = 1 /\ Current(o) = op[o].jobs[1]
<1>1. ProgressOf(o)
  BY DEF Structure
<1>2. i \in 1 .. Len(op[o].jobs) /\ op[o].pc \in Awaiting \cup {"enqueue"}
  BY DEF Owed
<1>3. op[o].jobs[i].of \notin Packages
  BY FilesFacts
<1>4. op[o].pc # "enqueue"
  BY <1>1, <1>2, <1>3 DEF ProgressOf
<1>5. AtIndex(o)
  BY <1>1, <1>2, <1>3, <1>4 DEF ProgressOf, AtIndex
<1>6. Len(op[o].jobs) = 1 /\ op[o].k = 1
  BY <1>1, <1>5 DEF ProgressOf
<1> QED
  BY <1>2, <1>5, <1>6 DEF Current

\* The staging directory has no index when the download of one is asked for.
LEMMA IndexNotStaged ==
    ASSUME Structure, busy # None, BusyJob.of = Index, NEW f \in FilesOf(Index), Status(f) = "pending",
           NEW s \in {"downloading", "complete"}, Seen(Index, f, s)
    PROVE  FALSE
<1>1. PICK b \in Ops, n \in Nat \ {0} : busy = <<b, n>>
  BY DEF Structure, Typed
<1>2. Owed(b, n) /\ op[b].jobs[n] = BusyJob /\ ~BusyJob.complete
  BY <1>1, BusyOwed, StructureBusy DEF BusyJob
<1>3. AtIndex(b) /\ n = 1
  BY <1>2, IndexJob
<1>4. PICK o \in Ops : \E i \in 1 .. Len(op[o].jobs) :
         Owed(o, i) /\ op[o].jobs[i].of = Index /\ op[o].jobs[i].status[f] = s
  BY DEF Seen
<1>5. PICK i \in 1 .. Len(op[o].jobs) : Owed(o, i) /\ op[o].jobs[i].of = Index /\ op[o].jobs[i].status[f] = s
  BY <1>4
<1>6. AtIndex(o) /\ i = 1 /\ Current(o) = op[o].jobs[1] /\ 1 \in 1 .. Len(op[o].jobs)
  BY <1>5, IndexJob
<1>7. o # b
  BY <1>2, <1>3, <1>5, <1>6 DEF Status
<1>8. Current(o).complete
  <2>1. busy # <<o, 1>>
    BY <1>1, <1>7
  <2> QED
    BY <1>5, <1>6, <2>1 DEF Structure, HonestOf
<1>9. OnGameThread(o)
  <2>1. op[o].thread # "downloader"
    BY DEF Structure, Threads
  <2> QED
    BY <1>6, <1>8, <2>1 DEF Structure, IndexOrder
<1>10. b < o
  <2>1. op[b].pc # "idle"
    BY <1>3 DEF AtIndex, Awaiting
  <2>2. ~(b > o)
    BY <1>9, <2>1 DEF Structure, IndexOrder
  <2> QED
    BY <1>7, <2>2 DEF Ops
<1>11. PICK m \in 1 .. Len(queue) : queue[m] = <<o, 1>>
  BY <1>3, <1>6, <1>10 DEF Structure, IndexOrder
<1>12. Incomplete(<<o, 1>>)
  BY <1>11 DEF Structure, QueueLive
<1> QED
  BY <1>6, <1>8, <1>12 DEF Incomplete

\* A file of the busy job comes from one status to another.
SeenTurns(t0, f0, old, new) ==
    /\ \A t \in Targets : \A f \in FilesOf(t) : \A s :
          Seen(t, f, s)' => Seen(t, f, s) \/ (t = t0 /\ f = f0 /\ s = new)
    /\ \A t \in Targets : \A f \in FilesOf(t) : \A s :
          Seen(t, f, s) => Seen(t, f, s)' \/ (t = t0 /\ f = f0 /\ s = old)
    /\ Seen(t0, f0, old) /\ Seen(t0, f0, new)'

\* A turn of the download loop changes the status of one file, of one job.
LEMMA TurnSeen ==
    ASSUME Structure, NEW f0, Turn(f0), NEW new \in Statuses, Becomes(f0, new), busy' = busy,
           NEW t0, BusyJob.of = t0, NEW old, Status(f0) = old
    PROVE  /\ SeenTurns(t0, f0, old, new)
           /\ \A t \in Targets : \A f \in FilesOf(t) :
                 Open(<<t, f>>)' <=> IF t = t0 /\ f = f0 THEN new = "downloading" ELSE Open(<<t, f>>)
<1>1. busy # None /\ f0 \in FilesOf(t0)
  BY TurnFacts
<1>2. PICK b \in Ops, n \in Nat \ {0} : busy = <<b, n>>
  BY <1>1 DEF Structure, Typed
<1>3. /\ n \in 1 .. Len(op[b].jobs) /\ BusyLive /\ BusyJob = op[b].jobs[n] /\ Owed(b, n)
  BY <1>1, <1>2, StructureBusy, BusyOwed DEF BusyJob
<1>4. /\ SameJobs
      /\ op'[b].jobs[n].status = [op[b].jobs[n].status EXCEPT ![f0] = new]
      /\ op[b].jobs[n] \in JobRecord
      /\ \A q \in Ops : op'[q].pc = op[q].pc
  BY <1>1, <1>2, <1>3, BecomesFacts DEF Structure
<1>5. \A q \in Ops : \A i : Owed(q, i)' <=> Owed(q, i)
  BY <1>4 DEF Owed, SameJobs
<1>6. \A q \in Ops : \A i \in 1 .. Len(op[q].jobs) : <<q, i>> # <<b, n>> => op'[q].jobs[i] = op[q].jobs[i]
  BY <1>2, <1>4 DEF SameJobs
<1>7. op'[b].jobs[n].of = t0 /\ op[b].jobs[n].of = t0
  BY <1>3, <1>4 DEF SameJobs
<1>8. \A f \in FilesOf(t0) : op'[b].jobs[n].status[f] = IF f = f0 THEN new ELSE op[b].jobs[n].status[f]
  <2>1. op[b].jobs[n].status \in [FilesOf(t0) -> Statuses]
    BY <1>4, <1>7 DEF JobRecord
  <2> QED
    BY <1>4, <2>1
<1>9. op[b].jobs[n].status[f0] = old
  BY <1>3 DEF Status
<1>10. \A q \in Ops : Len(op'[q].jobs) = Len(op[q].jobs)
  BY <1>4 DEF SameJobs
<1>11. Seen(t0, f0, old)
  BY <1>3, <1>7, <1>9 DEF Seen
<1>12. Seen(t0, f0, new)'
  <2>1. Owed(b, n)' /\ n \in 1 .. Len(op'[b].jobs)
    BY <1>3, <1>5, <1>10
  <2> QED
    BY <1>1, <1>7, <1>8, <2>1 DEF Seen
<1>13. ASSUME NEW t \in Targets, NEW f \in FilesOf(t), NEW s, Seen(t, f, s)', ~(t = t0 /\ f = f0 /\ s = new)
       PROVE  Seen(t, f, s)
  <2>1. PICK q \in Ops : \E i \in 1 .. Len(op'[q].jobs) :
           Owed(q, i)' /\ op'[q].jobs[i].of = t /\ op'[q].jobs[i].status[f] = s
    BY <1>13 DEF Seen
  <2>2. PICK i \in 1 .. Len(op'[q].jobs) : Owed(q, i)' /\ op'[q].jobs[i].of = t /\ op'[q].jobs[i].status[f] = s
    BY <2>1
  <2>3. Owed(q, i) /\ i \in 1 .. Len(op[q].jobs)
    BY <2>2, <1>5, <1>10
  <2>4. op[q].jobs[i].of = t /\ op[q].jobs[i].status[f] = s
    <3>1. CASE <<q, i>> = <<b, n>>
      BY <3>1, <1>7, <1>8, <1>13, <2>2
    <3>2. CASE <<q, i>> # <<b, n>>
      BY <3>2, <1>6, <2>2, <2>3
    <3> QED
      BY <3>1, <3>2
  <2> QED
    BY <2>3, <2>4 DEF Seen
<1>14. ASSUME NEW t \in Targets, NEW f \in FilesOf(t), NEW s, Seen(t, f, s), ~(t = t0 /\ f = f0 /\ s = old)
       PROVE  Seen(t, f, s)'
  <2>1. PICK q \in Ops : \E i \in 1 .. Len(op[q].jobs) :
           Owed(q, i) /\ op[q].jobs[i].of = t /\ op[q].jobs[i].status[f] = s
    BY <1>14 DEF Seen
  <2>2. PICK i \in 1 .. Len(op[q].jobs) : Owed(q, i) /\ op[q].jobs[i].of = t /\ op[q].jobs[i].status[f] = s
    BY <2>1
  <2>3. Owed(q, i)' /\ i \in 1 .. Len(op'[q].jobs)
    BY <2>2, <1>5, <1>10
  <2>4. op'[q].jobs[i].of = t /\ op'[q].jobs[i].status[f] = s
    <3>1. CASE <<q, i>> = <<b, n>>
      BY <3>1, <1>7, <1>8, <1>9, <1>14, <2>2
    <3>2. CASE <<q, i>> # <<b, n>>
      BY <3>2, <1>6, <2>2
    <3> QED
      BY <3>1, <3>2
  <2> QED
    BY <2>3, <2>4 DEF Seen
<1>15. ASSUME NEW t \in Targets, NEW f \in FilesOf(t)
       PROVE  Open(<<t, f>>)' <=> IF t = t0 /\ f = f0 THEN new = "downloading" ELSE Open(<<t, f>>)
  <2>1. Open(<<t, f>>) <=> t = t0 /\ op[b].jobs[n].status[f] = "downloading"
    BY <1>1, <1>2, <1>7 DEF Open, BusyJob, Status
  <2>2. Open(<<t, f>>)' <=> t = t0 /\ op'[b].jobs[n].status[f] = "downloading"
    BY <1>1, <1>2, <1>7 DEF Open, BusyJob, Status
  <2> QED
    BY <1>8, <2>1, <2>2
<1> QED
  BY <1>11, <1>12, <1>13, <1>14, <1>15 DEF SeenTurns

\* A job that is complete has the files it had.
LEMMA CompleteSeen ==
    ASSUME Structure, CompleteJob
    PROVE  SeenSame
<1>1. busy # None
  BY DEF CompleteJob
<1>2. PICK b \in Ops, n \in Nat \ {0} : busy = <<b, n>>
  BY <1>1 DEF Structure, Typed
<1>3. BusyLive /\ BusyJob = op[b].jobs[n]
  BY <1>1, <1>2, StructureBusy DEF BusyJob
<1>4. /\ SameJobs /\ op'[b].jobs[n].status = op[b].jobs[n].status
      /\ \A q \in Ops \ {b} : op'[q] = op[q]
      /\ op'[b].pc = IF op[b].pc = "waiting" /\ op[b].k = n THEN "resumed" ELSE op[b].pc
  BY <1>2, <1>3, CompleteFacts DEF Structure
<1>5. \A q \in Ops : op'[q].pc \in Awaiting \cup {"enqueue"} <=> op[q].pc \in Awaiting \cup {"enqueue"}
  <2>1. op'[b].pc \in Awaiting \cup {"enqueue"} <=> op[b].pc \in Awaiting \cup {"enqueue"}
    BY <1>4 DEF Awaiting
  <2> QED
    BY <1>4, <2>1
<1>6. \A q \in Ops : \A i : Owed(q, i)' <=> Owed(q, i)
  BY <1>4, <1>5 DEF Owed, SameJobs
<1>7. \A q \in Ops : \A i : Owed(q, i) => /\ op'[q].jobs[i].of = op[q].jobs[i].of
                                          /\ op'[q].jobs[i].status = op[q].jobs[i].status
  <2> SUFFICES ASSUME NEW q \in Ops, NEW i, Owed(q, i)
               PROVE  /\ op'[q].jobs[i].of = op[q].jobs[i].of
                      /\ op'[q].jobs[i].status = op[q].jobs[i].status
    OBVIOUS
  <2>1. i \in 1 .. Len(op[q].jobs)
    BY DEF Owed
  <2>2. op'[q].jobs[i].of = op[q].jobs[i].of /\ (<<q, i>> # busy => op'[q].jobs[i] = op[q].jobs[i])
    BY <1>4, <2>1 DEF SameJobs
  <2> QED
    BY <1>2, <1>4, <2>2
<1> QED
  BY <1>6, <1>7, SameSeen

\* A step of an operation leaves what the downloader has open.
LEMMA OpenSame ==
    ASSUME Structure, NEW o \in Ops, OthersSame(o), busy' = busy,
           op[o].pc \in Awaiting \cup {"enqueue"} =>
              \A j \in 1 .. Len(op[o].jobs) : op'[o].jobs[j] = op[o].jobs[j]
    PROVE  \A x : Open(x)' <=> Open(x)
<1>1. CASE busy = None
  BY <1>1 DEF Open
<1>2. CASE busy # None
  <2>1. PICK b \in Ops, n \in Nat \ {0} : busy = <<b, n>>
    BY <1>2 DEF Structure, Typed
  <2>2. Owed(b, n)
    BY <1>2, <2>1, BusyOwed
  <2>3. op'[b].jobs[n] = op[b].jobs[n]
    <3>1. CASE b = o
      BY <2>2, <3>1 DEF Owed
    <3>2. CASE b # o
      BY <3>2 DEF OthersSame
    <3> QED
      BY <3>1, <3>2
  <2> QED
    BY <2>1, <2>3 DEF Open, BusyJob, Status
<1> QED
  BY <1>1, <1>2

-----------------------------------------------------------------------------
(***************************************************************************)
(* What is staged, skipped and listed is on its way                        *)
(***************************************************************************)
\* What was coming still is, and what was in place is not lost.
Kept ==
    /\ \A t \in Targets : \A f \in FilesOf(t) : t \notin removed' /\ Coming(t, f) => Coming(t, f)'
    /\ \A p \in Packages \ Exempt' : Manifest(p) # "none" => Manifest(p)' # "none"

\* A package that was coming still is.
LEMMA KeptAll ==
    ASSUME Kept, NEW p \in Packages \ Exempt', AllComing(p)
    PROVE  AllComing(p)'
<1>1. p \in Targets /\ p \notin removed'
  BY DEF Targets, Exempt
<1> QED
  BY <1>1 DEF Kept, AllComing

\* What is listed is only read again from the disk.
LEMMA ListedStays ==
    ASSUME ListedWell, Kept, UNCHANGED world, removed \subseteq removed',
           \A p \in Packages \ Exempt' : Manifest(p)' = "new" => AllComing(p)',
           \/ known' = FromDisk(disk) /\ disk' = disk
           \/ \A p \in Packages \ Exempt' : known'[p] = known[p]
    PROVE  ListedWell'
<1> SUFFICES ASSUME NEW p \in Packages \ Exempt'
             PROVE  /\ Manifest(p)' = "new" => AllComing(p)'
                    /\ known'[p] = "new" => AllComing(p)'
                    /\ known'[p] # "none" => Manifest(p)' # "none"
  BY DEF ListedWell
<1>1. p \in Packages \ Exempt /\ p \notin world.overridden
  BY DEF Exempt
<1>2. CASE known' = FromDisk(disk) /\ disk' = disk
  <2>1. known'[p] = IF Manifest(p) \in {"old", "new"} THEN Manifest(p) ELSE "none"
    BY <1>1, <1>2 DEF FromDisk, Manifest
  <2>2. Manifest(p)' = Manifest(p)
    BY <1>2 DEF Manifest
  <2> QED
    BY <2>1, <2>2
<1>3. CASE known'[p] = known[p]
  <2>1. /\ known[p] = "new" => AllComing(p)
        /\ known[p] # "none" => Manifest(p) # "none"
    BY <1>1 DEF ListedWell
  <2>2. known[p] = "new" => AllComing(p)'
    BY <2>1, KeptAll
  <2>3. Manifest(p) # "none" => Manifest(p)' # "none"
    BY DEF Kept
  <2> QED
    BY <1>3, <2>1, <2>2, <2>3
<1> QED
  BY <1>2, <1>3

\* No file changes, but one may be removed from the staging directory; jobs may come.
LEMMA FilesStay ==
    ASSUME FilesOnTheirWay, UNCHANGED <<world, disk, removed>>, known' \in {known, FromDisk(disk)},
           \A t \in Targets : \A f \in FilesOf(t) :
              /\ staged'[<<t, f>>] \in {staged[<<t, f>>], "none"}
              /\ Open(<<t, f>>) => Open(<<t, f>>)'
              /\ Seen(t, f, "skipped")' => Seen(t, f, "skipped")
              /\ \A s \in Statuses : Seen(t, f, s) => Seen(t, f, s)'
    PROVE  FilesOnTheirWay' /\ Kept
<1>1. \A t \in Targets : \A f \in FilesOf(t) : Coming(t, f) => Coming(t, f)'
  BY DEF Coming, Statuses
<1>2. Kept
  BY <1>1 DEF Kept, Manifest
<1>3. StagedWell'
  <2> SUFFICES ASSUME NEW t \in Targets, NEW f \in FilesOf(t)
               PROVE  /\ staged'[<<t, f>>] = "part" => Open(<<t, f>>)'
                      /\ staged'[<<t, f>>] # "none" => \E s \in {"downloading", "complete"} : Seen(t, f, s)'
    BY DEF StagedWell
  <2>1. /\ staged[<<t, f>>] = "part" => Open(<<t, f>>)
        /\ staged[<<t, f>>] # "none" => \E s \in {"downloading", "complete"} : Seen(t, f, s)
    BY DEF FilesOnTheirWay, StagedWell
  <2>2. \A s \in {"downloading", "complete"} : Seen(t, f, s) => Seen(t, f, s)'
    BY DEF Statuses
  <2>3. staged'[<<t, f>>] \in {staged[<<t, f>>], "none"}
    OBVIOUS
  <2>4. Open(<<t, f>>) => Open(<<t, f>>)'
    OBVIOUS
  <2>5. staged'[<<t, f>>] = "part" => Open(<<t, f>>)'
    BY <2>1, <2>3, <2>4
  <2> QED
    BY <2>1, <2>2, <2>3, <2>5
<1>4. SkippedWell'
  <2> SUFFICES ASSUME NEW t \in Targets, NEW f \in FilesOf(t), Seen(t, f, "skipped")'
               PROVE  t # Index /\ (t \in removed' \/ Coming(t, f)')
    BY DEF SkippedWell
  <2>1. Seen(t, f, "skipped")
    OBVIOUS
  <2> QED
    BY <1>1, <2>1 DEF FilesOnTheirWay, SkippedWell
<1>5. ListedWell'
  <2>1. \A p \in Packages \ Exempt' : Manifest(p)' = "new" => AllComing(p)'
    <3> SUFFICES ASSUME NEW p \in Packages \ Exempt', Manifest(p)' = "new"
                 PROVE  AllComing(p)'
      OBVIOUS
    <3>1. p \in Packages \ Exempt /\ Manifest(p) = "new"
      BY DEF Exempt, Manifest
    <3> QED
      BY <3>1, <1>2, KeptAll DEF FilesOnTheirWay, ListedWell
  <2>2. ListedWell /\ removed \subseteq removed'
    BY DEF FilesOnTheirWay
  <2> QED
    BY <1>2, <2>1, <2>2, ListedStays
<1> QED
  BY <1>2, <1>3, <1>4, <1>5 DEF FilesOnTheirWay

\* What becomes of the staged file.
StagedTurns(t0, f0, new) ==
    /\ \A t \in Targets : \A f \in FilesOf(t) :
          /\ Open(<<t, f>>)' <=> IF t = t0 /\ f = f0 THEN new = "downloading" ELSE Open(<<t, f>>)
          /\ t # t0 \/ f # f0 => staged'[<<t, f>>] = staged[<<t, f>>]
    /\ \E s \in {"downloading", "complete"} : Seen(t0, f0, s)'
    /\ staged'[<<t0, f0>>] = "part" => new = "downloading"
    /\ new = "skipped" => t0 # Index

\* A file that turns to another status, and its staged file with it.
LEMMA FilesTurn ==
    ASSUME FilesOnTheirWay, UNCHANGED <<world, disk, removed, known>>,
           NEW t0 \in Targets, NEW f0 \in FilesOf(t0), NEW old \in {"pending", "downloading"}, NEW new,
           SeenTurns(t0, f0, old, new), StagedTurns(t0, f0, new)
    PROVE  FilesOnTheirWay' /\ Kept
<1>0. /\ \A t \in Targets : \A f \in FilesOf(t) :
            /\ Open(<<t, f>>)' <=> IF t = t0 /\ f = f0 THEN new = "downloading" ELSE Open(<<t, f>>)
            /\ t # t0 \/ f # f0 => staged'[<<t, f>>] = staged[<<t, f>>]
      /\ \E s \in {"downloading", "complete"} : Seen(t0, f0, s)'
      /\ staged'[<<t0, f0>>] = "part" => new = "downloading"
      /\ new = "skipped" => t0 # Index
  BY DEF StagedTurns
<1>1. \A t \in Targets : \A f \in FilesOf(t) : Coming(t, f) => Coming(t, f)'
  <2> SUFFICES ASSUME NEW t \in Targets, NEW f \in FilesOf(t), Coming(t, f)
               PROVE  Coming(t, f)'
    OBVIOUS
  <2>1. CASE t = t0 /\ f = f0
    <3>1. Coming(t0, f0)'
      BY <1>0 DEF Coming
    <3> QED
      BY <2>1, <3>1 DEF Coming, Seen, Owed
  <2>2. CASE ~(t = t0 /\ f = f0)
    <3>1. \A s : Seen(t, f, s) => Seen(t, f, s)'
      BY <2>2 DEF SeenTurns
    <3> QED
      BY <3>1 DEF Coming
  <2> QED
    BY <2>1, <2>2
<1>2. Kept
  BY <1>1 DEF Kept, Manifest
<1>3. StagedWell'
  <2> SUFFICES ASSUME NEW t \in Targets, NEW f \in FilesOf(t)
               PROVE  /\ staged'[<<t, f>>] = "part" => Open(<<t, f>>)'
                      /\ staged'[<<t, f>>] # "none" => \E s \in {"downloading", "complete"} : Seen(t, f, s)'
    BY DEF StagedWell
  <2>1. CASE t = t0 /\ f = f0
    <3>1. PICK s \in {"downloading", "complete"} : Seen(t0, f0, s)'
      BY <1>0
    <3>2. Seen(t, f, s)'
      BY <2>1, <3>1 DEF Seen, Owed
    <3>3. staged'[<<t, f>>] = "part" => new = "downloading"
      BY <1>0, <2>1
    <3>4. Open(<<t, f>>)' <=> new = "downloading"
      BY <1>0, <2>1
    <3> QED
      BY <3>2, <3>3, <3>4
  <2>2. CASE ~(t = t0 /\ f = f0)
    <3>1. staged'[<<t, f>>] = staged[<<t, f>>]
      BY <1>0, <2>2
    <3>2. Open(<<t, f>>)' <=> Open(<<t, f>>)
      BY <1>0, <2>2
    <3>3. \A s : Seen(t, f, s) => Seen(t, f, s)'
      BY <2>2 DEF SeenTurns
    <3>4. /\ staged[<<t, f>>] = "part" => Open(<<t, f>>)
          /\ staged[<<t, f>>] # "none" => \E s \in {"downloading", "complete"} : Seen(t, f, s)
      BY DEF FilesOnTheirWay, StagedWell
    <3> QED
      BY <3>1, <3>2, <3>3, <3>4
  <2> QED
    BY <2>1, <2>2
<1>4. SkippedWell'
  <2> SUFFICES ASSUME NEW t \in Targets, NEW f \in FilesOf(t), Seen(t, f, "skipped")'
               PROVE  t # Index /\ (t \in removed' \/ Coming(t, f)')
    BY DEF SkippedWell
  <2>1. CASE Seen(t, f, "skipped")
    BY <1>1, <2>1 DEF FilesOnTheirWay, SkippedWell
  <2>2. CASE t = t0 /\ f = f0 /\ new = "skipped"
    <3>1. Coming(t0, f0)'
      BY <1>0 DEF Coming
    <3>2. Coming(t, f)'
      BY <2>2, <3>1 DEF Coming, Seen, Owed
    <3> QED
      BY <1>0, <2>2, <3>2
  <2> QED
    BY <2>1, <2>2 DEF SeenTurns
<1>5. ListedWell'
  <2>1. \A p \in Packages \ Exempt' : Manifest(p)' = "new" => AllComing(p)'
    <3> SUFFICES ASSUME NEW p \in Packages \ Exempt', Manifest(p)' = "new"
                 PROVE  AllComing(p)'
      OBVIOUS
    <3>1. p \in Packages \ Exempt /\ Manifest(p) = "new"
      BY DEF Exempt, Manifest
    <3> QED
      BY <3>1, <1>2, KeptAll DEF FilesOnTheirWay, ListedWell
  <2>2. ListedWell /\ removed \subseteq removed'
    BY DEF FilesOnTheirWay
  <2> QED
    BY <1>2, <2>1, <2>2, ListedStays
<1> QED
  BY <1>2, <1>3, <1>4, <1>5 DEF FilesOnTheirWay

\* The files of a job are in place once it is applied.
LEMMA FilesApplied ==
    ASSUME Structure, FilesOnTheirWay, UNCHANGED <<world, removed, known>>, NEW o \in Ops, NEW job,
           job \in JobRecord, Owed(o, op[o].k), Current(o) = job,
           Moved(job), AllGood(job), Movable(job) = Arrived(job), SeenLess(job),
           \A x : Open(x)' <=> Open(x)
    PROVE  /\ FilesOnTheirWay' /\ Kept
           /\ \A f \in FilesOf(job.of) : job.status[f] = "complete" => disk'[<<job.of, f>>] = "new"
           /\ \A f \in FilesOf(job.of) : job.status[f] = "skipped" => Seen(job.of, f, "skipped")
<1>1. PICK t0 \in Targets : t0 = job.of
  BY DEF JobRecord, JobSet
<1>2. PICK arrived : arrived = Arrived(job)
  OBVIOUS
<1>3. /\ disk' = [x \in Places |-> IF x \in arrived THEN staged[x] ELSE disk[x]]
      /\ staged' = [x \in Places |-> IF x \in arrived THEN "none" ELSE staged[x]]
  BY <1>2 DEF Moved
<1>4. \A t \in Targets : \A f \in FilesOf(t) :
         /\ <<t, f>> \in Places
         /\ <<t, f>> \in arrived <=> t = t0 /\ job.status[f] = "complete"
  <2> SUFFICES ASSUME NEW t \in Targets, NEW f \in FilesOf(t)
               PROVE  <<t, f>> \in Places /\ (<<t, f>> \in arrived <=> t = t0 /\ job.status[f] = "complete")
    BY Zenon
  <2>1. arrived = {<<t0, g>> : g \in {h \in FilesOf(t0) : job.status[h] = "complete"}}
    BY <1>1, <1>2 DEF Arrived
  <2> QED
    BY <2>1, PlaceFacts
<1>5. \A t \in Targets : \A f \in FilesOf(t) : <<t, f>> \in arrived => staged[<<t, f>>] = "new"
  <2> SUFFICES ASSUME NEW t \in Targets, NEW f \in FilesOf(t), <<t, f>> \in arrived
               PROVE  staged[<<t, f>>] = "new"
    OBVIOUS
  <2>1. staged[<<t, f>>] # "none" /\ ~Open(<<t, f>>)
    BY <1>2 DEF Movable
  <2>2. staged[<<t, f>>] \in {"none", "part", "new"}
    BY <1>4 DEF Structure, Typed
  <2> QED
    BY <2>1, <2>2 DEF FilesOnTheirWay, StagedWell
<1>6. \A t \in Targets : \A f \in FilesOf(t) :
         /\ <<t, f>> \in arrived => disk'[<<t, f>>] = "new" /\ staged'[<<t, f>>] = "none"
         /\ <<t, f>> \notin arrived => disk'[<<t, f>>] = disk[<<t, f>>] /\ staged'[<<t, f>>] = staged[<<t, f>>]
  BY <1>3, <1>4, <1>5
<1>7. \A f \in FilesOf(t0) : job.status[f] \in {"complete", "skipped"}
  BY <1>1 DEF AllGood, Good
<1>8. \A t \in Targets : \A f \in FilesOf(t) : Coming(t, f) => Coming(t, f)'
  <2> SUFFICES ASSUME NEW t \in Targets, NEW f \in FilesOf(t), Coming(t, f), <<t, f>> \notin arrived
               PROVE  Coming(t, f)'
    BY <1>6 DEF Coming
  <2>1. CASE disk[<<t, f>>] = "new"
    BY <2>1, <1>6 DEF Coming
  <2>2. ASSUME NEW s \in {"pending", "downloading", "complete"}, Seen(t, f, s)
        PROVE  Coming(t, f)'
    <3>1. ~(t = t0 /\ job.status[f] = s)
      BY <2>2, <1>4, <1>7
    <3>2. Seen(t, f, s)'
      BY <2>2, <3>1, <1>1 DEF SeenLess
    <3> QED
      BY <3>2 DEF Coming
  <2> QED
    BY <2>1, <2>2 DEF Coming
<1>9. Kept
  <2>1. \A p \in Packages \ Exempt' : Manifest(p) # "none" => Manifest(p)' # "none"
    <3> TAKE p \in Packages \ Exempt'
    <3>1. p \in Targets /\ "manifest.xml" \in FilesOf(p)
      BY FilesFacts DEF Targets
    <3> QED
      BY <3>1, <1>6 DEF Manifest
  <2> QED
    BY <1>8, <2>1 DEF Kept
<1>10. StagedWell'
  <2> SUFFICES ASSUME NEW t \in Targets, NEW f \in FilesOf(t)
               PROVE  /\ staged'[<<t, f>>] = "part" => Open(<<t, f>>)'
                      /\ staged'[<<t, f>>] # "none" => \E s \in {"downloading", "complete"} : Seen(t, f, s)'
    BY DEF StagedWell
  <2>1. CASE <<t, f>> \in arrived
    BY <2>1, <1>6
  <2>2. CASE <<t, f>> \notin arrived
    <3>1. staged'[<<t, f>>] = staged[<<t, f>>]
      BY <2>2, <1>6
    <3>2. /\ staged[<<t, f>>] = "part" => Open(<<t, f>>)
          /\ staged[<<t, f>>] # "none" => \E s \in {"downloading", "complete"} : Seen(t, f, s)
      BY DEF FilesOnTheirWay, StagedWell
    <3>3. \A s \in {"downloading", "complete"} : Seen(t, f, s) => Seen(t, f, s)'
      <4> SUFFICES ASSUME NEW s \in {"downloading", "complete"}, Seen(t, f, s)
                   PROVE  Seen(t, f, s)'
        OBVIOUS
      <4>1. ~(t = t0 /\ job.status[f] = s)
        BY <2>2, <1>4, <1>7
      <4> QED
        BY <4>1, <1>1 DEF SeenLess
    <3>4. Open(<<t, f>>)' <=> Open(<<t, f>>)
      OBVIOUS
    <3> QED
      BY <3>1, <3>2, <3>3, <3>4
  <2> QED
    BY <2>1, <2>2
<1>11. SkippedWell'
  <2> SUFFICES ASSUME NEW t \in Targets, NEW f \in FilesOf(t), Seen(t, f, "skipped")'
               PROVE  t # Index /\ (t \in removed' \/ Coming(t, f)')
    BY DEF SkippedWell
  <2>1. Seen(t, f, "skipped")
    BY DEF SeenLess
  <2> QED
    BY <1>8, <2>1 DEF FilesOnTheirWay, SkippedWell
<1>12. \A f \in FilesOf(t0) : job.status[f] = "skipped" => Seen(t0, f, "skipped")
  <2> SUFFICES ASSUME NEW f \in FilesOf(t0), job.status[f] = "skipped"
               PROVE  Seen(t0, f, "skipped")
    OBVIOUS
  <2>1. op[o].k \in 1 .. Len(op[o].jobs) /\ op[o].jobs[op[o].k] = job
    BY DEF Owed, Current
  <2> QED
    BY <1>1, <2>1 DEF Seen
<1>13. ListedWell'
  <2>1. \A p \in Packages \ Exempt' : Manifest(p)' = "new" => AllComing(p)'
    <3> SUFFICES ASSUME NEW p \in Packages \ Exempt', Manifest(p)' = "new"
                 PROVE  AllComing(p)'
      OBVIOUS
    <3>1. p \in Targets /\ p \notin removed' /\ p \in Packages \ Exempt /\ "manifest.xml" \in FilesOf(p)
      BY FilesFacts DEF Exempt, Targets
    <3>2. CASE <<p, "manifest.xml">> \in arrived
      <4>1. p = t0
        BY <3>1, <3>2, <1>4
      <4> SUFFICES ASSUME NEW f \in FilesOf(p)
                   PROVE  Coming(p, f)'
        BY DEF AllComing
      <4>2. CASE job.status[f] = "complete"
        BY <3>1, <4>1, <4>2, <1>4, <1>6 DEF Coming
      <4>3. CASE job.status[f] = "skipped"
        <5>1. Seen(p, f, "skipped")
          BY <4>1, <4>3, <1>12
        <5>2. Coming(p, f)
          BY <3>1, <5>1 DEF FilesOnTheirWay, SkippedWell
        <5> QED
          BY <3>1, <5>2, <1>8
      <4> QED
        BY <4>1, <4>2, <4>3, <1>7
    <3>3. CASE <<p, "manifest.xml">> \notin arrived
      <4>1. Manifest(p) = "new"
        BY <3>1, <3>3, <1>6 DEF Manifest
      <4>2. AllComing(p)
        BY <3>1, <4>1 DEF FilesOnTheirWay, ListedWell
      <4> QED
        BY <4>2, <1>9, KeptAll
    <3> QED
      BY <3>2, <3>3
  <2>2. ListedWell /\ removed \subseteq removed'
    BY DEF FilesOnTheirWay
  <2> QED
    BY <1>9, <2>1, <2>2, ListedStays
<1>14. \A f \in FilesOf(t0) : job.status[f] = "complete" => disk'[<<t0, f>>] = "new"
  BY <1>4, <1>6
<1> QED
  BY <1>1, <1>9, <1>10, <1>11, <1>12, <1>13, <1>14 DEF FilesOnTheirWay

\* An uninstall takes what is exempt from then on.
LEMMA FilesUninstalled ==
    ASSUME Structure, FilesOnTheirWay, NEW p \in Packages, Uninstall(p)
    PROVE  FilesOnTheirWay' /\ Kept
<1>1. /\ disk' = [x \in Places |-> IF x[1] = p THEN "none" ELSE disk[x]]
      /\ known' = [known EXCEPT ![p] = "none"] /\ removed' = removed \cup {p}
      /\ UNCHANGED <<world, staged, available, op, queue, busy, failures>>
  BY DEF Uninstall
<1>2. \A t, f, s : Seen(t, f, s)' <=> Seen(t, f, s)
  BY <1>1 DEF Seen, Owed
<1>3. \A x : Open(x)' <=> Open(x)
  BY <1>1 DEF Open, BusyJob, Status
<1>4. \A t \in Targets : \A f \in FilesOf(t) : t # p => disk'[<<t, f>>] = disk[<<t, f>>]
  BY <1>1, PlaceFacts
<1>5. \A t \in Targets : \A f \in FilesOf(t) : t \notin removed' /\ Coming(t, f) => Coming(t, f)'
  BY <1>1, <1>2, <1>4 DEF Coming
<1>6. \A q \in Packages \ Exempt' : q # p /\ q \in Targets /\ "manifest.xml" \in FilesOf(q) /\ q \in Packages \ Exempt
  BY <1>1, FilesFacts DEF Exempt, Targets
<1>7. \A q \in Packages \ Exempt' : Manifest(q)' = Manifest(q)
  BY <1>4, <1>6 DEF Manifest
<1>8. Kept
  BY <1>5, <1>7 DEF Kept
<1>9. StagedWell'
  BY <1>1, <1>2, <1>3 DEF FilesOnTheirWay, StagedWell
<1>10. SkippedWell'
  <2> SUFFICES ASSUME NEW t \in Targets, NEW f \in FilesOf(t), Seen(t, f, "skipped")'
               PROVE  t # Index /\ (t \in removed' \/ Coming(t, f)')
    BY DEF SkippedWell
  <2>1. t # Index /\ (t \in removed \/ Coming(t, f))
    BY <1>2 DEF FilesOnTheirWay, SkippedWell
  <2> QED
    BY <1>1, <1>5, <2>1
<1>11. ListedWell'
  <2>1. \A q \in Packages \ Exempt' : Manifest(q)' = "new" => AllComing(q)'
    <3> TAKE q \in Packages \ Exempt'
    <3>1. Manifest(q) = "new" => AllComing(q)
      BY <1>6 DEF FilesOnTheirWay, ListedWell
    <3> QED
      BY <3>1, <1>7, <1>8, KeptAll
  <2>2. \A q \in Packages \ Exempt' : known'[q] = known[q]
    BY <1>1, <1>6 DEF Structure, Typed
  <2>3. ListedWell /\ removed \subseteq removed' /\ UNCHANGED world
    BY <1>1 DEF FilesOnTheirWay
  <2> QED
    BY <1>8, <2>1, <2>2, <2>3, ListedStays
<1> QED
  BY <1>8, <1>9, <1>10, <1>11 DEF FilesOnTheirWay

-----------------------------------------------------------------------------
(***************************************************************************)
(* What is asked for is on its way                                         *)
(***************************************************************************)
\* What some names come to in a world, by an index; and by the published one.
VisitsIn(w, index) ==
    LET visits[p \in Packages] ==
            IF index # "none" /\ p \in w.published
            THEN <<p>> \o FlattenSeq([i \in 1 .. Len(w.listed[p]) |->
                                         visits[Reverse(w.listed[p])[i]]])
            ELSE <<p>>
    IN visits

VisitedIn(w, index, names) == FlattenSeq([i \in 1 .. Len(names) |-> VisitsIn(w, index)[names[i]]])

Wanted(w, names) == Packages \cap ToSet(VisitedIn(w, "new", names))

\* The operation is still to look whether the package is out of date.
ToSelect(o, p) ==
    (AtIndex(o) \/ op[o].pc \in {"reload", "select"}) /\ p \in Wanted(world, op[o].names)

\* The operation is still to queue the package.
ToEnqueue(o, p) ==
    op[o].pc = "enqueue" /\ \E i \in DOMAIN op[o].packages : i > Len(op[o].jobs) /\ op[o].packages[i] = p

\* What was asked for is on its way, or there.
Served(o, p) ==
    IF p \in world.published THEN ToSelect(o, p) \/ ToEnqueue(o, p) \/ AllComing(p)
    ELSE ToSelect(o, p) \/ Manifest(p) # "none"

\* This holds of all the operation was asked for, and of what that depends on.
AskedOf(o) == \A p \in Wanted(world, op[o].asked) \ Exempt : Served(o, p)

\* The published index is in place.
IndexInPlace == disk[<<Index, "packages.xml">>] = "new"

\* An operation that has applied the index goes by the published one.
IndexNewOf(o) ==
    /\ op[o].pc = "reload" => IndexInPlace
    /\ op[o].pc \notin {"idle", "reload"} /\ ~AtIndex(o) => available = "new"

\* Everything is on its way.
OnItsWay == FilesOnTheirWay /\ \A o \in Ops : IndexNewOf(o) /\ AskedOf(o)

\* Unless something is doomed to be reported, everything is on its way.
DeliveryInvariant == Structure /\ (~Doomed => OnItsWay)

\* What is reported, or will be, stays so.
LEMMA DoomedSame ==
    ASSUME \A o \in Ops : op[o].reported => op'[o].reported,
           \A t \in Targets : \A f \in FilesOf(t) : Seen(t, f, "error") => Seen(t, f, "error")'
    PROVE  Doomed => Doomed'
<1>1. ASSUME NEW o \in Ops, op[o].reported
      PROVE  Doomed'
  BY <1>1 DEF Doomed
<1>2. ASSUME NEW t \in Targets, NEW f \in FilesOf(t), Seen(t, f, "error")
      PROVE  Doomed'
  BY <1>2 DEF Doomed
<1> QED
  BY <1>1, <1>2 DEF Doomed

\* When the published index is read, out_of_date comes to what is wanted.
LEMMA VisitedWanted ==
    ASSUME world \in Worlds, available = "new", NEW names \in Seq(Packages)
    PROVE  ToSet(Visited(names)) = Wanted(world, names)
<1>1. Visits = VisitsIn(world, available)
  BY DEF Visits, VisitsIn, Available
<1>2. Visited(names) = VisitedIn(world, available, names)
  BY <1>1 DEF Visited, VisitedIn
<1>3. Visited(names) = VisitedIn(world, "new", names)
  BY <1>2
<1>4. Visited(names) \in Seq(Packages)
  BY VisitedFacts
<1>5. ToSet(Visited(names)) \subseteq Packages
  BY <1>4 DEF ToSet
<1> QED
  BY <1>3, <1>5 DEF Wanted

\* Without a name there is nothing to come to.
LEMMA NothingVisited == Visited(<<>>) = <<>> /\ \A w : Wanted(w, <<>>) = {}
<1>1. Len(<<>>) = 0 /\ ToSet(<<>>) = {} /\ 1 .. 0 = {}
  BY DEF ToSet
<1>2. \A w, index : VisitedIn(w, index, <<>>) = <<>>
  <2> TAKE w, index
  <2> DEFINE parts == [i \in 1 .. Len(<<>>) |-> VisitsIn(w, index)[<<>>[i]]]
  <2>1. parts = <<>>
    BY <1>1
  <2> HIDE DEF parts
  <2>2. FlattenSeq(parts) = <<>>
    BY <1>1, <2>1 DEF FlattenSeq
  <2> QED
    BY <2>2 DEF VisitedIn, parts
<1>3. Visited(<<>>) = <<>>
  <2> DEFINE parts == [i \in 1 .. Len(<<>>) |-> Visits[<<>>[i]]]
  <2>1. parts = <<>>
    BY <1>1
  <2> HIDE DEF parts
  <2>2. FlattenSeq(parts) = <<>>
    BY <1>1, <2>1 DEF FlattenSeq
  <2> QED
    BY <2>2 DEF Visited, parts
<1> QED
  BY <1>1, <1>2, <1>3 DEF Wanted

\* An operation that is still where it was, or has begun all it had to.
LEMMA AskedStays ==
    ASSUME Structure, Kept, UNCHANGED world, removed \subseteq removed', NEW q \in Ops, AskedOf(q),
           op'[q].asked = op[q].asked,
           \A p \in Packages : ToSelect(q, p) => ToSelect(q, p)',
           \A p \in Packages : ToEnqueue(q, p) => ToEnqueue(q, p)' \/ AllComing(p)'
    PROVE  AskedOf(q)'
<1> SUFFICES ASSUME NEW p \in Wanted(world, op[q].asked) \ Exempt'
             PROVE  Served(q, p)'
  BY DEF AskedOf
<1>1. p \in Packages \ Exempt' /\ p \in Packages \ Exempt
  BY DEF Exempt, Wanted
<1>2. Served(q, p)
  BY <1>1 DEF AskedOf
<1>3. AllComing(p) => AllComing(p)'
  BY <1>1, KeptAll
<1>4. Manifest(p) # "none" => Manifest(p)' # "none"
  BY <1>1 DEF Kept
<1> QED
  BY <1>1, <1>2, <1>3, <1>4 DEF Served

\* The operations that keep their place.
InPlace(q) ==
    /\ op'[q].asked = op[q].asked /\ op'[q].names = op[q].names
    /\ op'[q].packages = op[q].packages
    /\ op[q].pc = "enqueue" => Len(op'[q].jobs) = Len(op[q].jobs)
    /\ op'[q].pc = op[q].pc \/ (op[q].pc \in Awaiting /\ op'[q].pc \in Awaiting)

\* An operation that is at the same place is promised the same.
LEMMA PlaceStays ==
    ASSUME Structure, Kept, UNCHANGED world, removed \subseteq removed', NEW q \in Ops,
           IndexNewOf(q), AskedOf(q), InPlace(q), AtIndex(q)' = AtIndex(q),
           IndexInPlace => IndexInPlace', available = "new" => available' = "new"
    PROVE  IndexNewOf(q)' /\ AskedOf(q)'
<1>1. IndexNewOf(q)'
  <2>1. op'[q].pc \in {"idle", "reload"} <=> op[q].pc \in {"idle", "reload"}
    BY DEF InPlace, Awaiting
  <2>2. op'[q].pc = "reload" => op[q].pc = "reload"
    BY DEF InPlace, Awaiting
  <2> QED
    BY <2>1, <2>2 DEF IndexNewOf
<1>2. \A p \in Packages : ToSelect(q, p) => ToSelect(q, p)'
  BY DEF ToSelect, InPlace, Awaiting, AtIndex
<1>3. \A p \in Packages : ToEnqueue(q, p) => ToEnqueue(q, p)'
  BY DEF ToEnqueue, InPlace, Awaiting
<1> QED
  BY <1>1, <1>2, <1>3, AskedStays DEF InPlace

\* And so is one that does nothing.
LEMMA OthersStay ==
    ASSUME Structure, Kept, UNCHANGED world, removed \subseteq removed', NEW q \in Ops,
           IndexNewOf(q), AskedOf(q), op'[q] = op[q],
           IndexInPlace => IndexInPlace', available = "new" => available' = "new"
    PROVE  IndexNewOf(q)' /\ AskedOf(q)'
<1>1. InPlace(q)
  BY DEF InPlace
<1>2. AtIndex(q)' = AtIndex(q)
  BY IndexSame
<1> QED
  BY <1>1, <1>2, PlaceStays

-----------------------------------------------------------------------------
(***************************************************************************)
(* The steps that download, uninstall or only wait                         *)
(***************************************************************************)
\* No job comes, goes or changes, and no file.
LEMMA QuietStep ==
    ASSUME Structure, ~Doomed => OnItsWay, SeenSame, \A q \in Ops : op'[q].reported = op[q].reported,
           UNCHANGED <<world, disk, staged, removed, known, available>>,
           \A t \in Targets : \A f \in FilesOf(t) : Open(<<t, f>>) => Open(<<t, f>>)',
           \A q \in Ops : InPlace(q) /\ AtIndex(q)' = AtIndex(q)
    PROVE  ~Doomed' => OnItsWay'
<1>1. \A t, f, s : Seen(t, f, s)' <=> Seen(t, f, s)
  BY DEF SeenSame
<1>2. Doomed => Doomed'
  BY <1>1, DoomedSame
<1> SUFFICES ASSUME OnItsWay
             PROVE  OnItsWay'
  BY <1>2
<1>3. FilesOnTheirWay' /\ Kept
  <2>1. FilesOnTheirWay
    BY DEF OnItsWay
  <2> QED
    BY <1>1, <2>1, FilesStay
<1>4. \A q \in Ops : IndexNewOf(q)' /\ AskedOf(q)'
  <2> TAKE q \in Ops
  <2>1. IndexNewOf(q) /\ AskedOf(q) /\ (IndexInPlace => IndexInPlace')
    BY DEF OnItsWay, IndexInPlace
  <2> QED
    BY <1>3, <2>1, PlaceStays
<1> QED
  BY <1>3, <1>4 DEF OnItsWay

\* Looking at a job changes nothing of what is on its way.
LEMMA AwaitReadyDelivers ==
    ASSUME DeliveryInvariant, NEW o \in Ops, AwaitReady(o)
    PROVE  ~Doomed' => OnItsWay'
<1>1. /\ OthersSame(o) /\ KeepsAim(o) /\ op[o].pc = "ready"
      /\ op'[o].pc = IF Current(o).complete THEN "resumed" ELSE "suspend"
      /\ op'[o].jobs = op[o].jobs /\ op'[o].k = op[o].k /\ op'[o].reported = op[o].reported
  BY AwaitReadyFacts DEF DeliveryInvariant, Structure
<1>2. UNCHANGED <<world, disk, staged, known, available, queue, busy, removed, failures>>
  BY DEF AwaitReady
<1>3. op[o].pc \in Awaiting /\ op'[o].pc \in Awaiting
  BY <1>1 DEF Awaiting
<1>4. SeenSame
  BY <1>1, <1>3, OneSame
<1>5. \A x : Open(x)' <=> Open(x)
  BY <1>1, <1>2, OpenSame DEF DeliveryInvariant
<1>6. \A q \in Ops : InPlace(q) /\ AtIndex(q)' = AtIndex(q) /\ op'[q].reported = op[q].reported
  <2>1. InPlace(o) /\ AtIndex(o)' = AtIndex(o)
    BY <1>1, <1>3 DEF InPlace, KeepsAim, AtIndex, OfIndex, Current
  <2>2. \A q \in Ops \ {o} : InPlace(q) /\ AtIndex(q)' = AtIndex(q) /\ op'[q].reported = op[q].reported
    BY <1>1, IndexSame DEF OthersSame, InPlace
  <2> QED
    BY <1>1, <2>1, <2>2 DEF InPlace, AtIndex, OfIndex, Current
<1> QED
  BY <1>2, <1>4, <1>5, <1>6, QuietStep DEF DeliveryInvariant

\* Nor does waiting for it.
LEMMA AwaitSuspendDelivers ==
    ASSUME DeliveryInvariant, NEW o \in Ops, AwaitSuspend(o)
    PROVE  ~Doomed' => OnItsWay'
<1>1. /\ OthersSame(o) /\ KeepsAim(o) /\ op[o].pc = "suspend"
      /\ op'[o].pc = IF Current(o).complete THEN "resumed" ELSE "waiting"
      /\ op'[o].jobs = op[o].jobs /\ op'[o].k = op[o].k /\ op'[o].reported = op[o].reported
  BY AwaitSuspendFacts DEF DeliveryInvariant, Structure
<1>2. UNCHANGED <<world, disk, staged, known, available, queue, busy, removed, failures>>
  BY DEF AwaitSuspend
<1>3. op[o].pc \in Awaiting /\ op'[o].pc \in Awaiting
  BY <1>1 DEF Awaiting
<1>4. SeenSame
  BY <1>1, <1>3, OneSame
<1>5. \A x : Open(x)' <=> Open(x)
  BY <1>1, <1>2, OpenSame DEF DeliveryInvariant
<1>6. \A q \in Ops : InPlace(q) /\ AtIndex(q)' = AtIndex(q) /\ op'[q].reported = op[q].reported
  <2>1. InPlace(o) /\ AtIndex(o)' = AtIndex(o)
    BY <1>1, <1>3 DEF InPlace, KeepsAim, AtIndex, OfIndex, Current
  <2>2. \A q \in Ops \ {o} : InPlace(q) /\ AtIndex(q)' = AtIndex(q) /\ op'[q].reported = op[q].reported
    BY <1>1, IndexSame DEF OthersSame, InPlace
  <2> QED
    BY <1>1, <2>1, <2>2 DEF InPlace, AtIndex, OfIndex, Current
<1> QED
  BY <1>2, <1>4, <1>5, <1>6, QuietStep DEF DeliveryInvariant

\* The thread of the downloader takes a job, with its files still pending.
LEMMA TakeJobDelivers ==
    ASSUME DeliveryInvariant, TakeJob
    PROVE  ~Doomed' => OnItsWay'
<1>1. /\ busy = None
      /\ UNCHANGED <<world, disk, staged, known, available, op, removed, failures>>
  BY DEF TakeJob
<1>2. SeenSame
  BY <1>1 DEF SeenSame, Seen, Owed
<1>3. \A x : ~Open(x)
  BY <1>1 DEF Open
<1>4. \A q \in Ops : op'[q] = op[q]
  BY <1>1
<1>5. \A q \in Ops : InPlace(q) /\ AtIndex(q)' = AtIndex(q) /\ op'[q].reported = op[q].reported
  BY <1>4, IndexSame DEF InPlace
<1> QED
  BY <1>1, <1>2, <1>3, <1>5, QuietStep DEF DeliveryInvariant

\* The jobs of the operations are for the same targets.
LEMMA SamePlaces ==
    ASSUME Structure, SameJobs,
           \A q \in Ops : op'[q].pc = op[q].pc \/ (op[q].pc \in Awaiting /\ op'[q].pc \in Awaiting)
    PROVE  \A q \in Ops : InPlace(q) /\ AtIndex(q)' = AtIndex(q) /\ op'[q].reported = op[q].reported
<1> TAKE q \in Ops
<1>1. InPlace(q) /\ op'[q].reported = op[q].reported
  BY DEF InPlace, SameJobs
<1>2. op[q].pc \in Awaiting => op[q].k \in 1 .. Len(op[q].jobs)
  BY DEF Structure, ProgressOf
<1>3. op[q].pc \in Awaiting => OfIndex(q)' = OfIndex(q)
  BY <1>2 DEF OfIndex, Current, SameJobs
<1>4. op'[q].pc \in Awaiting <=> op[q].pc \in Awaiting
  OBVIOUS
<1>5. AtIndex(q)' = AtIndex(q)
  BY <1>3, <1>4 DEF AtIndex
<1> QED
  BY <1>1, <1>5

\* A job that is complete keeps its files, until its operation applies it.
LEMMA CompleteJobDelivers ==
    ASSUME DeliveryInvariant, CompleteJob
    PROVE  ~Doomed' => OnItsWay'
<1>1. /\ busy # None /\ \A f \in FilesOf(BusyJob.of) : ~Unfinished(f)
      /\ UNCHANGED <<world, disk, staged, known, available, queue, removed, failures>>
  BY DEF CompleteJob
<1>2. SeenSame
  BY CompleteSeen DEF DeliveryInvariant
<1>3. \A t \in Targets : \A f \in FilesOf(t) : ~Open(<<t, f>>)
  BY <1>1 DEF Open, Unfinished
<1>4. SameJobs /\ \A q \in Ops : op'[q].pc = op[q].pc \/ (op[q].pc \in Awaiting /\ op'[q].pc \in Awaiting)
  <2>1. BusyLive
    BY <1>1, StructureBusy DEF DeliveryInvariant
  <2>2. /\ SameJobs /\ \A q \in Ops \ {busy[1]} : op'[q] = op[q]
        /\ op'[busy[1]].pc = IF op[busy[1]].pc = "waiting" /\ op[busy[1]].k = busy[2]
                             THEN "resumed" ELSE op[busy[1]].pc
    BY <2>1, CompleteFacts DEF DeliveryInvariant, Structure
  <2>3. op'[busy[1]].pc = op[busy[1]].pc \/ (op[busy[1]].pc \in Awaiting /\ op'[busy[1]].pc \in Awaiting)
    BY <2>2 DEF Awaiting
  <2>4. \A q \in Ops : q = busy[1] \/ op'[q] = op[q]
    BY <2>2
  <2> QED
    BY <2>2, <2>3, <2>4
<1>5. \A q \in Ops : InPlace(q) /\ AtIndex(q)' = AtIndex(q) /\ op'[q].reported = op[q].reported
  BY <1>4, SamePlaces DEF DeliveryInvariant
<1> QED
  BY <1>1, <1>2, <1>3, <1>5, QuietStep DEF DeliveryInvariant

\* Nothing happens.
LEMMA StutterDelivers ==
    ASSUME DeliveryInvariant, UNCHANGED vars
    PROVE  ~Doomed' => OnItsWay'
<1>1. UNCHANGED <<world, disk, staged, known, available, op, queue, busy, removed, failures>>
  BY DEF vars
<1>2. SeenSame
  BY <1>1 DEF SeenSame, Seen, Owed
<1>3. \A x : Open(x)' <=> Open(x)
  BY <1>1 DEF Open, BusyJob, Status
<1>4. \A q \in Ops : op'[q] = op[q]
  BY <1>1
<1>5. \A q \in Ops : InPlace(q) /\ AtIndex(q)' = AtIndex(q) /\ op'[q].reported = op[q].reported
  BY <1>4, IndexSame DEF InPlace
<1> QED
  BY <1>1, <1>2, <1>3, <1>5, QuietStep DEF DeliveryInvariant

\* What is uninstalled is nobody's promise any more.
LEMMA UninstallDelivers ==
    ASSUME DeliveryInvariant, NEW p \in Packages, Uninstall(p)
    PROVE  ~Doomed' => OnItsWay'
<1>1. /\ disk' = [x \in Places |-> IF x[1] = p THEN "none" ELSE disk[x]]
      /\ removed' = removed \cup {p}
      /\ UNCHANGED <<world, staged, available, op, queue, busy, failures>>
  BY DEF Uninstall
<1>2. \A t, f, s : Seen(t, f, s)' <=> Seen(t, f, s)
  BY <1>1 DEF Seen, Owed
<1>3. Doomed => Doomed'
  BY <1>1, <1>2, DoomedSame
<1> SUFFICES ASSUME OnItsWay
             PROVE  OnItsWay'
  BY <1>3 DEF DeliveryInvariant
<1>4. FilesOnTheirWay' /\ Kept
  BY FilesUninstalled DEF DeliveryInvariant, OnItsWay
<1>5. IndexInPlace => IndexInPlace'
  <2>1. <<Index, "packages.xml">> \in Places /\ Index # p /\ <<Index, "packages.xml">>[1] = Index
    BY FilesFacts, PlaceFacts DEF Targets
  <2> QED
    BY <1>1, <2>1 DEF IndexInPlace
<1>6. \A q \in Ops : IndexNewOf(q)' /\ AskedOf(q)'
  <2> TAKE q \in Ops
  <2>1. IndexNewOf(q) /\ AskedOf(q) /\ op'[q] = op[q]
    BY <1>1 DEF OnItsWay
  <2> QED
    BY <1>1, <1>4, <1>5, <2>1, OthersStay DEF DeliveryInvariant
<1> QED
  BY <1>4, <1>6 DEF OnItsWay

\* The status of a file changes.
LEMMA StatusDelivers ==
    ASSUME DeliveryInvariant, NEW f, NotModified(f) \/ Receive(f) \/ Finish(f) \/ Fail(f)
    PROVE  ~Doomed' => OnItsWay'
<1>1. Turn(f) /\ UNCHANGED <<queue, busy, world, disk, known, available, removed>>
  BY DEF NotModified, Receive, Finish, Fail
<1>2. Structure
  BY DEF DeliveryInvariant
<1>3. busy # None /\ f \in FilesOf(BusyJob.of) /\ Unfinished(f) /\ BusyLive /\ BusyJob \in JobRecord
  BY <1>1, <1>2, TurnFacts, StructureBusy
<1>4. PICK t0 \in Targets : BusyJob.of = t0
  BY <1>3 DEF JobRecord, JobSet
<1>5. PICK old \in {"pending", "downloading"} : Status(f) = old
  BY <1>3 DEF Unfinished
<1>6. PICK new \in {"skipped", "downloading", "complete", "error"} :
         /\ Becomes(f, new)
         /\ new = "skipped" => NotModified(f)
         /\ new = "downloading" => Receive(f)
         /\ new = "complete" => Finish(f)
  BY DEF NotModified, Receive, Finish, Fail
<1>7. /\ SeenTurns(t0, f, old, new)
      /\ \A t \in Targets : \A g \in FilesOf(t) :
            Open(<<t, g>>)' <=> IF t = t0 /\ g = f THEN new = "downloading" ELSE Open(<<t, g>>)
  <2>1. new \in Statuses
    BY DEF Statuses
  <2> QED
    BY <1>1, <1>2, <1>4, <1>5, <1>6, <2>1, TurnSeen
<1>8. SameJobs /\ \A q \in Ops : op'[q].pc = op[q].pc
  <2>1. new \in Statuses
    BY DEF Statuses
  <2> QED
    BY <1>2, <1>3, <1>6, <2>1, BecomesFacts DEF Structure
<1>9. \A q \in Ops : InPlace(q) /\ AtIndex(q)' = AtIndex(q) /\ op'[q].reported = op[q].reported
  BY <1>2, <1>8, SamePlaces
<1>10. Doomed => Doomed'
  <2>1. \A t \in Targets : \A g \in FilesOf(t) : Seen(t, g, "error") => Seen(t, g, "error")'
    BY <1>7 DEF SeenTurns
  <2> QED
    BY <1>9, <2>1, DoomedSame
<1>11. CASE new = "error"
  <2>1. Seen(t0, f, "error")'
    BY <1>7, <1>11 DEF SeenTurns, Seen, Owed
  <2>2. f \in FilesOf(t0)
    BY <1>3, <1>4
  <2> QED
    BY <2>1, <2>2 DEF Doomed
<1>12. CASE new # "error"
  <2> SUFFICES ASSUME OnItsWay
               PROVE  OnItsWay'
    BY <1>10 DEF DeliveryInvariant
  <2>1. FilesOnTheirWay /\ f \in FilesOf(t0) /\ InStaging(f) = <<t0, f>> /\ <<t0, f>> \in Places
    BY <1>3, <1>4, PlaceFacts DEF OnItsWay, InStaging
  <2>2. \A t \in Targets : \A g \in FilesOf(t) : t # t0 \/ g # f => staged'[<<t, g>>] = staged[<<t, g>>]
    <3> SUFFICES ASSUME NEW t \in Targets, NEW g \in FilesOf(t), t # t0 \/ g # f
                 PROVE  staged'[<<t, g>>] = staged[<<t, g>>]
      OBVIOUS
    <3>1. <<t, g>> # <<t0, f>> /\ <<t, g>> \in Places
      BY PlaceFacts
    <3>2. staged \in [Places -> {"none", "part", "new"}]
      BY <1>2 DEF Structure, Typed
    <3> QED
      BY <2>1, <3>1, <3>2 DEF NotModified, Receive, Finish, Fail
  <2>3. staged \in [Places -> {"none", "part", "new"}]
    BY <1>2 DEF Structure, Typed
  <2>4. /\ \E s \in {"downloading", "complete"} : Seen(t0, f, s)'
        /\ staged'[<<t0, f>>] = "part" => new = "downloading"
        /\ new = "skipped" => t0 # Index
    <3>1. CASE new = "skipped"
      <4>1. NotModified(f) /\ Status(f) = "pending" /\ staged[<<t0, f>>] # "none" /\ staged' = staged
        BY <2>1, <3>1, <1>6 DEF NotModified
      <4>2. old = "pending"
        BY <4>1, <1>5
      <4>3. PICK s \in {"downloading", "complete"} : Seen(t0, f, s)
        BY <2>1, <4>1 DEF FilesOnTheirWay, StagedWell
      <4>4. Seen(t0, f, s)'
        BY <2>1, <4>2, <4>3, <1>7 DEF SeenTurns
      <4>5. t0 # Index
        <5> SUFFICES ASSUME t0 = Index
                     PROVE  FALSE
          OBVIOUS
        <5>1. Seen(Index, f, s) /\ f \in FilesOf(Index) /\ BusyJob.of = Index
          BY <2>1, <4>3, <1>4
        <5> QED
          BY <5>1, <4>1, <1>2, <1>3, IndexNotStaged
      <4>6. staged[<<t0, f>>] # "part"
        <5>1. ~Open(<<t0, f>>)
          BY <4>1 DEF Open
        <5> QED
          BY <5>1, <2>1 DEF FilesOnTheirWay, StagedWell
      <4> QED
        BY <4>1, <4>4, <4>5, <4>6
    <3>2. CASE new = "downloading"
      <4>1. Seen(t0, f, "downloading")'
        BY <3>2, <1>7 DEF SeenTurns, Seen, Owed
      <4> QED
        BY <3>2, <4>1
    <3>3. CASE new = "complete"
      <4>1. Seen(t0, f, "complete")'
        BY <3>3, <1>7 DEF SeenTurns, Seen, Owed
      <4>2. staged'[<<t0, f>>] = "new"
        BY <2>1, <2>3, <3>3, <1>6 DEF Finish
      <4> QED
        BY <3>3, <4>1, <4>2
    <3> QED
      BY <1>12, <3>1, <3>2, <3>3
  <2>5. FilesOnTheirWay' /\ Kept
    <3>1. \A t \in Targets : \A g \in FilesOf(t) :
             /\ Open(<<t, g>>)' <=> IF t = t0 /\ g = f THEN new = "downloading" ELSE Open(<<t, g>>)
             /\ t # t0 \/ g # f => staged'[<<t, g>>] = staged[<<t, g>>]
      BY <1>7, <2>2
    <3>2. FilesOnTheirWay /\ f \in FilesOf(t0) /\ UNCHANGED <<world, disk, removed, known>>
      BY <1>1, <2>1
    <3>3. SeenTurns(t0, f, old, new)
      BY <1>7
    <3>4. StagedTurns(t0, f, new)
      BY <2>4, <3>1 DEF StagedTurns
    <3> QED
      BY <3>2, <3>3, <3>4, FilesTurn
  <2>6. \A q \in Ops : IndexNewOf(q)' /\ AskedOf(q)'
    <3> TAKE q \in Ops
    <3>1. IndexNewOf(q) /\ AskedOf(q) /\ (IndexInPlace => IndexInPlace')
      BY <1>1 DEF OnItsWay, IndexInPlace
    <3> QED
      BY <1>1, <1>2, <1>9, <2>5, <3>1, PlaceStays
  <2> QED
    BY <2>5, <2>6 DEF OnItsWay
<1> QED
  BY <1>11, <1>12

-----------------------------------------------------------------------------
(***************************************************************************)
(* The steps of an operation                                               *)
(***************************************************************************)
\* What the other operations are promised stays.
LEMMA OneStep ==
    ASSUME Structure, FilesOnTheirWay', Kept, OnItsWay, UNCHANGED <<world, removed>>,
           NEW o \in Ops, OthersSame(o), IndexNewOf(o)', AskedOf(o)',
           IndexInPlace => IndexInPlace', available = "new" => available' = "new"
    PROVE  OnItsWay'
<1>1. \A q \in Ops \ {o} : IndexNewOf(q)' /\ AskedOf(q)'
  <2> TAKE q \in Ops \ {o}
  <2>1. IndexNewOf(q) /\ AskedOf(q) /\ op'[q] = op[q]
    BY DEF OnItsWay, OthersSame
  <2> QED
    BY <2>1, OthersStay
<1>2. \A q \in Ops : q = o \/ q \in Ops \ {o}
  OBVIOUS
<1>3. \A q \in Ops : IndexNewOf(q)' /\ AskedOf(q)'
  <2> TAKE q \in Ops
  <2>1. CASE q = o
    BY <2>1 DEF IndexNewOf, AskedOf, Served, ToSelect, ToEnqueue, AtIndex, OfIndex, Current
  <2>2. CASE q # o
    BY <2>2, <1>1
  <2> QED
    BY <2>1, <2>2
<1> QED
  BY <1>3 DEF OnItsWay

\* A step that drops jobs nobody waits for, or has none.
LEMMA DropDelivers ==
    ASSUME Structure, NEW o \in Ops, OthersSame(o), UNCHANGED <<world, disk, staged, removed, busy>>,
           known' \in {known, FromDisk(disk)},
           op[o].pc \notin Awaiting \cup {"enqueue"},
           op'[o].pc \notin Awaiting \cup {"enqueue"} \/ op'[o].jobs = <<>>,
           op[o].reported => op'[o].reported
    PROVE  /\ Doomed => Doomed'
           /\ FilesOnTheirWay => FilesOnTheirWay' /\ Kept
           /\ IndexInPlace => IndexInPlace'
<1>1. SeenSame
  BY OneSame
<1>2. \A t, f, s : Seen(t, f, s)' <=> Seen(t, f, s)
  BY <1>1 DEF SeenSame
<1>3. \A x : Open(x)' <=> Open(x)
  BY OpenSame
<1>4. Doomed => Doomed'
  <2>1. \A q \in Ops : op[q].reported => op'[q].reported
    <3> TAKE q \in Ops
    <3>1. CASE q = o
      BY <3>1
    <3>2. CASE q # o
      BY <3>2 DEF OthersSame
    <3> QED
      BY <3>1, <3>2
  <2> QED
    BY <1>2, <2>1, DoomedSame
<1>5. FilesOnTheirWay => FilesOnTheirWay' /\ Kept
  BY <1>2, <1>3, FilesStay
<1>6. IndexInPlace => IndexInPlace'
  BY DEF IndexInPlace
<1> QED
  BY <1>4, <1>5, <1>6

\* The index that is read is the new one, and the manifests on the disk are listed.
LEMMA ReloadDelivers ==
    ASSUME DeliveryInvariant, NEW o \in Ops, Reload(o)
    PROVE  ~Doomed' => OnItsWay'
<1>1. PICK index : index = disk[<<Index, "packages.xml">>]
  OBVIOUS
<1>2. /\ OthersSame(o) /\ KeepsAim(o) /\ op[o].pc = "reload"
      /\ available' = IF index = "part" THEN "none" ELSE index
      /\ op'[o].pc = IF index = "part" THEN "ended" ELSE "select"
      /\ op'[o].jobs = <<>> /\ op'[o].reported = op[o].reported
  BY <1>1, ReloadFacts DEF DeliveryInvariant, Structure
<1>3. UNCHANGED <<world, disk, staged, known, queue, busy, removed, failures>>
  BY DEF Reload
<1>4. op[o].pc \notin Awaiting \cup {"enqueue"}
  BY <1>2 DEF Awaiting
<1>5. Structure
  BY DEF DeliveryInvariant
<1>6. /\ Doomed => Doomed'
      /\ FilesOnTheirWay => FilesOnTheirWay' /\ Kept
      /\ IndexInPlace => IndexInPlace'
  BY <1>2, <1>3, <1>4, <1>5, DropDelivers
<1> SUFFICES ASSUME OnItsWay
             PROVE  OnItsWay'
  BY <1>6 DEF DeliveryInvariant
<1>7. FilesOnTheirWay' /\ Kept /\ IndexNewOf(o) /\ AskedOf(o)
  BY <1>6 DEF OnItsWay
<1>8. op'[o].pc = "select" /\ available' = "new"
  BY <1>1, <1>2, <1>7 DEF IndexNewOf, IndexInPlace
<1>9. IndexNewOf(o)'
  BY <1>8 DEF IndexNewOf
<1>10. AskedOf(o)'
  <2>1. \A p \in Packages : ToSelect(o, p) => ToSelect(o, p)'
    BY <1>2, <1>3, <1>8 DEF ToSelect, KeepsAim
  <2>2. \A p \in Packages : ~ToEnqueue(o, p)
    BY <1>2 DEF ToEnqueue
  <2> QED
    BY <1>2, <1>3, <1>5, <1>7, <2>1, <2>2, AskedStays DEF KeepsAim
<1> QED
  BY <1>2, <1>3, <1>5, <1>6, <1>7, <1>8, <1>9, <1>10, OneStep

\* What is asked for is selected, or is up to date, or is not published.
LEMMA SelectDelivers ==
    ASSUME DeliveryInvariant, NEW o \in Ops, Select(o)
    PROVE  ~Doomed' => OnItsWay'
<1>1. PICK packages : packages = Those(Visited(op[o].names), {p \in Packages : Outdated(p)})
  OBVIOUS
<1>2. /\ OthersSame(o) /\ op[o].pc = "select"
      /\ op'[o].pc = IF packages = <<>> THEN "ended" ELSE "enqueue"
      /\ op'[o].packages = packages
      /\ op'[o].asked = op[o].asked /\ op'[o].names = op[o].names
      /\ op'[o].jobs = <<>>
      /\ op'[o].reported = (op[o].reported \/ NotFound(op[o].names))
  BY <1>1, SelectFacts DEF DeliveryInvariant, Structure
<1>3. UNCHANGED <<world, disk, staged, known, available, queue, busy, removed, failures>>
  BY DEF Select
<1>4. op[o].pc \notin Awaiting \cup {"enqueue"}
  BY <1>2 DEF Awaiting
<1>5. Structure
  BY DEF DeliveryInvariant
<1>6. /\ Doomed => Doomed'
      /\ FilesOnTheirWay => FilesOnTheirWay' /\ Kept
      /\ IndexInPlace => IndexInPlace'
  BY <1>2, <1>3, <1>4, <1>5, DropDelivers
<1> SUFFICES ASSUME OnItsWay, ~Doomed'
             PROVE  OnItsWay'
  BY <1>6 DEF DeliveryInvariant
<1>7. FilesOnTheirWay' /\ Kept /\ IndexNewOf(o) /\ AskedOf(o) /\ FilesOnTheirWay
  BY <1>6 DEF OnItsWay
<1>8. available = "new"
  BY <1>2, <1>7 DEF IndexNewOf, AtIndex, Awaiting
<1>9. IndexNewOf(o)'
  <2>1. op'[o].pc # "reload"
    BY <1>2
  <2> QED
    BY <1>3, <1>8, <2>1 DEF IndexNewOf
<1>10. ~NotFound(op[o].names)
  BY <1>2 DEF Doomed
<1>11. op[o].names \in Seq(Packages) /\ world \in Worlds
  BY <1>5 DEF Structure, Typed, Operation
<1>12. PICK visited : visited = Visited(op[o].names)
  OBVIOUS
<1>13. visited \in Seq(Packages) /\ ToSet(visited) = Wanted(world, op[o].names)
  BY <1>8, <1>11, <1>12, VisitedFacts, VisitedWanted
<1>14. ASSUME NEW p \in Packages, p \in Wanted(world, op[o].names)
       PROVE  \E m \in DOMAIN visited : visited[m] = p
  BY <1>13, <1>14 DEF ToSet
<1>15. ASSUME NEW p \in Packages, p \in Wanted(world, op[o].names), Outdated(p)
       PROVE  ToEnqueue(o, p)'
  <2>1. PICK m \in DOMAIN visited : visited[m] = p
    BY <1>14, <1>15
  <2>2. PICK i \in DOMAIN packages : packages[i] = p
    <3> DEFINE S == {q \in Packages : Outdated(q)}
    <3>1. visited[m] \in S
      BY <1>15, <2>1
    <3>2. packages = Those(visited, S)
      BY <1>1, <1>12
    <3> HIDE DEF S
    <3>3. \E i \in DOMAIN packages : packages[i] = visited[m]
      BY <1>13, <2>1, <3>1, <3>2, ThoseFacts
    <3> QED
      BY <2>1, <3>3
  <2>3. packages \in Seq(Packages)
    BY <1>2 DEF OthersSame, Operation
  <2>4. i \in 1 .. Len(packages) /\ packages # <<>>
    <3>1. i \in 1 .. Len(packages)
      BY <2>2, <2>3
    <3> QED
      BY <2>3, <3>1
  <2>5. i > Len(op'[o].jobs)
    <3>1. Len(op'[o].jobs) = 0
      BY <1>2
    <3> QED
      BY <2>4, <3>1
  <2> QED
    BY <1>2, <2>2, <2>4, <2>5 DEF ToEnqueue
<1>16. AskedOf(o)'
  <2> SUFFICES ASSUME NEW p \in Wanted(world, op[o].asked) \ Exempt'
               PROVE  Served(o, p)'
    BY <1>2, <1>3 DEF AskedOf
  <2>1. p \in Packages \ Exempt' /\ p \in Packages \ Exempt /\ p \notin world.overridden
    BY <1>3 DEF Exempt, Wanted
  <2>2. Served(o, p)
    BY <2>1, <1>7 DEF AskedOf
  <2>3. AllComing(p) => AllComing(p)'
    BY <2>1, <1>7, KeptAll
  <2>4. Manifest(p) # "none" => Manifest(p)' # "none"
    BY <1>3 DEF Manifest
  <2>5. ~ToEnqueue(o, p)
    BY <1>2 DEF ToEnqueue
  <2>6. CASE p \in world.published
    <3>1. CASE AllComing(p)
      BY <2>3, <2>6, <3>1, <1>3 DEF Served
    <3>2. CASE p \in Wanted(world, op[o].names)
      <4>1. Available(p)
        BY <1>8, <2>6 DEF Available
      <4>2. CASE Outdated(p)
        BY <1>3, <1>15, <2>1, <2>6, <3>2, <4>2 DEF Served
      <4>3. CASE ~Outdated(p)
        <5>1. known[p] # "none" /\ known[p] # "old"
          BY <1>8, <2>1, <4>1, <4>3 DEF Outdated
        <5>2. known[p] = "new"
          BY <5>1, <2>1, <1>5 DEF Structure, Typed
        <5>3. AllComing(p)
          BY <5>2, <2>1, <1>7 DEF FilesOnTheirWay, ListedWell
        <5> QED
          BY <5>3, <2>3, <2>6, <1>3 DEF Served
      <4> QED
        BY <4>2, <4>3
    <3> QED
      BY <2>2, <2>5, <2>6, <3>1, <3>2 DEF Served, ToSelect
  <2>7. CASE p \notin world.published
    <3>1. Manifest(p) # "none"
      <4>1. CASE p \in Wanted(world, op[o].names)
        <5>1. ~Available(p)
          BY <2>7 DEF Available
        <5>2. known[p] # "none"
          <6>1. PICK m \in DOMAIN visited : visited[m] = p
            BY <1>14, <2>1, <4>1
          <6>2. p \in ToSet(Visited(op[o].names))
            BY <1>12, <6>1 DEF ToSet
          <6> QED
            BY <1>10, <5>1, <6>2 DEF NotFound
        <5> QED
          BY <5>2, <2>1, <1>7 DEF FilesOnTheirWay, ListedWell
      <4>2. CASE p \notin Wanted(world, op[o].names)
        BY <2>2, <2>7, <4>2 DEF Served, ToSelect
      <4> QED
        BY <4>1, <4>2
    <3> QED
      BY <3>1, <2>4, <2>7, <1>3 DEF Served
  <2> QED
    BY <2>6, <2>7
<1> QED
  BY <1>2, <1>3, <1>5, <1>6, <1>7, <1>9, <1>16, OneStep

\* All packages were applied when the jobs are dropped.
LEMMA ResetDelivers ==
    ASSUME DeliveryInvariant, NEW o \in Ops, Reset(o)
    PROVE  ~Doomed' => OnItsWay'
<1>1. /\ OthersSame(o) /\ KeepsAim(o) /\ op[o].pc = "reset"
      /\ op'[o].pc = "check" /\ op'[o].jobs = <<>> /\ op'[o].reported = op[o].reported
  BY ResetFacts DEF DeliveryInvariant, Structure
<1>2. known' = FromDisk(disk) /\ UNCHANGED <<world, disk, staged, available, queue, busy, removed, failures>>
  BY DEF Reset
<1>3. op[o].pc \notin Awaiting \cup {"enqueue"}
  BY <1>1 DEF Awaiting
<1>4. Structure
  BY DEF DeliveryInvariant
<1>5. /\ Doomed => Doomed'
      /\ FilesOnTheirWay => FilesOnTheirWay' /\ Kept
      /\ IndexInPlace => IndexInPlace'
  BY <1>1, <1>2, <1>3, <1>4, DropDelivers
<1> SUFFICES ASSUME OnItsWay
             PROVE  OnItsWay'
  BY <1>5 DEF DeliveryInvariant
<1>6. FilesOnTheirWay' /\ Kept /\ IndexNewOf(o) /\ AskedOf(o)
  BY <1>5 DEF OnItsWay
<1>7. ~AtIndex(o)
  BY <1>1 DEF AtIndex, Awaiting
<1>8. IndexNewOf(o)'
  BY <1>1, <1>2, <1>6, <1>7 DEF IndexNewOf
<1>9. AskedOf(o)'
  <2>1. \A p \in Packages : ~ToSelect(o, p) /\ ~ToEnqueue(o, p)
    BY <1>1, <1>7 DEF ToSelect, ToEnqueue
  <2> QED
    BY <1>1, <1>2, <1>4, <1>6, <2>1, AskedStays DEF KeepsAim
<1> QED
  BY <1>1, <1>2, <1>4, <1>5, <1>6, <1>8, <1>9, OneStep

\* What was modified is looked for again, and what was asked for is in place.
LEMMA CheckDelivers ==
    ASSUME DeliveryInvariant, NEW o \in Ops, Check(o)
    PROVE  ~Doomed' => OnItsWay'
<1>1. /\ OthersSame(o) /\ op[o].pc = "check"
      /\ op'[o].pc \in {"ended", "select"}
      /\ op'[o].asked = op[o].asked
      /\ op'[o].reported = op[o].reported
  BY CheckFacts DEF DeliveryInvariant, Structure
<1>2. UNCHANGED <<world, disk, staged, known, available, queue, busy, removed, failures>>
  BY DEF Check
<1>3. op[o].pc \notin Awaiting \cup {"enqueue"} /\ op'[o].pc \notin Awaiting \cup {"enqueue"}
  BY <1>1 DEF Awaiting
<1>4. Structure
  BY DEF DeliveryInvariant
<1>5. /\ Doomed => Doomed'
      /\ FilesOnTheirWay => FilesOnTheirWay' /\ Kept
      /\ IndexInPlace => IndexInPlace'
  BY <1>1, <1>2, <1>3, <1>4, DropDelivers
<1> SUFFICES ASSUME OnItsWay
             PROVE  OnItsWay'
  BY <1>5 DEF DeliveryInvariant
<1>6. FilesOnTheirWay' /\ Kept /\ IndexNewOf(o) /\ AskedOf(o)
  BY <1>5 DEF OnItsWay
<1>7. ~AtIndex(o)
  BY <1>1 DEF AtIndex, Awaiting
<1>8. IndexNewOf(o)'
  BY <1>1, <1>2, <1>6, <1>7 DEF IndexNewOf
<1>9. AskedOf(o)'
  <2>1. \A p \in Packages : ~ToSelect(o, p) /\ ~ToEnqueue(o, p)
    BY <1>1, <1>7 DEF ToSelect, ToEnqueue
  <2> QED
    BY <1>1, <1>2, <1>4, <1>6, <2>1, AskedStays
<1> QED
  BY <1>1, <1>2, <1>4, <1>5, <1>6, <1>8, <1>9, OneStep

-----------------------------------------------------------------------------
(***************************************************************************)
(* Jobs that are applied, and jobs that are added                          *)
(***************************************************************************)
\* What is reported of an operation's job is what went wrong with its files.
LEMMA AppliedDooms ==
    ASSUME NEW o \in Ops, OthersSame(o), op[o].reported => op'[o].reported,
           NEW job, SeenLess(job), ~AllGood(job) => op'[o].reported
    PROVE  Doomed => Doomed'
<1>1. CASE op'[o].reported
  BY <1>1 DEF Doomed
<1>2. CASE ~op'[o].reported
  <2>1. \A f \in FilesOf(job.of) : job.status[f] # "error"
    BY <1>2 DEF AllGood, Good
  <2>2. \A t \in Targets : \A f \in FilesOf(t) : Seen(t, f, "error") => Seen(t, f, "error")'
    BY <2>1 DEF SeenLess
  <2>3. \A q \in Ops : op[q].reported => op'[q].reported
    BY DEF OthersSame
  <2> QED
    BY <2>2, <2>3, DoomedSame
<1> QED
  BY <1>1, <1>2

\* The job that an operation awaits is owed to it.
LEMMA CurrentOwed ==
    ASSUME Structure, NEW o \in Ops, op[o].pc \in Awaiting
    PROVE  /\ Owed(o, op[o].k) /\ Current(o) \in JobRecord /\ op[o].k \in Nat \ {0}
           /\ Len(op[o].jobs) \in Nat /\ op[o].k \in 1 .. Len(op[o].jobs)
<1>1. op[o].jobs \in Seq(JobRecord) /\ op[o].k \in Nat
  BY DEF Structure, Typed, Operation
<1>2. op[o].k \in 1 .. Len(op[o].jobs)
  BY DEF Structure, ProgressOf
<1> QED
  BY <1>1, <1>2 DEF Owed, Current

\* The index is in place once it is applied, or something is reported.
LEMMA ApplyIndexDelivers ==
    ASSUME DeliveryInvariant, NEW o \in Ops, ApplyIndex(o)
    PROVE  ~Doomed' => OnItsWay'
<1>1. PICK job : job = Current(o)
  OBVIOUS
<1>2. /\ OthersSame(o) /\ KeepsAim(o) /\ op[o].pc = "resumed" /\ OfIndex(o) /\ Moved(job)
      /\ op'[o].pc = "reload" /\ op'[o].jobs = op[o].jobs
      /\ op'[o].reported = (~AllGood(job) \/ Movable(job) # Arrived(job))
  BY <1>1, ApplyIndexFacts DEF DeliveryInvariant, Structure
<1>3. UNCHANGED <<world, known, available, queue, busy, removed, failures>>
  BY DEF ApplyIndex
<1>4. Structure
  BY DEF DeliveryInvariant
<1>5. AtIndex(o) /\ op[o].pc \in Awaiting
  BY <1>2 DEF AtIndex, Awaiting
<1>6. /\ Owed(o, op[o].k) /\ job \in JobRecord /\ op[o].k \in Nat \ {0}
      /\ Len(op[o].jobs) \in Nat /\ op[o].k \in 1 .. Len(op[o].jobs)
  BY <1>1, <1>4, <1>5, CurrentOwed
<1>7. Len(op[o].jobs) = 1 /\ op[o].k = 1 /\ ~op[o].reported
  BY <1>4, <1>5 DEF Structure, ProgressOf
<1>8. SeenLess(job)
  <2>1. op'[o].pc \notin Awaiting \cup {"enqueue"} /\ op[o].k >= Len(op[o].jobs)
    BY <1>2, <1>7 DEF Awaiting
  <2>2. SeenLess(Current(o))
    BY <1>2, <1>5, <1>6, <2>1, ApplySeen
  <2> QED
    BY <1>1, <2>2 DEF SeenLess
<1>9. Doomed => Doomed'
  BY <1>2, <1>7, <1>8, AppliedDooms
<1> SUFFICES ASSUME OnItsWay, ~Doomed'
             PROVE  OnItsWay'
  BY <1>9 DEF DeliveryInvariant
<1>10. AllGood(job) /\ Movable(job) = Arrived(job)
  BY <1>2 DEF Doomed
<1>11. \A x : Open(x)' <=> Open(x)
  BY <1>2, <1>3, <1>4, OpenSame
<1>12. FilesOnTheirWay /\ IndexNewOf(o) /\ AskedOf(o)
  BY DEF OnItsWay
<1>13. /\ FilesOnTheirWay' /\ Kept
       /\ \A f \in FilesOf(job.of) : job.status[f] = "complete" => disk'[<<job.of, f>>] = "new"
       /\ \A f \in FilesOf(job.of) : job.status[f] = "skipped" => Seen(job.of, f, "skipped")
  BY <1>1, <1>2, <1>3, <1>4, <1>6, <1>8, <1>10, <1>11, <1>12, FilesApplied
<1>14. IndexInPlace'
  <2>1. job.of = Index /\ "packages.xml" \in FilesOf(Index) /\ Index \in Targets
    BY <1>1, <1>2, FilesFacts DEF OfIndex, Targets
  <2>2. job.status["packages.xml"] \in {"complete", "skipped"}
    BY <2>1, <1>10 DEF AllGood, Good
  <2>3. ~Seen(Index, "packages.xml", "skipped")
    BY <2>1, <1>12 DEF FilesOnTheirWay, SkippedWell
  <2> QED
    BY <2>1, <2>2, <2>3, <1>13 DEF IndexInPlace
<1>15. IndexNewOf(o)'
  BY <1>2, <1>14 DEF IndexNewOf
<1>16. AskedOf(o)'
  <2>1. \A p \in Packages : ToSelect(o, p) => ToSelect(o, p)'
    BY <1>2, <1>3 DEF ToSelect, KeepsAim
  <2>2. \A p \in Packages : ~ToEnqueue(o, p)
    BY <1>2 DEF ToEnqueue
  <2> QED
    BY <1>2, <1>3, <1>4, <1>12, <1>13, <2>1, <2>2, AskedStays DEF KeepsAim
<1> QED
  BY <1>2, <1>3, <1>4, <1>13, <1>14, <1>15, <1>16, OneStep

\* Without verbose_logging a file that failed is not reported.
LEMMA ApplyPackageDelivers ==
    ASSUME Verbose, DeliveryInvariant, NEW o \in Ops, ApplyPackage(o)
    PROVE  ~Doomed' => OnItsWay'
<1>1. PICK job : job = Current(o)
  OBVIOUS
<1>2. /\ OthersSame(o) /\ KeepsAim(o) /\ op[o].pc = "resumed" /\ ~OfIndex(o)
      /\ IF AllGood(job) THEN Moved(job) ELSE UNCHANGED <<disk, staged>>
      /\ op'[o].pc = Onward(o)
      /\ op'[o].k = IF Onward(o) = "ready" THEN op[o].k + 1 ELSE op[o].k
      /\ op'[o].reported = (op[o].reported \/ (IF AllGood(job) THEN Movable(job) # Arrived(job) ELSE Verbose))
      /\ op'[o].jobs = op[o].jobs
  BY <1>1, ApplyPackageFacts DEF DeliveryInvariant, Structure
<1>3. UNCHANGED <<world, known, available, queue, busy, removed, failures>>
  BY DEF ApplyPackage
<1>4. Structure
  BY DEF DeliveryInvariant
<1>5. ~AtIndex(o) /\ op[o].pc \in Awaiting
  BY <1>2 DEF AtIndex, Awaiting
<1>6. /\ Owed(o, op[o].k) /\ job \in JobRecord /\ op[o].k \in Nat \ {0}
      /\ Len(op[o].jobs) \in Nat /\ op[o].k \in 1 .. Len(op[o].jobs)
  BY <1>1, <1>4, <1>5, CurrentOwed
<1>7. job.of \in Packages
  <2>1. \A i \in 1 .. Len(op[o].jobs) : op[o].jobs[i].of \in Packages
    BY <1>2, <1>4, <1>5 DEF Structure, ProgressOf
  <2> QED
    BY <1>1, <1>6, <2>1 DEF Current
<1>8. SeenLess(job)
  <2>1. \/ op'[o].pc \notin Awaiting \cup {"enqueue"} /\ op[o].k >= Len(op[o].jobs)
        \/ op'[o].pc \in Awaiting /\ op'[o].k = op[o].k + 1
    BY <1>2, <1>6 DEF Onward, Awaiting
  <2>2. SeenLess(Current(o))
    BY <1>2, <1>5, <1>6, <2>1, ApplySeen
  <2> QED
    BY <1>1, <2>2 DEF SeenLess
<1>9. Doomed => Doomed'
  <2>1. op[o].reported => op'[o].reported
    BY <1>2
  <2>2. ~AllGood(job) => op'[o].reported
    BY <1>2
  <2> QED
    BY <1>2, <1>8, <2>1, <2>2, AppliedDooms
<1> SUFFICES ASSUME OnItsWay, ~Doomed'
             PROVE  OnItsWay'
  BY <1>9 DEF DeliveryInvariant
<1>10. AllGood(job) /\ Movable(job) = Arrived(job) /\ Moved(job)
  BY <1>2 DEF Doomed
<1>11. \A x : Open(x)' <=> Open(x)
  BY <1>2, <1>3, <1>4, OpenSame
<1>12. FilesOnTheirWay /\ IndexNewOf(o) /\ AskedOf(o)
  BY DEF OnItsWay
<1>13. FilesOnTheirWay' /\ Kept
  BY <1>1, <1>2, <1>3, <1>4, <1>6, <1>8, <1>10, <1>11, <1>12, FilesApplied
<1>14. IndexInPlace => IndexInPlace'
  <2>1. <<Index, "packages.xml">> \in Places
    BY FilesFacts, PlaceFacts DEF Targets
  <2>2. <<Index, "packages.xml">> \notin Movable(job)
    BY <1>7, FilesFacts DEF Movable, Arrived
  <2> QED
    BY <1>10, <2>1, <2>2 DEF IndexInPlace, Moved
<1>15. available = "new"
  BY <1>2, <1>5, <1>12 DEF IndexNewOf
<1>16. IndexNewOf(o)'
  <2>1. op'[o].pc # "reload"
    BY <1>2 DEF Onward
  <2> QED
    BY <1>3, <1>15, <2>1 DEF IndexNewOf
<1>17. AskedOf(o)'
  <2>1. \A p \in Packages : ~ToSelect(o, p) /\ ~ToEnqueue(o, p)
    BY <1>2, <1>5 DEF ToSelect, ToEnqueue
  <2> QED
    BY <1>2, <1>3, <1>4, <1>12, <1>13, <2>1, AskedStays DEF KeepsAim
<1> QED
  BY <1>2, <1>3, <1>4, <1>13, <1>14, <1>16, <1>17, OneStep

\* A job is queued, with all of its files to come.
LEMMA MoreDelivers ==
    ASSUME Structure, NEW o \in Ops, OthersSame(o), NEW job \in JobRecord, SeenMore(job),
           \A f \in FilesOf(job.of) : job.status[f] = "pending",
           UNCHANGED <<world, disk, removed, known, busy>>,
           \A j \in 1 .. Len(op[o].jobs) : op'[o].jobs[j] = op[o].jobs[j],
           \A t \in Targets : \A f \in FilesOf(t) : staged'[<<t, f>>] \in {staged[<<t, f>>], "none"},
           op[o].reported => op'[o].reported
    PROVE  /\ Doomed => Doomed'
           /\ FilesOnTheirWay => FilesOnTheirWay' /\ Kept
           /\ AllComing(job.of)'
           /\ IndexInPlace => IndexInPlace'
<1>1. \A t, f, s : Seen(t, f, s) => Seen(t, f, s)'
  BY DEF SeenMore
<1>2. \A t \in Targets : \A f \in FilesOf(t) : Seen(t, f, "skipped")' => Seen(t, f, "skipped")
  BY DEF SeenMore
<1>3. \A x : Open(x)' <=> Open(x)
  BY OpenSame
<1>4. \A q \in Ops : op[q].reported => op'[q].reported
  <2> TAKE q \in Ops
  <2>1. CASE q = o
    BY <2>1
  <2>2. CASE q # o
    BY <2>2 DEF OthersSame
  <2> QED
    BY <2>1, <2>2
<1>5. Doomed => Doomed'
  BY <1>1, <1>4, DoomedSame
<1>6. FilesOnTheirWay => FilesOnTheirWay' /\ Kept
  BY <1>1, <1>2, <1>3, FilesStay
<1>7. AllComing(job.of)'
  <2>1. PICK t0 : t0 = job.of
    OBVIOUS
  <2>2. \A f \in FilesOf(t0) : Seen(t0, f, "pending")'
    BY <2>1 DEF SeenMore
  <2> QED
    BY <2>1, <2>2 DEF AllComing, Coming
<1>8. IndexInPlace => IndexInPlace'
  BY DEF IndexInPlace
<1> QED
  BY <1>5, <1>6, <1>7, <1>8

\* The names of an operation that begins are still to be selected.
LEMMA BeginDelivers ==
    ASSUME DeliveryInvariant, NEW o \in Ops, NEW c \in Commands, Begin(o, c)
    PROVE  ~Doomed' => OnItsWay'
<1>1. Structure
  BY DEF DeliveryInvariant
<1>2. PICK job \in JobRecord : job = Job(Index, c.force)
  BY <1>1, BeginFacts DEF Structure
<1>3. /\ OthersSame(o) /\ op[o].pc = "idle"
      /\ op'[o].pc = "ready" /\ op'[o].names = op'[o].asked /\ op'[o].jobs = <<job>>
      /\ op'[o].k = 1
  BY <1>1, <1>2, BeginFacts DEF Structure
<1>4. /\ staged' = [staged EXCEPT ![<<Index, "packages.xml">>] = "none"]
      /\ UNCHANGED <<world, disk, known, available, busy, removed, failures>>
  BY DEF Begin
<1>5. job.of = Index /\ \A f \in FilesOf(job.of) : job.status[f] = "pending"
  <2>1. Index \in Targets
    BY DEF Targets
  <2> QED
    BY <1>2, <2>1, NewJob
<1>6. op[o].jobs = <<>> /\ ~op[o].reported
  BY <1>1, <1>3, IdleTyped DEF Structure, ProgressOf
<1>7. Len(op[o].jobs) = 0 /\ Len(op'[o].jobs) = 1 /\ op'[o].jobs[1] = job
  BY <1>3, <1>6
<1>8. SeenMore(job)
  <2>1. /\ Len(op[o].jobs) \in Nat /\ Len(op'[o].jobs) = Len(op[o].jobs) + 1
        /\ op'[o].jobs[Len(op[o].jobs) + 1] = job
    BY <1>7
  <2>2. \A j \in 1 .. Len(op[o].jobs) : op'[o].jobs[j] = op[o].jobs[j]
    BY <1>7
  <2>3. op'[o].pc \in Awaiting \cup {"enqueue"}
    BY <1>3 DEF Awaiting
  <2> QED
    BY <1>3, <1>7, <2>1, <2>2, <2>3, AddSeen
<1>9. /\ Doomed => Doomed'
      /\ FilesOnTheirWay => FilesOnTheirWay' /\ Kept
      /\ IndexInPlace => IndexInPlace'
  <2>1. \A j \in 1 .. Len(op[o].jobs) : op'[o].jobs[j] = op[o].jobs[j]
    BY <1>7
  <2>2. \A t \in Targets : \A f \in FilesOf(t) : staged'[<<t, f>>] \in {staged[<<t, f>>], "none"}
    BY <1>1, <1>4, PlaceFacts DEF Structure, Typed
  <2> QED
    BY <1>1, <1>3, <1>4, <1>5, <1>6, <1>8, <2>1, <2>2, MoreDelivers
<1> SUFFICES ASSUME OnItsWay
             PROVE  OnItsWay'
  BY <1>9 DEF DeliveryInvariant
<1>10. FilesOnTheirWay' /\ Kept
  BY <1>9 DEF OnItsWay
<1>11. AtIndex(o)'
  BY <1>3, <1>5, <1>7 DEF AtIndex, OfIndex, Current, Awaiting
<1>12. IndexNewOf(o)'
  BY <1>3, <1>11 DEF IndexNewOf
<1>13. AskedOf(o)'
  <2>1. \A p \in Wanted(world', op'[o].asked) : ToSelect(o, p)'
    BY <1>3, <1>11 DEF ToSelect
  <2> QED
    BY <2>1 DEF AskedOf, Served
<1> QED
  BY <1>1, <1>3, <1>4, <1>9, <1>10, <1>12, <1>13, OneStep

\* A package that was to be queued has its files coming.
LEMMA EnqueueDelivers ==
    ASSUME DeliveryInvariant, NEW o \in Ops, Enqueue(o)
    PROVE  ~Doomed' => OnItsWay'
<1>1. Structure
  BY DEF DeliveryInvariant
<1>2. op[o].pc = "enqueue" /\ UNCHANGED <<world, disk, staged, known, available, busy, removed, failures>>
  BY DEF Enqueue
<1>3. Len(op[o].jobs) < Len(op[o].packages) /\ op[o].k <= 1
  BY <1>1, <1>2 DEF Structure, ProgressOf
<1>4. op[o].jobs \in Seq(JobRecord) /\ op[o].k \in Nat /\ op[o].packages \in Seq(Packages)
  BY <1>1 DEF Structure, Typed, Operation
<1>5. PICK n \in Nat : n = Len(op[o].jobs)
  BY <1>4
<1>6. PICK job : job = Job(op[o].packages[n + 1], op[o].force)
  OBVIOUS
<1>7. /\ OthersSame(o) /\ KeepsAim(o)
      /\ n + 1 \in 1 .. Len(op[o].packages) /\ op[o].packages[n + 1] \in Packages /\ job \in JobRecord
      /\ op'[o].pc = IF n + 1 = Len(op[o].packages) THEN "ready" ELSE "enqueue"
      /\ op'[o].jobs = Append(op[o].jobs, job) /\ op'[o].k = 1 /\ op'[o].reported = op[o].reported
  BY <1>1, <1>3, <1>5, <1>6, EnqueueFacts DEF Structure
<1>8. job.of = op[o].packages[n + 1] /\ \A f \in FilesOf(job.of) : job.status[f] = "pending"
  <2>1. op[o].packages[n + 1] \in Targets
    BY <1>7 DEF Targets
  <2> QED
    BY <1>6, <2>1, NewJob
<1>9. /\ Len(op'[o].jobs) = n + 1 /\ op'[o].jobs[n + 1] = job
      /\ \A j \in 1 .. n : op'[o].jobs[j] = op[o].jobs[j]
  BY <1>4, <1>5, <1>7
<1>10. SeenMore(job)
  <2>1. op'[o].pc \in Awaiting \cup {"enqueue"}
    BY <1>7 DEF Awaiting
  <2> QED
    BY <1>2, <1>3, <1>4, <1>5, <1>7, <1>9, <2>1, AddSeen
<1>11. /\ Doomed => Doomed'
       /\ FilesOnTheirWay => FilesOnTheirWay' /\ Kept
       /\ AllComing(job.of)'
       /\ IndexInPlace => IndexInPlace'
  BY <1>1, <1>2, <1>5, <1>7, <1>8, <1>9, <1>10, MoreDelivers
<1> SUFFICES ASSUME OnItsWay
             PROVE  OnItsWay'
  BY <1>11 DEF DeliveryInvariant
<1>12. FilesOnTheirWay' /\ Kept /\ IndexNewOf(o) /\ AskedOf(o)
  BY <1>11 DEF OnItsWay
<1>13. ~AtIndex(o)
  BY <1>2 DEF AtIndex, Awaiting
<1>14. IndexNewOf(o)'
  <2>1. op'[o].pc # "reload"
    BY <1>7
  <2> QED
    BY <1>2, <1>12, <1>13, <2>1 DEF IndexNewOf
<1>15. AskedOf(o)'
  <2>1. \A p \in Packages : ~ToSelect(o, p)
    BY <1>2, <1>13 DEF ToSelect
  <2>2. ASSUME NEW p \in Packages, ToEnqueue(o, p)
        PROVE  ToEnqueue(o, p)' \/ AllComing(p)'
    <3>1. PICK i \in DOMAIN op[o].packages : i > n /\ op[o].packages[i] = p
      BY <2>2, <1>5 DEF ToEnqueue
    <3>2. CASE i = n + 1
      <4>1. p = job.of
        BY <3>1, <3>2, <1>8
      <4>2. AllComing(p)'
        BY <4>1, <1>11 DEF AllComing, Coming, Seen, Owed
      <4> QED
        BY <4>2
    <3>3. CASE i # n + 1
      <4>1. i > n + 1 /\ n + 1 # Len(op[o].packages)
        BY <3>1, <3>3, <1>4, <1>7
      <4>2. op'[o].pc = "enqueue" /\ op'[o].packages = op[o].packages /\ i > Len(op'[o].jobs)
        BY <4>1, <1>7, <1>9 DEF KeepsAim
      <4> QED
        BY <3>1, <4>2 DEF ToEnqueue
    <3> QED
      BY <3>2, <3>3
  <2> QED
    BY <1>1, <1>2, <1>7, <1>12, <2>1, <2>2, AskedStays DEF KeepsAim
<1> QED
  BY <1>1, <1>2, <1>7, <1>11, <1>12, <1>14, <1>15, OneStep

-----------------------------------------------------------------------------
(***************************************************************************)
(* All steps, and the theorem                                              *)
(***************************************************************************)
\* Every step keeps what was asked for on its way.
LEMMA StepDelivers ==
    ASSUME Verbose, DeliveryInvariant, [Next]_vars
    PROVE  DeliveryInvariant'
<1>1. Structure'
  BY StepStructure DEF DeliveryInvariant
<1>2. CASE \E o \in Ops, c \in Commands : Begin(o, c)
  BY <1>1, <1>2, BeginDelivers DEF DeliveryInvariant
<1>3. CASE \E p \in Packages : Uninstall(p)
  BY <1>1, <1>3, UninstallDelivers DEF DeliveryInvariant
<1>4. CASE \E o \in Ops : Step(o)
  <2>1. PICK o \in Ops : Step(o)
    BY <1>4
  <2>2. ~Doomed' => OnItsWay'
    BY <2>1, AwaitReadyDelivers, AwaitSuspendDelivers, ApplyIndexDelivers, ReloadDelivers,
       SelectDelivers, EnqueueDelivers, ApplyPackageDelivers, ResetDelivers, CheckDelivers
    DEF Step
  <2> QED
    BY <1>1, <2>2 DEF DeliveryInvariant
<1>5. CASE Download
  <2>1. ~Doomed' => OnItsWay'
    BY <1>5, TakeJobDelivers, CompleteJobDelivers, StatusDelivers DEF Download
  <2> QED
    BY <1>1, <2>1 DEF DeliveryInvariant
<1>6. CASE UNCHANGED vars
  BY <1>1, <1>6, StutterDelivers DEF DeliveryInvariant
<1> QED
  BY <1>2, <1>3, <1>4, <1>5, <1>6 DEF Next

\* Nothing was asked for yet, and nothing is staged.
LEMMA InitialDelivery ==
    ASSUME Init
    PROVE  DeliveryInvariant
<1>1. Structure
  BY InitialStructure
<1>2. /\ world \in Worlds /\ staged = [x \in Places |-> "none"] /\ known = FromDisk(disk)
      /\ disk = [x \in Places |-> IF x[1] = Index THEN world.index
                                  ELSE IF x[1] \in world.installed THEN "old" ELSE "none"]
      /\ \A o \in Ops : op[o] = Idle
  BY DEF Init
<1>3. \A o \in Ops : op[o].pc = "idle" /\ op[o].asked = <<>>
  BY <1>2, IdleTyped
<1>4. \A t, f, s : ~Seen(t, f, s)
  BY <1>3 DEF Seen, Owed, Awaiting
<1>5. \A p \in Packages : Manifest(p) \in {"old", "none"}
  <2> TAKE p \in Packages
  <2>1. <<p, "manifest.xml">> \in Places /\ p # Index /\ <<p, "manifest.xml">>[1] = p
    BY FilesFacts, PlaceFacts DEF Targets
  <2> QED
    BY <1>2, <2>1 DEF Manifest
<1>6. FilesOnTheirWay
  <2>1. StagedWell
    BY <1>2, PlaceFacts DEF StagedWell
  <2>2. SkippedWell
    BY <1>4 DEF SkippedWell
  <2>3. ListedWell
    <3> SUFFICES ASSUME NEW p \in Packages \ Exempt
                 PROVE  /\ Manifest(p) = "new" => AllComing(p)
                        /\ known[p] = "new" => AllComing(p)
                        /\ known[p] # "none" => Manifest(p) # "none"
      BY DEF ListedWell
    <3>1. known[p] = IF Manifest(p) \in {"old", "new"} THEN Manifest(p) ELSE "none"
      BY <1>2 DEF FromDisk, Manifest, Exempt
    <3> QED
      BY <3>1, <1>5
  <2> QED
    BY <2>1, <2>2, <2>3 DEF FilesOnTheirWay
<1>7. \A o \in Ops : IndexNewOf(o) /\ AskedOf(o)
  <2> TAKE o \in Ops
  <2>1. IndexNewOf(o)
    BY <1>3 DEF IndexNewOf
  <2>2. AskedOf(o)
    BY <1>3, NothingVisited DEF AskedOf
  <2> QED
    BY <2>1, <2>2
<1> QED
  BY <1>1, <1>6, <1>7 DEF DeliveryInvariant, OnItsWay

\* Nothing is owed when all is quiet: what was on its way is in place.
LEMMA QuietDelivered ==
    ASSUME DeliveryInvariant
    PROVE  InstalledUnlessReported
<1> SUFFICES ASSUME Quiet, \A o \in Ops : ~op[o].reported,
                    NEW o \in Ops,
                    NEW p \in ToSet(Visited(op[o].asked)) \ (removed \cup world.overridden)
             PROVE  IF p \in world.published THEN Whole(p) ELSE disk[<<p, "manifest.xml">>] # "none"
  BY DEF InstalledUnlessReported
<1>1. \A q \in Ops : op[q].pc \in {"idle", "ended"}
  BY DEF Quiet
<1>2. \A t, f, s : ~Seen(t, f, s)
  BY <1>1 DEF Seen, Owed, Awaiting
<1>3. ~Doomed
  BY <1>2 DEF Doomed
<1>4. Served(o, p)
  <2>1. op[o].asked \in Seq(Packages) /\ world \in Worlds /\ IndexNewOf(o) /\ AskedOf(o) /\ ProgressOf(o)
    BY <1>3 DEF DeliveryInvariant, Structure, Typed, Operation, OnItsWay
  <2>2. op[o].pc # "idle"
    <3> SUFFICES ASSUME op[o].pc = "idle"
                 PROVE  FALSE
      OBVIOUS
    <3>1. op[o].asked = <<>>
      BY <2>1, IdleTyped DEF ProgressOf
    <3>2. Visited(op[o].asked) = <<>> /\ ToSet(<<>>) = {}
      BY <3>1, NothingVisited DEF ToSet
    <3> QED
      BY <3>2
  <2>3. available = "new"
    BY <1>1, <2>1, <2>2 DEF IndexNewOf, AtIndex, Awaiting
  <2>4. p \in Wanted(world, op[o].asked)
    BY <2>1, <2>3, VisitedWanted
  <2> QED
    BY <2>1, <2>4 DEF AskedOf, Exempt
<1>5. ~ToSelect(o, p) /\ ~ToEnqueue(o, p)
  BY <1>1 DEF ToSelect, ToEnqueue, AtIndex, Awaiting
<1>6. AllComing(p) => Whole(p)
  BY <1>2 DEF AllComing, Coming, Whole
<1> QED
  BY <1>4, <1>5, <1>6 DEF Served, Manifest

\* For any number of operations, packages, worlds, failures and removals: once no operation
\* runs, what was asked for, and what the index says it depends on, is in place as published,
\* or its manifest is there if it is not published, unless an operation reported something, or the package was uninstalled or is
\* overridden.  A package file that failed is reported only with verbose_logging on
\* (package_manager.cpp, install_or_update), which is what Verbose says.
THEOREM InstalledHolds ==
    ASSUME Verbose
    PROVE  Spec => []InstalledUnlessReported
<1>1. Init => DeliveryInvariant
  BY InitialDelivery
<1>2. DeliveryInvariant /\ [Next]_vars => DeliveryInvariant'
  BY StepDelivers
<1>3. DeliveryInvariant => InstalledUnlessReported
  BY QuietDelivered
<1> QED
  BY <1>1, <1>2, <1>3, PTL DEF Spec
================================================================================
