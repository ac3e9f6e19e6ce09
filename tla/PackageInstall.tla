---------------------------- MODULE PackageInstall ----------------------------
(***************************************************************************)
(* Installing and updating packages: package_manager's coroutines and the  *)
(* thread of the downloader they await (package_manager.cpp, downloader.cpp*)
(* and coroutine.hpp).                                                     *)
(*                                                                         *)
(* An operation starts on the game thread, queues the download of the      *)
(* source's index and is suspended.  The downloader resumes it on its own  *)
(* thread, under the job's mutex, and goes on with the next job when the   *)
(* operation is suspended again.  A future is awaited by a thread that is  *)
(* made for it.  There is one source; its contents do not change.          *)
(***************************************************************************)
EXTENDS Integers, Sequences, FiniteSets, SequencesExt, Positions

CONSTANTS
    Packages,   \* names of packages
    Worlds,     \* what may be published, listed, required and overridden; and at
                \* first installed and listed
    Commands,   \* the commands users give
    Verbose,    \* the setting verbose_logging
    MaxOps,     \* bound: operations
    MaxFailures,\* bound: requests that fail
    MaxRemovals \* bound: packages uninstalled

Index == "index"
Targets == Packages \cup {Index}
\* The files of the index and of a package, in the order they are listed.
Files(t) == IF t = Index THEN <<"packages.xml">> ELSE <<"manifest.xml", "code">>
FilesOf(t) == ToSet(Files(t))
Places == UNION {{t} \X FilesOf(t) : t \in Targets}

World == [published : SUBSET Packages, listed : [Packages -> Seq(Packages)],
          required : [Packages -> SUBSET Packages], overridden : SUBSET Packages,
          installed : SUBSET Packages, index : {"none", "old"}]

\* out_of_date does not end when what is listed depends on itself.
Acyclic(w) ==
    \E rank \in [Packages -> 0 .. Cardinality(Packages)] :
        \A p \in Packages : \A q \in ToSet(w.listed[p]) : rank[q] < rank[p]

Command == [kind : {"install", "update", "updateall"}, names : Seq(Packages), force : BOOLEAN]

ASSUME PackageInstallAssumption ==
    /\ IsFiniteSet(Packages) /\ Index \notin Packages
    /\ Worlds \subseteq World /\ \A w \in Worlds : Acyclic(w)
    /\ Commands \subseteq Command /\ \A c \in Commands : c.force => c.kind = "updateall"
    /\ Verbose \in BOOLEAN
    /\ MaxOps \in Nat /\ MaxFailures \in Nat /\ MaxRemovals \in Nat

VARIABLES
    world,      \* rigid: a member of Worlds
    disk,       \* the files in place, of the index and of each package
    staged,     \* the files in updates/staging and updates/temp
    known,      \* m_installed_packages: the version of each
    available,  \* m_available_packages: the version the index listed
    op,         \* the operations
    queue,      \* m_jobs of the downloader
    busy,       \* the job it is at, or none
    removed,    \* history: the packages uninstalled
    failures    \* how many requests failed

vars == <<world, disk, staged, known, available, op, queue, busy, removed, failures>>

Ops == 1 .. MaxOps
None == <<0, 0>>
Statuses == {"pending", "downloading", "error", "complete", "skipped"}

\* The old version of a file, the published one, or a part of it.
Content == {"none", "old", "part", "new"}

-----------------------------------------------------------------------------
(***************************************************************************)
(* Jobs: what is downloaded, which requests carry the time of the file in  *)
(* place, and how each file came out.                                      *)
(***************************************************************************)
Job(t, force) ==
    [of |-> t,
     timed |-> {f \in FilesOf(t) : ~force /\ disk[<<t, f>>] # "none"},
     status |-> [f \in FilesOf(t) |-> "pending"],
     complete |-> FALSE]

Idle == [pc |-> "idle", asked |-> <<>>, names |-> <<>>, force |-> FALSE, packages |-> <<>>,
         jobs |-> <<>>, k |-> 0, thread |-> "own", modified |-> {}, result |-> {},
         reported |-> FALSE]

Current(o) == op[o].jobs[op[o].k]
OfIndex(o) == Current(o).of = Index

\* bool(result): complete or skipped.
Good(job, f) == job.status[f] \in {"complete", "skipped"}
AllGood(job) == \A f \in FilesOf(job.of) : Good(job, f)

FromDisk(d) ==
    [p \in Packages |->
        IF p \in world.overridden THEN "old"
        ELSE IF d[<<p, "manifest.xml">>] \in {"old", "new"} THEN d[<<p, "manifest.xml">>]
        ELSE "none"]

Init ==
    /\ world \in Worlds
    /\ disk = [x \in Places |-> IF x[1] = Index THEN world.index
                                ELSE IF x[1] \in world.installed THEN "old" ELSE "none"]
    /\ staged = [x \in Places |-> "none"]
    /\ known = FromDisk(disk)
    /\ available = "none"
    /\ op = [o \in Ops |-> Idle]
    /\ queue = <<>> /\ busy = None
    /\ removed = {} /\ failures = 0

-----------------------------------------------------------------------------
(***************************************************************************)
(* The game thread.                                                        *)
(***************************************************************************)
\* An operation is on the game thread until it is suspended for the first time.
OnGameThread(o) ==
    /\ op[o].pc \in {"ready", "suspend", "resumed"}
    /\ OfIndex(o)
    /\ op[o].thread = "own"

GameThreadFree == \A o \in Ops : ~OnGameThread(o)

\* Those of some names that are in a set, copied in their order.
Those(names, S) == Picked(names, InOrder({i \in DOMAIN names : names[i] \in S}))

Asked(c) ==
    LET installed == {p \in Packages : known[p] # "none"} IN
    CASE c.kind = "install" -> Those(c.names, Packages \ installed)
      [] c.kind = "update" -> Those(c.names, installed)
      [] OTHER -> SetToSeq(installed)

\* install, update, update_all up to the co_await in update_sources, which
\* removes all of the staging directory first.
Begin(o, c) ==
    /\ op[o].pc = "idle"
    /\ \A q \in 1 .. o - 1 : op[q].pc # "idle"
    /\ GameThreadFree
    /\ staged' = [staged EXCEPT ![<<Index, "packages.xml">>] = "none"]
    /\ op' = [op EXCEPT ![o] =
                [Idle EXCEPT !.pc = "ready", !.asked = Asked(c), !.names = Asked(c),
                             !.force = c.force, !.jobs = <<Job(Index, c.force)>>,
                             !.k = 1]]
    /\ queue' = Append(queue, <<o, 1>>)
    /\ UNCHANGED <<world, disk, known, available, busy, removed, failures>>

\* uninstall of a package nothing else depends on.
Uninstall(p) ==
    /\ GameThreadFree
    /\ known[p] # "none" /\ p \notin world.overridden
    /\ \A q \in Packages : known[q] # "none" => p \notin world.required[q]
    /\ Cardinality(removed) < MaxRemovals
    /\ disk' = [x \in Places |-> IF x[1] = p THEN "none" ELSE disk[x]]
    /\ known' = [known EXCEPT ![p] = "none"]
    /\ removed' = removed \cup {p}
    /\ UNCHANGED <<world, staged, available, op, queue, busy, failures>>

-----------------------------------------------------------------------------
(***************************************************************************)
(* Awaiting a job: await_ready looks at complete, await_suspend looks      *)
(* again with the job's mutex held, and run sets it with the mutex held.   *)
(***************************************************************************)
AwaitReady(o) ==
    /\ op[o].pc = "ready"
    /\ op' = [op EXCEPT ![o].pc = IF Current(o).complete THEN "resumed" ELSE "suspend"]
    /\ UNCHANGED <<world, disk, staged, known, available, queue, busy, removed, failures>>

\* Mutant of AwaitSuspend: it does not look again.
SuspendBlindly(o) ==
    /\ op[o].pc = "suspend"
    /\ op' = [op EXCEPT ![o].pc = "waiting", ![o].thread = "own"]
    /\ UNCHANGED <<world, disk, staged, known, available, queue, busy, removed, failures>>

AwaitSuspend(o) ==
    /\ op[o].pc = "suspend"
    /\ op' = [op EXCEPT
                ![o].pc = IF Current(o).complete THEN "resumed" ELSE "waiting",
                ![o].thread = IF Current(o).complete THEN @ ELSE "own"]
    /\ UNCHANGED <<world, disk, staged, known, available, queue, busy, removed, failures>>

-----------------------------------------------------------------------------
(***************************************************************************)
(* The thread of the downloader: run and download_file.                    *)
(***************************************************************************)
TakeJob ==
    /\ busy = None
    /\ queue # <<>>
    /\ \A o \in Ops : op[o].thread # "downloader"
    /\ busy' = Head(queue)
    /\ queue' = Tail(queue)
    /\ UNCHANGED <<world, disk, staged, known, available, op, removed, failures>>

BusyJob == op[busy[1]].jobs[busy[2]]
InStaging(f) == <<BusyJob.of, f>>

Becomes(f, status) ==
    op' = [op EXCEPT ![busy[1]].jobs[busy[2]].status[f] = status]

Status(f) == BusyJob.status[f]

Unfinished(f) == Status(f) \in {"pending", "downloading"}

\* The files are taken one after the other.
Turn(f) ==
    /\ busy # None
    /\ LET files == Files(BusyJob.of) IN
       \E i \in DOMAIN files :
          f = files[i] /\ Unfinished(f) /\ \A j \in 1 .. i - 1 : ~Unfinished(files[j])

\* A request without a time of its own carries that of the staged file, and the
\* server has nothing newer.  The time of a file in place is not sent right (the
\* low and high words lose all but eight bits), and never keeps the file from
\* being sent.
NotModified(f) ==
    /\ Turn(f)
    /\ Status(f) = "pending"
    /\ f \notin BusyJob.timed
    /\ staged[InStaging(f)] # "none"
    /\ Becomes(f, "skipped")
    /\ UNCHANGED <<world, disk, staged, known, available, queue, busy, removed, failures>>

\* The request is answered, and the staged file is overwritten.
Receive(f) ==
    /\ Turn(f)
    /\ Status(f) = "pending"
    /\ f \in BusyJob.timed \/ staged[InStaging(f)] = "none"
    /\ staged' = [staged EXCEPT ![InStaging(f)] = "part"]
    /\ Becomes(f, "downloading")
    /\ UNCHANGED <<world, disk, known, available, queue, busy, removed, failures>>

Finish(f) ==
    /\ Turn(f)
    /\ Status(f) = "downloading"
    /\ staged' = [staged EXCEPT ![InStaging(f)] = "new"]
    /\ Becomes(f, "complete")
    /\ UNCHANGED <<world, disk, known, available, queue, busy, removed, failures>>

\* There is no connection, or it ends.
Fail(f) ==
    /\ Turn(f)
    /\ Unfinished(f)
    /\ failures < MaxFailures
    /\ failures' = failures + 1
    /\ Becomes(f, "error")
    /\ UNCHANGED <<world, disk, staged, known, available, queue, busy, removed>>

CompleteJob ==
    /\ busy # None
    /\ \A f \in FilesOf(BusyJob.of) : ~Unfinished(f)
    /\ LET o == busy[1] IN
       op' = IF op[o].pc = "waiting" /\ op[o].k = busy[2]
             THEN [op EXCEPT ![o].jobs[busy[2]].complete = TRUE,
                             ![o].pc = "resumed", ![o].thread = "downloader"]
             ELSE [op EXCEPT ![o].jobs[busy[2]].complete = TRUE]
    /\ busy' = None
    /\ UNCHANGED <<world, disk, staged, known, available, queue, removed, failures>>

Download ==
    \/ TakeJob
    \/ \E f \in {"packages.xml", "manifest.xml", "code"} :
          NotModified(f) \/ Receive(f) \/ Finish(f) \/ Fail(f)
    \/ CompleteJob

-----------------------------------------------------------------------------
(***************************************************************************)
(* What is resumed.                                                        *)
(***************************************************************************)
\* A file the downloader has open cannot be moved.
Open(x) == busy # None /\ x[1] = BusyJob.of /\ Status(x[2]) = "downloading"

Arrived(job) == {<<job.of, f>> : f \in {g \in FilesOf(job.of) : job.status[g] = "complete"}}
Movable(job) == {x \in Arrived(job) : staged[x] # "none" /\ ~Open(x)}

\* fs::rename of each file that is complete; one that fails is reported.
Moved(job) ==
    LET movable == Movable(job) IN
    /\ disk' = [x \in Places |-> IF x \in movable THEN staged[x] ELSE disk[x]]
    /\ staged' = [x \in Places |-> IF x \in movable THEN "none" ELSE staged[x]]

\* update_sources; its future resumes the operation on a thread of its own.
ApplyIndex(o) ==
    /\ op[o].pc = "resumed"
    /\ OfIndex(o)
    /\ Moved(Current(o))
    /\ op' = [op EXCEPT ![o].pc = "reload", ![o].thread = "own",
                        ![o].reported = ~AllGood(Current(o))
                                        \/ Movable(Current(o)) # Arrived(Current(o))]
    /\ UNCHANGED <<world, known, available, queue, busy, removed, failures>>

\* reload_sources.  A part of an index is not XML: check throws, and the future
\* that keeps the exception is dropped.
Reload(o) ==
    /\ op[o].pc = "reload"
    /\ LET index == disk[<<Index, "packages.xml">>] IN
          /\ available' = IF index = "part" THEN "none" ELSE index
          /\ op' = [op EXCEPT ![o].pc = IF index = "part" THEN "ended" ELSE "select",
                              ![o].jobs = <<>>, ![o].k = 0]
    /\ UNCHANGED <<world, disk, staged, known, queue, busy, removed, failures>>

Available(p) == available # "none" /\ p \in world.published

\* The names a call of out_of_date comes to, in its order and with repetitions.
Visits ==
    LET visits[p \in Packages] ==
            IF Available(p)
            THEN <<p>> \o FlattenSeq([i \in 1 .. Len(world.listed[p]) |->
                                         visits[Reverse(world.listed[p])[i]]])
            ELSE <<p>>
    IN visits

Visited(names) == FlattenSeq([i \in 1 .. Len(names) |-> Visits[names[i]]])

Outdated(p) ==
    /\ Available(p)
    /\ known[p] # "none" => known[p] = "old" /\ available = "new" /\ p \notin world.overridden

NotFound(names) == \E p \in ToSet(Visited(names)) : ~Available(p) /\ known[p] = "none"

\* install_or_update: a round begins.
Select(o) ==
    /\ op[o].pc = "select"
    /\ LET packages == Those(Visited(op[o].names), {p \in Packages : Outdated(p)})
           ends == packages = <<>>
       IN op' = [op EXCEPT ![o].pc = IF ends THEN "ended" ELSE "enqueue",
                           ![o].thread = IF ends THEN "own" ELSE @,
                           ![o].packages = packages,
                           ![o].jobs = <<>>,
                           ![o].reported = @ \/ NotFound(op[o].names)]
    /\ UNCHANGED <<world, disk, staged, known, available, queue, busy, removed, failures>>

Enqueue(o) ==
    /\ op[o].pc = "enqueue"
    /\ LET i == Len(op[o].jobs) + 1 IN
          /\ op' = [op EXCEPT ![o].jobs = Append(@, Job(op[o].packages[i], op[o].force)),
                              ![o].pc = IF i = Len(op[o].packages) THEN "ready" ELSE @,
                              ![o].k = 1]
          /\ queue' = Append(queue, <<o, i>>)
    /\ UNCHANGED <<world, disk, staged, known, available, busy, removed, failures>>

Onward(o) == IF op[o].k < Len(op[o].jobs) THEN "ready" ELSE "reset"

\* Mutant of ApplyPackage: what arrived is moved although a file is missing.
ApplyWhatArrived(o) ==
    /\ op[o].pc = "resumed"
    /\ ~OfIndex(o)
    /\ Moved(Current(o))
    /\ op' = [op EXCEPT ![o].pc = Onward(o), ![o].k = IF Onward(o) = "ready" THEN @ + 1 ELSE @]
    /\ UNCHANGED <<world, known, available, queue, busy, removed, failures>>

\* The files of a package are moved when all of them came out well.
ApplyPackage(o) ==
    /\ op[o].pc = "resumed"
    /\ ~OfIndex(o)
    /\ LET job == Current(o)
           failed == IF AllGood(job) THEN Movable(job) # Arrived(job) ELSE Verbose
       IN /\ IF AllGood(job) THEN Moved(job) ELSE UNCHANGED <<disk, staged>>
          /\ op' = [op EXCEPT ![o].pc = Onward(o),
                              ![o].k = IF Onward(o) = "ready" THEN @ + 1 ELSE @,
                              ![o].reported = @ \/ failed]
    /\ UNCHANGED <<world, known, available, queue, busy, removed, failures>>

Reset(o) ==
    /\ op[o].pc = "reset"
    /\ known' = FromDisk(disk)
    /\ op' = [op EXCEPT ![o].pc = "check", ![o].jobs = <<>>, ![o].k = 0]
    /\ UNCHANGED <<world, disk, staged, available, queue, busy, removed, failures>>

\* The next round is for what is required and missing.
Check(o) ==
    /\ op[o].pc = "check"
    /\ LET done == ToSet(op[o].packages)
           modified == op[o].modified \cup done
           missing == SetToSeq({q \in Packages : known[q] = "none" /\
                         \E p \in done : known[p] # "none" /\ q \in world.required[p]})
           ends == missing = <<>>
       IN op' = [op EXCEPT ![o].pc = IF ends THEN "ended" ELSE "select",
                           ![o].thread = IF ends THEN "own" ELSE @,
                           ![o].names = missing,
                           ![o].packages = <<>>,
                           ![o].modified = modified,
                           ![o].result = IF ends THEN modified ELSE {}]
    /\ UNCHANGED <<world, disk, staged, known, available, queue, busy, removed, failures>>

Step(o) ==
    \/ AwaitReady(o)
    \/ AwaitSuspend(o)
    \/ ApplyIndex(o)
    \/ Reload(o)
    \/ Select(o)
    \/ Enqueue(o)
    \/ ApplyPackage(o)
    \/ Reset(o)
    \/ Check(o)

Next ==
    \/ \E o \in Ops, c \in Commands : Begin(o, c)
    \/ \E p \in Packages : Uninstall(p)
    \/ \E o \in Ops : Step(o)
    \/ Download

Spec == Init /\ [][Next]_vars

-----------------------------------------------------------------------------
(***************************************************************************)
(* Properties                                                              *)
(***************************************************************************)
TypeOK ==
    /\ world \in Worlds
    /\ disk \in [Places -> Content] /\ staged \in [Places -> {"none", "part", "new"}]
    /\ known \in [Packages -> {"none", "old", "new"}]
    /\ available \in {"none", "old", "new"}
    /\ removed \subseteq Packages /\ failures \in 0 .. MaxFailures
    /\ \A i \in 1 .. Len(queue) : queue[i][1] \in Ops /\ queue[i][2] \in 1 .. Len(op[queue[i][1]].jobs)
    /\ busy # None => busy[2] \in 1 .. Len(op[busy[1]].jobs) /\ ~BusyJob.complete
    /\ \A o \in Ops :
          /\ op[o].pc \in {"idle", "ready", "suspend", "waiting", "resumed", "reload", "select",
                           "enqueue", "reset", "check", "ended"}
          /\ op[o].pc \in {"ready", "suspend", "waiting", "resumed"} => op[o].k \in 1 .. Len(op[o].jobs)
          /\ op[o].thread = "downloader" =>
                busy = None /\ \A q \in Ops \ {o} : op[q].thread = "own"
          /\ op[o].result \subseteq op[o].modified

Quiet == \A o \in Ops : op[o].pc \in {"idle", "ended"}

Whole(p) == \A f \in FilesOf(p) : disk[<<p, f>>] = "new"

\* When everything asked for has ended and nothing was reported to the user, what
\* was asked for is in place as published, with all that the index says it depends
\* on, however the operations were interleaved.
InstalledUnlessReported ==
    Quiet /\ (\A o \in Ops : ~op[o].reported) =>
        \A o \in Ops : \A p \in ToSet(Visited(op[o].asked)) \ (removed \cup world.overridden) :
            IF p \in world.published THEN Whole(p) ELSE disk[<<p, "manifest.xml">>] # "none"

\* A package that is listed as installed in its published version has all of its
\* files.  This fails: a file that a failed download left staged is answered with
\* 304 when it is asked for again, and what is not modified is not moved.
InstalledWhole == Quiet => \A p \in Packages : known[p] = "new" => Whole(p)

\* A coroutine that is suspended has its job before it: the thread of the
\* downloader will come to it and find the coroutine there.
NeverForgotten ==
    \A o \in Ops : op[o].pc = "waiting" =>
        <<o, op[o].k>> = busy \/ <<o, op[o].k>> \in ToSet(queue)
=============================================================================
