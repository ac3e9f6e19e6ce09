-------------------------------- MODULE Updater --------------------------------
(***************************************************************************)
(* The launcher's updater: what is published is compared with what is      *)
(* installed, downloaded beside it, and put in its place by two moves, by  *)
(* the launcher or, if it may not write there, by an elevated helper that  *)
(* runs the same code.  A cleanup process then deletes all downloads, and  *)
(* what was replaced, while the launcher that may have restarted checks    *)
(* again.  Several launchers may run, any may be ended at any step, and    *)
(* any move may fail.                                                      *)
(*                                                                         *)
(* A download is one step; a file that is downloaded is whole.  The server *)
(* publishes a version and its files at once.  An elevated helper ends     *)
(* with its launcher.                                                      *)
(***************************************************************************)
EXTENDS Naturals, FiniteSets

CONSTANTS
    Launchers,      \* processes of the launcher
    MaxRelease,     \* bound: versions published
    MaxCleaners,    \* bound: cleanups at work, for another launcher to start
    MaxHasty,       \* bound: starts while a launcher or a cleanup is at work
    MaxFaults       \* bound: launchers that end, moves that could be made and fail

ASSUME UpdaterAssumption ==
    /\ MaxRelease \in Nat \ {0} /\ MaxCleaners \in Nat
    /\ MaxHasty \in Nat /\ MaxFaults \in Nat

VARIABLES
    release,    \* the versions the server has
    info,       \* what version.xml says
    installed,  \* the versions of windower.exe and core.dll, 0 without the file
    pending,    \* the directory delete_pending: none, there, or with a windower.exe in it
    launcher,   \* what each launcher is at
    emptying,   \* cleanups that have the downloads still to delete
    deleting,   \* cleanups that have delete_pending still to delete
    hasty, faults,
    crossed     \* a cleanup was at work when windower.exe was moved away, and it is missing

updaterVars ==
    <<release, info, installed, pending, launcher, emptying, deleting,
      hasty, faults, crossed>>

Files == {"launcher", "core"}
Versions == 0..MaxRelease
NoFile == 0

NoInfo == [launcher |-> 0, core |-> 0]      \* no document, or one without versions
Torn == [torn |-> TRUE]                     \* Save has not come to its end

\* A launcher: where Update is, the document it saves, what it has to download and has
\* downloaded, what is left of that, whether windower.exe was replaced, and whether the
\* elevated helper is at it; each as long as it is needed.
Off == [pc |-> "off", want |-> NoInfo, todo |-> {}, got |-> {},
        temp |-> NoInfo, replaced |-> FALSE, elevated |-> FALSE]

\* Where InstallUpdates moves a file away, and its download to its place.
Out == [launcher |-> "outLauncher", core |-> "outCore"]
In == [launcher |-> "inLauncher", core |-> "inCore"]
Moves == {Out[f] : f \in Files} \cup {In[f] : f \in Files}

States ==
    [pc : {"off", "check", "save", "fetch", "clean", "restart", "done"} \cup Moves,
     want : [Files -> Versions], todo : SUBSET Files, got : SUBSET Files,
     temp : [Files -> Versions], replaced : BOOLEAN, elevated : BOOLEAN]

UpdaterTypeOK ==
    /\ release \in [Files -> Versions \ {0}]
    /\ info \in [Files -> Versions] \cup {Torn}
    /\ installed \in [Files -> Versions]
    /\ pending \in {"none", "there", "exe"}
    /\ launcher \in [Launchers -> States]
    /\ emptying \in Nat /\ deleting \in Nat
    /\ hasty \in 0..MaxHasty /\ faults \in 0..MaxFaults
    /\ crossed \in BOOLEAN

First == [launcher |-> 1, core |-> 1]

UpdaterInit ==
    /\ release = First
    /\ info \in {NoInfo, First}
    /\ installed = First
    /\ pending = "none"
    /\ launcher = [p \in Launchers |-> Off]
    /\ emptying = 0 /\ deleting = 0
    /\ hasty = 0 /\ faults = 0
    /\ crossed = FALSE

At(p, pc) == launcher[p].pc = pc

\* GetLauncherVersion: that of windower.dll, the entry assembly, which lies beside
\* windower.exe (README.md:25-26) and which no update replaces.
OwnVersion == First["launcher"]

\* The budget of what may go wrong at any step is spent.
Fault == faults < MaxFaults /\ faults' = faults + 1

-----------------------------------------------------------------------------
(***************************************************************************)
(* The server, and the user                                                *)
(***************************************************************************)
Publish ==
    /\ \E files \in SUBSET Files \ {{}} :
            release' = [f \in Files |-> IF f \in files THEN release[f] + 1 ELSE release[f]]
    /\ \A f \in Files : release'[f] <= MaxRelease
    /\ UNCHANGED <<info, installed, pending, launcher, emptying, deleting,
                   hasty, faults, crossed>>

Quiet == emptying = 0 /\ deleting = 0 /\ \A p \in Launchers : At(p, "off")

Started == [Off EXCEPT !.pc = "check"]

Start(p) ==
    /\ At(p, "off")
    /\ installed["launcher"] # NoFile
    /\ emptying + deleting < MaxCleaners
    /\ Quiet \/ hasty < MaxHasty
    /\ hasty' = IF Quiet THEN hasty ELSE hasty + 1
    /\ launcher' = [launcher EXCEPT ![p] = Started]
    /\ UNCHANGED <<release, info, installed, pending, emptying, deleting, faults, crossed>>

\* The launcher has launched a game, or was closed.
CloseLauncher(p) ==
    /\ At(p, "done")
    /\ launcher' = [launcher EXCEPT ![p] = Off]
    /\ UNCHANGED <<release, info, installed, pending, emptying, deleting,
                   hasty, faults, crossed>>

\* A launcher is ended in the middle of an update, or its helper is, or by an exception
\* nobody catches: of a document that cannot be saved, a download that is cut off or
\* times out, a move that is denied to an administrator, to a helper, or when there is no
\* windower.exe to start a helper with.
Kill(p) ==
    /\ launcher[p].pc \notin {"off", "done"}
    /\ Fault
    /\ launcher' = [launcher EXCEPT ![p] = Off]
    /\ UNCHANGED <<release, info, installed, pending, emptying, deleting, hasty, crossed>>

-----------------------------------------------------------------------------
(***************************************************************************)
(* Update: what is new                                                     *)
(***************************************************************************)
\* Mutant of Needs: a core that is not there has nothing to be compared with.
NeedsIfThere(want) ==
    {f \in Files :
        CASE f = "launcher" -> OwnVersion < want[f]
          [] f = "core" -> installed[f] < want[f] /\ installed[f] # NoFile}

\* A core that is not there has the version 0.0, older than the 0.0.0.0 of no document.
Needs(want) ==
    {f \in Files :
        CASE f = "launcher" -> OwnVersion < want[f]
          [] f = "core" -> installed[f] < want[f] \/ installed[f] = NoFile}

Compared(p, want) ==
    launcher' = [launcher EXCEPT
        ![p] = [Off EXCEPT !.pc = "fetch", !.todo = Needs(want)]]

\* GetUpdateInfo, when nothing new was published or the request failed.
CheckLocal(p) ==
    /\ At(p, "check")
    /\ info # Torn
    /\ Compared(p, info)
    /\ UNCHANGED <<release, info, installed, pending, emptying, deleting,
                   hasty, faults, crossed>>

\* There is something new, to be written over version.xml.
CheckServer(p) ==
    /\ At(p, "check")
    /\ info \notin {Torn, release}
    /\ info' = Torn
    /\ launcher' = [launcher EXCEPT ![p].pc = "save", ![p].want = release]
    /\ UNCHANGED <<release, installed, pending, emptying, deleting, hasty, faults, crossed>>

Save(p) ==
    /\ At(p, "save")
    /\ info' = launcher[p].want
    /\ Compared(p, launcher[p].want)
    /\ UNCHANGED <<release, installed, pending, emptying, deleting, hasty, faults, crossed>>

\* version.xml cannot be read: no handler catches that, and the launcher ends.
CheckFails(p) ==
    /\ At(p, "check")
    /\ info = Torn
    /\ launcher' = [launcher EXCEPT ![p] = Off]
    /\ UNCHANGED <<release, info, installed, pending, emptying, deleting,
                   hasty, faults, crossed>>

-----------------------------------------------------------------------------
(***************************************************************************)
(* Update: downloads, the launcher's before the core's                     *)
(***************************************************************************)
\* What is downloaded next.
NextFile(todo) == IF "launcher" \in todo THEN "launcher" ELSE "core"

Downloaded(l, f) ==
    [l EXCEPT !.todo = @ \ {f}, !.got = @ \cup {f}, !.temp[f] = release[f]]

Fetch(p, f) ==
    /\ At(p, "fetch")
    /\ launcher[p].todo # {} /\ f = NextFile(launcher[p].todo)
    /\ launcher' = [launcher EXCEPT ![p] = Downloaded(@, f)]
    /\ UNCHANGED <<release, info, installed, pending, emptying, deleting,
                   hasty, faults, crossed>>

\* An HttpRequestException: Update goes on without the file.
FetchFails(p) ==
    /\ At(p, "fetch")
    /\ launcher[p].todo # {}
    /\ launcher' = [launcher EXCEPT ![p].todo = @ \ {NextFile(@)}]
    /\ UNCHANGED <<release, info, installed, pending, emptying, deleting,
                   hasty, faults, crossed>>

-----------------------------------------------------------------------------
(***************************************************************************)
(* InstallUpdates.  Whatever move fails with an IOException, the rest is   *)
(* left out and the cleanup is started.  What is denied is done again from *)
(* the first move, by the elevated helper.                                 *)
(***************************************************************************)
FirstMove(l) == IF "launcher" \in l.got THEN "outLauncher" ELSE "outCore"

Done == [Off EXCEPT !.pc = "done"]

Fetched(p) == At(p, "fetch") /\ launcher[p].todo = {}

NothingToInstall(p) ==
    /\ Fetched(p)
    /\ launcher[p].got = {}
    /\ launcher' = [launcher EXCEPT ![p] = Done]
    /\ UNCHANGED <<release, info, installed, pending, emptying, deleting,
                   hasty, faults, crossed>>

\* CreateDirectory.
Created(dir) == IF dir = "none" THEN "there" ELSE dir

Install(p) ==
    /\ Fetched(p)
    /\ launcher[p].got # {}
    /\ launcher' = [launcher EXCEPT ![p].pc = FirstMove(launcher[p])]
    /\ pending' = Created(pending)
    /\ UNCHANGED <<release, info, installed, emptying, deleting, hasty, faults, crossed>>

\* The directory, or a move, is denied: the helper, a process of windower.exe, begins anew
\* with what is left of the downloads.
Denied(p) ==
    /\ installed["launcher"] # NoFile
    /\ ~launcher[p].elevated
    /\ \/ Fetched(p) /\ launcher[p].got # {} /\ UNCHANGED faults
       \/ launcher[p].pc \in Moves /\ Fault
    /\ launcher' = [launcher EXCEPT ![p].pc = FirstMove(launcher[p]), ![p].elevated = TRUE,
                                    ![p].replaced = FALSE]
    /\ pending' = Created(pending)
    /\ UNCHANGED <<release, info, installed, emptying, deleting, hasty, crossed>>

\* The user refuses the elevated helper, or the launcher is an administrator's and denied
\* all the same: no handler catches that.
Refuse(p) ==
    /\ Fetched(p)
    /\ launcher[p].got # {}
    /\ launcher' = [launcher EXCEPT ![p] = Off]
    /\ UNCHANGED <<release, info, installed, pending, emptying, deleting,
                   hasty, faults, crossed>>

\* A move finds its file, and a free place in a directory that is there.
CanMoveOut(p, f) == At(p, Out[f]) /\ installed[f] # NoFile /\ pending # "none"
CanMoveIn(p, f) == At(p, In[f]) /\ launcher[p].temp[f] # NoFile /\ installed[f] = NoFile

\* A file is moved to delete_pending.
MoveOut(p, f) ==
    /\ CanMoveOut(p, f)
    /\ installed' = [installed EXCEPT ![f] = NoFile]
    /\ launcher' = [launcher EXCEPT ![p].pc = In[f]]
    /\ IF f = "launcher"
       THEN pending' = "exe" /\ crossed' = (emptying + deleting > 0)
       ELSE UNCHANGED <<pending, crossed>>
    /\ UNCHANGED <<release, info, emptying, deleting, hasty, faults>>

\* The core need not be there: that it is not found is caught by itself.
MissingCore(p) ==
    /\ At(p, Out["core"])
    /\ installed["core"] = NoFile
    /\ launcher' = [launcher EXCEPT ![p].pc = In["core"]]
    /\ UNCHANGED <<release, info, installed, pending, emptying, deleting,
                   hasty, faults, crossed>>

MovedIn(l, f) ==
    [l EXCEPT !.pc = IF f = "launcher" /\ "core" \in l.got THEN Out["core"] ELSE "clean",
              !.temp[f] = NoFile, !.replaced = @ \/ f = "launcher"]

\* A download is moved to its place.
MoveIn(p, f) ==
    /\ CanMoveIn(p, f)
    /\ installed' = [installed EXCEPT ![f] = launcher[p].temp[f]]
    /\ launcher' = [launcher EXCEPT ![p] = MovedIn(@, f)]
    /\ crossed' = (crossed /\ f # "launcher")
    /\ UNCHANGED <<release, info, pending, emptying, deleting, hasty, faults>>

\* An IOException: a cleanup deleted the download or the directory, another launcher took
\* the place, or, with nothing in the way, the disk is full or the file in use.
MoveFails(p) ==
    /\ launcher[p].pc \in Moves
    /\ ~(At(p, Out["core"]) /\ installed["core"] = NoFile)
    /\ IF \E f \in Files : CanMoveOut(p, f) \/ CanMoveIn(p, f) THEN Fault ELSE UNCHANGED faults
    /\ launcher' = [launcher EXCEPT ![p].pc = "clean"]
    /\ UNCHANGED <<release, info, installed, pending, emptying, deleting, hasty, crossed>>

\* Mutant of StartCleanup: the launcher does without a process of windower.exe.
StartCleanupAnyway(p) ==
    /\ At(p, "clean")
    /\ launcher' = [launcher EXCEPT ![p] =
            IF launcher[p].replaced THEN [Off EXCEPT !.pc = "restart"] ELSE Done]
    /\ emptying' = emptying + 1
    /\ UNCHANGED <<release, info, installed, pending, deleting, hasty, faults, crossed>>

\* The cleanup is a process of the launcher's file: without it, the launcher ends.
StartCleanup(p) ==
    /\ At(p, "clean")
    /\ IF installed["launcher"] = NoFile
       THEN /\ launcher' = [launcher EXCEPT ![p] = Off]
            /\ UNCHANGED emptying
       ELSE /\ launcher' = [launcher EXCEPT ![p] =
                    IF launcher[p].replaced THEN [Off EXCEPT !.pc = "restart"] ELSE Done]
            /\ emptying' = emptying + 1
    /\ UNCHANGED <<release, info, installed, pending, deleting, hasty, faults, crossed>>

Restart(p) ==
    /\ At(p, "restart")
    /\ emptying + deleting <= MaxCleaners
    /\ launcher' = [launcher EXCEPT ![p] =
                        IF installed["launcher"] = NoFile THEN Off ELSE Started]
    /\ UNCHANGED <<release, info, installed, pending, emptying, deleting,
                   hasty, faults, crossed>>

-----------------------------------------------------------------------------
(***************************************************************************)
(* CleanUp, in a process of its own                                        *)
(***************************************************************************)
\* The directory of the downloads is deleted, whoever they are for.
EmptyTemp ==
    /\ emptying > 0
    /\ emptying' = emptying - 1 /\ deleting' = deleting + 1
    /\ launcher' = [p \in Launchers |-> [launcher[p] EXCEPT !.temp = NoInfo]]
    /\ UNCHANGED <<release, info, installed, pending, hasty, faults, crossed>>

\* delete_pending is deleted, or a minute has passed in which something in it was in use.
DeletePending ==
    /\ deleting > 0
    /\ deleting' = deleting - 1
    /\ pending' \in IF pending = "none" THEN {"none"} ELSE {"none", "there", pending}
    /\ UNCHANGED <<release, info, installed, launcher, emptying, hasty, faults, crossed>>

-----------------------------------------------------------------------------
Step(p) ==
    \/ CheckLocal(p) \/ CheckServer(p) \/ CheckFails(p) \/ Save(p)
    \/ \E f \in Files : Fetch(p, f)
    \/ FetchFails(p) \/ NothingToInstall(p) \/ Install(p) \/ Denied(p) \/ Refuse(p)
    \/ \E f \in Files : MoveOut(p, f) \/ MoveIn(p, f)
    \/ MissingCore(p) \/ MoveFails(p)
    \/ StartCleanup(p) \/ Restart(p) \/ CloseLauncher(p)

Cleanup == EmptyTemp \/ DeletePending

UpdaterNext ==
    \/ Publish \/ Cleanup
    \/ \E p \in Launchers : Start(p) \/ Kill(p) \/ Step(p)

UpdaterSpec == UpdaterInit /\ [][UpdaterNext]_updaterVars

\* The moves for a core are begun, by the launcher or by the elevated helper.
InstallCore(p) == Fetched(p) /\ "core" \in launcher[p].got /\ (Install(p) \/ Denied(p))

\* Launchers and cleanups go on; the user starts a launcher again; now and then a
\* request succeeds, and the helper that is to install a core is not refused.
UpdaterFairSpec ==
    /\ UpdaterSpec
    /\ WF_updaterVars(\E p \in Launchers : Start(p))
    /\ WF_updaterVars(Cleanup)
    /\ \A p \in Launchers : WF_updaterVars(Step(p))
    /\ SF_updaterVars(\E p \in Launchers : CheckServer(p))
    /\ \A f \in Files : SF_updaterVars(\E p \in Launchers : Fetch(p, f))
    /\ SF_updaterVars(\E p \in Launchers : InstallCore(p))

-----------------------------------------------------------------------------
(***************************************************************************)
(* Properties                                                              *)
(***************************************************************************)
\* Whatever move failed, was denied or came too late, and whichever launcher was ended: as
\* long as windower.exe is missing, the one that was replaced is still in delete_pending,
\* to be moved back, unless a cleanup was at work when it was put there.
ReplacedKept == installed["launcher"] = NoFile /\ ~crossed => pending = "exe"

\* There is no launcher to start, or none that could read version.xml.
Lost ==
    \/ installed["launcher"] = NoFile /\ \A p \in Launchers : At(p, "off")
    \/ info = Torn /\ ~\E p \in Launchers : At(p, "save")

\* A cleanup has deleted the core a launcher has downloaded and not yet put in place, or
\* the directory it moves files to.
Robbed(p) ==
    /\ "core" \in launcher[p].got
    /\ \/ launcher[p].temp["core"] = NoFile /\ ~At(p, "clean")
       \/ pending = "none" /\ \E f \in Files : At(p, Out[f])

\* Whatever was ended, failed or was deleted on the way: once the server publishes no more,
\* the core does not stay missing or old, if there is a launcher left to see to it and it is
\* not robbed again and again.  That can happen: a launcher that restarts may meet the
\* cleanup it started itself, each time.
CoreCatchesUp ==
    \/ <>Lost
    \/ []<>(\E p \in Launchers : Robbed(p))
    \/ []<>(installed["core"] = release["core"])

\* A launcher that restarts itself for an update comes to the end of it.  This fails: once
\* a launcher newer than windower.dll is published, each update replaces windower.exe,
\* finds windower.dll as old as before, and restarts, for ever.
RestartEnds == \A p \in Launchers : At(p, "restart") ~> (At(p, "done") \/ At(p, "off"))
================================================================================
