----------------------------- MODULE LauncherProofs ----------------------------
(***************************************************************************)
(* Proofs about the two halves of the launcher, its updater and the way it *)
(* launches a game.                                                        *)
(*                                                                         *)
(* Updater: for any number of launchers, cleanups, versions and faults, a  *)
(* windower.exe that is missing is still in delete_pending, unless a       *)
(* cleanup was at work when it was moved there.                            *)
(*                                                                         *)
(* RemoteLaunch: a launch, in the launcher or in a helper, for any number  *)
(* of attempts, both ways games are started, and games that end at any     *)
(* time.  The core is there before the program, nothing stays suspended,   *)
(* and the launcher goes on only when a launch has ended.  GameStart and   *)
(* RemoteLaunch are connected by "at" alone: what a launch leaves in the   *)
(* game is told by where LaunchAsync is (LaunchInvariant), and where it    *)
(* is, by the call that has it done (CallInvariant).                       *)
(***************************************************************************)
EXTENDS Updater, RemoteLaunch, TLAPS

-----------------------------------------------------------------------------
(***************************************************************************)
(* The invariant of the updater                                            *)
(***************************************************************************)
\* A windower.exe that is missing, and was moved away while no cleanup was at work, is in
\* delete_pending; and no cleanup has been started since, which would take a windower.exe.
Kept ==
    installed["launcher"] = NoFile /\ ~crossed =>
        pending = "exe" /\ emptying = 0 /\ deleting = 0

UpdaterInvariant == UpdaterTypeOK /\ Kept

\* A document that was half written is not one with versions.
LEMMA TornDiffers == Torn \notin [Files -> Versions]
<1>1. DOMAIN Torn = {"torn"}
  BY DEF Torn
<1>2. ASSUME Torn \in [Files -> Versions]
      PROVE  FALSE
  <2>1. DOMAIN Torn = Files
    BY <1>2
  <2> QED
    BY <1>1, <2>1 DEF Files
<1> QED
  BY <1>2

\* What is said of versions and of places.
LEMMA VersionFacts ==
    /\ 0 \in Versions /\ Versions \subseteq Nat
    /\ NoInfo \in [Files -> Versions] /\ First \in [Files -> Versions \ {0}]
    /\ Off \in States /\ Done \in States /\ Started \in States
    /\ \A f \in Files : Out[f] \in Moves /\ In[f] \in Moves
<1>1. 0 \in Versions /\ 1 \in Versions /\ Versions \subseteq Nat
  BY UpdaterAssumption DEF Versions
<1>2. NoInfo \in [Files -> Versions] /\ First \in [Files -> Versions \ {0}]
  BY <1>1 DEF NoInfo, First, Files
<1>3. \A f \in Files : Out[f] \in Moves /\ In[f] \in Moves
  BY DEF Moves
<1> QED
  BY <1>1, <1>2, <1>3 DEF Off, Done, Started, States

\* Where a launcher may be.
Places == {"off", "check", "save", "fetch", "clean", "restart", "done"} \cup Moves

\* A launcher that goes on to another place is one.
LEMMA GoesOn ==
    ASSUME UpdaterTypeOK, NEW p \in Launchers, NEW pc \in Places,
           launcher' = [launcher EXCEPT ![p].pc = pc]
    PROVE  launcher' \in [Launchers -> States]
<1>1. [launcher[p] EXCEPT !.pc = pc] \in States
  BY DEF UpdaterTypeOK, States, Places
<1> QED
  BY <1>1 DEF UpdaterTypeOK

\* A step of one launcher that leaves the files as they are.
LEMMA LauncherKeeps ==
    ASSUME UpdaterInvariant, launcher' \in [Launchers -> States],
           UNCHANGED <<release, info, installed, emptying, deleting, crossed>>,
           pending' \in {pending, Created(pending)},
           hasty' \in 0..MaxHasty, faults' \in 0..MaxFaults
    PROVE  UpdaterInvariant'
<1>1. pending' \in {"none", "there", "exe"} /\ (pending = "exe" => pending' = "exe")
  BY DEF Created, UpdaterInvariant, UpdaterTypeOK
<1>2. UpdaterTypeOK'
  BY <1>1 DEF UpdaterInvariant, UpdaterTypeOK
<1>3. Kept'
  BY <1>1 DEF UpdaterInvariant, Kept
<1> QED
  BY <1>2, <1>3 DEF UpdaterInvariant

\* The budget of faults is kept to.
LEMMA FaultCounted ==
    ASSUME UpdaterTypeOK, Fault \/ UNCHANGED faults
    PROVE  faults' \in 0..MaxFaults
BY UpdaterAssumption DEF Fault, UpdaterTypeOK

-----------------------------------------------------------------------------
(***************************************************************************)
(* Every step keeps it                                                     *)
(***************************************************************************)
\* At the start everything is installed.
LEMMA InitUpdater == UpdaterInit => UpdaterInvariant
<1> SUFFICES ASSUME UpdaterInit
             PROVE  UpdaterInvariant
  OBVIOUS
<1>1. UpdaterTypeOK
  <2>1. launcher \in [Launchers -> States]
    BY VersionFacts DEF UpdaterInit
  <2>2. /\ release \in [Files -> Versions \ {0}] /\ installed \in [Files -> Versions]
        /\ info \in [Files -> Versions]
    BY VersionFacts DEF UpdaterInit
  <2>3. crossed \in BOOLEAN
    BY Zenon DEF UpdaterInit
  <2>4. emptying \in Nat /\ deleting \in Nat /\ pending \in {"none", "there", "exe"}
    BY DEF UpdaterInit
  <2>5. hasty \in 0..MaxHasty /\ faults \in 0..MaxFaults
    BY UpdaterAssumption DEF UpdaterInit
  <2> QED
    BY <2>1, <2>2, <2>3, <2>4, <2>5 DEF UpdaterTypeOK
<1>2. Kept
  BY DEF UpdaterInit, Kept, NoFile, First
<1> QED
  BY <1>1, <1>2 DEF UpdaterInvariant

\* The server changes no file here; and no cleanup is at work that could.
LEMMA OthersKeep ==
    ASSUME UpdaterInvariant, Publish \/ Cleanup
    PROVE  UpdaterInvariant'
<1>1. CASE Publish
  <2>1. release' \in [Files -> Versions \ {0}]
    <3>1. PICK files \in SUBSET Files \ {{}} :
            release' = [f \in Files |-> IF f \in files THEN release[f] + 1 ELSE release[f]]
      BY <1>1 DEF Publish
    <3>2. \A f \in Files : release'[f] <= MaxRelease
      BY <1>1 DEF Publish
    <3> QED
      BY <3>1, <3>2, UpdaterAssumption DEF UpdaterInvariant, UpdaterTypeOK, Versions
  <2>2. UpdaterTypeOK'
    BY <1>1, <2>1 DEF Publish, UpdaterInvariant, UpdaterTypeOK
  <2>3. Kept'
    BY <1>1 DEF Publish, UpdaterInvariant, Kept
  <2> QED
    BY <2>2, <2>3 DEF UpdaterInvariant
<1>2. CASE EmptyTemp
  <2>1. launcher' \in [Launchers -> States]
    BY <1>2, VersionFacts DEF EmptyTemp, UpdaterInvariant, UpdaterTypeOK, States
  <2>2. UpdaterTypeOK'
    BY <1>2, <2>1 DEF EmptyTemp, UpdaterInvariant, UpdaterTypeOK
  <2>3. Kept'
    BY <1>2 DEF EmptyTemp, UpdaterInvariant, Kept
  <2> QED
    BY <2>2, <2>3 DEF UpdaterInvariant
<1>3. CASE DeletePending
  <2>1. pending' \in {"none", "there", "exe"} /\ deleting' \in Nat
    BY <1>3 DEF DeletePending, UpdaterInvariant, UpdaterTypeOK
  <2>2. UpdaterTypeOK'
    BY <1>3, <2>1 DEF DeletePending, UpdaterInvariant, UpdaterTypeOK
  <2>3. Kept'
    BY <1>3 DEF DeletePending, UpdaterInvariant, Kept
  <2> QED
    BY <2>2, <2>3 DEF UpdaterInvariant
<1> QED
  BY <1>1, <1>2, <1>3 DEF Cleanup

\* Starting, ending, closing and restarting a launcher change none of the files.
LEMMA ProcessKeeps ==
    ASSUME UpdaterInvariant, NEW p \in Launchers,
           Start(p) \/ CloseLauncher(p) \/ Kill(p) \/ Restart(p)
    PROVE  UpdaterInvariant'
<1>1. launcher' \in [Launchers -> States]
  BY VersionFacts DEF Start, CloseLauncher, Kill, Restart, UpdaterInvariant, UpdaterTypeOK
<1>2. hasty' \in 0..MaxHasty
  BY UpdaterAssumption DEF Start, CloseLauncher, Kill, Restart, UpdaterInvariant, UpdaterTypeOK
<1>3. faults' \in 0..MaxFaults
  BY FaultCounted DEF Start, CloseLauncher, Kill, Restart, UpdaterInvariant
<1> QED
  BY <1>1, <1>2, <1>3, LauncherKeeps DEF Start, CloseLauncher, Kill, Restart

\* What is to be downloaded is known from a document that was read whole.
LEMMA ComparedIs ==
    ASSUME UpdaterTypeOK, NEW p \in Launchers, NEW want, Compared(p, want)
    PROVE  launcher' \in [Launchers -> States]
<1>1. Needs(want) \subseteq Files
  BY DEF Needs
<1>2. [Off EXCEPT !.pc = "fetch", !.todo = Needs(want)] \in States
  BY <1>1, VersionFacts DEF Off, States
<1> QED
  BY <1>2 DEF Compared, UpdaterTypeOK

\* version.xml is written over.
LEMMA CheckKeeps ==
    ASSUME UpdaterInvariant, NEW p \in Launchers,
           CheckLocal(p) \/ CheckServer(p) \/ CheckFails(p) \/ Save(p)
    PROVE  UpdaterInvariant'
<1>1. CASE CheckLocal(p) \/ CheckFails(p)
  <2>1. launcher' \in [Launchers -> States]
    BY <1>1, ComparedIs, VersionFacts DEF CheckLocal, CheckFails, UpdaterInvariant, UpdaterTypeOK
  <2> QED
    BY <1>1, <2>1, LauncherKeeps DEF CheckLocal, CheckFails, UpdaterInvariant, UpdaterTypeOK
<1>2. CASE CheckServer(p)
  <2>1. [launcher[p] EXCEPT !.pc = "save", !.want = release] \in States
    BY DEF UpdaterInvariant, UpdaterTypeOK, States
  <2>2. launcher' \in [Launchers -> States]
    BY <1>2, <2>1 DEF CheckServer, UpdaterInvariant, UpdaterTypeOK
  <2>3. UpdaterTypeOK'
    BY <1>2, <2>2 DEF CheckServer, UpdaterInvariant, UpdaterTypeOK
  <2>4. Kept'
    BY <1>2 DEF CheckServer, UpdaterInvariant, Kept
  <2> QED
    BY <2>3, <2>4 DEF UpdaterInvariant
<1>3. CASE Save(p)
  <2>1. launcher[p].want \in [Files -> Versions]
    BY DEF UpdaterInvariant, UpdaterTypeOK, States
  <2>2. launcher' \in [Launchers -> States]
    BY <1>3, ComparedIs DEF Save, UpdaterInvariant
  <2>3. UpdaterTypeOK'
    BY <1>3, <2>1, <2>2 DEF Save, UpdaterInvariant, UpdaterTypeOK
  <2>4. Kept'
    BY <1>3 DEF Save, UpdaterInvariant, Kept
  <2> QED
    BY <2>3, <2>4 DEF UpdaterInvariant
<1> QED
  BY <1>1, <1>2, <1>3

\* Downloads change none of the files that are installed.
LEMMA FetchKeeps ==
    ASSUME UpdaterInvariant, NEW p \in Launchers,
           (\E f \in Files : Fetch(p, f)) \/ FetchFails(p) \/ NothingToInstall(p)
    PROVE  UpdaterInvariant'
<1>1. launcher' \in [Launchers -> States]
  <2>0. launcher[p] \in States
    BY DEF UpdaterInvariant, UpdaterTypeOK
  <2>1. ASSUME NEW f \in Files, Fetch(p, f)
        PROVE  launcher' \in [Launchers -> States]
    <3>1. /\ [launcher[p].temp EXCEPT ![f] = release[f]] \in [Files -> Versions]
          /\ launcher[p].todo \ {f} \in SUBSET Files /\ launcher[p].got \cup {f} \in SUBSET Files
      BY <2>0, <2>1 DEF UpdaterInvariant, UpdaterTypeOK, States
    <3>2. Downloaded(launcher[p], f) =
            [launcher[p] EXCEPT !.todo = launcher[p].todo \ {f},
                                !.got = launcher[p].got \cup {f},
                                !.temp = [launcher[p].temp EXCEPT ![f] = release[f]]]
      BY <2>0 DEF Downloaded, States
    <3>3. Downloaded(launcher[p], f) \in States
      BY <2>0, <3>1, <3>2 DEF States
    <3>4. launcher' = [launcher EXCEPT ![p] = Downloaded(launcher[p], f)]
      BY <2>1 DEF Fetch
    <3> QED
      BY <3>3, <3>4 DEF UpdaterInvariant, UpdaterTypeOK
  <2>2. CASE FetchFails(p)
    <3> DEFINE l == [launcher[p] EXCEPT !.todo = launcher[p].todo \ {NextFile(launcher[p].todo)}]
    <3>1. l \in States
      BY <2>0 DEF States
    <3>2. launcher' = [launcher EXCEPT ![p] = l]
      BY <2>2 DEF FetchFails, UpdaterInvariant, UpdaterTypeOK
    <3> HIDE DEF l
    <3> QED
      BY <3>1, <3>2 DEF UpdaterInvariant, UpdaterTypeOK
  <2>3. CASE NothingToInstall(p)
    BY <2>3, VersionFacts DEF NothingToInstall, UpdaterInvariant, UpdaterTypeOK
  <2> QED
    BY <2>1, <2>2, <2>3
<1>2. UNCHANGED <<release, info, installed, pending, emptying, deleting, hasty, faults, crossed>>
  BY Zenon DEF Fetch, FetchFails, NothingToInstall
<1> QED
  BY <1>1, <1>2, LauncherKeeps DEF UpdaterInvariant, UpdaterTypeOK

\* What is done before the moves, again from the first, or instead of one.
LEMMA InstallKeeps ==
    ASSUME UpdaterInvariant, NEW p \in Launchers,
           Install(p) \/ Denied(p) \/ Refuse(p) \/ MissingCore(p) \/ MoveFails(p)
    PROVE  UpdaterInvariant'
<1>0. launcher[p] \in States /\ FirstMove(launcher[p]) \in Places
  BY DEF UpdaterInvariant, UpdaterTypeOK, FirstMove, Places, Moves, Out, Files
<1>1. CASE Install(p)
  <2>1. launcher' \in [Launchers -> States]
    BY <1>0, <1>1, GoesOn DEF Install, UpdaterInvariant
  <2> QED
    BY <1>1, <2>1, LauncherKeeps DEF Install, UpdaterInvariant, UpdaterTypeOK
<1>2. CASE Denied(p)
  <2> DEFINE l == [launcher[p] EXCEPT !.pc = FirstMove(launcher[p]), !.elevated = TRUE,
                                      !.replaced = FALSE]
  <2>1. l \in States
    BY <1>0 DEF States, Places
  <2>2. launcher' = [launcher EXCEPT ![p] = l]
    BY <1>2 DEF Denied, UpdaterInvariant, UpdaterTypeOK
  <2> HIDE DEF l
  <2>3. launcher' \in [Launchers -> States]
    BY <2>1, <2>2 DEF UpdaterInvariant, UpdaterTypeOK
  <2>4. faults' \in 0..MaxFaults
    BY <1>2, FaultCounted DEF Denied, UpdaterInvariant
  <2> QED
    BY <1>2, <2>3, <2>4, LauncherKeeps DEF Denied, UpdaterInvariant, UpdaterTypeOK
<1>3. CASE Refuse(p)
  BY <1>3, VersionFacts, LauncherKeeps DEF Refuse, UpdaterInvariant, UpdaterTypeOK
<1>4. CASE MissingCore(p)
  <2>1. In["core"] \in Places
    BY VersionFacts DEF Files, Places
  <2>2. launcher' \in [Launchers -> States]
    BY <1>4, <2>1, GoesOn DEF MissingCore, UpdaterInvariant
  <2> QED
    BY <1>4, <2>2, LauncherKeeps DEF MissingCore, UpdaterInvariant, UpdaterTypeOK
<1>5. CASE MoveFails(p)
  <2>1. launcher' \in [Launchers -> States]
    BY <1>5, GoesOn DEF MoveFails, UpdaterInvariant, Places
  <2>2. faults' \in 0..MaxFaults
    BY <1>5, FaultCounted DEF MoveFails, UpdaterInvariant
  <2> QED
    BY <1>5, <2>1, <2>2, LauncherKeeps DEF MoveFails, UpdaterInvariant, UpdaterTypeOK
<1> QED
  BY <1>1, <1>2, <1>3, <1>4, <1>5

\* windower.exe is moved to delete_pending, and no cleanup is at work unless it is recorded.
LEMMA MoveOutKeeps ==
    ASSUME UpdaterInvariant, NEW p \in Launchers, NEW f \in Files, MoveOut(p, f)
    PROVE  UpdaterInvariant'
<1>1. launcher' \in [Launchers -> States]
  <2>1. In[f] \in Places
    BY VersionFacts DEF Places
  <2> QED
    BY <2>1, GoesOn DEF MoveOut, UpdaterInvariant
<1>2. installed' = [installed EXCEPT ![f] = NoFile] /\ installed' \in [Files -> Versions]
  BY VersionFacts DEF MoveOut, NoFile, UpdaterInvariant, UpdaterTypeOK
<1>3. UNCHANGED <<release, info, emptying, deleting, hasty, faults>>
  BY DEF MoveOut
<1>4. CASE f = "launcher"
  <2>1. pending' = "exe"
    BY <1>4, Zenon DEF MoveOut
  <2>2. crossed' = (emptying + deleting > 0)
    BY <1>4, Zenon DEF MoveOut
  <2>3. crossed' \in BOOLEAN
    BY <2>2
  <2>4. UpdaterTypeOK'
    BY <1>1, <1>2, <1>3, <2>1, <2>3 DEF UpdaterInvariant, UpdaterTypeOK
  <2>5. ~crossed' => ~(emptying + deleting > 0)
    BY <2>2, Zenon
  <2>6. ~(emptying + deleting > 0) => emptying = 0 /\ deleting = 0
    BY DEF UpdaterInvariant, UpdaterTypeOK
  <2>7. Kept'
    BY <1>3, <2>1, <2>5, <2>6 DEF Kept
  <2> QED
    BY <2>4, <2>7 DEF UpdaterInvariant
<1>5. CASE f # "launcher"
  <2>1. UNCHANGED <<pending, crossed>>
    BY <1>5, Zenon DEF MoveOut
  <2>2. installed'["launcher"] = installed["launcher"]
    BY <1>2, <1>5 DEF UpdaterInvariant, UpdaterTypeOK, Files
  <2>3. UpdaterTypeOK'
    BY <1>1, <1>2, <1>3, <2>1 DEF UpdaterInvariant, UpdaterTypeOK
  <2>4. Kept'
    BY <1>3, <2>1, <2>2 DEF UpdaterInvariant, Kept
  <2> QED
    BY <2>3, <2>4 DEF UpdaterInvariant
<1> QED
  BY <1>4, <1>5

\* A windower.exe that is moved in is not missing.
LEMMA MoveInKeeps ==
    ASSUME UpdaterInvariant, NEW p \in Launchers, NEW f \in Files, MoveIn(p, f)
    PROVE  UpdaterInvariant'
<1>0. launcher[p] \in States /\ launcher[p].temp \in [Files -> Versions]
  BY DEF UpdaterInvariant, UpdaterTypeOK, States
<1>1. launcher' \in [Launchers -> States]
  <2> DEFINE next == IF f = "launcher" /\ "core" \in launcher[p].got THEN Out["core"] ELSE "clean"
  <2>1. next \in Places
    BY VersionFacts DEF Places, Files
  <2>2. [launcher[p].temp EXCEPT ![f] = NoFile] \in [Files -> Versions]
    BY <1>0, VersionFacts DEF NoFile
  <2>3. (launcher[p].replaced \/ f = "launcher") \in BOOLEAN
    BY Zenon
  <2>4. MovedIn(launcher[p], f) =
            [launcher[p] EXCEPT !.pc = next,
                                !.temp = [launcher[p].temp EXCEPT ![f] = NoFile],
                                !.replaced = launcher[p].replaced \/ f = "launcher"]
    BY <1>0 DEF MovedIn, States
  <2> HIDE DEF next
  <2>5. MovedIn(launcher[p], f) \in States
    BY <1>0, <2>1, <2>2, <2>3, <2>4 DEF States, Places
  <2>6. launcher' = [launcher EXCEPT ![p] = MovedIn(launcher[p], f)]
    BY DEF MoveIn
  <2> QED
    BY <2>5, <2>6 DEF UpdaterInvariant, UpdaterTypeOK
<1>2. /\ installed' = [installed EXCEPT ![f] = launcher[p].temp[f]]
      /\ launcher[p].temp[f] # NoFile
      /\ installed' \in [Files -> Versions]
  BY <1>0 DEF MoveIn, CanMoveIn, UpdaterInvariant, UpdaterTypeOK
<1>3. crossed' = (crossed /\ f # "launcher")
  BY DEF MoveIn
<1>4. crossed' \in BOOLEAN
  BY <1>3, Zenon
<1>5. UpdaterTypeOK'
  BY <1>1, <1>2, <1>4 DEF MoveIn, UpdaterInvariant, UpdaterTypeOK
<1>6. Kept'
  <2>1. CASE f = "launcher"
    BY <1>2, <2>1 DEF UpdaterInvariant, UpdaterTypeOK, Kept
  <2>2. CASE f # "launcher"
    <3>1. installed'["launcher"] = installed["launcher"]
      BY <1>2, <2>2 DEF UpdaterInvariant, UpdaterTypeOK, Files
    <3> QED
      BY <1>3, <2>2, <3>1 DEF MoveIn, UpdaterInvariant, Kept
  <2> QED
    BY <2>1, <2>2
<1> QED
  BY <1>5, <1>6 DEF UpdaterInvariant

\* A cleanup is started only where windower.exe is.
LEMMA StartCleanupKeeps ==
    ASSUME UpdaterInvariant, NEW p \in Launchers, StartCleanup(p)
    PROVE  UpdaterInvariant'
<1>1. launcher' \in [Launchers -> States]
  <2>1. [Off EXCEPT !.pc = "restart"] \in States
    BY VersionFacts DEF Off, States
  <2> QED
    BY <2>1, VersionFacts DEF StartCleanup, UpdaterInvariant, UpdaterTypeOK
<1>2. UpdaterTypeOK'
  BY <1>1 DEF StartCleanup, UpdaterInvariant, UpdaterTypeOK
<1>3. Kept'
  BY DEF StartCleanup, UpdaterInvariant, Kept
<1> QED
  BY <1>2, <1>3 DEF UpdaterInvariant

\* Every step keeps the invariant.
LEMMA NextUpdater == UpdaterInvariant /\ [UpdaterNext]_updaterVars => UpdaterInvariant'
<1> SUFFICES ASSUME UpdaterInvariant, [UpdaterNext]_updaterVars
             PROVE  UpdaterInvariant'
  OBVIOUS
<1>1. CASE Publish \/ Cleanup
  BY <1>1, OthersKeep
<1>2. ASSUME NEW p \in Launchers, Start(p) \/ Kill(p)
      PROVE  UpdaterInvariant'
  BY <1>2, ProcessKeeps
<1>3. ASSUME NEW p \in Launchers, Step(p)
      PROVE  UpdaterInvariant'
  <2>1. CASE CheckLocal(p) \/ CheckServer(p) \/ CheckFails(p) \/ Save(p)
    BY <2>1, CheckKeeps
  <2>2. CASE (\E f \in Files : Fetch(p, f)) \/ FetchFails(p) \/ NothingToInstall(p)
    BY <2>2, FetchKeeps
  <2>3. CASE Install(p) \/ Denied(p) \/ Refuse(p) \/ MissingCore(p) \/ MoveFails(p)
    BY <2>3, InstallKeeps
  <2>4. CASE \E f \in Files : MoveOut(p, f) \/ MoveIn(p, f)
    BY <2>4, MoveOutKeeps, MoveInKeeps
  <2>5. CASE StartCleanup(p)
    BY <2>5, StartCleanupKeeps
  <2>6. CASE Restart(p) \/ CloseLauncher(p)
    BY <2>6, ProcessKeeps
  <2> QED
    BY <1>3, <2>1, <2>2, <2>3, <2>4, <2>5, <2>6 DEF Step
<1>4. CASE UNCHANGED updaterVars
  BY <1>4 DEF updaterVars, UpdaterInvariant, UpdaterTypeOK, Kept
<1> QED
  BY <1>1, <1>2, <1>3, <1>4 DEF UpdaterNext

-----------------------------------------------------------------------------
(***************************************************************************)
(* The theorems                                                            *)
(***************************************************************************)
\* What is known of the installation and of the launchers between any two steps.
THEOREM UpdaterInvariantHolds == UpdaterSpec => []UpdaterInvariant
<1> QED
  BY InitUpdater, NextUpdater, PTL DEF UpdaterSpec

\* The variables keep their types, for any number of launchers, versions and cleanups.
THEOREM UpdaterTypeOKHolds == UpdaterSpec => []UpdaterTypeOK
<1>1. UpdaterInvariant => UpdaterTypeOK
  BY DEF UpdaterInvariant
<1> QED
  BY <1>1, UpdaterInvariantHolds, PTL

\* Whatever move failed or was denied, and whichever launcher was ended: a windower.exe that
\* is missing can be had back from delete_pending, unless a cleanup was at work when it was
\* moved there.
THEOREM ReplacedKeptHolds == UpdaterSpec => []ReplacedKept
<1>1. UpdaterInvariant => ReplacedKept
  BY DEF UpdaterInvariant, Kept, ReplacedKept
<1> QED
  BY <1>1, UpdaterInvariantHolds, PTL

-----------------------------------------------------------------------------
(***************************************************************************)
(* The invariant of a launch                                               *)
(***************************************************************************)
\* A game that was created waits at a place of its main thread; that of Steam runs.
Held(place) ==
    IF way = "pol" THEN suspended /\ where = place ELSE ~suspended /\ where = "program"

\* Nothing of a game is there yet.
Fresh ==
    /\ game = "none" /\ ~suspended /\ ~patched /\ where = "start"
    /\ core = "none" /\ ~taken

\* Its thread was let go, as long as the game is there.
LetGo == ~suspended /\ (patched => game = "ended")

\* What the launcher has done to the game, by where it is.
LaunchInvariant ==
    /\ LaunchTypeOK
    /\ at # "lost"
    /\ flag => core = "ready"
    /\ outcome = "none" <=> at # "ended"
    /\ why # "none" => at \in {"release", "kill", "ended"}
    /\ at \in {"idle", "create"} => Fresh
    /\ at = "channel" => core = "none" /\ ~patched /\ Held("start")
    /\ at = "patch" => way = "pol" /\ core = "none" /\ ~patched /\ taken /\ Held("start")
    /\ at = "spin" => way = "pol" /\ core = "none" /\ taken /\ patched /\ ~suspended /\ where # "program"
    /\ at = "load" => core = "none" /\ ~patched /\ taken /\ Held("entry")
    /\ at = "finish" => ~patched /\ taken /\ Held("entry")
    /\ at = "release" =>
          /\ patched => game = "ended"
          /\ why = "none" => core = "ready" /\ taken /\ Held("entry")
          /\ why = "cancelled" => taken
    /\ at = "window" => LetGo /\ taken /\ core = "ready"
    /\ at = "kill" => LetGo /\ taken /\ why = "cancelled"
    /\ at = "ended" =>
          /\ LetGo
          /\ outcome = "cancelled" => ~taken \/ game = "ended"
          /\ outcome = "done" => core = "ready"

\* At most three calls for an attempt.
CallsCounted ==
    /\ calls <= 3 * attempts
    /\ ui = "fix" => calls + 2 <= 3 * attempts
    /\ ui = "check" => calls + 1 <= 3 * attempts

\* What the last helper is at, by where the call is; the others have answered.
HelpersInvariant ==
    /\ \A c \in Calls : c < calls => helper[c] \in {"answered", "gone"}
    /\ \A c \in Calls : c > calls => helper[c] = "none"
    /\ call # "none" => calls > 0
    /\ call = "start" => helper[calls] = "none"
    /\ call = "connect" => helper[calls] = "started"
    /\ call = "reading" => helper[calls] \in {"connected", "running", "answered", "gone"}
    /\ call = "none" /\ calls > 0 =>
          helper[calls] \in {"answered", "gone"} \cup (IF ui = "broken" THEN {"none"} ELSE {})
    /\ \A c \in Calls : helper[c] = "running" => c \in holders

\* An answer is read after it was written.
AnswerInvariant ==
    /\ runner # "failed"
    /\ call \in {"start", "connect"} => answer = "none"
    /\ call = "reading" => (answer = "none" <=> helper[calls] \in {"connected", "running"})
    /\ runner = "done" => answer # "none"
    /\ call = "reading" /\ ui = "launch" /\ answer = "ok" => at = "ended" /\ outcome = "done"

\* A launch is under way only in the window that waits for it, or in the helper that does.
PlaceInvariant ==
    /\ ui \in {"fix", "check"} => at = "idle" /\ call # "none"
    /\ ui \in {"choose", "closed", "broken"} => at \in {"idle", "ended"} /\ call = "none"
    /\ ui = "closed" => outcome = "done"
    /\ ui = "launch" /\ ~elevate => call = "none" /\ at # "idle"
    /\ ui = "launch" /\ elevate =>
          /\ call # "none"
          /\ helper[calls] \in {"none", "started", "connected"} => at = "idle"
          /\ helper[calls] \in {"answered", "gone"} => at = "ended"

CallInvariant == CallsCounted /\ HelpersInvariant /\ AnswerInvariant /\ PlaceInvariant

RemoteLaunchInvariant == TypeOK /\ LaunchInvariant /\ CallInvariant

-----------------------------------------------------------------------------
(***************************************************************************)
(* Steps of the launch                                                     *)
(***************************************************************************)
\* A launch that has not begun finds nothing in its way.
LEMMA LaunchInitHolds == LaunchInit => LaunchInvariant
BY GameStartAssumption DEF LaunchInit, LaunchInvariant, LaunchTypeOK, Fresh

LEMMA NewLaunchHolds == NewLaunch => LaunchInvariant'
BY DEF NewLaunch, LaunchInvariant, LaunchTypeOK, Fresh

\* Each step of LaunchAsync leaves the game as the place it comes to has it.
LEMMA LauncherStepHolds ==
    ASSUME LaunchInvariant, LauncherStep
    PROVE  LaunchInvariant'
<1> USE DEF launch, shared, process
<1>1. CASE CreateGame
  <2>1. CASE outcome' = outcome
    BY <1>1, <2>1 DEF CreateGame, LaunchInvariant, LaunchTypeOK, Fresh, Held, Ended
  <2>2. CASE Ended("failed") /\ UNCHANGED <<game, suspended, where>>
    BY <1>1, <2>2 DEF CreateGame, LaunchInvariant, LaunchTypeOK, Fresh, LetGo, Ended
  <2> QED
    BY <1>1, <2>1, <2>2 DEF CreateGame
<1>2. CASE StopFinding
  BY <1>2 DEF StopFinding, LaunchInvariant, LaunchTypeOK, Fresh, LetGo, Ended
<1>3. CASE OpenChannel
  <2>1. CASE LeaveWith("failed")
    <3>1. /\ at = "channel" /\ at' = "release" /\ why' = "failed" /\ channel' = FALSE
          /\ UNCHANGED <<way, asked, outcome, flag, game, suspended, where, patched, core>>
      BY <1>3, <2>1 DEF OpenChannel, LeaveWith
    <3>2. taken' \in BOOLEAN
      BY <1>3, <2>1, Zenon DEF OpenChannel, LeaveWith
    <3> QED
      BY <3>1, <3>2 DEF LaunchInvariant, LaunchTypeOK
  <2>2. CASE ~LeaveWith("failed")
    <3>1. at' = IF way = "steam" THEN "load" ELSE "patch"
      BY <1>3, <2>2 DEF OpenChannel
    <3> QED
      BY <1>3, <2>2, <3>1, GameStartAssumption DEF OpenChannel, LaunchInvariant, LaunchTypeOK, Held
  <2> QED
    BY <2>1, <2>2
<1>4. CASE PatchEntry
  <2>1. CASE LeaveEntry
    BY <1>4, <2>1 DEF PatchEntry, LaunchInvariant, LaunchTypeOK, Held, LeaveWith, LeaveEntry
  <2>2. CASE ~LeaveEntry
    BY <1>4, <2>2 DEF PatchEntry, LaunchInvariant, LaunchTypeOK, Held
  <2> QED
    BY <2>1, <2>2
<1>5. CASE ReachEntry
  BY <1>5 DEF ReachEntry, LaunchInvariant, LaunchTypeOK, Held, LeaveWith
<1>6. CASE LoadCore
  BY <1>6 DEF LoadCore, LaunchInvariant, LaunchTypeOK, Held, LeaveWith
<1>7. CASE Finish
  BY <1>7 DEF Finish, LaunchInvariant, LaunchTypeOK, Held, LeaveWith
<1>8. CASE ReleaseGame
  <2>1. /\ at = "release" /\ ~suspended'
        /\ UNCHANGED <<way, asked, taken, channel, flag, game, where, patched, core>>
        /\ \/ Ended("failed") /\ UNCHANGED why
           \/ why = "cancelled" /\ at' = "kill" /\ UNCHANGED <<outcome, why>>
           \/ why = "none" /\ at' = "window" /\ UNCHANGED <<outcome, why>>
    BY <1>8 DEF ReleaseGame, LaunchInvariant, LaunchTypeOK
  <2>2. suspended' = FALSE
    BY <1>8 DEF ReleaseGame
  <2> QED
    BY <2>1, <2>2, ZenonT(30) DEF LaunchInvariant, LaunchTypeOK, LetGo, Ended
<1>9. CASE AwaitWindow
  BY <1>9 DEF AwaitWindow, LaunchInvariant, LaunchTypeOK, LetGo, Ended
<1>10. CASE KillGame
  BY <1>10 DEF KillGame, LaunchInvariant, LaunchTypeOK, LetGo, Ended
<1> QED
  BY <1>1, <1>2, <1>3, <1>4, <1>5, <1>6, <1>7, <1>8, <1>9, <1>10 DEF LauncherStep

\* The entry point has its bytes back, or there is no game.
LEMMA LoseEntryHolds ==
    ASSUME LaunchInvariant, LoseEntry
    PROVE  LaunchInvariant'
BY DEF LoseEntry, LaunchInvariant, LaunchTypeOK, LeaveWith, LeaveEntry, shared

LEMMA FindGameHolds ==
    ASSUME LaunchInvariant, FindGame
    PROVE  LaunchInvariant'
BY DEF FindGame, LaunchInvariant, LaunchTypeOK, Fresh, Held, shared

\* What the threads of the game do is what the launcher waits for, or is too late for it.
LEMMA GameHolds ==
    ASSUME LaunchInvariant, GameStep \/ EndGame
    PROVE  LaunchInvariant'
<1> USE DEF launch, shared, process
<1>1. CASE MainThread
  BY <1>1 DEF MainThread, LaunchInvariant, LaunchTypeOK, Fresh, Held, LetGo
<1>2. CASE InstallHooks
  BY <1>2 DEF InstallHooks, LaunchInvariant, LaunchTypeOK, Fresh, Held, LetGo
<1>3. CASE ReadSettings
  BY <1>3 DEF ReadSettings, LaunchInvariant, LaunchTypeOK, Fresh, Held, LetGo
<1>4. CASE SignalRead
  BY <1>4, ZenonT(30) DEF SignalRead, LaunchInvariant, LaunchTypeOK, Fresh, Held, LetGo
<1>5. CASE EndGame
  BY <1>5 DEF EndGame, LaunchInvariant, LaunchTypeOK, Fresh, Held, LetGo
<1> QED
  BY <1>1, <1>2, <1>3, <1>4, <1>5 DEF GameStep

-----------------------------------------------------------------------------
(***************************************************************************)
(* Steps of the window and of the calls                                    *)
(***************************************************************************)
LEMMA LaunchUnchanged ==
    ASSUME LaunchInvariant, UNCHANGED launchVars
    PROVE  LaunchInvariant'
BY DEF LaunchInvariant, LaunchTypeOK, Fresh, Held, LetGo, launchVars, launch, shared, process

\* A cancellation is only looked at by the launch.
LEMMA AskedHolds ==
    ASSUME LaunchInvariant, asked' \in BOOLEAN,
           UNCHANGED <<way, at, why, taken, outcome, shared, process>>
    PROVE  LaunchInvariant'
BY DEF LaunchInvariant, LaunchTypeOK, Fresh, Held, LetGo, shared, process

\* A launch begins where none has, and finds nothing in its way.
LEMMA BeginHolds ==
    ASSUME LaunchInvariant, at = "idle", at' = "create",
           UNCHANGED <<way, asked, why, taken, outcome, shared, process>>
    PROVE  LaunchInvariant'
BY DEF LaunchInvariant, LaunchTypeOK, Fresh, Held, LetGo, shared, process

\* The number of the last call is one of Calls, and there is one left for the next.
LEMMA CallNumbers ==
    ASSUME RemoteLaunchInvariant
    PROVE  /\ calls \in Nat /\ (calls > 0 => calls \in Calls)
           /\ ui \in {"fix", "check"} => calls + 1 \in Calls
           /\ attempts < MaxAttempts => calls + 1 \in Calls
           /\ Calls = 1..MaxCalls /\ MaxCalls \in Nat
BY RemoteLaunchAssumption DEF RemoteLaunchInvariant, TypeOK, CallInvariant, CallsCounted, Calls, MaxCalls

\* A profile is chosen when all calls before are over.
LEMMA ChooseHolds ==
    ASSUME RemoteLaunchInvariant, Choose
    PROVE  RemoteLaunchInvariant'
<1>1. TypeOK /\ LaunchInvariant /\ CallsCounted /\ HelpersInvariant /\ AnswerInvariant /\ PlaceInvariant
  BY DEF RemoteLaunchInvariant, CallInvariant
<1>2. LaunchInvariant'
  BY NewLaunchHolds DEF Choose
<1>3. /\ ui = "choose" /\ ui' \in {"fix", "check"}
      /\ call = "none" /\ call' = "start" /\ calls' = calls + 1
      /\ runner' = "off" /\ canceller' = "off" /\ answer' = "none"
      /\ attempts < MaxAttempts /\ attempts' = attempts + 1
      /\ elevate' \in BOOLEAN /\ token' = FALSE /\ at' = "idle"
      /\ UNCHANGED <<helper, holders, signal>>
  BY <1>1 DEF Choose, BeginCall, NewLaunch, event, PlaceInvariant
<1>4. TypeOK'
  <2>1. attempts' \in 0..MaxAttempts /\ calls' \in 0..MaxCalls
    BY <1>1, <1>3, CallNumbers, RemoteLaunchAssumption DEF TypeOK
  <2>2. LaunchTypeOK'
    BY <1>2 DEF LaunchInvariant
  <2> QED
    BY <1>1, <1>3, <2>1, <2>2 DEF TypeOK
<1>5. CallsCounted'
  BY <1>1, <1>3, CallNumbers DEF TypeOK, CallsCounted
<1>6. HelpersInvariant'
  <2>1. \A c \in Calls : c < calls + 1 => c < calls \/ c = calls
    BY CallNumbers
  <2>2. \A c \in Calls : c < calls' => helper'[c] \in {"answered", "gone"}
    BY <1>1, <1>3, <2>1, CallNumbers DEF TypeOK, HelpersInvariant
  <2> QED
    BY <1>1, <1>3, <2>2, CallNumbers DEF HelpersInvariant
<1>7. AnswerInvariant' /\ PlaceInvariant'
  BY <1>1, <1>3 DEF AnswerInvariant, PlaceInvariant
<1> QED
  BY <1>2, <1>4, <1>5, <1>6, <1>7 DEF RemoteLaunchInvariant, CallInvariant

\* The user cancels.
LEMMA CancelHolds ==
    ASSUME RemoteLaunchInvariant, Cancel
    PROVE  RemoteLaunchInvariant'
<1>1. TypeOK /\ LaunchInvariant /\ CallsCounted /\ HelpersInvariant /\ AnswerInvariant /\ PlaceInvariant
  BY DEF RemoteLaunchInvariant, CallInvariant
<1>2. LaunchInvariant'
  BY <1>1, AskedHolds, GameStartAssumption DEF Cancel, TypeOK, LaunchTypeOK
<1>3. TypeOK'
  BY <1>1, <1>2, CallNumbers DEF Cancel, TypeOK, LaunchInvariant, HelpersInvariant, PlaceInvariant, view, remote, event
<1>4. CallsCounted' /\ HelpersInvariant'
  BY <1>1, CallNumbers DEF Cancel, TypeOK, CallsCounted, HelpersInvariant, AnswerInvariant, PlaceInvariant, view, remote, event
<1>5. AnswerInvariant' /\ PlaceInvariant'
  BY <1>1, CallNumbers DEF Cancel, TypeOK, CallsCounted, HelpersInvariant, AnswerInvariant, PlaceInvariant, LaunchInvariant, view, remote, event
<1> QED
  BY <1>2, <1>3, <1>4, <1>5 DEF RemoteLaunchInvariant, CallInvariant

\* The launch the launcher made itself has ended.
LEMMA DirectOverHolds ==
    ASSUME RemoteLaunchInvariant, DirectOver
    PROVE  RemoteLaunchInvariant'
<1>1. TypeOK /\ LaunchInvariant /\ CallsCounted /\ HelpersInvariant /\ AnswerInvariant /\ PlaceInvariant
  BY DEF RemoteLaunchInvariant, CallInvariant
<1>2. LaunchInvariant'
  BY <1>1, LaunchUnchanged, GameStartAssumption DEF DirectOver
<1>3. TypeOK'
  BY <1>1, <1>2, CallNumbers DEF DirectOver, TypeOK, LaunchInvariant, HelpersInvariant, PlaceInvariant, remote, event, launchVars, launch
<1>4. CallsCounted' /\ HelpersInvariant'
  BY <1>1, CallNumbers DEF DirectOver, TypeOK, CallsCounted, HelpersInvariant, AnswerInvariant, PlaceInvariant, remote, event, launchVars, launch
<1>5. AnswerInvariant' /\ PlaceInvariant'
  BY <1>1, CallNumbers DEF DirectOver, TypeOK, CallsCounted, HelpersInvariant, AnswerInvariant, PlaceInvariant, LaunchInvariant, remote, event, launchVars, launch
<1> QED
  BY <1>2, <1>3, <1>4, <1>5 DEF RemoteLaunchInvariant, CallInvariant

\* A call that is over is followed by another, by the launch, or by none.
LEMMA CallOverCases ==
    ASSUME CallOver
    PROVE  /\ call = "reading" /\ runner \in {"done", "failed"}
           /\ UNCHANGED <<way, asked, why, taken, outcome, shared, process, attempts, elevate,
                         token, helper, event>>
           /\ \/ /\ answer # "ok" /\ ui' = "broken" /\ call' = "none"
                 /\ UNCHANGED <<calls, runner, canceller, answer, at>>
              \/ /\ answer = "ok" /\ ui = "fix" /\ ui' = "check" /\ BeginCall /\ UNCHANGED at
              \/ /\ answer = "ok" /\ ui = "check" /\ elevate /\ ui' = "launch"
                 /\ BeginCall /\ UNCHANGED at
              \/ /\ answer = "ok" /\ ui = "check" /\ ~elevate /\ ui' = "launch"
                 /\ at' = "create" /\ call' = "none"
                 /\ UNCHANGED <<calls, runner, canceller, answer>>
              \/ /\ answer = "ok" /\ ui = "launch" /\ ui' = "closed" /\ call' = "none"
                 /\ UNCHANGED <<calls, runner, canceller, answer, at>>
              \/ ui \notin {"fix", "check", "launch"}
BY DEF CallOver

\* A call that is over.
LEMMA CallOverHolds ==
    ASSUME RemoteLaunchInvariant, CallOver
    PROVE  RemoteLaunchInvariant'
<1>1. TypeOK /\ LaunchInvariant /\ CallsCounted /\ HelpersInvariant /\ AnswerInvariant /\ PlaceInvariant
  BY DEF RemoteLaunchInvariant, CallInvariant
<1>2. /\ call = "reading" /\ calls \in Calls /\ ui \in {"fix", "check", "launch"}
      /\ helper[calls] \in {"answered", "gone"} /\ answer # "none"
      /\ UNCHANGED <<way, asked, why, taken, outcome, shared, process, attempts, elevate,
                    token, helper, holders, signal>>
  BY <1>1, CallOverCases, CallNumbers DEF TypeOK, CallsCounted, HelpersInvariant, AnswerInvariant, PlaceInvariant, event
<1>3. \A c \in Calls : c < calls + 1 => helper[c] \in {"answered", "gone"}
  <2>1. \A c \in Calls : c < calls + 1 => c < calls \/ c = calls
    BY CallNumbers
  <2> QED
    BY <1>1, <1>2, <2>1 DEF HelpersInvariant
<1>4. CASE /\ ui' = "broken" /\ call' = "none"
           /\ UNCHANGED <<calls, runner, canceller, answer, at>>
  <2>1. LaunchInvariant'
    BY <1>1, <1>2, <1>4, LaunchUnchanged DEF launchVars, launch
  <2>2. at \in {"idle", "ended"}
    BY <1>1, <1>2 DEF PlaceInvariant
  <2> QED
    BY <1>1, <1>2, <1>4, <2>1, <2>2, CallNumbers
    DEF RemoteLaunchInvariant, CallInvariant, LaunchInvariant, TypeOK, CallsCounted, HelpersInvariant, AnswerInvariant, PlaceInvariant
<1>5. CASE /\ ui' \in {"check", "launch"} /\ ui \in {"fix", "check"} /\ BeginCall /\ UNCHANGED at
           /\ ui' = "launch" => ui = "check" /\ elevate
           /\ ui' = "check" => ui = "fix"
  <2>1. LaunchInvariant'
    BY <1>1, <1>2, <1>5, LaunchUnchanged DEF launchVars, launch
  <2>2. calls' = calls + 1 /\ calls' \in Calls /\ calls' \in 0..MaxCalls /\ call' = "start"
    BY <1>5, CallNumbers DEF BeginCall
  <2>3. TypeOK'
    BY <1>1, <1>2, <1>5, <2>1, <2>2 DEF TypeOK, LaunchInvariant, BeginCall
  <2>4. CallsCounted'
    BY <1>1, <1>2, <1>5, <2>2, CallNumbers DEF TypeOK, CallsCounted
  <2>5. HelpersInvariant'
    BY <1>1, <1>2, <1>3, <2>2, CallNumbers DEF HelpersInvariant
  <2>6. AnswerInvariant' /\ PlaceInvariant'
    BY <1>1, <1>2, <1>5, <2>2, <2>5 DEF AnswerInvariant, PlaceInvariant, HelpersInvariant, BeginCall
  <2> QED
    BY <2>1, <2>3, <2>4, <2>5, <2>6 DEF RemoteLaunchInvariant, CallInvariant
<1>6. CASE /\ ui = "check" /\ ~elevate /\ ui' = "launch"
           /\ at' = "create" /\ call' = "none"
           /\ UNCHANGED <<calls, runner, canceller, answer>>
  <2>1. LaunchInvariant'
    BY <1>1, <1>2, <1>6, BeginHolds DEF PlaceInvariant
  <2> QED
    BY <1>1, <1>2, <1>6, <2>1, CallNumbers
    DEF RemoteLaunchInvariant, CallInvariant, LaunchInvariant, TypeOK, CallsCounted, HelpersInvariant, AnswerInvariant, PlaceInvariant
<1>7. CASE /\ answer = "ok" /\ ui = "launch" /\ ui' = "closed" /\ call' = "none"
           /\ UNCHANGED <<calls, runner, canceller, answer, at>>
  <2>1. LaunchInvariant'
    BY <1>1, <1>2, <1>7, LaunchUnchanged DEF launchVars, launch
  <2> QED
    BY <1>1, <1>2, <1>7, <2>1, CallNumbers
    DEF RemoteLaunchInvariant, CallInvariant, LaunchInvariant, TypeOK, CallsCounted, HelpersInvariant, AnswerInvariant, PlaceInvariant
<1> QED
  BY <1>2, <1>4, <1>5, <1>6, <1>7, CallOverCases

\* A helper is started, or refused.
LEMMA StartHelperHolds ==
    ASSUME RemoteLaunchInvariant, StartHelper
    PROVE  RemoteLaunchInvariant'
<1>1. TypeOK /\ LaunchInvariant /\ CallsCounted /\ HelpersInvariant /\ AnswerInvariant /\ PlaceInvariant
  BY DEF RemoteLaunchInvariant, CallInvariant
<1>2. LaunchInvariant'
  BY <1>1, LaunchUnchanged DEF StartHelper
<1>3. TypeOK'
  BY <1>1, <1>2, CallNumbers DEF StartHelper, TypeOK, LaunchInvariant, HelpersInvariant, PlaceInvariant, launchVars, launch, event
<1>4. CallsCounted' /\ HelpersInvariant'
  BY <1>1, CallNumbers DEF StartHelper, TypeOK, CallsCounted, HelpersInvariant, AnswerInvariant, PlaceInvariant, launchVars, launch, event
<1>5. AnswerInvariant' /\ PlaceInvariant'
  BY <1>1, CallNumbers DEF StartHelper, TypeOK, CallsCounted, HelpersInvariant, AnswerInvariant, PlaceInvariant, LaunchInvariant, launchVars, launch, event
<1> QED
  BY <1>2, <1>3, <1>4, <1>5 DEF RemoteLaunchInvariant, CallInvariant

\* It is connected, and told what to do.
LEMMA ConnectHolds ==
    ASSUME RemoteLaunchInvariant, Connect
    PROVE  RemoteLaunchInvariant'
<1>1. TypeOK /\ LaunchInvariant /\ CallsCounted /\ HelpersInvariant /\ AnswerInvariant /\ PlaceInvariant
  BY DEF RemoteLaunchInvariant, CallInvariant
<1>2. LaunchInvariant'
  BY <1>1, LaunchUnchanged DEF Connect
<1>3. /\ call = "connect" /\ call' = "reading" /\ calls \in Calls
      /\ helper[calls] = "started" /\ helper' = [helper EXCEPT ![calls] = "connected"]
      /\ runner' = "reading" /\ canceller' \in {"waiting", "off"}
      /\ UNCHANGED <<ui, attempts, elevate, token, calls, answer, holders, signal, at, outcome>>
  BY <1>1, CallNumbers DEF Connect, HelpersInvariant, view, event, launchVars, launch
<1>4. TypeOK'
  BY <1>1, <1>2, <1>3 DEF TypeOK, LaunchInvariant
<1>5. CallsCounted' /\ HelpersInvariant'
  BY <1>1, <1>3, CallNumbers DEF TypeOK, CallsCounted, HelpersInvariant
<1>6. AnswerInvariant'
  BY <1>1, <1>3 DEF TypeOK, AnswerInvariant
<1>7. PlaceInvariant'
  BY <1>1, <1>3 DEF TypeOK, PlaceInvariant
<1> QED
  BY <1>2, <1>4, <1>5, <1>6, <1>7 DEF RemoteLaunchInvariant, CallInvariant

\* Its answer is read.
LEMMA ReadAnswerHolds ==
    ASSUME RemoteLaunchInvariant, ReadAnswer
    PROVE  RemoteLaunchInvariant'
<1>1. TypeOK /\ LaunchInvariant /\ CallsCounted /\ HelpersInvariant /\ AnswerInvariant /\ PlaceInvariant
  BY DEF RemoteLaunchInvariant, CallInvariant
<1>2. LaunchInvariant'
  BY <1>1, LaunchUnchanged DEF ReadAnswer
<1>3. TypeOK'
  BY <1>1, <1>2, CallNumbers DEF ReadAnswer, TypeOK, LaunchInvariant, HelpersInvariant, PlaceInvariant, view, launchVars, launch, event
<1>4. CallsCounted' /\ HelpersInvariant'
  BY <1>1, CallNumbers DEF ReadAnswer, TypeOK, CallsCounted, HelpersInvariant, AnswerInvariant, PlaceInvariant, view, launchVars, launch, event
<1>5. AnswerInvariant' /\ PlaceInvariant'
  BY <1>1, CallNumbers DEF ReadAnswer, TypeOK, CallsCounted, HelpersInvariant, AnswerInvariant, PlaceInvariant, LaunchInvariant, view, launchVars, launch, event
<1> QED
  BY <1>2, <1>3, <1>4, <1>5 DEF RemoteLaunchInvariant, CallInvariant

\* A cancellation is passed on to it.
LEMMA PassCancelOnHolds ==
    ASSUME RemoteLaunchInvariant, PassCancelOn
    PROVE  RemoteLaunchInvariant'
<1>1. TypeOK /\ LaunchInvariant /\ CallsCounted /\ HelpersInvariant /\ AnswerInvariant /\ PlaceInvariant
  BY DEF RemoteLaunchInvariant, CallInvariant
<1>2. LaunchInvariant'
  BY <1>1, LaunchUnchanged DEF PassCancelOn
<1>3. TypeOK'
  BY <1>1, <1>2, CallNumbers DEF PassCancelOn, TypeOK, LaunchInvariant, HelpersInvariant, PlaceInvariant, view, launchVars, launch, Open
<1>4. CallsCounted' /\ HelpersInvariant'
  BY <1>1, CallNumbers DEF PassCancelOn, TypeOK, CallsCounted, HelpersInvariant, AnswerInvariant, PlaceInvariant, view, launchVars, launch, Open
<1>5. AnswerInvariant' /\ PlaceInvariant'
  BY <1>1, CallNumbers DEF PassCancelOn, TypeOK, CallsCounted, HelpersInvariant, AnswerInvariant, PlaceInvariant, LaunchInvariant, view, launchVars, launch, Open
<1> QED
  BY <1>2, <1>3, <1>4, <1>5 DEF RemoteLaunchInvariant, CallInvariant

\* The task that would, ends.
LEMMA EndCancellerHolds ==
    ASSUME RemoteLaunchInvariant, EndCanceller
    PROVE  RemoteLaunchInvariant'
<1>1. TypeOK /\ LaunchInvariant /\ CallsCounted /\ HelpersInvariant /\ AnswerInvariant /\ PlaceInvariant
  BY DEF RemoteLaunchInvariant, CallInvariant
<1>2. LaunchInvariant'
  BY <1>1, LaunchUnchanged DEF EndCanceller
<1>3. TypeOK'
  BY <1>1, <1>2, CallNumbers DEF EndCanceller, TypeOK, LaunchInvariant, HelpersInvariant, PlaceInvariant, view, launchVars, launch, event
<1>4. CallsCounted' /\ HelpersInvariant'
  BY <1>1, CallNumbers DEF EndCanceller, TypeOK, CallsCounted, HelpersInvariant, AnswerInvariant, PlaceInvariant, view, launchVars, launch, event
<1>5. AnswerInvariant' /\ PlaceInvariant'
  BY <1>1, CallNumbers DEF EndCanceller, TypeOK, CallsCounted, HelpersInvariant, AnswerInvariant, PlaceInvariant, LaunchInvariant, view, launchVars, launch, event
<1> QED
  BY <1>2, <1>3, <1>4, <1>5 DEF RemoteLaunchInvariant, CallInvariant

\* A handle of the event is collected.
LEMMA CollectHolds ==
    ASSUME RemoteLaunchInvariant, Collect
    PROVE  RemoteLaunchInvariant'
<1>1. TypeOK /\ LaunchInvariant /\ CallsCounted /\ HelpersInvariant /\ AnswerInvariant /\ PlaceInvariant
  BY DEF RemoteLaunchInvariant, CallInvariant
<1>2. LaunchInvariant'
  BY <1>1, LaunchUnchanged DEF Collect
<1>3. TypeOK'
  <2>1. LaunchTypeOK' /\ UNCHANGED <<view, remote, helper>>
    BY <1>2 DEF LaunchInvariant, Collect
  <2>2. /\ holders' \subseteq {0} \cup Calls /\ signal' \in BOOLEAN
        /\ signal' => holders' # {}
    BY <1>1 DEF Collect, Close, TypeOK
  <2> QED
    BY <1>1, <2>1, <2>2 DEF TypeOK, view, remote
<1>4. CallsCounted' /\ HelpersInvariant'
  BY <1>1, CallNumbers DEF Collect, TypeOK, CallsCounted, HelpersInvariant, AnswerInvariant, PlaceInvariant, view, remote, launchVars, launch, Close
<1>5. AnswerInvariant' /\ PlaceInvariant'
  BY <1>1, CallNumbers DEF Collect, TypeOK, CallsCounted, HelpersInvariant, AnswerInvariant, PlaceInvariant, LaunchInvariant, view, remote, launchVars, launch, Close
<1> QED
  BY <1>2, <1>3, <1>4, <1>5 DEF RemoteLaunchInvariant, CallInvariant

-----------------------------------------------------------------------------
(***************************************************************************)
(* Steps of the helpers                                                    *)
(***************************************************************************)
\* The helper looks for the method: there is one, or it answers with an error.
LEMMA ExecuteHolds ==
    ASSUME RemoteLaunchInvariant, Running, Execute
    PROVE  RemoteLaunchInvariant'
<1>1. TypeOK /\ LaunchInvariant /\ CallsCounted /\ HelpersInvariant /\ AnswerInvariant /\ PlaceInvariant
  BY DEF RemoteLaunchInvariant, CallInvariant
<1>2. /\ calls \in Calls /\ helper[calls] = "connected" /\ call = "reading"
      /\ UNCHANGED <<ui, attempts, elevate, token, call, calls, runner, canceller>>
      /\ UNCHANGED <<way, asked, why, taken, outcome, shared, process>>
  BY <1>1, CallNumbers DEF Execute, Running, HelpersInvariant, TypeOK, view
<1>3. CASE /\ answer' = "error" /\ UNCHANGED <<event, at>> /\ ui # "launch"
           /\ helper' = [helper EXCEPT ![calls] = "answered"]
  <2>1. LaunchInvariant'
    BY <1>1, <1>2, <1>3, LaunchUnchanged DEF launchVars, launch
  <2>2. TypeOK'
    BY <1>1, <1>2, <1>3, <2>1 DEF TypeOK, LaunchInvariant, event
  <2>3. CallsCounted' /\ HelpersInvariant'
    BY <1>1, <1>2, <1>3, CallNumbers DEF TypeOK, CallsCounted, HelpersInvariant, event
  <2>4. AnswerInvariant' /\ PlaceInvariant'
    BY <1>1, <1>2, <1>3 DEF TypeOK, AnswerInvariant, PlaceInvariant
  <2> QED
    BY <2>1, <2>2, <2>3, <2>4 DEF RemoteLaunchInvariant, CallInvariant
<1>4. CASE /\ helper' = [helper EXCEPT ![calls] = "running"] /\ Open(calls, FALSE)
           /\ at' = IF ui = "launch" THEN "create" ELSE at
           /\ UNCHANGED answer
  <2>1. LaunchInvariant'
    <3>1. CASE ui = "launch"
      BY <1>1, <1>2, <1>4, <3>1, BeginHolds DEF PlaceInvariant
    <3>2. CASE ui # "launch"
      BY <1>1, <1>2, <1>4, <3>2, LaunchUnchanged DEF launchVars, launch
    <3> QED
      BY <3>1, <3>2
  <2>2. TypeOK'
    BY <1>1, <1>2, <1>4, <2>1 DEF TypeOK, LaunchInvariant, Open
  <2>3. CallsCounted' /\ HelpersInvariant'
    BY <1>1, <1>2, <1>4, CallNumbers DEF TypeOK, CallsCounted, HelpersInvariant, Open
  <2>4. AnswerInvariant' /\ PlaceInvariant'
    BY <1>1, <1>2, <1>4 DEF TypeOK, AnswerInvariant, PlaceInvariant
  <2> QED
    BY <2>1, <2>2, <2>3, <2>4 DEF RemoteLaunchInvariant, CallInvariant
<1>5. Named["launch"] = 1
  BY DEF Named
<1> QED
  BY <1>3, <1>4, <1>5 DEF Execute

\* It hears of a cancellation.
LEMMA HearCancelHolds ==
    ASSUME RemoteLaunchInvariant, Running, HearCancel
    PROVE  RemoteLaunchInvariant'
<1>1. TypeOK /\ LaunchInvariant /\ CallsCounted /\ HelpersInvariant /\ AnswerInvariant /\ PlaceInvariant
  BY DEF RemoteLaunchInvariant, CallInvariant
<1>2. LaunchInvariant'
  BY <1>1, AskedHolds DEF HearCancel
<1>3. TypeOK'
  BY <1>1, <1>2, CallNumbers DEF HearCancel, Running, TypeOK, LaunchInvariant, HelpersInvariant, PlaceInvariant, view, remote, event
<1>4. CallsCounted' /\ HelpersInvariant'
  BY <1>1, CallNumbers DEF HearCancel, Running, TypeOK, CallsCounted, HelpersInvariant, AnswerInvariant, PlaceInvariant, view, remote, event
<1>5. AnswerInvariant' /\ PlaceInvariant'
  BY <1>1, CallNumbers DEF HearCancel, Running, TypeOK, CallsCounted, HelpersInvariant, AnswerInvariant, PlaceInvariant, LaunchInvariant, view, remote, event
<1> QED
  BY <1>2, <1>3, <1>4, <1>5 DEF RemoteLaunchInvariant, CallInvariant

\* It answers.
LEMMA AnswerHolds ==
    ASSUME RemoteLaunchInvariant, Running, Answer
    PROVE  RemoteLaunchInvariant'
<1>1. TypeOK /\ LaunchInvariant /\ CallsCounted /\ HelpersInvariant /\ AnswerInvariant /\ PlaceInvariant
  BY DEF RemoteLaunchInvariant, CallInvariant
<1>2. LaunchInvariant'
  BY <1>1, LaunchUnchanged DEF Answer
<1>3. TypeOK'
  BY <1>1, <1>2, CallNumbers DEF Answer, Running, TypeOK, LaunchInvariant, HelpersInvariant, PlaceInvariant, view, launchVars, launch
<1>4. CallsCounted' /\ HelpersInvariant'
  BY <1>1, CallNumbers DEF Answer, Running, TypeOK, CallsCounted, HelpersInvariant, AnswerInvariant, PlaceInvariant, view, launchVars, launch
<1>5. AnswerInvariant' /\ PlaceInvariant'
  BY <1>1, CallNumbers DEF Answer, Running, TypeOK, CallsCounted, HelpersInvariant, AnswerInvariant, PlaceInvariant, LaunchInvariant, view, launchVars, launch
<1> QED
  BY <1>2, <1>3, <1>4, <1>5 DEF RemoteLaunchInvariant, CallInvariant

\* It exits, and closes the event.
LEMMA ExitHolds ==
    ASSUME RemoteLaunchInvariant, NEW c \in Calls, Exit(c)
    PROVE  RemoteLaunchInvariant'
<1>1. TypeOK /\ LaunchInvariant /\ CallsCounted /\ HelpersInvariant /\ AnswerInvariant /\ PlaceInvariant
  BY DEF RemoteLaunchInvariant, CallInvariant
<1>2. LaunchInvariant'
  BY <1>1, LaunchUnchanged DEF Exit
<1>3. TypeOK'
  <2>1. holders' \subseteq {0} \cup Calls /\ helper' = [helper EXCEPT ![c] = "gone"]
    BY <1>1 DEF Exit, Close, TypeOK
  <2>2. signal' \in BOOLEAN /\ (signal' => holders' # {})
    <3>1. CASE holders = {c}
      BY <3>1 DEF Exit, Close
    <3>2. CASE holders # {c}
      BY <1>1, <3>2 DEF Exit, Close, TypeOK
    <3> QED
      BY <3>1, <3>2
  <2> QED
    BY <1>1, <1>2, <2>1, <2>2 DEF Exit, TypeOK, LaunchInvariant, view, remote
<1>4. CallsCounted' /\ HelpersInvariant'
  BY <1>1, CallNumbers DEF Exit, Running, TypeOK, CallsCounted, HelpersInvariant, AnswerInvariant, PlaceInvariant, view, remote, launchVars, launch, Close
<1>5. AnswerInvariant' /\ PlaceInvariant'
  BY <1>1, CallNumbers DEF Exit, Running, TypeOK, CallsCounted, HelpersInvariant, AnswerInvariant, PlaceInvariant, LaunchInvariant, view, remote, launchVars, launch, Close
<1> QED
  BY <1>2, <1>3, <1>4, <1>5 DEF RemoteLaunchInvariant, CallInvariant

-----------------------------------------------------------------------------
(***************************************************************************)
(* Steps of the launch, wherever it is                                     *)
(***************************************************************************)
\* A launch under way has someone who waits for it; the game takes no part in that.
LEMMA PlaceHolds ==
    ASSUME RemoteLaunchInvariant, LaunchInvariant', UNCHANGED <<view, remote, helper, event>>,
           UNCHANGED <<at, outcome>> \/ (at \notin {"idle", "ended"} /\ at' # "idle")
    PROVE  RemoteLaunchInvariant'
<1>1. TypeOK /\ LaunchInvariant /\ CallsCounted /\ HelpersInvariant /\ AnswerInvariant /\ PlaceInvariant
  BY DEF RemoteLaunchInvariant, CallInvariant
<1>2. TypeOK'
  BY <1>1 DEF TypeOK, LaunchInvariant, view, remote, event
<1>3. CallsCounted' /\ HelpersInvariant'
  BY <1>1 DEF CallsCounted, HelpersInvariant, view, remote, event
<1>4. AnswerInvariant' /\ PlaceInvariant'
  BY <1>1 DEF TypeOK, HelpersInvariant, AnswerInvariant, PlaceInvariant, view, remote, event
<1> QED
  BY <1>2, <1>3, <1>4 DEF RemoteLaunchInvariant, CallInvariant

LEMMA LauncherMoves ==
    ASSUME LaunchInvariant, LauncherStep \/ LoseEntry \/ FindGame
    PROVE  at \notin {"idle", "ended"} /\ at' # "idle"
<1>1. ASSUME ReleaseGame PROVE at = "release" /\ at' \in {"ended", "kill", "window"}
  BY <1>1 DEF ReleaseGame, Ended
<1> QED
  BY <1>1 DEF LauncherStep, CreateGame, FindGame, StopFinding, OpenChannel, PatchEntry, ReachEntry,
     LoseEntry, LoadCore, Finish, AwaitWindow, KillGame, Ended, LeaveWith, LeaveEntry

LEMMA LaunchStepHolds ==
    ASSUME RemoteLaunchInvariant, Launching \/ Failing \/ Finding \/ Playing \/ Ending
    PROVE  RemoteLaunchInvariant'
<1>1. LaunchInvariant
  BY DEF RemoteLaunchInvariant
<1>2. CASE Launching
  BY <1>1, <1>2, LauncherStepHolds, LauncherMoves, PlaceHolds DEF Launching
<1>3. CASE Finding
  BY <1>1, <1>3, FindGameHolds, LauncherMoves, PlaceHolds DEF Finding
<1>4. CASE Playing \/ Ending
  <2>1. UNCHANGED <<at, outcome>>
    BY <1>4 DEF Playing, Ending, GameStep, EndGame, MainThread, InstallHooks, ReadSettings,
       SignalRead, launch
  <2> QED
    BY <1>1, <1>4, <2>1, GameHolds, PlaceHolds DEF Playing, Ending
<1>5. CASE Failing
  BY <1>1, <1>5, LoseEntryHolds, LauncherMoves, PlaceHolds DEF Failing
<1> QED
  BY <1>2, <1>3, <1>4, <1>5

-----------------------------------------------------------------------------
(***************************************************************************)
(* Theorems about a launch                                                 *)
(***************************************************************************)
LEMMA InitHolds == Init => RemoteLaunchInvariant
<1> SUFFICES ASSUME Init PROVE RemoteLaunchInvariant
  OBVIOUS
<1>1. LaunchInvariant
  BY LaunchInitHolds DEF Init
<1>2. TypeOK
  <2>1. 0 \in 0..MaxCalls /\ 0 \in 0..MaxAttempts
    BY RemoteLaunchAssumption DEF MaxCalls
  <2> QED
    BY <1>1, <2>1 DEF Init, TypeOK, LaunchInvariant
<1> QED
  BY <1>1, <1>2 DEF Init, LaunchInit, RemoteLaunchInvariant, CallInvariant, CallsCounted,
     HelpersInvariant, AnswerInvariant, PlaceInvariant, Calls, MaxCalls

LEMMA StepHolds == RemoteLaunchInvariant /\ [Next]_vars => RemoteLaunchInvariant'
<1> SUFFICES ASSUME RemoteLaunchInvariant, [Next]_vars PROVE RemoteLaunchInvariant'
  OBVIOUS
<1>1. CASE UNCHANGED vars
  <2>1. LaunchInvariant'
    BY <1>1, LaunchUnchanged DEF RemoteLaunchInvariant, vars
  <2> QED
    BY <1>1, <2>1, PlaceHolds DEF vars, launchVars, launch
<1>2. CASE Choose \/ Cancel \/ DirectOver \/ CallOver
  BY <1>2, ChooseHolds, CancelHolds, DirectOverHolds, CallOverHolds
<1>3. CASE Running /\ CallStep
  BY <1>3, StartHelperHolds, ConnectHolds, ReadAnswerHolds DEF CallStep
<1>4. CASE Running /\ (CancelStep \/ Collect)
  BY <1>4, PassCancelOnHolds, EndCancellerHolds, CollectHolds DEF CancelStep
<1>5. CASE Running /\ HelperStep
  BY <1>5, ExecuteHolds, HearCancelHolds, AnswerHolds DEF HelperStep
<1>6. CASE \E c \in Calls : Exit(c)
  BY <1>6, ExitHolds
<1>7. CASE Launching \/ Failing \/ Finding \/ Playing \/ Ending
  BY <1>7, LaunchStepHolds
<1> QED
  BY <1>1, <1>2, <1>3, <1>4, <1>5, <1>6, <1>7 DEF Next

\* What the launcher, its helpers and the game are at is as the invariant has it.
THEOREM InvariantHolds == Spec => []RemoteLaunchInvariant
BY InitHolds, StepHolds, PTL DEF Spec

\* Every variable of a launch and of the calls keeps its type, for any number of attempts.
THEOREM TypeOKHolds == Spec => []TypeOK
<1>1. RemoteLaunchInvariant => TypeOK
  BY DEF RemoteLaunchInvariant
<1> QED
  BY <1>1, InvariantHolds, PTL

\* The program of a game that was created never runs before the core is ready, unless
\* the launch was given up: whoever launches, and whenever a game ends or is cancelled.
THEOREM CoreBeforeProgramHolds == Spec => []CoreBeforeProgram
<1>1. RemoteLaunchInvariant => CoreBeforeProgram
  BY DEF RemoteLaunchInvariant, LaunchInvariant, LaunchTypeOK, Fresh, Held, CoreBeforeProgram
<1> QED
  BY <1>1, InvariantHolds, PTL

\* No way a launch can end leaves a thread suspended or held, or a cancelled game.
THEOREM NothingLeftBehindHolds == Spec => []NothingLeftBehind
<1>1. RemoteLaunchInvariant => NothingLeftBehind
  BY DEF RemoteLaunchInvariant, LaunchInvariant, LaunchTypeOK, LetGo, NothingLeftBehind
<1> QED
  BY <1>1, InvariantHolds, PTL

\* The launcher goes on only when the launch has ended as it was told, and leaves no
\* helper at work.
THEOREM AnswerIsTrueHolds == Spec => []AnswerIsTrue
<1>1. RemoteLaunchInvariant => AnswerIsTrue
  <2> SUFFICES ASSUME RemoteLaunchInvariant, ui \in {"closed", "choose"}
               PROVE  /\ at \in {"idle", "ended"}
                      /\ ui = "closed" => outcome = "done"
                      /\ \A c \in Calls : helper[c] \in {"none", "answered", "gone"}
    BY DEF AnswerIsTrue
  <2>1. \A c \in Calls : c < calls \/ c = calls \/ c > calls
    BY CallNumbers
  <2>2. calls > 0 => calls \in Calls
    BY CallNumbers
  <2> QED
    BY <2>1, <2>2, CallNumbers DEF RemoteLaunchInvariant, CallInvariant, HelpersInvariant, PlaceInvariant
<1> QED
  BY <1>1, InvariantHolds, PTL

================================================================================
