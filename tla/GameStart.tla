------------------------------- MODULE GameStart -------------------------------
(***************************************************************************)
(* Launcher.LaunchAsync: how one game is started with the core in it.      *)
(*                                                                         *)
(* Three threads of two processes take part.  The launcher creates the     *)
(* game with its main thread suspended, lets it run to its entry point,    *)
(* where it put a jump to itself, loads core.dll with a thread of the      *)
(* game's, waits until the core says it has read its settings, and lets    *)
(* the main thread go.  The core does its work on a thread of its own that *)
(* DllMain makes.  A game of Steam is found running, and never suspended.  *)
(*                                                                         *)
(* "asked" is the CancellationToken LaunchAsync was given.  The choices of *)
(* the operating system for a process that has ended (whether its thread   *)
(* can be resumed, what exit code LoadLibrary's thread has) are left open. *)
(***************************************************************************)
EXTENDS Naturals

CONSTANTS
    Ways,           \* how games are started: subset of {"pol", "steam"}
    GameMayEnd      \* a game may end at any time

ASSUME GameStartAssumption == Ways \subseteq {"pol", "steam"} /\ GameMayEnd \in BOOLEAN

VARIABLES
    way,        \* the profile's
    asked,      \* token.IsCancellationRequested
    at,         \* where LaunchAsync is
    why,        \* the exception it is leaving with
    taken,      \* process # null
    outcome,    \* how it ended
    \* SettingsChannel
    channel,    \* the shared memory and the event are there
    flag,       \* the event is set
    \* the game
    game,       \* its process
    suspended,  \* its main thread is suspended
    where,      \* where the main thread is
    patched,    \* there is a jump to itself at the entry point
    core        \* where the thread of core.dll is

launch == <<way, asked, at, why, taken, outcome>>
shared == <<channel, flag>>
process == <<game, suspended, where, patched, core>>
launchVars == <<launch, shared, process>>

LaunchTypeOK ==
    /\ way \in Ways
    /\ asked \in BOOLEAN /\ taken \in BOOLEAN /\ channel \in BOOLEAN /\ flag \in BOOLEAN
    /\ suspended \in BOOLEAN /\ patched \in BOOLEAN
    /\ at \in {"idle", "create", "channel", "patch", "spin", "load", "finish", "release",
               "window", "kill", "ended", "lost"}
    /\ why \in {"none", "cancelled", "failed"}
    /\ outcome \in {"none", "done", "cancelled", "failed"}
    /\ game \in {"none", "running", "ended"}
    /\ where \in {"start", "entry", "program"}
    /\ core \in {"none", "loading", "hooked", "read", "ready"}

LaunchInit ==
    /\ way \in Ways
    /\ asked = FALSE /\ at = "idle" /\ why = "none" /\ taken = FALSE /\ outcome = "none"
    /\ channel = FALSE /\ flag = FALSE
    /\ game = "none" /\ suspended = FALSE /\ where = "start" /\ patched = FALSE
    /\ core = "none"

\* The next launch is of another game.
NewLaunch ==
    /\ way' \in Ways
    /\ asked' = FALSE /\ at' = "idle" /\ why' = "none" /\ taken' = FALSE /\ outcome' = "none"
    /\ channel' = FALSE /\ flag' = FALSE
    /\ game' = "none" /\ suspended' = FALSE /\ where' = "start" /\ patched' = FALSE
    /\ core' = "none"

-----------------------------------------------------------------------------
(***************************************************************************)
(* The launcher                                                            *)
(***************************************************************************)
\* An exception: both using statements are left, the inner one first.
LeaveWith(reason) ==
    /\ at' = "release"
    /\ why' = reason
    /\ channel' = FALSE

Ended(result) ==
    /\ at' = "ended"
    /\ outcome' = result

\* CreateProcess with CREATE_SUSPENDED, or its failure.
CreateGame ==
    /\ at = "create" /\ way = "pol"
    /\ \/ /\ game' = "running" /\ suspended' = TRUE
          /\ at' = "channel"
          /\ UNCHANGED <<outcome, where>>
       \/ Ended("failed") /\ UNCHANGED <<game, suspended, where>>
    /\ UNCHANGED <<way, asked, why, taken, shared, patched, core>>

\* Steam.LaunchAsync: the game's window is seen.  After the call for a game that
\* is only owned, nobody looks at the token again.
FindGame ==
    /\ at = "create" /\ way = "steam"
    /\ game' = "running" /\ suspended' = FALSE /\ where' = "program"
    /\ at' = "channel"
    /\ UNCHANGED <<way, asked, why, taken, outcome, shared, patched, core>>

StopFinding ==
    /\ at = "create" /\ way = "steam" /\ asked
    /\ \/ game' = "running" /\ where' = "program"
       \/ UNCHANGED <<game, where>>
    /\ Ended("cancelled")
    /\ UNCHANGED <<way, asked, why, taken, shared, suspended, patched, core>>

\* process = injector.Process, which throws for a game that has ended and may
\* for one that runs, and the constructor of the SettingsChannel, which may too.
OpenChannel ==
    /\ at = "channel"
    /\ \/ /\ LeaveWith("failed")
          /\ taken' \in {FALSE, game = "running"}
          /\ UNCHANGED flag
       \/ /\ game = "running" /\ taken' = TRUE
          /\ channel' = TRUE /\ flag' = FALSE
          /\ at' = IF way = "steam" THEN "load" ELSE "patch"
          /\ UNCHANGED why
    /\ UNCHANGED <<way, asked, outcome, process>>

\* RunProcessInitialization is left with an exception: the entry point is given
\* its bytes back, and if that fails the game is killed.
LeaveEntry ==
    /\ LeaveWith("failed")
    /\ \/ patched' = FALSE /\ UNCHANGED game
       \/ game' = "ended" /\ UNCHANGED patched

\* RunProcessInitialization, up to the loop.
PatchEntry ==
    /\ at = "patch"
    /\ \/ LeaveEntry /\ UNCHANGED suspended
       \/ /\ game = "running"
          /\ patched' = TRUE /\ suspended' = FALSE
          /\ at' = "spin"
          /\ UNCHANGED <<why, channel, game>>
    /\ UNCHANGED <<way, asked, taken, outcome, flag, where, core>>

\* The loop sees the thread at its entry point.  It does not look at the token.
ReachEntry ==
    /\ at = "spin"
    /\ \/ game = "ended" /\ LeaveWith("failed") /\ UNCHANGED <<patched, suspended>>
       \/ /\ game = "running" /\ where = "entry"
          /\ suspended' = TRUE /\ patched' = FALSE
          /\ at' = "load"
          /\ UNCHANGED <<why, channel>>
    /\ UNCHANGED <<way, asked, taken, outcome, flag, game, where, core>>

\* The loop cannot see where the thread of a running game is, or what follows
\* the loop fails: the thread may be suspended, and may not.
LoseEntry ==
    /\ at = "spin" /\ game = "running"
    /\ LeaveEntry
    /\ suspended' \in BOOLEAN
    /\ UNCHANGED <<way, asked, taken, outcome, flag, where, core>>

\* Injector.Inject: LoadLibraryW on a thread of the game's.
LoadCore ==
    /\ at = "load"
    /\ \/ LeaveWith("failed") /\ UNCHANGED core
       \/ /\ at' = "finish"
          /\ core' = IF game = "running" THEN "loading" ELSE core
          /\ UNCHANGED <<why, channel>>
    /\ UNCHANGED <<way, asked, taken, outcome, flag, game, suspended, where, patched>>

\* Mutant of Finish: the launcher does not wait for the core.
FinishAtOnce ==
    /\ at = "finish"
    /\ LeaveWith(IF asked THEN "cancelled" ELSE "none")
    /\ UNCHANGED <<way, asked, taken, outcome, flag, process>>

\* SettingsChannel.FinishAsync, and the end of the channel.
Finish ==
    /\ at = "finish"
    /\ \/ asked /\ LeaveWith("cancelled")
       \/ flag /\ LeaveWith("none")
    /\ UNCHANGED <<way, asked, taken, outcome, flag, process>>

\* Mutant of ReleaseGame: only a launch that is going well resumes the thread.
ReleaseIfWell ==
    /\ at = "release"
    /\ suspended' = (suspended /\ why # "none")
    /\ CASE why = "failed" -> Ended("failed") /\ UNCHANGED why
         [] why = "cancelled" -> at' = "kill" /\ UNCHANGED <<outcome, why>>
         [] OTHER -> at' = "window" /\ UNCHANGED <<outcome, why>>
    /\ UNCHANGED <<way, asked, taken, shared, game, where, patched, core>>

\* Injector.Dispose: Resume.  The thread of a game that has ended may refuse,
\* and then that is the exception LaunchAsync leaves with.
ReleaseGame ==
    /\ at = "release"
    /\ suspended' = FALSE
    /\ \E refused \in {FALSE} \cup {game = "ended" /\ way = "pol"} :
          CASE refused \/ why = "failed" -> Ended("failed") /\ UNCHANGED why
            [] ~refused /\ why = "cancelled" -> at' = "kill" /\ UNCHANGED <<outcome, why>>
            [] OTHER -> at' = "window" /\ UNCHANGED <<outcome, why>>
    /\ UNCHANGED <<way, asked, taken, shared, game, where, patched, core>>

\* WaitForInputIdle and the loop for the main window.
AwaitWindow ==
    /\ at = "window"
    /\ \/ /\ game = "ended" \/ where = "program"
          /\ Ended("done") /\ UNCHANGED why
       \/ /\ asked
          /\ game = "ended" \/ where = "program"
          /\ at' = "kill" /\ why' = "cancelled"
          /\ UNCHANGED outcome
    /\ UNCHANGED <<way, asked, taken, shared, process>>

\* catch (OperationCanceledException)
KillGame ==
    /\ at = "kill"
    /\ game' = IF taken THEN "ended" ELSE game
    /\ Ended("cancelled")
    /\ UNCHANGED <<way, asked, why, taken, shared, suspended, where, patched, core>>

LauncherStep ==
    \/ CreateGame \/ StopFinding \/ OpenChannel \/ PatchEntry \/ ReachEntry
    \/ LoadCore \/ Finish \/ ReleaseGame \/ AwaitWindow \/ KillGame

-----------------------------------------------------------------------------
(***************************************************************************)
(* The game                                                                *)
(***************************************************************************)
MainThread ==
    /\ game = "running" /\ ~suspended
    /\ where # "program"
    /\ where # IF patched THEN "entry" ELSE "program"
    /\ where' = IF patched THEN "entry" ELSE "program"
    /\ UNCHANGED <<launch, shared, game, suspended, patched, core>>

\* core::core: the hooks are installed first.
InstallHooks ==
    /\ game = "running" /\ core = "loading"
    /\ core' = "hooked"
    /\ UNCHANGED <<launch, shared, game, suspended, where, patched>>

\* settings_channel's constructor is noexcept: without the shared memory the
\* game ends.
ReadSettings ==
    /\ game = "running" /\ core = "hooked"
    /\ IF channel THEN core' = "read" /\ UNCHANGED game
                  ELSE game' = "ended" /\ UNCHANGED core
    /\ UNCHANGED <<launch, shared, suspended, where, patched>>

\* Its destructor: without the event, fail_fast.
SignalRead ==
    /\ game = "running" /\ core = "read"
    /\ IF channel THEN flag' = TRUE /\ core' = "ready" /\ UNCHANGED game
                  ELSE game' = "ended" /\ UNCHANGED <<flag, core>>
    /\ UNCHANGED <<launch, channel, suspended, where, patched>>

EndGame ==
    /\ GameMayEnd
    /\ game = "running"
    /\ game' = "ended"
    /\ UNCHANGED <<launch, shared, suspended, where, patched, core>>

GameStep == MainThread \/ InstallHooks \/ ReadSettings \/ SignalRead

-----------------------------------------------------------------------------
(***************************************************************************)
(* The program of a game the launcher created never runs before the core   *)
(* has its hooks and its settings, unless the launch was given up: that is *)
(* what the jump at the entry point, the wait for the core's signal and    *)
(* the order in core's constructor are for.                                *)
(***************************************************************************)
CoreBeforeProgram ==
    way = "pol" /\ game = "running" /\ where = "program"
        => core = "ready" \/ why # "none" \/ outcome # "none"

(***************************************************************************)
(* Whatever a launch ends with, it leaves no main thread suspended or held *)
(* at the entry point; one that was cancelled leaves no game it had in     *)
(* hand; one that is done has left the core in the game.                   *)
(***************************************************************************)
NothingLeftBehind ==
    outcome # "none" /\ game = "running" =>
        /\ ~suspended /\ ~patched
        /\ outcome = "cancelled" => ~taken
        /\ outcome = "done" => core = "ready"
=============================================================================
