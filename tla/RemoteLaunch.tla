------------------------------ MODULE RemoteLaunch -----------------------------
(***************************************************************************)
(* The launcher's window and the calls it has other processes make: how a  *)
(* launch is begun, elevated, cancelled and ended.                         *)
(*                                                                         *)
(* MainViewModel goes round: a profile is chosen, a helper process checks  *)
(* DirectPlay, the game is launched, by the launcher or, when that takes   *)
(* an administrator, by a helper.  Program.RemoteCallAsync starts a helper *)
(* and sends it one line over a pipe; ExecuteAndExit answers with one line *)
(* and exits.  A task reads the answer, another passes a cancellation on   *)
(* through an event that is named after the launcher, not after the call.  *)
(* An exception that is not OperationCanceledException reaches nobody: it  *)
(* leaves an async void method, and the launcher ends.                     *)
(***************************************************************************)
EXTENDS GameStart, FiniteSets

CONSTANT
    MaxAttempts     \* bound: profiles chosen

ASSUME RemoteLaunchAssumption == MaxAttempts \in Nat

MaxCalls == 3 * MaxAttempts
Calls == 1..MaxCalls

\* Methods a call names, with how many methods of their class have that name.
Named == [fix |-> 2, check |-> 1, launch |-> 1]
Kinds == DOMAIN Named

VARIABLES
    \* MainViewModel
    ui,         \* where OpenedAsync is
    attempts,   \* profiles chosen so far
    elevate,    \* Launcher.IsElevationRequired(profile)
    token,      \* the CancellationTokenSource of the launch was cancelled
    \* RemoteCallAsync
    call,       \* where it is
    calls,      \* calls made so far; the last has this number
    runner,     \* the task that reads the answer
    canceller,  \* the task that waits for the token or for "completed"
    answer,     \* what the helper wrote, or "none"
    \* the helpers, and the event
    helper,     \* what each helper does
    holders,    \* who has the event open: helpers, and 0 for the launcher
    signal      \* the event is set

view == <<ui, attempts, elevate, token>>
remote == <<call, calls, runner, canceller, answer>>
event == <<holders, signal>>
vars == <<launchVars, view, remote, helper, event>>

TypeOK ==
    /\ LaunchTypeOK
    /\ ui \in {"choose", "fix", "check", "launch", "closed", "broken"}
    /\ attempts \in 0..MaxAttempts
    /\ elevate \in BOOLEAN /\ token \in BOOLEAN /\ signal \in BOOLEAN
    /\ call \in {"none", "start", "connect", "reading"}
    /\ calls \in 0..MaxCalls
    /\ runner \in {"off", "reading", "done", "failed"}
    /\ canceller \in {"off", "waiting", "done"}
    /\ answer \in {"none", "ok", "error"}
    /\ helper \in [Calls -> {"none", "started", "connected", "running", "answered", "gone"}]
    /\ holders \subseteq {0} \cup Calls
    /\ signal => holders # {}

Init ==
    /\ LaunchInit
    /\ ui = "choose" /\ attempts = 0 /\ elevate = FALSE /\ token = FALSE
    /\ call = "none" /\ calls = 0
    /\ runner = "off" /\ canceller = "off" /\ answer = "none"
    /\ helper = [c \in Calls |-> "none"]
    /\ holders = {} /\ signal = FALSE

-----------------------------------------------------------------------------
(***************************************************************************)
(* The event.  It is made by whoever opens it first, unset, and ends with  *)
(* the last handle.                                                        *)
(***************************************************************************)
Open(p, set) ==
    /\ holders' = holders \cup {p}
    /\ signal' = (signal \/ set)

Close(p) ==
    /\ holders' = holders \ {p}
    /\ signal' = (signal /\ holders # {p})

-----------------------------------------------------------------------------
(***************************************************************************)
(* The window                                                              *)
(***************************************************************************)
\* RemoteCallAsync, up to Process.Start.
BeginCall ==
    /\ call' = "start"
    /\ calls' = calls + 1
    /\ runner' = "off" /\ canceller' = "off" /\ answer' = "none"

\* A profile is selected; its directories may be offered to be made writable.
Choose ==
    /\ ui = "choose" /\ attempts < MaxAttempts
    /\ attempts' = attempts + 1
    /\ elevate' \in BOOLEAN
    /\ token' = FALSE
    /\ ui' \in IF elevate' THEN {"fix", "check"} ELSE {"check"}
    /\ BeginCall
    /\ NewLaunch
    /\ UNCHANGED <<helper, event>>

\* The user cancels; it is possible while a launch is under way.
Cancel ==
    /\ ui = "launch" /\ ~token
    /\ token' = TRUE
    /\ asked' = (asked \/ ~elevate)
    /\ UNCHANGED <<way, at, why, taken, outcome, shared, process, ui, attempts, elevate,
                   remote, helper, event>>

\* The launch the launcher made itself has ended.
DirectOver ==
    /\ ui = "launch" /\ ~elevate /\ at = "ended"
    /\ ui' = CASE outcome = "done" -> "closed"
               [] outcome = "cancelled" -> "choose"
               [] OTHER -> "broken"
    /\ UNCHANGED <<launchVars, attempts, elevate, token, remote, helper, event>>

\* RemoteCallAsync returns, or throws: when the answer is an error, and when
\* there was none to read.
CallOver ==
    /\ call = "reading"
    /\ runner \in {"done", "failed"} /\ canceller \in {"off", "done"}
    /\ IF answer # "ok"
       THEN ui' = "broken" /\ call' = "none" /\ UNCHANGED <<calls, runner, canceller, answer, at>>
       ELSE CASE ui = "fix" -> ui' = "check" /\ BeginCall /\ UNCHANGED at
              [] ui = "check" /\ elevate -> ui' = "launch" /\ BeginCall /\ UNCHANGED at
              [] ui = "check" /\ ~elevate ->
                    /\ ui' = "launch" /\ at' = "create" /\ call' = "none"
                    /\ UNCHANGED <<calls, runner, canceller, answer>>
              [] ui = "launch" ->
                    /\ ui' = "closed" /\ call' = "none"
                    /\ UNCHANGED <<calls, runner, canceller, answer, at>>
    /\ UNCHANGED <<way, asked, why, taken, outcome, shared, process, attempts, elevate, token,
                   helper, event>>

-----------------------------------------------------------------------------
(***************************************************************************)
(* RemoteCallAsync                                                         *)
(***************************************************************************)
\* Process.Start, which throws when the user does not let the helper elevate.
StartHelper ==
    /\ call = "start"
    /\ \/ /\ helper' = [helper EXCEPT ![calls] = "started"]
          /\ call' = "connect"
          /\ UNCHANGED ui
       \/ /\ ui # "check"
          /\ ui' = "broken" /\ call' = "none"
          /\ UNCHANGED helper
    /\ UNCHANGED <<launchVars, attempts, elevate, token, calls, runner, canceller, answer, event>>

\* WaitForConnection, and the line of the call.  Only the launch has a token
\* that can be cancelled, and so a task that waits for it.
Connect ==
    /\ call = "connect" /\ helper[calls] = "started"
    /\ helper' = [helper EXCEPT ![calls] = "connected"]
    /\ call' = "reading"
    /\ runner' = "reading"
    /\ canceller' = IF ui = "launch" THEN "waiting" ELSE "off"
    /\ UNCHANGED <<launchVars, view, calls, answer, event>>

\* ReadLine
ReadAnswer ==
    /\ runner = "reading" /\ answer # "none"
    /\ runner' = "done"
    /\ UNCHANGED <<launchVars, view, call, calls, canceller, answer, helper, event>>

\* The helper is gone and has left no line: there is nothing to deserialize,
\* and "completed" is not set.
ReadNothing ==
    /\ runner = "reading" /\ answer = "none" /\ helper[calls] = "gone"
    /\ runner' = "failed"
    /\ UNCHANGED <<launchVars, view, call, calls, canceller, answer, helper, event>>

\* Mutant of PassCancelOn: the event is opened, and not set.
CancelNotPassedOn ==
    /\ canceller = "waiting" /\ token
    /\ canceller' = "done"
    /\ Open(0, FALSE)
    /\ UNCHANGED <<launchVars, view, call, calls, runner, answer, helper>>

\* The first of the token and "completed".
PassCancelOn ==
    /\ canceller = "waiting" /\ token
    /\ canceller' = "done"
    /\ Open(0, TRUE)
    /\ UNCHANGED <<launchVars, view, call, calls, runner, answer, helper>>

EndCanceller ==
    /\ canceller = "waiting" /\ runner = "done"
    /\ canceller' = "done"
    /\ UNCHANGED <<launchVars, view, call, calls, runner, answer, helper, event>>

\* The canceller does not close its handle.  The collector does, some time; if
\* the helper has not opened the event by then, it ends, set as it was.
Collect ==
    /\ 0 \in holders
    /\ Close(0)
    /\ UNCHANGED <<launchVars, view, remote, helper>>

-----------------------------------------------------------------------------
(***************************************************************************)
(* ExecuteAndExit                                                          *)
(***************************************************************************)
\* The method is looked for by its name, which must name one.
Execute ==
    /\ helper[calls] = "connected"
    /\ IF Named[ui] # 1
       THEN /\ answer' = "error"
            /\ helper' = [helper EXCEPT ![calls] = "answered"]
            /\ UNCHANGED <<event, at>>
       ELSE /\ helper' = [helper EXCEPT ![calls] = "running"]
            /\ Open(calls, FALSE)
            /\ at' = IF ui = "launch" THEN "create" ELSE at
            /\ UNCHANGED answer
    /\ UNCHANGED <<way, asked, why, taken, outcome, shared, process, view, call, calls,
                   runner, canceller>>

\* The thread that waits for the event.
HearCancel ==
    /\ helper[calls] = "running" /\ ui = "launch" /\ elevate
    /\ signal /\ ~asked
    /\ asked' = TRUE
    /\ UNCHANGED <<way, at, why, taken, outcome, shared, process, view, remote, helper, event>>

\* Mutant of Answer: the method does not wait for the launch it began.
AnswerAtOnce ==
    /\ helper[calls] = "running"
    /\ helper' = [helper EXCEPT ![calls] = "answered"]
    /\ answer' = "ok" /\ signal' = TRUE
    /\ UNCHANGED <<launchVars, view, call, calls, runner, canceller, holders>>

\* The method returns: the event is set, to end that thread, and the answer
\* written; or throws, and the answer is an error, whatever the exception.
Answer ==
    /\ helper[calls] = "running"
    /\ ui = "launch" => at = "ended"
    /\ helper' = [helper EXCEPT ![calls] = "answered"]
    /\ IF ui = "check" \/ outcome = "done"
       THEN answer' = "ok" /\ signal' = TRUE
       ELSE answer' = "error" /\ UNCHANGED signal
    /\ UNCHANGED <<launchVars, view, call, calls, runner, canceller, holders>>

Exit(c) ==
    /\ helper[c] = "answered"
    /\ helper' = [helper EXCEPT ![c] = "gone"]
    /\ Close(c)
    /\ UNCHANGED <<launchVars, view, remote>>

\* The helper ends before it has answered, with what it was doing.
LoseHelper ==
    /\ calls > 0 /\ helper[calls] \in {"started", "connected", "running"}
    /\ helper' = [helper EXCEPT ![calls] = "gone"]
    /\ Close(calls)
    /\ at' = IF elevate /\ at \notin {"idle", "ended"} THEN "lost" ELSE at
    /\ UNCHANGED <<way, asked, why, taken, outcome, shared, process, view, remote>>

-----------------------------------------------------------------------------
\* A launch takes its steps in the launcher or in the helper.
Launching == LauncherStep /\ UNCHANGED <<view, remote, helper, event>>
Failing == LoseEntry /\ UNCHANGED <<view, remote, helper, event>>
Finding == FindGame /\ UNCHANGED <<view, remote, helper, event>>
Playing == GameStep /\ UNCHANGED <<view, remote, helper, event>>
Ending == EndGame /\ UNCHANGED <<view, remote, helper, event>>

HelperStep == Execute \/ HearCancel \/ Answer
CallStep == StartHelper \/ Connect \/ ReadAnswer
CancelStep == PassCancelOn \/ EndCanceller

Running == calls > 0

Next ==
    \/ Choose \/ Cancel \/ DirectOver \/ CallOver
    \/ Running /\ (CallStep \/ CancelStep \/ Collect \/ HelperStep)
    \/ \E c \in Calls : Exit(c)
    \/ Launching \/ Failing \/ Finding \/ Playing \/ Ending

Spec == Init /\ [][Next]_vars

\* Threads run, of the launcher, of the helpers and of a game that has not
\* ended.  The user need not cancel, choose, or let Steam start a game, the
\* collector need not run, and a launch need not fail.
Fairness ==
    /\ WF_vars(DirectOver) /\ WF_vars(CallOver)
    /\ WF_vars(Running /\ CallStep) /\ WF_vars(Running /\ CancelStep)
    /\ WF_vars(Running /\ Execute) /\ WF_vars(Running /\ HearCancel)
    /\ WF_vars(Running /\ Answer)
    /\ WF_vars(Launching)
    /\ WF_vars(MainThread /\ UNCHANGED <<view, remote, helper, event>>)
    /\ WF_vars((InstallHooks \/ ReadSettings \/ SignalRead)
                   /\ UNCHANGED <<view, remote, helper, event>>)

FairSpec == Spec /\ Fairness

\* Helpers may be lost.
LossyNext == Next \/ LoseHelper \/ (Running /\ ReadNothing)
LossySpec == Init /\ [][LossyNext]_vars /\ Fairness /\ WF_vars(Running /\ ReadNothing)

-----------------------------------------------------------------------------
\* The canceller has ended, its event with the handle it left to the collector,
\* and the helper that makes the launch was not told.
Unheard ==
    /\ ui = "launch" /\ elevate /\ canceller = "done" /\ runner = "reading"
    /\ holders \subseteq Calls /\ ~signal /\ ~asked

(***************************************************************************)
(* A launch that was cancelled ends, whoever makes it and wherever it is:  *)
(* before the helper is there to be told, while the game runs to its entry *)
(* point, while the core loads, and when the game has ended before it      *)
(* could say that it has its settings.  Or the collector took the event    *)
(* before the helper opened it (Program.cs:362-365, 290-291): then the     *)
(* cancellation is lost.                                                   *)
(***************************************************************************)
CancelEnds == ui = "launch" /\ token ~> ui # "launch" \/ Unheard

(***************************************************************************)
(* When the launcher has gone on after a launch, no launch is under way in *)
(* a helper: the answer it went by was that launch's, and the game is in   *)
(* the state it was told.                                                  *)
(***************************************************************************)
AnswerIsTrue ==
    ui \in {"closed", "choose"} =>
        /\ at \in {"idle", "ended"}
        /\ ui = "closed" => outcome = "done"
        /\ \A c \in Calls : helper[c] \in {"none", "answered", "gone"}

\* A remote call ends.  DOTNET10_MIGRATION.md:18-19 has it that a line for each message,
\* flushed at once, prevents that the window and the helper wait for each other for ever.
\* This fails.  Under LossySpec, a helper that ends before it has answered leaves the caller
\* waiting for a completion nobody sets (Program.cs:373); and a launch waits, until it is
\* cancelled, for the settings to be read by a game that has ended.
CallEnds == call # "none" ~> call = "none"
=============================================================================
