-------------------------- MODULE ForegroundCommand -------------------------
(***************************************************************************)
(* A command run to completion under a deadline: the foreground Bash tool  *)
(* (internal/tools/bash.go), runVerifyCmd behind run_tests, run_typecheck, *)
(* run_script and run_failing_tests (internal/tools/exec.go), LintWith and *)
(* FormatCheck (internal/verify/lint.go, format.go).                       *)
(*                                                                         *)
(* All four build the same exec.Cmd: Setpgid, a Cancel that kills the      *)
(* group, a WaitDelay.  They differ in how they classify the outcome.      *)
(* os/exec's Run is modelled by its goroutines: the caller in Wait, the    *)
(* context watcher and the output copier, racing with the command, the     *)
(* children it leaves in its group and the context.  Timers fire at any    *)
(* time once armed; what is written is abstracted to whether the copier    *)
(* saw the end of the file.                                                *)
(***************************************************************************)
EXTENDS Integers

\* The callers: the Bash tool, runVerifyCmd, LintWith and FormatCheck.
Tools == {"Bash", "verify", "lint", "format"}

VARIABLES
    tool,    \* which of the callers this is
    ctx,     \* execCtx: live, or ended by its deadline or by the MCP request
    leader,  \* kernel: the command itself
    status,  \* kernel: its exit status, once it ended
    group,    \* kernel: children left in its group, holding its output or not
    main,    \* the handler, inside cmd.Run and after
    watch,   \* os/exec: the context watcher goroutine (watchCtx)
    copier,  \* os/exec: the goroutine that copies the output
    timer,   \* os/exec: the WaitDelay timer
    runErr,  \* the error of cmd.Run
    result   \* what the handler reports

commandVars == <<tool, ctx, leader, status, group, main, watch, copier, timer, runErr, result>>

NoResult == [timedOut |-> FALSE, exit |-> "none"]

GroupAlive      == leader = "running" \/ group # "none"
HoldsPipe  == leader = "running" \/ group = "holding"

\* What a caller makes of the end: an exit status, the linter's findings, the
\* formatter's verdict, or an error.
Exits == {"none", "0", "1", "2", "-1", "124", "findings", "formatted", "unformatted", "error"}

CommandTypeOK ==
    /\ tool \in Tools
    /\ ctx \in {"live", "deadline", "cancelled"}
    /\ leader \in {"none", "running", "zombie", "reaped"}
    /\ status \in {"none", "0", "1", "2", "signal", "killed"}
    /\ group \in {"none", "holding", "quiet"}
    /\ main \in {"start", "wait", "watcher", "drain", "check", "returned"}
    /\ watch \in {"off", "watching", "cancelling", "offering", "done"}
    /\ copier \in {"off", "copying", "eof", "closed"}
    /\ timer \in {"off", "armed"}
    /\ runErr \in {"nil", "start", "exit", "ctx", "waitdelay"}
    /\ result \in [timedOut : BOOLEAN, exit : Exits]

CommandInit ==
    /\ tool \in Tools
    /\ ctx = "live" /\ leader = "none" /\ status = "none" /\ group = "none"
    /\ main = "start" /\ watch = "off" /\ copier = "off" /\ timer = "off"
    /\ runErr = "nil" /\ result = NoResult

-----------------------------------------------------------------------------
(* cmd.Start: fails at once when the context is over or the fork fails.    *)

RunStarts ==
    /\ main = "start" /\ ctx = "live"
    /\ main' = "wait" /\ leader' = "running" /\ watch' = "watching" /\ copier' = "copying"
    /\ UNCHANGED <<tool, ctx, status, group, timer, runErr, result>>

RunStartFails ==
    /\ main = "start"
    /\ main' = "check"
    /\ runErr' = IF ctx = "live" THEN "start" ELSE "ctx"
    /\ UNCHANGED <<tool, ctx, leader, status, group, watch, copier, timer, result>>

-----------------------------------------------------------------------------
(* The environment: the command, the children it leaves, the context.      *)

LeaveKids ==
    /\ leader = "running" /\ group = "none"
    /\ group' \in {"holding", "quiet"}
    /\ UNCHANGED <<tool, ctx, leader, status, main, watch, copier, timer, runErr, result>>

\* It exits, or dies of a signal that is not Cancel's (out of memory, a crash).
CommandEnds ==
    /\ leader = "running"
    /\ leader' = "zombie"
    /\ status' \in {"0", "1", "2", "signal"}
    /\ UNCHANGED <<tool, ctx, group, main, watch, copier, timer, runErr, result>>

KidsEnd ==
    /\ group # "none"
    /\ group' = "none"
    /\ UNCHANGED <<tool, ctx, leader, status, main, watch, copier, timer, runErr, result>>

DeadlinePasses ==
    /\ ctx = "live" /\ main # "returned"
    /\ ctx' = "deadline"
    /\ UNCHANGED <<tool, leader, status, group, main, watch, copier, timer, runErr, result>>

RequestCancelled ==
    /\ ctx = "live" /\ main # "returned"
    /\ ctx' = "cancelled"
    /\ UNCHANGED <<tool, leader, status, group, main, watch, copier, timer, runErr, result>>

-----------------------------------------------------------------------------
(* The context watcher (os/exec watchCtx) and the callers' Cancel.         *)

\* select: the context is over.
WatchFires ==
    /\ watch = "watching" /\ ctx # "live"
    /\ watch' = "cancelling"
    /\ UNCHANGED <<tool, ctx, leader, status, group, main, copier, timer, runErr, result>>

\* cmd.Cancel: SIGKILL to the group; then the WaitDelay timer is armed.
Cancel ==
    /\ watch = "cancelling"
    /\ watch' = "offering" /\ timer' = "armed"
    /\ leader' = IF leader = "running" THEN "zombie" ELSE leader
    /\ status' = IF leader = "running" THEN "killed" ELSE status
    /\ group' = "none"
    /\ UNCHANGED <<tool, ctx, main, copier, runErr, result>>

\* The timer fires before Wait has taken the watcher's verdict: the pipe is closed.
WatchTimerFires ==
    /\ watch = "offering" /\ timer = "armed" /\ main \in {"wait", "watcher"}
    /\ timer' = "off"
    /\ copier' = IF copier = "copying" THEN "closed" ELSE copier
    /\ UNCHANGED <<tool, ctx, leader, status, group, main, watch, runErr, result>>

-----------------------------------------------------------------------------
(* The output copier.                                                      *)

CopierEOF ==
    /\ copier = "copying" /\ ~HoldsPipe
    /\ copier' = "eof"
    /\ UNCHANGED <<tool, ctx, leader, status, group, main, watch, timer, runErr, result>>

-----------------------------------------------------------------------------
(* The caller: Wait reaps, takes the watcher's verdict, awaits the copier. *)

RunReaps ==
    /\ main = "wait" /\ leader = "zombie"
    /\ main' = "watcher" /\ leader' = "reaped"
    /\ runErr' = IF status = "0" THEN "nil" ELSE "exit"
    /\ UNCHANGED <<tool, ctx, status, group, watch, copier, timer, result>>

\* The watcher hands over nothing, or the context's error with its timer.
TakeVerdict ==
    /\ main = "watcher"
    /\ watch \in {"watching", "offering"}
    /\ main' = "drain" /\ watch' = "done"
    /\ runErr' = IF runErr = "nil" /\ watch = "offering" THEN "ctx" ELSE runErr
    /\ timer' = "armed"
    /\ UNCHANGED <<tool, ctx, leader, status, group, copier, result>>

Drained ==
    /\ main = "drain" /\ copier # "copying"
    /\ main' = "check" /\ timer' = "off"
    /\ UNCHANGED <<tool, ctx, leader, status, group, watch, copier, runErr, result>>

\* Seeded fault: no WaitDelay, the caller waits for the copier.
DrainForever ==
    /\ main = "drain" /\ copier # "copying" /\ timer = "armed"
    /\ main' = "check" /\ timer' = "off"
    /\ UNCHANGED <<tool, ctx, leader, status, group, watch, copier, runErr, result>>

\* Seeded fault: the closed pipe is not reported.
DrainTimerSilent ==
    /\ main = "drain" /\ copier = "copying" /\ timer = "armed"
    /\ main' = "check" /\ timer' = "off" /\ copier' = "closed"
    /\ UNCHANGED <<tool, ctx, leader, status, group, watch, runErr, result>>

\* WaitDelay expires: the pipe is closed under the copier.
DrainTimerFires ==
    /\ main = "drain" /\ copier = "copying" /\ timer = "armed"
    /\ main' = "check" /\ timer' = "off" /\ copier' = "closed"
    /\ runErr' = IF runErr = "nil" THEN "waitdelay" ELSE runErr
    /\ UNCHANGED <<tool, ctx, leader, status, group, watch, result>>

-----------------------------------------------------------------------------
(* Classification of the outcome, per caller.                              *)

\* ProcessState.ExitCode.
ExitCode == IF status \in {"signal", "killed"} THEN "-1" ELSE status

\* Seeded fault: a signalled process matches *exec.ExitError first.
BashExitErrFirst(timedOut) ==
    CASE runErr = "nil" -> "0"
      [] runErr = "exit" -> ExitCode
      [] timedOut -> "124"
      [] OTHER -> "error"

\* bashExitCode.
BashExitCode(timedOut) ==
    CASE runErr = "nil" -> "0"
      [] runErr # "nil" /\ timedOut -> "124"
      [] runErr = "exit" /\ ~timedOut -> ExitCode
      [] OTHER -> "error"

\* runVerifyCmd: the switch on res.TimedOut.
VerifyExitCode(timedOut) ==
    CASE timedOut -> "124"
      [] ~timedOut /\ runErr = "nil" -> "0"
      [] ~timedOut /\ runErr = "exit" -> ExitCode
      [] OTHER -> "error"

\* LintWith: an error only for an exit status of 2 and more.
LintOutcome(timedOut) ==
    IF ~timedOut /\ (runErr = "nil" \/ (runErr = "exit" /\ ExitCode # "2")) THEN "findings" ELSE "error"

\* FormatCheck: any end but status 0 is a difference.
FormatOutcome(timedOut) ==
    CASE ~timedOut /\ runErr = "nil" -> "formatted"
      [] ~timedOut /\ runErr = "exit" -> "unformatted"
      [] OTHER -> "error"

\* The handler looks at execCtx.Err() only after Run has returned.
Report ==
    /\ main = "check"
    /\ main' = "returned"
    /\ LET timedOut == ctx = "deadline" IN
       result' = [timedOut |-> timedOut,
                  exit |-> CASE tool = "Bash" -> BashExitCode(timedOut)
                             [] tool = "verify" -> VerifyExitCode(timedOut)
                             [] tool = "lint" -> LintOutcome(timedOut)
                             [] tool = "format" -> FormatOutcome(timedOut)]
    /\ UNCHANGED <<tool, ctx, leader, status, group, watch, copier, timer, runErr>>

-----------------------------------------------------------------------------
Command     == LeaveKids \/ CommandEnds \/ KidsEnd
Context     == DeadlinePasses \/ RequestCancelled
Watcher     == WatchFires \/ Cancel \/ WatchTimerFires
Caller      == RunStarts \/ RunStartFails \/ RunReaps \/ TakeVerdict \/ Drained \/ DrainTimerFires \/ Report

CommandNext == Command \/ Context \/ Watcher \/ CopierEOF \/ Caller

CommandSpec == CommandInit /\ [][CommandNext]_commandVars

\* Goroutines run, armed timers and the deadline fire.  The command and its
\* children need never end.
FairCommandSpec ==
    /\ CommandSpec
    /\ WF_commandVars(DeadlinePasses)
    /\ WF_commandVars(WatchFires) /\ WF_commandVars(Cancel)
    /\ WF_commandVars(CopierEOF)
    /\ WF_commandVars(Caller)

-----------------------------------------------------------------------------
(* Properties.                                                             *)

\* The handler returns, even when the command never ends and children it
\* left behind never close its output (deadline, group kill, WaitDelay).
AlwaysReturns == main = "wait" ~> main = "returned"

\* A result with exit 0 and no timeout marker, or "formatted", has the whole
\* output: a pipe closed by WaitDelay never looks like success.  LintWith, which
\* does not tell exit 1 and a cut output apart, promises none of this.
SuccessHasWholeOutput ==
    main = "returned" /\ result.exit \in {"0", "formatted"} /\ ~result.timedOut => copier = "eof"

\* A command killed by Cancel takes its whole group with it.  One the deadline
\* killed is reported as timed out with 124 (Bash and runVerifyCmd) or as an
\* error (lint, format), never as a plain end; and one the cancelled request
\* killed is never reported with an exit status of its own, or as formatted.
KilledIsNotAnExit ==
    status = "killed" =>
        /\ ~GroupAlive
        /\ main = "returned" =>
              /\ ctx = "deadline" => result.timedOut /\ result.exit \in {"124", "error"}
              /\ ctx = "cancelled" =>
                    ~result.timedOut /\ result.exit \in {"-1", "findings", "unformatted", "error"}

\* lint.go: "Returns (findings, nil) on exit 0 or exit 1".  A linter that was
\* killed has done neither; run_lint counts its empty findings as green.
FindingsAreComplete ==
    main = "returned" /\ result.exit = "findings" => status \in {"0", "1"}
=============================================================================
