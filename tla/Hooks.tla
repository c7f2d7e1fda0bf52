-------------------------------- MODULE Hooks -------------------------------
(***************************************************************************)
(* The hooks of a phase (krypt-core/src/hooks.rs), each run as one step,   *)
(* and the commands of krypt <group> <name> (krypt-core/src/dispatch.rs),  *)
(* on the runner.                                                          *)
(***************************************************************************)
EXTENDS Dispatch, Lists

CONSTANTS
    Phase,     \* the hook phases
    Hooklists, \* the [[hook]] lists of the configs
    Commandlists, \* the [[command]] lists of the configs
    MaxJobs    \* bound on the commands and phases started

HookType == [when : Phase, gated : BOOLEAN, ignore_failure : BOOLEAN]

ASSUME HooksAssumption ==
    /\ Hooklists \subseteq Seq(HookType)
    /\ Commandlists \subseteq Seq(CommandType)
    /\ MaxJobs \in Nat

VARIABLES
    commands, \* the config's commands
    chosen,   \* the command run, 0 for none
    hstate,   \* "idle", "command", "next", "hook", or how hooks ended: "ok", "error"
    hooks,    \* the hooks of the phase
    hook,     \* the one that is next, or running
    summary,  \* the HookSummary
    hfate,    \* history: how each hook has ended
    jobs      \* commands and phases started

hookVars == <<commands, chosen, hstate, hooks, hook, summary, hfate, jobs>>
vars == <<execVars, runnerVars, hookVars>>

Summary == [total : Nat, ran : Nat, skipped_by_predicate : Nat,
            skipped_by_flag : Nat, failed_ignored : Nat, dry_run : BOOLEAN]
NewSummary(n, dry) ==
    [total |-> n, ran |-> 0, skipped_by_predicate |-> 0, skipped_by_flag |-> 0,
     failed_ignored |-> 0, dry_run |-> dry]

HookFate == {"gated", "ok", "failed", "skipped"}

TypeOK ==
    /\ ExecTypeOK
    /\ RunnerTypeOK
    /\ commands \in Seq(CommandType)
    /\ chosen \in 0..Len(commands)
    /\ hstate \in {"idle", "command", "next", "hook", "ok", "error"}
    /\ hooks \in Seq(HookType)
    /\ hook \in 1..(Len(hooks) + 1)
    /\ summary \in Summary
    /\ hfate \in Seq(HookFate)
    /\ jobs \in Nat

Init ==
    /\ ExecInit /\ RunnerInit
    /\ commands = << >> /\ chosen = 0
    /\ hstate = "idle"
    /\ hooks = << >>
    /\ hook = 1
    /\ summary = NewSummary(0, FALSE)
    /\ hfate = << >>
    /\ jobs = 0

Launch ==
    /\ hstate \in {"idle", "ok", "error"}
    /\ jobs < MaxJobs
    /\ jobs' = jobs + 1

(***************************************************************************)
(* A command                                                               *)
(***************************************************************************)
StartCommand(cs, g, n) ==
    /\ Launch
    /\ commands' = cs
    /\ chosen' = Dispatched(cs, g, n)
    /\ chosen' # 0
    /\ BeginSteps(cs[chosen'].steps)
    /\ hstate' = "command"
    /\ UNCHANGED <<hooks, hook, summary, hfate, execVars>>

\* There is no such command for this platform, or only its plan is asked for.
RunNothing(cs, g, n) ==
    /\ Launch
    /\ commands' = cs
    /\ chosen' = Dispatched(cs, g, n)
    /\ hstate' = "idle"
    /\ UNCHANGED <<hooks, hook, summary, hfate, execVars, runnerVars>>

CommandEnds ==
    /\ hstate = "command"
    /\ rstate \in {"ok", "error"}
    /\ hstate' = "idle"
    /\ commands' = << >> /\ chosen' = 0
    /\ UNCHANGED <<hooks, hook, summary, hfate, jobs, execVars, runnerVars>>

(***************************************************************************)
(* A phase                                                                 *)
(***************************************************************************)
OfPhase(cfg, phase) == Among(cfg, {h \in ToSet(cfg) : h.when = phase})

\* Nothing is run with --skip-hooks, on a dry run, or without a hook.
StartHooks(cfg, phase, skip, dry) ==
    /\ Launch
    /\ hooks' = OfPhase(cfg, phase)
    /\ hook' = 1
    /\ hfate' = << >>
    /\ LET n == Len(hooks')
       IN  /\ commands' = << >> /\ chosen' = 0
           /\ summary' = [NewSummary(n, dry) EXCEPT !.skipped_by_flag = IF skip THEN n ELSE 0]
           /\ hstate' = IF n = 0 \/ skip \/ dry THEN "ok" ELSE "next"
    /\ UNCHANGED <<execVars, runnerVars>>

AtHook == hstate = "next" /\ hook \in DOMAIN hooks

SkipHook ==
    /\ AtHook
    /\ hooks[hook].gated
    /\ summary' = [summary EXCEPT !.skipped_by_predicate = @ + 1]
    /\ hook' = hook + 1
    /\ hfate' = Append(hfate, "gated")
    /\ UNCHANGED <<commands, chosen, hstate, hooks, jobs, execVars, runnerVars>>

\* The hook as a single step: its predicate is evaluated there once more.
StepOf(h) ==
    [kind |-> "run", argv |-> TRUE, uses |-> {}, capture |-> NoVar, gated |-> h.gated,
     on_fail |-> "abort", ignore_failure |-> h.ignore_failure]

ExecuteHook ==
    /\ AtHook
    /\ BeginSteps(<<StepOf(hooks[hook])>>)
    /\ hstate' = "hook"
    /\ UNCHANGED <<commands, chosen, hooks, hook, summary, hfate, jobs, execVars>>

\* Mutant: a hook whose failure was ignored counts as run.
HookEndsRan ==
    /\ hstate = "hook" /\ rstate = "ok"
    /\ summary' = [summary EXCEPT !.ran = @ + 1]
    /\ hook' = hook + 1
    /\ hfate' = Append(hfate, fate[1])
    /\ hstate' = "next"
    /\ UNCHANGED <<commands, chosen, hooks, jobs, execVars, runnerVars>>

HookEnds ==
    /\ hstate = "hook" /\ rstate = "ok"
    /\ summary' = IF report.ignored > 0 THEN [summary EXCEPT !.failed_ignored = @ + 1]
                  ELSE [summary EXCEPT !.ran = @ + 1]
    /\ hook' = hook + 1
    /\ hfate' = Append(hfate, fate[1])
    /\ hstate' = "next"
    /\ UNCHANGED <<commands, chosen, hooks, jobs, execVars, runnerVars>>

\* The phase stops at the first hook that fails.
HookErrors ==
    /\ hstate = "hook" /\ rstate = "error"
    /\ hstate' = "error"
    /\ UNCHANGED <<commands, chosen, hooks, hook, summary, hfate, jobs, execVars, runnerVars>>

HooksDone ==
    /\ hstate = "next" /\ hook \notin DOMAIN hooks
    /\ hstate' = "ok"
    /\ UNCHANGED <<commands, chosen, hooks, hook, summary, hfate, jobs, execVars, runnerVars>>

(***************************************************************************)
(* The process                                                             *)
(***************************************************************************)
Start ==
    \/ \E cs \in Commandlists, g \in Group, n \in Name :
          StartCommand(cs, g, n) \/ RunNothing(cs, g, n)
    \/ \E cfg \in Hooklists, phase \in Phase, skip, dry \in BOOLEAN :
          StartHooks(cfg, phase, skip, dry)

Main ==
    \/ CommandEnds \/ SkipHook \/ ExecuteHook \/ HookEnds \/ HookErrors \/ HooksDone
    \/ RunnerStep /\ UNCHANGED hookVars

Idle == UNCHANGED <<runnerVars, hookVars>>
Caller == (Drain \/ Reap) /\ Idle
InputThread == Writer /\ Idle
ChildProcess == Child /\ Idle

Next == Start \/ Main \/ Caller \/ InputThread \/ ChildProcess

\* krypt's two threads are scheduled, and a program that does not have to
\* wait for a pipe goes on and exits.
Fairness ==
    WF_vars(Main) /\ WF_vars(Caller) /\ WF_vars(InputThread) /\ WF_vars(ChildProcess)

Spec == Init /\ [][Next]_vars /\ Fairness

(***************************************************************************)
(* Properties                                                              *)
(***************************************************************************)

\* Whatever the child, the writer and the caller did first, exec returns
\* all that the child has written, and only once it has exited.
OutputWhole == exec = "result" => ~alive /\ stdout = printed

\* A step is given, for each capture it names, the output of the latest
\* step before it in the same run that had that capture and succeeded.
CaptureFlow ==
    \A i \in DOMAIN given : \A v \in steps[i].uses :
        LET providers == {j \in 1..(i - 1) : steps[j].capture = v /\ fate[j] = "ok"}
        IN  \/ i \in DOMAIN fate /\ fate[i] = "skipped"
            \/ /\ given[i][v] \in providers \cup {0}
               /\ \A j \in providers : j <= given[i][v]

\* A run that succeeds has counted every step once, and has absorbed no
\* failure of a step that does not allow it.
RunAccounts ==
    rstate = "ok" =>
        /\ Len(fate) = Len(steps)
        /\ report.run = Count(fate, "ok") + Count(fate, "failed")
        /\ report.skipped = Count(fate, "skipped")
        /\ report.ignored = Count(fate, "failed")
        /\ \A i \in DOMAIN fate : fate[i] = "failed" => Absorbs(steps[i])

\* A phase that succeeds has counted every hook once: as failed only those
\* whose program failed, all of them with ignore_failure.
HooksAccount ==
    hstate = "ok" /\ ~summary.dry_run =>
        /\ summary.total = summary.ran + summary.skipped_by_predicate
                             + summary.skipped_by_flag + summary.failed_ignored
        /\ summary.failed_ignored = Count(hfate, "failed")
        /\ \A i \in DOMAIN hfate : hfate[i] = "failed" => hooks[i].ignore_failure

\* What the listing of a group shows and what runs agree: a name that is
\* listed runs one of its listed entries, and one that is not does not run.
ListedIsRun ==
    \A g \in Group, n \in Name :
        LET shown == {i \in Listed(commands, g) : commands[i].name = n}
            i == Dispatched(commands, g, n)
        IN  IF shown = {} THEN i = 0 ELSE i \in shown

\* Every command and every phase ends: neither the child waits for krypt to
\* read its output while krypt waits for it to read its input, nor does
\* krypt wait for itself.
JobsEnd == hstate \in {"command", "next", "hook"} ~> hstate \in {"idle", "ok", "error"}

(***************************************************************************)
(* What the code says of itself and does not do                            *)
(***************************************************************************)

\* exec returns "ProcessResult even on non-zero exit": a child that ran and
\* failed is a result.
ResultOnExit == exec = "error" => status = 0
=============================================================================
