------------------------------- MODULE Runner -------------------------------
(***************************************************************************)
(* execute_steps of krypt-core/src/runner.rs: the steps of a [[command]]   *)
(* or of one [[hook]] run in order, each one gated by its predicate, run   *)
(* as a process or a notification, and its failure handled by on_fail.     *)
(*                                                                         *)
(* A capture's value is told by the step whose output it is; what a        *)
(* predicate says is up to the world at each evaluation.                   *)
(***************************************************************************)
EXTENDS Exec

CONSTANTS
    Var,     \* capture names
    NoVar,   \* no capture
    MaxInput \* bound on the units of a pipe step's input

OnFail == {"abort", "ignore", "notify", "prompt"}

\* A step of a config that validate_step accepts.  argv is FALSE for an
\* empty run or pipe list, uses is the captures the step's templates name.
StepType == [kind : {"run", "pipe", "notify"}, argv : BOOLEAN,
             uses : SUBSET Var, capture : Var \cup {NoVar}, gated : BOOLEAN,
             on_fail : OnFail, ignore_failure : BOOLEAN]

ASSUME RunnerAssumption == NoVar \notin Var /\ MaxInput \in Nat

VARIABLES
    rstate,    \* "idle", "ready", "exec", or how the run ended: "ok", "error"
    steps,     \* the steps
    idx,       \* the one that is next, or running
    captures,  \* the step each capture holds the output of, 0 for none
    report,    \* the RunReport's counters
    fate,      \* history: how each step has ended
    given      \* history: what each executed step was given of captures

runnerVars == <<rstate, steps, idx, captures, report, fate, given>>

Fate == {"ok", "failed", "skipped"}
NoCaptures == [v \in Var |-> 0]
NoReport == [run |-> 0, skipped |-> 0, ignored |-> 0]

RunnerTypeOK ==
    /\ rstate \in {"idle", "ready", "exec", "ok", "error"}
    /\ steps \in Seq(StepType)
    /\ idx \in 1..(Len(steps) + 1)
    /\ captures \in [Var -> Nat]
    /\ report \in [run : Nat, skipped : Nat, ignored : Nat]
    /\ fate \in Seq(Fate)
    /\ given \in Seq([Var -> Nat])

RunnerInit ==
    /\ rstate = "idle"
    /\ steps = << >>
    /\ idx = 1
    /\ captures = NoCaptures
    /\ report = NoReport
    /\ fate = << >> /\ given = << >>

\* Mutant: the index of the run before is kept.
BeginStepsKeepsIdx(ss) ==
    /\ rstate \notin {"ready", "exec"}
    /\ rstate' = "ready"
    /\ steps' = ss
    /\ captures' = NoCaptures
    /\ report' = NoReport
    /\ fate' = << >> /\ given' = << >>
    /\ UNCHANGED idx

BeginSteps(ss) ==
    /\ rstate \notin {"ready", "exec"}
    /\ rstate' = "ready"
    /\ steps' = ss
    /\ idx' = 1
    /\ captures' = NoCaptures
    /\ report' = NoReport
    /\ fate' = << >> /\ given' = << >>

Ready == rstate = "ready" /\ idx \in DOMAIN steps
step == steps[idx]
Process == step.kind \in {"run", "pipe"}

EndStep(f) == idx' = idx + 1 /\ fate' = Append(fate, f)

\* A badly shaped step ends the run, once its predicate holds.
BadShape ==
    /\ Ready
    /\ \/ Process /\ ~step.argv
       \/ step.kind = "notify" /\ step.capture # NoVar
    /\ rstate' = "error"
    /\ UNCHANGED <<steps, idx, captures, report, fate, given, execVars>>

SkipStep ==
    /\ Ready
    /\ step.gated
    /\ EndStep("skipped")
    /\ given' = Append(given, NoCaptures)
    /\ report' = [report EXCEPT !.skipped = @ + 1]
    /\ UNCHANGED <<rstate, steps, captures, execVars>>

\* The step's templates are interpolated with the captures there are.
Interpolate ==
    given' = Append(given, [v \in Var |-> IF v \in step.uses THEN captures[v] ELSE 0])

RunStep ==
    /\ Ready
    /\ Process /\ step.argv
    /\ Interpolate
    /\ report' = [report EXCEPT !.run = @ + 1]
    /\ \E prog \in Program, n \in IF step.kind = "pipe" THEN 0..MaxInput ELSE {0} :
          Spawn(prog, step.kind = "pipe", n)
    /\ rstate' = "exec"
    /\ UNCHANGED <<steps, idx, captures, fate>>

\* No such program: the error is returned past on_fail and ignore_failure.
SpawnFails ==
    /\ Ready
    /\ Process /\ step.argv
    /\ Interpolate
    /\ report' = [report EXCEPT !.run = @ + 1]
    /\ rstate' = "error"
    /\ UNCHANGED <<steps, idx, captures, fate, execVars>>

Exited == rstate = "exec" /\ exec = "result"

StepSucceeds ==
    /\ Exited /\ status = 0
    /\ captures' = IF step.capture = NoVar THEN captures
                   ELSE [captures EXCEPT ![step.capture] = idx]
    /\ EndStep("ok")
    /\ rstate' = "ready"
    /\ UNCHANGED <<steps, report, given, execVars>>

\* An error of exec is returned as a failure to spawn is.
ExecErrors ==
    /\ rstate = "exec" /\ exec = "error"
    /\ rstate' = "error"
    /\ UNCHANGED <<steps, idx, captures, report, fate, given, execVars>>

NotifySent ==
    /\ Ready
    /\ step.kind = "notify" /\ step.capture = NoVar
    /\ Interpolate
    /\ report' = [report EXCEPT !.run = @ + 1]
    /\ EndStep("ok")
    /\ UNCHANGED <<rstate, steps, captures, execVars>>

(***************************************************************************)
(* handle_failure: ignore_failure wins over on_fail; a prompt is answered. *)
(***************************************************************************)
Absorbs(s) == s.ignore_failure \/ s.on_fail \in {"ignore", "prompt"}
Aborts(s) == ~s.ignore_failure /\ s.on_fail # "ignore"

Absorbed(r) ==
    /\ Absorbs(step)
    /\ EndStep("failed")
    /\ report' = [r EXCEPT !.ignored = @ + 1]
    /\ rstate' = "ready"

\* Mutant: the run goes on after a failure that aborts it.
AbortedGoesOn(r) ==
    /\ Aborts(step)
    /\ EndStep("failed")
    /\ report' = [r EXCEPT !.ignored = @ + 1]
    /\ rstate' = "ready"

Aborted(r) ==
    /\ Aborts(step)
    /\ report' = r
    /\ rstate' = "error"
    /\ UNCHANGED <<idx, fate>>

\* Mutant: stdout is captured before the exit status is looked at.
StepFailsCaptures ==
    /\ Exited /\ status # 0
    /\ Absorbed(report) \/ Aborted(report)
    /\ captures' = IF step.capture = NoVar THEN captures
                   ELSE [captures EXCEPT ![step.capture] = idx]
    /\ UNCHANGED <<steps, given, execVars>>

StepFails ==
    /\ Exited /\ status # 0
    /\ Absorbed(report) \/ Aborted(report)
    /\ UNCHANGED <<steps, captures, given, execVars>>

NotifyFails ==
    /\ Ready
    /\ step.kind = "notify" /\ step.capture = NoVar
    /\ Interpolate
    /\ LET r == [report EXCEPT !.run = @ + 1]
       IN  Absorbed(r) \/ Aborted(r)
    /\ UNCHANGED <<steps, captures, execVars>>

StepsDone ==
    /\ rstate = "ready" /\ idx \notin DOMAIN steps
    /\ rstate' = "ok"
    /\ UNCHANGED <<steps, idx, captures, report, fate, given, execVars>>

RunnerStep ==
    \/ BadShape \/ SkipStep \/ RunStep \/ SpawnFails
    \/ StepSucceeds \/ StepFails \/ ExecErrors
    \/ NotifySent \/ NotifyFails
    \/ StepsDone
=============================================================================
