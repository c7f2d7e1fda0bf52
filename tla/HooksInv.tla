------------------------------ MODULE HooksInv ------------------------------
(***************************************************************************)
(* The inductive invariant behind the properties of Hooks: how the pipes,  *)
(* the counters and the histories of a run relate at every step of it.     *)
(***************************************************************************)
EXTENDS Hooks

\* What the child has written is in the pipe or has been read.  It runs only
\* while the caller waits for it, which ends on an empty pipe.
ExecInv ==
    /\ alive => exec = "running"
    /\ stdout + outpipe = printed
    /\ exec \in {"result", "error"} => outpipe = 0

\* A step in the middle of its run has been given its captures, and counted,
\* and has no fate yet.
Begun == IF rstate = "exec" THEN 1 ELSE 0

StepsInv ==
    /\ idx = Len(fate) + 1
    /\ rstate # "error" => Len(given) = Len(fate) + Begun
    /\ Len(given) \in Len(fate)..(Len(fate) + 1)
    /\ rstate = "exec" => idx \in DOMAIN steps
    /\ rstate = "ok" => idx = Len(steps) + 1
    /\ Len(given) <= Len(steps)

\* Each capture holds the latest step that has provided it.
Providers(v, n) == {j \in 1..n : steps[j].capture = v /\ fate[j] = "ok"}

CapturesInv ==
    \A v \in Var :
        /\ captures[v] \in Providers(v, Len(fate)) \cup {0}
        /\ \A j \in Providers(v, Len(fate)) : j <= captures[v]

ReportInv ==
    rstate # "error" =>
        /\ report.run = Count(fate, "ok") + Count(fate, "failed") + Begun
        /\ report.skipped = Count(fate, "skipped")
        /\ report.ignored = Count(fate, "failed")
        /\ \A i \in DOMAIN fate : fate[i] = "failed" => Absorbs(steps[i])

\* The hooks before the next one have each been counted once.
PhaseInv ==
    /\ hstate \in {"next", "hook"} =>
          /\ hook = Len(hfate) + 1
          /\ summary.total = Len(hooks)
          /\ summary.skipped_by_flag = 0
          /\ Len(hfate) = summary.ran + summary.skipped_by_predicate + summary.failed_ignored
          /\ summary.failed_ignored = Count(hfate, "failed")
          /\ \A i \in DOMAIN hfate : hfate[i] = "failed" => hooks[i].ignore_failure
    /\ hstate = "hook" => hook \in DOMAIN hooks /\ steps = <<StepOf(hooks[hook])>>

RunInv == StepsInv /\ CapturesInv /\ ReportInv /\ CaptureFlow

JobInv == ExecInv /\ RunInv /\ PhaseInv
=============================================================================
