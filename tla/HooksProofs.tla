---------------------------- MODULE HooksProofs -----------------------------
(***************************************************************************)
(* The runner, the hooks and the commands keep their accounts: for every   *)
(* pipe size, every program, every config and any number of jobs.          *)
(***************************************************************************)
EXTENDS HooksInv, ListProofs

(***************************************************************************)
(* Which command, which hooks                                              *)
(***************************************************************************)

LEMMA FirstIn ==
    ASSUME NEW S \in SUBSET Nat, S # {}
    PROVE  First(S) \in S
  BY Least DEF First

\* The listed entries of a name and the entry that is run.
LEMMA Agree ==
    ASSUME DispatchAssumption, NEW cs \in Seq(CommandType), NEW g \in Group, NEW n \in Name
    PROVE  LET shown == {i \in Listed(cs, g) : cs[i].name = n}
               i == Dispatched(cs, g, n)
           IN  /\ i \in 0..Len(cs)
               /\ IF shown = {} THEN i = 0 ELSE i \in shown
  <1> DEFINE S == {i \in DOMAIN cs : cs[i].group = g /\ cs[i].name = n}
             native == {i \in S : GatedTo(cs[i])}
             bare == {i \in S : cs[i].gate = {}}
             shown == {i \in Listed(cs, g) : cs[i].name = n}
  <1>1. S \in SUBSET Nat /\ native \in SUBSET Nat /\ bare \in SUBSET Nat
    OBVIOUS
  <1>2. native \cap bare = {}
    BY DEF GatedTo
  <1>3. shown = IF native # {} THEN native ELSE bare
    BY <1>2 DEF Listed, GatedTo
  <1>4. CASE S = {}
    BY <1>3, <1>4 DEF Dispatched
  <1>5. CASE native # {}
    <2>1. Preferred(cs, S) = First(native) /\ First(native) \in native
      BY <1>1, <1>5, FirstIn DEF Preferred
    <2> QED
      BY <1>3, <1>5, <2>1 DEF Dispatched
  <1>6. CASE S # {} /\ native = {} /\ bare # {}
    <2>1. Preferred(cs, S) = First(bare) /\ First(bare) \in bare
      BY <1>1, <1>6, FirstIn DEF Preferred
    <2>2. Dispatched(cs, g, n) = First(bare)
      BY <1>6, <2>1 DEF Dispatched
    <2>3. shown = bare /\ First(bare) \in 0..Len(cs)
      BY <1>3, <1>6, <2>1
    <2> HIDE DEF bare
    <2> QED
      BY <1>6, <2>1, <2>2, <2>3
  <1>7. CASE S # {} /\ native = {} /\ bare = {}
    <2>1. Preferred(cs, S) = First(S) /\ First(S) \in S
      BY <1>1, <1>7, FirstIn DEF Preferred
    <2> QED
      BY <1>3, <1>7, <2>1 DEF Dispatched
  <1> QED
    BY <1>4, <1>5, <1>6, <1>7

\* The hooks of a phase are hooks.
LEMMA OfPhaseType ==
    ASSUME NEW cfg \in Seq(HookType), NEW phase \in Phase
    PROVE  OfPhase(cfg, phase) \in Seq(HookType)
  BY AmongSet DEF OfPhase

(***************************************************************************)
(* exec: the child, the writer and the caller                              *)
(***************************************************************************)

\* A child that is spawned has nothing in its pipes.
LEMMA Spawned ==
    ASSUME ExecAssumption, NEW prog \in Program, NEW piped \in BOOLEAN, NEW n \in Nat,
           Spawn(prog, piped, n)
    PROVE  ExecTypeOK' /\ ExecInv'
  <1>1. prog.ops \in Seq({"read", "write"}) /\ prog.status \in Nat
    BY DEF ExecAssumption, ProgramType
  <1> QED
    BY <1>1 DEF Spawn, ExecTypeOK, ExecInv, ExecAssumption

\* No step of the three loses a unit of output.
LEMMA ExecKeeps ==
    ASSUME ExecAssumption, ExecTypeOK, ExecInv, ExecStep
    PROVE  ExecTypeOK' /\ ExecInv'
  <1>1. CASE ChildReads
    <2>1. Tail(ops) \in Seq({"read", "write"})
      BY <1>1 DEF ChildReads, ExecTypeOK
    <2> QED
      BY <1>1, <2>1 DEF ChildReads, ExecTypeOK, ExecInv, ExecAssumption
  <1>2. CASE ChildWrites
    <2>1. Tail(ops) \in Seq({"read", "write"})
      BY <1>2 DEF ChildWrites, ExecTypeOK
    <2> QED
      BY <1>2, <2>1 DEF ChildWrites, ExecTypeOK, ExecInv, ExecAssumption
  <1>3. CASE ChildExits
    BY <1>3 DEF ChildExits, ExecTypeOK, ExecInv
  <1>4. CASE Writer
    BY <1>4 DEF Writer, WriteInput, CloseInput, BreakInput, ExecTypeOK, ExecInv, ExecAssumption
  <1>5. CASE Drain
    BY <1>5 DEF Drain, ExecTypeOK, ExecInv, ExecAssumption
  <1>6. CASE Reap
    BY <1>6 DEF Reap, ExecTypeOK, ExecInv
  <1> QED
    BY <1>1, <1>2, <1>3, <1>4, <1>5, <1>6 DEF ExecStep, Child

LEMMA ExecFrame ==
    ASSUME ExecTypeOK, ExecInv, UNCHANGED execVars
    PROVE  ExecTypeOK' /\ ExecInv'
  BY DEF execVars, ExecTypeOK, ExecInv

(***************************************************************************)
(* The runner's types                                                      *)
(***************************************************************************)

\* The step that is next, or running, is one of the steps.
LEMMA StepTyped ==
    ASSUME RunnerTypeOK, idx \in DOMAIN steps
    PROVE  step \in StepType
  BY DEF RunnerTypeOK, step

LEMMA BeginTyped ==
    ASSUME NEW ss \in Seq(StepType), BeginSteps(ss)
    PROVE  RunnerTypeOK'
  <1>1. 1 \in 1..(Len(ss) + 1)
    OBVIOUS
  <1> QED
    BY <1>1 DEF BeginSteps, RunnerTypeOK, NoCaptures, NoReport

LEMMA EndTyped ==
    ASSUME RunnerTypeOK, idx \in DOMAIN steps, NEW f \in Fate, EndStep(f)
    PROVE  /\ idx' \in 1..(Len(steps) + 1)
           /\ fate' \in Seq(Fate)
  BY DEF EndStep, RunnerTypeOK

LEMMA InterpolateTyped ==
    ASSUME RunnerTypeOK, Interpolate
    PROVE  given' \in Seq([Var -> Nat])
  <1>1. [v \in Var |-> IF v \in step.uses THEN captures[v] ELSE 0] \in [Var -> Nat]
    BY DEF RunnerTypeOK
  <1> QED
    BY <1>1 DEF Interpolate, RunnerTypeOK

\* The step runs its program, and nothing else of the run changes.
LEMMA RunSpawns ==
    ASSUME ExecAssumption, RunnerAssumption, RunStep
    PROVE  ExecTypeOK' /\ ExecInv'
  <1>1. PICK prog \in Program, n \in IF step.kind = "pipe" THEN 0..MaxInput ELSE {0} :
            Spawn(prog, step.kind = "pipe", n)
    BY DEF RunStep
  <1>2. n \in Nat
    BY DEF RunnerAssumption
  <1> DEFINE piped == step.kind = "pipe"
  <1>3. prog.ops \in Seq({"read", "write"}) /\ prog.status \in Nat
    BY DEF ExecAssumption, ProgramType
  <1> QED
    BY <1>1, <1>2, <1>3 DEF Spawn, ExecTypeOK, ExecInv, ExecAssumption

\* A counter more is still a report.
LEMMA ReportTyped ==
    ASSUME NEW r \in [run : Nat, skipped : Nat, ignored : Nat]
    PROVE  /\ [r EXCEPT !.run = @ + 1] \in [run : Nat, skipped : Nat, ignored : Nat]
           /\ [r EXCEPT !.skipped = @ + 1] \in [run : Nat, skipped : Nat, ignored : Nat]
           /\ [r EXCEPT !.ignored = @ + 1] \in [run : Nat, skipped : Nat, ignored : Nat]
  OBVIOUS

\* Every step of the runner keeps its types.
LEMMA RunnerTyped ==
    ASSUME RunnerAssumption, RunnerTypeOK, StepsInv, RunnerStep
    PROVE  RunnerTypeOK'
  <1>1. CASE BadShape
    BY <1>1 DEF BadShape, RunnerTypeOK
  <1>2. CASE SkipStep
    <2>1. given' \in Seq([Var -> Nat])
      BY <1>2 DEF SkipStep, NoCaptures, RunnerTypeOK
    <2>2. idx' \in 1..(Len(steps) + 1) /\ fate' \in Seq(Fate)
      BY <1>2, EndTyped DEF SkipStep, Ready, Fate
    <2>3. report' \in [run : Nat, skipped : Nat, ignored : Nat]
      BY <1>2, ReportTyped DEF SkipStep, RunnerTypeOK
    <2> QED
      BY <1>2, <2>1, <2>2, <2>3 DEF SkipStep, RunnerTypeOK
  <1>3. CASE RunStep \/ SpawnFails
    <2>1. given' \in Seq([Var -> Nat])
      BY <1>3, InterpolateTyped DEF RunStep, SpawnFails
    <2>2. report' \in [run : Nat, skipped : Nat, ignored : Nat]
      BY <1>3, ReportTyped DEF RunStep, SpawnFails, RunnerTypeOK
    <2> QED
      BY <1>3, <2>1, <2>2 DEF RunStep, SpawnFails, RunnerTypeOK
  <1>5. CASE StepSucceeds
    <2>1. idx \in DOMAIN steps
      BY <1>5 DEF StepSucceeds, Exited, StepsInv
    <2>2. idx' \in 1..(Len(steps) + 1) /\ fate' \in Seq(Fate)
      BY <1>5, <2>1, EndTyped DEF StepSucceeds, Fate
    <2>3. captures' \in [Var -> Nat]
      <3>1. captures \in [Var -> Nat] /\ idx \in Nat
        BY DEF RunnerTypeOK
      <3>2. captures' = captures \/ captures' = [captures EXCEPT ![step.capture] = idx]
        BY <1>5 DEF StepSucceeds
      <3> QED
        BY <3>1, <3>2
    <2> QED
      BY <1>5, <2>2, <2>3 DEF StepSucceeds, RunnerTypeOK
  <1>6. CASE StepFails
    <2>1. idx \in DOMAIN steps
      BY <1>6 DEF StepFails, Exited, StepsInv
    <2>2. CASE Absorbed(report)
      <3>1. idx' \in 1..(Len(steps) + 1) /\ fate' \in Seq(Fate)
        BY <2>1, <2>2, EndTyped DEF Absorbed, Fate
      <3>2. report' \in [run : Nat, skipped : Nat, ignored : Nat]
        BY <2>2, ReportTyped DEF Absorbed, RunnerTypeOK
      <3> QED
        BY <1>6, <2>2, <3>1, <3>2 DEF StepFails, Absorbed, RunnerTypeOK
    <2>3. CASE Aborted(report)
      BY <1>6, <2>3 DEF StepFails, Aborted, RunnerTypeOK
    <2> QED
      BY <1>6, <2>2, <2>3 DEF StepFails
  <1>7. CASE ExecErrors
    BY <1>7 DEF ExecErrors, RunnerTypeOK
  <1>8. CASE NotifySent
    <2>1. idx' \in 1..(Len(steps) + 1) /\ fate' \in Seq(Fate)
      BY <1>8, EndTyped DEF NotifySent, Ready, Fate
    <2>2. given' \in Seq([Var -> Nat])
      BY <1>8, InterpolateTyped DEF NotifySent
    <2>3. report' \in [run : Nat, skipped : Nat, ignored : Nat]
      BY <1>8, ReportTyped DEF NotifySent, RunnerTypeOK
    <2> QED
      BY <1>8, <2>1, <2>2, <2>3 DEF NotifySent, RunnerTypeOK
  <1>9. CASE NotifyFails
    <2> DEFINE r == [report EXCEPT !.run = @ + 1]
    <2>1. r \in [run : Nat, skipped : Nat, ignored : Nat]
      BY ReportTyped DEF RunnerTypeOK
    <2>2. given' \in Seq([Var -> Nat])
      BY <1>9, InterpolateTyped DEF NotifyFails
    <2>3. CASE Absorbed(r)
      <3>1. idx' \in 1..(Len(steps) + 1) /\ fate' \in Seq(Fate)
        BY <1>9, <2>3, EndTyped DEF NotifyFails, Ready, Absorbed, Fate
      <3>2. report' \in [run : Nat, skipped : Nat, ignored : Nat]
        <4> HIDE DEF r
        <4> QED
          BY <2>1, <2>3, ReportTyped DEF Absorbed
      <3>3. rstate' = "ready" /\ UNCHANGED <<steps, captures>>
        BY <1>9, <2>3 DEF NotifyFails, Absorbed
      <3> QED
        BY <2>2, <3>1, <3>2, <3>3 DEF RunnerTypeOK
    <2>4. CASE Aborted(r)
      <3> HIDE DEF r
      <3> QED
        BY <1>9, <2>1, <2>2, <2>4 DEF NotifyFails, Aborted, RunnerTypeOK
    <2> QED
      BY <1>9, <2>3, <2>4 DEF NotifyFails
  <1>10. CASE StepsDone
    BY <1>10 DEF StepsDone, RunnerTypeOK
  <1> QED
    BY <1>1, <1>2, <1>3, <1>5, <1>6, <1>7, <1>8, <1>9, <1>10 DEF RunnerStep

(***************************************************************************)
(* The runner's accounts                                                   *)
(***************************************************************************)

\* Nothing has been run yet.
LEMMA NothingRun ==
    ASSUME steps' \in Seq(StepType), rstate' \in {"idle", "ready"},
           idx' = 1, captures' = NoCaptures, report' = NoReport, fate' = << >>, given' = << >>
    PROVE  (StepsInv /\ CapturesInv /\ ReportInv /\ CaptureFlow)'
  <1>1. \A f : Count(<< >>, f) = 0
    BY CountNone
  <1>2. (StepsInv /\ CapturesInv /\ CaptureFlow)'
    BY DEF StepsInv, CapturesInv, Providers, CaptureFlow, NoCaptures, Begun
  <1>3. ReportInv'
    BY <1>1 DEF ReportInv, NoReport, Begun
  <1> QED
    BY <1>2, <1>3

\* What a step adds to the histories.
LEMMA Appended ==
    ASSUME NEW S, NEW s \in Seq(S), NEW x \in S
    PROVE  /\ Append(s, x) \in Seq(S)
           /\ Len(Append(s, x)) = Len(s) + 1
           /\ Append(s, x)[Len(s) + 1] = x
           /\ \A i \in 1..Len(s) : Append(s, x)[i] = s[i]
  OBVIOUS

\* The captures a step was given are settled once the steps before it have
\* ended, and no later step changes that.
LEMMA FlowOn ==
    ASSUME RunnerTypeOK, StepsInv, CapturesInv, CaptureFlow, UNCHANGED steps,
           fate' = fate \/ \E f \in Fate : fate' = Append(fate, f),
           \/ given' = given
           \/ /\ Len(given) = Len(fate) /\ idx \in DOMAIN steps
              /\ \E g \in [Var -> Nat] :
                    /\ given' = Append(given, g)
                    /\ \/ \A v \in steps[idx].uses : g[v] = captures[v]
                       \/ fate' = Append(fate, "skipped"),
           \A i \in DOMAIN steps : steps[i].uses \subseteq Var
    PROVE  CaptureFlow'
  <1>1. /\ fate \in Seq(Fate) /\ given \in Seq([Var -> Nat])
        /\ idx = Len(fate) + 1
        /\ Len(given) \in Len(fate)..(Len(fate) + 1)
        /\ Len(given) <= Len(steps)
    BY DEF RunnerTypeOK, StepsInv
  <1>2. \A i \in 1..Len(fate) : i \in DOMAIN fate' /\ fate'[i] = fate[i]
    <2>1. CASE fate' = fate
      BY <1>1, <2>1
    <2>2. ASSUME NEW f \in Fate, fate' = Append(fate, f)
          PROVE  \A i \in 1..Len(fate) : i \in DOMAIN fate' /\ fate'[i] = fate[i]
      BY <1>1, <2>2, Appended
    <2> QED
      BY <2>1, <2>2
  <1>3. SUFFICES ASSUME NEW i \in DOMAIN given', NEW v \in steps[i].uses
                 PROVE  \/ i \in DOMAIN fate' /\ fate'[i] = "skipped"
                        \/ /\ given'[i][v] \in {j \in 1..(i - 1) : steps[j].capture = v /\ fate'[j] = "ok"} \cup {0}
                           /\ \A j \in {k \in 1..(i - 1) : steps[k].capture = v /\ fate'[k] = "ok"} :
                                 j <= given'[i][v]
    BY DEF CaptureFlow
  <1>4. CASE i \in DOMAIN given /\ given'[i] = given[i]
    <2>0. \A j \in 1..(i - 1) : fate'[j] = fate[j]
      BY <1>1, <1>2, <1>4
    <2>1. {j \in 1..(i - 1) : steps[j].capture = v /\ fate'[j] = "ok"}
              = {j \in 1..(i - 1) : steps[j].capture = v /\ fate[j] = "ok"}
      BY <2>0
    <2>2. i \in DOMAIN fate /\ fate[i] = "skipped" => i \in DOMAIN fate' /\ fate'[i] = "skipped"
      BY <1>1, <1>2
    <2> QED
      BY <1>4, <2>1, <2>2 DEF CaptureFlow
  <1>5. CASE ~ (i \in DOMAIN given /\ given'[i] = given[i])
    <2>1. PICK g \in [Var -> Nat] :
              /\ Len(given) = Len(fate) /\ idx \in DOMAIN steps
              /\ given' = Append(given, g)
              /\ \/ \A w \in steps[idx].uses : g[w] = captures[w]
                 \/ fate' = Append(fate, "skipped")
      BY <1>5
    <2>2. i = idx /\ given'[i] = g
      BY <1>1, <1>5, <2>1, Appended
    <2>3. CASE fate' = Append(fate, "skipped")
      BY <1>1, <2>2, <2>3 DEF Fate
    <2>4. CASE \A w \in steps[idx].uses : g[w] = captures[w]
      <3>1. {j \in 1..(i - 1) : steps[j].capture = v /\ fate'[j] = "ok"} = Providers(v, Len(fate))
        BY <1>1, <1>2, <2>2 DEF Providers
      <3>2. v \in Var
        BY <1>1, <2>1, <2>2
      <3> QED
        BY <2>2, <2>4, <3>1, <3>2 DEF CapturesInv
    <2> QED
      BY <2>1, <2>3, <2>4
  <1> QED
    BY <1>4, <1>5

\* A step that provides no capture leaves what they hold.
LEMMA CapturesOn ==
    ASSUME RunnerTypeOK, StepsInv, CapturesInv, UNCHANGED <<steps, captures>>,
           \/ fate' = fate
           \/ \E f \in Fate : /\ fate' = Append(fate, f)
                              /\ f # "ok" \/ steps[idx].capture \notin Var
    PROVE  CapturesInv'
  <1>1. idx = Len(fate) + 1 /\ fate \in Seq(Fate) /\ Len(fate) \in Nat
    BY DEF StepsInv, RunnerTypeOK
  <1>2. CASE fate' = fate
    BY <1>2 DEF CapturesInv, Providers
  <1>3. ASSUME NEW f \in Fate, fate' = Append(fate, f),
               f # "ok" \/ steps[idx].capture \notin Var
        PROVE  CapturesInv'
    <2>1. /\ Len(fate') = idx /\ fate'[idx] = f
          /\ \A i \in 1..Len(fate) : fate'[i] = fate[i]
      BY <1>1, <1>3, Appended
    <2> SUFFICES ASSUME NEW v \in Var
                 PROVE  {j \in 1..idx : steps[j].capture = v /\ fate'[j] = "ok"} = Providers(v, Len(fate))
      BY <2>1 DEF CapturesInv, Providers
    <2>2. ~ (steps[idx].capture = v /\ fate'[idx] = "ok")
      BY <1>3, <2>1
    <2>3. 1..idx = 1..Len(fate) \cup {idx}
      BY <1>1
    <2> QED
      BY <2>1, <2>2, <2>3 DEF Providers
  <1> QED
    BY <1>2, <1>3

\* One that succeeds is the latest to provide its capture.
LEMMA CaptureNew ==
    ASSUME RunnerTypeOK, StepsInv, CapturesInv, UNCHANGED steps,
           fate' = Append(fate, "ok"), steps[idx].capture \in Var,
           captures' = [captures EXCEPT ![steps[idx].capture] = idx]
    PROVE  CapturesInv'
  <1>1. idx = Len(fate) + 1 /\ fate \in Seq(Fate) /\ Len(fate) \in Nat /\ "ok" \in Fate
    BY DEF StepsInv, RunnerTypeOK, Fate
  <1>2. /\ Len(fate') = idx /\ fate'[idx] = "ok"
        /\ \A i \in 1..Len(fate) : fate'[i] = fate[i]
    BY <1>1, Appended
  <1>3. 1..idx = 1..Len(fate) \cup {idx} /\ idx \notin 1..Len(fate)
    BY <1>1
  <1>4. SUFFICES ASSUME NEW v \in Var
                 PROVE  LET P == {j \in 1..idx : steps[j].capture = v /\ fate'[j] = "ok"}
                        IN  /\ captures'[v] \in P \cup {0}
                            /\ \A j \in P : j <= captures'[v]
    BY <1>2 DEF CapturesInv, Providers
  <1> DEFINE P == {j \in 1..idx : steps[j].capture = v /\ fate'[j] = "ok"}
  <1>5. CASE v = steps[idx].capture
    <2>1. captures'[v] = idx /\ idx \in P
      BY <1>2, <1>3, <1>5 DEF RunnerTypeOK
    <2>2. \A j \in P : j <= idx
      BY <1>1
    <2> QED
      BY <2>1, <2>2
  <1>6. CASE v # steps[idx].capture
    <2>1. captures'[v] = captures[v]
      BY <1>6 DEF RunnerTypeOK
    <2>2. P = Providers(v, Len(fate))
      BY <1>2, <1>3, <1>6 DEF Providers
    <2> QED
      BY <2>1, <2>2 DEF CapturesInv
  <1> QED
    BY <1>5, <1>6

\* A fate more is counted once.
LEMMA FateCounted ==
    ASSUME RunnerTypeOK, NEW f \in Fate, fate' = Append(fate, f)
    PROVE  /\ \A g \in Fate : Count(fate, g) \in Nat
           /\ \A g \in Fate \ {f} : Count(fate', g) = Count(fate, g)
           /\ Count(fate', f) = Count(fate, f) + 1
  <1>1. fate \in Seq(Fate)
    BY DEF RunnerTypeOK
  <1>2. \A g \in Fate : Count(fate, g) \in Nat
    BY <1>1, CountType
  <1>3. \A g \in Fate : Count(Append(fate, f), g) = Count(fate, g) + (IF f = g THEN 1 ELSE 0)
    BY <1>1, CountAppend
  <1> QED
    BY <1>2, <1>3

\* So is a step that ends: the report, and what it absorbed.
LEMMA ReportOn ==
    ASSUME RunnerTypeOK, StepsInv, ReportInv, rstate # "error", rstate' = "ready",
           UNCHANGED steps, NEW f \in Fate, fate' = Append(fate, f),
           f = "failed" => Absorbs(steps[idx]),
           report'.run = report.run + (IF f # "skipped" /\ Begun = 0 THEN 1 ELSE 0),
           f = "skipped" => Begun = 0,
           report'.skipped = report.skipped + (IF f = "skipped" THEN 1 ELSE 0),
           report'.ignored = report.ignored + (IF f = "failed" THEN 1 ELSE 0)
    PROVE  ReportInv'
  <1>1. idx = Len(fate) + 1 /\ fate \in Seq(Fate) /\ Len(fate) \in Nat
    BY DEF StepsInv, RunnerTypeOK
  <1>2. /\ DOMAIN fate' = 1..idx /\ fate'[idx] = f
        /\ \A i \in 1..Len(fate) : fate'[i] = fate[i]
    BY <1>1, Appended
  <1>3. ASSUME NEW i \in DOMAIN fate', fate'[i] = "failed"
        PROVE  Absorbs(steps[i])
    <2>1. CASE i = idx
      BY <1>2, <1>3, <2>1
    <2>2. CASE i # idx
      <3>1. i \in DOMAIN fate /\ fate[i] = "failed"
        BY <1>1, <1>2, <1>3, <2>2
      <3> QED
        BY <3>1 DEF ReportInv
    <2> QED
      BY <2>1, <2>2
  <1>4. Begun \in {0, 1} /\ Begun' = 0
    BY DEF Begun
  <1>5. /\ report'.run = Count(fate', "ok") + Count(fate', "failed")
        /\ report'.skipped = Count(fate', "skipped")
        /\ report'.ignored = Count(fate', "failed")
    <2>1. /\ report.run = Count(fate, "ok") + Count(fate, "failed") + Begun
          /\ report.skipped = Count(fate, "skipped")
          /\ report.ignored = Count(fate, "failed")
      BY DEF ReportInv
    <2>2. f \in {"ok", "failed", "skipped"}
      BY DEF Fate
    <2>3. /\ Count(fate, "ok") \in Nat /\ Count(fate, "failed") \in Nat /\ Count(fate, "skipped") \in Nat
          /\ Count(fate', f) = Count(fate, f) + 1
          /\ f # "ok" => Count(fate', "ok") = Count(fate, "ok")
          /\ f # "failed" => Count(fate', "failed") = Count(fate, "failed")
          /\ f # "skipped" => Count(fate', "skipped") = Count(fate, "skipped")
      BY FateCounted DEF Fate
    <2>4. Begun = 1 => f # "skipped"
      OBVIOUS
    <2> QED
      BY <1>4, <2>1, <2>2, <2>3, <2>4
  <1>6. \A i \in DOMAIN fate' : fate'[i] = "failed" => Absorbs(steps[i])
    BY <1>3
  <1> QED
    <2>1. /\ Count(fate, "ok")' = Count(fate', "ok")
          /\ Count(fate, "failed")' = Count(fate', "failed")
          /\ Count(fate, "skipped")' = Count(fate', "skipped")
      BY DEF Count
    <2>2. /\ report'.run = Count(fate, "ok")' + Count(fate, "failed")' + Begun'
          /\ report'.skipped = Count(fate, "skipped")'
          /\ report'.ignored = Count(fate, "failed")'
      <3>1. Count(fate', "ok") \in Nat /\ Count(fate', "failed") \in Nat
        BY FateCounted DEF Fate
      <3> QED
        BY <1>4, <1>5, <2>1, <3>1
    <2>3. \A i \in DOMAIN fate' : fate'[i] = "failed" => Absorbs(steps[i])'
      BY <1>6 DEF Absorbs
    <2> QED
      BY <2>2, <2>3 DEF ReportInv

\* The captures a step names are captures, and its own is one or none.
LEMMA UsesTyped ==
    ASSUME RunnerTypeOK
    PROVE  \A i \in DOMAIN steps : steps[i] \in StepType /\ steps[i].uses \subseteq Var
  <1>1. \A i \in DOMAIN steps : steps[i] \in StepType
    BY DEF RunnerTypeOK
  <1> QED
    BY <1>1 DEF StepType

LEMMA GivenCaptures ==
    ASSUME RunnerTypeOK, Interpolate
    PROVE  /\ \E g \in [Var -> Nat] :
                 given' = Append(given, g) /\ \A v \in steps[idx].uses \cap Var : g[v] = captures[v]
           /\ Len(given') = Len(given) + 1
  <1> DEFINE g == [v \in Var |-> IF v \in step.uses THEN captures[v] ELSE 0]
  <1>1. g \in [Var -> Nat] /\ \A v \in steps[idx].uses \cap Var : g[v] = captures[v]
    BY DEF RunnerTypeOK, step
  <1>2. given' = Append(given, g) /\ given \in Seq([Var -> Nat])
    BY DEF Interpolate, RunnerTypeOK
  <1> HIDE DEF g
  <1> QED
    BY <1>1, <1>2, Appended

LEMMA SkipKeeps ==
    ASSUME RunnerAssumption, RunnerTypeOK, RunInv, SkipStep
    PROVE  RunInv'
  <1>1. /\ rstate = "ready" /\ rstate' = "ready" /\ idx \in DOMAIN steps
        /\ idx' = idx + 1 /\ fate' = Append(fate, "skipped")
        /\ given' = Append(given, NoCaptures)
        /\ report' = [report EXCEPT !.skipped = @ + 1]
        /\ UNCHANGED <<steps, captures>>
    BY DEF SkipStep, Ready, EndStep
  <1>2. /\ fate \in Seq(Fate) /\ given \in Seq([Var -> Nat]) /\ "skipped" \in Fate
        /\ NoCaptures \in [Var -> Nat] /\ idx = Len(fate) + 1 /\ Len(given) = Len(fate)
        /\ Begun = 0
    BY <1>1 DEF RunnerTypeOK, Fate, NoCaptures, RunInv, StepsInv, Begun
  <1>3. StepsInv'
    BY <1>1, <1>2, Appended DEF RunInv, StepsInv, Begun, RunnerTypeOK
  <1>4. CapturesInv'
    BY <1>1, <1>2, CapturesOn DEF RunInv
  <1>5. CaptureFlow'
    BY <1>1, <1>2, UsesTyped, FlowOn DEF RunInv
  <1>6. ReportInv'
    <2>1. /\ report'.run = report.run /\ report'.ignored = report.ignored
          /\ report'.skipped = report.skipped + 1
          /\ report.run \in Nat /\ report.ignored \in Nat
      BY <1>1 DEF RunnerTypeOK
    <2> QED
      BY <1>1, <1>2, <2>1, ReportOn DEF RunInv
  <1> QED
    BY <1>3, <1>4, <1>5, <1>6 DEF RunInv

\* A step begins: it is given its captures and counted.
LEMMA RunKeeps ==
    ASSUME RunnerAssumption, RunnerTypeOK, RunInv, RunStep \/ SpawnFails
    PROVE  RunInv'
  <1>1. /\ rstate = "ready" /\ idx \in DOMAIN steps /\ Interpolate
        /\ report' = [report EXCEPT !.run = @ + 1]
        /\ rstate' \in {"exec", "error"}
        /\ UNCHANGED <<steps, idx, captures, fate>>
    BY DEF RunStep, SpawnFails, Ready
  <1>2. /\ fate \in Seq(Fate) /\ given \in Seq([Var -> Nat])
        /\ idx = Len(fate) + 1 /\ Len(given) = Len(fate) /\ Begun = 0
    BY <1>1 DEF RunnerTypeOK, RunInv, StepsInv, Begun
  <1>3. StepsInv'
    BY <1>1, <1>2, GivenCaptures DEF RunInv, StepsInv, Begun, RunnerTypeOK
  <1>4. CapturesInv'
    BY <1>1, CapturesOn DEF RunInv
  <1>5. CaptureFlow'
    <2>1. steps[idx].uses \subseteq Var
      BY <1>1, UsesTyped
    <2>2. \E g \in [Var -> Nat] : given' = Append(given, g) /\ \A v \in steps[idx].uses : g[v] = captures[v]
      BY <1>1, <2>1, GivenCaptures
    <2> QED
      BY <1>1, <1>2, <2>2, UsesTyped, FlowOn DEF RunInv
  <1>6. ReportInv'
    <2>1. /\ report'.run = report.run + 1 /\ report'.ignored = report.ignored
          /\ report'.skipped = report.skipped
      BY <1>1 DEF RunnerTypeOK
    <2>2. /\ report.run = Count(fate, "ok") + Count(fate, "failed") + 0
          /\ report.skipped = Count(fate, "skipped") /\ report.ignored = Count(fate, "failed")
          /\ \A i \in DOMAIN fate : fate[i] = "failed" => Absorbs(steps[i])
      BY <1>1, <1>2 DEF RunInv, ReportInv
    <2>3. Count(fate, "ok") \in Nat /\ Count(fate, "failed") \in Nat
      BY <1>2, CountType
    <2>4. rstate' # "error" => Begun' = 1
      BY <1>1 DEF Begun
    <2> QED
      BY <1>1, <2>1, <2>2, <2>3, <2>4 DEF ReportInv, Absorbs, Count
  <1> QED
    BY <1>3, <1>4, <1>5, <1>6 DEF RunInv

\* A run that ends where it is.
LEMMA StopKeeps ==
    ASSUME RunnerTypeOK, RunInv,
           rstate' = "error" \/ (rstate = "ready" /\ idx \notin DOMAIN steps /\ rstate' = "ok"),
           UNCHANGED <<steps, idx, captures, fate, given>>,
           rstate' = "ok" => UNCHANGED report
    PROVE  RunInv'
  <1>1. StepsInv'
    BY DEF RunInv, StepsInv, RunnerTypeOK, Begun
  <1>2. CapturesInv' /\ CaptureFlow'
    BY DEF RunInv, CapturesInv, Providers, CaptureFlow
  <1>3. ReportInv'
    BY DEF RunInv, ReportInv, Begun, Absorbs, Count
  <1> QED
    BY <1>1, <1>2, <1>3 DEF RunInv

LEMMA SucceedsKeeps ==
    ASSUME RunnerAssumption, RunnerTypeOK, RunInv, StepSucceeds
    PROVE  RunInv'
  <1>1. /\ rstate = "exec" /\ rstate' = "ready" /\ idx \in DOMAIN steps
        /\ idx' = idx + 1 /\ fate' = Append(fate, "ok")
        /\ captures' = IF steps[idx].capture = NoVar THEN captures
                       ELSE [captures EXCEPT ![steps[idx].capture] = idx]
        /\ UNCHANGED <<steps, report, given>>
    BY DEF StepSucceeds, Exited, EndStep, step, RunInv, StepsInv
  <1>2. /\ fate \in Seq(Fate) /\ given \in Seq([Var -> Nat]) /\ "ok" \in Fate
        /\ idx = Len(fate) + 1 /\ Len(given) = Len(fate) + 1 /\ Begun = 1
    BY <1>1 DEF RunnerTypeOK, Fate, RunInv, StepsInv, Begun
  <1>3. StepsInv'
    BY <1>1, <1>2, Appended DEF RunInv, StepsInv, Begun, RunnerTypeOK
  <1>4. CapturesInv'
    <2>1. steps[idx].capture \in Var \cup {NoVar}
      BY <1>1, UsesTyped DEF StepType
    <2>2. CASE steps[idx].capture = NoVar
      BY <1>1, <1>2, <2>2, CapturesOn DEF RunInv, RunnerAssumption
    <2>3. CASE steps[idx].capture # NoVar
      BY <1>1, <2>1, <2>3, CaptureNew DEF RunInv
    <2> QED
      BY <2>2, <2>3
  <1>5. CaptureFlow'
    BY <1>1, <1>2, UsesTyped, FlowOn DEF RunInv
  <1>6. ReportInv'
    <2>1. report.run \in Nat /\ report.ignored \in Nat /\ report.skipped \in Nat
      BY DEF RunnerTypeOK
    <2> QED
      BY <1>1, <1>2, <2>1, ReportOn DEF RunInv
  <1> QED
    BY <1>3, <1>4, <1>5, <1>6 DEF RunInv

LEMMA SentKeeps ==
    ASSUME RunnerAssumption, RunnerTypeOK, RunInv, NotifySent
    PROVE  RunInv'
  <1>1. /\ rstate = "ready" /\ rstate' = "ready" /\ idx \in DOMAIN steps /\ Interpolate
        /\ steps[idx].capture = NoVar
        /\ idx' = idx + 1 /\ fate' = Append(fate, "ok")
        /\ report' = [report EXCEPT !.run = @ + 1]
        /\ UNCHANGED <<steps, captures>>
    BY DEF NotifySent, Ready, EndStep, step
  <1>2. /\ fate \in Seq(Fate) /\ given \in Seq([Var -> Nat]) /\ "ok" \in Fate
        /\ idx = Len(fate) + 1 /\ Len(given) = Len(fate) /\ Begun = 0
    BY <1>1 DEF RunnerTypeOK, Fate, RunInv, StepsInv, Begun
  <1>3. StepsInv'
    BY <1>1, <1>2, Appended, GivenCaptures DEF RunInv, StepsInv, Begun, RunnerTypeOK
  <1>4. CapturesInv'
    BY <1>1, <1>2, CapturesOn DEF RunInv, RunnerAssumption
  <1>5. CaptureFlow'
    <2>1. steps[idx].uses \subseteq Var
      BY <1>1, UsesTyped
    <2>2. \E g \in [Var -> Nat] : given' = Append(given, g) /\ \A v \in steps[idx].uses : g[v] = captures[v]
      BY <1>1, <2>1, GivenCaptures
    <2> QED
      BY <1>1, <1>2, <2>2, UsesTyped, FlowOn DEF RunInv
  <1>6. ReportInv'
    <2>1. /\ report'.run = report.run + 1 /\ report'.ignored = report.ignored
          /\ report'.skipped = report.skipped
          /\ report.ignored \in Nat /\ report.skipped \in Nat
      BY <1>1 DEF RunnerTypeOK
    <2> QED
      BY <1>1, <1>2, <2>1, ReportOn DEF RunInv
  <1> QED
    BY <1>3, <1>4, <1>5, <1>6 DEF RunInv

LEMMA FailsKeeps ==
    ASSUME RunnerAssumption, RunnerTypeOK, RunInv, StepFails
    PROVE  RunInv'
  <1>1. /\ rstate = "exec" /\ idx \in DOMAIN steps
        /\ UNCHANGED <<steps, captures, given>>
    BY DEF StepFails, Exited, RunInv, StepsInv
  <1>2. /\ fate \in Seq(Fate) /\ given \in Seq([Var -> Nat]) /\ "failed" \in Fate
        /\ idx = Len(fate) + 1 /\ Len(given) = Len(fate) + 1 /\ Begun = 1
    BY <1>1 DEF RunnerTypeOK, Fate, RunInv, StepsInv, Begun
  <1>3. CASE Aborted(report)
    BY <1>1, <1>3, StopKeeps DEF Aborted
  <1>4. CASE Absorbed(report)
    <2>1. /\ Absorbs(steps[idx]) /\ rstate' = "ready"
          /\ idx' = idx + 1 /\ fate' = Append(fate, "failed")
          /\ report' = [report EXCEPT !.ignored = @ + 1]
      BY <1>4 DEF Absorbed, EndStep, step
    <2>2. StepsInv'
      BY <1>1, <1>2, <2>1, Appended DEF RunInv, StepsInv, Begun, RunnerTypeOK
    <2>3. CapturesInv'
      BY <1>1, <1>2, <2>1, CapturesOn DEF RunInv
    <2>4. CaptureFlow'
      BY <1>1, <1>2, <2>1, UsesTyped, FlowOn DEF RunInv
    <2>5. ReportInv'
      <3>1. /\ report'.run = report.run /\ report'.ignored = report.ignored + 1
            /\ report'.skipped = report.skipped
            /\ report.run \in Nat /\ report.skipped \in Nat
        BY <2>1 DEF RunnerTypeOK
      <3> QED
        BY <1>1, <1>2, <2>1, <3>1, ReportOn DEF RunInv
    <2> QED
      BY <2>2, <2>3, <2>4, <2>5 DEF RunInv
  <1> QED
    BY <1>3, <1>4 DEF StepFails

LEMMA NotifyFailsKeeps ==
    ASSUME RunnerAssumption, RunnerTypeOK, RunInv, NotifyFails
    PROVE  RunInv'
  <1> DEFINE r == [report EXCEPT !.run = @ + 1]
  <1>1. /\ rstate = "ready" /\ idx \in DOMAIN steps /\ Interpolate
        /\ steps[idx].capture = NoVar
        /\ UNCHANGED <<steps, captures>>
        /\ Absorbed(r) \/ Aborted(r)
    BY DEF NotifyFails, Ready, step
  <1>2. /\ fate \in Seq(Fate) /\ given \in Seq([Var -> Nat]) /\ "failed" \in Fate
        /\ idx = Len(fate) + 1 /\ Len(given) = Len(fate) /\ Begun = 0
    BY <1>1 DEF RunnerTypeOK, Fate, RunInv, StepsInv, Begun
  <1>3. \E g \in [Var -> Nat] : given' = Append(given, g) /\ \A v \in steps[idx].uses : g[v] = captures[v]
    BY <1>1, UsesTyped, GivenCaptures
  <1>4. CASE Aborted(r)
    <2>1. rstate' = "error" /\ UNCHANGED <<idx, fate>>
      BY <1>4 DEF Aborted
    <2>2. StepsInv'
      BY <1>1, <1>2, <2>1, GivenCaptures DEF RunInv, StepsInv, Begun, RunnerTypeOK
    <2>3. CapturesInv'
      BY <1>1, <2>1, CapturesOn DEF RunInv
    <2>4. CaptureFlow'
      BY <1>1, <1>2, <1>3, <2>1, UsesTyped, FlowOn DEF RunInv
    <2> QED
      BY <2>1, <2>2, <2>3, <2>4 DEF RunInv, ReportInv
  <1>5. CASE Absorbed(r)
    <2>1. /\ Absorbs(steps[idx]) /\ rstate' = "ready"
          /\ idx' = idx + 1 /\ fate' = Append(fate, "failed")
          /\ report' = [r EXCEPT !.ignored = @ + 1]
      BY <1>5 DEF Absorbed, EndStep, step
    <2>2. StepsInv'
      BY <1>1, <1>2, <2>1, Appended, GivenCaptures DEF RunInv, StepsInv, Begun, RunnerTypeOK
    <2>3. CapturesInv'
      BY <1>1, <1>2, <2>1, CapturesOn DEF RunInv
    <2>4. CaptureFlow'
      BY <1>1, <1>2, <1>3, <2>1, UsesTyped, FlowOn DEF RunInv
    <2>5. ReportInv'
      <3>1. /\ report'.run = report.run + 1 /\ report'.ignored = report.ignored + 1
            /\ report'.skipped = report.skipped /\ report.skipped \in Nat
        BY <2>1 DEF RunnerTypeOK
      <3> QED
        BY <1>1, <1>2, <2>1, <3>1, ReportOn DEF RunInv
    <2> QED
      BY <2>2, <2>3, <2>4, <2>5 DEF RunInv
  <1> QED
    BY <1>1, <1>4, <1>5

LEMMA RunnerKeeps ==
    ASSUME RunnerAssumption, RunnerTypeOK, RunInv, RunnerStep
    PROVE  RunInv'
  <1>1. CASE BadShape \/ ExecErrors \/ StepsDone
    BY <1>1, StopKeeps DEF BadShape, ExecErrors, StepsDone
  <1> QED
    BY <1>1, SkipKeeps, RunKeeps, SucceedsKeeps, SentKeeps, FailsKeeps, NotifyFailsKeeps
    DEF RunnerStep

LEMMA RunnerFrame ==
    ASSUME RunnerTypeOK, RunInv, UNCHANGED runnerVars
    PROVE  RunnerTypeOK' /\ RunInv'
  <1>1. RunnerTypeOK'
    BY DEF runnerVars, RunnerTypeOK
  <1>2. (StepsInv /\ CapturesInv /\ CaptureFlow)'
    BY DEF runnerVars, RunInv, StepsInv, CapturesInv, Providers, CaptureFlow, Begun
  <1>3. ReportInv'
    BY DEF runnerVars, RunInv, ReportInv, Begun, Absorbs, Count
  <1> QED
    BY <1>1, <1>2, <1>3 DEF RunInv

(***************************************************************************)
(* The hooks of a phase                                                    *)
(***************************************************************************)

\* Outside a phase, or at its end, there is no account to keep.
LEMMA PhaseFrame ==
    ASSUME PhaseInv, HooksAccount, UNCHANGED <<hstate, hooks, hook, summary, hfate, steps>>
    PROVE  PhaseInv' /\ HooksAccount'
  BY DEF PhaseInv, HooksAccount, StepOf, Count

LEMMA NoPhase ==
    ASSUME hstate' \in {"idle", "command", "error"}
    PROVE  PhaseInv' /\ HooksAccount'
  BY DEF PhaseInv, HooksAccount

\* A command of the config runs its steps.
LEMMA CommandStarts ==
    ASSUME HooksAssumption, DispatchAssumption, TypeOK, JobInv, HooksAccount,
           NEW cs \in Commandlists, NEW g \in Group, NEW n \in Name,
           StartCommand(cs, g, n) \/ RunNothing(cs, g, n)
    PROVE  TypeOK' /\ JobInv' /\ HooksAccount'
  <1>1. /\ cs \in Seq(CommandType) /\ Dispatched(cs, g, n) \in 0..Len(cs)
        /\ \A i \in DOMAIN cs : cs[i].steps \in Seq(StepType)
    <2>1. cs \in Seq(CommandType)
      BY DEF HooksAssumption
    <2>2. \A i \in DOMAIN cs : cs[i] \in CommandType
      BY <2>1
    <2> QED
      BY <2>1, <2>2, Agree DEF CommandType
  <1>2. CASE StartCommand(cs, g, n)
    <2> DEFINE ss == cs[Dispatched(cs, g, n)].steps
    <2>1. ss \in Seq(StepType)
      BY <1>1, <1>2 DEF StartCommand
    <2>2. BeginSteps(ss)
      BY <1>2 DEF StartCommand
    <2> HIDE DEF ss
    <2>3. RunnerTypeOK' /\ RunInv'
      <3>1. RunnerTypeOK'
        BY <2>2, <2>1 DEF BeginSteps, RunnerTypeOK, NoCaptures, NoReport
      <3>2. RunInv'
        BY <2>1, <2>2, NothingRun DEF BeginSteps, RunInv
      <3> QED
        BY <3>1, <3>2
    <2>4. ExecTypeOK' /\ ExecInv'
      BY <1>2, ExecFrame DEF StartCommand, TypeOK, JobInv
    <2>5. PhaseInv' /\ HooksAccount'
      BY <1>2, NoPhase DEF StartCommand
    <2> QED
      BY <1>1, <1>2, <2>3, <2>4, <2>5 DEF StartCommand, Launch, TypeOK, JobInv
  <1>3. CASE RunNothing(cs, g, n)
    <2>1. ExecTypeOK' /\ ExecInv' /\ RunnerTypeOK' /\ RunInv'
      BY <1>3, ExecFrame, RunnerFrame DEF RunNothing, TypeOK, JobInv
    <2>2. PhaseInv' /\ HooksAccount'
      BY <1>3, NoPhase DEF RunNothing
    <2> QED
      BY <1>1, <1>3, <2>1, <2>2 DEF RunNothing, Launch, TypeOK, JobInv
  <1> QED
    BY <1>2, <1>3

\* A phase starts with nothing counted, or ends at once.
LEMMA PhaseStarts ==
    ASSUME HooksAssumption, TypeOK, JobInv, HooksAccount,
           NEW cfg \in Hooklists, NEW phase \in Phase, NEW skip \in BOOLEAN, NEW dry \in BOOLEAN,
           StartHooks(cfg, phase, skip, dry)
    PROVE  TypeOK' /\ JobInv' /\ HooksAccount'
  <1> DEFINE hs == OfPhase(cfg, phase)
             n == Len(hs)
  <1>1. hs \in Seq(HookType) /\ n \in Nat
    BY OfPhaseType DEF HooksAssumption
  <1>2. /\ hooks' = hs /\ hook' = 1 /\ hfate' = << >>
        /\ commands' = << >> /\ chosen' = 0
        /\ summary' = [NewSummary(n, dry) EXCEPT !.skipped_by_flag = IF skip THEN n ELSE 0]
        /\ hstate' = IF n = 0 \/ skip \/ dry THEN "ok" ELSE "next"
        /\ jobs' = jobs + 1
        /\ UNCHANGED <<execVars, runnerVars>>
    BY DEF StartHooks, Launch
  <1> HIDE DEF hs, n
  <1>3. summary' = [total |-> n, ran |-> 0, skipped_by_predicate |-> 0,
                    skipped_by_flag |-> IF skip THEN n ELSE 0, failed_ignored |-> 0,
                    dry_run |-> dry]
    BY <1>2 DEF NewSummary
  <1>4. ExecTypeOK' /\ ExecInv' /\ RunnerTypeOK' /\ RunInv'
    BY <1>2, ExecFrame, RunnerFrame DEF TypeOK, JobInv
  <1>5. TypeOK'
    <2>1. summary' \in Summary
      BY <1>1, <1>3 DEF Summary
    <2>2. commands' \in Seq(CommandType) /\ chosen' \in 0..Len(commands')
      BY <1>2
    <2>3. hooks' \in Seq(HookType) /\ hook' \in 1..(Len(hooks') + 1) /\ hfate' \in Seq(HookFate)
      BY <1>1, <1>2 DEF n
    <2>4. hstate' \in {"idle", "command", "next", "hook", "ok", "error"} /\ jobs' \in Nat
      BY <1>2 DEF TypeOK
    <2> QED
      BY <1>4, <2>1, <2>2, <2>3, <2>4 DEF TypeOK
  <1>6. Count(hfate, "failed")' = 0
    <2>1. Count(<< >>, "failed") = 0
      BY CountNone
    <2> QED
      BY <1>2, <2>1 DEF Count
  <1>7. PhaseInv'
    BY <1>2, <1>3, <1>6 DEF PhaseInv, n
  <1>8. HooksAccount'
    BY <1>1, <1>2, <1>3, <1>6 DEF HooksAccount
  <1> QED
    BY <1>4, <1>5, <1>7, <1>8 DEF JobInv

\* A counter more of a summary.
LEMMA Bumped ==
    ASSUME NEW s \in Summary
    PROVE  /\ LET t == [s EXCEPT !.ran = @ + 1]
              IN  /\ t \in Summary /\ t.total = s.total /\ t.skipped_by_flag = s.skipped_by_flag
                  /\ t.failed_ignored = s.failed_ignored
                  /\ t.ran + t.skipped_by_predicate + t.failed_ignored
                        = s.ran + s.skipped_by_predicate + s.failed_ignored + 1
           /\ LET t == [s EXCEPT !.skipped_by_predicate = @ + 1]
              IN  /\ t \in Summary /\ t.total = s.total /\ t.skipped_by_flag = s.skipped_by_flag
                  /\ t.failed_ignored = s.failed_ignored
                  /\ t.ran + t.skipped_by_predicate + t.failed_ignored
                        = s.ran + s.skipped_by_predicate + s.failed_ignored + 1
           /\ LET t == [s EXCEPT !.failed_ignored = @ + 1]
              IN  /\ t \in Summary /\ t.total = s.total /\ t.skipped_by_flag = s.skipped_by_flag
                  /\ t.failed_ignored = s.failed_ignored + 1
                  /\ t.ran + t.skipped_by_predicate + t.failed_ignored
                        = s.ran + s.skipped_by_predicate + s.failed_ignored + 1
           /\ s.failed_ignored \in Nat
  BY DEF Summary

\* A hook that ends is counted once.
LEMMA HookCounted ==
    ASSUME TypeOK, PhaseInv, hstate \in {"next", "hook"}, hstate' = "next",
           hook \in DOMAIN hooks,
           NEW f \in HookFate, hfate' = Append(hfate, f), hook' = hook + 1,
           f = "failed" => hooks[hook].ignore_failure,
           UNCHANGED hooks,
           \/ f = "failed" /\ summary' = [summary EXCEPT !.failed_ignored = @ + 1]
           \/ f # "failed" /\ summary' = [summary EXCEPT !.ran = @ + 1]
           \/ f # "failed" /\ summary' = [summary EXCEPT !.skipped_by_predicate = @ + 1]
    PROVE  /\ PhaseInv' /\ HooksAccount'
           /\ hook' \in 1..(Len(hooks) + 1) /\ hfate' \in Seq(HookFate) /\ summary' \in Summary
  <1>1. /\ hfate \in Seq(HookFate) /\ summary \in Summary /\ hook = Len(hfate) + 1
        /\ hooks \in Seq(HookType)
    BY DEF TypeOK, PhaseInv
  <1>2. /\ Len(hfate') = hook /\ hfate'[hook] = f /\ hfate' \in Seq(HookFate)
        /\ \A i \in 1..Len(hfate) : hfate'[i] = hfate[i]
    BY <1>1, Appended
  <1>3. /\ summary' \in Summary
        /\ summary'.total = summary.total
        /\ summary'.skipped_by_flag = summary.skipped_by_flag
        /\ summary'.failed_ignored = summary.failed_ignored + (IF f = "failed" THEN 1 ELSE 0)
        /\ summary'.ran + summary'.skipped_by_predicate + summary'.failed_ignored
              = summary.ran + summary.skipped_by_predicate + summary.failed_ignored + 1
    <2>1. CASE f = "failed" /\ summary' = [summary EXCEPT !.failed_ignored = @ + 1]
      BY <1>1, <2>1, Bumped
    <2>2. CASE f # "failed" /\ summary' = [summary EXCEPT !.ran = @ + 1]
      BY <1>1, <2>2, Bumped
    <2>3. CASE f # "failed" /\ summary' = [summary EXCEPT !.skipped_by_predicate = @ + 1]
      BY <1>1, <2>3, Bumped
    <2> QED
      BY <2>1, <2>2, <2>3
  <1>4. Count(hfate, "failed")' = Count(hfate, "failed") + (IF f = "failed" THEN 1 ELSE 0)
    <2>1. Count(Append(hfate, f), "failed") = Count(hfate, "failed") + (IF f = "failed" THEN 1 ELSE 0)
      BY <1>1, CountAppend
    <2> QED
      BY <2>1 DEF Count
  <1>5. \A i \in DOMAIN hfate' : hfate'[i] = "failed" => hooks[i].ignore_failure
    <2> SUFFICES ASSUME NEW i \in DOMAIN hfate', hfate'[i] = "failed"
                 PROVE  hooks[i].ignore_failure
      OBVIOUS
    <2>1. CASE i = hook
      BY <1>2, <2>1
    <2>2. CASE i # hook
      <3>1. i \in DOMAIN hfate /\ hfate[i] = "failed"
        BY <1>1, <1>2, <2>2
      <3> QED
        BY <3>1 DEF PhaseInv
    <2> QED
      BY <2>1, <2>2
  <1>6. PhaseInv'
    <2>1. summary.failed_ignored = Count(hfate, "failed") /\ summary.total = Len(hooks)
          /\ summary.skipped_by_flag = 0
          /\ Len(hfate) = summary.ran + summary.skipped_by_predicate + summary.failed_ignored
      BY DEF PhaseInv
    <2>2. summary'.failed_ignored = Count(hfate, "failed")'
      BY <1>3, <1>4, <2>1
    <2>3. Len(hfate') = summary'.ran + summary'.skipped_by_predicate + summary'.failed_ignored
      BY <1>1, <1>2, <1>3, <2>1
    <2> QED
      BY <1>1, <1>2, <1>3, <1>5, <2>1, <2>2, <2>3 DEF PhaseInv
  <1> QED
    BY <1>1, <1>2, <1>3, <1>6 DEF HooksAccount

\* The one step of a hook has ended as its report says.
LEMMA HookEnded ==
    ASSUME TypeOK, JobInv, hstate = "hook", rstate = "ok"
    PROVE  /\ fate[1] \in HookFate /\ hook \in DOMAIN hooks
           /\ report.ignored > 0 <=> fate[1] = "failed"
           /\ fate[1] = "failed" => hooks[hook].ignore_failure
  <1>1. /\ steps = <<StepOf(hooks[hook])>> /\ hook \in DOMAIN hooks
        /\ fate \in Seq(Fate) /\ idx = Len(fate) + 1 /\ idx = Len(steps) + 1
    BY DEF JobInv, PhaseInv, RunInv, StepsInv, TypeOK, RunnerTypeOK
  <1>2. Len(fate) = 1 /\ fate[1] \in Fate /\ 1 \in DOMAIN fate /\ fate = Append(<< >>, fate[1])
    BY <1>1
  <1>3. Count(fate, "failed") = IF fate[1] = "failed" THEN 1 ELSE 0
    <2>1. DOMAIN fate = {1}
      BY <1>1, <1>2
    <2>2. CASE fate[1] = "failed"
      <3>1. {i \in DOMAIN fate : fate[i] = "failed"} = {1}
        BY <2>1, <2>2
      <3> QED
        BY <2>2, <3>1, FS_Singleton DEF Count
    <2>3. CASE fate[1] # "failed"
      <3>1. {i \in DOMAIN fate : fate[i] = "failed"} = {}
        BY <2>1, <2>3
      <3> QED
        BY <2>3, <3>1, FS_EmptySet DEF Count
    <2> QED
      BY <2>2, <2>3
  <1>4. report.ignored = Count(fate, "failed") /\ (fate[1] = "failed" => Absorbs(steps[1]))
    BY <1>2 DEF JobInv, RunInv, ReportInv
  <1>5. Absorbs(steps[1]) => hooks[hook].ignore_failure
    BY <1>1 DEF Absorbs, StepOf
  <1> QED
    BY <1>1, <1>2, <1>3, <1>4, <1>5 DEF Fate, HookFate

\* Every step of the main thread that is not the runner's.
LEMMA HookKeeps ==
    ASSUME TypeOK, JobInv, HooksAccount,
           CommandEnds \/ SkipHook \/ ExecuteHook \/ HookEnds \/ HookErrors \/ HooksDone
    PROVE  TypeOK' /\ JobInv' /\ HooksAccount'
  <1>1. CASE CommandEnds
    <2>1. ExecTypeOK' /\ ExecInv' /\ RunnerTypeOK' /\ RunInv'
      BY <1>1, ExecFrame, RunnerFrame DEF CommandEnds, TypeOK, JobInv
    <2>2. PhaseInv' /\ HooksAccount'
      BY <1>1, NoPhase DEF CommandEnds
    <2>3. commands' \in Seq(CommandType) /\ chosen' \in 0..Len(commands')
      BY <1>1 DEF CommandEnds
    <2> QED
      BY <1>1, <2>1, <2>2, <2>3 DEF CommandEnds, TypeOK, JobInv
  <1>2. CASE SkipHook
    <2>1. ExecTypeOK' /\ ExecInv' /\ RunnerTypeOK' /\ RunInv'
      BY <1>2, ExecFrame, RunnerFrame DEF SkipHook, TypeOK, JobInv
    <2>2. /\ PhaseInv' /\ HooksAccount'
          /\ hook' \in 1..(Len(hooks) + 1) /\ hfate' \in Seq(HookFate) /\ summary' \in Summary
      BY <1>2, HookCounted DEF SkipHook, AtHook, JobInv, HookFate
    <2> QED
      BY <1>2, <2>1, <2>2 DEF SkipHook, TypeOK, JobInv
  <1>3. CASE ExecuteHook
    <2> DEFINE ss == <<StepOf(hooks[hook])>>
    <2>1. ss \in Seq(StepType)
      <3>1. hooks[hook] \in HookType
        BY <1>3 DEF ExecuteHook, AtHook, TypeOK
      <3>2. StepOf(hooks[hook]) \in StepType
        BY <3>1 DEF StepOf, HookType, StepType, OnFail
      <3> QED
        BY <3>2
    <2>2. BeginSteps(ss) /\ steps' = ss
      BY <1>3 DEF ExecuteHook, BeginSteps
    <2>3. RunnerTypeOK' /\ RunInv'
      <3> HIDE DEF ss
      <3>1. RunnerTypeOK'
        BY <2>2, <2>1 DEF BeginSteps, RunnerTypeOK, NoCaptures, NoReport
      <3>2. RunInv'
        BY <2>1, <2>2, NothingRun DEF BeginSteps, RunInv
      <3> QED
        BY <3>1, <3>2
    <2>4. ExecTypeOK' /\ ExecInv'
      BY <1>3, ExecFrame DEF ExecuteHook, TypeOK, JobInv
    <2>5. PhaseInv'
      BY <1>3, <2>2 DEF ExecuteHook, AtHook, JobInv, PhaseInv, StepOf, Count
    <2>6. HooksAccount'
      BY <1>3 DEF ExecuteHook, HooksAccount
    <2> QED
      BY <1>3, <2>3, <2>4, <2>5, <2>6 DEF ExecuteHook, TypeOK, JobInv
  <1>4. CASE HookEnds
    <2>1. ExecTypeOK' /\ ExecInv' /\ RunnerTypeOK' /\ RunInv'
      BY <1>4, ExecFrame, RunnerFrame DEF HookEnds, TypeOK, JobInv
    <2>2. /\ fate[1] \in HookFate /\ hook \in DOMAIN hooks
          /\ report.ignored > 0 <=> fate[1] = "failed"
          /\ fate[1] = "failed" => hooks[hook].ignore_failure
      BY <1>4, HookEnded DEF HookEnds
    <2>3. PICK f \in HookFate : f = fate[1]
      BY <2>2
    <2>4. /\ PhaseInv' /\ HooksAccount'
          /\ hook' \in 1..(Len(hooks) + 1) /\ hfate' \in Seq(HookFate) /\ summary' \in Summary
      <3>1. /\ hstate = "hook" /\ hstate' = "next" /\ hook' = hook + 1 /\ UNCHANGED hooks
            /\ hfate' = Append(hfate, f)
            /\ \/ f = "failed" /\ summary' = [summary EXCEPT !.failed_ignored = @ + 1]
               \/ f # "failed" /\ summary' = [summary EXCEPT !.ran = @ + 1]
        BY <1>4, <2>2, <2>3 DEF HookEnds
      <3> QED
        BY <2>2, <2>3, <3>1, HookCounted DEF JobInv
    <2> QED
      BY <1>4, <2>1, <2>4 DEF HookEnds, TypeOK, JobInv
  <1>5. CASE HookErrors
    <2>1. ExecTypeOK' /\ ExecInv' /\ RunnerTypeOK' /\ RunInv'
      BY <1>5, ExecFrame, RunnerFrame DEF HookErrors, TypeOK, JobInv
    <2>2. PhaseInv' /\ HooksAccount'
      BY <1>5, NoPhase DEF HookErrors
    <2> QED
      BY <1>5, <2>1, <2>2 DEF HookErrors, TypeOK, JobInv
  <1>6. CASE HooksDone
    <2>1. ExecTypeOK' /\ ExecInv' /\ RunnerTypeOK' /\ RunInv'
      BY <1>6, ExecFrame, RunnerFrame DEF HooksDone, TypeOK, JobInv
    <2>2. PhaseInv'
      BY <1>6 DEF HooksDone, PhaseInv
    <2>3. HooksAccount'
      <3>1. /\ hook = Len(hfate) + 1 /\ hook \notin DOMAIN hooks /\ hook \in 1..(Len(hooks) + 1)
            /\ hooks \in Seq(HookType) /\ hfate \in Seq(HookFate)
            /\ summary.total = Len(hooks) /\ summary.skipped_by_flag = 0
            /\ Len(hfate) = summary.ran + summary.skipped_by_predicate + summary.failed_ignored
            /\ summary.failed_ignored = Count(hfate, "failed")
            /\ \A i \in DOMAIN hfate : hfate[i] = "failed" => hooks[i].ignore_failure
        BY <1>6 DEF HooksDone, JobInv, PhaseInv, TypeOK
      <3>2. summary.ran \in Nat /\ summary.skipped_by_predicate \in Nat /\ summary.failed_ignored \in Nat
        BY DEF TypeOK, Summary
      <3>3. summary.total = summary.ran + summary.skipped_by_predicate
                                + summary.skipped_by_flag + summary.failed_ignored
        BY <3>1, <3>2
      <3> QED
        BY <1>6, <3>1, <3>3 DEF HooksDone, HooksAccount, Count
    <2> QED
      BY <1>6, <2>1, <2>2, <2>3 DEF HooksDone, TypeOK, JobInv
  <1> QED
    BY <1>1, <1>2, <1>3, <1>4, <1>5, <1>6

\* A step of the runner, within a command or a hook.
LEMMA RunnerStepKeeps ==
    ASSUME ExecAssumption, RunnerAssumption, TypeOK, JobInv, HooksAccount,
           RunnerStep, UNCHANGED hookVars
    PROVE  TypeOK' /\ JobInv' /\ HooksAccount'
  <1>1. RunnerTypeOK' /\ RunInv'
    BY RunnerTyped, RunnerKeeps DEF TypeOK, JobInv, RunInv
  <1>2. ExecTypeOK' /\ ExecInv'
    <2>1. CASE RunStep
      BY <2>1, RunSpawns
    <2>2. CASE ~ RunStep
      <3>1. UNCHANGED execVars
        BY <2>2 DEF RunnerStep, BadShape, SkipStep, SpawnFails, StepSucceeds, StepFails,
                    ExecErrors, NotifySent, NotifyFails, StepsDone
      <3> QED
        BY <3>1, ExecFrame DEF TypeOK, JobInv
    <2> QED
      BY <2>1, <2>2
  <1>3. UNCHANGED steps
    BY DEF RunnerStep, BadShape, SkipStep, RunStep, SpawnFails, StepSucceeds, StepFails,
           ExecErrors, NotifySent, NotifyFails, StepsDone
  <1>4. PhaseInv' /\ HooksAccount'
    BY <1>3, PhaseFrame DEF hookVars, JobInv
  <1> QED
    BY <1>1, <1>2, <1>4 DEF TypeOK, JobInv, hookVars

\* A step of the child, of the writer or of the caller.
LEMMA ThreadKeeps ==
    ASSUME ExecAssumption, TypeOK, JobInv, HooksAccount, Caller \/ InputThread \/ ChildProcess
    PROVE  TypeOK' /\ JobInv' /\ HooksAccount'
  <1>1. ExecStep /\ UNCHANGED <<runnerVars, hookVars>>
    BY DEF Caller, InputThread, ChildProcess, Idle, ExecStep
  <1>2. ExecTypeOK' /\ ExecInv'
    BY <1>1, ExecKeeps DEF TypeOK, JobInv
  <1>3. RunnerTypeOK' /\ RunInv'
    BY <1>1, RunnerFrame DEF TypeOK, JobInv
  <1>4. PhaseInv' /\ HooksAccount'
    BY <1>1, PhaseFrame DEF hookVars, runnerVars, JobInv
  <1> QED
    BY <1>1, <1>2, <1>3, <1>4 DEF TypeOK, JobInv, hookVars

(***************************************************************************)
(* Every step, every behaviour                                             *)
(***************************************************************************)

LEMMA InitGood ==
    ASSUME ExecAssumption, Init
    PROVE  TypeOK /\ JobInv /\ HooksAccount
  <1>1. ExecTypeOK /\ ExecInv
    <2>1. << >> \in Seq({"read", "write"}) /\ 0 \in 0..PipeSize
      BY DEF ExecAssumption
    <2>2. ops = << >> /\ inpipe = 0 /\ outpipe = 0
      BY DEF Init, ExecInit
    <2>3. ops \in Seq({"read", "write"}) /\ inpipe \in 0..PipeSize /\ outpipe \in 0..PipeSize
      BY <2>1, <2>2
    <2>4. /\ exec = "idle" /\ status = 0 /\ alive = FALSE /\ writer = "none"
          /\ left = 0 /\ outpipe = 0 /\ printed = 0 /\ stdout = 0
      BY DEF Init, ExecInit
    <2>5. ExecTypeOK
      BY <2>3, <2>4 DEF ExecTypeOK
    <2>6. ExecInv
      BY <2>4 DEF ExecInv
    <2> QED
      BY <2>5, <2>6
  <1>2. Count(<< >>, "ok") = 0 /\ Count(<< >>, "failed") = 0 /\ Count(<< >>, "skipped") = 0
    BY CountNone
  <1>3. RunnerTypeOK /\ RunInv
    BY <1>2 DEF Init, RunnerInit, RunnerTypeOK, RunInv, StepsInv, CapturesInv, Providers,
                ReportInv, CaptureFlow, Begun, NoCaptures, NoReport
  <1>4. PhaseInv /\ HooksAccount
    BY DEF Init, PhaseInv, HooksAccount
  <1>5. NewSummary(0, FALSE) \in Summary
    BY DEF NewSummary, Summary
  <1>6. << >> \in Seq(CommandType) /\ 0 \in 0..0 /\ << >> \in Seq(HookType) /\ 1 \in 1..1
        /\ << >> \in Seq(HookFate)
    OBVIOUS
  <1>7. /\ commands \in Seq(CommandType) /\ chosen \in 0..Len(commands)
        /\ hooks \in Seq(HookType) /\ hook \in 1..(Len(hooks) + 1)
        /\ hfate \in Seq(HookFate) /\ summary \in Summary
        /\ hstate = "idle" /\ jobs = 0
    <2>1. /\ commands = << >> /\ chosen = 0 /\ hooks = << >> /\ hook = 1 /\ hfate = << >>
          /\ summary = NewSummary(0, FALSE) /\ hstate = "idle" /\ jobs = 0
      BY DEF Init
    <2>2. chosen \in 0..Len(commands) /\ hook \in 1..(Len(hooks) + 1)
      BY <2>1
    <2>3. /\ commands \in Seq(CommandType) /\ hooks \in Seq(HookType)
          /\ hfate \in Seq(HookFate) /\ summary \in Summary
      BY <1>5, <1>6, <2>1
    <2> QED
      BY <2>1, <2>2, <2>3
  <1> QED
    BY <1>1, <1>3, <1>4, <1>7 DEF TypeOK, JobInv

LEMMA NextKeeps ==
    ASSUME ExecAssumption, RunnerAssumption, DispatchAssumption, HooksAssumption,
           TypeOK, JobInv, HooksAccount, [Next]_vars
    PROVE  TypeOK' /\ JobInv' /\ HooksAccount'
  <1>1. CASE UNCHANGED vars
    <2>1. UNCHANGED execVars /\ UNCHANGED runnerVars /\ UNCHANGED hookVars
      BY <1>1 DEF vars
    <2>2. ExecTypeOK' /\ ExecInv' /\ RunnerTypeOK' /\ RunInv'
      BY <2>1, ExecFrame, RunnerFrame DEF TypeOK, JobInv
    <2>3. PhaseInv' /\ HooksAccount'
      BY <2>1, PhaseFrame DEF hookVars, runnerVars, JobInv
    <2> QED
      BY <2>1, <2>2, <2>3 DEF TypeOK, JobInv, hookVars
  <1>2. CASE Start
    BY <1>2, CommandStarts, PhaseStarts DEF Start
  <1>3. CASE Main
    BY <1>3, HookKeeps, RunnerStepKeeps DEF Main
  <1>4. CASE Caller \/ InputThread \/ ChildProcess
    BY <1>4, ThreadKeeps
  <1> QED
    BY <1>1, <1>2, <1>3, <1>4 DEF Next

LEMMA SpecKeeps == Spec => [](TypeOK /\ JobInv /\ HooksAccount)
  <1>1. Init => TypeOK /\ JobInv /\ HooksAccount
    BY ExecAssumption, InitGood
  <1>2. TypeOK /\ JobInv /\ HooksAccount /\ [Next]_vars => (TypeOK /\ JobInv /\ HooksAccount)'
    BY ExecAssumption, RunnerAssumption, DispatchAssumption, HooksAssumption, NextKeeps
  <1> QED
    BY <1>1, <1>2, PTL DEF Spec

\* Every variable of the runner, of exec and of the hooks keeps its type.
THEOREM HooksTyped == Spec => []TypeOK
  BY SpecKeeps, PTL

\* In whatever order the child, the writer and the caller go, exec returns all
\* that the child has written, and only once it has exited.
THEOREM OutputIsWhole == Spec => []OutputWhole
  <1>1. TypeOK /\ JobInv => OutputWhole
    BY DEF TypeOK, ExecTypeOK, JobInv, ExecInv, OutputWhole
  <1> QED
    BY <1>1, SpecKeeps, PTL

\* A step is given the latest successful output of each capture it names.
THEOREM CapturesFlow == Spec => []CaptureFlow
  <1>1. JobInv => CaptureFlow
    BY DEF JobInv, RunInv
  <1> QED
    BY <1>1, SpecKeeps, PTL

\* A run that succeeds has counted every step once and absorbed no failure
\* that was to stop it.
THEOREM RunsAccount == Spec => []RunAccounts
  <1>1. TypeOK /\ JobInv => RunAccounts
    <2> SUFFICES ASSUME TypeOK, JobInv, rstate = "ok"
                 PROVE  RunAccounts
      BY DEF RunAccounts
    <2>1. Len(fate) = Len(steps) /\ Begun = 0
      BY DEF JobInv, RunInv, StepsInv, Begun, TypeOK, RunnerTypeOK
    <2>2. Count(fate, "ok") \in Nat /\ Count(fate, "failed") \in Nat
      BY CountType DEF TypeOK, RunnerTypeOK
    <2> QED
      BY <2>1, <2>2 DEF JobInv, RunInv, ReportInv, RunAccounts
  <1> QED
    BY <1>1, SpecKeeps, PTL

\* A phase that succeeds has counted every hook once, and the failures it
\* ignored were all to be ignored.
THEOREM PhasesAccount == Spec => []HooksAccount
  BY SpecKeeps, PTL

\* A name that is listed runs one of its listed entries, one that is not does
\* not run: for every config.
THEOREM RunIsListed == Spec => []ListedIsRun
  <1>1. TypeOK => ListedIsRun
    BY DispatchAssumption, Agree DEF TypeOK, ListedIsRun
  <1> QED
    BY <1>1, SpecKeeps, PTL
=============================================================================
