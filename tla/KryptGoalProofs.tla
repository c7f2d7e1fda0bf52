-------------------------- MODULE KryptGoalProofs ---------------------------
(***************************************************************************)
(* What a command that succeeds has achieved when nobody stepped beside    *)
(* it, for every value of the constants, races allowed.                    *)
(***************************************************************************)
EXTENDS KryptTypes, KryptGoals

(***************************************************************************)
(* Frames                                                                  *)
(***************************************************************************)
SameCommand(r) ==
    /\ pc'[r] = pc[r] /\ cmd'[r] = cmd[r] /\ plan'[r] = plan[r] /\ mem'[r] = mem[r]
    /\ next'[r] = next[r] /\ written'[r] = written[r] /\ doomed'[r] = doomed[r]

SameAdoption(r) ==
    /\ apc'[r] = apc[r] /\ acmd'[r] = acmd[r] /\ amem'[r] = amem[r] /\ edited'[r] = edited[r]
    /\ updated'[r] = updated[r] /\ imports'[r] = imports[r] /\ current'[r] = current[r]

LEMMA ExitFrame ==
    ASSUME DeployTypeOK, NEW p \in Proc, Exit(p)
    PROVE  /\ \A r \in Proc \ {p} : SameCommand(r)
           /\ pc'[p] = "idle" /\ cmd'[p] = NoCommand /\ next'[p] = 1
           /\ written'[p] = EmptyManifest /\ doomed'[p] = {}
           /\ UNCHANGED storeVars
  BY DEF DeployTypeOK, Exit, Goto, SameCommand

LEMMA AdoptExitFrame ==
    ASSUME AdoptTypeOK, NEW q \in Adopter, AdoptExit(q)
    PROVE  /\ \A r \in Adopter \ {q} : SameAdoption(r)
           /\ apc'[q] = "idle" /\ acmd'[q] = NoAdoption /\ edited'[q] = {}
           /\ updated'[q] = EmptyManifest /\ imports'[q] = {} /\ current'[q] = {}
           /\ UNCHANGED storeVars
  BY DEF AdoptTypeOK, AdoptExit, AGoto, SameAdoption

\* A step of p's is p's alone, and p is running.
LEMMA StepFrame ==
    ASSUME DeployTypeOK, NEW p \in Proc, Step(p)
    PROVE  pc[p] # "idle" /\ \A r \in Proc \ {p} : SameCommand(r)
<1>. USE DEF DeployTypeOK, Goto, At, SameCommand
<1>1. CASE Exit(p) /\ pc[p] # "idle"
  BY <1>1, ExitFrame
<1>2. CASE Load(p) \/ SaveUnlinked(p)
  BY <1>2 DEF Load, SaveUnlinked
<1>3. ASSUME NEW d \in Dst, RemoveFile(p, d)
      PROVE  pc[p] # "idle" /\ \A r \in Proc \ {p} : SameCommand(r)
  BY <1>3 DEF RemoveFile
<1>4. CASE MakePlan(p) \/ LoadAndNarrow(p)
  BY <1>4 DEF MakePlan, LoadAndNarrow
<1>5. CASE PassOver(p) \/ HashCopy(p)
  BY <1>5 DEF PassOver, HashCopy, Executing, Advance
<1>6. CASE CopyFile(p)
  BY <1>6 DEF CopyFile, Executing
<1>7. CASE Prune(p) \/ SaveLinked(p)
  BY <1>7 DEF Prune, SaveLinked
<1>8. (\E d \in Dst : RemoveFails(p, d)) \/ ConfigFails(p) \/ SourceMissing(p) \/ Return(p)
        => Exit(p) /\ pc[p] # "idle"
  BY DEF RemoveFails, ConfigFails, SourceMissing, Return, Executing
<1>9. QED
  BY <1>1, <1>2, <1>3, <1>4, <1>5, <1>6, <1>7, <1>8 DEF Step

LEMMA AdoptStepFrame ==
    ASSUME AdoptTypeOK, NEW q \in Adopter, AdoptStep(q)
    PROVE  apc[q] # "idle" /\ \A r \in Adopter \ {q} : SameAdoption(r)
<1>. USE DEF AdoptTypeOK, AGoto, AAt, SameAdoption
<1>1. CASE AdoptExit(q) /\ apc[q] # "idle"
  BY <1>1, AdoptExitFrame
<1>2. CASE LoadEdits(q) \/ SaveEdits(q)
  BY <1>2 DEF LoadEdits, SaveEdits
<1>3. ASSUME NEW d \in Dst, CopyEdit(q, d)
      PROVE  apc[q] # "idle" /\ \A r \in Adopter \ {q} : SameAdoption(r)
  BY <1>3 DEF CopyEdit
<1>4. ASSUME NEW d \in Dst, SkipImport(q, d) \/ CopyImport(q, d) \/ RecordImport(q, d)
      PROVE  apc[q] # "idle" /\ \A r \in Adopter \ {q} : SameAdoption(r)
  BY <1>4 DEF SkipImport, CopyImport, RecordImport
<1>5. (\E d \in Dst : CopyEditFails(q, d)) \/ AdoptReturn(q) => AdoptExit(q) /\ apc[q] # "idle"
  BY DEF CopyEditFails, AdoptReturn
<1>6. QED
  BY <1>1, <1>2, <1>3, <1>4, <1>5 DEF AdoptStep

(***************************************************************************)
(* MemoryInv is inductive                                                  *)
(***************************************************************************)
LEMMA StepMemory ==
    ASSUME DeployTypeOK, NEW p \in Proc, CommandMemory(p), Step(p) \/ Exit(p)
    PROVE  CommandMemory(p)'
<1>. USE DEF DeployTypeOK, Goto, At, CommandMemory
<1>1. CASE Exit(p)
  BY <1>1, ExitFrame DEF NoCommand
<1>2. CASE Load(p)
  BY <1>2 DEF Load
<1>3. CASE SaveUnlinked(p)
  BY <1>3 DEF SaveUnlinked, Command, Op
<1>4. ASSUME NEW d \in Dst, RemoveFile(p, d)
      PROVE  CommandMemory(p)'
  BY <1>4 DEF RemoveFile
<1>5. CASE MakePlan(p) \/ LoadAndNarrow(p)
  BY <1>5 DEF MakePlan, LoadAndNarrow
<1>6. CASE PassOver(p) \/ HashCopy(p)
  BY <1>6 DEF PassOver, HashCopy, Executing, Advance
<1>7. CASE CopyFile(p)
  BY <1>7 DEF CopyFile, Executing
<1>8. CASE Prune(p)
  BY <1>8 DEF Prune
<1>9. CASE SaveLinked(p)
  BY <1>9 DEF SaveLinked
<1>10. (\E d \in Dst : RemoveFails(p, d)) \/ ConfigFails(p) \/ SourceMissing(p) \/ Return(p)
        => Exit(p)
  BY DEF RemoveFails, ConfigFails, SourceMissing, Return
<1>11. QED
  BY <1>1, <1>2, <1>3, <1>4, <1>5, <1>6, <1>7, <1>8, <1>9, <1>10 DEF Step

LEMMA AdoptStepMemory ==
    ASSUME AdoptTypeOK, NEW q \in Adopter, AdoptMemory(q), AdoptStep(q) \/ AdoptExit(q)
    PROVE  AdoptMemory(q)'
<1>. USE DEF AdoptTypeOK, AGoto, AAt, AdoptMemory
<1>1. CASE AdoptExit(q)
  BY <1>1, AdoptExitFrame DEF NoAdoption
<1>2. CASE LoadEdits(q) \/ SaveEdits(q)
  BY <1>2 DEF LoadEdits, SaveEdits
<1>3. ASSUME NEW d \in Dst, CopyEdit(q, d)
      PROVE  AdoptMemory(q)'
  BY <1>3 DEF CopyEdit
<1>4. ASSUME NEW d \in Dst, SkipImport(q, d) \/ CopyImport(q, d) \/ RecordImport(q, d)
      PROVE  AdoptMemory(q)'
  BY <1>4 DEF SkipImport, CopyImport, RecordImport
<1>5. (\E d \in Dst : CopyEditFails(q, d)) \/ AdoptReturn(q) => AdoptExit(q)
  BY DEF CopyEditFails, AdoptReturn
<1>6. QED
  BY <1>1, <1>2, <1>3, <1>4, <1>5 DEF AdoptStep

LEMMA SameMemory ==
    /\ \A r \in Proc : SameCommand(r) /\ CommandMemory(r) => CommandMemory(r)'
    /\ \A r \in Adopter : SameAdoption(r) /\ AdoptMemory(r) => AdoptMemory(r)'
  BY DEF SameCommand, CommandMemory, SameAdoption, AdoptMemory

LEMMA InitMemory == Init => MemoryInv
<1>. SUFFICES ASSUME Init PROVE MemoryInv
  OBVIOUS
<1>1. \A p \in Proc : CommandMemory(p)
  BY DEF Init, DeployInit, CommandMemory, NoCommand
<1>2. \A q \in Adopter : AdoptMemory(q)
  BY DEF Init, AdoptInit, AdoptMemory, NoAdoption
<1>3. QED
  BY <1>1, <1>2, InitType DEF MemoryInv

LEMMA UnchangedSame ==
    /\ UNCHANGED deployVars => \A r \in Proc : SameCommand(r)
    /\ UNCHANGED adoptVars => \A r \in Adopter : SameAdoption(r)
  BY DEF deployVars, adoptVars, SameCommand, SameAdoption

\* Who steps, and that nobody else's memory changes.
LEMMA NextFrame ==
    ASSUME TypeInv, [Next]_vars
    PROVE  \/ /\ UserStep \/ UNCHANGED vars
              /\ UNCHANGED <<deployVars, adoptVars>>
           \/ \E p \in Proc : /\ StartCommand(p) \/ Run(p) \/ Stop(p)
                              /\ \A r \in Proc \ {p} : SameCommand(r)
                              /\ UNCHANGED adoptVars
           \/ \E q \in Adopter : /\ StartAdoption(q) \/ RunAdopt(q) \/ StopAdopt(q)
                                 /\ \A r \in Adopter \ {q} : SameAdoption(r)
                                 /\ UNCHANGED deployVars
<1>1. DeployTypeOK /\ AdoptTypeOK
  BY DEF TypeInv, TypeOK
<1>2. ASSUME NEW p \in Proc, StartCommand(p) \/ Run(p) \/ Stop(p)
      PROVE  UNCHANGED adoptVars /\ \A r \in Proc \ {p} : SameCommand(r)
  <2>1. CASE StartCommand(p)
    BY <1>1, <2>1 DEF StartCommand, Start, Goto, DeployTypeOK, SameCommand
  <2>2. CASE Run(p) \/ Stop(p)
    BY <1>1, <2>2, StepFrame, ExitFrame DEF Run, Stop, Abort
  <2>3. QED
    BY <1>2, <2>1, <2>2
<1>3. ASSUME NEW q \in Adopter, StartAdoption(q) \/ RunAdopt(q) \/ StopAdopt(q)
      PROVE  UNCHANGED deployVars /\ \A r \in Adopter \ {q} : SameAdoption(r)
  <2>1. CASE StartAdoption(q)
    BY <1>1, <2>1 DEF StartAdoption, StartAdopt, AGoto, AdoptTypeOK, SameAdoption
  <2>2. CASE RunAdopt(q) \/ StopAdopt(q)
    BY <1>1, <2>2, AdoptStepFrame, AdoptExitFrame DEF RunAdopt, StopAdopt, AdoptAbort
  <2>3. QED
    BY <1>3, <2>1, <2>2
<1>4. QED
  BY <1>2, <1>3 DEF Next, UserStep, vars

LEMMA NextMemory == MemoryInv /\ [Next]_vars => MemoryInv'
<1>. SUFFICES ASSUME MemoryInv, [Next]_vars PROVE MemoryInv'
  OBVIOUS
<1>1. TypeInv /\ TypeInv' /\ DeployTypeOK /\ AdoptTypeOK
  BY NextType DEF MemoryInv, TypeInv, TypeOK
<1>2. ASSUME NEW p \in Proc, StartCommand(p) \/ Run(p) \/ Stop(p) PROVE CommandMemory(p)'
  <2>1. CASE StartCommand(p)
    BY <1>1, <2>1, CommandsAssumption
       DEF StartCommand, Start, At, Goto, DeployTypeOK, MemoryInv, CommandMemory, Command, Op
  <2>2. CASE Run(p) \/ Stop(p)
    BY <1>1, <2>2, StepMemory DEF Run, Stop, Abort, MemoryInv
  <2>3. QED
    BY <1>2, <2>1, <2>2
<1>3. ASSUME NEW q \in Adopter, StartAdoption(q) \/ RunAdopt(q) \/ StopAdopt(q)
      PROVE  AdoptMemory(q)'
  <2>1. CASE StartAdoption(q)
    BY <1>1, <2>1 DEF StartAdoption, StartAdopt, AAt, AGoto, AdoptTypeOK, MemoryInv, AdoptMemory
  <2>2. CASE RunAdopt(q) \/ StopAdopt(q)
    BY <1>1, <2>2, AdoptStepMemory DEF RunAdopt, StopAdopt, AdoptAbort, MemoryInv
  <2>3. QED
    BY <1>3, <2>1, <2>2
<1>4. QED
  BY <1>1, <1>2, <1>3, NextFrame, SameMemory, UnchangedSame DEF MemoryInv

\* A command with nobody beside it is undisturbed.
LEMMA NextAlone ==
    ASSUME Racing = FALSE, TypeInv, AloneInv, [Next]_vars
    PROVE  AloneInv'
<1>1. \A p \in Proc : p \notin Adopter
  BY KryptAssumption
<1>2. CASE (UserStep \/ UNCHANGED vars) /\ UNCHANGED <<deployVars, adoptVars>>
  <2>1. Running' = Running
    BY <1>2 DEF deployVars, adoptVars, Running
  <2>2. disturbed' = {}
    BY <1>2 DEF AloneInv, UserStep, Quiet, Beside, vars
  <2>3. QED
    BY <2>1, <2>2 DEF AloneInv, Alone
<1>3. ASSUME NEW p \in Proc, StartCommand(p) \/ Run(p) \/ Stop(p),
             \A r \in Proc \ {p} : SameCommand(r), UNCHANGED adoptVars
      PROVE  AloneInv'
  <2>1. Running \subseteq {p}
    BY <1>1, <1>3, StepFrame
       DEF TypeInv, TypeOK, AloneInv, Alone, StartCommand, Launch, Quiet, Run, Stop, Abort, Running
  <2>2. Running' \subseteq {p}
    BY <1>3, <2>1, <1>1 DEF Running, SameCommand, adoptVars
  <2>3. disturbed' = {}
    BY <1>3, <2>1 DEF AloneInv, StartCommand, Launch, Run, Stop, Beside
  <2>4. QED
    BY <2>2, <2>3 DEF AloneInv, Alone
<1>4. ASSUME NEW q \in Adopter, StartAdoption(q) \/ RunAdopt(q) \/ StopAdopt(q),
             \A r \in Adopter \ {q} : SameAdoption(r), UNCHANGED deployVars
      PROVE  AloneInv'
  <2>1. Running \subseteq {q}
    BY <1>1, <1>4, AdoptStepFrame
       DEF TypeInv, TypeOK, AloneInv, Alone, StartAdoption, Launch, Quiet, RunAdopt, StopAdopt,
           AdoptAbort, AAt, Running
  <2>2. Running' \subseteq {q}
    BY <1>4, <2>1, <1>1 DEF Running, SameAdoption, deployVars
  <2>3. disturbed' = {}
    BY <1>4, <2>1 DEF AloneInv, StartAdoption, Launch, RunAdopt, StopAdopt, Beside
  <2>4. QED
    BY <2>2, <2>3 DEF AloneInv, Alone
<1>5. QED
  BY <1>2, <1>3, <1>4, NextFrame

LEMMA InitAlone == Init => AloneInv
  BY DEF Init, DeployInit, AdoptInit, AloneInv, Alone, Running

(***************************************************************************)
(* Dry runs                                                                *)
(***************************************************************************)

\* A dry command's steps write nothing, whoever else is running.
LEMMA DryStep ==
    ASSUME NEW p \in Proc, CommandMemory(p), cmd[p].dry, Step(p) \/ Exit(p)
    PROVE  UNCHANGED <<disk, repo, manifest>>
<1>1. Exit(p) => UNCHANGED <<disk, repo, manifest>>
  BY DEF Exit, storeVars
<1>2. doomed[p] = {}
  BY DEF CommandMemory
<1>3. QED
  BY <1>1, <1>2 DEF Step, Load, SaveUnlinked, RemoveFile, RemoveFails, ConfigFails, MakePlan,
     LoadAndNarrow, PassOver, SourceMissing, CopyFile, HashCopy, Prune, SaveLinked, Return, storeVars

LEMMA DryAdopt ==
    ASSUME NEW q \in Adopter, AdoptMemory(q), acmd[q].dry, AdoptStep(q) \/ AdoptExit(q)
    PROVE  UNCHANGED <<disk, repo, manifest>>
<1>1. AdoptExit(q) => UNCHANGED <<disk, repo, manifest>>
  BY DEF AdoptExit, storeVars
<1>2. edited[q] = {} /\ apc[q] # "record"
  BY DEF AdoptMemory
<1>3. QED
  BY <1>1, <1>2 DEF AdoptStep, LoadEdits, SaveEdits, AdoptReturn, CopyEdit, CopyEditFails,
     SkipImport, CopyImport, RecordImport, AAt, storeVars

\* While a dry run runs, alone, nothing in the home, the repo or the
\* manifest changes.
THEOREM DryRunsReadOnly ==
    ASSUME Racing = FALSE
    PROVE  Spec => DryRunReadOnly
<1>1. ASSUME MemoryInv, AloneInv, [Next]_vars,
             \/ \E p \in Proc : pc[p] # "idle" /\ cmd[p].dry
             \/ \E q \in Adopter : apc[q] # "idle" /\ acmd[q].dry
      PROVE  UNCHANGED <<disk, repo, manifest>>
  <2>1. TypeInv /\ ~Quiet
    BY <1>1 DEF MemoryInv, Quiet, Running
  <2>2. CASE UserStep \/ UNCHANGED vars
    BY <2>1, <2>2 DEF UserStep, vars, storeVars
  <2>3. ASSUME NEW p \in Proc, StartCommand(p) \/ Run(p) \/ Stop(p)
        PROVE  UNCHANGED <<disk, repo, manifest>>
    <3>1. pc[p] # "idle" /\ (Step(p) \/ Exit(p))
      BY <2>1, <2>3, StepFrame DEF TypeInv, TypeOK, StartCommand, Launch, Run, Stop, Abort
    <3>2. cmd[p].dry
      BY <1>1, <3>1, KryptAssumption DEF AloneInv, Alone, Running
    <3>3. QED
      BY <1>1, <3>1, <3>2, DryStep DEF MemoryInv
  <2>4. ASSUME NEW q \in Adopter, StartAdoption(q) \/ RunAdopt(q) \/ StopAdopt(q)
        PROVE  UNCHANGED <<disk, repo, manifest>>
    <3>1. apc[q] # "idle" /\ (AdoptStep(q) \/ AdoptExit(q))
      BY <2>1, <2>4, AdoptStepFrame
         DEF TypeInv, TypeOK, StartAdoption, Launch, RunAdopt, StopAdopt, AdoptAbort, AAt
    <3>2. acmd[q].dry
      BY <1>1, <3>1, KryptAssumption DEF AloneInv, Alone, Running
    <3>3. QED
      BY <1>1, <3>1, <3>2, DryAdopt DEF MemoryInv
  <2>5. QED
    BY <1>1, <2>1, <2>2, <2>3, <2>4, NextFrame
<1>2. MemoryInv /\ AloneInv /\ [Next]_vars => MemoryInv' /\ AloneInv'
  BY NextMemory, NextAlone DEF MemoryInv
<1>3. MemoryInv /\ AloneInv /\ [Next]_vars =>
        [ \/ \E p \in Proc : pc[p] # "idle" /\ cmd[p].dry
          \/ \E q \in Adopter : apc[q] # "idle" /\ acmd[q].dry
          => UNCHANGED <<disk, repo, manifest>>]_vars
  BY <1>1
<1>4. QED
  BY InitMemory, InitAlone, <1>2, <1>3, PTL DEF Spec, DryRunReadOnly

(***************************************************************************)
(* What an undisturbed command keeps to, step by step                      *)
(***************************************************************************)

\* A command that holds no plan has nothing to keep to.
LEMMA RestGoal ==
    ASSUME NEW p \in Proc, pc'[p] \in {"idle", "load", "plan"}
    PROVE  CommandGoal(p)'
  BY DEF CommandGoal, UnlinkOnCourse, UnlinkDone, LinkOnCourse, PlanFresh, LinkDone,
     GreenOnCourse, GreenDone

\* The hypotheses every step below starts from.
OnCourse(p) == TypeInv /\ TypeInv' /\ CommandMemory(p) /\ CommandMemory(p)' /\ CommandGoal(p)

LEMMA LoadGoal ==
    ASSUME NEW p \in Proc, OnCourse(p), Load(p)
    PROVE  CommandGoal(p)'
<1>. DEFINE del == Deletable(manifest, cmd[p].force)
            miss == WithStatus(manifest, disk, "missing")
<1>1. DeployTypeOK /\ UNCHANGED <<storeVars, cmd>> /\ pc'[p] = "unlink"
  BY DEF Load, Goto, OnCourse, TypeInv, TypeOK, DeployTypeOK
<1>2. mem'[p] = ForgetAll(manifest, del \cup miss) /\ doomed'[p] \subseteq del
  BY DEF Load, OnCourse, TypeInv, TypeOK, DeployTypeOK
<1>3. ASSUME NEW d \in Dst, mem'[p][d] # NoEntry
      PROVE  d \notin doomed'[p] /\ mem'[p][d] = manifest[d] /\ LeftDrifted(manifest, d, cmd[p].force)
  <2>1. d \notin del /\ d \notin miss /\ mem'[p][d] = manifest[d]
    BY <1>2, <1>3 DEF ForgetAll
  <2>2. Status(manifest[d], disk[d]) = "drifted"
    BY <1>3, <2>1 DEF Deletable, WithStatus, Status
  <2>3. cmd[p].force => IsLocalEdit(manifest[d], disk[d])
    BY <1>3, <2>1, <2>2 DEF Deletable, WithStatus
  <2>4. QED
    BY <1>2, <2>1, <2>2, <2>3 DEF LeftDrifted, IsLocalEdit
<1>4. UnlinkOnCourse(p)'
  BY <1>1, <1>3 DEF UnlinkOnCourse, LeftDrifted, storeVars
<1>5. QED
  BY <1>1, <1>4 DEF CommandGoal, UnlinkDone, LinkOnCourse, PlanFresh, LinkDone,
     GreenOnCourse, GreenDone

LEMMA SaveUnlinkedGoal ==
    ASSUME NEW p \in Proc, OnCourse(p), SaveUnlinked(p)
    PROVE  CommandGoal(p)'
<1>1. CASE cmd[p].op = "relink"
  BY <1>1, RestGoal DEF SaveUnlinked, Goto, OnCourse, TypeInv, TypeOK, DeployTypeOK
<1>2. CASE cmd[p].op # "relink"
  <2>1. /\ pc[p] = "unlink" /\ pc'[p] = "done" /\ cmd[p].op = "unlink"
        /\ UNCHANGED <<cmd, disk>>
    BY <1>2 DEF SaveUnlinked, At, Goto, OnCourse, CommandMemory, TypeInv, TypeOK, DeployTypeOK,
       Command, Op
  <2>2. UnlinkDone(p)'
    BY <2>1 DEF SaveUnlinked, OnCourse, CommandGoal, UnlinkOnCourse, UnlinkDone, LeftDrifted
  <2>3. QED
    BY <2>1, <2>2 DEF CommandGoal, UnlinkOnCourse, LinkOnCourse, PlanFresh, LinkDone,
       GreenOnCourse, GreenDone
<1>3. QED
  BY <1>1, <1>2

LEMMA RemoveFileGoal ==
    ASSUME NEW p \in Proc, OnCourse(p), NEW d \in Dst, RemoveFile(p, d)
    PROVE  CommandGoal(p)'
<1>1. /\ DeployTypeOK /\ StoreTypeOK /\ pc[p] \in {"unlink", "prune"} /\ d \in doomed[p] /\ ~cmd[p].dry
      /\ UNCHANGED <<pc, cmd, plan, mem, next, written, repo, config, manifest>>
      /\ doomed'[p] = doomed[p] \ {d}
      /\ \A e \in Dst \ {d} : disk'[e] = disk[e]
  BY DEF RemoveFile, OnCourse, CommandMemory, TypeInv, TypeOK, DeployTypeOK, StoreTypeOK
<1>2. CASE pc[p] = "unlink"
  <2>1. UnlinkOnCourse(p)'
    BY <1>1, <1>2 DEF OnCourse, CommandGoal, UnlinkOnCourse, LeftDrifted
  <2>2. QED
    BY <1>1, <1>2, <2>1 DEF CommandGoal, UnlinkDone, LinkOnCourse, PlanFresh, LinkDone,
       GreenOnCourse, GreenDone
<1>3. CASE pc[p] = "prune"
  <2>1. LeftAlone(p) /\ CopiedSoFar(p) /\ WrittenPlanned(p) /\ MemOnCourse(p)
    BY <1>1, <1>3 DEF OnCourse, CommandGoal, LinkOnCourse
  <2>2. For(plan[p], d) = {}
    BY <1>1, <1>3, <2>1 DEF MemOnCourse
  <2>3. \A i \in DOMAIN plan[p] : plan[p][i].act # "omit" =>
            /\ plan[p][i].dst # d /\ plan[p][i].dst \in Dst
            /\ disk'[plan[p][i].dst] = disk[plan[p][i].dst]
    BY <1>1, <2>2, PlanEntryType DEF For
  <2>4. LeftAlone(p)'
    BY <1>1, <2>1, <2>3 DEF LeftAlone, Sole, Ours
  <2>5. CopiedSoFar(p)'
    BY <1>1, <2>1, <2>3 DEF CopiedSoFar, Sole
  <2>6. WrittenPlanned(p)' /\ MemOnCourse(p)' /\ HashOnCourse(p)' /\ PlanFresh(p)'
    BY <1>1, <1>3, <2>1 DEF WrittenPlanned, MemOnCourse, HashOnCourse, PlanFresh
  <2>7. LinkOnCourse(p)'
    BY <2>4, <2>5, <2>6 DEF LinkOnCourse
  <2>8. PlanOfConfig(p) /\ CopiesInPlace(p)
    BY <1>1, <1>3 DEF OnCourse, CommandGoal, GreenOnCourse
  <2>9. PlanOfConfig(p)'
    BY <1>1, <2>8 DEF PlanOfConfig
  <2>10. written[p][d] = NoEntry
    BY <2>1, <2>2 DEF WrittenPlanned
  <2>11. CopiesInPlace(p)'
    BY <1>1, <1>3, <2>3, <2>8, <2>10 DEF CopiesInPlace
  <2>12. QED
    BY <1>1, <1>3, <2>7, <2>9, <2>11 DEF CommandGoal, UnlinkOnCourse, UnlinkDone, LinkDone,
       GreenOnCourse, GreenDone
<1>4. QED
  BY <1>1, <1>2, <1>3

LEMMA MakePlanGoal ==
    ASSUME NEW p \in Proc, OnCourse(p), MakePlan(p)
    PROVE  CommandGoal(p)'
<1>. DEFINE pl == Plan(config, cmd[p].platform, repo, tracked, disk)
<1>1. /\ UNCHANGED <<storeVars, cmd>> /\ pc'[p] = "narrow" /\ plan'[p] = pl
      /\ config # BadConfig /\ config \in Configs
  BY DEF MakePlan, Goto, OnCourse, TypeInv, TypeOK, DeployTypeOK, StoreTypeOK
<1>2. DOMAIN pl = DOMAIN config
  BY <1>1, PlanType
<1>3. \A i \in DOMAIN config :
        /\ pl[i].src = config[i].src /\ pl[i].dst = config[i].dst /\ pl[i].kind = config[i].kind
        /\ pl[i].act = IF Selected(config[i], cmd[p].platform, repo, tracked)
                       THEN BuildAction(config[i], disk) ELSE "omit"
  BY DEF Plan
<1>4. PlanFresh(p)'
  BY <1>1, <1>2, <1>3 DEF PlanFresh, BuildAction, storeVars
<1>5. PlanOfConfig(p)'
  BY <1>1, <1>2, <1>3 DEF PlanOfConfig, BuildAction, Selected, storeVars
<1>6. QED
  BY <1>1, <1>4, <1>5 DEF CommandGoal, UnlinkOnCourse, UnlinkDone, LinkOnCourse, LinkDone,
     GreenOnCourse, GreenDone

LEMMA LoadAndNarrowGoal ==
    ASSUME NEW p \in Proc, OnCourse(p), LoadAndNarrow(p)
    PROVE  CommandGoal(p)'
<1>. DEFINE pl == plan[p]
            nw == Narrow(pl, manifest, repo, disk, cmd[p].force)
<1>1. /\ DeployTypeOK /\ StoreTypeOK /\ UNCHANGED <<storeVars, cmd, next, written, doomed>>
      /\ pc[p] = "narrow" /\ pc'[p] = "copy" /\ plan'[p] = nw /\ mem'[p] = manifest
      /\ next[p] = 1 /\ written[p] = EmptyManifest
  BY DEF LoadAndNarrow, At, Goto, OnCourse, CommandMemory, TypeInv, TypeOK, DeployTypeOK
<1>2. PlanFresh(p) /\ PlanOfConfig(p)
  BY <1>1 DEF OnCourse, CommandGoal, LinkOnCourse, GreenOnCourse
<1>3. DOMAIN nw = DOMAIN pl /\ \A i \in DOMAIN pl : i \in Nat \ {0}
  BY <1>1 DEF Narrow, DeployTypeOK
<1>4. ASSUME NEW i \in DOMAIN pl
      PROVE  /\ pl[i] \in PlanAction
             /\ nw[i].dst = pl[i].dst /\ nw[i].src = pl[i].src /\ nw[i].kind = pl[i].kind
             /\ nw[i].act = Narrowed(pl[i], manifest, repo, disk, cmd[p].force)
  <2>1. pl[i] \in PlanAction
    BY <1>1, PlanEntryType
  <2>2. QED
    BY <2>1 DEF Narrow, PlanAction
<1>5. ASSUME NEW i \in DOMAIN pl, nw[i].act \in {"conflict", "keep"}
      PROVE  /\ pl[i].act = "conflict" /\ ~Safe(pl[i], manifest, repo, disk)
             /\ disk[nw[i].dst] # Absent
             /\ nw[i].kind = "link" => ~cmd[p].force
             /\ nw[i].act = "keep" => nw[i].kind = "template"
  <2>1. pl[i].act \in {"omit", "copy", "conflict"}
    BY <1>1, <1>2 DEF PlanFresh
  <2>2. pl[i].act = "conflict" /\ ~Safe(pl[i], manifest, repo, disk)
    BY <1>4, <1>5, <2>1 DEF Narrowed
  <2>3. nw[i].act = IF pl[i].kind = "template" THEN "keep"
                    ELSE IF cmd[p].force THEN "copy" ELSE "conflict"
    BY <1>4, <2>2 DEF Narrowed
  <2>4. QED
    BY <1>1, <1>2, <1>4, <1>5, <2>2, <2>3 DEF PlanFresh
<1>6. LeftAlone(p)'
  <2>1. ASSUME NEW i \in DOMAIN pl, nw[i].act \in {"conflict", "keep"}
        PROVE  /\ disk[nw[i].dst] \notin {Absent, repo[nw[i].src]}
               /\ ~Ours(manifest, disk, nw[i].dst)
    <3>1. pl[i].src \in Src /\ repo[pl[i].src] \in RepoFile
      BY <1>1, <1>4 DEF PlanAction, StoreTypeOK
    <3>2. QED
      BY <1>4, <1>5, <2>1, <3>1 DEF Safe, SameContent, RepoFile
  <2>2. QED
    BY <1>1, <1>3, <1>5, <2>1 DEF LeftAlone, storeVars
<1>7. CopiedSoFar(p)'
  BY <1>1, <1>3 DEF CopiedSoFar
<1>8. WrittenPlanned(p)' /\ HashOnCourse(p)' /\ MemOnCourse(p)' /\ PlanFresh(p)'
  BY <1>1 DEF WrittenPlanned, HashOnCourse, MemOnCourse, PlanFresh, EmptyManifest, storeVars
<1>9. PlanOfConfig(p)'
  <2>1. \A i \in DOMAIN pl : pl[i].act # "omit" => nw[i].act # "omit"
    BY <1>4 DEF Narrowed
  <2>2. QED
    BY <1>1, <1>2, <1>3, <1>4, <1>5, <2>1 DEF PlanOfConfig, storeVars
<1>10. CopiesInPlace(p)'
  BY <1>1, <1>3, <1>5 DEF CopiesInPlace, EmptyManifest, storeVars
<1>11. QED
  BY <1>1, <1>6, <1>7, <1>8, <1>9, <1>10 DEF CommandGoal, UnlinkOnCourse, UnlinkDone,
     LinkOnCourse, LinkDone, GreenOnCourse, GreenDone

\* The parts of CommandGoal that speak of a command executing its plan.
Executes(p) ==
    /\ LeftAlone(p) /\ CopiedSoFar(p) /\ WrittenPlanned(p) /\ HashOnCourse(p) /\ MemOnCourse(p)
    /\ PlanOfConfig(p) /\ CopiesInPlace(p)

LEMMA ExecutesGoal ==
    ASSUME NEW p \in Proc
    PROVE  /\ CommandGoal(p) /\ pc[p] \in {"copy", "hash", "prune"} /\ ~cmd[p].dry => Executes(p)
           /\ CommandGoal(p) /\ pc[p] \in {"copy", "hash", "prune"} => PlanOfConfig(p)
           /\ Executes(p)' /\ pc'[p] \in {"copy", "hash", "prune"} => CommandGoal(p)'
           /\ cmd'[p].dry /\ PlanOfConfig(p)' /\ pc'[p] \in {"copy", "hash", "prune"}
                => CommandGoal(p)'
  BY DEF Executes, CommandGoal, UnlinkOnCourse, UnlinkDone, LinkOnCourse, PlanFresh, LinkDone,
     GreenOnCourse, GreenDone

LEMMA PassOverGoal ==
    ASSUME NEW p \in Proc, OnCourse(p), PassOver(p)
    PROVE  CommandGoal(p)'
<1>1. /\ DeployTypeOK /\ UNCHANGED <<storeVars, pc, cmd, plan, mem, written, doomed>>
      /\ pc[p] = "copy" /\ next[p] \in DOMAIN plan[p] /\ next'[p] = next[p] + 1
      /\ CommandGoal(p)
  BY DEF PassOver, Executing, Advance, At, OnCourse, TypeInv, TypeOK, DeployTypeOK
<1>2. PlanOfConfig(p)'
  BY <1>1, ExecutesGoal DEF PlanOfConfig, storeVars
<1>3. CASE ~cmd[p].dry
  <2>1. Executes(p) /\ Current(p).act # "copy"
    BY <1>1, <1>3, ExecutesGoal DEF PassOver
  <2>2. \A i \in DOMAIN plan[p] : plan[p][i].act = "copy" /\ i < next'[p] => i < next[p]
    <3>1. \A i \in DOMAIN plan[p] : i \in Nat
      BY <1>1 DEF DeployTypeOK
    <3>2. QED
      BY <1>1, <2>1, <3>1 DEF Current
  <2>3. LeftAlone(p)' /\ WrittenPlanned(p)'
    BY <1>1, <2>1 DEF Executes, LeftAlone, WrittenPlanned, Sole, storeVars
  <2>4. CopiedSoFar(p)'
    BY <1>1, <2>1, <2>2 DEF Executes, CopiedSoFar, Sole, storeVars
  <2>5. HashOnCourse(p)' /\ MemOnCourse(p)'
    BY <1>1, <2>1 DEF Executes, HashOnCourse, MemOnCourse, storeVars
  <2>6. CopiesInPlace(p)'
    BY <1>1, <2>1, <2>2 DEF Executes, CopiesInPlace, storeVars
  <2>7. QED
    BY <1>1, <1>2, <2>3, <2>4, <2>5, <2>6, ExecutesGoal DEF Executes
<1>4. QED
  BY <1>1, <1>2, <1>3, ExecutesGoal

LEMMA CopyFileGoal ==
    ASSUME NEW p \in Proc, OnCourse(p), CopyFile(p)
    PROVE  CommandGoal(p)'
<1>. DEFINE n == next[p]
            dst == plan[p][n].dst
            src == plan[p][n].src
<1>1. /\ DeployTypeOK /\ StoreTypeOK /\ CommandGoal(p) /\ pc[p] = "copy" /\ pc'[p] = "hash"
      /\ UNCHANGED <<cmd, plan, mem, next, written, doomed, repo, config, manifest>>
      /\ n \in DOMAIN plan[p] /\ Current(p) = plan[p][n] /\ plan[p][n].act = "copy" /\ ~cmd[p].dry
      /\ repo[src] # Absent
  BY DEF CopyFile, Executing, Goto, At, Current, OnCourse, TypeInv, TypeOK, DeployTypeOK
<1>2. Executes(p)
  BY <1>1, ExecutesGoal
<1>3. /\ dst \in Dst /\ disk'[dst] = repo[src]
      /\ \A e \in Dst \ {dst} : disk'[e] = disk[e]
  BY <1>1, PlanEntryType DEF CopyFile, StoreTypeOK
<1>4. \A i \in DOMAIN plan[p] : i \in Nat /\ plan[p][i].dst \in Dst
  BY <1>1, PlanEntryType DEF DeployTypeOK
<1>5. \A i \in DOMAIN plan[p] : Sole(p, i) /\ i # n => plan[p][i].dst # dst
  BY <1>1 DEF Sole, For
<1>6. LeftAlone(p)'
  <2>1. LeftAlone(p)
    BY <1>2 DEF Executes
  <2>2. ASSUME NEW i \in DOMAIN plan[p], plan[p][i].act \in {"conflict", "keep"}, Sole(p, i)
        PROVE  disk'[plan[p][i].dst] = disk[plan[p][i].dst]
    BY <1>1, <1>3, <1>4, <1>5, <2>2
  <2>3. QED
    BY <1>1, <2>1, <2>2 DEF LeftAlone, Sole, Ours
<1>7. CopiedSoFar(p)'
  <2>1. CopiedSoFar(p)
    BY <1>2 DEF Executes
  <2>2. ASSUME NEW i \in DOMAIN plan[p], i < n, Sole(p, i)
        PROVE  disk'[plan[p][i].dst] = disk[plan[p][i].dst]
    <3>1. i # n
      BY <1>1, <1>4, <2>2
    <3>2. QED
      BY <1>3, <1>4, <1>5, <2>2, <3>1
  <2>3. QED
    BY <1>1, <2>1, <2>2 DEF CopiedSoFar, Sole
<1>8. WrittenPlanned(p)' /\ HashOnCourse(p)' /\ MemOnCourse(p)' /\ PlanOfConfig(p)'
  BY <1>1, <1>2, <1>3
     DEF Executes, WrittenPlanned, HashOnCourse, Current, MemOnCourse, PlanOfConfig
<1>9. CopiesInPlace(p)'
  <2>1. repo[src] \in Content
    BY <1>1, PlanEntryType DEF StoreTypeOK, RepoFile
  <2>2. \A d \in Dst : d # Current(p).dst => disk'[d] = disk[d]
    BY <1>1, <1>3
  <2>3. \A i \in DOMAIN plan[p] : disk[plan[p][i].dst] # Absent => disk'[plan[p][i].dst] # Absent
    BY <1>3, <1>4, <2>1, SentinelAssumption
  <2>4. QED
    BY <1>1, <1>2, <2>2, <2>3 DEF Executes, CopiesInPlace, Current
<1>10. QED
  BY <1>1, <1>6, <1>7, <1>8, <1>9, ExecutesGoal DEF Executes

LEMMA HashCopyGoal ==
    ASSUME NEW p \in Proc, OnCourse(p), HashCopy(p)
    PROVE  CommandGoal(p)'
<1>. DEFINE n == next[p]
            dst == plan[p][n].dst
            src == plan[p][n].src
            entry == [src |-> src, kind |-> plan[p][n].kind, hash |-> repo[src]]
<1>1. /\ DeployTypeOK /\ StoreTypeOK /\ CommandGoal(p) /\ pc[p] = "hash" /\ pc'[p] = "copy"
      /\ UNCHANGED <<cmd, plan, mem, doomed>> /\ UNCHANGED storeVars
      /\ n \in DOMAIN plan[p] /\ Current(p) = plan[p][n] /\ next'[p] = n + 1
      /\ ~cmd[p].dry
  BY DEF HashCopy, Goto, At, Advance, Current, OnCourse, CommandMemory, TypeInv, TypeOK,
     HashesPlanned, DeployTypeOK
<1>2. Executes(p)
  BY <1>1, ExecutesGoal
<1>3. dst \in Dst /\ disk[dst] = repo[src] /\ repo[src] \in Content /\ plan[p][n].act = "copy"
  BY <1>1, <1>2, PlanEntryType DEF Executes, HashOnCourse, StoreTypeOK, RepoFile
<1>4. /\ written'[p][dst] = entry
      /\ \A e \in Dst \ {dst} : written'[p][e] = written[p][e]
  BY <1>1, <1>3 DEF HashCopy, DeployTypeOK, ManifestType
<1>5. entry # NoEntry
  BY <1>1, <1>3, PlanEntryType, SentinelAssumption DEF Entry
<1>6. \A i \in DOMAIN plan[p] : i \in Nat /\ plan[p][i].dst \in Dst /\ (i < n + 1 => i < n \/ i = n)
  BY <1>1, PlanEntryType DEF DeployTypeOK
<1>7. \A i \in DOMAIN plan[p] : Sole(p, i) /\ i # n => plan[p][i].dst # dst
  BY <1>1, <1>3 DEF Sole, For
<1>8. LeftAlone(p)' /\ MemOnCourse(p)' /\ HashOnCourse(p)' /\ PlanOfConfig(p)'
  BY <1>1, <1>2 DEF Executes, LeftAlone, Sole, MemOnCourse, HashOnCourse, PlanOfConfig, storeVars
<1>9. CopiedSoFar(p)'
  <2>1. ASSUME NEW i \in DOMAIN plan[p], plan[p][i].act = "copy", i < n + 1, Sole(p, i)
        PROVE  LET a == plan[p][i] IN
               /\ disk[a.dst] = repo[a.src]
               /\ written'[p][a.dst] = [src |-> a.src, kind |-> a.kind, hash |-> repo[a.src]]
    <3>1. CASE i = n
      BY <1>3, <1>4, <3>1
    <3>2. CASE i # n
      <4>1. plan[p][i].dst # dst /\ i < n /\ plan[p][i].dst \in Dst
        BY <1>6, <1>7, <2>1, <3>2
      <4>2. QED
        BY <1>2, <1>4, <2>1, <4>1 DEF Executes, CopiedSoFar
    <3>3. QED
      BY <3>1, <3>2
  <2>2. QED
    BY <1>1, <2>1 DEF CopiedSoFar, Sole, storeVars
<1>10. WrittenPlanned(p)'
  BY <1>1, <1>2, <1>3, <1>4 DEF Executes, WrittenPlanned, For
<1>11. CopiesInPlace(p)'
  <2>1. \A i \in DOMAIN plan[p] : plan[p][i].act = "copy" /\ i < n + 1 =>
            repo[plan[p][i].src] # Absent /\ written'[p][plan[p][i].dst] # NoEntry
    BY <1>2, <1>3, <1>4, <1>5, <1>6, SentinelAssumption DEF Executes, CopiesInPlace
  <2>2. \A d \in Dst : written'[p][d] # NoEntry => written'[p][d].hash = disk[d]
    BY <1>1, <1>2, <1>3, <1>4 DEF Executes, CopiesInPlace
  <2>3. \A i \in DOMAIN plan[p] : plan[p][i].act = "keep" => disk[plan[p][i].dst] # Absent
    BY <1>2 DEF Executes, CopiesInPlace
  <2>4. QED
    BY <1>1, <2>1, <2>2, <2>3 DEF CopiesInPlace, storeVars
<1>12. QED
  BY <1>1, <1>8, <1>9, <1>10, <1>11, ExecutesGoal DEF Executes

LEMMA PruneGoal ==
    ASSUME NEW p \in Proc, OnCourse(p), Prune(p)
    PROVE  CommandGoal(p)'
<1>1. /\ DeployTypeOK /\ CommandGoal(p) /\ pc[p] = "copy" /\ pc'[p] = "prune"
      /\ UNCHANGED <<cmd, plan, next, written>> /\ UNCHANGED storeVars
      /\ next[p] \notin DOMAIN plan[p]
  BY DEF Prune, Goto, At, OnCourse, TypeInv, TypeOK, DeployTypeOK
<1>2. PlanOfConfig(p)'
  BY <1>1, ExecutesGoal DEF PlanOfConfig, storeVars
<1>3. CASE ~cmd[p].dry
  <2>1. Executes(p)
    BY <1>1, <1>3, ExecutesGoal
  <2>2. \A i \in DOMAIN plan[p] : i < next[p]
    BY <1>1 DEF DeployTypeOK
  <2>3. LeftAlone(p)' /\ CopiedSoFar(p)' /\ WrittenPlanned(p)' /\ HashOnCourse(p)' /\ CopiesInPlace(p)'
    BY <1>1, <2>1 DEF Executes, LeftAlone, CopiedSoFar, WrittenPlanned, HashOnCourse,
       CopiesInPlace, Sole, storeVars
  <2>4. mem[p] = manifest /\ mem[p] \in ManifestType
    BY <1>1, <2>1 DEF Executes, MemOnCourse, DeployTypeOK
  <2>5. \A d \in Dst : For(plan[p], d) = {} <=> d \notin Planned(plan[p])
    BY DEF For, Planned
  <2>6. MemOnCourse(p)'
    <3>1. CASE cmd[p].platform = Host
      <4>1. /\ doomed'[p] = Prunable(mem[p], plan[p])
            /\ mem'[p] = ForgetAll(mem[p], Stale(mem[p], plan[p]))
        BY <1>1, <1>3, <3>1 DEF Prune, DeployTypeOK
      <4>2. ASSUME NEW d \in Dst
            PROVE  IF For(plan[p], d) = {}
                   THEN mem'[p][d] = NoEntry
                   ELSE mem'[p][d] = manifest[d] /\ d \notin doomed'[p]
        BY <2>4, <2>5, <4>1 DEF ForgetAll, Stale, Prunable
      <4>3. QED
        BY <1>1, <2>2, <4>2 DEF MemOnCourse, storeVars
    <3>2. CASE cmd[p].platform # Host
      <4>1. doomed'[p] = {} /\ mem'[p] = mem[p]
        BY <1>1, <1>3, <3>2 DEF Prune, DeployTypeOK
      <4>2. QED
        BY <1>1, <2>2, <2>4, <3>2, <4>1 DEF MemOnCourse, storeVars
    <3>3. QED
      BY <3>1, <3>2
  <2>7. QED
    BY <1>1, <1>2, <2>3, <2>6, ExecutesGoal DEF Executes
<1>4. QED
  BY <1>1, <1>2, <1>3, ExecutesGoal

LEMMA SaveLinkedGoal ==
    ASSUME NEW p \in Proc, OnCourse(p), SaveLinked(p)
    PROVE  CommandGoal(p)'
<1>1. /\ DeployTypeOK /\ StoreTypeOK /\ CommandGoal(p) /\ pc[p] = "prune" /\ pc'[p] = "done"
      /\ UNCHANGED <<cmd, plan, written, disk, repo, config>> /\ doomed[p] = {}
      /\ cmd[p].op # "unlink"
  BY DEF SaveLinked, Goto, At, OnCourse, CommandMemory, TypeInv, TypeOK, DeployTypeOK
<1>2. CASE cmd[p].dry
  BY <1>1, <1>2 DEF CommandGoal, UnlinkOnCourse, UnlinkDone, LinkOnCourse, PlanFresh, LinkDone,
     GreenOnCourse, GreenDone
<1>3. CASE ~cmd[p].dry
  <2>1. Executes(p)
    BY <1>1, <1>3, ExecutesGoal
  <2>2. /\ \A d \in Dst : manifest'[d] = IF written[p][d] = NoEntry THEN mem[p][d] ELSE written[p][d]
        /\ manifest' \in ManifestType
    BY <1>1, <1>3 DEF SaveLinked, RecordAll, OnCourse, TypeInv, TypeOK, StoreTypeOK
  <2>3. ASSUME NEW d \in Dst, For(plan[p], d) = {}, cmd[p].platform = Host
        PROVE  manifest'[d] = NoEntry
    BY <1>1, <2>1, <2>2, <2>3 DEF Executes, MemOnCourse, WrittenPlanned
  <2>4. ASSUME NEW d \in Dst, NEW i \in For(plan[p], d), For(plan[p], d) = {i}
        PROVE  Settled(p, d, plan[p][i])'
    <3>1. /\ i \in DOMAIN plan[p] /\ plan[p][i].dst = d /\ Sole(p, i) /\ i < next[p]
          /\ plan[p][i].act \in {"copy", "conflict", "keep"}
          /\ plan[p][i].src \in Src /\ repo[plan[p][i].src] \in RepoFile
      BY <1>1, <2>1, <2>4, PlanEntryType
         DEF For, Sole, Executes, MemOnCourse, PlanAction, Act, StoreTypeOK
    <3>2. CASE plan[p][i].act = "copy"
      <4>1. /\ disk[d] = repo[plan[p][i].src] /\ written[p][d] # NoEntry
            /\ written[p][d] = [src |-> plan[p][i].src, kind |-> plan[p][i].kind,
                                hash |-> repo[plan[p][i].src]]
        BY <2>1, <3>1, <3>2 DEF Executes, CopiedSoFar, CopiesInPlace
      <4>2. QED
        BY <1>1, <2>2, <4>1 DEF Settled
    <3>3. CASE plan[p][i].act # "copy"
      <4>1. /\ disk[d] \notin {Absent, repo[plan[p][i].src]} /\ ~Ours(manifest, disk, d)
            /\ plan[p][i].kind = "link" => ~cmd[p].force
        BY <2>1, <3>1, <3>3 DEF Executes, LeftAlone
      <4>2. manifest'[d] = manifest[d]
        <5>1. written[p][d] = NoEntry
          BY <2>1, <2>4, <3>3 DEF Executes, WrittenPlanned
        <5>2. QED
          BY <1>1, <2>1, <2>2, <2>4, <5>1 DEF Executes, MemOnCourse
      <4>3. QED
        BY <1>1, <3>3, <4>1, <4>2 DEF Settled, Ours
    <3>4. QED
      BY <3>2, <3>3
  <2>5. LinkDone(p)'
    BY <1>1, <2>3, <2>4 DEF LinkDone
  <2>6. ASSUME cmd[p].platform = Host,
               \A i \in DOMAIN config : Host \in config[i].platforms,
               \A i \in DOMAIN plan[p] :
                  /\ plan[p][i].act # "conflict"
                  /\ plan[p][i].act = "keep" => PlainTemplate(plan[p][i].dst)'
        PROVE  is_all_green'
    <3>1. PlanOfConfig(p) /\ CopiesInPlace(p) /\ \A i \in DOMAIN plan[p] : i < next[p]
      BY <1>1, <2>1 DEF Executes, MemOnCourse
    <3>2. check_krypt_config' = "ok"
      BY <1>1, <3>1 DEF check_krypt_config, Check, PlanOfConfig
    <3>3. check_link_sources' = "ok"
      <4>1. ASSUME NEW i \in DOMAIN config, config[i].kind = "link", ~config[i].glob
            PROVE  repo[config[i].src] # Absent
        <5>1. i \in DOMAIN plan[p] /\ plan[p][i].act \notin {"omit", "keep", "conflict"}
          BY <2>6, <3>1, <4>1 DEF PlanOfConfig
        <5>2. plan[p][i].act = "copy"
          BY <1>1, <5>1, PlanEntryType DEF PlanAction, Act
        <5>3. QED
          BY <3>1, <4>1, <5>1, <5>2 DEF PlanOfConfig, CopiesInPlace
      <4>2. QED
        BY <1>1, <3>1, <4>1 DEF check_link_sources, Check, PlanOfConfig
    <3>4. check_link_destinations' = "ok"
      <4>1. ASSUME NEW d \in Dst, manifest'[d] # NoEntry
            PROVE  \/ disk[d] = manifest'[d].hash /\ disk[d] # Absent
                   \/ disk[d] \notin {Absent, Unreadable} /\ manifest'[d].kind = "template"
        <5>1. CASE written[p][d] # NoEntry
          <6>1. manifest'[d] \in Entry
            BY <2>2, <4>1 DEF ManifestType
          <6>2. QED
            BY <1>1, <2>2, <3>1, <5>1, <6>1, SentinelAssumption DEF CopiesInPlace, Entry
        <5>2. CASE written[p][d] = NoEntry
          <6>1. PICK i \in DOMAIN plan[p] : plan[p][i].dst = d /\ plan[p][i].act # "omit"
            BY <2>3, <2>6, <4>1 DEF For
          <6>2. plan[p][i].act = "keep"
            BY <1>1, <2>6, <3>1, <5>2, <6>1, PlanEntryType DEF CopiesInPlace, PlanAction, Act
          <6>3. disk[d] # Absent
            BY <3>1, <6>1, <6>2 DEF CopiesInPlace
          <6>4. disk[d] # Unreadable /\ manifest'[d].kind = "template"
            BY <1>1, <2>6, <4>1, <6>1, <6>2 DEF PlainTemplate
          <6>5. QED
            BY <6>3, <6>4
        <5>3. QED
          BY <5>1, <5>2
      <4>2. Drifted' = {} /\ WithStatus(manifest, disk, "missing")' = {}
        BY <1>1, <4>1 DEF Drifted, WithStatus, Status, IsLocalEdit
      <4>3. QED
        BY <4>2 DEF check_link_destinations, Check
    <3>5. QED
      BY <3>2, <3>3, <3>4 DEF is_all_green
  <2>7. GreenDone(p)'
    BY <1>1, <2>6 DEF GreenDone
  <2>8. QED
    BY <1>1, <2>5, <2>7 DEF CommandGoal, UnlinkOnCourse, UnlinkDone, LinkOnCourse, PlanFresh,
       GreenOnCourse
<1>4. QED
  BY <1>2, <1>3

LEMMA StepGoal ==
    ASSUME NEW p \in Proc, OnCourse(p), Step(p) \/ Exit(p)
    PROVE  CommandGoal(p)'
<1>1. CASE Exit(p)
  BY <1>1, RestGoal, ExitFrame DEF OnCourse, TypeInv, TypeOK
<1>2. (\E d \in Dst : RemoveFails(p, d)) \/ ConfigFails(p) \/ SourceMissing(p) \/ Return(p)
        => Exit(p)
  BY DEF RemoveFails, ConfigFails, SourceMissing, Return
<1>3. QED
  BY <1>1, <1>2, LoadGoal, SaveUnlinkedGoal, RemoveFileGoal, MakePlanGoal, LoadAndNarrowGoal,
     PassOverGoal, CopyFileGoal, HashCopyGoal, PruneGoal, SaveLinkedGoal DEF Step

(***************************************************************************)
(* What an undisturbed adopt keeps to, step by step                        *)
(***************************************************************************)
LEMMA RestAdoptGoal ==
    ASSUME NEW q \in Adopter, apc'[q] \in {"idle", "load"}, AdoptMemory(q)'
    PROVE  AdoptGoal(q)'
  BY DEF AdoptGoal, AdoptOnCourse, DriftLeft, ImportOnCourse, ImportsFresh, AdoptMemory

AdoptsOnCourse(q) ==
    TypeInv /\ TypeInv' /\ AdoptMemory(q) /\ AdoptMemory(q)' /\ AdoptGoal(q)

LEMMA AdoptStepGoal ==
    ASSUME NEW q \in Adopter, AdoptsOnCourse(q), AdoptStep(q) \/ AdoptExit(q)
    PROVE  AdoptGoal(q)'
<1>1. AdoptTypeOK /\ StoreTypeOK
  BY DEF AdoptsOnCourse, TypeInv, TypeOK
<1>2. CASE AdoptExit(q)
  BY <1>1, <1>2, RestAdoptGoal, AdoptExitFrame DEF AdoptsOnCourse
<1>3. CASE LoadEdits(q)
  <2>1. /\ apc'[q] = "edits" /\ amem'[q] = manifest /\ UNCHANGED <<storeVars, acmd, updated>>
        /\ updated[q] = EmptyManifest
        /\ edited'[q] = IF acmd[q].dry THEN {} ELSE Adoptable(manifest, acmd[q].only)
    BY <1>1, <1>3 DEF LoadEdits, AAt, AGoto, AdoptsOnCourse, AdoptMemory, AdoptTypeOK
  <2>2. AdoptOnCourse(q)'
    BY <2>1 DEF AdoptOnCourse, Adoptable, WithStatus, EmptyManifest, storeVars
  <2>3. ImportsFresh(q)'
    <3>1. /\ imports'[q] = {d \in acmd[q].only : manifest[d] = NoEntry}
          /\ imports'[q] \subseteq Dst
      BY <1>1, <1>3 DEF LoadEdits, AdoptTypeOK, AdoptsOnCourse, TypeInv, TypeOK
    <3>2. current'[q] \cap imports'[q] = {}
      BY <2>1 DEF AdoptsOnCourse, AdoptMemory
    <3>3. QED
      BY <2>1, <3>1, <3>2 DEF ImportsFresh, EmptyManifest, storeVars
  <2>4. QED
    BY <2>1, <2>2, <2>3 DEF AdoptGoal, DriftLeft, ImportOnCourse
<1>4. CASE SaveEdits(q)
  <2>1. /\ apc[q] = "edits" /\ apc'[q] = "import" /\ UNCHANGED <<disk, acmd, updated>>
        /\ AdoptOnCourse(q) /\ edited[q] = {}
    BY <1>1, <1>4 DEF SaveEdits, AAt, AGoto, AdoptsOnCourse, AdoptGoal, AdoptTypeOK
  <2>2. ASSUME ~acmd[q].dry, NEW d \in WithStatus(manifest', disk, "drifted")
        PROVE  /\ d \notin acmd[q].only
               /\ acmd[q].only = {} => manifest'[d].kind = "template"
    <3>1. d \in Dst /\ manifest'[d] # NoEntry /\ Status(manifest'[d], disk[d]) = "drifted"
      BY <2>2 DEF WithStatus
    <3>2. manifest'[d] = IF updated[q][d] = NoEntry THEN manifest[d] ELSE updated[q][d]
      BY <1>4, <2>1, <2>2, <3>1 DEF SaveEdits, RecordAll, AdoptOnCourse
    <3>3. updated[q][d] = NoEntry
      BY <2>1, <3>1, <3>2 DEF AdoptOnCourse, Status
    <3>4. d \notin Adoptable(manifest, acmd[q].only)
      BY <2>1, <2>2, <3>1, <3>3 DEF AdoptOnCourse
    <3>5. QED
      BY <3>1, <3>2, <3>3, <3>4 DEF Adoptable, WithStatus
  <2>3. DriftLeft(q)'
    BY <2>1, <2>2 DEF DriftLeft
  <2>4. ImportsFresh(q)'
    <3>1. UNCHANGED <<imports, updated, current>>
      BY <1>4 DEF SaveEdits
    <3>2. \A d \in imports[q] : manifest'[d] = NoEntry
      BY <1>1, <1>4, <2>1
         DEF SaveEdits, RecordAll, AdoptOnCourse, AdoptsOnCourse, AdoptGoal, ImportsFresh, AdoptTypeOK
    <3>3. QED
      BY <3>1, <3>2 DEF AdoptsOnCourse, AdoptGoal, ImportsFresh
  <2>5. QED
    BY <2>1, <2>3, <2>4 DEF AdoptGoal, AdoptOnCourse, ImportOnCourse
<1>5. ASSUME NEW d \in Dst, CopyEdit(q, d) PROVE AdoptGoal(q)'
  <2>1. /\ apc[q] = "edits" /\ UNCHANGED <<apc, acmd, amem, manifest, disk>> /\ AdoptOnCourse(q)
        /\ edited'[q] = edited[q] \ {d} /\ disk[d] \in Content
    BY <1>1, <1>5 DEF CopyEdit, Saved, AAt, AdoptsOnCourse, AdoptGoal, AdoptTypeOK
  <2>2. amem[q][d] \in Entry
    BY <1>1, <1>5 DEF CopyEdit, AdoptsOnCourse, TypeInv, EditsRecorded, AdoptTypeOK, ManifestType
  <2>3. /\ updated'[q][d] = [amem[q][d] EXCEPT !.hash = disk[d]]
        /\ \A e \in Dst \ {d} : updated'[q][e] = updated[q][e]
    BY <1>1, <1>5 DEF CopyEdit, AdoptTypeOK, ManifestType
  <2>4. updated'[q][d] # NoEntry /\ updated'[q][d].hash = disk[d]
    BY <2>1, <2>2, <2>3, SentinelAssumption DEF Entry
  <2>5. AdoptOnCourse(q)'
    BY <2>1, <2>3, <2>4 DEF AdoptOnCourse, Adoptable, WithStatus
  <2>6. ImportsFresh(q)'
    <3>1. UNCHANGED <<imports, current, manifest>> /\ d \notin imports[q] /\ imports[q] \subseteq Dst
      BY <1>1, <1>5, <2>1 DEF CopyEdit, AdoptOnCourse, AdoptsOnCourse, AdoptGoal, ImportsFresh, AdoptTypeOK
    <3>2. QED
      BY <2>3, <3>1 DEF AdoptsOnCourse, AdoptGoal, ImportsFresh
  <2>7. QED
    BY <2>1, <2>5, <2>6 DEF AdoptGoal, DriftLeft, ImportOnCourse
<1>6. ASSUME NEW d \in Dst, SkipImport(q, d) PROVE AdoptGoal(q)'
  <2>1. ImportsFresh(q)'
    BY <1>1, <1>6 DEF SkipImport, storeVars, AdoptsOnCourse, AdoptGoal, ImportsFresh, AdoptTypeOK
  <2>2. QED
    BY <1>6, <2>1 DEF SkipImport, AAt, storeVars, AdoptsOnCourse, AdoptGoal, AdoptOnCourse, DriftLeft,
       ImportOnCourse
<1>7. ASSUME NEW d \in Dst, CopyImport(q, d) PROVE AdoptGoal(q)'
  <2>1. /\ apc[q] = "import" /\ apc'[q] = "record" /\ UNCHANGED <<acmd, manifest, disk>>
        /\ current'[q] = {d} /\ DriftLeft(q)
    BY <1>1, <1>7 DEF CopyImport, Saved, AAt, AGoto, AdoptsOnCourse, AdoptGoal, AdoptTypeOK
  <2>2. ImportSrc(q, d) \in Src
    BY <1>7, <2>1, AdoptAssumption
       DEF CopyImport, Importable, ImportSrc, AdoptsOnCourse, TypeInv, TypeOK, AdoptTypeOK, Adoption
  <2>3. repo'[ImportSrc(q, d)] = disk[d]
    BY <1>1, <1>7, <2>2 DEF CopyImport, Saved, StoreTypeOK
  <2>4. ImportOnCourse(q)'
    BY <2>1, <2>3 DEF ImportOnCourse, ImportSrc
  <2>5. DriftLeft(q)'
    BY <2>1 DEF DriftLeft
  <2>6. ImportsFresh(q)'
    BY <1>1, <1>7, <2>1 DEF CopyImport, AdoptsOnCourse, AdoptGoal, ImportsFresh, AdoptTypeOK
  <2>7. QED
    BY <2>1, <2>4, <2>5, <2>6 DEF AdoptGoal, AdoptOnCourse
<1>8. ASSUME NEW d \in Dst, RecordImport(q, d) PROVE AdoptGoal(q)'
  <2>1. /\ apc[q] = "record" /\ apc'[q] = "import" /\ UNCHANGED <<acmd, disk>>
        /\ DriftLeft(q) /\ repo[ImportSrc(q, d)] = disk[d]
    BY <1>1, <1>8 DEF RecordImport, AAt, AGoto, AdoptsOnCourse, AdoptGoal, ImportOnCourse, AdoptTypeOK
  <2>2. /\ \A e \in Dst \ {d} : manifest'[e] = manifest[e]
        /\ manifest'[d] = manifest[d] \/ manifest'[d].hash = disk[d]
    BY <1>1, <1>8, <2>1 DEF RecordImport, StoreTypeOK, ManifestType
  <2>3. DriftLeft(q)'
    BY <2>1, <2>2 DEF DriftLeft, WithStatus, Status
  <2>4. ImportsFresh(q)'
    <3>1. /\ UNCHANGED <<imports, updated>> /\ imports[q] \subseteq Dst /\ d \notin imports[q]
          /\ current'[q] = {}
      BY <1>1, <1>8 DEF RecordImport, AdoptsOnCourse, AdoptGoal, ImportsFresh, AdoptTypeOK
    <3>2. \A e \in imports[q] : manifest'[e] = manifest[e]
      BY <2>2, <3>1
    <3>3. QED
      BY <3>1, <3>2 DEF AdoptsOnCourse, AdoptGoal, ImportsFresh
  <2>5. QED
    BY <2>1, <2>3, <2>4 DEF AdoptGoal, AdoptOnCourse, ImportOnCourse
<1>9. (\E d \in Dst : CopyEditFails(q, d)) \/ AdoptReturn(q) => AdoptExit(q)
  BY DEF CopyEditFails, AdoptReturn
<1>10. QED
  BY <1>2, <1>3, <1>4, <1>5, <1>6, <1>7, <1>8, <1>9 DEF AdoptStep

(***************************************************************************)
(* GoalInv is inductive, whoever races with whom                           *)
(***************************************************************************)
LEMMA InitGoal == Init => GoalInv
  BY InitMemory DEF Init, DeployInit, AdoptInit, GoalInv, CommandGoal, UnlinkOnCourse, UnlinkDone,
     LinkOnCourse, PlanFresh, LinkDone, GreenOnCourse, GreenDone, AdoptGoal, AdoptOnCourse,
     DriftLeft, ImportOnCourse, ImportsFresh

\* Whoever is beside a step is disturbed, or not running.
LEMMA BesideRests ==
    ASSUME TypeInv, NEW D, Beside(D)
    PROVE  /\ \A p \in Proc \ disturbed' : p \in D \/ pc[p] = "idle"
           /\ \A q \in Adopter \ disturbed' : q \in D \/ apc[q] = "idle"
           /\ disturbed \subseteq disturbed'
  BY DEF Beside, Running

LEMMA NextGoal == GoalInv /\ [Next]_vars => GoalInv'
<1>. SUFFICES ASSUME GoalInv, [Next]_vars PROVE GoalInv'
  OBVIOUS
<1>1. MemoryInv /\ MemoryInv' /\ TypeInv /\ TypeInv'
  BY NextMemory DEF GoalInv, MemoryInv
<1>2. CASE UserStep /\ UNCHANGED <<deployVars, adoptVars>>
  <2>1. Beside({}) /\ UNCHANGED <<pc, apc>>
    BY <1>2 DEF UserStep, deployVars, adoptVars
  <2>2. /\ \A p \in Proc \ disturbed' : pc'[p] = "idle"
        /\ \A q \in Adopter \ disturbed' : apc'[q] = "idle"
    BY <1>1, <2>1, BesideRests
  <2>3. QED
    BY <1>1, <2>2, RestGoal, RestAdoptGoal DEF GoalInv, MemoryInv
<1>3. ASSUME NEW p \in Proc, StartCommand(p) \/ Run(p) \/ Stop(p),
             \A r \in Proc \ {p} : SameCommand(r), UNCHANGED adoptVars
      PROVE  GoalInv'
  <2>1. p \notin Adopter
    BY KryptAssumption
  <2>2. /\ \A r \in Proc \ disturbed' : r = p \/ pc[r] = "idle"
        /\ \A q \in Adopter \ disturbed' : apc[q] = "idle"
    <3>1. CASE StartCommand(p)
      BY <2>1, <3>1 DEF StartCommand, Quiet, Running
    <3>2. CASE Run(p) \/ Stop(p)
      BY <1>1, <2>1, <3>2, BesideRests DEF Run, Stop
    <3>3. QED
      BY <1>3, <3>1, <3>2
  <2>3. ASSUME p \notin disturbed' PROVE CommandGoal(p)'
    <3>1. CASE StartCommand(p)
      <4>1. pc'[p] \in {"load", "plan"}
        BY <1>1, <3>1 DEF StartCommand, Start, Goto, TypeInv, TypeOK, DeployTypeOK
      <4>2. QED
        BY <4>1, RestGoal
    <3>2. CASE Run(p) \/ Stop(p)
      <4>1. p \notin disturbed /\ (Step(p) \/ Exit(p))
        BY <1>1, <2>3, <3>2, BesideRests DEF Run, Stop, Abort
      <4>2. OnCourse(p)
        BY <1>1, <4>1 DEF OnCourse, GoalInv, MemoryInv
      <4>3. QED
        BY <4>1, <4>2, StepGoal
    <3>3. QED
      BY <1>3, <3>1, <3>2
  <2>4. \A r \in Proc \ disturbed' : CommandGoal(r)'
    BY <1>3, <2>2, <2>3, RestGoal DEF SameCommand
  <2>5. \A q \in Adopter \ disturbed' : AdoptGoal(q)'
    BY <1>1, <1>3, <2>2, RestAdoptGoal DEF adoptVars, MemoryInv
  <2>6. QED
    BY <1>1, <2>4, <2>5 DEF GoalInv
<1>4. ASSUME NEW q \in Adopter, StartAdoption(q) \/ RunAdopt(q) \/ StopAdopt(q),
             \A r \in Adopter \ {q} : SameAdoption(r), UNCHANGED deployVars
      PROVE  GoalInv'
  <2>1. q \notin Proc
    BY KryptAssumption
  <2>2. /\ \A r \in Adopter \ disturbed' : r = q \/ apc[r] = "idle"
        /\ \A p \in Proc \ disturbed' : pc[p] = "idle"
    <3>1. CASE StartAdoption(q)
      BY <2>1, <3>1 DEF StartAdoption, Quiet, Running
    <3>2. CASE RunAdopt(q) \/ StopAdopt(q)
      BY <1>1, <2>1, <3>2, BesideRests DEF RunAdopt, StopAdopt
    <3>3. QED
      BY <1>4, <3>1, <3>2
  <2>3. ASSUME q \notin disturbed' PROVE AdoptGoal(q)'
    <3>1. CASE StartAdoption(q)
      <4>1. apc'[q] = "load"
        BY <1>1, <3>1 DEF StartAdoption, StartAdopt, AGoto, TypeInv, TypeOK, AdoptTypeOK
      <4>2. QED
        BY <1>1, <4>1, RestAdoptGoal DEF MemoryInv
    <3>2. CASE RunAdopt(q) \/ StopAdopt(q)
      <4>1. q \notin disturbed /\ (AdoptStep(q) \/ AdoptExit(q))
        BY <1>1, <2>3, <3>2, BesideRests DEF RunAdopt, StopAdopt, AdoptAbort
      <4>2. AdoptsOnCourse(q)
        BY <1>1, <4>1 DEF AdoptsOnCourse, GoalInv, MemoryInv
      <4>3. QED
        BY <4>1, <4>2, AdoptStepGoal
    <3>3. QED
      BY <1>4, <3>1, <3>2
  <2>4. \A r \in Adopter \ disturbed' : AdoptGoal(r)'
    BY <1>1, <1>4, <2>2, <2>3, RestAdoptGoal DEF SameAdoption, MemoryInv
  <2>5. \A p \in Proc \ disturbed' : CommandGoal(p)'
    BY <1>4, <2>2, RestGoal DEF deployVars
  <2>6. QED
    BY <1>1, <2>4, <2>5 DEF GoalInv
<1>5. CASE UNCHANGED vars
  <2>1. ASSUME NEW p \in Proc, CommandGoal(p) PROVE CommandGoal(p)'
    <3>1. UNCHANGED <<disk, repo, config, manifest, pc, cmd, plan, mem, next, written, doomed>>
      BY <1>5 DEF vars, storeVars, deployVars
    <3>2. (UnlinkOnCourse(p) /\ UnlinkDone(p))'
      BY <2>1, <3>1 DEF CommandGoal, UnlinkOnCourse, UnlinkDone, LeftDrifted
    <3>3. LinkOnCourse(p)'
      BY <2>1, <3>1 DEF CommandGoal, LinkOnCourse, PlanFresh, LeftAlone, CopiedSoFar,
         WrittenPlanned, HashOnCourse, MemOnCourse, Sole, Current, Ours
    <3>4. LinkDone(p)'
      BY <2>1, <3>1 DEF CommandGoal, LinkDone, Settled, Ours
    <3>5. GreenOnCourse(p)'
      BY <2>1, <3>1 DEF CommandGoal, GreenOnCourse, PlanOfConfig, CopiesInPlace, Current
    <3>6. is_all_green' = is_all_green
      BY <3>1 DEF is_all_green, check_krypt_config, check_link_sources, check_link_destinations,
         Check, Drifted
    <3>7. GreenDone(p)'
      BY <2>1, <3>1, <3>6 DEF CommandGoal, GreenDone, PlainTemplate
    <3>8. QED
      BY <3>2, <3>3, <3>4, <3>5, <3>7 DEF CommandGoal
  <2>2. ASSUME NEW q \in Adopter, AdoptGoal(q) PROVE AdoptGoal(q)'
    BY <1>5, <2>2 DEF vars, storeVars, deployVars, adoptVars, AdoptGoal, AdoptOnCourse, DriftLeft,
       Adoptable, ImportOnCourse, ImportSrc, ImportsFresh
  <2>3. disturbed' = disturbed
    BY <1>5 DEF vars
  <2>4. QED
    BY <1>1, <2>1, <2>2, <2>3 DEF GoalInv
<1>6. QED
  BY <1>1, <1>2, <1>3, <1>4, <1>5, NextFrame

LEMMA SpecGoal == Spec => []GoalInv
  BY InitGoal, NextGoal, PTL DEF Spec

(***************************************************************************)
(* What the invariant gives                                                *)
(***************************************************************************)

\* A link that succeeds with nobody beside it leaves every destination it
\* planned once settled, and no entry it did not plan, whatever came before.
THEOREM LinkSettles == Spec => []LinkConverges
<1>1. GoalInv => LinkConverges
  BY DEF GoalInv, CommandGoal, LinkDone, LinkConverges
<1>2. QED
  BY SpecGoal, <1>1, PTL

\* An unlink that succeeds with nobody beside it keeps in the manifest only
\* what is drifted, and with --force only edited templates.
THEOREM UnlinkSettles == Spec => []UnlinkClears
<1>1. GoalInv => UnlinkClears
  BY DEF GoalInv, CommandGoal, UnlinkDone, LeftDrifted, UnlinkClears
<1>2. QED
  BY SpecGoal, <1>1, PTL

\* An adopt with nobody beside it leaves no drift it was to settle, from the
\* time it saves until it ends.
THEOREM AdoptSettles == Spec => []AdoptSettlesDrift
<1>1. GoalInv => AdoptSettlesDrift
  BY DEF GoalInv, AdoptGoal, DriftLeft, AdoptSettlesDrift
<1>2. QED
  BY SpecGoal, <1>1, PTL

\* krypt doctor is all green after a link with nobody beside it that
\* reported no conflict and kept plain templates only.
THEOREM GreenAfterLink == Spec => []LinkLeavesGreen
<1>1. GoalInv => LinkLeavesGreen
  BY DEF GoalInv, CommandGoal, GreenDone, LinkLeavesGreen
<1>2. QED
  BY SpecGoal, <1>1, PTL

\* Only adopt changes a source; and it writes the bytes of a destination it
\* has a drifted entry for, or of one it imports where there was none.
LEMMA SourceChangedBy ==
    ASSUME GoalInv, AloneInv, [Next]_vars, NEW s \in Src, repo'[s] # repo[s], edits' = edits
    PROVE  \E d \in Dst :
             /\ repo'[s] = disk[d]
             /\ \/ /\ manifest[d] # NoEntry /\ manifest[d].src = s
                   /\ Status(manifest[d], disk[d]) = "drifted"
                \/ \E q \in Adopter :
                      /\ d \in acmd[q].only /\ manifest[d] = NoEntry
                      /\ ImportSrc(q, d) = s
                      /\ repo[s] = Absent \/ acmd[q].force
<1>1. TypeInv /\ StoreTypeOK /\ AdoptTypeOK /\ edits \in Nat /\ repo' # repo
  BY DEF GoalInv, MemoryInv, TypeInv, TypeOK, StoreTypeOK
<1>2. ~UserStep
  <2>1. ~Edit
    BY <1>1 DEF Edit
  <2>2. QED
    BY <2>1 DEF UserStep, User, EditDst, EditSrc, EditConfig
<1>3. ASSUME NEW p \in Proc, StartCommand(p) \/ Run(p) \/ Stop(p) PROVE FALSE
  BY <1>1, <1>3 DEF StartCommand, Start, Run, Stop, Abort, Step, Load, SaveUnlinked, RemoveFile,
     RemoveFails, ConfigFails, MakePlan, LoadAndNarrow, PassOver, SourceMissing, CopyFile, HashCopy,
     Prune, SaveLinked, Return, Exit, storeVars
<1>4. PICK q \in Adopter : StartAdoption(q) \/ RunAdopt(q) \/ StopAdopt(q)
  BY <1>1, <1>2, <1>3 DEF Next, vars, storeVars
<1>5. PICK d \in Dst : CopyEdit(q, d) \/ CopyImport(q, d)
  BY <1>1, <1>4 DEF StartAdoption, StartAdopt, RunAdopt, StopAdopt, AdoptAbort, AdoptStep, LoadEdits,
     SaveEdits, AdoptReturn, CopyEditFails, SkipImport, RecordImport, AdoptExit, storeVars
<1>6. CASE CopyEdit(q, d)
  <2>1. AdoptOnCourse(q)
    BY DEF GoalInv, AloneInv, AdoptGoal
  <2>2. /\ manifest[d] # NoEntry /\ Status(manifest[d], disk[d]) = "drifted"
        /\ repo' = [repo EXCEPT ![manifest[d].src] = disk[d]]
    BY <1>6, <2>1 DEF CopyEdit, Saved, AAt, AdoptOnCourse
  <2>3. manifest[d].src = s /\ repo'[s] = disk[d]
    BY <1>1, <2>2 DEF StoreTypeOK
  <2>4. QED
    BY <2>2, <2>3
<1>7. CASE CopyImport(q, d)
  <2>1. repo' = [repo EXCEPT ![ImportSrc(q, d)] = disk[d]]
    BY <1>7 DEF CopyImport, Saved
  <2>2. ImportSrc(q, d) = s /\ repo'[s] = disk[d]
    BY <1>1, <2>1 DEF StoreTypeOK
  <2>3. d \in acmd[q].only /\ manifest[d] = NoEntry
    BY <1>7 DEF CopyImport, GoalInv, MemoryInv, AdoptMemory, AloneInv, AdoptGoal, ImportsFresh
  <2>4. QED
    BY <1>7, <2>2, <2>3 DEF CopyImport, Importable
<1>8. QED
  BY <1>5, <1>6, <1>7

\* With one command at a time, what krypt writes over a source of the repo is
\* an edit to a file deployed from it, or a file imported under its name, which
\* was free or --force was given.
THEOREM SourcesSurvive ==
    ASSUME Racing = FALSE
    PROVE  Spec => SourcesKept
<1>1. GoalInv /\ AloneInv /\ [Next]_vars => GoalInv' /\ AloneInv'
  BY NextGoal, NextAlone DEF GoalInv, MemoryInv
<1>2. GoalInv /\ AloneInv /\ [Next]_vars =>
        [\A s \in Src : repo'[s] # repo[s] /\ edits' = edits =>
          \E d \in Dst :
             /\ repo'[s] = disk[d]
             /\ \/ /\ manifest[d] # NoEntry /\ manifest[d].src = s
                   /\ Status(manifest[d], disk[d]) = "drifted"
                \/ \E q \in Adopter :
                      /\ d \in acmd[q].only /\ manifest[d] = NoEntry
                      /\ ImportSrc(q, d) = s
                      /\ repo[s] = Absent \/ acmd[q].force]_vars
  BY SourceChangedBy
<1>3. QED
  BY InitGoal, InitAlone, <1>1, <1>2, PTL DEF Spec, SourcesKept
=============================================================================
