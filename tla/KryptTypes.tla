---------------------------- MODULE KryptTypes ------------------------------
(***************************************************************************)
(* Type correctness of Krypt, for every value of its constants.            *)
(***************************************************************************)
EXTENDS KryptInv, TLAPS

\* Planning a config yields one action per entry.
LEMMA PlanType ==
    ASSUME NEW c \in Configs, NEW pf, NEW r, NEW t, NEW k
    PROVE  /\ Plan(c, pf, r, t, k) \in Seq(PlanAction)
           /\ DOMAIN Plan(c, pf, r, t, k) = DOMAIN c
<1>1. c \in Seq(ConfigEntry)
  BY ConfigAssumption
<1>2. \A i \in DOMAIN c : c[i] \in ConfigEntry
  BY <1>1
<1>3. \A i \in DOMAIN c :
        [src |-> c[i].src, dst |-> c[i].dst, kind |-> c[i].kind,
         act |-> IF Selected(c[i], pf, r, t) THEN BuildAction(c[i], k) ELSE "omit"]
           \in PlanAction
  BY <1>2 DEF ConfigEntry, PlanAction, Act, BuildAction
<1>4. QED
  BY <1>1, <1>3 DEF Plan

\* Narrowing keeps a plan a plan and changes only what its actions do.
LEMMA NarrowType ==
    ASSUME NEW pl \in Seq(PlanAction), NEW m, NEW r, NEW k, NEW f
    PROVE  /\ Narrow(pl, m, r, k, f) \in Seq(PlanAction)
           /\ DOMAIN Narrow(pl, m, r, k, f) = DOMAIN pl
<1>1. \A i \in DOMAIN pl : pl[i] \in PlanAction
  OBVIOUS
<1>2. \A i \in DOMAIN pl : Narrowed(pl[i], m, r, k, f) \in Act
  BY <1>1 DEF Narrowed, PlanAction, Act
<1>3. \A i \in DOMAIN pl :
        [pl[i] EXCEPT !.act = Narrowed(pl[i], m, r, k, f)] \in PlanAction
  BY <1>1, <1>2 DEF PlanAction
<1>4. QED
  BY <1>3 DEF Narrow

\* Recording and forgetting keep a manifest a manifest.
LEMMA ManifestOps ==
    ASSUME NEW m \in ManifestType, NEW n \in ManifestType, NEW D
    PROVE  /\ RecordAll(m, n) \in ManifestType
           /\ ForgetAll(m, D) \in ManifestType
           /\ EmptyManifest \in ManifestType
  BY DEF RecordAll, ForgetAll, EmptyManifest, ManifestType

LEMMA EmptyTypes ==
    /\ NoCommand \in Command
    /\ << >> \in Seq(PlanAction)
    /\ EmptyManifest \in ManifestType
    /\ NoAdoption \in Adoption
<1>1. NoCommand \in Command
  BY HostAssumption DEF NoCommand, Command, Op
<1>2. EmptyManifest \in ManifestType
  BY DEF EmptyManifest, ManifestType
<1>3. NoAdoption \in Adoption
  BY DEF NoAdoption, Adoption
<1>4. QED
  BY <1>1, <1>2, <1>3

\* The part of TypeInv a deploy command can disturb.
DeployInv == StoreTypeOK /\ DeployTypeOK /\ HashesPlanned

LEMMA ExitType ==
    ASSUME DeployInv, NEW p \in Proc, Exit(p)
    PROVE  DeployInv'
<1>1. StoreTypeOK'
  BY DEF DeployInv, StoreTypeOK, Exit, storeVars
<1>2. DeployTypeOK'
  BY EmptyTypes DEF DeployInv, DeployTypeOK, Exit, Goto, PC
<1>3. HashesPlanned'
  BY DEF DeployInv, DeployTypeOK, HashesPlanned, Exit, Goto
<1>4. QED
  BY <1>1, <1>2, <1>3 DEF DeployInv

LEMMA PlanEntryType ==
    ASSUME DeployTypeOK, NEW p \in Proc, NEW i \in DOMAIN plan[p]
    PROVE  /\ plan[p][i] \in PlanAction
           /\ plan[p][i].src \in Src
           /\ plan[p][i].dst \in Dst
           /\ plan[p][i].kind \in Kind
<1>1. plan[p][i] \in PlanAction
  BY DEF DeployTypeOK
<1>2. QED
  BY <1>1 DEF PlanAction

LEMMA CurrentType ==
    ASSUME DeployTypeOK, NEW p \in Proc, next[p] \in DOMAIN plan[p]
    PROVE  /\ Current(p).src \in Src
           /\ Current(p).dst \in Dst
           /\ Current(p).kind \in Kind
  BY PlanEntryType DEF Current

LEMMA StepType ==
    ASSUME DeployInv, NEW p \in Proc, Step(p)
    PROVE  DeployInv'
<1>. USE DEF DeployInv
<1>1. CASE Load(p)
  <2>1. ForgetAll(manifest, Deletable(manifest, cmd[p].force) \cup WithStatus(manifest, disk, "missing"))
          \in ManifestType
    BY ManifestOps DEF StoreTypeOK
  <2>2. Deletable(manifest, cmd[p].force) \subseteq Dst
    BY DEF Deletable, WithStatus
  <2>3. QED
    BY <1>1, <2>1, <2>2 DEF Load, At, Goto, StoreTypeOK, DeployTypeOK, HashesPlanned, storeVars, PC
<1>2. CASE SaveUnlinked(p)
  BY <1>2 DEF SaveUnlinked, At, Goto, StoreTypeOK, DeployTypeOK, HashesPlanned, PC
<1>3. CASE \E d \in Dst : RemoveFile(p, d)
  BY <1>3 DEF RemoveFile, StoreTypeOK, DeployTypeOK, HashesPlanned, File
<1>4. CASE \E d \in Dst : RemoveFails(p, d)
  BY <1>4, ExitType DEF RemoveFails
<1>5. CASE ConfigFails(p)
  BY <1>5, ExitType DEF ConfigFails
<1>6. CASE MakePlan(p)
  <2>1. Plan(config, cmd[p].platform, repo, tracked, disk) \in Seq(PlanAction)
    BY <1>6, PlanType DEF MakePlan, StoreTypeOK
  <2>2. QED
    BY <1>6, <2>1 DEF MakePlan, At, Goto, StoreTypeOK, DeployTypeOK, HashesPlanned, storeVars, PC
<1>7. CASE LoadAndNarrow(p)
  <2>1. Narrow(plan[p], manifest, repo, disk, cmd[p].force) \in Seq(PlanAction)
    BY NarrowType DEF DeployTypeOK
  <2>2. QED
    BY <1>7, <2>1 DEF LoadAndNarrow, At, Goto, StoreTypeOK, DeployTypeOK, HashesPlanned, storeVars, PC
<1>8. CASE PassOver(p)
  BY <1>8 DEF PassOver, Executing, At, Advance, StoreTypeOK, DeployTypeOK, HashesPlanned, storeVars
<1>9. CASE SourceMissing(p)
  BY <1>9, ExitType DEF SourceMissing
<1>10. CASE CopyFile(p)
  <2>1. Current(p).dst \in Dst /\ repo[Current(p).src] \in Content
    BY <1>10, CurrentType DEF CopyFile, Executing, StoreTypeOK, RepoFile
  <2>2. StoreTypeOK'
    BY <1>10, <2>1 DEF CopyFile, StoreTypeOK, File
  <2>3. DeployTypeOK' /\ HashesPlanned'
    BY <1>10 DEF CopyFile, Executing, Goto, DeployTypeOK, HashesPlanned, PC
  <2>4. QED
    BY <2>2, <2>3
<1>11. CASE HashCopy(p)
  <2>1. Current(p).src \in Src /\ Current(p).dst \in Dst /\ Current(p).kind \in Kind
    BY <1>11, CurrentType DEF HashCopy, At, HashesPlanned
  <2>2. written' \in [Proc -> ManifestType]
    <3>1. CASE disk[Current(p).dst] \in Content
      <4>1. [src |-> Current(p).src, kind |-> Current(p).kind, hash |-> disk[Current(p).dst]] \in Entry
        BY <3>1, <2>1 DEF Entry
      <4>2. QED
        BY <1>11, <3>1, <4>1, <2>1 DEF HashCopy, DeployTypeOK, ManifestType
    <3>2. CASE disk[Current(p).dst] \notin Content
      BY <1>11, <3>2 DEF HashCopy, DeployTypeOK
    <3>3. QED
      BY <3>1, <3>2
  <2>3. QED
    BY <1>11, <2>2 DEF HashCopy, Advance, At, Goto, StoreTypeOK, DeployTypeOK, HashesPlanned, storeVars, PC
<1>12. CASE Prune(p)
  <2>1. ForgetAll(mem[p], Stale(mem[p], plan[p])) \in ManifestType
    BY ManifestOps DEF DeployTypeOK
  <2>2. Prunable(mem[p], plan[p]) \subseteq Dst
    BY DEF Prunable, Stale
  <2>3. QED
    BY <1>12, <2>1, <2>2 DEF Prune, At, Goto, StoreTypeOK, DeployTypeOK, HashesPlanned, storeVars, PC
<1>13. CASE SaveLinked(p)
  <2>1. RecordAll(mem[p], written[p]) \in ManifestType
    BY ManifestOps DEF DeployTypeOK
  <2>2. QED
    BY <1>13, <2>1 DEF SaveLinked, At, Goto, StoreTypeOK, DeployTypeOK, HashesPlanned, PC
<1>14. CASE Return(p)
  BY <1>14, ExitType DEF Return
<1>15. QED
  BY <1>1, <1>2, <1>3, <1>4, <1>5, <1>6, <1>7, <1>8, <1>9, <1>10, <1>11, <1>12, <1>13, <1>14 DEF Step

\* The part of TypeInv an adopt can disturb.
AdoptInv == StoreTypeOK /\ AdoptTypeOK /\ EditsRecorded /\ ImportsNamed

LEMMA AdoptExitType ==
    ASSUME AdoptInv, NEW q \in Adopter, AdoptExit(q)
    PROVE  AdoptInv'
<1>1. StoreTypeOK'
  BY DEF AdoptInv, StoreTypeOK, AdoptExit, storeVars
<1>2. AdoptTypeOK'
  BY EmptyTypes DEF AdoptInv, AdoptTypeOK, AdoptExit, AGoto, APC
<1>3. EditsRecorded'
  BY DEF AdoptInv, AdoptTypeOK, EditsRecorded, AdoptExit
<1>4. ImportsNamed'
  BY DEF AdoptInv, AdoptTypeOK, ImportsNamed, ImportSrc, AdoptExit, AGoto
<1>5. QED
  BY <1>1, <1>2, <1>3, <1>4 DEF AdoptInv

\* Copying a readable destination into a source keeps the store typed.
LEMMA SavedType ==
    ASSUME StoreTypeOK, NEW d \in Dst, NEW s \in Src, disk[d] \in Content,
           Saved(d, s), UNCHANGED manifest
    PROVE  StoreTypeOK'
  BY DEF Saved, StoreTypeOK, RepoFile

LEMMA AdoptStepType ==
    ASSUME AdoptInv, NEW q \in Adopter, AdoptStep(q)
    PROVE  AdoptInv'
<1>. USE DEF AdoptInv
<1>1. CASE LoadEdits(q)
  <2>1. /\ Adoptable(manifest, acmd[q].only) \subseteq Dst
        /\ \A d \in Adoptable(manifest, acmd[q].only) : manifest[d] # NoEntry
    BY DEF Adoptable, WithStatus
  <2>2. acmd[q].only \subseteq Dst
    BY DEF AdoptTypeOK, Adoption
  <2>3. AdoptTypeOK'
    BY <1>1, <2>1, <2>2 DEF LoadEdits, AGoto, AdoptTypeOK, StoreTypeOK, APC
  <2>4. EditsRecorded' /\ ImportsNamed' /\ StoreTypeOK'
    BY <1>1, <2>1 DEF LoadEdits, AGoto, AAt, AdoptTypeOK, EditsRecorded, ImportsNamed, ImportSrc, StoreTypeOK, storeVars
  <2>5. QED
    BY <2>3, <2>4
<1>2. CASE SaveEdits(q)
  <2>1. RecordAll(amem[q], updated[q]) \in ManifestType
    BY ManifestOps DEF AdoptTypeOK
  <2>2. StoreTypeOK'
    BY <1>2, <2>1 DEF SaveEdits, StoreTypeOK
  <2>3. QED
    BY <1>2, <2>2 DEF SaveEdits, AGoto, AdoptTypeOK, EditsRecorded, ImportsNamed, ImportSrc, APC
<1>3. CASE AdoptReturn(q)
  BY <1>3, AdoptExitType DEF AdoptReturn
<1>4. ASSUME NEW d \in Dst, CopyEdit(q, d) PROVE AdoptInv'
  <2>1. amem[q][d] \in Entry
    BY <1>4 DEF CopyEdit, EditsRecorded, AdoptTypeOK, ManifestType
  <2>2. amem[q][d].src \in Src /\ [amem[q][d] EXCEPT !.hash = disk[d]] \in Entry
    BY <1>4, <2>1 DEF CopyEdit, Entry
  <2>3. StoreTypeOK'
    BY <1>4, <2>2, SavedType DEF CopyEdit
  <2>4. AdoptTypeOK'
    BY <1>4, <2>2 DEF CopyEdit, AdoptTypeOK, ManifestType
  <2>5. EditsRecorded' /\ ImportsNamed'
    BY <1>4 DEF CopyEdit, AdoptTypeOK, EditsRecorded, ImportsNamed, ImportSrc
  <2>6. QED
    BY <2>3, <2>4, <2>5
<1>5. ASSUME NEW d \in Dst, CopyEditFails(q, d) PROVE AdoptInv'
  BY <1>5, AdoptExitType DEF CopyEditFails
<1>6. ASSUME NEW d \in Dst, SkipImport(q, d) PROVE AdoptInv'
  BY <1>6 DEF SkipImport, AdoptTypeOK, EditsRecorded, ImportsNamed, ImportSrc, StoreTypeOK, storeVars
<1>7. ASSUME NEW d \in Dst, CopyImport(q, d) PROVE AdoptInv'
  <2>1. ImportSrc(q, d) \in Src
    BY <1>7, AdoptAssumption DEF CopyImport, Importable, ImportSrc, AdoptTypeOK, Adoption
  <2>2. StoreTypeOK'
    BY <1>7, <2>1, SavedType DEF CopyImport, Importable
  <2>3. AdoptTypeOK'
    BY <1>7 DEF CopyImport, AGoto, AdoptTypeOK, APC
  <2>4. EditsRecorded' /\ ImportsNamed'
    BY <1>7, <2>1 DEF CopyImport, AGoto, AdoptTypeOK, EditsRecorded, ImportsNamed, ImportSrc
  <2>5. QED
    BY <2>2, <2>3, <2>4
<1>8. ASSUME NEW d \in Dst, RecordImport(q, d) PROVE AdoptInv'
  <2>1. ImportSrc(q, d) \in Src
    BY <1>8 DEF RecordImport, AAt, ImportsNamed
  <2>2. repo[ImportSrc(q, d)] # Absent =>
          [src |-> ImportSrc(q, d), kind |-> "link", hash |-> repo[ImportSrc(q, d)]] \in Entry
    BY <2>1 DEF StoreTypeOK, RepoFile, Entry, Kind
  <2>3. manifest' \in ManifestType
    BY <1>8, <2>2 DEF RecordImport, StoreTypeOK, ManifestType
  <2>4. StoreTypeOK'
    BY <1>8, <2>3 DEF RecordImport, StoreTypeOK
  <2>5. AdoptTypeOK' /\ EditsRecorded' /\ ImportsNamed'
    BY <1>8 DEF RecordImport, AGoto, AdoptTypeOK, EditsRecorded, ImportsNamed, ImportSrc, APC
  <2>6. QED
    BY <2>4, <2>5
<1>9. QED
  BY <1>1, <1>2, <1>3, <1>4, <1>5, <1>6, <1>7, <1>8 DEF AdoptStep

LEMMA UserType ==
    ASSUME StoreTypeOK, User
    PROVE  StoreTypeOK'
<1>1. ASSUME NEW d \in Dst, NEW f \in File, EditDst(d, f) PROVE StoreTypeOK'
  BY <1>1 DEF EditDst, Edit, StoreTypeOK
<1>2. ASSUME NEW s \in Src, NEW f \in RepoFile, EditSrc(s, f) PROVE StoreTypeOK'
  BY <1>2 DEF EditSrc, Edit, StoreTypeOK
<1>3. ASSUME NEW c \in Configs \cup {BadConfig}, EditConfig(c) PROVE StoreTypeOK'
  BY <1>3 DEF EditConfig, Edit, StoreTypeOK
<1>4. QED
  BY <1>1, <1>2, <1>3 DEF User

LEMMA StartType ==
    ASSUME DeployInv, NEW p \in Proc, NEW c \in Commands, Start(p, c)
    PROVE  DeployInv'
  BY CommandsAssumption DEF DeployInv, Start, At, Goto, StoreTypeOK, DeployTypeOK, HashesPlanned, storeVars, PC

LEMMA StartAdoptType ==
    ASSUME AdoptInv, NEW q \in Adopter, NEW a \in Adoptions, StartAdopt(q, a)
    PROVE  AdoptInv'
  BY AdoptAssumption DEF AdoptInv, StartAdopt, AAt, AGoto, StoreTypeOK, AdoptTypeOK,
     EditsRecorded, ImportsNamed, ImportSrc, storeVars, APC

LEMMA InitType == Init => TypeInv
<1>. SUFFICES ASSUME Init PROVE TypeInv
  OBVIOUS
<1>1. StoreTypeOK
  BY ManifestOps, EmptyTypes DEF Init, StoreInit, StoreTypeOK
<1>2. DeployTypeOK /\ HashesPlanned
  BY EmptyTypes DEF Init, DeployInit, DeployTypeOK, HashesPlanned, PC
<1>3. AdoptTypeOK /\ EditsRecorded /\ ImportsNamed
  BY EmptyTypes DEF Init, AdoptInit, AdoptTypeOK, EditsRecorded, ImportsNamed, APC
<1>4. QED
  BY <1>1, <1>2, <1>3 DEF TypeInv, TypeOK, Init

LEMMA NextType == TypeInv /\ [Next]_vars => TypeInv'
<1>. SUFFICES ASSUME TypeInv, [Next]_vars PROVE TypeInv'
  OBVIOUS
<1>1. DeployInv /\ AdoptInv /\ runs \in Nat /\ disturbed \in SUBSET (Proc \cup Adopter)
  BY DEF TypeInv, TypeOK, DeployInv, AdoptInv
<1>2. (runs' \in Nat /\ disturbed' \in SUBSET (Proc \cup Adopter) /\ DeployInv' /\ AdoptInv') => TypeInv'
  BY DEF TypeInv, TypeOK, DeployInv, AdoptInv
<1>3. UNCHANGED deployVars /\ StoreTypeOK' => DeployInv'
  BY <1>1 DEF DeployInv, deployVars, DeployTypeOK, HashesPlanned
<1>4. UNCHANGED adoptVars /\ StoreTypeOK' => AdoptInv'
  BY <1>1 DEF AdoptInv, adoptVars, AdoptTypeOK, EditsRecorded, ImportsNamed, ImportSrc
<1>5. Running \subseteq Proc \cup Adopter
  BY DEF Running
<1>6. CASE UserStep
  BY <1>1, <1>2, <1>3, <1>4, <1>5, <1>6, UserType DEF UserStep, Beside, DeployInv
<1>7. ASSUME NEW p \in Proc, StartCommand(p) PROVE TypeInv'
  BY <1>1, <1>2, <1>4, <1>5, <1>7, StartType DEF StartCommand, Launch, DeployInv
<1>8. ASSUME NEW p \in Proc, Run(p) PROVE TypeInv'
  BY <1>1, <1>2, <1>4, <1>5, <1>8, StepType DEF Run, Beside, DeployInv
<1>9. ASSUME NEW p \in Proc, Stop(p) PROVE TypeInv'
  BY <1>1, <1>2, <1>4, <1>5, <1>9, ExitType DEF Stop, Abort, Beside, DeployInv
<1>10. ASSUME NEW q \in Adopter, StartAdoption(q) PROVE TypeInv'
  BY <1>1, <1>2, <1>3, <1>5, <1>10, StartAdoptType DEF StartAdoption, Launch, AdoptInv
<1>11. ASSUME NEW q \in Adopter, RunAdopt(q) PROVE TypeInv'
  BY <1>1, <1>2, <1>3, <1>5, <1>11, AdoptStepType DEF RunAdopt, Beside, AdoptInv
<1>12. ASSUME NEW q \in Adopter, StopAdopt(q) PROVE TypeInv'
  BY <1>1, <1>2, <1>3, <1>5, <1>12, AdoptExitType DEF StopAdopt, AdoptAbort, Beside, AdoptInv
<1>13. CASE UNCHANGED vars
  <2>1. StoreTypeOK'
    BY <1>1, <1>13 DEF vars, storeVars, DeployInv, StoreTypeOK
  <2>2. UNCHANGED deployVars /\ UNCHANGED adoptVars /\ UNCHANGED runs /\ UNCHANGED disturbed
    BY <1>13 DEF vars
  <2>3. QED
    BY <1>1, <1>2, <1>3, <1>4, <2>1, <2>2
<1>14. QED
  BY <1>6, <1>7, <1>8, <1>9, <1>10, <1>11, <1>12, <1>13 DEF Next

\* Every variable keeps to its type, whatever commands, edits and crashes
\* overlap; a step never reads the source of an entry that is not there.
THEOREM TypeCorrect == Spec => []TypeOK
<1>1. TypeInv => TypeOK
  BY DEF TypeInv
<1>2. QED
  BY InitType, NextType, <1>1, PTL DEF Spec
=============================================================================
