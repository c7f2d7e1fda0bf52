---------------------------- MODULE KryptProofs -----------------------------
(***************************************************************************)
(* krypt never gives up what the user wrote, and so implements Custody:    *)
(* proofs for every value of the constants, with commands and edits one at *)
(* a time (Racing = FALSE).                                                *)
(***************************************************************************)
EXTENDS KryptTypes, KryptRefines

(***************************************************************************)
(* Frame lemmas                                                            *)
(***************************************************************************)
KnownGrows == \A d \in Dst : wrote[d] \subseteq wrote'[d] /\ adopted[d] \subseteq adopted'[d]

LEMMA KnownStays ==
    ASSUME KnownGrows
    PROVE  /\ \A d \in Dst : Known(d) \subseteq Known(d)'
           /\ \A m : KnownIn(m) => \A d \in Dst : m[d] # NoEntry => m[d].hash \in Known(d)'
  BY DEF KnownGrows, Known, KnownIn

\* A command that holds no decision is safe while its memory is known.
LEMMA CommandAtRest ==
    ASSUME NEW p \in Proc, CommandSafe(p), KnownGrows,
           pc'[p] \in {"idle", "load", "plan", "done"},
           mem'[p] = mem[p], written'[p] = written[p]
    PROVE  CommandSafe(p)'
<1>1. KnownIn(mem[p])' /\ KnownIn(written[p])'
  BY KnownStays DEF CommandSafe, KnownIn
<1>2. QED
  BY <1>1 DEF CommandSafe, HashKnown, DoomedSafe, PlanFollowsConfig, FreshSafe, CopySafe

LEMMA AdoptAtRest ==
    ASSUME NEW q \in Adopter, AdoptSafe(q), KnownGrows,
           apc'[q] # "record", amem'[q] = amem[q], updated'[q] = updated[q]
    PROVE  AdoptSafe(q)'
<1>1. KnownIn(amem[q])' /\ KnownIn(updated[q])'
  BY KnownStays DEF AdoptSafe, KnownIn
<1>2. QED
  BY <1>1 DEF AdoptSafe, ImportKnown

LEMMA RecordsStay ==
    ASSUME RecordsKnown, KnownGrows, manifest' = manifest
    PROVE  RecordsKnown'
  BY KnownStays DEF RecordsKnown

\* What leaves the shared state alone grows what krypt knows, trivially.
LEMMA StoreStays ==
    ASSUME UNCHANGED storeVars
    PROVE  KnownGrows /\ manifest' = manifest
  BY DEF storeVars, KnownGrows

\* Recording known entries in a known manifest, or forgetting some, leaves it known.
LEMMA KnownOps ==
    ASSUME NEW m \in ManifestType, NEW n \in ManifestType, NEW D, KnownIn(m), KnownIn(n)
    PROVE  KnownIn(RecordAll(m, n)) /\ KnownIn(ForgetAll(m, D))
  BY DEF KnownIn, RecordAll, ForgetAll, ManifestType

LEMMA EmptyKnown == KnownIn(EmptyManifest)
  BY DEF KnownIn, EmptyManifest

LEMMA ExitSafe ==
    ASSUME TypeInv, RecordsKnown, NEW p \in Proc, Exit(p)
    PROVE  RecordsKnown' /\ CommandSafe(p)' /\ KnownGrows
<1>1. KnownGrows /\ RecordsKnown'
  BY StoreStays, RecordsStay DEF Exit
<1>2. mem'[p] = EmptyManifest /\ written'[p] = EmptyManifest /\ pc'[p] = "idle"
  BY DEF Exit, Goto, TypeInv, TypeOK, DeployTypeOK
<1>3. CommandSafe(p)'
  BY <1>2 DEF CommandSafe, KnownIn, EmptyManifest, HashKnown, DoomedSafe,
     PlanFollowsConfig, FreshSafe, CopySafe
<1>4. QED
  BY <1>1, <1>3

(***************************************************************************)
(* One step of a deploy command                                            *)
(***************************************************************************)

\* The hypotheses every step below starts from.
Safe0(p) == TypeInv /\ RecordsKnown /\ CommandSafe(p)

\* What is clean against a known manifest is expendable.
LEMMA CleanExpendable ==
    ASSUME NEW m, KnownIn(m), NEW d \in WithStatus(m, disk, "clean")
    PROVE  d \in Dst /\ Expendable(d)
  BY DEF KnownIn, WithStatus, Status, Expendable

LEMMA LoadSafe ==
    ASSUME NEW p \in Proc, Safe0(p), Load(p)
    PROVE  RecordsKnown' /\ CommandSafe(p)' /\ KnownGrows
<1>. DEFINE del == Deletable(manifest, cmd[p].force)
<1>1. KnownGrows /\ RecordsKnown' /\ manifest' = manifest
  BY StoreStays, RecordsStay DEF Load, Safe0
<1>2. KnownIn(manifest) /\ manifest \in ManifestType
  BY DEF Safe0, RecordsKnown, KnownIn, TypeInv, TypeOK, StoreTypeOK
<1>3. KnownIn(mem'[p]) /\ written'[p] = written[p]
  <2>1. mem'[p] = ForgetAll(manifest, del \cup WithStatus(manifest, disk, "missing"))
    BY DEF Load, Safe0, TypeInv, TypeOK, DeployTypeOK
  <2>2. QED
    BY <1>2, <2>1, KnownOps DEF Load
<1>4. doomed'[p] \subseteq del /\ pc'[p] = "unlink" /\ UNCHANGED cmd
  BY DEF Load, Goto, Safe0, TypeInv, TypeOK, DeployTypeOK
<1>5. ASSUME NEW d \in del
      PROVE  \/ Expendable(d)
             \/ /\ cmd[p].force
                /\ disk[d] \in Content => manifest[d] # NoEntry /\ manifest[d].kind # "template"
  <2>1. CASE d \in WithStatus(manifest, disk, "clean")
    BY <1>2, <2>1, CleanExpendable
  <2>2. CASE d \notin WithStatus(manifest, disk, "clean")
    BY <2>2, SentinelAssumption DEF Deletable, WithStatus, IsLocalEdit
  <2>3. QED
    BY <2>1, <2>2
<1>6. UNCHANGED storeVars
  BY DEF Load
<1>7. DoomedSafe(p)'
  BY <1>4, <1>5, <1>6 DEF DoomedSafe, Expendable, Known, storeVars
<1>8. KnownIn(mem[p])' /\ KnownIn(written[p])'
  BY <1>3, <1>6 DEF KnownIn, Known, storeVars, Safe0, CommandSafe
<1>9. QED
  BY <1>1, <1>4, <1>7, <1>8 DEF CommandSafe, HashKnown, PlanFollowsConfig, FreshSafe, CopySafe

LEMMA SaveUnlinkedSafe ==
    ASSUME NEW p \in Proc, Safe0(p), SaveUnlinked(p)
    PROVE  RecordsKnown' /\ CommandSafe(p)' /\ KnownGrows
<1>1. KnownGrows /\ UNCHANGED <<wrote, adopted>>
  BY DEF SaveUnlinked, KnownGrows
<1>2. RecordsKnown'
  BY <1>1 DEF SaveUnlinked, RecordsKnown, Safe0, CommandSafe, KnownIn, Known
<1>3. pc'[p] \in {"plan", "done"} /\ UNCHANGED <<mem, written>>
  BY DEF SaveUnlinked, Goto, Safe0, TypeInv, TypeOK, DeployTypeOK
<1>4. CommandSafe(p)'
  BY <1>1, <1>3, CommandAtRest DEF Safe0
<1>5. QED
  BY <1>1, <1>2, <1>4

LEMMA RemoveFileSafe ==
    ASSUME NEW p \in Proc, Safe0(p), NEW d \in Dst, RemoveFile(p, d)
    PROVE  RecordsKnown' /\ CommandSafe(p)' /\ KnownGrows
<1>1. KnownGrows /\ UNCHANGED <<wrote, adopted, manifest, pc, cmd, mem, written>>
  BY DEF RemoveFile, KnownGrows
<1>2. RecordsKnown'
  BY <1>1, RecordsStay DEF Safe0
<1>3. \A e \in doomed'[p] : e \in doomed[p] /\ e # d
  BY DEF RemoveFile, Safe0, TypeInv, TypeOK, DeployTypeOK
<1>4. \A e \in Dst : e # d => disk'[e] = disk[e]
  BY DEF RemoveFile, Safe0, TypeInv, TypeOK, StoreTypeOK
<1>5. doomed[p] \subseteq Dst
  BY DEF Safe0, TypeInv, TypeOK, DeployTypeOK
<1>6. DoomedSafe(p)'
  BY <1>1, <1>3, <1>4, <1>5 DEF Safe0, CommandSafe, DoomedSafe, Expendable, Known
<1>7. KnownIn(mem[p])' /\ KnownIn(written[p])'
  BY <1>1 DEF Safe0, CommandSafe, KnownIn, Known
<1>8. pc'[p] \in {"unlink", "prune"}
  BY DEF RemoveFile
<1>9. QED
  BY <1>1, <1>2, <1>6, <1>7, <1>8 DEF CommandSafe, HashKnown, PlanFollowsConfig, FreshSafe, CopySafe

LEMMA MakePlanSafe ==
    ASSUME NEW p \in Proc, Safe0(p), MakePlan(p)
    PROVE  RecordsKnown' /\ CommandSafe(p)' /\ KnownGrows
<1>. DEFINE pl == Plan(config, cmd[p].platform, repo, tracked, disk)
<1>1. KnownGrows /\ RecordsKnown' /\ UNCHANGED storeVars
  BY StoreStays, RecordsStay DEF MakePlan, Safe0
<1>2. plan'[p] = pl /\ pc'[p] = "narrow" /\ UNCHANGED <<mem, written>>
  BY DEF MakePlan, Goto, Safe0, TypeInv, TypeOK, DeployTypeOK
<1>3. config # BadConfig /\ config \in Configs
  BY DEF MakePlan, Safe0, TypeInv, TypeOK, StoreTypeOK
<1>4. DOMAIN pl = DOMAIN config
  BY <1>3, PlanType
<1>5. \A i \in DOMAIN config : pl[i].dst = config[i].dst /\ pl[i].kind = config[i].kind
  BY DEF Plan
<1>6. \A i \in DOMAIN pl : pl[i].act = "copy" => disk[pl[i].dst] = Absent
  BY <1>4 DEF Plan, BuildAction
<1>7. PlanFollowsConfig(p)'
  BY <1>1, <1>2, <1>3, <1>4, <1>5 DEF PlanFollowsConfig, storeVars
<1>8. FreshSafe(p)'
  BY <1>1, <1>2, <1>6 DEF FreshSafe, storeVars
<1>9. KnownIn(mem[p])' /\ KnownIn(written[p])'
  BY <1>1, <1>2 DEF Safe0, CommandSafe, KnownIn, Known, storeVars
<1>10. QED
  BY <1>1, <1>2, <1>7, <1>8, <1>9 DEF CommandSafe, HashKnown, DoomedSafe, CopySafe

LEMMA LoadAndNarrowSafe ==
    ASSUME NEW p \in Proc, Safe0(p), LoadAndNarrow(p)
    PROVE  RecordsKnown' /\ CommandSafe(p)' /\ KnownGrows
<1>. DEFINE pl == plan[p]
            nw == Narrow(pl, manifest, repo, disk, cmd[p].force)
<1>1. KnownGrows /\ RecordsKnown' /\ UNCHANGED storeVars
  BY StoreStays, RecordsStay DEF LoadAndNarrow, Safe0
<1>2. plan'[p] = nw /\ mem'[p] = manifest /\ pc'[p] = "copy" /\ UNCHANGED <<cmd, written>>
  BY DEF LoadAndNarrow, Goto, Safe0, TypeInv, TypeOK, DeployTypeOK
<1>3. pc[p] = "narrow" /\ PlanFollowsConfig(p) /\ FreshSafe(p)
  BY DEF LoadAndNarrow, At, Safe0, CommandSafe
<1>4. DOMAIN nw = DOMAIN pl
  BY DEF Narrow
<1>5. ASSUME NEW i \in DOMAIN pl
      PROVE  /\ pl[i] \in PlanAction
             /\ nw[i].dst = pl[i].dst /\ nw[i].src = pl[i].src /\ nw[i].kind = pl[i].kind
             /\ nw[i].act = Narrowed(pl[i], manifest, repo, disk, cmd[p].force)
  <2>1. pl[i] \in PlanAction
    BY DEF Safe0, TypeInv, TypeOK, DeployTypeOK
  <2>2. QED
    BY <2>1 DEF Narrow, PlanAction
<1>6. PlanFollowsConfig(p)'
  BY <1>1, <1>2, <1>3, <1>4, <1>5 DEF PlanFollowsConfig, storeVars
<1>7. ASSUME NEW i \in DOMAIN pl, nw[i].act = "copy"
      PROVE  \/ Expendable(nw[i].dst)
             \/ disk[nw[i].dst] = repo[nw[i].src]
             \/ cmd[p].force /\ nw[i].kind = "link"
  <2>1. CASE pl[i].act # "conflict"
    <3>1. disk[pl[i].dst] = Absent
      BY <1>3, <1>5, <1>7, <2>1 DEF Narrowed, FreshSafe
    <3>2. QED
      BY <1>5, <3>1 DEF Expendable
  <2>2. CASE pl[i].act = "conflict" /\ Safe(pl[i], manifest, repo, disk)
    <3>1. pl[i].dst \in Dst
      BY <1>5 DEF PlanAction
    <3>2. CASE Ours(manifest, disk, pl[i].dst)
      BY <1>5, <3>1, <3>2 DEF Ours, Safe0, RecordsKnown, Expendable
    <3>3. CASE SameContent(repo[pl[i].src], disk[pl[i].dst])
      BY <1>5, <3>3 DEF SameContent
    <3>4. QED
      BY <2>2, <3>2, <3>3 DEF Safe
  <2>3. CASE pl[i].act = "conflict" /\ ~Safe(pl[i], manifest, repo, disk)
    <3>1. pl[i].kind # "template" /\ cmd[p].force
      BY <1>5, <1>7, <2>3 DEF Narrowed
    <3>2. QED
      BY <1>5, <3>1 DEF PlanAction, Kind
  <2>4. QED
    BY <2>1, <2>2, <2>3
<1>8. CopySafe(p)'
  BY <1>1, <1>2, <1>4, <1>7 DEF CopySafe, Expendable, Known, storeVars
<1>9. KnownIn(mem[p])' /\ KnownIn(written[p])'
  BY <1>1, <1>2 DEF Safe0, RecordsKnown, CommandSafe, KnownIn, Known, storeVars
<1>10. QED
  BY <1>1, <1>2, <1>6, <1>8, <1>9 DEF CommandSafe, HashKnown, DoomedSafe, FreshSafe

LEMMA PassOverSafe ==
    ASSUME NEW p \in Proc, Safe0(p), PassOver(p)
    PROVE  RecordsKnown' /\ CommandSafe(p)' /\ KnownGrows
<1>1. KnownGrows /\ RecordsKnown' /\ UNCHANGED storeVars
  BY StoreStays, RecordsStay DEF PassOver, Safe0
<1>2. pc[p] = "copy" /\ UNCHANGED <<pc, cmd, plan, mem, written, doomed>>
  BY DEF PassOver, Executing, At
<1>3. QED
  BY <1>1, <1>2 DEF Safe0, CommandSafe, KnownIn, Known, HashKnown, DoomedSafe,
     PlanFollowsConfig, FreshSafe, CopySafe, Expendable, storeVars

LEMMA CopyFileSafe ==
    ASSUME NEW p \in Proc, Safe0(p), CopyFile(p)
    PROVE  RecordsKnown' /\ CommandSafe(p)' /\ KnownGrows
<1>. DEFINE dst == Current(p).dst
            new == repo[Current(p).src]
<1>1. pc[p] = "copy" /\ next[p] \in DOMAIN plan[p] /\ pc'[p] = "hash"
  BY DEF CopyFile, Executing, At, Goto, Safe0, TypeInv, TypeOK, DeployTypeOK
<1>2. dst \in Dst
  BY <1>1, CurrentType DEF Safe0, TypeInv, TypeOK
<1>3. /\ disk'[dst] = new /\ new \in wrote'[dst]
      /\ \A e \in Dst : e # dst => disk'[e] = disk[e]
      /\ \A e \in Dst : wrote[e] \subseteq wrote'[e]
      /\ UNCHANGED <<cmd, plan, mem, next, written, repo, config, manifest, adopted>>
  BY <1>2 DEF CopyFile, Safe0, TypeInv, TypeOK, StoreTypeOK
<1>4. KnownGrows /\ RecordsKnown'
  BY <1>3, RecordsStay DEF KnownGrows, Safe0
<1>5. KnownIn(mem[p])' /\ KnownIn(written[p])'
  BY <1>3, <1>4, KnownStays DEF Safe0, CommandSafe, KnownIn
<1>6. HashKnown(p)'
  BY <1>3 DEF HashKnown, Current
<1>7. PlanFollowsConfig(p)'
  BY <1>1, <1>3 DEF Safe0, CommandSafe, PlanFollowsConfig
<1>8. \A e \in Dst : e = dst \/ Expendable(e) => Expendable(e)'
  <2>1. Expendable(dst)'
    BY <1>3 DEF Expendable, Known, Current
  <2>2. ASSUME NEW e \in Dst, e # dst, Expendable(e) PROVE Expendable(e)'
    BY <1>3, <1>4, <2>2, KnownStays DEF Expendable
  <2>3. QED
    BY <1>3, <2>1, <2>2 DEF Current
<1>9. CopySafe(p)'
  <2>1. ASSUME NEW i \in DOMAIN plan[p], plan[p][i].act = "copy"
        PROVE  LET a == plan[p][i] IN
               \/ Expendable(a.dst) \/ a.dst = dst
               \/ disk'[a.dst] = repo[a.src]
               \/ cmd[p].force /\ a.kind = "link"
    <3>1. plan[p][i].dst \in Dst
      BY PlanEntryType DEF Safe0, TypeInv, TypeOK
    <3>2. QED
      BY <1>1, <1>3, <2>1, <3>1 DEF Safe0, CommandSafe, CopySafe
  <2>2. \A i \in DOMAIN plan[p] : plan[p][i].dst \in Dst
    BY PlanEntryType DEF Safe0, TypeInv, TypeOK
  <2>3. QED
    BY <1>3, <1>8, <2>1, <2>2 DEF CopySafe
<1>10. QED
  BY <1>1, <1>4, <1>5, <1>6, <1>7, <1>9 DEF CommandSafe, DoomedSafe, FreshSafe

LEMMA HashCopySafe ==
    ASSUME NEW p \in Proc, Safe0(p), HashCopy(p)
    PROVE  RecordsKnown' /\ CommandSafe(p)' /\ KnownGrows
<1>1. KnownGrows /\ RecordsKnown' /\ UNCHANGED storeVars
  BY StoreStays, RecordsStay DEF HashCopy, Safe0
<1>2. pc[p] = "hash" /\ pc'[p] = "copy" /\ UNCHANGED <<cmd, plan, mem, doomed>>
  BY DEF HashCopy, At, Goto, Safe0, TypeInv, TypeOK, DeployTypeOK
<1>3. Current(p).dst \in Dst /\ disk[Current(p).dst] \in wrote[Current(p).dst]
  BY <1>2, CurrentType DEF Safe0, TypeInv, TypeOK, HashesPlanned, CommandSafe, HashKnown
<1>4. \A d \in Dst : \/ written'[p][d] = written[p][d]
                     \/ d = Current(p).dst /\ written'[p][d].hash = disk[d]
  BY <1>3 DEF HashCopy, Safe0, TypeInv, TypeOK, DeployTypeOK, ManifestType
<1>5. KnownIn(written'[p])
  BY <1>3, <1>4 DEF KnownIn, Known, Safe0, CommandSafe
<1>6. KnownIn(written[p])' /\ KnownIn(mem[p])'
  BY <1>1, <1>2, <1>5 DEF KnownIn, Known, Safe0, CommandSafe, storeVars
<1>7. PlanFollowsConfig(p)' /\ CopySafe(p)'
  BY <1>1, <1>2 DEF Safe0, CommandSafe, PlanFollowsConfig, CopySafe, Expendable, Known, storeVars
<1>8. QED
  BY <1>1, <1>2, <1>6, <1>7 DEF CommandSafe, HashKnown, DoomedSafe, FreshSafe

LEMMA PruneSafe ==
    ASSUME NEW p \in Proc, Safe0(p), Prune(p)
    PROVE  RecordsKnown' /\ CommandSafe(p)' /\ KnownGrows
<1>1. KnownGrows /\ RecordsKnown' /\ UNCHANGED storeVars
  BY StoreStays, RecordsStay DEF Prune, Safe0
<1>2. pc'[p] = "prune" /\ UNCHANGED <<cmd, plan, written>>
  BY DEF Prune, Goto, Safe0, TypeInv, TypeOK, DeployTypeOK
<1>3. KnownIn(mem[p]) /\ mem[p] \in ManifestType
  BY DEF Safe0, CommandSafe, TypeInv, TypeOK, DeployTypeOK
<1>4. KnownIn(mem'[p])
  <2>1. mem'[p] \in {mem[p], ForgetAll(mem[p], Stale(mem[p], plan[p]))}
    BY DEF Prune, Safe0, TypeInv, TypeOK, DeployTypeOK
  <2>2. QED
    BY <1>3, <2>1, KnownOps
<1>5. \A d \in doomed'[p] : d \in WithStatus(mem[p], disk, "clean")
  BY DEF Prune, Prunable, Safe0, TypeInv, TypeOK, DeployTypeOK
<1>6. \A d \in doomed'[p] : Expendable(d)
  BY <1>3, <1>5, CleanExpendable
<1>7. DoomedSafe(p)'
  BY <1>1, <1>6 DEF DoomedSafe, Expendable, Known, storeVars
<1>8. KnownIn(mem[p])' /\ KnownIn(written[p])'
  BY <1>1, <1>2, <1>4 DEF Safe0, CommandSafe, KnownIn, Known, storeVars
<1>9. QED
  BY <1>1, <1>2, <1>7, <1>8 DEF CommandSafe, HashKnown, PlanFollowsConfig, FreshSafe, CopySafe

LEMMA SaveLinkedSafe ==
    ASSUME NEW p \in Proc, Safe0(p), SaveLinked(p)
    PROVE  RecordsKnown' /\ CommandSafe(p)' /\ KnownGrows
<1>1. KnownGrows /\ UNCHANGED <<wrote, adopted>>
  BY DEF SaveLinked, KnownGrows
<1>2. KnownIn(RecordAll(mem[p], written[p]))
  BY KnownOps DEF Safe0, CommandSafe, TypeInv, TypeOK, DeployTypeOK
<1>3. RecordsKnown'
  BY <1>1, <1>2 DEF SaveLinked, RecordsKnown, Safe0, KnownIn, Known
<1>4. pc'[p] = "done" /\ UNCHANGED <<mem, written>>
  BY DEF SaveLinked, Goto, Safe0, TypeInv, TypeOK, DeployTypeOK
<1>5. CommandSafe(p)'
  BY <1>1, <1>4, CommandAtRest DEF Safe0
<1>6. QED
  BY <1>1, <1>3, <1>5

LEMMA StepSafe ==
    ASSUME NEW p \in Proc, Safe0(p), Step(p)
    PROVE  RecordsKnown' /\ CommandSafe(p)' /\ KnownGrows
<1>1. CASE Exit(p)
  BY <1>1, ExitSafe DEF Safe0
<1>2. (\E d \in Dst : RemoveFails(p, d)) \/ ConfigFails(p) \/ SourceMissing(p) \/ Return(p)
        => Exit(p)
  BY DEF RemoveFails, ConfigFails, SourceMissing, Return
<1>3. QED
  BY <1>1, <1>2, LoadSafe, SaveUnlinkedSafe, RemoveFileSafe, MakePlanSafe,
     LoadAndNarrowSafe, PassOverSafe, CopyFileSafe, HashCopySafe, PruneSafe,
     SaveLinkedSafe DEF Step

(***************************************************************************)
(* One step of an adopt                                                    *)
(***************************************************************************)

ASafe0(q) == TypeInv /\ RecordsKnown /\ AdoptSafe(q)

LEMMA AdoptExitSafe ==
    ASSUME NEW q \in Adopter, ASafe0(q), AdoptExit(q)
    PROVE  RecordsKnown' /\ AdoptSafe(q)' /\ KnownGrows
<1>1. KnownGrows /\ RecordsKnown'
  BY StoreStays, RecordsStay DEF AdoptExit, ASafe0
<1>2. amem'[q] = EmptyManifest /\ updated'[q] = EmptyManifest /\ apc'[q] = "idle"
  BY DEF AdoptExit, AGoto, ASafe0, TypeInv, TypeOK, AdoptTypeOK
<1>3. QED
  BY <1>1, <1>2 DEF AdoptSafe, KnownIn, EmptyManifest, ImportKnown

\* A save of d to the repo makes its bytes known and forgets nothing known.
LEMMA SavedKnown ==
    ASSUME TypeInv, NEW d \in Dst, NEW s \in Src, Saved(d, s)
    PROVE  KnownGrows /\ repo'[s] = disk[d] /\ disk[d] \in adopted'[d]
  BY DEF Saved, KnownGrows, TypeInv, TypeOK, StoreTypeOK

LEMMA AdoptStepSafe ==
    ASSUME NEW q \in Adopter, ASafe0(q), AdoptStep(q)
    PROVE  RecordsKnown' /\ AdoptSafe(q)' /\ KnownGrows
<1>. USE DEF ASafe0
<1>1. CASE LoadEdits(q)
  <2>1. KnownGrows /\ RecordsKnown' /\ UNCHANGED storeVars
    BY <1>1, StoreStays, RecordsStay DEF LoadEdits
  <2>2. amem'[q] = manifest /\ updated'[q] = updated[q] /\ apc'[q] = "edits"
    BY <1>1 DEF LoadEdits, AGoto, TypeInv, TypeOK, AdoptTypeOK
  <2>3. QED
    BY <2>1, <2>2 DEF AdoptSafe, RecordsKnown, KnownIn, Known, ImportKnown, storeVars
<1>2. CASE SaveEdits(q)
  <2>1. KnownGrows /\ UNCHANGED <<wrote, adopted>>
    BY <1>2 DEF SaveEdits, KnownGrows
  <2>2. KnownIn(RecordAll(amem[q], updated[q]))
    BY KnownOps DEF AdoptSafe, TypeInv, TypeOK, AdoptTypeOK
  <2>3. RecordsKnown'
    BY <1>2, <2>1, <2>2 DEF SaveEdits, RecordsKnown, KnownIn, Known
  <2>4. apc'[q] # "record" /\ UNCHANGED <<amem, updated>>
    BY <1>2 DEF SaveEdits, AGoto, TypeInv, TypeOK, AdoptTypeOK
  <2>5. QED
    BY <2>1, <2>3, <2>4, AdoptAtRest
<1>3. CASE AdoptReturn(q)
  BY <1>3, AdoptExitSafe DEF AdoptReturn
<1>4. ASSUME NEW d \in Dst, CopyEdit(q, d)
      PROVE  RecordsKnown' /\ AdoptSafe(q)' /\ KnownGrows
  <2>1. amem[q][d] \in Entry
    BY <1>4 DEF CopyEdit, TypeInv, TypeOK, EditsRecorded, AdoptTypeOK, ManifestType
  <2>2. KnownGrows /\ disk[d] \in adopted'[d]
    BY <1>4, <2>1, SavedKnown DEF CopyEdit, Entry
  <2>3. RecordsKnown'
    BY <1>4, <2>2, RecordsStay DEF CopyEdit
  <2>4. \A e \in Dst : \/ updated'[q][e] = updated[q][e]
                       \/ e = d /\ updated'[q][e].hash = disk[d]
    BY <1>4, <2>1 DEF CopyEdit, TypeInv, TypeOK, AdoptTypeOK, ManifestType, Entry
  <2>5. \A e \in Dst : Known(e) \subseteq Known(e)' /\ adopted'[e] \subseteq Known(e)'
    BY <2>2, KnownStays DEF Known
  <2>6. KnownIn(updated[q])' /\ KnownIn(amem[q])'
    BY <1>4, <2>2, <2>4, <2>5 DEF CopyEdit, AdoptSafe, KnownIn
  <2>7. apc'[q] # "record"
    BY <1>4 DEF CopyEdit, AAt
  <2>8. QED
    BY <2>2, <2>3, <2>6, <2>7 DEF AdoptSafe, ImportKnown
<1>5. ASSUME NEW d \in Dst, CopyEditFails(q, d)
      PROVE  RecordsKnown' /\ AdoptSafe(q)' /\ KnownGrows
  BY <1>5, AdoptExitSafe DEF CopyEditFails
<1>6. ASSUME NEW d \in Dst, SkipImport(q, d)
      PROVE  RecordsKnown' /\ AdoptSafe(q)' /\ KnownGrows
  <2>1. KnownGrows /\ RecordsKnown'
    BY <1>6, StoreStays, RecordsStay DEF SkipImport
  <2>2. QED
    BY <1>6, <2>1, AdoptAtRest DEF SkipImport, AAt
<1>7. ASSUME NEW d \in Dst, CopyImport(q, d)
      PROVE  RecordsKnown' /\ AdoptSafe(q)' /\ KnownGrows
  <2>1. ImportSrc(q, d) \in Src
    BY <1>7, AdoptAssumption
       DEF CopyImport, Importable, ImportSrc, TypeInv, TypeOK, AdoptTypeOK, Adoption
  <2>2. KnownGrows /\ repo'[ImportSrc(q, d)] = disk[d] /\ disk[d] \in adopted'[d]
    BY <1>7, <2>1, SavedKnown DEF CopyImport
  <2>3. RecordsKnown'
    BY <1>7, <2>2, RecordsStay DEF CopyImport
  <2>4. KnownIn(amem[q])' /\ KnownIn(updated[q])'
    BY <1>7, <2>2, KnownStays DEF CopyImport, AdoptSafe, KnownIn
  <2>5. current'[q] = {d} /\ UNCHANGED acmd
    BY <1>7 DEF CopyImport, TypeInv, TypeOK, AdoptTypeOK
  <2>6. ImportKnown(q)'
    BY <2>2, <2>5 DEF ImportKnown, ImportSrc
  <2>7. QED
    BY <2>2, <2>3, <2>4, <2>6 DEF AdoptSafe
<1>8. ASSUME NEW d \in Dst, RecordImport(q, d)
      PROVE  RecordsKnown' /\ AdoptSafe(q)' /\ KnownGrows
  <2>1. KnownGrows /\ UNCHANGED <<wrote, adopted>>
    BY <1>8 DEF RecordImport, KnownGrows
  <2>2. repo[ImportSrc(q, d)] \in adopted[d]
    BY <1>8 DEF RecordImport, AAt, AdoptSafe, ImportKnown
  <2>3. \A e \in Dst : \/ manifest'[e] = manifest[e]
                       \/ e = d /\ manifest'[e].hash = repo[ImportSrc(q, d)]
    BY <1>8 DEF RecordImport, TypeInv, TypeOK, StoreTypeOK, ManifestType
  <2>4. RecordsKnown'
    BY <2>1, <2>2, <2>3 DEF RecordsKnown, Known
  <2>5. apc'[q] # "record" /\ UNCHANGED <<amem, updated>>
    BY <1>8 DEF RecordImport, AGoto, TypeInv, TypeOK, AdoptTypeOK
  <2>6. QED
    BY <2>1, <2>4, <2>5, AdoptAtRest
<1>9. QED
  BY <1>1, <1>2, <1>3, <1>4, <1>5, <1>6, <1>7, <1>8 DEF AdoptStep

(***************************************************************************)
(* Everyone else is idle while a command runs                              *)
(***************************************************************************)

LEMMA LoneCommand ==
    ASSUME Alone, NEW p \in Proc, pc[p] # "idle"
    PROVE  /\ \A r \in Proc : r # p => pc[r] = "idle"
           /\ \A q \in Adopter : apc[q] = "idle"
  BY KryptAssumption DEF Alone, Running

LEMMA LoneAdopt ==
    ASSUME Alone, NEW q \in Adopter, apc[q] # "idle"
    PROVE  /\ \A r \in Adopter : r # q => apc[r] = "idle"
           /\ \A p \in Proc : pc[p] = "idle"
  BY KryptAssumption DEF Alone, Running

\* A step leaves the memory of the other processes alone.
OthersStay(p) ==
    \A r \in Proc \ {p} : pc'[r] = pc[r] /\ mem'[r] = mem[r] /\ written'[r] = written[r]

AdoptOthersStay(q) ==
    \A r \in Adopter \ {q} : apc'[r] = apc[r] /\ amem'[r] = amem[r] /\ updated'[r] = updated[r]

LEMMA StepOthers ==
    ASSUME DeployTypeOK, NEW p \in Proc, Step(p) \/ Abort(p)
    PROVE  OthersStay(p) /\ pc[p] # "idle"
<1>. USE DEF OthersStay, DeployTypeOK, Goto, At
<1>1. ASSUME Exit(p) PROVE OthersStay(p)
  BY <1>1 DEF Exit
<1>2. CASE Load(p) \/ SaveUnlinked(p)
  BY <1>2 DEF Load, SaveUnlinked
<1>3. ASSUME NEW d \in Dst, RemoveFile(p, d) \/ RemoveFails(p, d)
      PROVE  OthersStay(p) /\ pc[p] # "idle"
  BY <1>1, <1>3 DEF RemoveFile, RemoveFails
<1>4. CASE ConfigFails(p) \/ MakePlan(p) \/ LoadAndNarrow(p)
  BY <1>1, <1>4 DEF ConfigFails, MakePlan, LoadAndNarrow
<1>5. CASE PassOver(p) \/ SourceMissing(p) \/ CopyFile(p)
  BY <1>1, <1>5 DEF PassOver, SourceMissing, CopyFile, Executing
<1>6. CASE HashCopy(p)
  BY <1>6 DEF HashCopy
<1>7. CASE Prune(p) \/ SaveLinked(p)
  BY <1>7 DEF Prune, SaveLinked
<1>8. CASE Return(p) \/ Abort(p)
  BY <1>1, <1>8 DEF Return, Abort
<1>9. QED
  BY <1>2, <1>3, <1>4, <1>5, <1>6, <1>7, <1>8 DEF Step

LEMMA AdoptStepOthers ==
    ASSUME AdoptTypeOK, NEW q \in Adopter, AdoptStep(q) \/ AdoptAbort(q)
    PROVE  AdoptOthersStay(q) /\ apc[q] # "idle"
<1>. USE DEF AdoptOthersStay, AdoptTypeOK, AGoto, AAt
<1>1. ASSUME AdoptExit(q) PROVE AdoptOthersStay(q)
  BY <1>1 DEF AdoptExit
<1>2. CASE LoadEdits(q) \/ SaveEdits(q)
  BY <1>2 DEF LoadEdits, SaveEdits
<1>3. CASE AdoptReturn(q) \/ AdoptAbort(q)
  BY <1>1, <1>3 DEF AdoptReturn, AdoptAbort
<1>4. ASSUME NEW d \in Dst, CopyEdit(q, d) \/ CopyEditFails(q, d)
      PROVE  AdoptOthersStay(q) /\ apc[q] # "idle"
  BY <1>1, <1>4 DEF CopyEdit, CopyEditFails
<1>5. ASSUME NEW d \in Dst, SkipImport(q, d) \/ CopyImport(q, d) \/ RecordImport(q, d)
      PROVE  AdoptOthersStay(q) /\ apc[q] # "idle"
  BY <1>5 DEF SkipImport, CopyImport, RecordImport
<1>6. QED
  BY <1>2, <1>3, <1>4, <1>5 DEF AdoptStep

(***************************************************************************)
(* CustodyInv is inductive                                                 *)
(***************************************************************************)

LEMMA InitCustody == Init => CustodyInv
<1>. SUFFICES ASSUME Init PROVE CustodyInv
  OBVIOUS
<1>1. TypeInv
  BY InitType
<1>2. Running = {}
  BY DEF Init, DeployInit, AdoptInit, Running
<1>3. RecordsKnown
  BY DEF Init, StoreInit, EmptyManifest, RecordsKnown
<1>4. \A p \in Proc : CommandSafe(p)
  BY EmptyKnown DEF Init, DeployInit, CommandSafe, HashKnown, DoomedSafe,
     PlanFollowsConfig, FreshSafe, CopySafe
<1>5. \A q \in Adopter : AdoptSafe(q)
  BY EmptyKnown DEF Init, AdoptInit, AdoptSafe, ImportKnown
<1>6. QED
  BY <1>1, <1>2, <1>3, <1>4, <1>5 DEF CustodyInv, Alone

\* While nothing runs, a step that takes no command's memory and keeps the
\* records keeps everyone safe.
LEMMA AllAtRest ==
    ASSUME CustodyInv, KnownGrows,
           \A r \in Proc : /\ pc'[r] \in {"idle", "load", "plan"}
                           /\ mem'[r] = mem[r] /\ written'[r] = written[r],
           \A r \in Adopter : /\ apc'[r] # "record"
                              /\ amem'[r] = amem[r] /\ updated'[r] = updated[r]
    PROVE  (\A r \in Proc : CommandSafe(r)') /\ (\A r \in Adopter : AdoptSafe(r)')
  BY CommandAtRest, AdoptAtRest DEF CustodyInv

LEMMA CommandCustody ==
    ASSUME CustodyInv, TypeInv', NEW p \in Proc, Step(p) \/ Abort(p), UNCHANGED adoptVars
    PROVE  CustodyInv'
<1>1. TypeInv /\ Alone /\ RecordsKnown /\ Safe0(p) /\ DeployTypeOK
  BY DEF CustodyInv, Safe0, TypeInv, TypeOK
<1>2. OthersStay(p) /\ pc[p] # "idle"
  BY <1>1, StepOthers
<1>3. RecordsKnown' /\ CommandSafe(p)' /\ KnownGrows
  BY <1>1, StepSafe, ExitSafe DEF Abort
<1>4. \A r \in Proc \ {p} : pc'[r] = "idle" /\ CommandSafe(r)'
  BY <1>1, <1>2, <1>3, LoneCommand, CommandAtRest DEF OthersStay, CustodyInv
<1>5. \A q \in Adopter : apc'[q] = "idle" /\ AdoptSafe(q)'
  <2>1. UNCHANGED <<apc, amem, updated>>
    BY DEF adoptVars
  <2>2. QED
    BY <1>1, <1>2, <1>3, <2>1, LoneCommand, AdoptAtRest DEF CustodyInv
<1>6. Alone'
  BY <1>4, <1>5 DEF Alone, Running
<1>7. QED
  BY <1>3, <1>4, <1>5, <1>6 DEF CustodyInv

LEMMA AdoptCustody ==
    ASSUME CustodyInv, TypeInv', NEW q \in Adopter, AdoptStep(q) \/ AdoptAbort(q),
           UNCHANGED deployVars
    PROVE  CustodyInv'
<1>1. TypeInv /\ Alone /\ RecordsKnown /\ ASafe0(q) /\ AdoptTypeOK
  BY DEF CustodyInv, ASafe0, TypeInv, TypeOK
<1>2. AdoptOthersStay(q) /\ apc[q] # "idle"
  BY <1>1, AdoptStepOthers
<1>3. RecordsKnown' /\ AdoptSafe(q)' /\ KnownGrows
  BY <1>1, AdoptStepSafe, AdoptExitSafe DEF AdoptAbort
<1>4. \A r \in Adopter \ {q} : apc'[r] = "idle" /\ AdoptSafe(r)'
  BY <1>1, <1>2, <1>3, LoneAdopt, AdoptAtRest DEF AdoptOthersStay, CustodyInv
<1>5. \A p \in Proc : pc'[p] = "idle" /\ CommandSafe(p)'
  <2>1. UNCHANGED <<pc, mem, written>>
    BY DEF deployVars
  <2>2. QED
    BY <1>1, <1>2, <1>3, <2>1, LoneAdopt, CommandAtRest DEF CustodyInv
<1>6. Alone'
  BY <1>4, <1>5 DEF Alone, Running
<1>7. QED
  BY <1>3, <1>4, <1>5, <1>6 DEF CustodyInv

LEMMA NextCustody ==
    ASSUME Racing = FALSE
    PROVE  CustodyInv /\ [Next]_vars => CustodyInv'
<1>. SUFFICES ASSUME CustodyInv, [Next]_vars PROVE CustodyInv'
  OBVIOUS
<1>1. TypeInv /\ TypeInv'
  BY NextType DEF CustodyInv
<1>2. DeployTypeOK /\ AdoptTypeOK /\ RecordsKnown
  BY <1>1 DEF TypeInv, TypeOK, CustodyInv
<1>3. Quiet => /\ \A r \in Proc : pc[r] = "idle"
               /\ \A r \in Adopter : apc[r] = "idle"
  BY DEF Quiet, Running
<1>4. UNCHANGED deployVars => UNCHANGED <<pc, mem, written>>
  BY DEF deployVars
<1>5. UNCHANGED adoptVars => UNCHANGED <<apc, amem, updated>>
  BY DEF adoptVars
<1>6. CASE UserStep
  <2>1. Quiet /\ UNCHANGED <<wrote, adopted, manifest>>
    BY <1>6 DEF UserStep, User, EditDst, EditSrc, EditConfig
  <2>2. KnownGrows /\ RecordsKnown'
    BY <1>2, <2>1, RecordsStay DEF KnownGrows
  <2>3. UNCHANGED <<pc, mem, written, apc, amem, updated>>
    BY <1>4, <1>5, <1>6 DEF UserStep
  <2>4. (\A r \in Proc : CommandSafe(r)') /\ (\A r \in Adopter : AdoptSafe(r)')
    BY <1>3, <2>1, <2>2, <2>3, AllAtRest
  <2>5. Alone'
    BY <1>3, <2>1, <2>3 DEF Alone, Running
  <2>6. QED
    BY <1>1, <2>2, <2>4, <2>5 DEF CustodyInv
<1>7. ASSUME NEW p \in Proc, StartCommand(p) PROVE CustodyInv'
  <2>1. PICK c \in Commands : Start(p, c)
    BY <1>7 DEF StartCommand
  <2>2. Quiet /\ UNCHANGED <<apc, amem, updated>>
    BY <1>5, <1>7 DEF StartCommand, Launch
  <2>3. KnownGrows /\ RecordsKnown'
    BY <1>2, <2>1, StoreStays, RecordsStay DEF Start
  <2>4. /\ pc'[p] \in {"load", "plan"} /\ UNCHANGED <<mem, written>>
        /\ \A r \in Proc \ {p} : pc'[r] = pc[r]
    BY <1>2, <2>1 DEF Start, Goto, DeployTypeOK
  <2>5. (\A r \in Proc : CommandSafe(r)') /\ (\A r \in Adopter : AdoptSafe(r)')
    BY <1>3, <2>2, <2>3, <2>4, AllAtRest
  <2>6. Alone'
    BY <1>3, <2>2, <2>4 DEF Alone, Running
  <2>7. QED
    BY <1>1, <2>3, <2>5, <2>6 DEF CustodyInv
<1>8. ASSUME NEW q \in Adopter, StartAdoption(q) PROVE CustodyInv'
  <2>1. PICK a \in Adoptions : StartAdopt(q, a)
    BY <1>8 DEF StartAdoption
  <2>2. Quiet /\ UNCHANGED <<pc, mem, written>>
    BY <1>4, <1>8 DEF StartAdoption, Launch
  <2>3. KnownGrows /\ RecordsKnown'
    BY <1>2, <2>1, StoreStays, RecordsStay DEF StartAdopt
  <2>4. /\ apc'[q] = "load" /\ UNCHANGED <<amem, updated>>
        /\ \A r \in Adopter \ {q} : apc'[r] = apc[r]
    BY <1>2, <2>1 DEF StartAdopt, AGoto, AdoptTypeOK
  <2>5. (\A r \in Proc : CommandSafe(r)') /\ (\A r \in Adopter : AdoptSafe(r)')
    BY <1>3, <2>2, <2>3, <2>4, AllAtRest
  <2>6. Alone'
    BY <1>3, <2>2, <2>4 DEF Alone, Running
  <2>7. QED
    BY <1>1, <2>3, <2>5, <2>6 DEF CustodyInv
<1>9. ASSUME NEW p \in Proc, Run(p) \/ Stop(p) PROVE CustodyInv'
  BY <1>1, <1>9, CommandCustody DEF Run, Stop
<1>10. ASSUME NEW q \in Adopter, RunAdopt(q) \/ StopAdopt(q) PROVE CustodyInv'
  BY <1>1, <1>10, AdoptCustody DEF RunAdopt, StopAdopt
<1>11. CASE UNCHANGED vars
  BY <1>11 DEF vars, storeVars, deployVars, adoptVars, CustodyInv, TypeInv, TypeOK,
     StoreTypeOK, DeployTypeOK, AdoptTypeOK, HashesPlanned, EditsRecorded, ImportsNamed,
     Alone, Running, RecordsKnown, Known, CommandSafe, KnownIn, HashKnown, Current,
     DoomedSafe, Expendable, PlanFollowsConfig, FreshSafe, CopySafe, AdoptSafe,
     ImportKnown, ImportSrc
<1>12. QED
  BY <1>6, <1>7, <1>8, <1>9, <1>10, <1>11 DEF Next

(***************************************************************************)
(* What the invariant gives                                                *)
(***************************************************************************)

LEMMA SpecCustody ==
    ASSUME Racing = FALSE
    PROVE  Spec => []CustodyInv
  BY InitCustody, NextCustody, PTL DEF Spec

\* What the manifest records at a destination, krypt wrote there or saved
\* from there: no sequence of commands, failures, crashes and edits makes a
\* user's unsaved bytes look like krypt's.
THEOREM RecordsAreKnown ==
    ASSUME Racing = FALSE
    PROVE  Spec => []RecordsKnown
<1>1. CustodyInv => RecordsKnown
  BY DEF CustodyInv
<1>2. QED
  BY SpecCustody, <1>1, PTL

\* Only two steps of krypt's change a destination.
LEMMA TouchedBy ==
    ASSUME TypeInv, [Next]_vars, NEW d \in Dst, Touched(d)
    PROVE  \E p \in Proc : RemoveFile(p, d) \/ (CopyFile(p) /\ Current(p).dst = d)
<1>1. disk'[d] # disk[d] /\ edits' = edits /\ edits \in Nat
  BY DEF Touched, TypeInv, TypeOK, StoreTypeOK
<1>2. ~UserStep
  <2>1. ~Edit
    BY <1>1 DEF Edit
  <2>2. QED
    BY <2>1 DEF UserStep, User, EditDst, EditSrc, EditConfig
<1>3. ~UNCHANGED vars /\ ~UNCHANGED storeVars
  BY <1>1 DEF vars, storeVars
<1>4. \A p \in Proc : ~StartCommand(p) /\ ~Stop(p)
  BY <1>3 DEF StartCommand, Start, Stop, Abort, Exit
<1>5. \A q \in Adopter : ~StartAdoption(q) /\ ~StopAdopt(q)
  BY <1>3 DEF StartAdoption, StartAdopt, StopAdopt, AdoptAbort, AdoptExit
<1>6. \A q \in Adopter : ~RunAdopt(q)
  BY <1>1, <1>3 DEF RunAdopt, AdoptStep, LoadEdits, SaveEdits, AdoptReturn, AdoptExit,
     CopyEdit, CopyEditFails, SkipImport, CopyImport, RecordImport, Saved
<1>7. PICK p \in Proc : Run(p)
  BY <1>2, <1>3, <1>4, <1>5, <1>6 DEF Next
<1>8. CASE \E e \in Dst : RemoveFile(p, e)
  BY <1>1, <1>8 DEF RemoveFile, TypeInv, TypeOK, StoreTypeOK
<1>9. CASE CopyFile(p)
  BY <1>1, <1>9 DEF CopyFile, TypeInv, TypeOK, StoreTypeOK
<1>10. (\E e \in Dst : RemoveFile(p, e)) \/ CopyFile(p)
  BY <1>1, <1>3, <1>7 DEF Run, Step, Load, SaveUnlinked, RemoveFails, ConfigFails, MakePlan,
     LoadAndNarrow, PassOver, SourceMissing, HashCopy, Prune, SaveLinked, Return, Exit
<1>11. QED
  BY <1>8, <1>9, <1>10

\* What either may change: expendable bytes; or, with --force, an unlinked
\* link, or a link's destination.
LEMMA TouchedSafe ==
    ASSUME CustodyInv, [Next]_vars, NEW d \in Dst, Touched(d)
    PROVE  \/ Expendable(d)
           \/ /\ Forced
              /\ ~TemplateEdit(d)
<1>1. PICK p \in Proc : RemoveFile(p, d) \/ (CopyFile(p) /\ Current(p).dst = d)
  BY TouchedBy DEF CustodyInv
<1>2. CommandSafe(p) /\ DeployTypeOK /\ StoreTypeOK
  BY DEF CustodyInv, TypeInv, TypeOK
<1>3. CASE RemoveFile(p, d)
  BY <1>2, <1>3 DEF RemoveFile, CommandSafe, DoomedSafe, Forced, TemplateEdit
<1>4. CASE CopyFile(p) /\ Current(p).dst = d
  <2>1. /\ pc[p] = "copy" /\ next[p] \in DOMAIN plan[p] /\ Current(p) = plan[p][next[p]]
        /\ Current(p).act = "copy"
    BY <1>4 DEF CopyFile, Executing, At, Current
  <2>2. disk[d] # repo[Current(p).src]
    BY <1>2, <1>4 DEF CopyFile, Touched, StoreTypeOK
  <2>3. Expendable(d) \/ (cmd[p].force /\ Current(p).kind = "link")
    BY <1>2, <1>4, <2>1, <2>2 DEF CommandSafe, CopySafe
  <2>4. config # BadConfig /\ \E i \in DOMAIN config :
            config[i].dst = d /\ config[i].kind = Current(p).kind
    BY <1>2, <1>4, <2>1 DEF CommandSafe, PlanFollowsConfig
  <2>5. QED
    BY <2>1, <2>3, <2>4 DEF Forced, TemplateEdit
<1>5. QED
  BY <1>1, <1>3, <1>4

\* No command run without --force overwrites or deletes bytes at a
\* destination that krypt neither wrote there nor saved from there.
THEOREM NothingLostSilently ==
    ASSUME Racing = FALSE
    PROVE  Spec => NoSilentLoss
<1>1. CustodyInv /\ [Next]_vars =>
        [\A d \in Dst : Touched(d) => disk[d] \in Known(d) \cup {Absent} \/ Forced]_vars
  BY TouchedSafe DEF Expendable
<1>2. QED
  BY SpecCustody, <1>1, PTL DEF Spec, NoSilentLoss

\* No command, with --force or without, overwrites or deletes what was
\* filled in at a template destination.
THEOREM TemplatesKept ==
    ASSUME Racing = FALSE
    PROVE  Spec => TemplateEditsSurvive
<1>1. \A d \in Dst : Expendable(d) => ~TemplateEdit(d)
  BY SentinelAssumption DEF Expendable, TemplateEdit
<1>2. CustodyInv /\ [Next]_vars => [\A d \in Dst : Touched(d) => ~TemplateEdit(d)]_vars
  BY <1>1, TouchedSafe
<1>3. QED
  BY SpecCustody, <1>2, PTL DEF Spec, TemplateEditsSurvive

(***************************************************************************)
(* The mapping, in the terms of Krypt                                      *)
(***************************************************************************)

\* The steps of a command that are not its last one keep its command line.
LEMMA ForcedStays ==
    ASSUME \A p \in Proc : pc[p] # "idle" <=> pc'[p] # "idle",
           \A p \in Proc : pc[p] # "idle" => cmd'[p] = cmd[p]
    PROVE  Forced' = Forced
  BY DEF Forced

LEMMA CustodySame ==
    ASSUME UNCHANGED <<wrote, adopted>>
    PROVE  [d \in Dst |-> Known(d)]' = [d \in Dst |-> Known(d)]
  BY DEF Known

\* What is copied to or from d is in custody there afterwards, and nothing
\* else changes custody.
LEMMA CustodyGrows ==
    ASSUME StoreTypeOK, NEW d \in Dst, NEW c,
           \/ wrote' = [wrote EXCEPT ![d] = @ \cup {c}] /\ adopted' = adopted
           \/ adopted' = [adopted EXCEPT ![d] = @ \cup {c}] /\ wrote' = wrote
    PROVE  [e \in Dst |-> Known(e)]' = [[e \in Dst |-> Known(e)] EXCEPT ![d] = @ \cup {c}]
<1>1. \A e \in Dst : Known(e)' = IF e = d THEN Known(e) \cup {c} ELSE Known(e)
  BY DEF StoreTypeOK, Known
<1>2. QED
  BY <1>1

LEMMA ClaimedSame ==
    ASSUME manifest' = manifest
    PROVE  Claimed' = Claimed
  BY DEF Claimed

\* A manifest that records only what is known is one Custody may claim.
LEMMA ClaimedKnown ==
    ASSUME StoreTypeOK, RecordsKnown, UNCHANGED <<wrote, adopted>>, StoreTypeOK', RecordsKnown'
    PROVE  /\ Claimed' \in [Dst -> Content \cup {Absent}]
           /\ \A d \in Dst : Claimed'[d] \in [e \in Dst |-> Known(e)][d] \cup {Absent}
<1>1. \A d \in Dst : manifest'[d] # NoEntry => manifest'[d].hash \in Known(d) /\ manifest'[d].hash \in Content
  BY DEF StoreTypeOK, ManifestType, Entry, RecordsKnown, Known
<1>2. QED
  BY <1>1 DEF Claimed

(***************************************************************************)
(* Each step                                                               *)
(***************************************************************************)

LEMMA InitHeld == Init => Held!Init
<1>. SUFFICES ASSUME Init PROVE Held!Init
  OBVIOUS
<1>1. disk \in [Dst -> Content \cup {Absent, Unreadable}] /\ edits = 0
  BY DEF Init, StoreInit, File
<1>2. [d \in Dst |-> Known(d)] = [d \in Dst |-> {}]
  BY DEF Init, StoreInit, Known
<1>3. Claimed = [d \in Dst |-> Absent]
  BY DEF Init, StoreInit, Claimed, EmptyManifest
<1>4. Forced = FALSE
  BY DEF Init, DeployInit, Forced
<1>5. QED
  BY <1>1, <1>2, <1>3, <1>4 DEF Held!Init

\* A command that starts or ends leaves the store, and with it all but
\* Forced, alone.
LEMMA StoreSameHeld ==
    ASSUME UNCHANGED storeVars
    PROVE  Held!Begin
  BY CustodySame, ClaimedSame DEF storeVars, Held!Begin

LEMMA UserHeld ==
    ASSUME StoreTypeOK, User, UNCHANGED deployVars
    PROVE  Held!ByHand
<1>1. Forced' = Forced
  BY DEF deployVars, Forced
<1>2. edits' = edits + 1 /\ UNCHANGED <<wrote, adopted, manifest>>
  BY DEF User, EditDst, EditSrc, EditConfig, Edit
<1>3. \/ disk' = disk
      \/ \E d \in Dst, f \in Content \cup {Absent, Unreadable} : disk' = [disk EXCEPT ![d] = f]
  BY DEF User, EditDst, EditSrc, EditConfig, File
<1>4. QED
  BY <1>1, <1>2, <1>3, CustodySame, ClaimedSame DEF Held!ByHand

\* A deletion is a Remove: what is deleted may leave.
LEMMA RemoveFileHeld ==
    ASSUME CustodyInv, [Next]_vars, NEW p \in Proc, NEW d \in Dst, RemoveFile(p, d)
    PROVE  Held!Remove(d)
<1>1. StoreTypeOK /\ DeployTypeOK
  BY DEF CustodyInv, TypeInv, TypeOK
<1>2. Touched(d)
  BY <1>1 DEF RemoveFile, Touched, StoreTypeOK
<1>3. disk[d] \in [e \in Dst |-> Known(e)][d] \cup {Absent} \/ Forced
  BY <1>2, TouchedSafe DEF Expendable
<1>4. Forced' = Forced
  BY ForcedStays DEF RemoveFile
<1>5. QED
  BY <1>3, <1>4, CustodySame, ClaimedSame DEF RemoveFile, Held!Remove, Held!MayLeave

\* A copy is a Write, or, over the same bytes, a Save of them.
LEMMA CopyFileHeld ==
    ASSUME CustodyInv, [Next]_vars, NEW p \in Proc, CopyFile(p)
    PROVE  \E d \in Dst, c \in Content : Held!Write(d, c) \/ Held!Save(d, c)
<1>. DEFINE d == Current(p).dst
            c == repo[Current(p).src]
<1>1. StoreTypeOK /\ DeployTypeOK /\ pc[p] = "copy"
  BY DEF CustodyInv, TypeInv, TypeOK, CopyFile, Executing, At
<1>2. d \in Dst /\ c \in Content
  BY <1>1, CurrentType DEF CopyFile, Executing, StoreTypeOK, RepoFile
<1>3. Forced' = Forced
  <2>1. \A r \in Proc : (pc[r] # "idle" <=> pc'[r] # "idle") /\ cmd'[r] = cmd[r]
    BY <1>1 DEF CopyFile, Goto, DeployTypeOK
  <2>2. QED
    BY <2>1, ForcedStays
<1>4. [e \in Dst |-> Known(e)]' = [[e \in Dst |-> Known(e)] EXCEPT ![d] = @ \cup {c}]
  BY <1>1, <1>2, CustodyGrows DEF CopyFile
<1>5. Claimed' = Claimed /\ edits' = edits /\ disk' = [disk EXCEPT ![d] = c]
  BY ClaimedSame DEF CopyFile
<1>6. CASE Touched(d)
  <2>1. disk[d] \in [e \in Dst |-> Known(e)][d] \cup {Absent} \/ Forced
    BY <1>2, <1>6, TouchedSafe DEF Expendable
  <2>2. Held!Write(d, c)
    BY <1>3, <1>4, <1>5, <2>1 DEF Held!Write, Held!MayLeave
  <2>3. QED
    BY <1>2, <2>2
<1>7. CASE ~Touched(d)
  <2>1. disk' = disk
    BY <1>1, <1>2, <1>5, <1>7 DEF Touched, StoreTypeOK
  <2>2. Held!Save(d, c)
    BY <1>3, <1>4, <1>5, <2>1 DEF Held!Save
  <2>3. QED
    BY <1>2, <2>2
<1>8. QED
  BY <1>6, <1>7

\* A step that replaces the manifest and nothing else is a Claim.
LEMMA ManifestHeld ==
    ASSUME CustodyInv, CustodyInv', UNCHANGED <<disk, wrote, adopted, edits>>, Forced' = Forced
    PROVE  Held!Claim
<1>1. StoreTypeOK /\ RecordsKnown /\ StoreTypeOK' /\ RecordsKnown'
  BY DEF CustodyInv, TypeInv, TypeOK
<1>2. QED
  BY <1>1, ClaimedKnown, CustodySame DEF Held!Claim

\* An edit or a file copied into the repo is a Save.
LEMMA SavedHeld ==
    ASSUME StoreTypeOK, NEW d \in Dst, disk[d] \in Content, NEW s, Saved(d, s),
           UNCHANGED <<manifest, deployVars>>
    PROVE  Held!Save(d, disk[d])
<1>1. Forced' = Forced
  BY DEF deployVars, Forced
<1>2. [e \in Dst |-> Known(e)]' = [[e \in Dst |-> Known(e)] EXCEPT ![d] = @ \cup {disk[d]}]
  BY CustodyGrows DEF Saved
<1>3. QED
  BY <1>1, <1>2, ClaimedSame DEF Saved, Held!Save

LEMMA StepHeld ==
    ASSUME CustodyInv, CustodyInv', [Next]_vars, NEW p \in Proc, Step(p)
    PROVE  Held!Next
<1>1. StoreTypeOK /\ DeployTypeOK
  BY DEF CustodyInv, TypeInv, TypeOK
<1>2. CASE UNCHANGED storeVars
  BY <1>2, StoreSameHeld DEF Held!Next
<1>3. CASE SaveUnlinked(p) \/ SaveLinked(p)
  <2>1. \A r \in Proc : (pc[r] # "idle" <=> pc'[r] # "idle") /\ cmd'[r] = cmd[r]
    BY <1>1, <1>3 DEF SaveUnlinked, SaveLinked, At, Goto, DeployTypeOK
  <2>2. Forced' = Forced
    BY <2>1, ForcedStays
  <2>3. QED
    BY <1>3, <2>2, ManifestHeld DEF SaveUnlinked, SaveLinked, Held!Next
<1>4. CASE \E d \in Dst : RemoveFile(p, d)
  BY <1>4, RemoveFileHeld DEF Held!Next
<1>5. CASE CopyFile(p)
  BY <1>5, CopyFileHeld DEF Held!Next
<1>6. QED
  BY <1>2, <1>3, <1>4, <1>5 DEF Step, Load, RemoveFails, ConfigFails, MakePlan, LoadAndNarrow,
     PassOver, SourceMissing, HashCopy, Prune, Return, Exit

LEMMA AdoptStepHeld ==
    ASSUME CustodyInv, CustodyInv', NEW q \in Adopter, AdoptStep(q), UNCHANGED deployVars
    PROVE  Held!Next
<1>1. StoreTypeOK
  BY DEF CustodyInv, TypeInv, TypeOK
<1>2. Forced' = Forced
  BY DEF deployVars, Forced
<1>3. CASE UNCHANGED storeVars
  BY <1>3, StoreSameHeld DEF Held!Next
<1>4. CASE SaveEdits(q) \/ \E d \in Dst : RecordImport(q, d)
  BY <1>2, <1>4, ManifestHeld DEF SaveEdits, RecordImport, Held!Next
<1>5. ASSUME NEW d \in Dst, CopyEdit(q, d) \/ CopyImport(q, d) PROVE Held!Next
  BY <1>1, <1>5, SavedHeld DEF CopyEdit, CopyImport, Importable, Held!Next
<1>6. QED
  BY <1>3, <1>4, <1>5 DEF AdoptStep, LoadEdits, AdoptReturn, CopyEditFails, SkipImport, AdoptExit

LEMMA NextHeld ==
    ASSUME CustodyInv, CustodyInv', [Next]_vars
    PROVE  [Held!Next]_(Held!vars)
<1>1. StoreTypeOK
  BY DEF CustodyInv, TypeInv, TypeOK
<1>2. CASE UserStep
  BY <1>1, <1>2, UserHeld DEF UserStep, Held!Next
<1>3. ASSUME NEW p \in Proc, StartCommand(p) \/ Stop(p) PROVE Held!Next
  BY <1>3, StoreSameHeld DEF StartCommand, Start, Stop, Abort, Exit, Held!Next
<1>4. ASSUME NEW q \in Adopter, StartAdoption(q) \/ StopAdopt(q) PROVE Held!Next
  BY <1>4, StoreSameHeld DEF StartAdoption, StartAdopt, StopAdopt, AdoptAbort, AdoptExit, Held!Next
<1>5. ASSUME NEW p \in Proc, Run(p) PROVE Held!Next
  BY <1>5, StepHeld DEF Run
<1>6. ASSUME NEW q \in Adopter, RunAdopt(q) PROVE Held!Next
  BY <1>6, AdoptStepHeld DEF RunAdopt
<1>7. CASE UNCHANGED vars
  BY <1>7, CustodySame, ClaimedSame DEF vars, storeVars, deployVars, Forced, Held!vars
<1>8. QED
  BY <1>2, <1>3, <1>4, <1>5, <1>6, <1>7 DEF Next

\* Krypt implements Custody: whatever its commands do, crash and retry, they
\* change one file at a time, lose no bytes out of custody without --force
\* and claim in the manifest nothing that was never held.
THEOREM CustodyKept ==
    ASSUME Racing = FALSE
    PROVE  Spec => KeepsCustody
<1>1. CustodyInv /\ CustodyInv' /\ [Next]_vars => [Held!Next]_(Held!vars)
  BY NextHeld
<1>2. QED
  BY InitHeld, SpecCustody, <1>1, PTL DEF Spec, KeepsCustody, Held!Spec
=============================================================================
