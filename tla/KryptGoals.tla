----------------------------- MODULE KryptGoals -----------------------------
(***************************************************************************)
(* The inductive invariants behind the theorems about what a command that  *)
(* nobody stepped beside has achieved.                                     *)
(***************************************************************************)
EXTENDS KryptInv, Doctor

(***************************************************************************)
(* What a process remembers in each place, whoever races with it.          *)
(***************************************************************************)
CommandMemory(p) ==
    /\ pc[p] \notin {"unlink", "prune"} => doomed[p] = {}
    /\ pc[p] \in {"idle", "load", "unlink", "plan", "narrow"} =>
          written[p] = EmptyManifest /\ next[p] = 1
    /\ pc[p] \in {"load", "unlink"} => cmd[p].op # "link"
    /\ pc[p] \in {"plan", "narrow", "copy", "hash", "prune"} => cmd[p].op # "unlink"
    /\ cmd[p].dry => doomed[p] = {} /\ pc[p] # "hash"

AdoptMemory(q) ==
    /\ apc[q] # "edits" => edited[q] = {}
    /\ apc[q] \in {"idle", "load"} => updated[q] = EmptyManifest /\ imports[q] = {}
    /\ imports[q] \subseteq acmd[q].only
    /\ apc[q] # "record" => current[q] = {}
    /\ acmd[q].dry => edited[q] = {} /\ apc[q] # "record"

MemoryInv ==
    /\ TypeInv
    /\ \A p \in Proc : CommandMemory(p)
    /\ \A q \in Adopter : AdoptMemory(q)

(***************************************************************************)
(* unlink: what it still lists is drifted, and with --force filled in.     *)
(***************************************************************************)
LeftDrifted(m, d, force) ==
    /\ Status(m[d], disk[d]) = "drifted"
    /\ force => m[d].kind = "template" /\ disk[d] # Unreadable

UnlinkOnCourse(p) ==
    pc[p] = "unlink" /\ ~cmd[p].dry =>
        \A d \in Dst : mem[p][d] # NoEntry =>
            d \notin doomed[p] /\ LeftDrifted(mem[p], d, cmd[p].force)

UnlinkDone(p) ==
    pc[p] = "done" /\ cmd[p].op = "unlink" /\ ~cmd[p].dry =>
        \A d \in Dst : manifest[d] # NoEntry => LeftDrifted(manifest, d, cmd[p].force)

(***************************************************************************)
(* adopt: an edit it is to adopt is still to copy or recorded as it is.    *)
(***************************************************************************)
AdoptOnCourse(q) ==
    apc[q] = "edits" =>
        /\ amem[q] = manifest
        /\ \A d \in edited[q] : manifest[d] # NoEntry /\ Status(manifest[d], disk[d]) = "drifted"
        /\ \A d \in Dst : updated[q][d] # NoEntry => updated[q][d].hash = disk[d]
        /\ ~acmd[q].dry => \A d \in Adoptable(manifest, acmd[q].only) :
                              d \in edited[q] \/ updated[q][d] # NoEntry

DriftLeft(q) ==
    apc[q] \in {"import", "record"} /\ ~acmd[q].dry =>
        \A d \in WithStatus(manifest, disk, "drifted") :
            /\ d \notin acmd[q].only
            /\ acmd[q].only = {} => manifest[d].kind = "template"

ImportOnCourse(q) ==
    apc[q] = "record" => \A d \in current[q] : repo[ImportSrc(q, d)] = disk[d]

\* What it has still to import is not listed, nor among the edits it
\* saves, nor the one copied already.
ImportsFresh(q) ==
    /\ \A d \in imports[q] : manifest[d] = NoEntry /\ updated[q][d] = NoEntry
    /\ current[q] \cap imports[q] = {}

(***************************************************************************)
(* link: each destination is settled from the moment its action has run.   *)
(***************************************************************************)

\* A fresh plan copies where there is nothing and conflicts elsewhere.
PlanFresh(p) ==
    pc[p] = "narrow" => \A i \in DOMAIN plan[p] :
        LET a == plan[p][i] IN
        /\ a.act \in {"omit", "copy", "conflict"}
        /\ a.act = "conflict" => disk[a.dst] # Absent

\* Action i is the only one the plan has for its destination.
Sole(p, i) == For(plan[p], plan[p][i].dst) = {i}

\* What is not copied is not krypt's, and is not what the source holds.
LeftAlone(p) ==
    \A i \in DOMAIN plan[p] : LET a == plan[p][i] IN
        a.act \in {"conflict", "keep"} /\ Sole(p, i) =>
            /\ disk[a.dst] \notin {Absent, repo[a.src]}
            /\ ~Ours(manifest, disk, a.dst)
            /\ a.kind = "link" => ~cmd[p].force

\* What has been copied is in place and recorded in memory.
CopiedSoFar(p) ==
    \A i \in DOMAIN plan[p] : LET a == plan[p][i] IN
        a.act = "copy" /\ i < next[p] /\ Sole(p, i) =>
            /\ disk[a.dst] = repo[a.src]
            /\ written[p][a.dst] = [src |-> a.src, kind |-> a.kind, hash |-> repo[a.src]]

\* Only what is planned and copied is recorded.
WrittenPlanned(p) ==
    \A d \in Dst : written[p][d] # NoEntry =>
        \E i \in For(plan[p], d) : plan[p][i].act = "copy"

\* The copy being hashed is its source's.
HashOnCourse(p) ==
    pc[p] = "hash" =>
        /\ disk[Current(p).dst] = repo[Current(p).src]
        /\ repo[Current(p).src] # Absent
        /\ Current(p).act = "copy"

\* Memory still agrees with the manifest, until prune forgets what is stale.
MemOnCourse(p) ==
    /\ pc[p] \in {"copy", "hash"} => mem[p] = manifest
    /\ pc[p] = "prune" =>
          /\ \A i \in DOMAIN plan[p] : i < next[p]
          /\ \A d \in Dst : IF For(plan[p], d) = {}
                            THEN /\ cmd[p].platform = Host => mem[p][d] = NoEntry
                            ELSE mem[p][d] = manifest[d] /\ d \notin doomed[p]

LinkOnCourse(p) ==
    /\ PlanFresh(p)
    /\ pc[p] \in {"copy", "hash", "prune"} /\ ~cmd[p].dry =>
          /\ LeftAlone(p) /\ CopiedSoFar(p) /\ WrittenPlanned(p)
          /\ HashOnCourse(p) /\ MemOnCourse(p)

LinkDone(p) ==
    pc[p] = "done" /\ cmd[p].op # "unlink" /\ ~cmd[p].dry =>
        \A d \in Dst :
            /\ For(plan[p], d) = {} /\ cmd[p].platform = Host => manifest[d] = NoEntry
            /\ \A i \in For(plan[p], d) :
                  For(plan[p], d) = {i} => Settled(p, d, plan[p][i])

(***************************************************************************)
(* doctor after link: whatever is planned twice, too.                      *)
(***************************************************************************)

\* The plan is of the config there is, and omits no entry of its platform
\* that is not a glob.
PlanOfConfig(p) ==
    /\ config # BadConfig
    /\ DOMAIN plan[p] = DOMAIN config
    /\ \A i \in DOMAIN config :
          /\ plan[p][i].src = config[i].src
          /\ plan[p][i].dst = config[i].dst
          /\ plan[p][i].kind = config[i].kind
          /\ cmd[p].platform \in config[i].platforms /\ ~config[i].glob => plan[p][i].act # "omit"
          /\ plan[p][i].act = "keep" => config[i].kind = "template"

\* Every copy made has a source, is in memory and is still in place.
CopiesInPlace(p) ==
    /\ \A i \in DOMAIN plan[p] : plan[p][i].act = "copy" /\ i < next[p] =>
          repo[plan[p][i].src] # Absent /\ written[p][plan[p][i].dst] # NoEntry
    /\ \A d \in Dst : written[p][d] # NoEntry /\ (pc[p] = "hash" => d # Current(p).dst) =>
          written[p][d].hash = disk[d]
    /\ \A i \in DOMAIN plan[p] : plan[p][i].act = "keep" => disk[plan[p][i].dst] # Absent

GreenOnCourse(p) ==
    /\ pc[p] \in {"narrow", "copy", "hash", "prune"} => PlanOfConfig(p)
    /\ pc[p] \in {"copy", "hash", "prune"} /\ ~cmd[p].dry => CopiesInPlace(p)

GreenDone(p) ==
    /\ pc[p] = "done" /\ cmd[p].op # "unlink"
    /\ ~cmd[p].dry /\ cmd[p].platform = Host
    /\ \A i \in DOMAIN config : Host \in config[i].platforms
    /\ \A i \in DOMAIN plan[p] :
          /\ plan[p][i].act # "conflict"
          /\ plan[p][i].act = "keep" => PlainTemplate(plan[p][i].dst)
    => is_all_green

(***************************************************************************)
(* Of the commands nobody has stepped beside                               *)
(***************************************************************************)
CommandGoal(p) ==
    /\ UnlinkOnCourse(p) /\ UnlinkDone(p)
    /\ LinkOnCourse(p) /\ LinkDone(p)
    /\ GreenOnCourse(p) /\ GreenDone(p)

AdoptGoal(q) == AdoptOnCourse(q) /\ DriftLeft(q) /\ ImportOnCourse(q) /\ ImportsFresh(q)

GoalInv ==
    /\ MemoryInv
    /\ \A p \in Proc \ disturbed : CommandGoal(p)
    /\ \A q \in Adopter \ disturbed : AdoptGoal(q)

\* With one command at a time nobody is ever stepped beside.
AloneInv == Alone /\ disturbed = {}
=============================================================================
