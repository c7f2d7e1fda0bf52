------------------------------ MODULE KryptInv ------------------------------
(***************************************************************************)
(* The inductive invariants behind the theorems about Krypt.               *)
(***************************************************************************)
EXTENDS Krypt

(***************************************************************************)
(* Types: what TypeOK leaves open about the places a record is read from.  *)
(***************************************************************************)

\* A copy being hashed is an action of the plan.
HashesPlanned == \A p \in Proc : pc[p] = "hash" => next[p] \in DOMAIN plan[p]

\* An edit being adopted has a manifest entry, hence a source.
EditsRecorded == \A q \in Adopter : \A d \in edited[q] : amem[q][d] # NoEntry

\* A file being imported has a source.
ImportsNamed ==
    \A q \in Adopter : apc[q] = "record" =>
        \A d \in current[q] : ImportSrc(q, d) \in Src

TypeInv == TypeOK /\ HashesPlanned /\ EditsRecorded /\ ImportsNamed

(***************************************************************************)
(* Custody: one command at a time, and no record of bytes that krypt       *)
(* neither wrote nor saved, in the manifest or in a command's memory.      *)
(***************************************************************************)
Alone == \A a, b \in Running : a = b

\* RecordsKnown, of a manifest in memory.
KnownIn(m) == \A d \in Dst : m[d] # NoEntry => m[d].hash \in Known(d)

\* The copy being hashed is still the one that was written.
HashKnown(p) == pc[p] = "hash" => disk[Current(p).dst] \in wrote[Current(p).dst]

\* d holds nothing of the user's.
Expendable(d) == disk[d] \in Known(d) \cup {Absent}

\* What a command will delete is expendable, or was drifted, not a template
\* edit, and is being unlinked with --force.
DoomedSafe(p) ==
    pc[p] \in {"unlink", "prune"} =>
        \A d \in doomed[p] :
            \/ Expendable(d)
            \/ /\ pc[p] = "unlink" /\ cmd[p].force
               /\ disk[d] \in Content =>
                    manifest[d] # NoEntry /\ manifest[d].kind # "template"

\* A plan follows the config entry by entry.
PlanFollowsConfig(p) ==
    pc[p] \in {"narrow", "copy", "hash"} =>
        /\ config # BadConfig
        /\ DOMAIN plan[p] = DOMAIN config
        /\ \A i \in DOMAIN config :
              plan[p][i].dst = config[i].dst /\ plan[p][i].kind = config[i].kind

\* Before narrowing a plan copies only where there is nothing.
FreshSafe(p) ==
    pc[p] = "narrow" =>
        \A i \in DOMAIN plan[p] :
            plan[p][i].act = "copy" => disk[plan[p][i].dst] = Absent

\* What a copy overwrites is expendable, or what it writes, or a link's
\* destination with --force.
CopySafe(p) ==
    pc[p] \in {"copy", "hash"} =>
        \A i \in DOMAIN plan[p] : plan[p][i].act = "copy" =>
            \/ Expendable(plan[p][i].dst)
            \/ disk[plan[p][i].dst] = repo[plan[p][i].src]
            \/ cmd[p].force /\ plan[p][i].kind = "link"

CommandSafe(p) ==
    /\ KnownIn(mem[p]) /\ KnownIn(written[p])
    /\ HashKnown(p) /\ DoomedSafe(p)
    /\ PlanFollowsConfig(p) /\ FreshSafe(p) /\ CopySafe(p)

\* The source being recorded is still the one that was imported.
ImportKnown(q) ==
    apc[q] = "record" => \A d \in current[q] : repo[ImportSrc(q, d)] \in adopted[d]

AdoptSafe(q) == KnownIn(amem[q]) /\ KnownIn(updated[q]) /\ ImportKnown(q)

CustodyInv ==
    /\ TypeInv
    /\ Alone
    /\ RecordsKnown
    /\ \A p \in Proc : CommandSafe(p)
    /\ \A q \in Adopter : AdoptSafe(q)
=============================================================================
