------------------------------- MODULE Krypt --------------------------------
(***************************************************************************)
(* The deploy side of krypt as a whole: the user, the deploy commands and  *)
(* adopt on one home directory, one repo and one manifest.  Nothing in the *)
(* code locks any of them.                                                 *)
(***************************************************************************)
EXTENDS Deploy, Adopt

CONSTANTS
    Racing,   \* whether commands and edits may overlap a running command
    MaxRuns   \* bound on the commands started

ASSUME KryptAssumption == Racing \in BOOLEAN /\ MaxRuns \in Nat /\ Proc \cap Adopter = {}

VARIABLES
    runs,      \* commands started
    disturbed  \* history: the running commands another actor has stepped beside

vars == <<storeVars, deployVars, adoptVars, runs, disturbed>>

Running == {p \in Proc : pc[p] # "idle"} \cup {q \in Adopter : apc[q] # "idle"}
Quiet == Running = {}

TypeOK ==
    /\ StoreTypeOK
    /\ DeployTypeOK
    /\ AdoptTypeOK
    /\ runs \in Nat
    /\ disturbed \in SUBSET (Proc \cup Adopter)

Init ==
    /\ StoreInit /\ DeployInit /\ AdoptInit
    /\ runs = 0
    /\ disturbed = {}

\* A step of one actor disturbs every other command that is running.
Beside(actors) == disturbed' = disturbed \cup (Running \ actors)

UserStep ==
    /\ Racing \/ Quiet
    /\ User
    /\ Beside({})
    /\ UNCHANGED <<deployVars, adoptVars, runs>>

Launch ==
    /\ runs < MaxRuns
    /\ Racing \/ Quiet
    /\ runs' = runs + 1

StartCommand(p) ==
    /\ Launch
    /\ \E c \in Commands : Start(p, c)
    /\ disturbed' = IF Quiet THEN disturbed \ {p} ELSE disturbed \cup Running \cup {p}
    /\ UNCHANGED adoptVars

StartAdoption(q) ==
    /\ Launch
    /\ \E a \in Adoptions : StartAdopt(q, a)
    /\ disturbed' = IF Quiet THEN disturbed \ {q} ELSE disturbed \cup Running \cup {q}
    /\ UNCHANGED deployVars

Run(p) == Step(p) /\ Beside({p}) /\ UNCHANGED <<adoptVars, runs>>
RunAdopt(q) == AdoptStep(q) /\ Beside({q}) /\ UNCHANGED <<deployVars, runs>>
Stop(p) == Abort(p) /\ Beside({p}) /\ UNCHANGED <<adoptVars, runs>>
StopAdopt(q) == AdoptAbort(q) /\ Beside({q}) /\ UNCHANGED <<deployVars, runs>>

Next ==
    \/ UserStep
    \/ \E p \in Proc : StartCommand(p) \/ Run(p) \/ Stop(p)
    \/ \E q \in Adopter : StartAdoption(q) \/ RunAdopt(q) \/ StopAdopt(q)

Spec == Init /\ [][Next]_vars

(***************************************************************************)
(* Safety                                                                  *)
(***************************************************************************)

\* A step of krypt's, not the user's, changes what is at d.
Touched(d) == disk'[d] # disk[d] /\ edits' = edits

Forced == \E p \in Proc : pc[p] # "idle" /\ cmd[p].force

\* Every hash the manifest records for a destination is of bytes krypt wrote
\* there or copied from there into the repo: so "matches the manifest", the
\* test before every overwrite and deletion, means krypt may give them up.
RecordsKnown ==
    \A d \in Dst : manifest[d] # NoEntry => manifest[d].hash \in Known(d)

\* Without --force no command overwrites or deletes bytes at a destination
\* that krypt neither wrote there nor saved from there in the repo: not
\* link, prune, unlink nor relink, after whatever crashes, failed runs,
\* config changes and pulls came before.
NoSilentLoss ==
    [][\A d \in Dst : Touched(d) => disk[d] \in Known(d) \cup {Absent} \/ Forced]_vars

\* d holds values filled in on this machine, and both the manifest and the
\* config, as far as they speak of d, say it is a template.
TemplateEdit(d) ==
    /\ disk[d] \in Content \ Known(d)
    /\ manifest[d] # NoEntry => manifest[d].kind = "template"
    /\ config # BadConfig =>
         \A i \in DOMAIN config : config[i].dst = d => config[i].kind = "template"

\* No command, --force or not, changes an edited template destination.
TemplateEditsSurvive == [][\A d \in Dst : Touched(d) => ~TemplateEdit(d)]_vars

\* A dry run changes neither a file nor the manifest.
DryRunReadOnly ==
    [][ \/ \E p \in Proc : pc[p] # "idle" /\ cmd[p].dry
        \/ \E q \in Adopter : apc[q] # "idle" /\ acmd[q].dry
        => UNCHANGED <<disk, repo, manifest>>]_vars

\* The actions a plan holds for a destination.
For(pl, d) == {i \in DOMAIN pl : pl[i].dst = d /\ pl[i].act # "omit"}

\* d is as its one plan action says: it holds its source's bytes and is
\* recorded so, or the run reported and left a file that is not krypt's.
Settled(p, d, a) ==
    IF disk[d] = repo[a.src]
    THEN manifest[d] = [src |-> a.src, kind |-> a.kind, hash |-> disk[d]]
    ELSE /\ a.act # "copy"
         /\ disk[d] # Absent
         /\ ~Ours(manifest, disk, d)
         /\ a.kind = "link" => ~cmd[p].force

\* When a link (or relink) succeeds with nobody beside it, every destination
\* it planned once is settled, and the manifest lists none it did not plan,
\* whatever state earlier failed, crashed or racing commands left behind.
LinkConverges ==
    \A p \in Proc \ disturbed :
        pc[p] = "done" /\ cmd[p].op # "unlink" /\ ~cmd[p].dry =>
            \A d \in Dst :
                /\ For(plan[p], d) = {} /\ cmd[p].platform = Host => manifest[d] = NoEntry
                /\ \A i \in For(plan[p], d) :
                      For(plan[p], d) = {i} => Settled(p, d, plan[p][i])

\* When an unlink succeeds with nobody beside it, what the manifest still
\* lists is on disk and drifted; after --force only template edits are left,
\* and files that cannot be read are not among them.
UnlinkClears ==
    \A p \in Proc \ disturbed :
        pc[p] = "done" /\ cmd[p].op = "unlink" /\ ~cmd[p].dry =>
            \A d \in Dst : manifest[d] # NoEntry =>
                /\ Status(manifest[d], disk[d]) = "drifted"
                /\ cmd[p].force => manifest[d].kind = "template" /\ disk[d] # Unreadable

\* Once adopt has saved the edits it was asked for, with nobody beside it,
\* the only drift left is on destinations it was not to touch.
AdoptSettlesDrift ==
    \A q \in Adopter \ disturbed :
        apc[q] \in {"import", "record"} /\ ~acmd[q].dry =>
            \A d \in WithStatus(manifest, disk, "drifted") :
                /\ d \notin acmd[q].only
                /\ acmd[q].only = {} => manifest[d].kind = "template"

\* What krypt writes over a source is what a destination holds then: an edit
\* to a file deployed from that very source, or a file that adopt was asked to
\* import under that name, which was free unless --force.
SourcesKept ==
    [][\A s \in Src : repo'[s] # repo[s] /\ edits' = edits =>
          \E d \in Dst :
             /\ repo'[s] = disk[d]
             /\ \/ /\ manifest[d] # NoEntry /\ manifest[d].src = s
                   /\ Status(manifest[d], disk[d]) = "drifted"
                \/ \E q \in Adopter :
                      /\ d \in acmd[q].only /\ manifest[d] = NoEntry
                      /\ ImportSrc(q, d) = s
                      /\ repo[s] = Absent \/ acmd[q].force]_vars

(***************************************************************************)
(* What the repository says of itself and the code does not keep           *)
(***************************************************************************)

\* "krypt link will not clobber a file it didn't write unless you pass
\* --force": what a link without it overwrites or deletes, krypt wrote.
Linking == \E p \in Proc : pc[p] # "idle" /\ cmd[p].op = "link"

ClobbersOnlyItsOwn ==
    [][\A d \in Dst : Touched(d) /\ Linking =>
          disk[d] \in wrote[d] \cup {Absent} \/ Forced]_vars

\* adopt "copies every deployed file you edited in place back to its repo
\* source": when it has saved, each edit it adopted is in the repo.
EditsReachRepo ==
    \A q \in Adopter \ disturbed :
        apc[q] = "import" /\ acmd[q].only = {} =>
            \A d \in Dst : updated[q][d] # NoEntry => repo[updated[q][d].src] = disk[d]
=============================================================================
