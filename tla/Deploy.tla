------------------------------- MODULE Deploy -------------------------------
(***************************************************************************)
(* krypt link, unlink and relink (krypt-core/src/deploy.rs), one step per  *)
(* file-system effect, so that a crash, an I/O error, another command or   *)
(* the user can come between any two.                                      *)
(*                                                                         *)
(*   link    plan - narrow - (copy - hash)* - prune* - save                *)
(*   unlink  load - remove* - save                                         *)
(*   relink  unlink, then link                                             *)
(***************************************************************************)
EXTENDS Store

CONSTANTS
    Proc,      \* the processes that can run a deploy command
    Commands   \* the command lines they are given

Op == {"link", "unlink", "relink"}
Command == [op : Op, dry : BOOLEAN, force : BOOLEAN, platform : Platform]

\* What an idle process is left with.
NoCommand == [op |-> "link", dry |-> FALSE, force |-> FALSE, platform |-> Host]

ASSUME CommandsAssumption == Commands \subseteq Command

VARIABLES
    pc,       \* where each process is
    cmd,      \* its command line
    plan,     \* its plan, narrowed once past "narrow"
    mem,      \* its copy of the manifest
    next,     \* the plan action it executes next
    written,  \* the entries for the files it has copied
    doomed    \* the destinations it has decided to delete

deployVars == <<pc, cmd, plan, mem, next, written, doomed>>

PC == {"idle", "load", "unlink", "plan", "narrow", "copy", "hash", "prune", "done"}

DeployTypeOK ==
    /\ pc \in [Proc -> PC]
    /\ cmd \in [Proc -> Command]
    /\ plan \in [Proc -> Seq(PlanAction)]
    /\ mem \in [Proc -> ManifestType]
    /\ next \in [Proc -> Nat \ {0}]
    /\ written \in [Proc -> ManifestType]
    /\ doomed \in [Proc -> SUBSET Dst]

DeployInit ==
    /\ pc = [p \in Proc |-> "idle"]
    /\ cmd = [p \in Proc |-> NoCommand]
    /\ plan = [p \in Proc |-> << >>]
    /\ mem = [p \in Proc |-> EmptyManifest]
    /\ next = [p \in Proc |-> 1]
    /\ written = [p \in Proc |-> EmptyManifest]
    /\ doomed = [p \in Proc |-> {}]

At(p, l) == pc[p] = l
Goto(p, l) == pc' = [pc EXCEPT ![p] = l]

\* The command ends and its memory is gone; what it wrote stays.
Exit(p) ==
    /\ Goto(p, "idle")
    /\ cmd' = [cmd EXCEPT ![p] = NoCommand]
    /\ plan' = [plan EXCEPT ![p] = << >>]
    /\ mem' = [mem EXCEPT ![p] = EmptyManifest]
    /\ next' = [next EXCEPT ![p] = 1]
    /\ written' = [written EXCEPT ![p] = EmptyManifest]
    /\ doomed' = [doomed EXCEPT ![p] = {}]
    /\ UNCHANGED storeVars

Start(p, c) ==
    /\ At(p, "idle")
    /\ Goto(p, IF c.op = "link" THEN "plan" ELSE "load")
    /\ cmd' = [cmd EXCEPT ![p] = c]
    /\ UNCHANGED <<plan, mem, next, written, doomed, storeVars>>

(***************************************************************************)
(* unlink                                                                  *)
(***************************************************************************)

\* The destinations unlink deletes: clean ones, and with --force drifted
\* ones that are not template edits.
Deletable(m, force) ==
    WithStatus(m, disk, "clean")
        \cup {d \in WithStatus(m, disk, "drifted") : force /\ ~IsLocalEdit(m[d], disk[d])}

\* Mutant: the entries whose destination is already gone are kept.
LoadKeepsMissing(p) ==
    /\ At(p, "load")
    /\ LET del == Deletable(manifest, cmd[p].force)
       IN  /\ doomed' = [doomed EXCEPT ![p] = IF cmd[p].dry THEN {} ELSE del]
           /\ mem' = [mem EXCEPT ![p] = ForgetAll(manifest, del)]
    /\ Goto(p, "unlink")
    /\ UNCHANGED <<cmd, plan, next, written, storeVars>>

\* unlink loads the manifest and classifies every entry up front.
Load(p) ==
    /\ At(p, "load")
    /\ LET del == Deletable(manifest, cmd[p].force)
       IN  /\ doomed' = [doomed EXCEPT ![p] = IF cmd[p].dry THEN {} ELSE del]
           /\ mem' = [mem EXCEPT ![p] =
                         ForgetAll(manifest, del \cup WithStatus(manifest, disk, "missing"))]
    /\ Goto(p, "unlink")
    /\ UNCHANGED <<cmd, plan, next, written, storeVars>>

\* Every deletion done, unlink saves the manifest without the entries it
\* forgot; relink goes on to link.
SaveUnlinked(p) ==
    /\ At(p, "unlink") /\ doomed[p] = {}
    /\ manifest' = IF cmd[p].dry THEN manifest ELSE mem[p]
    /\ Goto(p, IF cmd[p].op = "relink" THEN "plan" ELSE "done")
    /\ UNCHANGED <<cmd, plan, mem, next, written, doomed,
                   disk, repo, tracked, config, wrote, adopted, edits>>

(***************************************************************************)
(* Deleting, in unlink and in link's prune                                 *)
(***************************************************************************)
RemoveFile(p, d) ==
    /\ pc[p] \in {"unlink", "prune"}
    /\ d \in doomed[p]
    /\ disk[d] # Absent
    /\ disk' = [disk EXCEPT ![d] = Absent]
    /\ doomed' = [doomed EXCEPT ![p] = @ \ {d}]
    /\ UNCHANGED <<pc, cmd, plan, mem, next, written,
                   repo, tracked, config, manifest, wrote, adopted, edits>>

\* The file has gone since it was classified: the command fails unsaved.
RemoveFails(p, d) ==
    /\ pc[p] \in {"unlink", "prune"}
    /\ d \in doomed[p]
    /\ disk[d] = Absent
    /\ Exit(p)

(***************************************************************************)
(* link                                                                    *)
(***************************************************************************)
ConfigFails(p) ==
    /\ At(p, "plan")
    /\ config = BadConfig
    /\ Exit(p)

MakePlan(p) ==
    /\ At(p, "plan")
    /\ config # BadConfig
    /\ plan' = [plan EXCEPT ![p] = Plan(config, cmd[p].platform, repo, tracked, disk)]
    /\ Goto(p, "narrow")
    /\ UNCHANGED <<cmd, mem, next, written, doomed, storeVars>>

\* link loads the manifest and settles the plan's conflicts against it.
LoadAndNarrow(p) ==
    /\ At(p, "narrow")
    /\ mem' = [mem EXCEPT ![p] = manifest]
    /\ plan' = [plan EXCEPT ![p] = Narrow(@, manifest, repo, disk, cmd[p].force)]
    /\ Goto(p, "copy")
    /\ UNCHANGED <<cmd, next, written, doomed, storeVars>>

Current(p) == plan[p][next[p]]
Executing(p) == At(p, "copy") /\ next[p] \in DOMAIN plan[p]
Advance(p) == next' = [next EXCEPT ![p] = @ + 1]

\* Mutant: a skipped conflict is recorded as if it had been written.
PassOverRecords(p) ==
    /\ Executing(p)
    /\ LET a == Current(p)
       IN  /\ a.act # "copy" \/ cmd[p].dry
           /\ written' = IF a.act = "conflict" /\ disk[a.dst] \in Content
                         THEN [written EXCEPT ![p][a.dst] =
                                [src |-> a.src, kind |-> a.kind, hash |-> disk[a.dst]]]
                         ELSE written
    /\ Advance(p)
    /\ UNCHANGED <<pc, cmd, plan, mem, doomed, storeVars>>

\* Nothing to copy: not planned, a conflict, a kept template, or a dry run.
PassOver(p) ==
    /\ Executing(p)
    /\ Current(p).act # "copy" \/ cmd[p].dry
    /\ Advance(p)
    /\ UNCHANGED <<pc, cmd, plan, mem, written, doomed, storeVars>>

\* A missing source ends the run; the copies made so far go unrecorded.
SourceMissing(p) ==
    /\ Executing(p)
    /\ Current(p).act = "copy" /\ ~cmd[p].dry
    /\ repo[Current(p).src] = Absent
    /\ Exit(p)

\* Mutant: a dry run copies.
CopyFileDry(p) ==
    /\ Executing(p)
    /\ Current(p).act = "copy"
    /\ repo[Current(p).src] # Absent
    /\ disk' = [disk EXCEPT ![Current(p).dst] = repo[Current(p).src]]
    /\ wrote' = [wrote EXCEPT ![Current(p).dst] = @ \cup {repo[Current(p).src]}]
    /\ Goto(p, "hash")
    /\ UNCHANGED <<cmd, plan, mem, next, written, doomed,
                   repo, tracked, config, manifest, adopted, edits>>

\* The copy reaches its destination by rename, whole.
CopyFile(p) ==
    /\ Executing(p)
    /\ Current(p).act = "copy" /\ ~cmd[p].dry
    /\ repo[Current(p).src] # Absent
    /\ disk' = [disk EXCEPT ![Current(p).dst] = repo[Current(p).src]]
    /\ wrote' = [wrote EXCEPT ![Current(p).dst] = @ \cup {repo[Current(p).src]}]
    /\ Goto(p, "hash")
    /\ UNCHANGED <<cmd, plan, mem, next, written, doomed,
                   repo, tracked, config, manifest, adopted, edits>>

\* The destination is hashed by a second read of the file system; one that
\* has become unreadable is not recorded.
HashCopy(p) ==
    /\ At(p, "hash")
    /\ LET a == Current(p)
       IN  written' = IF disk[a.dst] \in Content
                      THEN [written EXCEPT ![p][a.dst] =
                              [src |-> a.src, kind |-> a.kind, hash |-> disk[a.dst]]]
                      ELSE written
    /\ Advance(p)
    /\ Goto(p, "copy")
    /\ UNCHANGED <<cmd, plan, mem, doomed, storeVars>>

\* Mutant: only what is deleted is forgotten.
StaleClean(m, pl) ==
    ({d \in Dst : m[d] # NoEntry} \ Planned(pl)) \cap WithStatus(m, disk, "clean")

\* The entries the plan no longer produces.
Stale(m, pl) == {d \in Dst : m[d] # NoEntry} \ Planned(pl)

\* Mutant: prune deletes edited destinations too.
PrunableAll(m, pl) == Stale(m, pl) \ WithStatus(m, disk, "missing")

\* Of those, the ones still holding what was recorded, which prune deletes.
Prunable(m, pl) == Stale(m, pl) \cap WithStatus(m, disk, "clean")

\* With the plan executed, link prunes - unless it planned for another
\* platform - by forgetting every stale entry and deleting the clean ones.
Prune(p) ==
    /\ At(p, "copy") /\ next[p] \notin DOMAIN plan[p]
    /\ LET prunes == cmd[p].platform = Host /\ ~cmd[p].dry
       IN  /\ doomed' = [doomed EXCEPT ![p] =
                            IF prunes THEN Prunable(mem[p], plan[p]) ELSE {}]
           /\ mem' = [mem EXCEPT ![p] =
                            IF prunes THEN ForgetAll(@, Stale(@, plan[p])) ELSE @]
    /\ Goto(p, "prune")
    /\ UNCHANGED <<cmd, plan, next, written, storeVars>>

SaveLinked(p) ==
    /\ At(p, "prune") /\ doomed[p] = {}
    /\ manifest' = IF cmd[p].dry THEN manifest ELSE RecordAll(mem[p], written[p])
    /\ Goto(p, "done")
    /\ UNCHANGED <<cmd, plan, mem, next, written, doomed,
                   disk, repo, tracked, config, wrote, adopted, edits>>

(***************************************************************************)
(* A command returns, or stops anywhere: a crash, or an I/O error that the *)
(* code's `?` turns into an early return that saves nothing.               *)
(***************************************************************************)
Return(p) == At(p, "done") /\ Exit(p)

Abort(p) == pc[p] \notin {"idle", "done"} /\ Exit(p)

Step(p) ==
    \/ Load(p) \/ SaveUnlinked(p)
    \/ \E d \in Dst : RemoveFile(p, d) \/ RemoveFails(p, d)
    \/ ConfigFails(p) \/ MakePlan(p) \/ LoadAndNarrow(p)
    \/ PassOver(p) \/ SourceMissing(p) \/ CopyFile(p) \/ HashCopy(p)
    \/ Prune(p) \/ SaveLinked(p)
    \/ Return(p)
=============================================================================
