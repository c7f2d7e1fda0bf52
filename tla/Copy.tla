-------------------------------- MODULE Copy --------------------------------
(***************************************************************************)
(* The planner of krypt-core/src/copy.rs and the conflict narrowing of     *)
(* krypt-core/src/deploy.rs.                                               *)
(*                                                                         *)
(* A config is the sequence of its [[link]] entries followed by its        *)
(* [[template]] entries, each one file: a src_glob stands for one glob     *)
(* entry per file it can match, which is planned only while that file is   *)
(* in the work tree and tracked by git.                                    *)
(***************************************************************************)
EXTENDS Manifest, Sequences, Naturals

CONSTANTS
    Platform,   \* the platforms an entry can be gated to
    Host        \* the platform krypt runs on

ASSUME HostAssumption == Host \in Platform

ConfigEntry == [src : Src, dst : Dst, kind : Kind, glob : BOOLEAN,
                platforms : SUBSET Platform]

\* What the plan does with an entry: "omit" an entry the planner never
\* emits, "copy", report a "conflict", or "keep" an edited template.
Act == {"omit", "copy", "conflict", "keep"}
PlanAction == [src : Src, dst : Dst, kind : Kind, act : Act]

Selected(e, platform, repo, tracked) ==
    /\ platform \in e.platforms
    /\ e.glob => repo[e.src] # Absent /\ e.src \in tracked

BuildAction(e, disk) == IF disk[e.dst] = Absent THEN "copy" ELSE "conflict"

Plan(config, platform, repo, tracked, disk) ==
    [i \in DOMAIN config |->
        [src |-> config[i].src, dst |-> config[i].dst, kind |-> config[i].kind,
         act |-> IF Selected(config[i], platform, repo, tracked)
                 THEN BuildAction(config[i], disk) ELSE "omit"]]

Planned(plan) == {plan[i].dst : i \in {j \in DOMAIN plan : plan[j].act # "omit"}}

Ours(m, disk, d) == m[d] # NoEntry /\ disk[d] = m[d].hash

SameContent(s, f) == s \in Content /\ s = f

\* Mutant: the same-content rule is missing (the code before 0.4.3).
SafeOursOnly(a, m, repo, disk) == Ours(m, disk, a.dst)

\* A destination holding what krypt wrote, or its source's bytes already.
Safe(a, m, repo, disk) ==
    Ours(m, disk, a.dst) \/ SameContent(repo[a.src], disk[a.dst])

\* Mutant: --force is tested before the template rule (the code before 0.5.0).
NarrowedForceFirst(a, m, repo, disk, force) ==
    CASE a.act # "conflict"                                   -> a.act
      [] a.act = "conflict" /\ force                          -> "copy"
      [] OTHER -> IF Safe(a, m, repo, disk) THEN "copy"
                  ELSE IF a.kind = "template" THEN "keep" ELSE "conflict"

\* One action of narrow_conflicts: an edited template is kept even with
\* --force; any other conflict is overwritten when that is safe or forced.
Narrowed(a, m, repo, disk, force) ==
    CASE a.act # "conflict"                                   -> a.act
      [] a.act = "conflict" /\ Safe(a, m, repo, disk)         -> "copy"
      [] OTHER -> IF a.kind = "template" THEN "keep"
                  ELSE IF force THEN "copy" ELSE "conflict"

Narrow(plan, m, repo, disk, force) ==
    [i \in DOMAIN plan |->
        [plan[i] EXCEPT !.act = Narrowed(plan[i], m, repo, disk, force)]]
=============================================================================
