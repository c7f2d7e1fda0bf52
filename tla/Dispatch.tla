------------------------------ MODULE Dispatch ------------------------------
(***************************************************************************)
(* krypt <group> [name] (krypt-core/src/dispatch.rs): which of the         *)
(* config's [[command]]s is run, and which are listed.  A group and a name *)
(* may be repeated, gated to different platforms.                          *)
(***************************************************************************)
EXTENDS Runner

CONSTANTS
    Group, Name, \* what commands are called
    Platform,    \* the platforms a command can be gated to
    Host         \* the platform krypt runs on

ASSUME DispatchAssumption == Host \in Platform

\* The gate of a command without a platform is empty: validate_platform
\* accepts no other that is.
CommandType == [group : Group, name : Name, gate : SUBSET Platform, steps : Seq(StepType)]

GatedTo(c) == Host \in c.gate

First(S) == CHOOSE i \in S : \A j \in S : i <= j

\* Mutant: the first entry of that name is taken, whatever its platform.
PreferredFirst(cs, S) == First(S)

\* The first entry listing this platform, else the first without one.
Preferred(cs, S) ==
    LET native == {i \in S : GatedTo(cs[i])}
        bare == {i \in S : cs[i].gate = {}}
    IN  First(IF native # {} THEN native ELSE IF bare # {} THEN bare ELSE S)

\* The command run, 0 for CommandNotFound, GroupNotFound or PlatformMismatch.
Dispatched(cs, g, n) ==
    LET S == {i \in DOMAIN cs : cs[i].group = g /\ cs[i].name = n}
    IN  IF S = {} THEN 0
        ELSE LET i == Preferred(cs, S)
             IN  IF cs[i].gate = {} \/ GatedTo(cs[i]) THEN i ELSE 0

\* What list_in_group shows without --all.
Listed(cs, g) ==
    LET native == {cs[i].name : i \in {j \in DOMAIN cs : cs[j].group = g /\ GatedTo(cs[j])}}
    IN  {i \in DOMAIN cs :
            /\ cs[i].group = g
            /\ IF cs[i].gate = {} THEN cs[i].name \notin native ELSE GatedTo(cs[i])}
=============================================================================
