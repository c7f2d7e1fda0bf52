------------------------------ MODULE Custody -------------------------------
(***************************************************************************)
(* What krypt promises of a home directory, whatever its commands do       *)
(* inside: it holds files in trust.  Each destination has bytes, a set of  *)
(* contents that are in its custody - it wrote them there or saved them    *)
(* from there - and the claim the manifest makes.  Bytes out of custody    *)
(* are the user's, and leave only by the user's hand or under --force; the *)
(* files change one at a time; and nothing is claimed that is not held.    *)
(***************************************************************************)
EXTENDS Naturals

CONSTANTS Dst, Content, Absent, Unreadable, NoClaim

VARIABLES
    disk,    \* what each destination holds
    custody, \* the contents krypt may give up there
    claim,   \* the bytes the manifest says it deployed, or NoClaim
    hand,    \* the steps the user has taken
    forced   \* whether a --force command is running

vars == <<disk, custody, claim, hand, forced>>

Init ==
    /\ disk \in [Dst -> Content \cup {Absent, Unreadable}]
    /\ custody = [d \in Dst |-> {}]
    /\ claim = [d \in Dst |-> NoClaim]
    /\ hand = 0
    /\ forced = FALSE

\* The user changes a file, or something custody does not speak of.
ByHand ==
    /\ hand' = hand + 1
    /\ \/ disk' = disk
       \/ \E d \in Dst, f \in Content \cup {Absent, Unreadable} :
              disk' = [disk EXCEPT ![d] = f]
    /\ UNCHANGED <<custody, claim, forced>>

\* krypt may give up what d holds.
MayLeave(d) == disk[d] \in custody[d] \cup {Absent} \/ forced

Write(d, c) ==
    /\ MayLeave(d)
    /\ disk' = [disk EXCEPT ![d] = c]
    /\ custody' = [custody EXCEPT ![d] = @ \cup {c}]
    /\ UNCHANGED <<claim, hand, forced>>

Remove(d) ==
    /\ MayLeave(d)
    /\ disk[d] # Absent
    /\ disk' = [disk EXCEPT ![d] = Absent]
    /\ UNCHANGED <<custody, claim, hand, forced>>

\* The bytes found at d are copied somewhere safe.
Save(d, c) ==
    /\ custody' = [custody EXCEPT ![d] = @ \cup {c}]
    /\ UNCHANGED <<disk, claim, hand, forced>>

\* The manifest file is replaced, whole.
Claim ==
    /\ claim' \in [Dst -> Content \cup {NoClaim}]
    /\ \A d \in Dst : claim'[d] \in custody[d] \cup {NoClaim}
    /\ UNCHANGED <<disk, custody, hand, forced>>

\* A command starts or ends: only whether one is forced changes.
Begin == UNCHANGED <<disk, custody, claim, hand>>

Next ==
    \/ ByHand
    \/ \E d \in Dst : Remove(d) \/ \E c \in Content : Write(d, c) \/ Save(d, c)
    \/ Claim
    \/ Begin

Spec == Init /\ [][Next]_vars
=============================================================================
