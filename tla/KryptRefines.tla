---------------------------- MODULE KryptRefines ----------------------------
(***************************************************************************)
(* Krypt implements Custody: every step of every command, of adopt and of  *)
(* the user, and every crash, is a step of Custody or a stutter.           *)
(***************************************************************************)
EXTENDS Krypt

\* What the manifest says it deployed; Absent is never among the contents.
Claimed == [d \in Dst |-> IF manifest[d] = NoEntry THEN Absent ELSE manifest[d].hash]

Held == INSTANCE Custody WITH
    custody <- [d \in Dst |-> Known(d)],
    claim <- Claimed,
    NoClaim <- Absent,
    hand <- edits,
    forced <- Forced

\* The deploy side keeps the promise Custody states: one file at a time, no
\* bytes out of custody lost without --force, no claim to bytes never held.
KeepsCustody == Held!Spec
=============================================================================
