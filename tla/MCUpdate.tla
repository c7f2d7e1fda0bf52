------------------------------ MODULE MCUpdate ------------------------------
(***************************************************************************)
(* Instances of Update for TLC.  From c0 the remote goes on to c1 and c3,  *)
(* and the user may commit c2, which diverges from them: all change f, c1  *)
(* drops g, c3 brings it back and drops f.  b3 is b0 with both the remote's *)
(* change to b1 and the user's to b2.                                       *)
(***************************************************************************)
EXTENDS UpdateInv

CONSTANTS f, g, b0, b1, b2, b3, c0, c1, c2, c3

Files2(x, y) == [p \in Path |-> CASE p = f -> x [] p = g -> y]

MCTree == [c \in Commit |->
    CASE c = c0 -> Files2(b0, b0)
      [] c = c1 -> Files2(b1, Gone)
      [] c = c2 -> Files2(b2, b0)
      [] c = c3 -> Files2(Gone, b1)]

MCCombine == [m \in Blob \X Blob \X Blob |-> IF m = <<b0, b1, b2>> THEN b3 ELSE Markers]

MCBefore == {<<c, c>> : c \in Commit} \cup {<<c0, c1>>, <<c0, c2>>, <<c0, c3>>, <<c1, c3>>}

\* The same without a crash.
MCUncrashed ==
    Init /\ [][User \/ (\E o \in Options : Start(o)) \/ Pull \/ Link \/ LinkFails \/ Hooks]_vars
=============================================================================
