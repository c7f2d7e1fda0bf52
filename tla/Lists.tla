-------------------------------- MODULE Lists -------------------------------
(***************************************************************************)
(* How often an element is in a sequence; and the elements that are in a   *)
(* set, or pass a test, in their order: SelectSeq in a form that can be    *)
(* reasoned about.                                                         *)
(***************************************************************************)
EXTENDS SequencesExt, Naturals

Count(s, x) == Cardinality({i \in DOMAIN s : s[i] = x})

Among(s, S) ==
    LET upto[n \in 0..Len(s)] ==
            IF n = 0 THEN << >>
            ELSE IF s[n] \in S THEN Append(upto[n - 1], s[n]) ELSE upto[n - 1]
    IN  upto[Len(s)]

Those(s, Test(_)) == Among(s, {x \in ToSet(s) : Test(x)})
=============================================================================
