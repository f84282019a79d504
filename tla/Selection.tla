----------------------------- MODULE Selection -----------------------------
(***************************************************************************)
(* What filtering a sequence leaves of it, in its order. It is SelectSeq   *)
(* with a set for the test, defined here because the prover knows nothing  *)
(* of SelectSeq: it does not expand the operators of Sequences.            *)
(***************************************************************************)
EXTENDS Naturals, Sequences

Only(s, S) ==
  LET kept[n \in 0..Len(s)] ==
        IF n = 0 THEN <<>>
        ELSE IF s[n] \in S THEN Append(kept[n - 1], s[n]) ELSE kept[n - 1]
  IN  kept[Len(s)]
=============================================================================
