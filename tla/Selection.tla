----------------------------- MODULE Selection -----------------------------
(***************************************************************************)
(* The elements of a sequence that are in a set, in their order: what the  *)
(* code's loops over an array keep.  It is SelectSeq, written so that      *)
(* theorems may be proved of it (see SequenceFacts_proofs).                *)
(***************************************************************************)
EXTENDS Naturals, Sequences

Selected(s, A) ==
  LET upTo[n \in 0..Len(s)] ==
        IF n = 0 THEN <<>>
        ELSE IF s[n] \in A THEN Append(upTo[n - 1], s[n]) ELSE upTo[n - 1]
  IN  upTo[Len(s)]
=============================================================================
