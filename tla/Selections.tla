----------------------------- MODULE Selections -----------------------------
(***************************************************************************)
(* The elements of a sequence that are in a set, in the order of the       *)
(* sequence: SelectSeq, but with a set for its argument instead of an      *)
(* operator, so that it can be reasoned about.                             *)
(***************************************************************************)
EXTENDS Naturals, Sequences

Those(s, T) ==
  LET upTo[n \in 0 .. Len(s)] ==
        IF n = 0 THEN <<>>
        ELSE IF s[n] \in T THEN Append(upTo[n - 1], s[n]) ELSE upTo[n - 1]
  IN  upTo[Len(s)]
=============================================================================
