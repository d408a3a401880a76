----------------------------- MODULE Subsequence -----------------------------
(***************************************************************************)
(* The loop that appends some elements of a list to another one, as the    *)
(* code writes it.  SelectSeq says the same; this form has the loop's      *)
(* steps, which proofs need.                                               *)
(***************************************************************************)
EXTENDS Integers, Sequences

(* The elements of s that are in S, in order; kept[i] is what the loop has *)
(* collected after i of them.                                              *)
Among(s, S) ==
  LET kept[i \in 0..Len(s)] ==
        IF i = 0 THEN <<>>
        ELSE IF s[i] \in S THEN Append(kept[i - 1], s[i])
        ELSE kept[i - 1]
  IN kept[Len(s)]
=============================================================================
