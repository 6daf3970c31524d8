--------------------------- MODULE SequenceFilter ---------------------------
(***************************************************************************)
(* The filter of a queue, as a recursive function so that it can be proved *)
(* about: Vec::retain and Iterator::partition in the source.               *)
(***************************************************************************)
EXTENDS Naturals, Sequences

\* The elements of s that are in S, in their order.
KeptUpTo(s, S) ==
  LET kept[i \in 0..Len(s)] ==
        IF i = 0 THEN <<>>
        ELSE IF s[i] \in S THEN Append(kept[i - 1], s[i]) ELSE kept[i - 1]
  IN  kept
Keep(s, S) == KeptUpTo(s, S)[Len(s)]
=============================================================================
