------------------------------- MODULE Filter -------------------------------
(* The elements of a sequence that belong to a set, in their order.        *)
EXTENDS Naturals, Sequences

Kept(s, T) ==
  LET kept[i \in 0 .. Len(s)] ==
        IF i = 0 THEN <<>>
        ELSE IF s[i] \in T THEN Append(kept[i - 1], s[i]) ELSE kept[i - 1]
  IN kept[Len(s)]
=============================================================================
