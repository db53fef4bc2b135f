----------------------------- MODULE Selection -----------------------------
(* The elements of a queue that somebody is interested in.                  *)
EXTENDS Naturals, Sequences

\* The elements of a sequence that are in kept, in their order: SelectSeq, as
\* a function of how far the sequence was read.
Only(s, kept) ==
  LET only[n \in Nat] ==
        IF n = 0 THEN <<>>
        ELSE IF s[n] \in kept THEN Append(only[n - 1], s[n]) ELSE only[n - 1]
  IN  only[Len(s)]
=============================================================================
