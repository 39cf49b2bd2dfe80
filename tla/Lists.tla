------------------------------- MODULE Lists -------------------------------
(***************************************************************************)
(* What the queries and the comprehensions of the server do to a list.     *)
(***************************************************************************)
EXTENDS Integers, Sequences

\* Those of the list that are in S, in their order: SelectSeq by a recursive
\* function, for the provers know nothing of SelectSeq.
Keep(s, S) ==
    LET kept[n \in 0..Len(s)] ==
            IF n = 0 THEN <<>>
            ELSE IF s[n] \in S THEN Append(kept[n - 1], s[n]) ELSE kept[n - 1]
    IN kept[Len(s)]
=============================================================================
