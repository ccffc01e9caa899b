------------------------------ MODULE SeqOnly -------------------------------
(***************************************************************************)
(* The filter of a sequence, for the modules that are proved about:        *)
(* SelectSeq as a recursive function of a set.                             *)
(***************************************************************************)
EXTENDS Naturals, Sequences

\* The elements of a sequence that are in S, in their order.
Only(s, S) ==
    LET kept[n \in 0..Len(s)] ==
            IF n = 0 THEN <<>> ELSE IF s[n] \in S THEN Append(kept[n - 1], s[n]) ELSE kept[n - 1]
    IN kept[Len(s)]
=============================================================================
