------------------------------ MODULE Sublist ------------------------------
(* The members of a sequence that are in a set, in their order: SelectSeq   *)
(* with a set for its test, so that the proofs can follow it.               *)
EXTENDS Integers, Sequences

Only(s, T) ==
    LET kept[n \in 0 .. Len(s)] ==
            IF n = 0 THEN <<>>
            ELSE IF s[n] \in T THEN Append(kept[n - 1], s[n]) ELSE kept[n - 1]
    IN  kept[Len(s)]
=============================================================================
