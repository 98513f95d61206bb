--------------------------------- MODULE Lists ---------------------------------
(***************************************************************************)
(* Array.prototype.filter, by the elements it keeps.  The prover takes     *)
(* SelectSeq for unknown, and an operator as a parameter too: what is      *)
(* proved about is filtered by a set, with a recursive function.           *)
(***************************************************************************)
EXTENDS Integers, Sequences

\* The elements of s that are in T, in order.
Kept(s, T) ==
    LET kept[n \in 0..Len(s)] ==
            IF n = 0 THEN <<>> ELSE IF s[n] \in T THEN Append(kept[n - 1], s[n]) ELSE kept[n - 1]
    IN  kept[Len(s)]

===============================================================================
