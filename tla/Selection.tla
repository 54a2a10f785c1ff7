------------------------------ MODULE Selection ------------------------------
(***************************************************************************)
(* Selecting from a sequence by a set of wanted elements.  SelectSeq takes *)
(* a test, which the provers cannot instantiate; with a set in its place    *)
(* what the stores of the node keep and drop can be proved as well as run. *)
(***************************************************************************)
EXTENDS Naturals, Sequences

(* The elements of s that are in T, in the order of s.                     *)
Select(s, T) ==
    LET kept[n \in 0..Len(s)] ==
            IF n = 0 THEN <<>>
            ELSE IF s[n] \in T THEN Append(kept[n - 1], s[n]) ELSE kept[n - 1]
    IN  kept[Len(s)]
==============================================================================
