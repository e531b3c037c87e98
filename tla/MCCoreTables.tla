---------------------------- MODULE MCCoreTables ----------------------------
(* A small instance of CoreTables for TLC. *)
EXTENDS CoreTables, TLC

CONSTANTS y1, y2, b1, b2, k1

OneKeyset == [b \in B |-> k1]

\* Commitments that overlap in an input; the larger one expires first.
RaceContents ==
    {[inputs |-> {y1, y2}, outputs |-> {b1}, expiry |-> 0],
     [inputs |-> {y1}, outputs |-> {b2}, expiry |-> 2]}

MeltOne == {{y1}}
BurnOther == {{y2}}

Symm == Permutations(Proc) \cup Permutations(Sig)
=============================================================================
