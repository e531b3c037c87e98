----------------------------- MODULE MCCoreMint -----------------------------
(* Small instances of CoreMint for TLC. *)
EXTENDS CoreMint, TLC

CONSTANTS y1, y2, y3, b1, b2

\* Two commitments that compete for proof y1: the larger one expires before the smaller
\* one, so a swap of the first may still run when the second is stored.  A third has
\* neither input of the second but its output, so that the two follow each other and
\* nothing but the output keeps their swaps apart.
RaceContents ==
    {[inputs |-> {y1, y2}, outputs |-> {b1}, expiry |-> 0],
     [inputs |-> {y1}, outputs |-> {b2}, expiry |-> 2],
     [inputs |-> {y2}, outputs |-> {b2}, expiry |-> 0]}

\* Two commitments with nothing in common but an output.
MixContents ==
    {[inputs |-> {y1, y2}, outputs |-> {b1, b2}, expiry |-> 0],
     [inputs |-> {y3}, outputs |-> {b2}, expiry |-> 2]}

NoChecks == {}
NoMelts == {}
MeltOne == {{y1}}
MeltBoth == {{y1, y2}}
CheckBoth == {{y1, y2}}

Symm == Permutations(Proc) \cup Permutations(Sig)
=============================================================================
