---------------------------- MODULE MCEbillMint ----------------------------
(* Small instances of EbillMint for TLC. *)
EXTENDS EbillMint, TLC, FiniteSetsExt

CONSTANTS u1, u2, e1, e2, k1, k2, b1, b2, b3

\* b3 is worth as much as b1 and b2 together.
AmountOf(b) == IF b = b3 THEN 2 ELSE 1

WorthOfOutputs == [S \in SUBSET B |-> MapThenSumSet(AmountOf, S)]

\* Two quotes on one bill, one of them asked for again with another target.
RivalOps ==
    {[uid |-> u1, bill |-> e1, key |-> k1, target |-> 1],
     [uid |-> u1, bill |-> e1, key |-> k1, target |-> 2],
     [uid |-> u2, bill |-> e1, key |-> k2, target |-> 1]}

\* Two quotes, each on a bill of its own or both on the same; one is asked for again with
\* another target.
TwoOps ==
    {[uid |-> u1, bill |-> e1, key |-> k1, target |-> 2],
     [uid |-> u1, bill |-> e1, key |-> k1, target |-> 1],
     [uid |-> u2, bill |-> e1, key |-> k2, target |-> 1],
     [uid |-> u2, bill |-> e2, key |-> k2, target |-> 1]}

\* Requests that fit one at a time and not together, and one signed with a wrong key.
Draws ==
    {[uid |-> u1, key |-> k1, outputs |-> {b1}], [uid |-> u1, key |-> k1, outputs |-> {b1, b2}],
     [uid |-> u1, key |-> k1, outputs |-> {b3}], [uid |-> u2, key |-> k2, outputs |-> {b2}],
     [uid |-> u2, key |-> k1, outputs |-> {b2}]}

NoDraws == {}

Symm == Permutations(Proc)
=============================================================================
