---------------------------- MODULE MCTreasury ----------------------------
(* A small instance of Treasury for TLC. *)
EXTENDS Treasury, TLC

CONSTANTS y1, f1, f2

OneRequest == {[inputs |-> {y1}, outflow |-> 1]}

\* f1 is the fee of the melt, f2 one of a swap.
MeltFees == [q \in Qid |-> {f1}]

\* Mints share nothing with the vault: each is explored while there is nothing of the other,
\* both of them next to melts, whose fees the vault keeps.
Apart ==
    \/ \A u \in Uid : mints[u] = None
    \/ (\A c \in Clerk : At(c, "idle")) /\ sent = {} /\ lent = {}

Symm == Permutations(Clerk)
=============================================================================
