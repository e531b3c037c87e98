----------------------------- MODULE MCOnchain -----------------------------
(* Small instances of Onchain for TLC. *)
EXTENDS Onchain, TLC

CONSTANTS y1, y2

\* Quotes that share a proof, and that the reserve cannot pay both.
Rivals == {[inputs |-> {y1, y2}, outflow |-> 1], [inputs |-> {y2}, outflow |-> 2]}

NoRequests == {}

\* Melts and mints share the clock and the failures and nothing else: each is explored while
\* there is nothing of the other.  MCTreasury explores them together.
Apart ==
    \/ \A u \in Uid : mints[u] = None
    \/ (\A q \in Qid : melts[q] = None) /\ denied = {} /\ \A p \in Proc : pc[p] = "idle"

Symm == Permutations(Qid) \cup Permutations(Proc)
=============================================================================
