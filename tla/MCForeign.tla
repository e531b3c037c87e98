----------------------------- MODULE MCForeign -----------------------------
(* Instances of Foreign: one mint, one lock, one date. *)
EXTENDS Foreign, TLC

CONSTANTS m, x, date

OneIssuer == [y \in Htlc \cup Token |-> m]
OneLock == [y \in Htlc |-> x]
OneDue == [y \in Htlc \cup Token |-> date]
OneExpires == [k \in Kid |-> date]

Stray(p) == \E c \in job[p].coins : ~Shows(job[p], c)

\* A bound: redemptions without the secret of their eCash, and locktimes that pass, are
\* explored without failures; with an outage, such a redemption runs alone and in time.
Apart ==
    \/ lapsed = {} /\ \A p \in Proc : ~Stray(p)
    \/ failures = 0 /\ outages = 0
    \/ failures = 0 /\ lapsed = {} /\ \A p \in Proc, q \in Agent : Stray(p) /\ pc[q] # "idle" => p = q

Symm == Permutations(Proc) \cup Permutations(Token) \cup Permutations(Kid)
=============================================================================
