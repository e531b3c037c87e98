------------------------------ MODULE MintOps ------------------------------
(***************************************************************************)
(* What the treasury promises about eBill minting, without requests,       *)
(* tables or peers: a bill is bound to one mint operation for good, and    *)
(* what is minted on an operation grows up to its ceiling and no further.  *)
(***************************************************************************)
EXTENDS Naturals

CONSTANTS Uid, Bill, Ceilings

VARIABLE op

Unbound == [state |-> "unbound"]
Bound(b, c, m) == [state |-> "bound", bill |-> b, ceiling |-> c, minted |-> m]

Init == op = [u \in Uid |-> Unbound]

\* An operation is created for a bill that no other operation has.
Bind(u, b, c) ==
    /\ op[u] = Unbound
    /\ \A v \in Uid : op[v] # Unbound => op[v].bill # b
    /\ op' = [op EXCEPT ![u] = Bound(b, c, 0)]

\* Some more is minted.
Mint(u, m) ==
    /\ op[u] # Unbound
    /\ m > op[u].minted
    /\ op' = [op EXCEPT ![u].minted = m]

Next ==
    \E u \in Uid :
        \/ \E b \in Bill, c \in Ceilings : Bind(u, b, c)
        \/ op[u] # Unbound /\ \E m \in 0..op[u].ceiling : Mint(u, m)

Spec == Init /\ [][Next]_op
=============================================================================
