SPECIFICATION Spec
CONSTANTS
    u1 = u1  u2 = u2  e1 = e1  e2 = e2  k1 = k1  k2 = k2  b1 = b1  b2 = b2  b3 = b3
    Uid = {u1, u2}
    Bill = {e1}
    Key = {k1, k2}
    B = {b1}
    Worth <- WorthOfOutputs
    Proc = {p1, p2}
    NewOps <- RivalOps
    MintRequests <- NoDraws
    None = None
    Multiplier = 1
    MaxAmount = 7
    UniqueBill = FALSE
    Attempts = 2
    MaxCrashes = 0
SYMMETRY Symm
CHECK_DEADLOCK FALSE
INVARIANTS OneOpPerBill
