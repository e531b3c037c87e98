SPECIFICATION Spec
CONSTANTS
    y1 = y1  y2 = y2
    Qid = {q1, q2}
    Uid = {u1}
    P = {y1, y2}
    MeltRequests <- Rivals
    SwapRequests = {y2}
    Proc = {p1, p2}
    Monitor = Monitor
    None = None
    Wallet = Wallet
    Fund = 2
    MeltExpiry = 1
    MintExpiry = 0
    MaxTime = 2
    MaxFailures = 2
SYMMETRY Symm
CONSTRAINT Apart
CHECK_DEADLOCK FALSE
INVARIANTS TypeOK QuoteHoldsInputs PaidIsSettled
