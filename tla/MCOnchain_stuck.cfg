SPECIFICATION Spec
CONSTANTS
    y1 = y1  y2 = y2
    Qid = {q1}
    Uid = {u1, u2}
    P = {y1}
    MeltRequests <- NoRequests
    SwapRequests = {y1}
    Proc = {p1}
    Monitor = Monitor
    None = None
    Wallet = Wallet
    Fund = 0
    MeltExpiry = 0
    MintExpiry = 1
    MaxTime = 0
    MaxFailures = 1
CHECK_DEADLOCK FALSE
PROPERTIES PaidIsMinted
