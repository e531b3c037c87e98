SPECIFICATION TreasurySpec
CONSTANTS
    y1 = y1  f1 = f1  f2 = f2
    Qid = {q1}
    Uid = {u1}
    P = {y1}
    MeltRequests <- OneRequest
    SwapRequests = {}
    Proc = {p1}
    Monitor = Monitor
    None = None
    Wallet = Wallet
    Fund = 1
    MeltExpiry = 0
    MintExpiry = 0
    MaxTime = 1
    MaxFailures = 1
    Fee = {f1, f2}
    FeesOf <- MeltFees
    Clerk = {c1, c2}
    Ttl = 0
    MaxUtc = 9
SYMMETRY Symm
CONSTRAINT Apart
CHECK_DEADLOCK FALSE
INVARIANTS MintedIsPaidFor CachedIsSettled
PROPERTIES FeesKept TokenIsWhole
