INIT Init
NEXT Next
CONSTANTS
    m = m
    x = x
    date = date
    Mint = {m}
    Htlc = {h1}
    Token = {t1, t2}
    Issuer <- OneIssuer
    Secret = {x}
    Lock <- OneLock
    Due <- OneDue
    Kid = {k1}
    Date = {date}
    Expires <- OneExpires
    Proc = {p1, p2}
    Settler = Settler
    None = None
    Removals = {"named", "none"}
    MaxOutages = 1
    MaxFailures = 1
SYMMETRY Symm
CONSTRAINT Apart
INVARIANTS TypeOK NothingIsLost RedeemedOnce BankedOnce IssuedIsKnown
CHECK_DEADLOCK FALSE
