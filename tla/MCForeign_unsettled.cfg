SPECIFICATION Spec
CONSTANTS
    m = m
    x = x
    date = date
    Mint = {m}
    Htlc = {}
    Token = {t1, t2}
    Issuer <- OneIssuer
    Secret = {x}
    Lock <- OneLock
    Due <- OneDue
    Kid = {k1}
    Date = {date}
    Expires <- OneExpires
    Proc = {p1}
    Settler = Settler
    None = None
    Removals = {"none"}
    MaxOutages = 2
    MaxFailures = 0
CHECK_DEADLOCK FALSE
PROPERTIES Settled
