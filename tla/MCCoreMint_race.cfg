SPECIFICATION Spec
CONSTANTS
    y1 = y1  y2 = y2  y3 = y3  b1 = b1  b2 = b2
    Y = {y1, y2}
    B = {b1, b2}
    Sig = {s1, s2}
    Proc = {p1, p2}
    Contents <- RaceContents
    Owners = {"Unsigned"}
    CheckedSets <- NoChecks
    Restores = {}
    Melts <- MeltOne
    AdminBurns <- NoMelts
    None = None
    MaxExpiry = 2
    SettleWindow = 0
    MaxClock = 1
    MaxCrashes = 0
    MaxRecovers = 0
SYMMETRY Symm
CHECK_DEADLOCK FALSE
INVARIANTS TypeOK IndInv CommitmentsWhole LockHolds AckedAsCommitted AckedIsRestorable
    OutputsAckedOnce NoInputPaysTwice PaidIsSpent
PROPERTIES CommitmentKept
