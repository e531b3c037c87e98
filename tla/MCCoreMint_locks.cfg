SPECIFICATION Spec
CONSTANTS
    y1 = y1  y2 = y2  y3 = y3  b1 = b1  b2 = b2
    Y = {y1, y2, y3}
    B = {b1, b2}
    Sig = {s1, s2}
    Proc = {p1}
    Contents <- MixContents
    Owners = {"Unsigned", "Alpha", "Beta"}
    CheckedSets <- CheckBoth
    Restores = {b1}
    Melts <- MeltBoth
    AdminBurns <- MeltOne
    None = None
    MaxExpiry = 2
    SettleWindow = 1
    MaxClock = 1
    MaxCrashes = 1
    MaxRecovers = 1
SYMMETRY Symm
CHECK_DEADLOCK FALSE
INVARIANTS SettleWindowClosed
PROPERTIES SpentIsForever ImplementsLocks
