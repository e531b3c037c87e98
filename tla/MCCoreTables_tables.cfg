SPECIFICATION Spec
CONSTANTS
    y1 = y1  y2 = y2  b1 = b1  b2 = b2  k1 = k1
    Y = {y1, y2}
    B = {b1, b2}
    Sig = {s1, s2}
    Kid = {k1}
    KeysetOf <- OneKeyset
    Proc = {p1, p2}
    Contents <- RaceContents
    Melts <- MeltOne
    AdminBurns <- BurnOther
    MaxExpiry = 2
    MaxClock = 1
    MaxStops = 2
    MaxRecovers = 1
SYMMETRY Symm
CHECK_DEADLOCK FALSE
INVARIANTS TypeOK HeldOnce NoInputPaysTwice GapsAreNamed
PROPERTIES ImplementsLocks
