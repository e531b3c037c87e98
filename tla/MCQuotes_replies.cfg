SPECIFICATION Spec
CONSTANTS
    e1 = e1  e2 = e2  h1 = h1  h2 = h2
    Quote = {q1, q2}
    Enquiry <- OneHolder
    Bill = {e1}
    Terms = {1, 2}
    Ttls = {0}
    Proc = {p1, p2}
    Monitor = Monitor
    Requests <- AllRequests
    Answers <- FirstAnswered
    None = None
    Retention = 0
    MaxTime = 1
    MaxFailures = 0
    MaxCrashes = 0
SYMMETRY Symm
CHECK_DEADLOCK FALSE
INVARIANTS TypeOK
PROPERTIES RepliesHold
