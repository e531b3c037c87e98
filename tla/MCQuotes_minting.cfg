SPECIFICATION Spec
CONSTANTS
    e1 = e1  e2 = e2  h1 = h1  h2 = h2
    Quote = {q1, q2}
    Enquiry <- TwoBills
    Bill = {e1, e2}
    Terms = {1}
    Ttls = {0}
    Proc = {p1}
    Monitor = Monitor
    Requests <- ToMinting
    Answers <- FirstAnswered
    None = None
    Retention = 0
    MaxTime = 0
    MaxFailures = 1
    MaxCrashes = 1
CHECK_DEADLOCK FALSE
INVARIANTS BoundIsAccepted EnabledIsBacked
 
