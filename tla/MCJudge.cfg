SPECIFICATION Spec
CONSTANTS
    p1 = p1
    p2 = p2
    S1 = S1
    S2 = S2
    e1 = e1
    e2 = e2
    C1 = C1
    c1 = c1
    P = P
    Q = Q
    Failure = Failure
    Absent = Absent
    Torn = Torn
    NoAnswer = NoAnswer
    NoSweep = NoSweep
    Sweepers = {P, Q}
    Sweeps <- MCSweeps
    Answers <- MCAnswers
    Constraint <- MCConstraint
    Labels <- MCLabels
    Threshold = 1
    MaxSweeps = 3
INVARIANTS
    SweepsAgree
    OwnAnswers
    PaidOnce
    CacheIsWhole
PROPERTIES
    AggregatesAgree
    ScoresAreFair
SYMMETRY Symmetric
CHECK_DEADLOCK FALSE
