SPECIFICATION FairSpec
CONSTANTS
    Spans = {s1, s2, s3, s4}
    Outside = Outside
    None = None
INVARIANTS
    AcceptsTrees
    NearestAnchor
    NeverLost
PROPERTIES
    Terminates
CHECK_DEADLOCK FALSE
