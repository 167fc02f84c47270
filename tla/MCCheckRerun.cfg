SPECIFICATION Spec
CONSTANTS
    l1 = l1
    l2 = l2
    r1 = r1
    r2 = r2
    r3 = r3
    i1 = i1
    i2 = i2
    i3 = i3
    c1 = c1
    c2 = c2
    k1 = k1
    v1 = v1
    v2 = v2
    a = a
    b = b
    d = d
    Logs = {l1, l2}
    RuleSets = {r1, r2, r3}
    Indexes = {i1, i2, i3}
    Crosswalks = {c1, c2}
    Violations = {a, b, d}
    Version <- MCVersion
    Detected <- MCDetected
    Belongs <- MCBelongs
    Maps <- MCMaps
    Agrees <- MCAgrees
    Scattered <- MCScattered
    Commits = {NoCommit}
    NoCommit = NoCommit
    NoPin = NoPin
    NotRead = NotRead
    NoBundle = NoBundle
    Absent = Absent
    Torn = Torn
    Gone = Gone
    Broken = Broken
    Genesis = Genesis
    Unchained = Unchained
    Forged = Forged
    NoCopy = NoCopy
    Processes = {1, 2}
    MaxEdits = 2
    MaxCommands = 2
    MaxMoves = 2
CHECK_DEADLOCK FALSE
INVARIANTS
    RerunDiffersOnlyUnpinned
    OutIsWhole
    
PROPERTIES
    NoFalseAlarm
