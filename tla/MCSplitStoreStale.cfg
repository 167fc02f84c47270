SPECIFICATION Spec
CONSTANTS
    Injections = {"first", "second"}
    Order <- MCOrder
    Files <- MCFiles
    Manifest = "manifest"
    Labels = "labels"
    Absent = Absent
    None = None
INVARIANTS
    NoStaleSplit
