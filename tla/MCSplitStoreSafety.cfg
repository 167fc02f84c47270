SPECIFICATION Spec
CONSTANTS
    Injections = {"first", "second"}
    Order <- MCOrder
    Files <- MCFiles
    Manifest = "manifest"
    Labels = "labels"
    Absent = Absent
    None = None
INVARIANTS
    TypeOK
    NeverMixed
    CompleteIsCurrent
PROPERTIES
    OnlyRemovalTears
