SPECIFICATION Spec
CONSTANTS
    Traces = {t1, t2, t3}
    Contents <- MCContents
    Objects <- MCObjects
    ObjectTypes <- MCObjectTypes
    Attributes <- MCAttributes
    EventTypes <- MCEventTypes
    EventIds <- MCEventIds
    Sessions <- MCSessions
    Qualifiers <- MCQualifiers
    O2OQualifiers <- MCO2O
    Permitted <- MCPermitted
    Endpoints <- MCEndpoints
    SafeIds <- MCSafeIds
    Registered <- MCRegistered
    None = None
INVARIANTS
    OrderFree
    StructureHolds
CHECK_DEADLOCK FALSE
