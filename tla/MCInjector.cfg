SPECIFICATION Spec
CONSTANTS
    RetrievalOrder <- MCRetrievalOrder
    DecisionOutcomes <- MCDecisionOutcomes
    RequiredSources <- MCRequired
    EntrypointRoles = {"intake"}
    AdverseForRule <- MCAdverseForRule
    Applying <- MCApplying
    Instances <- MCInstances
    DistractorCount = 2
    SessionStride = 900
CHECK_DEADLOCK FALSE
INVARIANTS
    TypeOK
    DetectedExactly
    ControlFlowConcurs
    SplitIsALog
    NeverTorn
    Balanced
    ShortOnlyIfInfeasible
