SPECIFICATION Spec
CONSTANTS
    RetrievalOrder <- MCRetrievalOrder
    Runs <- MCRuns
    Count <- MCCount
    Classes <- MCClasses
    Draw <- MCDraw
    EventTypes <- MCEventTypes
    Objects <- MCObjects
    Calls <- MCCalls
    Laden <- MCLaden
    Script <- MCScript
    Duration <- CreditDuration
    Stride <- MCStride
    PolicyFrom <- MCPolicyFrom
    PolicyTo <- MCPolicyTo
    Open = Open
    NoRun = NoRun
    NoFile = NoFile
    NoManifest = NoManifest
INVARIANTS
    TypeOK
    ManifestIntact
    PublishedComplete
    PublishedDeclared
    PublishedOrdered
    CreditFits
PROPERTIES
    WithdrawnBeforeChange
