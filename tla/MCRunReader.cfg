SPECIFICATION ReaderSpec
CONSTANTS
    Runs <- MCRuns
    Count <- MCCount
    Classes <- MCClasses
    Draw <- MCDraw
    EventTypes <- MCEventTypes
    Objects <- MCObjects
    Calls <- MCCalls
    Laden <- MCLaden
    Script <- MCScript
    Duration <- MCDuration
    Stride <- MCStride
    PolicyFrom <- MCPolicyFrom
    PolicyTo <- MCPolicyTo
    Open = Open
    NoRun = NoRun
    NoFile = NoFile
    NoManifest = NoManifest
    Nothing = Nothing
    Exclusive = TRUE
INVARIANTS
    ReaderTypeOK
    CoverageOfItsManifest
    LogIsASoundRun
PROPERTIES
    ImplementsPublishedRun
    FreshLogFreshSidecars
