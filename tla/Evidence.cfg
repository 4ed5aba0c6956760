SPECIFICATION EvidenceSpec
CONSTANTS
    p1 = p1
    v1 = v1
    v2 = v2
    a1 = a1
    a2 = a2
    Packages = {p1}
    Versions = {v1, v2}
    Checks <- MCChecks
    Artifacts = {a1, a2}
    Processes <- MCProcesses
    NoVersion = NoVersion
    NoArtifact = NoArtifact
    Builds <- MCBuilds
    Modes = {"candidate", "current"}
    Concurrent = {}
INVARIANTS
    AcceptanceTypeOK
    StableIsProven
    EvidenceOfOneArtifact
    RecordedIsTested
    VerifiedIsPristine
PROPERTIES
    EvidenceIsKept
