SPECIFICATION PipelineSpec
CONSTANTS
    a1 = a1
    a2 = a2
    b1 = b1
    v1 = v1
    v2 = v2
    Packages = {p1}
    Versions = {v1, v2}
    Checks = {c1}
    Artifacts = {a1, b1}
    Processes = {q1}
    Channels = {"stable"}
    Built <- MCBuilt
    Concurrent = FALSE
    Flats = {FALSE}
    MaxRuns = 2
    NoVersion = NoVersion
    NoArtifact = NoArtifact
    Torn = Torn
    Missing = Missing
SYMMETRY Symmetry
INVARIANTS
    OfferedIsProven
PROPERTIES
    KeepsPromise
