SPECIFICATION PipelineSpec
CONSTANTS
    a1 = a1
    a2 = a2
    b1 = b1
    v1 = v1
    v2 = v2
    Packages = {p1}
    Versions = {v1}
    Checks = {c1}
    Artifacts = {a1, a2}
    Processes = {q1}
    Channels = {"stable", "candidate"}
    Built <- MCBuilt
    Concurrent = FALSE
    Flats = {TRUE}
    MaxRuns = 2
    NoVersion = NoVersion
    NoArtifact = NoArtifact
    Torn = Torn
    Missing = Missing
INVARIANTS
    RepositoryTypeOK
    OfferedIsProven
    SignedIsServed
