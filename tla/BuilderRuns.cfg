SPECIFICATION FairBuilderSpec
CONSTANTS
    zlib = zlib
    m4 = m4
    bison = bison
    Ports = {m4, bison}
    Revisions = {r1, r2}
    FirstRevision = r1
    Dependencies <- MCDependencies
    Bundled <- MCBundled
    Requests <- MCRequests
    Breakable = {"enter", "dependencies", "compile", "write", "pack"}
    Concurrent = {}
    None = None
    Emptied = Emptied
    Torn = Torn
INVARIANTS
    BuilderTypeOK
    MarkerIsTrue
    PackedIsDeclared
    PackedIsChecked
    ReportIsTrue
PROPERTIES
    LinkedIsCurrent
    RunsEnd
