SPECIFICATION BuilderSpec
CONSTANTS
    zlib = zlib
    m4 = m4
    bison = bison
    Ports = {zlib, m4, bison}
    Revisions = {r1, r2}
    FirstRevision = r1
    Dependencies <- MCDependencies
    Bundled <- MCBundled
    Requests <- MCRequests
    Breakable = {}
    Concurrent = {"edit"}
    None = None
    Emptied = Emptied
    Torn = Torn
INVARIANTS
    PackedIsDeclared
