SPECIFICATION FairCatalogSpec
CONSTANTS
    zlib = zlib
    m4 = m4
    bison = bison
    x = x
    y = y
    z = z
    Ports = {zlib, m4, bison}
    Order <- MCOrder
    MinVisible = 2
    Catalogs <- MCCatalogs
    Reloads <- MCReloads
    NoPort = NoPort
    Unknown = {"gone"}
    Commands = {x, y, z}
CHECK_DEADLOCK FALSE
INVARIANTS
    CatalogTypeOK
    AcceptedIsAcyclic
    BatchesAreExact
    CircleIsReal
    BundleIsClosure
    AcceptedCanBeBuilt
PROPERTIES
    WalksEnd
