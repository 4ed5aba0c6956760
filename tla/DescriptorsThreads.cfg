SPECIFICATION FairSpec
CONSTANTS
    root = root
    a = a
    b = b
    f = f
    x = x
    up = up
    Threads = {t1, t2}
    Fds = {0, 1}
    Limit = 1
    Dirs = {root, a, b}
    Files = {f}
    Names = {x, up}
    Join <- MCJoin
    PWD = root
    Unwrapped = {"open", "close"}
    AT_FDCWD = AT_FDCWD
    Nowhere = Nowhere
    NoPath = NoPath
    Closed = Closed
    NoThread = NoThread
INVARIANTS
    TypeOK
    CwdCoherent
PROPERTIES
    LockIsReleased
