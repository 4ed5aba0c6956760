SPECIFICATION Spec
CONSTANTS
    root = root
    a = a
    b = b
    f = f
    x = x
    up = up
    Threads = {t1}
    Fds = {0, 1, 2}
    Limit = 2
    Dirs = {root, a, b}
    Files = {f}
    Names = {x, up}
    Join <- MCJoin
    PWD = root
    Unwrapped = {"open"}
    AT_FDCWD = AT_FDCWD
    Nowhere = Nowhere
    NoPath = NoPath
    Closed = Closed
    NoThread = NoThread
INVARIANTS
    TableIsTrue
    FchdirIsTrue
PROPERTIES
    DirectoryIsPosix
