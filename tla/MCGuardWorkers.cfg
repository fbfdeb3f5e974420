\* Two processes that may crash and restart.
CONSTANTS
    w1 = w1
    w2 = w2
    a = a
    b = b
    x = x
    y = y
    NoTx = none
    Worker = {w1, w2}
    Write = {a, b}
    Read = {}
    On <- MCOnWrites
    Program <- MCPrograms
    Threads = 1
    PoolSize = 1
    Running = {w1, w2}
    RoutesMissing = FALSE
    MaxBoot = 1
SPECIFICATION Spec
PROPERTIES MutationsSerialized
\* Every request is made once: the system stops when all have ended.
CHECK_DEADLOCK FALSE
