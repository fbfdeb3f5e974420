\* A process serves while another one starts and adds routes.
CONSTANTS
    w1 = w1
    w2 = w2
    a = a
    b = b
    x = x
    y = y
    NoTx = none
    Worker = {w1, w2}
    Write = {a, b}
    Read = {}
    On <- MCOnWrites
    Program <- MCPrograms
    Threads = 1
    PoolSize = 1
    Running = {w1}
    RoutesMissing = TRUE
    MaxBoot = 1
SPECIFICATION FairSpec
INVARIANTS ChainVerifies
PROPERTIES EveryRequestEnds
\* Every request is made once: the system stops when all have ended.
CHECK_DEADLOCK FALSE
