\* One process with a pool of one connection.
CONSTANTS
    w1 = w1
    w2 = w2
    a = a
    b = b
    x = x
    y = y
    NoTx = none
    Worker = {w1}
    Write = {a, b}
    Read = {x, y}
    On <- MCOnOne
    Program <- MCPrograms
    Threads = 2
    PoolSize = 1
    Running = {w1}
    RoutesMissing = FALSE
    MaxBoot = 0
SPECIFICATION FairSpec
INVARIANTS ReadsOneState AnsweredIsVisible
PROPERTIES EveryRequestEnds
\* Every request is made once: the system stops when all have ended.
CHECK_DEADLOCK FALSE
