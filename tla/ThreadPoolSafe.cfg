\* Every thread pushes, both clients call run(), main stops and destroys.
CONSTANTS
    w1 = w1
    w2 = w2
    main = main
    other = other
    k1 = k1
    k2 = k2
    k3 = k3
    NoTask = NoTask
    NoThread = NoThread
    Workers <- TwoWorkers
    Clients <- TwoClients
    Owner = main
    Pushers <- AllThreads
    Runners <- TwoClients
    Tasks <- ThreeTasks
    FutureTasks <- OneFuture
SYMMETRY PoolSymmetry
SPECIFICATION Spec
INVARIANTS
    TypeOK
    RunningCount
    TaskPlaces
    JoinedPoolIsQuiet
PROPERTIES
    ImplementsTaskPool
\* The pool may be destroyed.
CHECK_DEADLOCK FALSE
