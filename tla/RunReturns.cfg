\* One client that pushes and then calls run().
CONSTANTS
    w1 = w1
    w2 = w2
    main = main
    other = other
    k1 = k1
    k2 = k2
    k3 = k3
    NoTask = NoTask
    NoThread = NoThread
    Workers <- TwoWorkers
    Clients <- MainOnly
    Owner = main
    Pushers <- MainOnly
    Runners <- MainOnly
    Tasks <- TwoTasks
    FutureTasks <- OneFuture
SPECIFICATION FairSpec

PROPERTY RunReturns
\* The pool may be destroyed.
CHECK_DEADLOCK FALSE
