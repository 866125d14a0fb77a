\* Every thread pushes and nobody calls run(): progress of stop() and of the queue.
CONSTANTS
    w1 = w1
    w2 = w2
    main = main
    other = other
    k1 = k1
    k2 = k2
    k3 = k3
    NoTask = NoTask
    NoThread = NoThread
    Workers <- TwoWorkers
    Clients <- TwoClients
    Owner = main
    Pushers <- AllThreads
    Runners <- Nobody
    Tasks <- TwoTasks
    FutureTasks <- OneFuture
SPECIFICATION FairSpec
INVARIANT
    SomebodyWillTake
PROPERTIES
    StopReturns
    QueuedIsTaken
\* The pool may be destroyed.
CHECK_DEADLOCK FALSE
