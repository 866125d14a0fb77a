\* Two tasks, the second may depend on the first.
CONSTANTS
    w1 = w1
    w2 = w2
    main = main
    NoTask = NoTask
    NoThread = NoThread
    Workers <- TwoWorkers
    Clients <- Main
    Owner = main
    Pushers <- Everybody
    Runners <- Main
    Nodes <- TwoNodes
    Root = 0
    Tasks <- TwoNodesAndRoot
    FutureTasks <- Nothing
    MaxEdges = 1
SPECIFICATION ExecSpec
INVARIANT ExecRunCompletesAll
\* The executor may be destroyed.
CHECK_DEADLOCK FALSE
