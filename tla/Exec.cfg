\* Every acyclic graph of up to three tasks, with fairness.
CONSTANTS
    w1 = w1
    w2 = w2
    main = main
    NoTask = NoTask
    NoThread = NoThread
    Workers <- TwoWorkers
    Clients <- Main
    Owner = main
    Pushers <- Everybody
    Runners <- Main
    Nodes <- ThreeNodes
    Root = 0
    Tasks <- ThreeNodesAndRoot
    FutureTasks <- Nothing
    MaxEdges = 3
SPECIFICATION FairExecSpec
INVARIANTS
    PreCountsParents
    ChildAfterParents
PROPERTY EveryTaskRuns
\* The executor may be destroyed.
CHECK_DEADLOCK FALSE
