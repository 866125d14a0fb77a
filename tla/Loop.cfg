\* Two coroutines that read and sleep and one that sleeps; any read may get any address.
CONSTANTS
    c1 = c1
    c2 = c2
    c3 = c3
    a1 = a1
    a2 = a2
    Coros <- ThreeCoros
    Sleepers <- ThreeCoros
    Readers <- FirstTwo
    Addrs <- TwoAddrs
    Delays <- OneOrTwo
    MaxTime = 2
    MaxOps <- OpsEach
    MaxSent <- SentEach
    Nil = Nil
SPECIFICATION FairSpec
INVARIANTS
    SleepersQueuedOnce
    ExitMeansDone
    NoStrayResume
    NoWakeupMissed
PROPERTIES
    NeverEarly
    SleepersWake
    ReadersWake
\* run() returns, and blocks for ever while no peer sends.
CHECK_DEADLOCK FALSE
