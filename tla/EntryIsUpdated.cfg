\* One reader, and an allocator with a choice of two addresses.
CONSTANTS
    c1 = c1
    c2 = c2
    c3 = c3
    a1 = a1
    a2 = a2
    Coros <- OneCoro
    Sleepers <- None
    Readers <- OneCoro
    Addrs <- TwoAddrs
    Delays <- JustOne
    MaxTime = 0
    MaxOps <- TwoOps
    MaxSent <- TwoSent
    Nil = Nil
SPECIFICATION Spec
INVARIANT EntryIsUpdated
\* run() returns, and blocks for ever while no peer sends.
CHECK_DEADLOCK FALSE
