\* Three keys, two values and four nodes for two dictionaries.
CONSTANTS
    d1 = d1
    d2 = d2
    u = u
    v = v
    MinCapacity = 4
    Nil = Nil
    Dicts <- TwoDicts
    Keys <- ThreeKeys
    Values <- TwoValues
    NodeAddrs <- FourNodes
    Missing = Missing
VIEW Program
SYMMETRY Interchangeable
SPECIFICATION Spec
INVARIANTS
    ProbesComplete
    TableMatchesChain
    GetAgreesWithItems
PROPERTY ImplementsOrderedMap
