\* The instance of Dict.cfg, with unions: they copy a dictionary.
CONSTANTS
    d1 = d1
    d2 = d2
    u = u
    v = v
    MinCapacity = 4
    Nil = Nil
    Dicts <- TwoDicts
    Keys <- ThreeKeys
    Values <- TwoValues
    NodeAddrs <- FourNodes
    Missing = Missing
VIEW Program
SYMMETRY Interchangeable
SPECIFICATION SpecWithUnions
INVARIANT GetAgreesWithItems
