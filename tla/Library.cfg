\* Every algorithm on the texts below, three strings, two lists, one file, four frames.
CONSTANTS
    Subjects = {"calls", "strings", "lists", "lines", "tasks"}
    MaxElementsInline = 2
    MaxDepth = 3
    Texts <- SmallTexts
    Patterns <- SmallPatterns
    Limits <- SmallLimits
    Letters <- SmallLetters
    Numbers <- SmallNumbers
    Points <- EdgePoints
    Values <- JsonValues
    Leads <- Blanks
    Tails <- Behind
    Uris <- SmallUris
    Strings = {s1, s2, s3}
    SsoSize = 1
    Literals <- SmallLiterals
    MaxText = 3
    MaxBlocks = 2
    Lists = {a, b}
    Items = {x, y}
    BaseSize = 1
    MaxLen = 4
    Documents <- SmallDocuments
    BlockSize = 2
    Frames = {f1, f2, f3, f4}
    Results = {r}
    InitialCapacity = 1
    Junk = Junk
SPECIFICATION Spec
SYMMETRY Symmetric
INVARIANTS
    TextLaws
    
    UriRoundTrip
    StringsKeepTheirTexts
    ListIsSequence
    LinesComeBack
    TasksReturnToCallers
\* A call that has been made, a document that was read: the program may end.
CHECK_DEADLOCK FALSE
