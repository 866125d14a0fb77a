\* Three threads, four handles, two objects.
CONSTANTS
    Threads = {t1, t2, t3}
    Handles = {h1, h2, h3, h4}
    Objects = {o1, o2}
    Nil = Nil
SYMMETRY Symmetry
SPECIFICATION Spec
INVARIANTS
    TypeOK
    Counted
    HeldIsAlive
    FreedOnce
    NoLeak
