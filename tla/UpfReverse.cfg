SPECIFICATION Spec
CONSTANTS
    Key = {t1, t2, t3, t4}
    Session = {s1, s2}
    None = None
    Entries = 3
    RingRoom = 3
    Depth = 1
SYMMETRY Symmetric
INVARIANT RegisteredIsFound
