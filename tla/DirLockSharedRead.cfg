SPECIFICATION Spec
CONSTANTS
    t1 = t1
    t2 = t2
    t3 = t3
    h1 = h1
    h2 = h2
    h3 = h3
    Tasks = {t1, t2, t3}
    Handles = {h1, h2}
    HandleOf <- SharedHandle
INVARIANTS NoReaderBesideWriter
