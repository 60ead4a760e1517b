SPECIFICATION PtyFairSpec
CONSTANTS
    Children = {c1, c2, c3, c4}
    PROCS = 2
    THREADS = 2
    BufMax = 2
    Parent = Parent
INVARIANTS
    ProcsCountsChildren
    LastWriterGone
PROPERTIES
    OrphansStop
    Terminates
