CONSTANTS
    k1 = k1
    k2 = k2
    k3 = k3
    c1 = c1
    c2 = c2
    Keys = {k1, k2, k3}
    Conns = {c1, c2}
    Menus <- AllMenus
    FirstNow = 5
    MaxNow = 7
    MaxBatch = 3
    MaxFaults = 1
    Seen = 99
    Word = 16
    HdrSize = 2
    FrameSize = 5
SYMMETRY Symm
SPECIFICATION Spec
INVARIANTS
    TypeOK
    TextBinaryAgree
    Answered
    Reassembly
    RepliesFramed
PROPERTY
    CasExact
CHECK_DEADLOCK FALSE
