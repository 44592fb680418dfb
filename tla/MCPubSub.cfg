CONSTANTS
    c1 = c1
    c2 = c2
    h1 = h1
    h2 = h2
    prex = prex
    prey = prey
    prez = prez
    prei = prei
    ph1 = ph1
    ph2 = ph2
    phi = phi
    px = px
    py = py
    pz = pz
    pa = pa
    pb = pb
    prej = prej
    Conns = {c1, c2}
    Subjects <- MCSubjects
    Hash <- MCHash
    Patterns <- MCPatterns
    Prefix <- MCPrefix
    PrefixHash <- MCPrefixHash
    PatKinds <- MCPatKinds
    Matches <- MCMatches
    InboxMatches <- MCInboxMatches
    Bad = {pz}
    InboxPat <- MCInboxPat
    Blocking <- Blk
    Calls <- MCCalls
    ArgLists <- MCArgs
    MaxInbox = 2
    Sessions = {c1}
SPECIFICATION Spec
INVARIANTS TypeOK RouteOfTable TestIsRoute NoIdleEvents
PROPERTIES EventsTellPresence Delivered InboxExact KindKept
CHECK_DEADLOCK FALSE
VIEW NoOutput
