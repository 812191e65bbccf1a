SPECIFICATION Spec
CONSTANTS
    p = p
    q = q
    a1 = a1
    a2 = a2
    a3 = a3
    a4 = a4
    a5 = a5
    a6 = a6
    a7 = a7
    b3 = b3
    b4 = b4
    empty = empty
    Peer = {p, q}
    Block = {a1, a2, a3, a4, a5, b3, b4}
    Genesis = Genesis
    NoBlock = NoBlock
    EmptyBody = empty
    Bad = {b4}
    Parent <- ForkParent
    Number <- ForkNumber
    Body <- ForkBody
    Stored = {Genesis, a1, a2}
    Remote <- ForkRemote
    MaxRequest = 2
    MaxKnown = 1
    MaxUnknown = 1
    MaxUnknownSize = 3
    SizeModulus = 16
    MaxAnnounced = 2
    MaxDropped = 0
INVARIANT
    FullOfUnknown
CHECK_DEADLOCK FALSE
