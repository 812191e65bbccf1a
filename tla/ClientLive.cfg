SPECIFICATION ClientSpec
CONSTANTS
    a = a
    b = b
    c = c
    v1 = v1
    v2 = v2
    Block = {a, b}
    Genesis = Genesis
    NoBlock = NoBlock
    Parent <- PairParent
    Timestamp <- PairTimestamp
    Malformed = {}
    BadSeal = {}
    BadExec = {a}
    Flaky = {b}
    RewindTo = {}
    Verifier = {v1, v2}
    MaxTime = 0
    MaxDrain = 1
PROPERTIES
    VerifiedTaken
    UnverifiedTaken
    StopEnds
