SPECIFICATION ClientSpec
CONSTANTS
    a = a
    b = b
    c = c
    v1 = v1
    v2 = v2
    Block = {a, b, c}
    Genesis = Genesis
    NoBlock = NoBlock
    Parent <- MCParent
    Timestamp <- MCTimestamp
    Malformed = {}
    BadSeal = {a}
    BadExec = {}
    Flaky = {b}
    RewindTo = {0}
    Verifier = {v1, v2}
    MaxTime = 1
    MaxDrain = 2
SYMMETRY VerifierSymmetry
INVARIANTS
    
    VerifiedAnnounced
