SPECIFICATION QuietSpec
CONSTANTS
    a = a
    b = b
    c = c
    d = d
    v1 = v1
    v2 = v2
    Block = {a, b, c, d}
    Genesis = Genesis
    NoBlock = NoBlock
    Parent <- ForkParent
    Timestamp <- ForkTimestamp
    Malformed = {}
    BadSeal = {c}
    Verifier = {v1, v2}
    MaxTime = 1
    MaxDrain = 2
SYMMETRY VerifierSymmetry
INVARIANTS
    TypeOK
    
    OnePlace
    
    
    NoOrphanForgotten
    
    DifficultyCovers
    SomeoneAwake

    
