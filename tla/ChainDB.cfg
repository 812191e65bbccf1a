SPECIFICATION Spec
CONSTANTS
    a1 = a1
    a2 = a2
    b1 = b1
    b2 = b2
    Block = {a1, a2, b1, b2}
    Genesis = Genesis
    NoBlock = NoBlock
    Parent <- MCParent
    Number <- MCNumber
    TotalDifficulty <- MCTotalDifficulty
    GasUsed <- MCGasUsed
    TieBreakingGas = TRUE
    Polled = {Genesis}
INVARIANTS
    RestartFindsChain
    NumbersFollowBest
    HeaviestIsBest
    CachedNumberCurrent
    ChildrenListed
