SPECIFICATION SyncSpec
CONSTANTS
    a = a
    b = b
    a0 = a0
    a1 = a1
    a1x = a1x
    b0 = b0
    b1 = b1
    Tx = {a0, a1, a1x, b0, b1}
    Account = {a, b}
    Sender <- MCSender
    Nonce <- MCNonce
    GasPrice <- MCGasPrice
    Limit = 3
    FutureLimit = 1
    Oversized = {b1}
    BlockRoom = 2
    MaxSync = 2
    MaxEvents = 4
    MaxSide = 0
INVARIANTS
    ReplacedLeavesPending
    NothingOverlooked
    SyncsOnHead
