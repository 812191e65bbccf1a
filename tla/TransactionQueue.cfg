SPECIFICATION Spec
CONSTANTS
    a = a
    b = b
    a0 = a0
    a1 = a1
    a1x = a1x
    a2 = a2
    b0 = b0
    Tx = {a0, a1, a1x, a2, b0}
    Account = {a, b}
    Sender <- MCSender
    Nonce <- MCNonce
    GasPrice <- MCGasPrice
    Limit = 2
    FutureLimit = 1
INVARIANTS
    TypeOK
    IndicesAgree
    OnePerSlot
    FutureCounted
PROPERTIES
    KnownFollowsQueue
    LimitsAfterImport
    NeverUnderbid
    ReadyToldOfNew
    ReplacedTold
    SuccessorFollows
