SPECIFICATION Spec
CONSTANTS
    a = a
    b = b
    b0 = b0
    a0 = a0
    a1 = a1
    a1x = a1x
    a2 = a2
    Tx = {b0, a0, a1}
    Account = {a, b}
    Sender <- MCSender
    Nonce <- MCNonce
    GasPrice <- MCGasPrice
    Limit = 3
    FutureLimit = 1
INVARIANT
    NonceOrder
