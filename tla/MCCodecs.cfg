SPECIFICATION CodecSpec
CONSTANTS
    Base = 20
    W8 = 1
    W16 = 2
    W32 = 3
    W64 = 4
    W128 = 5
    W256 = 6
    AddrLen = 2
    KeyLen = 2
    SigLen = 3
    IdLen = 2
    SelLen = 1
    ExactInt = 10000
    Signature <- MCSignature
    Sha3 <- MCSha3
    TransferGas = 21
    DeployGas = 1000
    CallGas = 100
    GasPrice = 1
    Values <- MCValues
    JsArguments <- MCJsArguments
    PyDrafts <- MCPyDrafts
    TsDrafts <- MCTsDrafts
    TsLiterals <- MCTsLiterals
    Deployments <- MCDeployments
INVARIANT SomeClaimHolds
CHECK_DEADLOCK FALSE
