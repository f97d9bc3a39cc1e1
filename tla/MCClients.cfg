SPECIFICATION ClientsSpec
CONSTANTS
    Base = 20
    W8 = 1
    W16 = 2
    W32 = 3
    W64 = 4
    W128 = 5
    W256 = 6
    AddrLen = 2
    KeyLen = 2
    SigLen = 3
    IdLen = 2
    SelLen = 1
    ExactInt = 10000
    Signature <- MCSignature
    Sha3 <- MCSha3
    TransferGas = 21
    DeployGas = 1000
    CallGas = 100
    GasPrice = 1
    Values <- MCValues
    JsArguments <- MCJsArguments
    PyDrafts <- MCPyDrafts
    TsDrafts <- MCTsDrafts
    TsLiterals <- MCTsLiterals
    Deployments <- MCDeployments
    AddressBytes = 20
    AddressSamples <- MCAddresses
    Balances <- MCBalances
    MaxDecimals = 3
    MAX_U256 = 20004
    Precision = 4
    Callers = {c1, c2}
    LaneCount = 2
    Window = 2
    MaxNonce = 2
    MaxCalls = 3
    OpCount = 4
    Attempts = 3
    PyPosts = 2
    TsPosts = 3
    MaxLedger = 6
    NodeCount = 3
    \* Two tabs, one sign-in, and up to one request of each kind under way.
    a1 = a1
    a2 = a2
    e1 = e1
    Tabs = {t1, t2}
    Sessions = {s1}
    Addresses = {a1, a2}
    Emails = {e1}
    deriveKeypair <- MCDeriveKeypair
    Incoming <- MCIncoming
    Nobody = Nobody
    MaxRequests = 1
    \* Two invoices, two lookups under way, and every order of their answers.
    usdt = usdt
    tron = tron
    main = main
    SYN = SYN
    Assets = {usdt, SYN}
    Networks = {tron, main}
    networks <- MCNetworks
    firstNetwork <- MCFirstNetwork
    Amounts = {m1}
    Ids = {i1, i2}
    Null = Null
    MaxLookups = 2
INVARIANTS
    SdksAgreeOnValues
    PyTxComesBack
    SigningBytesBind
    TsJsonKeepsTheId
    TextsReadBack
    LaneGapFree
    LaneCounterExact
    AgentExecutesOnce
    BroadcastReport
    CookieFollows
    ReloadAgrees
    SuccessIsFinished
    InvoiceIsOfOrder
    DepositIsOfAsset
SYMMETRY Symmetry
CHECK_DEADLOCK FALSE
