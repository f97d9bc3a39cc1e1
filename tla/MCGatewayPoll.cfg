\* The poller is the only witness: no WebSocket events, no transaction hash in receipts.
SPECIFICATION Spec
CONSTANTS
  Requests = {r1, r2, r3}
  Payers = {p1, p2}
  Endpoints = {vectors, quote}
  SubscriptionEndpoints = {}
  Txs = {t1, t2}
  None = None
  TTL = 0
  Grace = 0
  MAX_SETTLEMENT_HISTORY = 2
  Window = 1
  Ws = FALSE
  ReceiptTx = FALSE
  OthersTx = FALSE
  RpcFaults = TRUE
  Listed = {"confirmed"}
  ReceiptKinds = {"none", "payment"}
  MaxTime = 1
  MaxCrashes = 1
SYMMETRY Symmetry
INVARIANTS NoDoubleSpend ServicePaidByCaller 
PROPERTY ImplementsPayPerCall
CHECK_DEADLOCK FALSE
