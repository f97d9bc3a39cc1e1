\* A calm deployment: no fault, no crash, no event; the client quotes its transaction hash.
SPECIFICATION Spec
CONSTANTS
  Requests = {r1, r2, r3}
  Payers = {p1}
  Endpoints = {vectors}
  SubscriptionEndpoints = {}
  Txs = {t1}
  None = None
  TTL = 0
  Grace = 0
  MAX_SETTLEMENT_HISTORY = 2
  Window = 1
  Ws = FALSE
  ReceiptTx = TRUE
  OthersTx = FALSE
  RpcFaults = FALSE
  Listed = {"confirmed"}
  ReceiptKinds = {"none", "payment"}
  MaxTime = 0
  MaxCrashes = 0
INVARIANT NoDoubleSpend
CHECK_DEADLOCK FALSE
