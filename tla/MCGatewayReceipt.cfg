\* No fault, no crash, no event; receipts quote transactions of any wallet, and an invoice expires.
SPECIFICATION Spec
CONSTANTS
  Requests = {r1, r2}
  Payers = {p1, p2}
  Endpoints = {vectors, quote}
  SubscriptionEndpoints = {}
  Txs = {t1}
  None = None
  TTL = 0
  Grace = 0
  MAX_SETTLEMENT_HISTORY = 2
  Window = 1
  Ws = FALSE
  ReceiptTx = TRUE
  OthersTx = TRUE
  RpcFaults = FALSE
  Listed = {"confirmed"}
  ReceiptKinds = {"none", "payment"}
  MaxTime = 1
  MaxCrashes = 0
INVARIANT ReceiptMatchesInvoice
CHECK_DEADLOCK FALSE
