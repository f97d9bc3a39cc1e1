\* The detail of a transaction may fail to be fetched.
SPECIFICATION FairSpec
CONSTANTS
  Requests = {r1, r2}
  Payers = {p1}
  Endpoints = {vectors}
  SubscriptionEndpoints = {vectors}
  Txs = {t1}
  None = None
  TTL = 0
  Grace = 0
  MAX_SETTLEMENT_HISTORY = 1
  Window = 1
  Ws = FALSE
  ReceiptTx = TRUE
  OthersTx = FALSE
  RpcFaults = TRUE
  Listed = {"confirmed"}
  ReceiptKinds = {"none", "otherEndpoint", "badSignature", "subscription", "payment"}
  MaxTime = 0
  MaxCrashes = 0
PROPERTY PaymentObserved
CHECK_DEADLOCK FALSE
