\* A reliable chain RPC: what the gateway must get right for a client that paid.
SPECIFICATION FairSpec
CONSTANTS
  Requests = {r1, r2}
  Payers = {p1, p2}
  Endpoints = {vectors}
  SubscriptionEndpoints = {vectors}
  Txs = {t1}
  None = None
  TTL = 0
  Grace = 0
  MAX_SETTLEMENT_HISTORY = 1
  Window = 1
  Ws = TRUE
  ReceiptTx = TRUE
  OthersTx = FALSE
  RpcFaults = FALSE
  Listed = {"pending", "confirmed"}
  ReceiptKinds = {"none", "otherEndpoint", "badSignature", "subscription", "payment"}
  MaxTime = 1
  MaxCrashes = 1
PROPERTIES NoFalseRejection EveryRequestAnswered
CHECK_DEADLOCK FALSE
