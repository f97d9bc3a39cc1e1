\* Everything may go wrong: events, polls, verifications, sweep and a crash interleave.
SPECIFICATION Spec
CONSTANTS
  Requests = {r1, r2, r3}
  Payers = {p1, p2}
  Endpoints = {vectors, quote}
  SubscriptionEndpoints = {quote}
  Txs = {t1}
  None = None
  TTL = 0
  Grace = 0
  MAX_SETTLEMENT_HISTORY = 3
  Window = 1
  Ws = TRUE
  ReceiptTx = TRUE
  OthersTx = TRUE
  RpcFaults = TRUE
  Listed = {"confirmed"}
  ReceiptKinds = {"none", "otherEndpoint", "badSignature", "subscription", "payment"}
  MaxTime = 1
  MaxCrashes = 1
SYMMETRY Symmetry
INVARIANTS ServicePaid OncePerWitness
PROPERTY SettledUntilConsumed
CHECK_DEADLOCK FALSE
