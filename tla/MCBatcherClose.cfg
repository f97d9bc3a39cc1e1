\* Two transfers, one of them still queued when the client is closed; the node answers every call.
SPECIFICATION SoundSpec
CONSTANTS
  Txs = {t1, t2}
  MaxLanes = 1
  Spread = 1
  NodeNonces = {0}
  BatchSize = 1
  MaxQueue = 2
  Retries = 1
  Unset = Unset
INVARIANT StoppedAfterDraining
CHECK_DEADLOCK FALSE
