SPECIFICATION DeliveriesSpec
CONSTANTS
    \* Creation, confirmation, notification and streams over one file, with and without the service.
    Payments = {i1, i2}
    Confirmations = {c1, c2}
    Streams = {s1}
    Transfers = {x1}
    Absent = Absent
    MaxTopupCrashes = 1
    \* Three transfers over two lanes, batches of two, a queue of two, calls that fail, and a close.
    t2 = t2
    Txs = {t1, t2, t3}
    MaxLanes = 2
    Spread = 1
    NodeNonces = {0}
    BatchSize = 2
    MaxQueue = 2
    Retries = 2
    Unset = Unset
INVARIANTS CreditedOnceNatively FinishedIsBacked NoNonceReused ResultIsOwn NothingLost ClosedIsDrained
PROPERTIES RecordsMoveForward FinishedIsShown EveryFutureSet
CHECK_DEADLOCK FALSE
