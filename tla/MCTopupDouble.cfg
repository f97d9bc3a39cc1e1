\* The invoice service is configured; nothing crashes.
SPECIFICATION TopupSpec
CONSTANTS
  Payments = {i1, i2}
  Confirmations = {c1, c2}
  Streams = {s1}
  Transfers = {x1}
  Absent = Absent
  MaxTopupCrashes = 0
INVARIANT OneConfirmationCredits
CHECK_DEADLOCK FALSE
