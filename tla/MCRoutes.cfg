SPECIFICATION RoutesSpec
CONSTANTS
    \* Competing receipts for settled invoices, subscriptions, and forwarding that fails.
    r1 = r1
    r2 = r2
    r3 = r3
    e1 = e1
    e2 = e2
    Request = {r1, r2, r3}
    Payer = {p1, p2}
    Endpoint = {e1, e2}
    Route <- MCRoute
    Bodies = {r2}
    Nothing = Nothing
    \* Two codes, two wallets, a crash and a code that outlives its TTL.
    Codes = {c1, c2}
    Posts = {p1, p2}
    None = None
    TTL = 1
    MaxTime = 2
    MaxCrashes = 1
INVARIANTS ConsumedByPayer MeterIsExact ConfirmedByWallet AdoptedFromWallet
PROPERTIES ImplementsPayPerCall EveryRequestAnswered ConfirmationsStay BrowserConnects
CHECK_DEADLOCK FALSE
