----------------------------- MODULE GatewayProofs -----------------------------
(***************************************************************************)
(* Proofs about Gateway, for every number of requests, payers, endpoints   *)
(* and transactions and every value of its parameters.                     *)
(***************************************************************************)
EXTENDS Gateway, TLAPS

-------------------------------------------------------------------------------
(***************************************************************************)
(* The inductive invariant.  Linked says how the pieces of state refer to  *)
(* each other, which is what TypeOK needs to be inductive; Backed says     *)
(* that what the gateway believes of a payment is so on the chain.         *)
(***************************************************************************)

\* A transaction names an invoice that a challenge has issued.
TxsNameIssued ==
  \A t \in Txs : txs[t] # None => reqs[txs[t].invoice].pc = "challenged"

\* What a witness is about to settle is a payment.
WitnessedBacked ==
  /\ \A t \in events : txs[t] # None /\ Backs(t, txs[t].invoice)
  /\ \A t \in events : txs[t].status = "confirmed"
  /\ \A t \in listing :
       txs[t] # None /\ (Listed \subseteq {"confirmed"} => txs[t].status = "confirmed")
  /\ detail # None => txs[detail] # None /\ Backs(detail, txs[detail].invoice)

\* Wallet p sent transaction t, unless clients also quote what others sent.
SentBy(t, p) == OthersTx \/ txs[t].from = p

\* The receipt in the hands of the handler quotes a transaction of the chain.
ReceiptQuoted(r) ==
  /\ reqs[r].kind = "payment"
  /\ reqs[r].invoice \in Requests
  /\ reqs[r].payer \in Payers
  /\ reqs[r].tx # None => txs[reqs[r].tx] # None /\ SentBy(reqs[r].tx, reqs[r].payer)

RequestLinked(r) ==
  /\ reqs[r].pc # "idle" => reqs[r].endpoint \in Endpoints
  /\ reqs[r].pc = "sent" /\ reqs[r].kind = "payment" => ReceiptQuoted(r)
  /\ reqs[r].pc \in {"verifyUnknown", "verifyUnpaid"} => ReceiptQuoted(r) /\ reqs[r].tx # None
  /\ reqs[r].pc = "verifyUnpaid" => reqs[r].held \in Endpoints
  /\ reqs[r].pc = "verifyUnpaid" /\ reqs[r].live => invoices[reqs[r].invoice] # None

\* The invoice object o of hash h.
ObjectBacked(o, h) ==
  o # None =>
    \/ o.status = "pending" /\ o.tx = None
    \/ /\ o.status # "pending"
       /\ Backs(o.tx, h)
       /\ SentBy(o.tx, o.payer)

InvoiceBacked(h) == ObjectBacked(invoices[h], h)

SpentBacked(r) ==
  reqs[r].spent # None =>
    /\ reqs[r].pc \in {"proxy", "served", "badGateway", "lost"}
    /\ reqs[r].invoice \in Requests
    /\ Backs(reqs[r].spent, reqs[r].invoice)
    /\ SentBy(reqs[r].spent, reqs[r].payer)

Inv ==
  /\ TypeOK
  /\ TxsNameIssued
  /\ WitnessedBacked
  /\ \A r \in Requests : RequestLinked(r)
  /\ \A h \in Requests : InvoiceBacked(h)
  /\ \A r \in Requests : SpentBacked(r)

\* No event and no receipt names a transaction: the poller is the only witness.
PollOnly == ~Ws /\ ~ReceiptTx

NoSecondWitness ==
  /\ events = {}
  /\ \A r \in Requests : /\ reqs[r].pc \notin {"verifyUnknown", "verifyUnpaid"}
                        /\ reqs[r].tx = None
  /\ detail # None => detail \in seenHashes

Unspent(t) == \A q \in Requests : reqs[q].spent # t

\* The poller has yet to settle t.
Unsettled(t) == t \notin seenHashes \/ t = detail

InvoiceFresh(h) ==
  invoices[h] # None =>
    /\ invoices[h].status = "paid" => Unspent(invoices[h].tx)
    /\ \A t \in Txs : txs[t] # None /\ txs[t].invoice = h /\ Unsettled(t) =>
                        Unspent(t) /\ invoices[h].tx # t

SingleUse ==
  /\ NoSecondWitness
  /\ \A h \in Requests : InvoiceFresh(h)
  /\ NoDoubleSpend

-------------------------------------------------------------------------------
(***************************************************************************)
(* Every step keeps Inv.                                                   *)
(***************************************************************************)

\* Cut yields a sequence of transactions no longer than the history may be.
LEMMA CutTyped ==
  ASSUME NEW s \in Seq(Txs)
  PROVE  Cut(s) \in Seq(Txs) /\ Len(Cut(s)) <= MAX_SETTLEMENT_HISTORY
BY GatewayAssumption DEF Cut

\* pushSettlement keeps the history within its limit.
LEMMA PushTyped ==
  ASSUME TypeOK, NEW t \in Txs, pushSettlement(t)
  PROVE  recentSettlements' \in Seq(Txs) /\ Len(recentSettlements') <= MAX_SETTLEMENT_HISTORY
<1>1. <<t>> \o recentSettlements \in Seq(Txs)
  BY DEF TypeOK
<1> QED
  BY <1>1, CutTyped DEF pushSettlement

\* The process starts with empty memory, before any transaction.
LEMMA InitInv == Init => Inv
BY NoneAssumption, GatewayAssumption
   DEF Init, Inv, TypeOK, TxsNameIssued, WitnessedBacked, RequestLinked, InvoiceBacked,
       ObjectBacked, SpentBacked, Idle, Request, Kinds, SentBy

\* A step of the chain: transactions are added, and change only their status.
LEMMA ChainGrows ==
  ASSUME Inv,
         txs' \in [Txs -> Transaction \union {None}],
         \A t \in Txs : txs[t] # None =>
           /\ txs'[t] # None
           /\ txs'[t].from = txs[t].from /\ txs'[t].to = txs[t].to
           /\ txs'[t].invoice = txs[t].invoice
           /\ txs[t].status = "confirmed" => txs'[t].status = "confirmed",
         \A t \in Txs : txs'[t] # None => reqs[txs'[t].invoice].pc = "challenged",
         events' \subseteq Txs,
         \A t \in events' : t \in events \/ (txs'[t] # None /\ txs'[t].to = Registry
                                             /\ txs'[t].status = "confirmed"),
         UNCHANGED <<invoices, recentSettlements, seenHashes, listing, detail, reqs, now, crashes>>
  PROVE  Inv'
<1>1. TypeOK'
  BY DEF Inv, TypeOK
<1>2. TxsNameIssued'
  BY DEF TxsNameIssued
<1>3. WitnessedBacked'
  BY GatewayAssumption DEF Inv, TypeOK, WitnessedBacked, Backs
<1>4. \A r \in Requests : RequestLinked(r)'
  BY DEF Inv, TypeOK, RequestLinked, ReceiptQuoted, Request, SentBy
<1>5. \A h \in Requests : InvoiceBacked(h)'
  BY DEF Inv, TypeOK, InvoiceBacked, ObjectBacked, Backs, Invoice, SentBy
<1>6. \A r \in Requests : SpentBacked(r)'
  BY DEF Inv, TypeOK, SpentBacked, Backs, Request, SentBy
<1> QED
  BY <1>1, <1>2, <1>3, <1>4, <1>5, <1>6 DEF Inv

\* A step of one request that keeps to reqs[r].
LEMMA OneRequest ==
  ASSUME Inv, NEW r \in Requests, NEW q \in Request,
         reqs[r].pc # "challenged",
         reqs' = [reqs EXCEPT ![r] = q],
         RequestLinked(r)', SpentBacked(r)',
         UNCHANGED <<invoices, recentSettlements, seenHashes, listing, detail, txs, events, now, crashes>>
  PROVE  Inv'
<1>1. TypeOK'
  BY DEF Inv, TypeOK
<1>2. TxsNameIssued' /\ WitnessedBacked'
  BY DEF Inv, TypeOK, TxsNameIssued, WitnessedBacked, Backs, Transaction
<1>3. \A p \in Requests : RequestLinked(p)'
  BY DEF Inv, TypeOK, RequestLinked, ReceiptQuoted, SentBy
<1>4. \A h \in Requests : InvoiceBacked(h)'
  BY DEF Inv, InvoiceBacked, ObjectBacked, Backs, SentBy
<1>5. \A p \in Requests : SpentBacked(p)'
  BY DEF Inv, TypeOK, SpentBacked, Backs, SentBy
<1> QED
  BY <1>1, <1>2, <1>3, <1>4, <1>5 DEF Inv

\* A new challenge, after the step has changed the Map to map.
LEMMA ChallengeInv ==
  ASSUME Inv, NEW r \in Requests, NEW map \in [Requests -> Invoice \union {None}],
         reqs[r].pc \in {"sent"} \union (Awaiting \ {"proxy"}),
         \A h \in Requests : invoices[h] # None => map[h] # None,
         \A h \in Requests : ObjectBacked(map[h], h),
         challenge(r, map),
         UNCHANGED <<recentSettlements, seenHashes, listing, detail, txs, events, now, crashes>>
  PROVE  Inv'
<1> DEFINE o == PendingInvoice(reqs[r].endpoint)
           q == [Idle EXCEPT !.pc = "challenged", !.endpoint = reqs[r].endpoint]
<1>a. reqs[r].endpoint \in Endpoints
  BY DEF Inv, RequestLinked, Awaiting
<1>b. o \in Invoice /\ o # None /\ o.status = "pending" /\ o.tx = None
  BY <1>a, NoneAssumption, GatewayAssumption DEF Inv, TypeOK, PendingInvoice, Invoice
<1>c. q \in Request /\ q.pc = "challenged" /\ q.spent = None /\ q.endpoint \in Endpoints
  BY <1>a DEF Idle, Request, Kinds, Answered
<1>d. invoices' = [map EXCEPT ![r] = o] /\ reqs' = [reqs EXCEPT ![r] = q]
  BY DEF challenge
<1> HIDE DEF o, q
<1>1. TypeOK'
  BY <1>b, <1>c, <1>d DEF Inv, TypeOK
<1>2. TxsNameIssued' /\ WitnessedBacked'
  BY <1>c, <1>d DEF Inv, TypeOK, TxsNameIssued, WitnessedBacked, Backs, Transaction
<1>3. \A p \in Requests : RequestLinked(p)'
  BY <1>b, <1>c, <1>d DEF Inv, TypeOK, RequestLinked, ReceiptQuoted, SentBy
<1>4. \A h \in Requests : InvoiceBacked(h)'
  BY <1>b, <1>d DEF Inv, InvoiceBacked, ObjectBacked, Backs, SentBy
<1>5. \A p \in Requests : SpentBacked(p)'
  BY <1>c, <1>d DEF Inv, TypeOK, SpentBacked, Backs, SentBy
<1> QED
  BY <1>1, <1>2, <1>3, <1>4, <1>5 DEF Inv

\* settle, called for a payment of an issued invoice.
LEMMA SettleKeeps ==
  ASSUME Inv, NEW t \in Txs, txs[t] # None, NEW h \in Requests, h = txs[t].invoice,
         Backs(t, h), settle(h, reqs[h].endpoint, t), UNCHANGED <<reqs, txs>>
  PROVE  /\ invoices' \in [Requests -> Invoice \union {None}]
         /\ recentSettlements' \in Seq(Txs) /\ Len(recentSettlements') <= MAX_SETTLEMENT_HISTORY
         /\ \A r \in Requests : RequestLinked(r)'
         /\ \A g \in Requests : InvoiceBacked(g)'
<1> DEFINE o == SettledInvoice(h, reqs[h].endpoint, t)
<1>a. reqs[h].endpoint \in Endpoints
  BY DEF Inv, TxsNameIssued, RequestLinked
<1>b. txs[t].from \in Payers
  BY DEF Inv, TypeOK, Transaction
<1>c. /\ o \in Invoice /\ o # None
      /\ o.status = "paid" /\ o.tx = t /\ o.payer = txs[t].from
  <2>1. CASE invoices[h] = None
    BY <1>a, <1>b, <2>1, NoneAssumption, GatewayAssumption
       DEF Inv, TypeOK, SettledInvoice, Invoice
  <2>2. CASE invoices[h] # None
    <3>1. o = [invoices[h] EXCEPT !.payer = txs[t].from, !.status = "paid", !.tx = t]
      BY <2>2 DEF SettledInvoice
    <3>2. invoices[h] \in Invoice
      BY <2>2 DEF Inv, TypeOK
    <3> HIDE DEF o
    <3>3. o \in Invoice /\ o.status = "paid" /\ o.tx = t /\ o.payer = txs[t].from
      BY <1>b, <3>1, <3>2 DEF Invoice
    <3> QED
      BY <3>3, NoneAssumption
  <2> QED
    BY <2>1, <2>2
<1>d. invoices' = [invoices EXCEPT ![h] = o]
  BY DEF settle
<1> HIDE DEF o
<1>1. invoices' \in [Requests -> Invoice \union {None}]
  BY <1>c, <1>d DEF Inv, TypeOK
<1>2. recentSettlements' \in Seq(Txs) /\ Len(recentSettlements') <= MAX_SETTLEMENT_HISTORY
  BY PushTyped DEF Inv, settle
<1>3. \A r \in Requests : RequestLinked(r)'
  BY <1>c, <1>d DEF Inv, TypeOK, RequestLinked, ReceiptQuoted, SentBy
<1>4. \A g \in Requests : InvoiceBacked(g)'
  BY <1>c, <1>d DEF Inv, TypeOK, InvoiceBacked, ObjectBacked, Backs, SentBy
<1> QED
  BY <1>1, <1>2, <1>3, <1>4

\* What the listener and the poller settle is a payment (lines 175-216 and 369-415).
LEMMA WitnessInv ==
  ASSUME Inv, NEW t \in Txs,
         \/ WsMessage(t) \/ WsLost(t)
         \/ PollList \/ PollNext(t) \/ PollDetail \/ PollDetailEmpty \/ PollDetailFails
  PROVE  Inv'
<1>1. CASE WsMessage(t)
  <2>a. txs[t] # None /\ txs[t].invoice \in Requests /\ Backs(t, txs[t].invoice)
    BY <1>1 DEF WsMessage, Inv, TypeOK, Transaction, WitnessedBacked
  <2>b. settle(txs[t].invoice, reqs[txs[t].invoice].endpoint, t) /\ UNCHANGED <<reqs, txs>>
    BY <1>1 DEF WsMessage
  <2>1. TypeOK'
    BY <1>1, <2>a, <2>b, SettleKeeps DEF WsMessage, Inv, TypeOK
  <2>2. TxsNameIssued' /\ WitnessedBacked'
    BY <1>1 DEF WsMessage, Inv, TxsNameIssued, WitnessedBacked, Backs
  <2>3. (\A r \in Requests : RequestLinked(r)') /\ (\A h \in Requests : InvoiceBacked(h)')
    BY <2>a, <2>b, SettleKeeps
  <2>4. \A r \in Requests : SpentBacked(r)'
    BY <1>1 DEF WsMessage, Inv, SpentBacked, Backs, SentBy
  <2> QED
    BY <2>1, <2>2, <2>3, <2>4 DEF Inv
<1>2. CASE WsLost(t)
  BY <1>2 DEF WsLost, Inv, TypeOK, TxsNameIssued, WitnessedBacked, RequestLinked, ReceiptQuoted,
              InvoiceBacked, ObjectBacked, SpentBacked, Backs, SentBy
<1>3. CASE PollNext(t)
  <2>1. TypeOK'
    BY <1>3 DEF PollNext, Remember, Fetch, Inv, TypeOK
  <2>2. TxsNameIssued' /\ WitnessedBacked'
    BY <1>3, GatewayAssumption
       DEF PollNext, Fetch, Inv, TypeOK, TxsNameIssued, WitnessedBacked, Backs
  <2>3. /\ \A r \in Requests : RequestLinked(r)' /\ SpentBacked(r)'
        /\ \A h \in Requests : InvoiceBacked(h)'
    BY <1>3 DEF PollNext, Inv, RequestLinked, ReceiptQuoted, InvoiceBacked, ObjectBacked,
                SpentBacked, Backs, SentBy
  <2> QED
    BY <2>1, <2>2, <2>3 DEF Inv
<1>4. CASE PollDetail /\ invoices[txs[detail].invoice] # None
  <2> DEFINE h == txs[detail].invoice
  <2>a. detail \in Txs /\ txs[detail] # None /\ h \in Requests /\ Backs(detail, h)
    BY <1>4 DEF PollDetail, Inv, TypeOK, Transaction, WitnessedBacked
  <2>b. settle(h, reqs[h].endpoint, detail) /\ UNCHANGED <<reqs, txs>>
    BY <1>4 DEF PollDetail
  <2> HIDE DEF h
  <2>c. /\ invoices' \in [Requests -> Invoice \union {None}]
        /\ recentSettlements' \in Seq(Txs) /\ Len(recentSettlements') <= MAX_SETTLEMENT_HISTORY
        /\ \A r \in Requests : RequestLinked(r)'
        /\ \A g \in Requests : InvoiceBacked(g)'
    BY <2>a, <2>b, SettleKeeps DEF h
  <2>1. TypeOK'
    BY <1>4, <2>c DEF PollDetail, Inv, TypeOK
  <2>2. TxsNameIssued' /\ WitnessedBacked'
    BY <1>4 DEF PollDetail, Inv, TxsNameIssued, WitnessedBacked, Backs
  <2>3. \A r \in Requests : SpentBacked(r)'
    BY <1>4 DEF PollDetail, Inv, SpentBacked, Backs, SentBy
  <2> QED
    BY <2>1, <2>2, <2>3, <2>c DEF Inv
<1>5. CASE PollDetail /\ invoices[txs[detail].invoice] = None
  BY <1>5 DEF PollDetail, Inv, TypeOK, TxsNameIssued, WitnessedBacked, RequestLinked,
              ReceiptQuoted, InvoiceBacked, ObjectBacked, SpentBacked, Backs, SentBy
<1>6. CASE PollDetailEmpty \/ PollDetailFails
  BY <1>6 DEF PollDetailEmpty, PollDetailFails, Inv, TypeOK, TxsNameIssued, WitnessedBacked,
              RequestLinked, ReceiptQuoted, InvoiceBacked, ObjectBacked, SpentBacked, Backs, SentBy
<1>7. CASE PollList
  BY <1>7 DEF PollList, Inv, TypeOK, TxsNameIssued, WitnessedBacked, RequestLinked,
              ReceiptQuoted, InvoiceBacked, ObjectBacked, SpentBacked, Backs, SentBy
<1> QED
  BY <1>1, <1>2, <1>3, <1>4, <1>5, <1>6, <1>7

\* The requests after a step that only detaches some of them.
LEMMA DetachKeeps ==
  ASSUME Inv, NEW hs
  PROVE  /\ Detach(hs) \in [Requests -> Request]
         /\ \A r \in Requests :
              LET q == Detach(hs)[r]
              IN  /\ q.pc = reqs[r].pc /\ q.endpoint = reqs[r].endpoint
                  /\ q.kind = reqs[r].kind /\ q.payer = reqs[r].payer
                  /\ q.invoice = reqs[r].invoice /\ q.tx = reqs[r].tx
                  /\ q.held = reqs[r].held /\ q.spent = reqs[r].spent
                  /\ q.live => reqs[r].live
                  /\ q.pc = "verifyUnpaid" /\ q.live => q.invoice \notin hs
<1> SUFFICES ASSUME NEW r \in Requests
             PROVE  LET q == Detach(hs)[r]
                    IN  /\ q \in Request
                        /\ q.pc = reqs[r].pc /\ q.endpoint = reqs[r].endpoint
                        /\ q.kind = reqs[r].kind /\ q.payer = reqs[r].payer
                        /\ q.invoice = reqs[r].invoice /\ q.tx = reqs[r].tx
                        /\ q.held = reqs[r].held /\ q.spent = reqs[r].spent
                        /\ q.live => reqs[r].live
                        /\ q.pc = "verifyUnpaid" /\ q.live => q.invoice \notin hs
  BY DEF Detach
<1>1. reqs[r] \in Request
  BY DEF Inv, TypeOK
<1>2. CASE reqs[r].pc = "verifyUnpaid" /\ reqs[r].invoice \in hs
  <2>1. Detach(hs)[r] = [reqs[r] EXCEPT !.live = FALSE]
    BY <1>2 DEF Detach
  <2> QED
    BY <1>1, <2>1 DEF Request
<1>3. CASE ~(reqs[r].pc = "verifyUnpaid" /\ reqs[r].invoice \in hs)
  <2>1. Detach(hs)[r] = reqs[r]
    BY <1>3 DEF Detach
  <2> QED
    BY <1>1, <1>3, <2>1
<1> QED
  BY <1>2, <1>3

\* The sweep, the clock and a restart only forget.
LEMMA MemoryInv ==
  ASSUME Inv, Sweep \/ Tick \/ Crash
  PROVE  Inv'
<1>1. CASE Sweep
  <2> DEFINE dropped == {h \in Requests : invoices[h] # None /\ Stale(h)}
  <2>a. /\ invoices' = [h \in Requests |-> IF h \in dropped THEN None ELSE invoices[h]]
        /\ reqs' = Detach(dropped)
        /\ UNCHANGED <<recentSettlements, seenHashes, listing, detail, txs, events, now, crashes>>
    BY <1>1 DEF Sweep
  <2> HIDE DEF dropped
  <2>b. /\ reqs' \in [Requests -> Request]
        /\ \A r \in Requests :
             /\ reqs'[r].pc = reqs[r].pc /\ reqs'[r].endpoint = reqs[r].endpoint
             /\ reqs'[r].kind = reqs[r].kind /\ reqs'[r].payer = reqs[r].payer
             /\ reqs'[r].invoice = reqs[r].invoice /\ reqs'[r].tx = reqs[r].tx
             /\ reqs'[r].held = reqs[r].held /\ reqs'[r].spent = reqs[r].spent
             /\ reqs'[r].live => reqs[r].live
             /\ reqs'[r].pc = "verifyUnpaid" /\ reqs'[r].live => reqs'[r].invoice \notin dropped
    BY <2>a, DetachKeeps
  <2>1. TypeOK'
    BY <2>a, <2>b DEF Inv, TypeOK
  <2>2. TxsNameIssued' /\ WitnessedBacked'
    BY <2>a, <2>b DEF Inv, TypeOK, TxsNameIssued, WitnessedBacked, Backs, Transaction
  <2>3. \A r \in Requests : RequestLinked(r)'
    BY <2>a, <2>b DEF Inv, RequestLinked, ReceiptQuoted, SentBy
  <2>4. \A h \in Requests : InvoiceBacked(h)'
    BY <2>a DEF Inv, InvoiceBacked, ObjectBacked, Backs, SentBy
  <2>5. \A r \in Requests : SpentBacked(r)'
    BY <2>a, <2>b DEF Inv, SpentBacked, Backs, SentBy
  <2> QED
    BY <2>1, <2>2, <2>3, <2>4, <2>5 DEF Inv
<1>2. CASE Tick
  BY <1>2 DEF Tick, Inv, TypeOK, TxsNameIssued, WitnessedBacked, RequestLinked, ReceiptQuoted,
              InvoiceBacked, ObjectBacked, SpentBacked, Backs, SentBy
<1>3. CASE Crash
  <2>a. \A r \in Requests :
          /\ reqs'[r] \in Request
          /\ reqs[r].pc \notin Awaiting => reqs'[r] = reqs[r]
          /\ reqs[r].pc \in Awaiting =>
               /\ reqs'[r].pc = "lost" /\ reqs'[r].endpoint = reqs[r].endpoint
               /\ reqs'[r].payer = reqs[r].payer /\ reqs'[r].invoice = reqs[r].invoice
               /\ reqs'[r].spent = reqs[r].spent
    <3> SUFFICES ASSUME NEW r \in Requests
                 PROVE  /\ reqs'[r] \in Request
                        /\ reqs[r].pc \notin Awaiting => reqs'[r] = reqs[r]
                        /\ reqs[r].pc \in Awaiting =>
                             /\ reqs'[r].pc = "lost" /\ reqs'[r].endpoint = reqs[r].endpoint
                             /\ reqs'[r].payer = reqs[r].payer /\ reqs'[r].invoice = reqs[r].invoice
                             /\ reqs'[r].spent = reqs[r].spent
      OBVIOUS
    <3>1. reqs[r] \in Request
      BY DEF Inv, TypeOK
    <3>2. CASE reqs[r].pc \in Awaiting
      <4>1. reqs'[r] = [reqs[r] EXCEPT !.pc = "lost"]
        BY <1>3, <3>2 DEF Crash
      <4> QED
        BY <3>1, <3>2, <4>1 DEF Request, Answered
    <3>3. CASE reqs[r].pc \notin Awaiting
      BY <1>3, <3>1, <3>3 DEF Crash
    <3> QED
      BY <3>2, <3>3
  <2>1. TypeOK'
    <3>1. reqs' \in [Requests -> Request]
      BY <1>3, <2>a DEF Crash
    <3> QED
      BY <1>3, <3>1, GatewayAssumption DEF Crash, Inv, TypeOK
  <2>2. TxsNameIssued' /\ WitnessedBacked'
    BY <1>3, <2>a DEF Crash, Inv, TypeOK, TxsNameIssued, WitnessedBacked, Transaction, Awaiting
  <2>3. \A r \in Requests : RequestLinked(r)'
    BY <1>3, <2>a DEF Crash, Inv, TypeOK, RequestLinked, ReceiptQuoted, Awaiting, SentBy
  <2>4. \A h \in Requests : InvoiceBacked(h)'
    BY <1>3 DEF Crash, InvoiceBacked, ObjectBacked, SentBy
  <2>5. \A r \in Requests : SpentBacked(r)'
    BY <1>3, <2>a DEF Crash, Inv, SpentBacked, Backs, Awaiting, SentBy
  <2> QED
    BY <2>1, <2>2, <2>3, <2>4, <2>5 DEF Inv
<1> QED
  BY <1>1, <1>2, <1>3

\* The end of the check, with an invoice object that is not pending.
LEMMA AdmitInv ==
  ASSUME Inv, NEW r \in Requests, NEW inv \in Invoice, NEW present \in BOOLEAN,
         reqs[r].pc \in {"sent", "verifyUnpaid"},
         reqs[r].kind = "payment", ReceiptQuoted(r),
         inv.status = "paid", ObjectBacked(inv, reqs[r].invoice),
         Admit(r, inv, present),
         UNCHANGED <<recentSettlements, seenHashes, listing, detail, txs, events, now, crashes>>
  PROVE  Inv'
<1> DEFINE h == reqs[r].invoice
<1>a. h \in Requests /\ inv # None
  BY NoneAssumption DEF ReceiptQuoted, SentBy
<1>b. inv.tx \in Txs /\ Backs(inv.tx, h) /\ SentBy(inv.tx, inv.payer)
  BY <1>a DEF ObjectBacked, Backs, Invoice, SentBy
<1>1. CASE Matches(r, inv)
  <2> DEFINE o == Consumed(inv)
             q == [reqs[r] EXCEPT !.pc = "proxy", !.spent = inv.tx]
  <2>a. /\ invoices' = PutInvoice(h, o, present)
        /\ reqs' = [reqs EXCEPT ![r] = q]
    BY <1>1 DEF Admit, Inv, TypeOK
  <2>b. o \in Invoice /\ o.status = "consumed" /\ o.tx = inv.tx /\ o.payer = inv.payer
    BY DEF Consumed, Invoice
  <2>c. q \in Request /\ q.pc = "proxy" /\ q.spent = inv.tx /\ q.invoice = h
        /\ q.payer = inv.payer /\ q.endpoint = reqs[r].endpoint
    BY <1>1, <1>b DEF Matches, Inv, TypeOK, Request, Awaiting
  <2>d. o # None
    BY <2>b, NoneAssumption
  <2> HIDE DEF o, q, h
  <2>1. TypeOK'
    BY <1>a, <2>a, <2>b, <2>c DEF Inv, TypeOK, PutInvoice
  <2>2. TxsNameIssued' /\ WitnessedBacked'
    BY <2>a, <2>c DEF Inv, TypeOK, TxsNameIssued, WitnessedBacked, Backs, Transaction
  <2>3. \A p \in Requests : RequestLinked(p)'
    BY <1>a, <2>a, <2>c, <2>d DEF Inv, TypeOK, RequestLinked, ReceiptQuoted, PutInvoice, SentBy
  <2>4. \A g \in Requests : InvoiceBacked(g)'
    BY <1>a, <1>b, <2>a, <2>b DEF Inv, TypeOK, InvoiceBacked, ObjectBacked, Backs, PutInvoice, SentBy
  <2>5. \A p \in Requests : SpentBacked(p)'
    BY <1>a, <1>b, <2>a, <2>c DEF Inv, TypeOK, SpentBacked, Backs, SentBy
  <2> QED
    BY <2>1, <2>2, <2>3, <2>4, <2>5 DEF Inv
<1>2. CASE ~Matches(r, inv)
  <2> DEFINE map == PutInvoice(h, inv, present)
  <2>1. map \in [Requests -> Invoice \union {None}]
    BY <1>a DEF PutInvoice, Inv, TypeOK
  <2>2. /\ \A g \in Requests : invoices[g] # None => map[g] # None
        /\ \A g \in Requests : ObjectBacked(map[g], g)
    BY <1>a, <1>b DEF PutInvoice, Inv, TypeOK, InvoiceBacked, ObjectBacked, SentBy
  <2>3. challenge(r, map)
    BY <1>2 DEF Admit
  <2>4. reqs[r].pc \in {"sent"} \union (Awaiting \ {"proxy"})
    BY DEF Awaiting
  <2> HIDE DEF map
  <2> QED
    BY <2>1, <2>2, <2>3, <2>4, ChallengeInv
<1> QED
  BY <1>1, <1>2

\* The steps of the environment.
LEMMA EnvironmentInv ==
  ASSUME Inv, Client \/ Chain
  PROVE  Inv'
<1>1. ASSUME NEW t \in Txs, NEW p \in Payers, NEW to \in {Registry, "elsewhere"},
             NEW h \in Requests, Pay(t, p, to, h)
      PROVE  Inv'
  <2> DEFINE x == [from |-> p, to |-> to, invoice |-> h,
                earlier |-> {u \in Txs : txs[u] # None}, status |-> "pending"]
  <2>1. txs' \in [Txs -> Transaction \union {None}] /\ txs' = [txs EXCEPT ![t] = x]
        /\ x.invoice = h
    BY <1>1 DEF Pay, Inv, TypeOK, Transaction
  <2> HIDE DEF x
  <2>2. /\ \A u \in Txs : txs[u] # None => txs'[u] = txs[u]
        /\ \A u \in Txs : txs'[u] # None => reqs[txs'[u].invoice].pc = "challenged"
    BY <1>1, <2>1 DEF Pay, Issued, Inv, TypeOK, TxsNameIssued
  <2>3. events' = events
        /\ UNCHANGED <<invoices, recentSettlements, seenHashes, listing, detail, reqs, now, crashes>>
    BY <1>1 DEF Pay
  <2> QED
    BY <2>1, <2>2, <2>3, ChainGrows DEF Inv, TypeOK
<1>2. ASSUME NEW r \in Requests, NEW e \in Endpoints, NEW k \in ReceiptKinds \ {"payment"},
             Send(r, e, k)
      PROVE  Inv'
  <2> DEFINE q == [Idle EXCEPT !.pc = "sent", !.endpoint = e, !.kind = k]
  <2>1. q \in Request /\ q.pc = "sent" /\ q.kind # "payment" /\ q.endpoint \in Endpoints
        /\ q.spent = None
    BY GatewayAssumption DEF Idle, Request, Kinds
  <2>2. /\ reqs' = [reqs EXCEPT ![r] = q]
        /\ UNCHANGED <<invoices, recentSettlements, seenHashes, listing, detail, txs, events, now, crashes>>
        /\ reqs[r].pc = "idle"
    BY <1>2 DEF Send
  <2> HIDE DEF q
  <2>3. RequestLinked(r)' /\ SpentBacked(r)'
    BY <2>1, <2>2 DEF Inv, TypeOK, RequestLinked, SpentBacked, SentBy
  <2> QED
    BY <2>1, <2>2, <2>3, OneRequest
<1>3. ASSUME NEW r \in Requests, NEW e \in Endpoints, NEW p \in Payers, NEW h \in Requests,
             NEW t \in Txs \union {None}, SendReceipt(r, e, p, h, t)
      PROVE  Inv'
  <2> DEFINE q == [Idle EXCEPT !.pc = "sent", !.endpoint = e, !.kind = "payment",
                               !.payer = p, !.invoice = h, !.tx = t]
  <2>1. /\ q \in Request /\ q.pc = "sent" /\ q.kind = "payment" /\ q.endpoint \in Endpoints
        /\ q.payer = p /\ q.invoice = h /\ q.tx = t /\ q.spent = None
    BY DEF Idle, Request, Kinds
  <2>2. /\ reqs' = [reqs EXCEPT ![r] = q]
        /\ UNCHANGED <<invoices, recentSettlements, seenHashes, listing, detail, txs, events, now, crashes>>
        /\ reqs[r].pc = "idle"
    BY <1>3 DEF SendReceipt
  <2>3. t # None => txs[t] # None /\ SentBy(t, p)
    BY <1>3 DEF SendReceipt, Quotable, SentBy
  <2> HIDE DEF q
  <2>4. RequestLinked(r)' /\ SpentBacked(r)'
    BY <2>1, <2>2, <2>3 DEF Inv, TypeOK, RequestLinked, ReceiptQuoted, SpentBacked, SentBy
  <2> QED
    BY <2>1, <2>2, <2>4, OneRequest
<1>4. ASSUME NEW t \in Txs, Confirm(t) \/ Revert(t)
      PROVE  Inv'
  <2>1. PICK s \in {"confirmed", "failed"} :
          /\ txs' = [txs EXCEPT ![t].status = s]
          /\ events' = events \/ (s = "confirmed" /\ txs[t].to = Registry /\ events' = events \union {t})
    BY <1>4 DEF Confirm, Revert
  <2>2. /\ txs[t] # None /\ txs[t].status = "pending"
        /\ UNCHANGED <<invoices, recentSettlements, seenHashes, listing, detail, reqs, now, crashes>>
    BY <1>4 DEF Confirm, Revert
  <2> DEFINE x == [txs[t] EXCEPT !.status = s]
  <2>3. txs[t] \in Transaction
    BY <2>2 DEF Inv, TypeOK
  <2>4. /\ x \in Transaction /\ x.status = s /\ x.from = txs[t].from
        /\ x.to = txs[t].to /\ x.invoice = txs[t].invoice
    BY <2>3 DEF Transaction
  <2>5. txs' = [txs EXCEPT ![t] = x] /\ x # None
    BY <2>1, <2>4, NoneAssumption DEF Inv, TypeOK
  <2> HIDE DEF x
  <2>6. /\ txs' \in [Txs -> Transaction \union {None}]
        /\ \A u \in Txs : txs[u] # None =>
             /\ txs'[u] # None
             /\ txs'[u].from = txs[u].from /\ txs'[u].to = txs[u].to
             /\ txs'[u].invoice = txs[u].invoice
             /\ txs[u].status = "confirmed" => txs'[u].status = "confirmed"
        /\ \A u \in Txs : txs'[u] # None => reqs[txs'[u].invoice].pc = "challenged"
    BY <2>2, <2>4, <2>5 DEF Inv, TypeOK, TxsNameIssued
  <2>7. /\ events' \subseteq Txs
        /\ \A u \in events' : u \in events \/ (txs'[u] # None /\ txs'[u].to = Registry
                                               /\ txs'[u].status = "confirmed")
    BY <2>1, <2>4, <2>5 DEF Inv, TypeOK
  <2> QED
    BY <2>2, <2>6, <2>7, ChainGrows
<1> QED
  BY <1>1, <1>2, <1>3, <1>4 DEF Client, Chain

\* Every step of the route handler (lines 529-616) keeps Inv.
LEMMA HandlerInv ==
  ASSUME Inv, NEW r \in Requests, Handler(r)
  PROVE  Inv'
<1> DEFINE Rest == UNCHANGED <<recentSettlements, seenHashes, listing, detail, txs, events, now, crashes>>
<1>a. reqs[r] \in Request /\ RequestLinked(r) /\ SpentBacked(r)
  BY DEF Inv, TypeOK
<1>b. /\ invoices \in [Requests -> Invoice \union {None}]
      /\ \A h \in Requests : ObjectBacked(invoices[h], h)
  BY DEF Inv, TypeOK, InvoiceBacked
<1>c. ASSUME challenge(r, invoices), Rest, reqs[r].pc \in {"sent"} \union (Awaiting \ {"proxy"})
      PROVE  Inv'
  BY <1>b, <1>c, ChallengeInv
<1>d. ASSUME NEW c \in {"rejected", "isValid", "proxy", "served", "badGateway", "verifyUnknown"},
             reqs' = [reqs EXCEPT ![r].pc = c], UNCHANGED invoices, Rest,
             reqs[r].pc \in {"sent", "isValid", "proxy"},
             c \in {"rejected", "isValid", "verifyUnknown"} => reqs[r].pc = "sent",
             c = "verifyUnknown" => reqs[r].kind = "payment" /\ reqs[r].tx # None
      PROVE  Inv'
  <2> DEFINE q == [reqs[r] EXCEPT !.pc = c]
  <2>1. /\ q \in Request /\ q.pc = c /\ q.endpoint = reqs[r].endpoint /\ q.kind = reqs[r].kind
        /\ q.payer = reqs[r].payer /\ q.invoice = reqs[r].invoice /\ q.tx = reqs[r].tx
        /\ q.spent = reqs[r].spent
    BY <1>a DEF Request, Awaiting, Answered
  <2>2. reqs' = [reqs EXCEPT ![r] = q]
    BY <1>d DEF Inv, TypeOK
  <2> HIDE DEF q
  <2>3. RequestLinked(r)' /\ SpentBacked(r)'
    BY <1>a, <1>d, <2>1, <2>2 DEF Inv, TypeOK, RequestLinked, ReceiptQuoted, SpentBacked, Backs, SentBy
  <2> QED
    BY <1>d, <2>1, <2>2, <2>3, OneRequest
<1>1. CASE HandleNoReceipt(r)
  BY <1>1, <1>c DEF HandleNoReceipt, Handling
<1>2. CASE HandleBadSignature(r)
  BY <1>2, <1>d DEF HandleBadSignature, Handling
<1>3. CASE HandleSubscription(r)
  BY <1>3, <1>d DEF HandleSubscription, Handling
<1>4. CASE HandlePayment(r)
  <2> DEFINE h == reqs[r].invoice
  <2>a. reqs[r].pc = "sent" /\ reqs[r].kind = "payment" /\ ReceiptQuoted(r) /\ h \in Requests /\ Rest
    BY <1>4, <1>a DEF HandlePayment, Handling, RequestLinked, ReceiptQuoted, SentBy
  <2>1. CASE challenge(r, invoices)
    BY <1>c, <2>1, <2>a
  <2>2. CASE /\ Verifiable(r)
             /\ reqs' = [reqs EXCEPT ![r].pc = "verifyUnknown"]
             /\ UNCHANGED invoices
    BY <1>d, <2>2, <2>a DEF Verifiable
  <2>3. CASE /\ Status(h) = "pending"
             /\ Verifiable(r)
             /\ reqs' = [reqs EXCEPT ![r].pc = "verifyUnpaid",
                                     ![r].held = invoices[h].endpoint,
                                     ![r].live = TRUE]
             /\ UNCHANGED invoices
    <3> DEFINE q == [reqs[r] EXCEPT !.pc = "verifyUnpaid", !.held = invoices[h].endpoint,
                                    !.live = TRUE]
    <3>1. invoices[h] # None /\ invoices[h].endpoint \in Endpoints
      BY <1>b, <2>3, <2>a DEF Status, Invoice
    <3>2. /\ q \in Request /\ q.pc = "verifyUnpaid" /\ q.endpoint = reqs[r].endpoint
          /\ q.kind = reqs[r].kind /\ q.payer = reqs[r].payer /\ q.invoice = reqs[r].invoice
          /\ q.tx = reqs[r].tx /\ q.spent = reqs[r].spent /\ q.held \in Endpoints
      BY <1>a, <3>1 DEF Request, Awaiting
    <3>3. reqs' = [reqs EXCEPT ![r] = q]
      BY <2>3 DEF Inv, TypeOK
    <3> HIDE DEF q
    <3>4. RequestLinked(r)' /\ SpentBacked(r)'
      BY <1>a, <2>3, <2>a, <3>1, <3>2, <3>3
         DEF Inv, TypeOK, RequestLinked, ReceiptQuoted, SpentBacked, Backs, Verifiable, SentBy
    <3> QED
      BY <2>3, <2>a, <3>2, <3>3, <3>4, OneRequest
  <2>4. CASE Status(h) = "paid" /\ Admit(r, invoices[h], TRUE)
    <3>1. invoices[h] \in Invoice /\ invoices[h].status = "paid" /\ ObjectBacked(invoices[h], h)
      BY <1>b, <2>4, <2>a DEF Status
    <3> QED
      BY <2>4, <2>a, <3>1, AdmitInv
  <2> QED
    BY <1>4, <2>1, <2>2, <2>3, <2>4 DEF HandlePayment
<1>5. CASE VerifiedUnknown(r)
  <2> DEFINE h == reqs[r].invoice
             t == reqs[r].tx
             o == Consumed([endpoint |-> reqs[r].endpoint, payer |-> reqs[r].payer,
                            status |-> "paid", expiresAt |-> now + TTL, tx |-> t])
             q == [Detach({h})[r] EXCEPT !.pc = "proxy", !.spent = t]
  <2>a. /\ reqs[r].pc = "verifyUnknown"
        /\ UNCHANGED <<recentSettlements, seenHashes, listing, detail, txs, events, now, crashes>>
        /\ verifyPaymentTx(t, h)
        /\ invoices' = [invoices EXCEPT ![h] = o]
    BY <1>5 DEF VerifiedUnknown, Verified
  <2>b. /\ h \in Requests /\ t \in Txs /\ reqs[r].payer \in Payers /\ reqs[r].endpoint \in Endpoints
        /\ Backs(t, h) /\ SentBy(t, reqs[r].payer)
    BY <1>a, <2>a DEF RequestLinked, ReceiptQuoted, Request, verifyPaymentTx, Backs, SentBy
  <2>c. o \in Invoice /\ o.status = "consumed" /\ o.tx = t /\ o.payer = reqs[r].payer
    <3> DEFINE x == [endpoint |-> reqs[r].endpoint, payer |-> reqs[r].payer,
                     status |-> "paid", expiresAt |-> now + TTL, tx |-> t]
    <3>1. x \in Invoice /\ x.tx = t /\ x.payer = reqs[r].payer
      BY <2>b, GatewayAssumption DEF Invoice, Inv, TypeOK
    <3> HIDE DEF x
    <3> QED
      BY <3>1 DEF Consumed, Invoice, x
  <2>d. o # None
    BY <2>c, NoneAssumption
  <2>e. /\ Detach({h})[r] \in Request /\ Detach({h})[r].endpoint = reqs[r].endpoint
        /\ Detach({h})[r].payer = reqs[r].payer /\ Detach({h})[r].invoice = h
    BY DetachKeeps
  <2>f. /\ q \in Request /\ q.pc = "proxy" /\ q.spent = t /\ q.invoice = h
        /\ q.payer = reqs[r].payer /\ q.endpoint = reqs[r].endpoint
    BY <2>b, <2>e DEF Request, Awaiting
  <2>g. reqs' = [Detach({h}) EXCEPT ![r] = q]
    BY <1>5, DetachKeeps DEF VerifiedUnknown
  <2> HIDE DEF o, q, h, t
  <2>h. /\ reqs' \in [Requests -> Request]
        /\ reqs'[r] = q
        /\ \A p \in Requests \ {r} :
             /\ reqs'[p].pc = reqs[p].pc /\ reqs'[p].endpoint = reqs[p].endpoint
             /\ reqs'[p].kind = reqs[p].kind /\ reqs'[p].payer = reqs[p].payer
             /\ reqs'[p].invoice = reqs[p].invoice /\ reqs'[p].tx = reqs[p].tx
             /\ reqs'[p].held = reqs[p].held /\ reqs'[p].spent = reqs[p].spent
             /\ reqs'[p].live => reqs[p].live
    BY <2>f, <2>g, DetachKeeps
  <2>1. TypeOK'
    BY <2>a, <2>b, <2>c, <2>h DEF Inv, TypeOK
  <2>2. TxsNameIssued' /\ WitnessedBacked'
    <3>1. \A p \in Requests : reqs[p].pc = "challenged" => reqs'[p].pc = "challenged"
      BY <2>a, <2>h
    <3> QED
      BY <2>a, <3>1 DEF Inv, TypeOK, TxsNameIssued, WitnessedBacked, Backs, Transaction
  <2>3. \A p \in Requests : RequestLinked(p)'
    <3> SUFFICES ASSUME NEW p \in Requests PROVE RequestLinked(p)'
      OBVIOUS
    <3>1. CASE p = r
      BY <2>b, <2>f, <2>h, <3>1 DEF RequestLinked
    <3>2. CASE p # r
      <4>1. RequestLinked(p) /\ \A g \in Requests : invoices[g] # None => invoices'[g] # None
        BY <2>a, <2>b, <2>d DEF Inv, TypeOK
      <4> QED
        BY <2>a, <2>h, <3>2, <4>1 DEF RequestLinked, ReceiptQuoted, SentBy
    <3> QED
      BY <3>1, <3>2
  <2>4. \A g \in Requests : InvoiceBacked(g)'
    BY <2>a, <2>b, <2>c DEF Inv, TypeOK, InvoiceBacked, ObjectBacked, Backs, SentBy
  <2>5. \A p \in Requests : SpentBacked(p)'
    <3> SUFFICES ASSUME NEW p \in Requests PROVE SpentBacked(p)'
      OBVIOUS
    <3>1. CASE p = r
      BY <2>a, <2>b, <2>f, <2>h, <3>1 DEF SpentBacked, Backs, SentBy
    <3>2. CASE p # r
      BY <2>a, <2>h, <3>2 DEF Inv, SpentBacked, Backs, SentBy
    <3> QED
      BY <3>1, <3>2
  <2> QED
    BY <2>1, <2>2, <2>3, <2>4, <2>5 DEF Inv
<1>6. CASE VerifiedUnpaid(r)
  <2> DEFINE h == reqs[r].invoice
             inv == [endpoint  |-> reqs[r].held,
                     payer     |-> reqs[r].payer,
                     status    |-> "paid",
                     expiresAt |-> IF reqs[r].live THEN invoices[h].expiresAt ELSE now,
                     tx        |-> reqs[r].tx]
  <2>a. /\ reqs[r].pc = "verifyUnpaid" /\ Rest
        /\ verifyPaymentTx(reqs[r].tx, h)
        /\ Admit(r, inv, reqs[r].live)
    BY <1>6 DEF VerifiedUnpaid, Verified
  <2>b. /\ ReceiptQuoted(r) /\ reqs[r].kind = "payment" /\ reqs[r].tx \in Txs /\ txs[reqs[r].tx] # None
        /\ SentBy(reqs[r].tx, reqs[r].payer) /\ reqs[r].held \in Endpoints
        /\ reqs[r].payer \in Payers /\ reqs[r].live \in BOOLEAN
    BY <1>a, <2>a DEF RequestLinked, ReceiptQuoted, Request, SentBy
  <2>c. (IF reqs[r].live THEN invoices[h].expiresAt ELSE now) \in Nat
    BY <1>a, <1>b, <2>a, <2>b DEF Inv, TypeOK, RequestLinked, ReceiptQuoted, Invoice, SentBy
  <2>d. inv \in Invoice /\ inv.status = "paid" /\ inv.tx = reqs[r].tx /\ inv.payer = reqs[r].payer
    BY <2>b, <2>c DEF Invoice
  <2> HIDE DEF inv, h
  <2>e. ObjectBacked(inv, h)
    BY <2>a, <2>b, <2>d, GatewayAssumption DEF ObjectBacked, Backs, verifyPaymentTx, SentBy
  <2> QED
    BY <2>a, <2>b, <2>d, <2>e, AdmitInv DEF h
<1>7. CASE VerifyFails(r)
  BY <1>7, <1>c DEF VerifyFails, Awaiting
<1>8. CASE SubscriptionValid(r)
  BY <1>8, <1>d DEF SubscriptionValid
<1>9. CASE SubscriptionInvalid(r)
  BY <1>9, <1>c DEF SubscriptionInvalid, Awaiting
<1>10. CASE UpstreamAnswers(r)
  BY <1>10, <1>d DEF UpstreamAnswers
<1>11. CASE UpstreamFails(r)
  BY <1>11, <1>d DEF UpstreamFails
<1> QED
  BY <1>1, <1>2, <1>3, <1>4, <1>5, <1>6, <1>7, <1>8, <1>9, <1>10, <1>11 DEF Handler

\* The inductive invariant holds in every deployment.
THEOREM Invariance == Spec => []Inv
<1>1. Init => Inv
  BY InitInv
<1>2. Inv /\ [Next]_vars => Inv'
  <2> SUFFICES ASSUME Inv, [Next]_vars PROVE Inv'
    OBVIOUS
  <2>1. CASE Client \/ Chain
    BY <2>1, EnvironmentInv
  <2>2. CASE Witness
    <3>1. ASSUME NEW t \in Txs, WsMessage(t) \/ WsLost(t) \/ PollNext(t)
          PROVE  Inv'
      BY <3>1, WitnessInv
    <3>2. CASE PollDetail \/ PollDetailEmpty \/ PollDetailFails
      <4>1. detail \in Txs
        BY <3>2 DEF PollDetail, PollDetailEmpty, PollDetailFails, Inv, TypeOK
      <4> QED
        BY <3>2, <4>1, WitnessInv
    <3>3. CASE PollList
      <4>1. CASE \E t \in Txs : TRUE
        BY <3>3, <4>1, WitnessInv
      <4>2. CASE ~\E t \in Txs : TRUE
        BY <3>3, <4>2 DEF PollList, Inv, TypeOK, TxsNameIssued, WitnessedBacked, RequestLinked,
                          ReceiptQuoted, InvoiceBacked, ObjectBacked, SpentBacked, Backs, SentBy
      <4> QED
        BY <4>1, <4>2
    <3> QED
      BY <2>2, <3>1, <3>2, <3>3 DEF Witness
  <2>3. CASE \E r \in Requests : Handler(r)
    BY <2>3, HandlerInv
  <2>4. CASE Sweep \/ Tick \/ Crash
    BY <2>4, MemoryInv
  <2>5. CASE UNCHANGED vars
    BY <2>5 DEF vars, Inv, TypeOK, TxsNameIssued, WitnessedBacked, RequestLinked, ReceiptQuoted,
                InvoiceBacked, ObjectBacked, SpentBacked, Backs, SentBy
  <2> QED
    BY <2>1, <2>2, <2>3, <2>4, <2>5 DEF Next
<1> QED
  BY <1>1, <1>2, PTL DEF Spec

\* Every variable keeps its type; the settlement history never outgrows its limit.
THEOREM TypeCorrect == Spec => []TypeOK
<1>1. Inv => TypeOK
  BY DEF Inv
<1> QED
  BY <1>1, Invariance, PTL

\* A call gets through only on a payment of its own invoice, whoever sent it (lines 547-577).
THEOREM ServiceIsPaid == Spec => []ServicePaid
<1>1. Inv => ServicePaid
  BY DEF Inv, SpentBacked, ServicePaid
<1> QED
  BY <1>1, Invariance, PTL

\* Where clients quote only what they sent, the payer that was compared is the one that paid:
\* settle takes it from the transaction, and whatever happens to the object in between keeps
\* it (lines 189-207, 551-577).
THEOREM PayerIsCompared ==
  ASSUME ~OthersTx
  PROVE  Spec => []ServicePaidByCaller
<1>1. Inv => ServicePaidByCaller
  BY DEF Inv, SpentBacked, SentBy, ServicePaidByCaller, PaidByCaller
<1> QED
  BY <1>1, Invariance, PTL

-------------------------------------------------------------------------------
(***************************************************************************)
(* Where the poller is the only witness, a payment is spent at most once.  *)
(***************************************************************************)

\* A step that spends nothing and settles nothing: invoices stay, go, or start afresh.
LEMMA NothingSpent ==
  ASSUME Inv, SingleUse, NoSecondWitness',
         \A q \in Requests : reqs'[q].spent = reqs[q].spent,
         \A h \in Requests : \/ invoices'[h] = invoices[h]
                             \/ invoices'[h] = None
                             \/ /\ invoices'[h].status = "pending" /\ invoices'[h].tx = None
                                /\ \A t \in Txs : txs'[t] # None => txs'[t].invoice # h,
         \A t \in Txs : txs[t] # None /\ txs'[t] # None => txs'[t].invoice = txs[t].invoice,
         \A t \in Txs : txs'[t] # None /\ Unsettled(t)' => Unsettled(t) \/ \A h \in Requests : invoices'[h] = None
  PROVE  SingleUse'
<1>1. ASSUME NEW h \in Requests, invoices'[h] = invoices[h], invoices[h] # None
      PROVE  InvoiceFresh(h)'
  <2>1. invoices[h].status = "paid" => Unspent(invoices[h].tx)'
    BY <1>1 DEF SingleUse, InvoiceFresh, Unspent
  <2>2. ASSUME NEW t \in Txs, txs'[t] # None, txs'[t].invoice = h, Unsettled(t)'
        PROVE  Unspent(t)' /\ invoices[h].tx # t
    <3>1. Unsettled(t)
      BY <1>1, <2>2
    <3>2. CASE txs[t] # None
      BY <1>1, <2>2, <3>1, <3>2 DEF SingleUse, InvoiceFresh, Unspent
    <3>3. CASE txs[t] = None
      BY <1>1, <2>2, <3>3, GatewayAssumption
         DEF Inv, SpentBacked, InvoiceBacked, ObjectBacked, Backs, Unspent
    <3> QED
      BY <3>2, <3>3
  <2> QED
    BY <1>1, <2>1, <2>2 DEF InvoiceFresh
<1>2. \A h \in Requests : InvoiceFresh(h)'
  BY <1>1 DEF InvoiceFresh
<1>3. NoDoubleSpend'
  BY DEF SingleUse, NoDoubleSpend
<1> QED
  BY <1>2, <1>3 DEF SingleUse

\* A challenge draws a hash that no transaction can name yet.
LEMMA ChallengeSingle ==
  ASSUME Inv, SingleUse, NEW r \in Requests, NEW map \in [Requests -> Invoice \union {None}],
         reqs[r].pc \in {"sent", "isValid"},
         \A h \in Requests : map[h] = invoices[h],
         challenge(r, map),
         UNCHANGED <<recentSettlements, seenHashes, listing, detail, txs, events, now, crashes>>
  PROVE  SingleUse'
<1> DEFINE o == PendingInvoice(reqs[r].endpoint)
           q == [Idle EXCEPT !.pc = "challenged", !.endpoint = reqs[r].endpoint]
<1>1. o.status = "pending" /\ o.tx = None /\ q.pc = "challenged" /\ q.spent = None /\ q.tx = None
  BY DEF PendingInvoice, Idle
<1>2. invoices' = [map EXCEPT ![r] = o] /\ reqs' = [reqs EXCEPT ![r] = q]
  BY DEF challenge
<1> HIDE DEF o, q
<1>3. \A p \in Requests : reqs'[p].spent = reqs[p].spent
  BY <1>1, <1>2 DEF Inv, TypeOK, SpentBacked
<1>4. NoSecondWitness'
  BY <1>1, <1>2 DEF Inv, TypeOK, SingleUse, NoSecondWitness
<1>5. \A h \in Requests : \/ invoices'[h] = invoices[h]
                         \/ /\ invoices'[h].status = "pending" /\ invoices'[h].tx = None
                            /\ \A t \in Txs : txs'[t] # None => txs'[t].invoice # h
  BY <1>1, <1>2 DEF Inv, TxsNameIssued
<1> QED
  BY <1>3, <1>4, <1>5, NothingSpent DEF Unsettled

\* A step of request r that leaves the invoices alone.
LEMMA HandlerQuiet ==
  ASSUME Inv, SingleUse, NEW r \in Requests, NEW c \in {"rejected", "isValid", "proxy", "served", "badGateway"},
         reqs' = [reqs EXCEPT ![r].pc = c],
         UNCHANGED <<invoices, recentSettlements, seenHashes, listing, detail, txs, events, now, crashes>>
  PROVE  SingleUse'
<1> DEFINE q == [reqs[r] EXCEPT !.pc = c]
<1>1. q.spent = reqs[r].spent /\ q.tx = reqs[r].tx /\ q.pc = c
  BY DEF Inv, TypeOK, Request
<1>2. reqs' = [reqs EXCEPT ![r] = q]
  BY DEF Inv, TypeOK
<1> HIDE DEF q
<1>3. \A p \in Requests : reqs'[p].spent = reqs[p].spent
  BY <1>1, <1>2 DEF Inv, TypeOK
<1>4. NoSecondWitness'
  BY <1>1, <1>2 DEF Inv, TypeOK, SingleUse, NoSecondWitness
<1> QED
  BY <1>3, <1>4, NothingSpent DEF Unsettled

\* A paid invoice is consumed: its payment was not spent before, and cannot come back.
LEMMA AdmitSingle ==
  ASSUME Inv, SingleUse, NEW r \in Requests,
         reqs[r].pc = "sent", reqs[r].kind = "payment", Status(reqs[r].invoice) = "paid",
         Admit(r, invoices[reqs[r].invoice], TRUE),
         UNCHANGED <<recentSettlements, seenHashes, listing, detail, txs, events, now, crashes>>
  PROVE  SingleUse'
<1> DEFINE h == reqs[r].invoice
           inv == invoices[h]
<1>a. h \in Requests /\ inv # None /\ inv \in Invoice /\ inv.status = "paid"
  BY DEF Inv, TypeOK, RequestLinked, ReceiptQuoted, Status
<1>b. inv.tx \in Txs /\ Backs(inv.tx, h)
  BY <1>a DEF Inv, InvoiceBacked, ObjectBacked, Backs, Invoice
<1>1. CASE Matches(r, inv)
  <2> DEFINE o == Consumed(inv)
             t == inv.tx
             q == [reqs[r] EXCEPT !.pc = "proxy", !.spent = t]
  <2>a. invoices' = [invoices EXCEPT ![h] = o] /\ reqs' = [reqs EXCEPT ![r] = q]
    BY <1>1 DEF Admit, PutInvoice, Inv, TypeOK
  <2>b. o.status = "consumed" /\ o.tx = t
    BY <1>a DEF Consumed, Invoice
  <2>c. q.spent = t /\ q.tx = reqs[r].tx /\ q.pc = "proxy"
    BY DEF Inv, TypeOK, Request
  <2>d. Unspent(t) /\ t # None
    BY <1>a, <1>b DEF SingleUse, InvoiceFresh, Backs
  <2>e. ~Unsettled(t)
    BY <1>a, <1>b DEF SingleUse, InvoiceFresh, Backs
  <2>f. inv = invoices[h]
    OBVIOUS
  <2> HIDE DEF o, q, t, h, inv
  <2>g. \A p \in Requests : reqs'[p].spent = IF p = r THEN t ELSE reqs[p].spent
    BY <2>a, <2>c DEF Inv, TypeOK
  <2>1. NoSecondWitness'
    BY <2>a, <2>c DEF Inv, TypeOK, SingleUse, NoSecondWitness
  <2>2. ASSUME NEW g \in Requests
        PROVE  InvoiceFresh(g)'
    <3>1. CASE g = h
      <4>1. ASSUME NEW u \in Txs, txs[u] # None, txs[u].invoice = h, Unsettled(u)
            PROVE  Unspent(u)' /\ o.tx # u
        <5>1. u # t
          BY <2>e, <4>1
        <5>2. Unspent(u)
          BY <1>a, <2>f, <4>1 DEF SingleUse, InvoiceFresh
        <5> QED
          BY <2>b, <2>g, <5>1, <5>2 DEF Unspent
      <4>2. invoices'[g] = o
        BY <1>a, <2>a, <3>1 DEF Inv, TypeOK
      <4> QED
        BY <2>b, <3>1, <4>1, <4>2 DEF InvoiceFresh, Unsettled
    <3>2. CASE g # h
      <4>1. invoices'[g] = invoices[g]
        BY <2>a, <3>2 DEF Inv, TypeOK
      <4>2. txs[t].invoice = h /\ t \in Txs /\ txs[t] # None
        BY <1>b DEF Backs, t
      <4>3. invoices[g] # None /\ invoices[g].status = "paid" => invoices[g].tx # t
        BY <3>2, <4>2 DEF Inv, InvoiceBacked, ObjectBacked, Backs
      <4> QED
        BY <2>g, <3>2, <4>1, <4>2, <4>3 DEF SingleUse, InvoiceFresh, Unspent, Unsettled
    <3> QED
      BY <3>1, <3>2
  <2>3. NoDoubleSpend'
    BY <2>d, <2>g DEF SingleUse, NoDoubleSpend, Unspent
  <2> QED
    BY <2>1, <2>2, <2>3 DEF SingleUse
<1>2. CASE ~Matches(r, inv)
  <2> DEFINE map == PutInvoice(h, inv, TRUE)
  <2>1. map \in [Requests -> Invoice \union {None}] /\ \A g \in Requests : map[g] = invoices[g]
    BY <1>a DEF PutInvoice, Inv, TypeOK
  <2>2. challenge(r, map)
    BY <1>2 DEF Admit
  <2> HIDE DEF map
  <2> QED
    BY <2>1, <2>2, ChallengeSingle
<1> QED
  BY <1>1, <1>2

\* The poller settles a transaction it had not settled before, so it is unspent.
LEMMA PollSingle ==
  ASSUME Inv, SingleUse, PollDetail
  PROVE  SingleUse'
<1> DEFINE t == detail
           h == txs[t].invoice
           o == SettledInvoice(h, reqs[h].endpoint, t)
<1>a. t \in Txs /\ t \in seenHashes /\ txs[t] # None /\ h \in Requests /\ Backs(t, h)
  BY DEF PollDetail, Inv, TypeOK, Transaction, WitnessedBacked, SingleUse, NoSecondWitness
<1>b. detail' = None /\ UNCHANGED <<seenHashes, reqs, txs, events, now, crashes>>
  BY DEF PollDetail
<1>1. NoSecondWitness'
  BY <1>b DEF SingleUse, NoSecondWitness
<1>2. \A u \in Txs : Unsettled(u)' => Unsettled(u) /\ u # t
  BY <1>a, <1>b, GatewayAssumption DEF Unsettled
<1>3. CASE invoices[h] = None
  BY <1>1, <1>2, <1>3, <1>b, NothingSpent DEF PollDetail
<1>4. CASE invoices[h] # None
  <2>1. o.status = "paid" /\ o.tx = t
    <3>1. invoices[h] \in Invoice
      BY <1>4, <1>a DEF Inv, TypeOK
    <3> QED
      BY <1>4, <3>1 DEF SettledInvoice, Invoice
  <2>2. invoices' = [invoices EXCEPT ![h] = o]
    BY <1>4 DEF PollDetail, settle
  <2>3. Unspent(t) /\ Unsettled(t)
    BY <1>4, <1>a DEF SingleUse, InvoiceFresh, Unsettled
  <2> HIDE DEF o, h, t
  <2>4. ASSUME NEW g \in Requests
        PROVE  InvoiceFresh(g)'
    <3>1. CASE g = h
      <4>1. invoices'[g] = o
        BY <1>a, <2>2, <3>1 DEF Inv, TypeOK
      <4>2. \A u \in Txs : txs[u] # None /\ txs[u].invoice = h /\ Unsettled(u) => Unspent(u)
        BY <1>4, <1>a DEF SingleUse, InvoiceFresh
      <4> QED
        BY <1>b, <1>2, <2>1, <2>3, <3>1, <4>1, <4>2 DEF InvoiceFresh, Unspent
    <3>2. CASE g # h
      <4>1. invoices'[g] = invoices[g]
        BY <2>2, <3>2 DEF Inv, TypeOK
      <4> QED
        BY <1>b, <1>2, <4>1 DEF SingleUse, InvoiceFresh, Unspent
    <3> QED
      BY <3>1, <3>2
  <2>5. NoDoubleSpend'
    BY <1>b DEF SingleUse, NoDoubleSpend
  <2> QED
    BY <1>1, <2>4, <2>5 DEF SingleUse
<1> QED
  BY <1>3, <1>4

\* Every step of a deployment whose poller is the only witness keeps SingleUse.
LEMMA SingleStep ==
  ASSUME PollOnly, Inv, SingleUse, [Next]_vars
  PROVE  SingleUse'
<1> USE DEF PollOnly
<1>a. /\ events = {}
      /\ \A r \in Requests : /\ reqs[r].pc \notin {"verifyUnknown", "verifyUnpaid"}
                            /\ reqs[r].tx = None
      /\ detail # None => detail \in seenHashes
  BY DEF SingleUse, NoSecondWitness
<1>1. ASSUME NEW t \in Txs, NEW p \in Payers, NEW to \in {Registry, "elsewhere"},
             NEW h \in Requests, Pay(t, p, to, h)
      PROVE  SingleUse'
  BY <1>1, NothingSpent DEF Pay, Inv, TypeOK, SingleUse, NoSecondWitness, Unsettled
<1>2. ASSUME NEW r \in Requests, NEW e \in Endpoints, NEW q,
             q.pc = "sent", q.spent = None, q.tx = None,
             reqs[r].pc = "idle", reqs' = [reqs EXCEPT ![r] = q],
             UNCHANGED <<invoices, recentSettlements, seenHashes, listing, detail, txs, events, now, crashes>>
      PROVE  SingleUse'
  <2>1. \A p \in Requests : reqs'[p].spent = reqs[p].spent
    BY <1>2 DEF Inv, TypeOK, SpentBacked
  <2>2. NoSecondWitness'
    BY <1>2 DEF Inv, TypeOK, SingleUse, NoSecondWitness
  <2> QED
    BY <1>2, <2>1, <2>2, NothingSpent DEF Unsettled
<1>3. ASSUME NEW r \in Requests, NEW e \in Endpoints, NEW k, Send(r, e, k)
      PROVE  SingleUse'
  <2> DEFINE q == [Idle EXCEPT !.pc = "sent", !.endpoint = e, !.kind = k]
  <2>1. q.pc = "sent" /\ q.spent = None /\ q.tx = None
    BY DEF Idle
  <2> HIDE DEF q
  <2> QED
    BY <1>2, <1>3, <2>1 DEF Send, q
<1>4. ASSUME NEW r \in Requests, NEW e \in Endpoints, NEW p \in Payers, NEW h \in Requests,
             NEW t \in Txs \union {None}, SendReceipt(r, e, p, h, t)
      PROVE  SingleUse'
  <2> DEFINE q == [Idle EXCEPT !.pc = "sent", !.endpoint = e, !.kind = "payment",
                               !.payer = p, !.invoice = h, !.tx = t]
  <2>1. t = None
    BY <1>4 DEF SendReceipt, Quotable
  <2>2. q.pc = "sent" /\ q.spent = None /\ q.tx = None
    BY <2>1 DEF Idle
  <2> HIDE DEF q
  <2> QED
    BY <1>2, <1>4, <2>2 DEF SendReceipt, q
<1>5. ASSUME NEW t \in Txs, Confirm(t) \/ Revert(t)
      PROVE  SingleUse'
  <2>1. PICK s \in {"confirmed", "failed"} : txs' = [txs EXCEPT ![t].status = s]
    BY <1>5 DEF Confirm, Revert
  <2>2. txs[t] \in Transaction
    BY <1>5 DEF Confirm, Revert, Inv, TypeOK
  <2> DEFINE x == [txs[t] EXCEPT !.status = s]
  <2>3. x.invoice = txs[t].invoice /\ txs' = [txs EXCEPT ![t] = x]
    BY <2>1, <2>2 DEF Transaction, Inv, TypeOK
  <2> HIDE DEF x
  <2>4. \A u \in Txs : txs[u] # None /\ txs'[u] # None => txs'[u].invoice = txs[u].invoice
    BY <2>3 DEF Inv, TypeOK
  <2>5. /\ UNCHANGED <<invoices, recentSettlements, seenHashes, listing, detail, reqs, now, crashes>>
        /\ events' = events
    BY <1>5 DEF Confirm, Revert
  <2>6. \A u \in Txs : txs'[u] # None /\ Unsettled(u)' => Unsettled(u)
    BY <2>5 DEF Unsettled
  <2>7. NoSecondWitness'
    BY <2>5, <1>a DEF NoSecondWitness
  <2> QED
    BY <2>4, <2>5, <2>6, <2>7, NothingSpent
<1>6. CASE Witness
  <2>1. ASSUME NEW t \in Txs, PollNext(t)
        PROVE  SingleUse'
    <3>1. NoSecondWitness'
      BY <1>a, <2>1 DEF PollNext, Remember, Fetch, NoSecondWitness
    <3>2. \A u \in Txs : Unsettled(u)' => Unsettled(u)
      BY <2>1, GatewayAssumption DEF PollNext, Remember, Fetch, Unsettled
    <3> QED
      BY <2>1, <3>1, <3>2, NothingSpent DEF PollNext
  <2>2. CASE PollList \/ PollDetailEmpty \/ PollDetailFails
    <3>1. \A u \in Txs : Unsettled(u)' => Unsettled(u)
      BY <2>2, GatewayAssumption DEF PollList, PollDetailEmpty, PollDetailFails, Unsettled
    <3>2. /\ UNCHANGED <<invoices, reqs, txs, events, seenHashes>>
          /\ detail' # None => detail' = detail
      BY <2>2 DEF PollList, PollDetailEmpty, PollDetailFails
    <3> QED
      BY <1>a, <3>1, <3>2, NothingSpent DEF NoSecondWitness
  <2>3. ASSUME NEW t \in Txs, WsMessage(t) \/ WsLost(t)
        PROVE  FALSE
    BY <1>a, <2>3 DEF WsMessage, WsLost
  <2> QED
    BY <1>6, <2>1, <2>2, <2>3, PollSingle DEF Witness
<1>7. ASSUME NEW r \in Requests, Handler(r)
      PROVE  SingleUse'
  <2>a. invoices \in [Requests -> Invoice \union {None}] /\ reqs[r].tx = None
    BY <1>a DEF Inv, TypeOK
  <2>b. ASSUME challenge(r, invoices), reqs[r].pc \in {"sent", "isValid"},
               UNCHANGED <<recentSettlements, seenHashes, listing, detail, txs, events, now, crashes>>
        PROVE  SingleUse'
    BY <2>a, <2>b, ChallengeSingle
  <2>1. CASE HandleNoReceipt(r)
    BY <2>1, <2>b DEF HandleNoReceipt, Handling
  <2>2. CASE HandleBadSignature(r)
    BY <2>2, HandlerQuiet DEF HandleBadSignature, Handling
  <2>3. CASE HandleSubscription(r)
    BY <2>3, HandlerQuiet DEF HandleSubscription, Handling
  <2>4. CASE HandlePayment(r)
    BY <2>4, <2>a, <2>b, AdmitSingle DEF HandlePayment, Handling, Verifiable
  <2>5. CASE VerifiedUnknown(r) \/ VerifiedUnpaid(r) \/ VerifyFails(r)
    BY <1>a, <2>5 DEF VerifiedUnknown, VerifiedUnpaid, VerifyFails, Verified
  <2>6. CASE SubscriptionValid(r)
    BY <2>6, HandlerQuiet DEF SubscriptionValid
  <2>7. CASE SubscriptionInvalid(r)
    BY <2>7, <2>b DEF SubscriptionInvalid
  <2>8. CASE UpstreamAnswers(r) \/ UpstreamFails(r)
    BY <2>8, HandlerQuiet DEF UpstreamAnswers, UpstreamFails
  <2> QED
    BY <1>7, <2>1, <2>2, <2>3, <2>4, <2>5, <2>6, <2>7, <2>8 DEF Handler
<1>8. CASE Sweep
  <2> DEFINE dropped == {h \in Requests : invoices[h] # None /\ Stale(h)}
  <2>1. /\ \A h \in Requests : invoices'[h] = invoices[h] \/ invoices'[h] = None
        /\ reqs' = Detach(dropped)
        /\ UNCHANGED <<recentSettlements, seenHashes, listing, detail, txs, events, now, crashes>>
    BY <1>8 DEF Sweep
  <2> HIDE DEF dropped
  <2>2. \A r \in Requests : /\ reqs'[r].pc = reqs[r].pc /\ reqs'[r].tx = reqs[r].tx
                           /\ reqs'[r].spent = reqs[r].spent
    BY <2>1, DetachKeeps
  <2>3. NoSecondWitness'
    BY <1>a, <2>1, <2>2 DEF NoSecondWitness
  <2> QED
    BY <2>1, <2>2, <2>3, NothingSpent DEF Unsettled
<1>9. CASE Crash
  <2>1. \A r \in Requests : /\ reqs'[r].pc \notin {"verifyUnknown", "verifyUnpaid"}
                           /\ reqs'[r].tx = reqs[r].tx /\ reqs'[r].spent = reqs[r].spent
    <3> SUFFICES ASSUME NEW r \in Requests
                 PROVE  /\ reqs'[r].pc \notin {"verifyUnknown", "verifyUnpaid"}
                        /\ reqs'[r].tx = reqs[r].tx /\ reqs'[r].spent = reqs[r].spent
      OBVIOUS
    <3>1. reqs[r] \in Request
      BY DEF Inv, TypeOK
    <3>2. CASE reqs[r].pc \in Awaiting
      <4>1. reqs'[r] = [reqs[r] EXCEPT !.pc = "lost"]
        BY <1>9, <3>2 DEF Crash
      <4> QED
        BY <3>1, <4>1 DEF Request
    <3>3. CASE reqs[r].pc \notin Awaiting
      BY <1>9, <1>a, <3>3 DEF Crash
    <3> QED
      BY <3>2, <3>3
  <2>2. NoSecondWitness'
    BY <1>9, <1>a, <2>1 DEF Crash, NoSecondWitness
  <2>3. \A h \in Requests : invoices'[h] = None
    BY <1>9 DEF Crash
  <2>4. txs' = txs
    BY <1>9 DEF Crash
  <2> QED
    BY <2>1, <2>2, <2>3, <2>4, NothingSpent
<1>10. CASE Tick \/ UNCHANGED vars
  BY <1>10, <1>a, NothingSpent DEF Tick, vars, NoSecondWitness, Unsettled
<1> QED
  BY <1>1, <1>3, <1>4, <1>5, <1>6, <1>7, <1>8, <1>9, <1>10 DEF Next, Client, Chain

\* SingleUse is inductive relative to Inv, where only the poller reports payments.
THEOREM SingleUseInvariance ==
  ASSUME PollOnly
  PROVE  Spec => []SingleUse
<1>1. Init => SingleUse
  BY DEF Init, SingleUse, NoSecondWitness, InvoiceFresh, NoDoubleSpend, Idle
<1>2. Inv /\ SingleUse /\ [Next]_vars => SingleUse'
  BY SingleStep
<1> QED
  BY <1>1, <1>2, Invariance, PTL DEF Spec

\* Where only the poller reports payments, no payment lets two calls through (line 565).
THEOREM OnePaymentOneCall ==
  ASSUME PollOnly
  PROVE  Spec => []NoDoubleSpend
<1>1. SingleUse => NoDoubleSpend
  BY DEF SingleUse
<1> QED
  BY <1>1, SingleUseInvariance, PTL

-------------------------------------------------------------------------------
(***************************************************************************)
(* The same deployment implements PayPerCall.                              *)
(***************************************************************************)
paidBar == {t \in Txs : txs[t] # None /\ txs[t].to = Registry}
spentBar == [r \in Requests |-> reqs[r].spent]

\* A step of the handler of r that may spend.
MaySpend(r) ==
  /\ \A q \in Requests \ {r} : reqs'[q].spent = reqs[q].spent
  /\ reqs[r].spent = None
  /\ txs' = txs

\* A step changes spent of one request at most, from None and without touching the chain.
LEMMA SpendStep ==
  ASSUME PollOnly, Inv, SingleUse, [Next]_vars
  PROVE  (\A q \in Requests : reqs'[q].spent = reqs[q].spent) \/ (\E r \in Requests : MaySpend(r))
<1> DEFINE Goal == \/ \A q \in Requests : reqs'[q].spent = reqs[q].spent
                   \/ \E r \in Requests : MaySpend(r)
<1>a. ASSUME NEW r \in Requests, NEW q, reqs' = [reqs EXCEPT ![r] = q], txs' = txs,
             reqs[r].pc \in {"idle", "sent", "isValid"}
      PROVE  Goal
  <2>1. reqs[r].spent = None
    BY <1>a DEF Inv, SpentBacked
  <2>2. \A p \in Requests \ {r} : reqs'[p].spent = reqs[p].spent
    BY <1>a DEF Inv, TypeOK
  <2> QED
    BY <1>a, <2>1, <2>2 DEF MaySpend
<1>1. CASE reqs' = reqs
  BY <1>1
<1>2. ASSUME NEW r \in Requests, NEW e, NEW k, Send(r, e, k)
      PROVE  Goal
  BY <1>2, <1>a DEF Send
<1>3. ASSUME NEW r \in Requests, NEW e, NEW p, NEW h, NEW t, SendReceipt(r, e, p, h, t)
      PROVE  Goal
  BY <1>3, <1>a DEF SendReceipt
<1>4. ASSUME NEW r \in Requests, Handler(r)
      PROVE  Goal
  <2>a. ASSUME NEW map, challenge(r, map), txs' = txs, reqs[r].pc \in {"sent", "isValid"}
        PROVE  Goal
    BY <1>a, <2>a DEF challenge
  <2>b. ASSUME NEW c, reqs' = [reqs EXCEPT ![r].pc = c], txs' = txs, reqs[r].pc \in {"sent", "isValid"}
        PROVE  Goal
    <3> DEFINE q == [reqs[r] EXCEPT !.pc = c]
    <3>1. reqs' = [reqs EXCEPT ![r] = q]
      BY <2>b DEF Inv, TypeOK
    <3> HIDE DEF q
    <3> QED
      BY <1>a, <2>b, <3>1
  <2>1. CASE HandleNoReceipt(r)
    BY <2>1, <2>a DEF HandleNoReceipt, Handling
  <2>2. CASE HandleBadSignature(r) \/ HandleSubscription(r)
    BY <2>2, <2>b DEF HandleBadSignature, HandleSubscription, Handling
  <2>3. CASE HandlePayment(r)
    <3> DEFINE h == reqs[r].invoice
    <3>1. ~Verifiable(r) /\ reqs[r].pc = "sent" /\ txs' = txs
      BY <2>3 DEF HandlePayment, Handling, Verifiable, SingleUse, NoSecondWitness
    <3>2. CASE challenge(r, invoices)
      BY <2>a, <3>1, <3>2
    <3>3. CASE Admit(r, invoices[h], TRUE)
      <4>1. CASE challenge(r, PutInvoice(h, invoices[h], TRUE))
        BY <2>a, <3>1, <4>1
      <4>2. CASE reqs' = [reqs EXCEPT ![r].pc = "proxy", ![r].spent = invoices[h].tx]
        <5> DEFINE q == [reqs[r] EXCEPT !.pc = "proxy", !.spent = invoices[h].tx]
        <5>1. reqs' = [reqs EXCEPT ![r] = q]
          BY <4>2 DEF Inv, TypeOK
        <5> HIDE DEF q
        <5> QED
          BY <1>a, <3>1, <5>1
      <4> QED
        BY <3>3, <4>1, <4>2 DEF Admit
    <3> QED
      BY <2>3, <3>1, <3>2, <3>3 DEF HandlePayment
  <2>4. CASE VerifiedUnknown(r) \/ VerifiedUnpaid(r) \/ VerifyFails(r)
    BY <2>4 DEF VerifiedUnknown, VerifiedUnpaid, VerifyFails, Verified, SingleUse, NoSecondWitness
  <2>5. CASE SubscriptionValid(r)
    BY <2>5, <2>b DEF SubscriptionValid
  <2>6. CASE SubscriptionInvalid(r)
    BY <2>6, <2>a DEF SubscriptionInvalid
  <2>7. CASE UpstreamAnswers(r) \/ UpstreamFails(r)
    <3>1. PICK c \in {"served", "badGateway"} : reqs' = [reqs EXCEPT ![r].pc = c]
      BY <2>7 DEF UpstreamAnswers, UpstreamFails
    <3>2. \A q \in Requests : reqs'[q].spent = reqs[q].spent
      BY <3>1 DEF Inv, TypeOK, Request
    <3> QED
      BY <3>2
  <2> QED
    BY <1>4, <2>1, <2>2, <2>3, <2>4, <2>5, <2>6, <2>7 DEF Handler
<1>5. CASE Sweep
  <2>1. PICK hs : reqs' = Detach(hs)
    BY <1>5 DEF Sweep
  <2> QED
    BY <2>1, DetachKeeps
<1>6. CASE Crash
  <2>1. \A q \in Requests : reqs'[q].spent = reqs[q].spent
    BY <1>6 DEF Crash, Inv, TypeOK, Request
  <2> QED
    BY <2>1
<1> QED
  BY <1>1, <1>2, <1>3, <1>4, <1>5, <1>6
     DEF Next, Client, Chain, Witness, Pay, Confirm, Revert, WsMessage, WsLost, PollList,
         PollNext, PollDetail, PollDetailEmpty, PollDetailFails, Tick, vars

\* A step adds one payment and nothing else, or leaves the payments alone.
LEMMA PaidStep ==
  ASSUME Inv, [Next]_vars
  PROVE  \/ paidBar' = paidBar
         \/ /\ reqs' = reqs
            /\ \E t \in Txs : t \notin paidBar /\ paidBar' = paidBar \union {t}
<1>1. CASE txs' = txs
  BY <1>1 DEF paidBar
<1>2. ASSUME NEW t \in Txs, NEW p \in Payers, NEW to \in {Registry, "elsewhere"},
             NEW h \in Requests, Pay(t, p, to, h)
      PROVE  \/ paidBar' = paidBar
             \/ reqs' = reqs /\ t \notin paidBar /\ paidBar' = paidBar \union {t}
  <2> DEFINE x == [from |-> p, to |-> to, invoice |-> h,
                earlier |-> {u \in Txs : txs[u] # None}, status |-> "pending"]
  <2>1. /\ txs[t] = None /\ reqs' = reqs
        /\ \A u \in Txs : txs'[u] = IF u = t THEN x ELSE txs[u]
    BY <1>2 DEF Pay, Inv, TypeOK
  <2>2. x # None /\ x.to = to
    BY NoneAssumption DEF Transaction
  <2> HIDE DEF x
  <2>3. CASE to = Registry
    BY <2>1, <2>2, <2>3 DEF paidBar
  <2>4. CASE to # Registry
    BY <2>1, <2>2, <2>4 DEF paidBar
  <2> QED
    BY <2>3, <2>4
<1>3. ASSUME NEW t \in Txs, Confirm(t) \/ Revert(t)
      PROVE  paidBar' = paidBar
  <2>1. PICK s \in {"confirmed", "failed"} : txs' = [txs EXCEPT ![t].status = s]
    BY <1>3 DEF Confirm, Revert
  <2>2. txs[t] \in Transaction /\ txs[t] # None
    BY <1>3 DEF Confirm, Revert, Inv, TypeOK
  <2> DEFINE x == [txs[t] EXCEPT !.status = s]
  <2>3. x \in Transaction /\ x.to = txs[t].to
    BY <2>2 DEF Transaction
  <2>4. \A u \in Txs : txs'[u] = IF u = t THEN x ELSE txs[u]
    BY <2>1 DEF Inv, TypeOK
  <2> HIDE DEF x
  <2> QED
    BY <2>2, <2>3, <2>4, NoneAssumption DEF paidBar
<1> QED
  BY <1>1, <1>2, <1>3
     DEF Next, Client, Chain, Witness, Send, SendReceipt, WsMessage, WsLost, PollList, PollNext,
         PollDetail, PollDetailEmpty, PollDetailFails, Sweep, Tick, Crash, vars, Handler, Handling, HandleNoReceipt,
         HandleBadSignature, HandleSubscription, HandlePayment, VerifiedUnknown, VerifiedUnpaid,
         Verified, VerifyFails, SubscriptionValid, SubscriptionInvalid, UpstreamAnswers,
         UpstreamFails

\* Where only the poller reports payments, the gateway implements PayPerCall.
THEOREM Refinement ==
  ASSUME PollOnly
  PROVE  Spec => ImplementsPayPerCall
<1>1. Init => PC!Init
  BY DEF Init, PC!Init, Idle
<1>2. Inv /\ SingleUse /\ Inv' /\ SingleUse' /\ [Next]_vars => [PC!Next]_(PC!vars)
  <2> SUFFICES ASSUME Inv, SingleUse, Inv', SingleUse', [Next]_vars
               PROVE  PC!Next \/ (paidBar' = paidBar /\ spentBar' = spentBar)
    BY DEF PC!vars, paidBar, spentBar
  <2>1. CASE reqs' = reqs /\ \E t \in Txs : t \notin paidBar /\ paidBar' = paidBar \union {t}
    BY <2>1 DEF PC!Next, PC!Pay, paidBar
  <2>2. CASE paidBar' = paidBar /\ \A q \in Requests : reqs'[q].spent = reqs[q].spent
    BY <2>2 DEF spentBar
  <2>3. ASSUME paidBar' = paidBar, NEW r \in Requests, MaySpend(r)
        PROVE  PC!Next \/ (paidBar' = paidBar /\ spentBar' = spentBar)
    <3> DEFINE t == reqs'[r].spent
    <3>1. CASE t = None
      BY <2>3, <3>1 DEF MaySpend, spentBar
    <3>2. CASE t # None
      <4>1. t \in Txs /\ t \in paidBar
        BY <2>3, <3>2 DEF Inv, TypeOK, Request, SpentBacked, Backs, MaySpend, paidBar
      <4>2. \A q \in Requests : reqs[q].spent # t
        BY <2>3, <3>2 DEF SingleUse, NoDoubleSpend, MaySpend
      <4>3. spentBar' = [spentBar EXCEPT ![r] = t]
        BY <2>3 DEF MaySpend, spentBar
      <4>4. spentBar[r] = None /\ \A q \in Requests : spentBar[q] # t
        BY <2>3, <4>2 DEF MaySpend, spentBar
      <4>5. PICK p \in Txs : p = t
        BY <4>1
      <4>6. PC!Serve(r, p)
        BY <2>3, <4>1, <4>3, <4>4, <4>5 DEF PC!Serve, paidBar, spentBar
      <4> QED
        BY <4>6 DEF PC!Next
    <3> QED
      BY <3>1, <3>2
  <2> QED
    BY <2>1, <2>2, <2>3, SpendStep, PaidStep
<1> QED
  BY <1>1, <1>2, Invariance, SingleUseInvariance, PTL DEF Spec, ImplementsPayPerCall, PC!Spec

-------------------------------------------------------------------------------
(***************************************************************************)
(* What a step does to a request and to an invoice, in every deployment.   *)
(* The two predicates are what the rest of the proofs use of Next.         *)
(***************************************************************************)
RequestMoves(r) ==
  /\ reqs[r].pc = "challenged" => reqs'[r] = reqs[r]
  /\ reqs[r].spent # None => reqs'[r].spent = reqs[r].spent /\ reqs'[r].invoice = reqs[r].invoice
  /\ reqs'[r].spent # None =>
       /\ reqs'[r].invoice = reqs[r].invoice /\ reqs'[r].endpoint = reqs[r].endpoint
       /\ \/ reqs[r].spent # None
          \/ reqs[r].pc \in {"verifyUnknown", "verifyUnpaid"}
          \/ /\ invoices[reqs[r].invoice] # None
             /\ reqs[r].endpoint = invoices[reqs[r].invoice].endpoint
  /\ reqs'[r].invoice # None =>
       reqs'[r].invoice = reqs[r].invoice \/ reqs[reqs'[r].invoice].pc = "challenged"
  /\ reqs'[r].pc = "isValid" =>
       reqs'[r].kind = "subscription" \/ (reqs[r].pc = "isValid" /\ reqs'[r].kind = reqs[r].kind)
  /\ reqs'[r].pc = "verifyUnpaid" =>
       /\ reqs'[r].invoice = reqs[r].invoice
       /\ \/ reqs[r].pc = "verifyUnpaid" /\ reqs'[r].held = reqs[r].held
          \/ /\ invoices[reqs[r].invoice] # None
             /\ reqs'[r].held = invoices[reqs[r].invoice].endpoint
  /\ reqs'[r].tx # None => reqs'[r].tx = reqs[r].tx \/ ReceiptTx
  /\ reqs'[r].pc \in {"verifyUnknown", "verifyUnpaid"} => reqs[r].tx # None

\* The challenge of h: a new invoice, unknown to everybody.
Drawn(h) ==
  /\ reqs[h].pc \in {"sent", "verifyUnknown", "verifyUnpaid", "isValid"}
  /\ reqs'[h].pc = "challenged"
  /\ invoices'[h] # None
  /\ invoices'[h].status = "pending"
  /\ invoices'[h].endpoint = reqs'[h].endpoint

\* A witness settles h.
Settled(h) ==
  /\ reqs[h].pc = "challenged"
  /\ invoices'[h] # None
  /\ invoices'[h].status = "paid"
  /\ invoices'[h].endpoint = IF invoices[h] = None THEN reqs[h].endpoint ELSE invoices[h].endpoint

\* Request r gets through on h.
ConsumedFor(r, h) ==
  /\ reqs[r].pc \in {"sent", "verifyUnknown", "verifyUnpaid"} /\ reqs[r].invoice = h
  /\ reqs[r].pc = "sent" => invoices[h] # None /\ invoices'[h].endpoint = invoices[h].endpoint
  /\ reqs'[r].pc = "proxy" /\ reqs'[r].invoice = h /\ reqs'[r].endpoint = reqs[r].endpoint
  /\ invoices'[h].tx # None
  /\ reqs'[r].spent = invoices'[h].tx

\* Request r found its payment of h, and is not let through.
Refused(r, h) ==
  /\ reqs[r].pc = "verifyUnpaid" /\ reqs[r].invoice = h
  /\ invoices[h] # None /\ invoices'[h] # None
  /\ invoices'[h].status = "paid"
  /\ invoices'[h].endpoint = reqs[r].held

InvoiceMoves(h) ==
  \/ invoices'[h] = invoices[h]
  \/ invoices'[h] = None /\ (invoices[h] = None \/ invoices[h].status # "paid" \/ crashes' # crashes)
  \/ Drawn(h)
  \/ Settled(h)
  \/ \E r \in Requests : ConsumedFor(r, h) \/ Refused(r, h)

\* One request moves to q.
LEMMA OneMoves ==
  ASSUME Inv, NEW r \in Requests, NEW q, reqs' = [reqs EXCEPT ![r] = q],
         reqs[r].pc # "challenged",
         reqs[r].spent # None => q.spent = reqs[r].spent /\ q.invoice = reqs[r].invoice,
         q.spent # None =>
           /\ q.invoice = reqs[r].invoice /\ q.endpoint = reqs[r].endpoint
           /\ \/ reqs[r].spent # None
              \/ reqs[r].pc \in {"verifyUnknown", "verifyUnpaid"}
              \/ /\ invoices[reqs[r].invoice] # None
                 /\ reqs[r].endpoint = invoices[reqs[r].invoice].endpoint,
         q.invoice # None => q.invoice = reqs[r].invoice \/ reqs[q.invoice].pc = "challenged",
         q.pc = "isValid" => q.kind = "subscription",
         q.pc = "verifyUnpaid" =>
           /\ q.invoice = reqs[r].invoice /\ invoices[reqs[r].invoice] # None
           /\ q.held = invoices[reqs[r].invoice].endpoint,
         q.tx # None => q.tx = reqs[r].tx \/ ReceiptTx,
         q.pc \in {"verifyUnknown", "verifyUnpaid"} => reqs[r].tx # None
  PROVE  \A p \in Requests : RequestMoves(p)
<1> SUFFICES ASSUME NEW p \in Requests PROVE RequestMoves(p)
  OBVIOUS
<1>1. CASE p = r
  <2>1. reqs'[p] = q
    BY <1>1 DEF Inv, TypeOK
  <2> QED
    BY <1>1, <2>1 DEF RequestMoves
<1>2. CASE p # r
  <2>1. reqs'[p] = reqs[p]
    BY <1>2 DEF Inv, TypeOK
  <2>2. RequestLinked(p)
    BY DEF Inv
  <2> QED
    BY <2>1, <2>2 DEF RequestMoves, RequestLinked
<1> QED
  BY <1>1, <1>2

\* The sweep and a late verification only cut requests off from the Map.
LEMMA DetachMoves ==
  ASSUME Inv, NEW hs, NEW p \in Requests, reqs'[p] = Detach(hs)[p]
  PROVE  RequestMoves(p)
<1>1. reqs[p] \in Request /\ RequestLinked(p)
  BY DEF Inv, TypeOK
<1>2. /\ reqs'[p].pc = reqs[p].pc /\ reqs'[p].kind = reqs[p].kind
      /\ reqs'[p].endpoint = reqs[p].endpoint
      /\ reqs'[p].invoice = reqs[p].invoice /\ reqs'[p].tx = reqs[p].tx
      /\ reqs'[p].held = reqs[p].held /\ reqs'[p].spent = reqs[p].spent
  BY DetachKeeps
<1>3. reqs[p].pc = "challenged" => reqs'[p] = reqs[p]
  BY DEF Detach
<1> QED
  BY <1>1, <1>2, <1>3 DEF RequestMoves, RequestLinked

\* A challenge, as a move of its request and of the invoice it draws.
LEMMA ChallengeMoves ==
  ASSUME Inv, NEW r \in Requests, NEW map \in [Requests -> Invoice \union {None}],
         reqs[r].pc \in {"sent", "verifyUnknown", "verifyUnpaid", "isValid"},
         challenge(r, map)
  PROVE  /\ \A p \in Requests : RequestMoves(p)
         /\ Drawn(r)
         /\ \A h \in Requests \ {r} : invoices'[h] = map[h]
<1> DEFINE o == PendingInvoice(reqs[r].endpoint)
           q == [Idle EXCEPT !.pc = "challenged", !.endpoint = reqs[r].endpoint]
<1>1. /\ q.pc = "challenged" /\ q.invoice = None /\ q.tx = None /\ q.spent = None
      /\ q.endpoint = reqs[r].endpoint
      /\ o.status = "pending" /\ o.endpoint = reqs[r].endpoint
  BY DEF Idle, PendingInvoice
<1>2. o # None
  <2>1. reqs[r].endpoint \in Endpoints
    BY DEF Inv, RequestLinked
  <2>2. o \in Invoice
    BY <2>1, GatewayAssumption DEF PendingInvoice, Invoice, Inv, TypeOK
  <2> QED
    BY <2>2, NoneAssumption
<1>3. reqs' = [reqs EXCEPT ![r] = q] /\ invoices' = [map EXCEPT ![r] = o]
  BY DEF challenge
<1>4. reqs[r].spent = None
  BY DEF Inv, SpentBacked
<1> HIDE DEF o, q
<1>5. \A p \in Requests : RequestMoves(p)
  BY <1>1, <1>3, <1>4, OneMoves
<1>6. reqs'[r] = q /\ invoices'[r] = o
  BY <1>3 DEF Inv, TypeOK
<1>7. Drawn(r)
  BY <1>1, <1>2, <1>6 DEF Drawn
<1> QED
  BY <1>3, <1>5, <1>7

\* settle, as a move of the invoice.
LEMMA SettleMoves ==
  ASSUME Inv, NEW t \in Txs, txs[t] # None,
         settle(txs[t].invoice, reqs[txs[t].invoice].endpoint, t)
  PROVE  \A h \in Requests : InvoiceMoves(h)
<1> DEFINE g == txs[t].invoice
           o == SettledInvoice(g, reqs[g].endpoint, t)
<1>1. g \in Requests /\ reqs[g].pc = "challenged"
  BY DEF Inv, TypeOK, TxsNameIssued, Transaction
<1>2. /\ o.status = "paid" /\ o # None
      /\ o.endpoint = IF invoices[g] = None THEN reqs[g].endpoint ELSE invoices[g].endpoint
  <2>a. txs[t].from \in Payers /\ reqs[g].endpoint \in Endpoints
    BY <1>1 DEF Inv, TypeOK, Transaction, RequestLinked
  <2>1. CASE invoices[g] = None
    <3>1. o = [endpoint |-> reqs[g].endpoint, payer |-> txs[t].from, status |-> "paid",
               expiresAt |-> now + TTL, tx |-> t]
      BY <2>1 DEF SettledInvoice
    <3> HIDE DEF o
    <3>2. o \in Invoice
      BY <2>a, <3>1, GatewayAssumption DEF Inv, TypeOK, Invoice
    <3> QED
      BY <2>1, <3>1, <3>2, NoneAssumption
  <2>2. CASE invoices[g] # None
    <3>1. o = [invoices[g] EXCEPT !.payer = txs[t].from, !.status = "paid", !.tx = t]
      BY <2>2 DEF SettledInvoice
    <3>2. invoices[g] \in Invoice
      BY <1>1, <2>2 DEF Inv, TypeOK
    <3> HIDE DEF o
    <3>3. o \in Invoice /\ o.status = "paid" /\ o.endpoint = invoices[g].endpoint
      BY <2>a, <3>1, <3>2 DEF Invoice
    <3> QED
      BY <2>2, <3>3, NoneAssumption
  <2> QED
    BY <2>1, <2>2
<1>3. invoices' = [invoices EXCEPT ![g] = o]
  BY DEF settle
<1> HIDE DEF o, g
<1>4. Settled(g)
  BY <1>1, <1>2, <1>3 DEF Settled, Inv, TypeOK
<1>5. \A h \in Requests \ {g} : invoices'[h] = invoices[h]
  BY <1>3 DEF Inv, TypeOK
<1> QED
  BY <1>4, <1>5 DEF InvoiceMoves

\* The end of the check, with inv paid, as a move of the request and of its invoice.
LEMMA AdmitMoves ==
  ASSUME Inv, NEW r \in Requests, NEW inv \in Invoice, NEW present \in BOOLEAN,
         reqs[r].invoice \in Requests,
         inv.status = "paid", inv.tx # None,
         \/ reqs[r].pc = "sent" /\ inv = invoices[reqs[r].invoice]
         \/ reqs[r].pc = "verifyUnpaid" /\ inv.endpoint = reqs[r].held,
         present => invoices[reqs[r].invoice] # None,
         Admit(r, inv, present)
  PROVE  (\A p \in Requests : RequestMoves(p)) /\ (\A h \in Requests : InvoiceMoves(h))
<1> DEFINE h == reqs[r].invoice
<1>a. reqs[r] \in Request /\ reqs[r].spent = None /\ inv # None
  BY NoneAssumption DEF Inv, TypeOK, SpentBacked
<1>1. CASE Matches(r, inv)
  <2> DEFINE o == Consumed(inv)
             q == [reqs[r] EXCEPT !.pc = "proxy", !.spent = inv.tx]
  <2>1. /\ invoices' = PutInvoice(h, o, present)
        /\ reqs' = [reqs EXCEPT ![r] = q]
    BY <1>1 DEF Admit, Inv, TypeOK
  <2>2. o.tx = inv.tx /\ o.endpoint = inv.endpoint /\ inv.endpoint = reqs[r].endpoint
    BY <1>1 DEF Consumed, Invoice, Matches
  <2>3. /\ q.pc = "proxy" /\ q.spent = inv.tx /\ q.invoice = h /\ q.tx = reqs[r].tx
        /\ q.endpoint = reqs[r].endpoint
    BY <1>a DEF Request
  <2> HIDE DEF o, q, h
  <2>4. \A p \in Requests : RequestMoves(p)
    BY <1>a, <2>1, <2>2, <2>3, OneMoves DEF h
  <2>5. reqs'[r] = q
    BY <2>1 DEF Inv, TypeOK
  <2>6. ASSUME NEW g \in Requests PROVE InvoiceMoves(g)
    <3>1. CASE g = h /\ present
      <4>1. invoices'[g] = o
        BY <2>1, <3>1 DEF PutInvoice, Inv, TypeOK
      <4>2. ConsumedFor(r, g)
        BY <1>a, <2>2, <2>3, <2>5, <3>1, <4>1 DEF ConsumedFor, h
      <4> QED
        BY <4>2 DEF InvoiceMoves
    <3>2. CASE ~(g = h /\ present)
      BY <2>1, <3>2 DEF InvoiceMoves, PutInvoice, Inv, TypeOK
    <3> QED
      BY <3>1, <3>2
  <2> QED
    BY <2>4, <2>6
<1>2. CASE ~Matches(r, inv)
  <2> DEFINE map == PutInvoice(h, inv, present)
  <2>1. map \in [Requests -> Invoice \union {None}] /\ challenge(r, map)
    BY <1>2 DEF Admit, PutInvoice, Inv, TypeOK
  <2>2. \A g \in Requests : map[g] = IF g = h /\ present THEN inv ELSE invoices[g]
    BY DEF PutInvoice, Inv, TypeOK
  <2> HIDE DEF map, h
  <2>3. /\ \A p \in Requests : RequestMoves(p)
        /\ Drawn(r)
        /\ \A g \in Requests \ {r} : invoices'[g] = map[g]
    BY <2>1, ChallengeMoves
  <2>4. ASSUME NEW g \in Requests PROVE InvoiceMoves(g)
    <3>1. CASE g = r
      BY <2>3, <3>1 DEF InvoiceMoves
    <3>2. CASE g # r /\ g = h /\ present /\ reqs[r].pc = "verifyUnpaid"
      <4>1. Refused(r, g)
        BY <1>a, <2>2, <2>3, <3>2 DEF Refused, h
      <4> QED
        BY <4>1 DEF InvoiceMoves
    <3>3. CASE g # r /\ ~(g = h /\ present /\ reqs[r].pc = "verifyUnpaid")
      BY <2>2, <2>3, <3>3 DEF InvoiceMoves, h
    <3> QED
      BY <3>1, <3>2, <3>3
  <2> QED
    BY <2>3, <2>4
<1> QED
  BY <1>1, <1>2

\* The payment is found and no invoice was in memory: the request gets through on a new object.
LEMMA UnknownMoves ==
  ASSUME Inv, NEW r \in Requests, VerifiedUnknown(r)
  PROVE  (\A p \in Requests : RequestMoves(p)) /\ (\A h \in Requests : InvoiceMoves(h))
<1> DEFINE h == reqs[r].invoice
           t == reqs[r].tx
           x == [endpoint |-> reqs[r].endpoint, payer |-> reqs[r].payer,
                 status |-> "paid", expiresAt |-> now + TTL, tx |-> t]
           o == Consumed(x)
           q == [Detach({h})[r] EXCEPT !.pc = "proxy", !.spent = t]
<1>1. reqs[r].pc = "verifyUnknown" /\ reqs[r].spent = None /\ h \in Requests /\ t # None
  BY DEF VerifiedUnknown, Verified, Inv, RequestLinked, ReceiptQuoted, SpentBacked
<1>2. o.tx = t
  BY DEF Consumed
<1>3. /\ Detach({h})[r] \in Request
      /\ Detach({h})[r].endpoint = reqs[r].endpoint /\ Detach({h})[r].invoice = h
      /\ Detach({h})[r].tx = t
  BY DetachKeeps
<1>4. q.pc = "proxy" /\ q.spent = t /\ q.invoice = h /\ q.endpoint = reqs[r].endpoint /\ q.tx = t
  BY <1>3 DEF Request
<1>5. reqs' = [Detach({h}) EXCEPT ![r] = q]
  BY DetachKeeps DEF VerifiedUnknown
<1>6. invoices' = [invoices EXCEPT ![h] = o]
  BY DEF VerifiedUnknown
<1> HIDE DEF o, q, h, t
<1>7. reqs'[r] = q /\ \A p \in Requests \ {r} : reqs'[p] = Detach({h})[p]
  BY <1>5, DetachKeeps
<1>8. RequestMoves(r)
  BY <1>1, <1>4, <1>7 DEF RequestMoves, h, t
<1>9. \A p \in Requests : RequestMoves(p)
  BY <1>7, <1>8, DetachMoves
<1>10. ConsumedFor(r, h)
  BY <1>1, <1>2, <1>4, <1>6, <1>7 DEF ConsumedFor, Inv, TypeOK, h
<1>11. \A g \in Requests \ {h} : invoices'[g] = invoices[g]
  BY <1>6 DEF Inv, TypeOK
<1> QED
  BY <1>9, <1>10, <1>11 DEF InvoiceMoves

\* Every step of the route handler moves as said.
LEMMA HandlerMoves ==
  ASSUME Inv, NEW r \in Requests, Handler(r)
  PROVE  (\A p \in Requests : RequestMoves(p)) /\ (\A h \in Requests : InvoiceMoves(h))
<1> DEFINE Goal == (\A p \in Requests : RequestMoves(p)) /\ (\A h \in Requests : InvoiceMoves(h))
<1>a. reqs[r] \in Request /\ RequestLinked(r) /\ SpentBacked(r)
  BY DEF Inv, TypeOK
<1>b. invoices \in [Requests -> Invoice \union {None}]
  BY DEF Inv, TypeOK
<1>c. ASSUME challenge(r, invoices),
             reqs[r].pc \in {"sent", "verifyUnknown", "verifyUnpaid", "isValid"}
      PROVE  Goal
  BY <1>b, <1>c, ChallengeMoves DEF InvoiceMoves
<1>d. ASSUME NEW c \in {"rejected", "isValid", "proxy", "served", "badGateway", "verifyUnknown"},
             reqs' = [reqs EXCEPT ![r].pc = c], UNCHANGED invoices,
             reqs[r].pc # "challenged",
             c = "isValid" => reqs[r].kind = "subscription",
             c = "verifyUnknown" => reqs[r].tx # None
      PROVE  Goal
  <2> DEFINE q == [reqs[r] EXCEPT !.pc = c]
  <2>1. /\ q.pc = c /\ q.kind = reqs[r].kind /\ q.invoice = reqs[r].invoice
        /\ q.tx = reqs[r].tx /\ q.spent = reqs[r].spent /\ q.endpoint = reqs[r].endpoint
    BY <1>a DEF Request
  <2>2. reqs' = [reqs EXCEPT ![r] = q]
    BY <1>d DEF Inv, TypeOK
  <2> HIDE DEF q
  <2>a. /\ q.pc # "verifyUnpaid" /\ q.spent = reqs[r].spent /\ q.invoice = reqs[r].invoice
        /\ q.endpoint = reqs[r].endpoint /\ q.tx = reqs[r].tx
        /\ q.pc = "isValid" => q.kind = "subscription"
        /\ q.pc = "verifyUnknown" => reqs[r].tx # None
    BY <1>d, <2>1
  <2>3. \A p \in Requests : RequestMoves(p)
    BY <1>d, <2>2, <2>a, OneMoves
  <2> QED
    BY <1>d, <2>3 DEF InvoiceMoves
<1>1. CASE HandleNoReceipt(r)
  BY <1>1, <1>c DEF HandleNoReceipt, Handling
<1>2. CASE HandleBadSignature(r)
  BY <1>2, <1>d DEF HandleBadSignature, Handling
<1>3. CASE HandleSubscription(r)
  BY <1>3, <1>d DEF HandleSubscription, Handling
<1>4. CASE HandlePayment(r)
  <2> DEFINE h == reqs[r].invoice
  <2>a. reqs[r].pc = "sent" /\ h \in Requests /\ reqs[r].spent = None
    BY <1>4, <1>a DEF HandlePayment, Handling, RequestLinked, ReceiptQuoted, SpentBacked
  <2>1. CASE challenge(r, invoices)
    BY <1>c, <2>1, <2>a
  <2>2. CASE /\ Verifiable(r)
             /\ reqs' = [reqs EXCEPT ![r].pc = "verifyUnknown"]
             /\ UNCHANGED invoices
    BY <1>d, <2>2, <2>a DEF Verifiable
  <2>3. CASE /\ Status(h) = "pending"
             /\ Verifiable(r)
             /\ reqs' = [reqs EXCEPT ![r].pc = "verifyUnpaid",
                                     ![r].held = invoices[h].endpoint,
                                     ![r].live = TRUE]
             /\ UNCHANGED invoices
    <3> DEFINE q == [reqs[r] EXCEPT !.pc = "verifyUnpaid", !.held = invoices[h].endpoint,
                                    !.live = TRUE]
    <3>1. invoices[h] # None /\ reqs[r].tx # None
      BY <2>3 DEF Status, Verifiable
    <3>2. /\ q.pc = "verifyUnpaid" /\ q.invoice = reqs[r].invoice /\ q.held = invoices[h].endpoint
          /\ q.tx = reqs[r].tx /\ q.spent = reqs[r].spent
      BY <1>a DEF Request
    <3>3. reqs' = [reqs EXCEPT ![r] = q]
      BY <2>3 DEF Inv, TypeOK
    <3> HIDE DEF q
    <3>4. \A p \in Requests : RequestMoves(p)
      BY <2>a, <3>1, <3>2, <3>3, OneMoves
    <3> QED
      BY <2>3, <3>4 DEF InvoiceMoves
  <2>4. CASE Status(h) = "paid" /\ Admit(r, invoices[h], TRUE)
    <3>1. invoices[h] \in Invoice /\ invoices[h].status = "paid" /\ invoices[h].tx # None
          /\ invoices[h] # None
      BY <1>b, <2>4, <2>a DEF Status, Inv, InvoiceBacked, ObjectBacked, Backs
    <3> QED
      BY <2>4, <2>a, <3>1, AdmitMoves
  <2> QED
    BY <1>4, <2>1, <2>2, <2>3, <2>4 DEF HandlePayment
<1>5. CASE VerifiedUnknown(r)
  BY <1>5, UnknownMoves
<1>6. CASE VerifiedUnpaid(r)
  <2> DEFINE h == reqs[r].invoice
             inv == [endpoint  |-> reqs[r].held,
                     payer     |-> reqs[r].payer,
                     status    |-> "paid",
                     expiresAt |-> IF reqs[r].live THEN invoices[h].expiresAt ELSE now,
                     tx        |-> reqs[r].tx]
  <2>1. reqs[r].pc = "verifyUnpaid" /\ Admit(r, inv, reqs[r].live)
    BY <1>6 DEF VerifiedUnpaid, Verified
  <2>2. /\ h \in Requests /\ reqs[r].tx \in Txs /\ reqs[r].tx # None /\ reqs[r].payer \in Payers
        /\ reqs[r].held \in Endpoints /\ reqs[r].live \in BOOLEAN
        /\ reqs[r].live => invoices[h] # None
    BY <1>a, <2>1 DEF RequestLinked, ReceiptQuoted, Request
  <2>3. (IF reqs[r].live THEN invoices[h].expiresAt ELSE now) \in Nat
    BY <1>b, <2>2 DEF Inv, TypeOK, Invoice
  <2>4. inv \in Invoice /\ inv.status = "paid" /\ inv.tx = reqs[r].tx /\ inv.endpoint = reqs[r].held
    BY <2>2, <2>3 DEF Invoice
  <2> HIDE DEF inv, h
  <2> QED
    BY <2>1, <2>2, <2>4, AdmitMoves DEF h
<1>7. CASE VerifyFails(r)
  BY <1>7, <1>c DEF VerifyFails
<1>8. CASE SubscriptionValid(r)
  BY <1>8, <1>d DEF SubscriptionValid
<1>9. CASE SubscriptionInvalid(r)
  BY <1>9, <1>c DEF SubscriptionInvalid
<1>10. CASE UpstreamAnswers(r) \/ UpstreamFails(r)
  BY <1>10, <1>d DEF UpstreamAnswers, UpstreamFails
<1> QED
  BY <1>1, <1>2, <1>3, <1>4, <1>5, <1>6, <1>7, <1>8, <1>9, <1>10 DEF Handler

\* Every step moves as said.
LEMMA StepMoves ==
  ASSUME Inv, [Next]_vars
  PROVE  (\A p \in Requests : RequestMoves(p)) /\ (\A h \in Requests : InvoiceMoves(h))
<1> DEFINE Goal == (\A p \in Requests : RequestMoves(p)) /\ (\A h \in Requests : InvoiceMoves(h))
<1>a. ASSUME reqs' = reqs PROVE \A p \in Requests : RequestMoves(p)
  <2> SUFFICES ASSUME NEW p \in Requests PROVE RequestMoves(p)
    OBVIOUS
  <2>1. RequestLinked(p)
    BY DEF Inv
  <2> QED
    BY <1>a, <2>1 DEF RequestMoves, RequestLinked
<1>b. ASSUME UNCHANGED <<reqs, invoices>> PROVE Goal
  BY <1>a, <1>b DEF InvoiceMoves
<1>1. ASSUME NEW r \in Requests, NEW e, NEW k \in ReceiptKinds, Send(r, e, k)
      PROVE  Goal
  <2> DEFINE q == [Idle EXCEPT !.pc = "sent", !.endpoint = e, !.kind = k]
  <2>1. q.pc = "sent" /\ q.invoice = None /\ q.tx = None /\ q.spent = None
    BY DEF Idle
  <2>2. reqs' = [reqs EXCEPT ![r] = q] /\ reqs[r].pc = "idle" /\ UNCHANGED invoices
    BY <1>1 DEF Send
  <2>3. reqs[r].spent = None
    BY <2>2 DEF Inv, SpentBacked
  <2> HIDE DEF q
  <2> QED
    BY <2>1, <2>2, <2>3, OneMoves DEF InvoiceMoves
<1>2. ASSUME NEW r \in Requests, NEW e, NEW p, NEW h \in Requests, NEW t, SendReceipt(r, e, p, h, t)
      PROVE  Goal
  <2> DEFINE q == [Idle EXCEPT !.pc = "sent", !.endpoint = e, !.kind = "payment",
                               !.payer = p, !.invoice = h, !.tx = t]
  <2>1. q.pc = "sent" /\ q.invoice = h /\ q.tx = t /\ q.spent = None
    BY DEF Idle
  <2>2. /\ reqs' = [reqs EXCEPT ![r] = q] /\ reqs[r].pc = "idle" /\ UNCHANGED invoices
        /\ reqs[h].pc = "challenged" /\ (t # None => ReceiptTx)
    BY <1>2 DEF SendReceipt, Issued, Quotable
  <2>3. reqs[r].spent = None
    BY <2>2 DEF Inv, SpentBacked
  <2> HIDE DEF q
  <2> QED
    BY <2>1, <2>2, <2>3, OneMoves DEF InvoiceMoves
<1>3. ASSUME NEW t \in Txs, WsMessage(t)
      PROVE  Goal
  <2>1. txs[t] # None
    BY <1>3 DEF WsMessage, Inv, WitnessedBacked
  <2> QED
    BY <1>3, <1>a, <2>1, SettleMoves DEF WsMessage
<1>4. CASE PollDetail
  <2>1. detail \in Txs /\ txs[detail] # None
    BY <1>4 DEF PollDetail, Inv, TypeOK, WitnessedBacked
  <2> QED
    BY <1>4, <1>a, <1>b, <2>1, SettleMoves DEF PollDetail
<1>5. CASE Sweep
  <2> DEFINE dropped == {h \in Requests : invoices[h] # None /\ Stale(h)}
  <2>1. /\ invoices' = [h \in Requests |-> IF h \in dropped THEN None ELSE invoices[h]]
        /\ reqs' = Detach(dropped)
    BY <1>5 DEF Sweep
  <2>2. \A h \in dropped : invoices[h].status # "paid"
    BY DEF Stale
  <2> HIDE DEF dropped
  <2> QED
    BY <2>1, <2>2, DetachMoves DEF InvoiceMoves
<1>6. CASE Crash
  <2>1. ASSUME NEW p \in Requests PROVE RequestMoves(p)
    <3>1. reqs[p] \in Request /\ RequestLinked(p)
      BY DEF Inv, TypeOK
    <3>2. CASE reqs[p].pc \in Awaiting
      <4>1. reqs'[p] = [reqs[p] EXCEPT !.pc = "lost"]
        BY <1>6, <3>2 DEF Crash
      <4> QED
        BY <3>1, <3>2, <4>1 DEF RequestMoves, Request, Awaiting
    <3>3. CASE reqs[p].pc \notin Awaiting
      <4>1. reqs'[p] = reqs[p]
        BY <1>6, <3>3 DEF Crash
      <4> QED
        BY <3>1, <3>3, <4>1 DEF RequestMoves, RequestLinked, Awaiting
    <3> QED
      BY <3>2, <3>3
  <2>2. \A h \in Requests : invoices'[h] = None /\ crashes' # crashes
    BY <1>6 DEF Crash, Inv, TypeOK
  <2> QED
    BY <2>1, <2>2 DEF InvoiceMoves
<1> QED
  BY <1>b, <1>1, <1>2, <1>3, <1>4, <1>5, <1>6, HandlerMoves
     DEF Next, Client, Chain, Witness, Pay, Confirm, Revert, WsLost, PollList, PollNext,
         PollDetailEmpty, PollDetailFails, Tick, vars

-------------------------------------------------------------------------------
(***************************************************************************)
(* Where what the gateway knows of an invoice comes from: its challenge,   *)
(* or a request that was let through on it.                                *)
(***************************************************************************)

\* A request got through on h.
SpentOn(h) == \E q \in Requests : reqs[q].spent # None /\ reqs[q].invoice = h

InvoiceQuoted(h) ==
  invoices[h] # None =>
    /\ reqs[h].pc = "challenged"
    /\ invoices[h].endpoint = reqs[h].endpoint \/ SpentOn(h)
    /\ invoices[h].status = "consumed" => \E q \in Requests : reqs[q].spent = invoices[h].tx

RequestQuoted(r) ==
  /\ reqs[r].invoice # None => reqs[reqs[r].invoice].pc = "challenged"
  /\ reqs[r].pc = "verifyUnpaid" =>
       reqs[r].held = reqs[reqs[r].invoice].endpoint \/ SpentOn(reqs[r].invoice)
  /\ reqs[r].pc = "isValid" => reqs[r].kind = "subscription"

Origin ==
  /\ \A r \in Requests : RequestQuoted(r)
  /\ \A h \in Requests : InvoiceQuoted(h)

\* Every step keeps Origin.
LEMMA OriginStep ==
  ASSUME Inv, Inv', Origin, [Next]_vars
  PROVE  Origin'
<1>a. /\ \A p \in Requests : RequestMoves(p) /\ RequestQuoted(p)
      /\ \A h \in Requests : InvoiceMoves(h) /\ InvoiceQuoted(h)
  BY StepMoves DEF Origin
<1>b. \A p \in Requests : reqs[p].invoice \in Requests \union {None}
                          /\ reqs'[p].invoice \in Requests \union {None}
  BY DEF Inv, TypeOK, Request
<1>c. \A h \in Requests : SpentOn(h) => SpentOn(h)'
  BY <1>a DEF SpentOn, RequestMoves
<1>1. ASSUME NEW r \in Requests
      PROVE  RequestQuoted(r)'
  <2>1. RequestMoves(r) /\ RequestQuoted(r)
    BY <1>a
  <2>2. reqs'[r].invoice # None => reqs'[reqs'[r].invoice].pc = "challenged"
    <3> SUFFICES ASSUME reqs'[r].invoice # None
                 PROVE  reqs'[reqs'[r].invoice].pc = "challenged"
      OBVIOUS
    <3>1. reqs'[r].invoice \in Requests
      BY <1>b
    <3>2. reqs[reqs'[r].invoice].pc = "challenged"
      BY <2>1 DEF RequestMoves, RequestQuoted
    <3> QED
      BY <1>a, <3>1, <3>2 DEF RequestMoves
  <2>3. reqs'[r].pc = "verifyUnpaid" =>
          reqs'[r].held = reqs'[reqs'[r].invoice].endpoint \/ SpentOn(reqs[r].invoice)'
    <3> SUFFICES ASSUME reqs'[r].pc = "verifyUnpaid"
                 PROVE  reqs'[r].held = reqs'[reqs'[r].invoice].endpoint
                          \/ SpentOn(reqs[r].invoice)'
      OBVIOUS
    <3> DEFINE h == reqs[r].invoice
    <3>1. h \in Requests /\ reqs'[r].invoice = h
      BY <2>1 DEF RequestMoves, Inv, RequestLinked, ReceiptQuoted
    <3>2. reqs[h].pc = "challenged"
      BY <2>1, <3>1, GatewayAssumption DEF RequestQuoted
    <3>3. reqs'[h] = reqs[h]
      BY <1>a, <3>1, <3>2 DEF RequestMoves
    <3>4. reqs'[r].held = reqs[h].endpoint \/ SpentOn(h)
      BY <1>a, <2>1, <3>1 DEF RequestMoves, RequestQuoted, InvoiceQuoted
    <3> HIDE DEF h
    <3> QED
      BY <1>c, <3>1, <3>3, <3>4 DEF SpentOn
  <2>4. reqs'[r].pc = "isValid" => reqs'[r].kind = "subscription"
    BY <2>1 DEF RequestMoves, RequestQuoted
  <2> QED
    BY <2>2, <2>3, <2>4 DEF RequestQuoted
<1>2. ASSUME NEW h \in Requests
      PROVE  InvoiceQuoted(h)'
  <2>a. RequestMoves(h) /\ InvoiceQuoted(h) /\ (SpentOn(h) => SpentOn(h)')
    BY <1>a, <1>c
  <2>b. reqs[h].pc = "challenged" => reqs'[h] = reqs[h]
    BY <2>a DEF RequestMoves
  <2>1. CASE invoices'[h] = invoices[h]
    <3>1. \A q \in Requests : reqs[q].spent # None => reqs'[q].spent = reqs[q].spent
      BY <1>a DEF RequestMoves
    <3>2. invoices[h] # None /\ invoices[h].status = "consumed" => invoices[h].tx # None
      BY DEF Inv, InvoiceBacked, ObjectBacked, Backs
    <3> QED
      BY <2>1, <2>a, <2>b, <3>1, <3>2 DEF InvoiceQuoted
  <2>2. CASE invoices'[h] = None
    BY <2>2 DEF InvoiceQuoted
  <2>3. CASE Drawn(h)
    BY <2>3 DEF Drawn, InvoiceQuoted
  <2>4. CASE Settled(h)
    BY <2>4, <2>a, <2>b DEF Settled, InvoiceQuoted
  <2>5. ASSUME NEW r \in Requests, ConsumedFor(r, h)
        PROVE  InvoiceQuoted(h)'
    <3>1. reqs[h].pc = "challenged"
      BY <1>a, <2>5, GatewayAssumption DEF ConsumedFor, RequestQuoted
    <3>2. reqs'[r].spent = invoices'[h].tx /\ reqs'[r].spent # None /\ reqs'[r].invoice = h
      BY <2>5 DEF ConsumedFor
    <3> QED
      BY <2>b, <3>1, <3>2 DEF InvoiceQuoted, SpentOn
  <2>6. ASSUME NEW r \in Requests, Refused(r, h)
        PROVE  InvoiceQuoted(h)'
    <3>1. reqs[h].pc = "challenged" /\ (reqs[r].held = reqs[h].endpoint \/ SpentOn(h))
      BY <1>a, <2>6, GatewayAssumption DEF Refused, RequestQuoted
    <3> QED
      BY <2>6, <2>a, <2>b, <3>1 DEF Refused, InvoiceQuoted
  <2> QED
    BY <1>a, <2>1, <2>2, <2>3, <2>4, <2>5, <2>6 DEF InvoiceMoves
<1> QED
  BY <1>1, <1>2 DEF Origin

\* Origin holds in every deployment.
THEOREM OriginInvariance == Spec => []Origin
<1>1. Init => Origin
  BY DEF Init, Origin, RequestQuoted, InvoiceQuoted, Idle
<1>2. Inv /\ Inv' /\ Origin /\ [Next]_vars => Origin'
  BY OriginStep
<1> QED
  BY <1>1, <1>2, Invariance, PTL DEF Spec

\* Whatever interleaves with it, a settled invoice stays until a request consumes it, or a
\* crash: neither the sweep (lines 340-352) nor a challenge nor a late verification drops it.
THEOREM SettledStays == Spec => SettledUntilConsumed
<1>1. ASSUME Inv, Origin, [Next]_vars, NEW h \in Requests, Status(h) = "paid"
      PROVE  \/ Status(h)' = "paid"
             \/ \E r \in Requests : /\ reqs[r].pc \in {"sent"} \union Awaiting
                                   /\ reqs'[r].invoice = h
                                   /\ reqs'[r].pc = "proxy"
             \/ crashes' # crashes
  <2>a. InvoiceMoves(h) /\ InvoiceQuoted(h)
    BY <1>1, StepMoves DEF Origin
  <2>b. invoices[h] # None /\ invoices[h].status = "paid"
    BY <1>1 DEF Status
  <2>1. CASE invoices'[h] = invoices[h]
    BY <1>1, <2>1 DEF Status
  <2>2. CASE invoices'[h] = None /\ crashes' # crashes
    BY <2>2
  <2>3. CASE Drawn(h)
    BY <2>3, <2>a, <2>b DEF Drawn, InvoiceQuoted
  <2>4. CASE Settled(h) \/ \E r \in Requests : Refused(r, h)
    BY <2>4 DEF Settled, Refused, Status
  <2>5. CASE \E r \in Requests : ConsumedFor(r, h)
    BY <2>5 DEF ConsumedFor, Awaiting
  <2> QED
    BY <2>a, <2>b, <2>1, <2>2, <2>3, <2>4, <2>5 DEF InvoiceMoves
<1>2. Inv /\ Origin /\ [Next]_vars =>
        [\A h \in Requests :
           Status(h) = "paid" =>
             \/ Status(h)' = "paid"
             \/ \E r \in Requests : /\ reqs[r].pc \in {"sent"} \union Awaiting
                                   /\ reqs'[r].invoice = h
                                   /\ reqs'[r].pc = "proxy"
             \/ crashes' # crashes]_vars
  BY <1>1
<1> QED
  BY <1>2, Invariance, OriginInvariance, PTL DEF Spec, SettledUntilConsumed

\* Only the handler of a request answers it with a challenge.
LEMMA ChallengedByHandler ==
  ASSUME Inv, [Next]_vars, NEW r \in Requests,
         reqs[r].pc # "challenged", reqs'[r].pc = "challenged"
  PROVE  Handler(r)
<1>a. reqs \in [Requests -> Request]
  BY DEF Inv, TypeOK
<1>1. ASSUME NEW q \in Requests, q # r, Handler(q)
      PROVE  reqs'[r].pc = reqs[r].pc
  <2>1. \A hs : Detach(hs)[r].pc = reqs[r].pc
    BY DetachKeeps
  <2>2. CASE VerifiedUnknown(q)
    BY <1>1, <2>1, <2>2, DetachKeeps DEF VerifiedUnknown
  <2>3. CASE ~VerifiedUnknown(q)
    <3>1. \E x : reqs' = [reqs EXCEPT ![q] = x]
      BY <1>1, <1>a, <2>3
         DEF Handler, Handling, HandleNoReceipt, HandleBadSignature, HandleSubscription,
             HandlePayment, Admit, challenge, VerifiedUnpaid, Verified, VerifyFails,
             SubscriptionValid, SubscriptionInvalid, UpstreamAnswers, UpstreamFails
    <3> QED
      BY <1>1, <1>a, <3>1
  <2> QED
    BY <2>2, <2>3
<1>2. ASSUME NEW q \in Requests, NEW x, x.pc = "sent", reqs' = [reqs EXCEPT ![q] = x]
      PROVE  FALSE
  BY <1>a, <1>2
<1>3. ASSUME NEW q \in Requests, NEW e, NEW k, Send(q, e, k)
      PROVE  FALSE
  <2> DEFINE x == [Idle EXCEPT !.pc = "sent", !.endpoint = e, !.kind = k]
  <2>1. x.pc = "sent"
    BY DEF Idle
  <2>2. reqs' = [reqs EXCEPT ![q] = x]
    BY <1>3 DEF Send
  <2> HIDE DEF x
  <2> QED
    BY <1>2, <2>1, <2>2
<1>4. ASSUME NEW q \in Requests, NEW e, NEW p, NEW h, NEW t, SendReceipt(q, e, p, h, t)
      PROVE  FALSE
  <2> DEFINE x == [Idle EXCEPT !.pc = "sent", !.endpoint = e, !.kind = "payment",
                               !.payer = p, !.invoice = h, !.tx = t]
  <2>1. x.pc = "sent"
    BY DEF Idle
  <2>2. reqs' = [reqs EXCEPT ![q] = x]
    BY <1>4 DEF SendReceipt
  <2> HIDE DEF x
  <2> QED
    BY <1>2, <2>1, <2>2
<1>5. CASE Sweep
  <2>1. PICK hs : reqs' = Detach(hs)
    BY <1>5 DEF Sweep
  <2> QED
    BY <2>1, DetachKeeps
<1>6. CASE Crash
  <2>1. reqs'[r] = reqs[r] \/ reqs'[r] = [reqs[r] EXCEPT !.pc = "lost"]
    BY <1>6 DEF Crash
  <2> QED
    BY <1>a, <2>1 DEF Request
<1> QED
  BY <1>1, <1>3, <1>4, <1>5, <1>6
     DEF Next, Client, Chain, Witness, Pay, Confirm, Revert, WsMessage, WsLost, PollList,
         PollNext, PollDetail, PollDetailEmpty, PollDetailFails, Tick, vars

\* With a chain RPC that answers, and clients that quote only what they sent, a caller who quotes the one confirmed payment of an invoice
\* of this endpoint is let through, unless somebody already was: expiry, the sweep, a restart
\* and settlements in between do not turn it away (lines 547-577).
THEOREM PayerAdmitted ==
  ASSUME ~RpcFaults, ~OthersTx
  PROVE  Spec => NoFalseRejection
<1>1. ASSUME Inv, Origin, [Next]_vars, NEW r \in Requests,
             Undisputed(r), reqs[r].pc # "challenged", reqs'[r].pc = "challenged"
      PROVE  FALSE
  <2> DEFINE h == reqs[r].invoice
             t == reqs[r].tx
  <2>a. Handler(r) /\ reqs[r] \in Request /\ RequestLinked(r) /\ SpentBacked(r) /\ RequestQuoted(r)
    BY <1>1, ChallengedByHandler DEF Inv, TypeOK, Origin
  <2>b. /\ reqs[r].kind = "payment" /\ t # None /\ t \in Txs
        /\ verifyPaymentTx(t, h)
        /\ reqs[r].endpoint = reqs[h].endpoint
        /\ \A u \in Txs : u # t => txs[u] = None \/ txs[u].invoice # h
        /\ \A q \in Requests : reqs[q].spent # t
    BY <1>1, <2>a DEF Undisputed, Request
  <2>c. \A u \in Txs : Backs(u, h) => u = t
    BY <2>b DEF Backs
  <2>d. ~SpentOn(h)
    <3> SUFFICES ASSUME NEW q \in Requests, reqs[q].spent # None, reqs[q].invoice = h
                 PROVE  FALSE
      BY DEF SpentOn
    <3>1. reqs[q].spent \in Txs /\ Backs(reqs[q].spent, h)
      BY <1>1 DEF Inv, TypeOK, Request, SpentBacked
    <3> QED
      BY <2>b, <2>c, <3>1
  \* a paid object that is not this caller's, or not of this endpoint, is impossible
  <2>e. ASSUME h \in Requests, ReceiptQuoted(r), NEW inv \in Invoice,
               inv.payer = txs[t].from, inv.endpoint = reqs[h].endpoint
        PROVE  Matches(r, inv)
    BY <2>b, <2>e DEF Matches, ReceiptQuoted, SentBy, t
  <2>f. ASSUME h \in Requests, invoices[h] # None, invoices[h].status # "pending"
        PROVE  /\ invoices[h] \in Invoice /\ invoices[h].tx = t /\ invoices[h].payer = txs[t].from
               /\ invoices[h].status # "consumed" /\ invoices[h].endpoint = reqs[h].endpoint
    <3>1. invoices[h] \in Invoice /\ InvoiceBacked(h) /\ InvoiceQuoted(h)
      BY <1>1, <2>f DEF Inv, TypeOK, Origin
    <3>2. invoices[h].tx = t /\ invoices[h].payer = txs[t].from
      BY <2>c, <2>f, <3>1 DEF InvoiceBacked, ObjectBacked, SentBy, Backs, Invoice
    <3> QED
      BY <2>b, <2>d, <2>f, <3>1, <3>2 DEF InvoiceQuoted
  <2> HIDE DEF h, t
  <2>1. CASE HandleNoReceipt(r) \/ HandleBadSignature(r) \/ HandleSubscription(r)
    BY <2>1, <2>b DEF HandleNoReceipt, HandleBadSignature, HandleSubscription, Handling
  <2>2. CASE HandlePayment(r)
    <3>1. ReceiptQuoted(r) /\ h \in Requests /\ Verifiable(r)
      BY <2>2, <2>a, <2>b DEF HandlePayment, Handling, RequestLinked, ReceiptQuoted, Verifiable, h, t
    <3>2. CASE \/ Status(h) = "unknown" /\ reqs' = [reqs EXCEPT ![r].pc = "verifyUnknown"]
               \/ Status(h) = "pending" /\ reqs' = [reqs EXCEPT ![r].pc = "verifyUnpaid",
                                                               ![r].held = invoices[h].endpoint,
                                                               ![r].live = TRUE]
      <4>1. reqs'[r].pc \in {"verifyUnknown", "verifyUnpaid"}
        BY <1>1, <2>a, <3>2 DEF Inv, TypeOK, Request
      <4> QED
        BY <1>1, <4>1
    <3>3. CASE Status(h) = "consumed"
      BY <2>f, <3>1, <3>3 DEF Status
    <3>4. CASE Status(h) = "paid" /\ Admit(r, invoices[h], TRUE)
      <4>1. Matches(r, invoices[h])
        BY <2>e, <2>f, <3>1, <3>4 DEF Status
      <4>2. reqs' = [reqs EXCEPT ![r].pc = "proxy", ![r].spent = invoices[h].tx]
        BY <3>4, <4>1 DEF Admit
      <4>3. reqs'[r].pc = "proxy"
        BY <1>1, <2>a, <4>2 DEF Inv, TypeOK, Request
      <4> QED
        BY <1>1, <4>3
    <3> QED
      BY <2>2, <3>1, <3>2, <3>3, <3>4 DEF HandlePayment, h
  <2>3. CASE VerifiedUnknown(r)
    <3>1. reqs' = [Detach({h}) EXCEPT ![r].pc = "proxy", ![r].spent = t]
      BY <2>3 DEF VerifiedUnknown, h, t
    <3>2. Detach({h}) \in [Requests -> Request]
      BY <1>1, DetachKeeps
    <3>3. reqs'[r].pc = "proxy"
      BY <3>1, <3>2 DEF Request
    <3> QED
      BY <1>1, <3>3
  <2>4. CASE VerifiedUnpaid(r)
    <3> DEFINE inv == [endpoint  |-> reqs[r].held,
                       payer     |-> reqs[r].payer,
                       status    |-> "paid",
                       expiresAt |-> IF reqs[r].live THEN invoices[reqs[r].invoice].expiresAt ELSE now,
                       tx        |-> reqs[r].tx]
    <3>1. Admit(r, inv, reqs[r].live) /\ reqs[r].pc = "verifyUnpaid"
      BY <2>4 DEF VerifiedUnpaid, Verified
    <3>2. reqs[r].held = reqs[r].endpoint
      BY <2>a, <2>b, <2>d, <3>1 DEF RequestQuoted, h
    <3>3. Matches(r, inv)
      BY <3>2 DEF Matches
    <3>4. reqs' = [reqs EXCEPT ![r].pc = "proxy", ![r].spent = inv.tx]
      BY <3>1, <3>3 DEF Admit
    <3> HIDE DEF inv
    <3>5. reqs'[r].pc = "proxy"
      BY <1>1, <2>a, <3>4 DEF Inv, TypeOK, Request
    <3> QED
      BY <1>1, <3>5
  <2>5. CASE VerifyFails(r)
    BY <2>5, <2>b DEF VerifyFails, Refuted, h, t
  <2>6. CASE SubscriptionValid(r) \/ SubscriptionInvalid(r)
    BY <2>6, <2>a, <2>b DEF SubscriptionValid, SubscriptionInvalid, RequestQuoted
  <2>7. CASE UpstreamAnswers(r) \/ UpstreamFails(r)
    <3>1. reqs'[r].pc \in {"served", "badGateway"}
      BY <1>1, <2>7, <2>a DEF UpstreamAnswers, UpstreamFails, Inv, TypeOK, Request
    <3> QED
      BY <1>1, <3>1
  <2> QED
    BY <2>a, <2>1, <2>2, <2>3, <2>4, <2>5, <2>6, <2>7 DEF Handler
<1>2. Inv /\ Origin /\ [Next]_vars =>
        [\A r \in Requests :
           Undisputed(r) /\ reqs[r].pc # "challenged" => reqs'[r].pc # "challenged"]_vars
  BY <1>1
<1> QED
  BY <1>2, Invariance, OriginInvariance, PTL DEF Spec, NoFalseRejection

-------------------------------------------------------------------------------
(***************************************************************************)
(* The settlement history.  An entry was pushed by the poller, which       *)
(* remembers what it has seen, or by the listener, whose events come once. *)
(***************************************************************************)

\* The poller is done with t.
Polled(t) == t \in seenHashes /\ t # detail

\* The event of t has come and will not come again.
Delivered(t) == Ws /\ t \notin events /\ txs[t] # None /\ txs[t].status = "confirmed"

Entries == 1..Len(recentSettlements)

History ==
  /\ \A i \in Entries : Polled(recentSettlements[i]) \/ Delivered(recentSettlements[i])
  /\ \A i, j \in Entries :
       i # j /\ recentSettlements[i] = recentSettlements[j] =>
         Polled(recentSettlements[i]) /\ Delivered(recentSettlements[i])
  /\ \A i, j, k \in Entries :
       recentSettlements[i] = recentSettlements[j] /\ recentSettlements[j] = recentSettlements[k] =>
         i = j \/ j = k \/ i = k

Counted ==
  /\ events # {} => Ws
  /\ detail # None => detail \in seenHashes
  /\ History

\* The history after a settlement: the new entry and a beginning of the old ones.
LEMMA PushedHistory ==
  ASSUME TypeOK, NEW t \in Txs, pushSettlement(t)
  PROVE  /\ recentSettlements' \in Seq(Txs)
         /\ Len(recentSettlements') <= Len(recentSettlements) + 1
         /\ \A i \in 1..Len(recentSettlements') :
              recentSettlements'[i] = IF i = 1 THEN t ELSE recentSettlements[i - 1]
<1> DEFINE s == <<t>> \o recentSettlements
<1>1. /\ s \in Seq(Txs) /\ Len(s) = Len(recentSettlements) + 1
      /\ \A i \in 1..Len(s) : s[i] = IF i = 1 THEN t ELSE recentSettlements[i - 1]
  BY DEF TypeOK
<1>2. recentSettlements' = Cut(s)
  BY DEF pushSettlement
<1> HIDE DEF s
<1>3. CASE Len(s) > MAX_SETTLEMENT_HISTORY
  <2>1. recentSettlements' = SubSeq(s, 1, MAX_SETTLEMENT_HISTORY)
    BY <1>2, <1>3 DEF Cut
  <2>2. /\ Len(recentSettlements') = MAX_SETTLEMENT_HISTORY
        /\ \A i \in 1..MAX_SETTLEMENT_HISTORY : recentSettlements'[i] = s[i]
        /\ recentSettlements' \in Seq(Txs)
    BY <1>1, <1>3, <2>1, GatewayAssumption
  <2> QED
    BY <1>1, <1>3, <2>2, GatewayAssumption
<1>4. CASE ~(Len(s) > MAX_SETTLEMENT_HISTORY)
  BY <1>1, <1>2, <1>4 DEF Cut
<1> QED
  BY <1>3, <1>4

\* A step that settles nothing and forgets nothing.
LEMMA HistoryKept ==
  ASSUME Inv, History, UNCHANGED recentSettlements,
         \A t \in Txs : (Polled(t) => Polled(t)') /\ (Delivered(t) => Delivered(t)')
  PROVE  History'
<1>1. Entries' = Entries /\ \A i \in Entries : recentSettlements[i] \in Txs
  BY DEF Entries, Inv, TypeOK
<1> QED
  BY <1>1 DEF History

\* A witness settles t for the first time, and has then done so.
LEMMA HistoryPushed ==
  ASSUME Inv, History, NEW t \in Txs, pushSettlement(t),
         \A u \in Txs : (Polled(u) => Polled(u)') /\ (Delivered(u) => Delivered(u)'),
         (~Polled(t) /\ Polled(t)') \/ (~Delivered(t) /\ Delivered(t)')
  PROVE  History'
<1>a. /\ recentSettlements' \in Seq(Txs)
      /\ Len(recentSettlements') <= Len(recentSettlements) + 1
      /\ \A i \in 1..Len(recentSettlements') :
           recentSettlements'[i] = IF i = 1 THEN t ELSE recentSettlements[i - 1]
  BY PushedHistory DEF Inv
<1>b. /\ Len(recentSettlements) \in Nat /\ Len(recentSettlements') \in Nat
      /\ \A i \in Entries : recentSettlements[i] \in Txs
  BY <1>a DEF Inv, TypeOK, Entries
<1>c. \A i \in Entries' :
        \/ i = 1 /\ recentSettlements'[i] = t
        \/ i # 1 /\ i - 1 \in Entries /\ recentSettlements'[i] = recentSettlements[i - 1]
  BY <1>a, <1>b DEF Entries
\* One entry of t at most was there, and the other witness pushed it.
<1>d. /\ \A i \in Entries : recentSettlements[i] = t => Polled(t)' /\ Delivered(t)'
      /\ \A i, j \in Entries : recentSettlements[i] = t /\ recentSettlements[j] = t => i = j
  BY DEF History
<1>1. \A i \in Entries' : Polled(recentSettlements[i])' \/ Delivered(recentSettlements[i])'
  BY <1>b, <1>c DEF History, Polled, Delivered
<1>2. ASSUME NEW i \in Entries', NEW j \in Entries', i # j,
             recentSettlements'[i] = recentSettlements'[j]
      PROVE  Polled(recentSettlements[i])' /\ Delivered(recentSettlements[i])'
  <2>1. CASE i = 1 \/ j = 1
    BY <1>c, <1>d, <1>2, <2>1 DEF Polled, Delivered
  <2>2. CASE i # 1 /\ j # 1
    <3>1. i - 1 \in Entries /\ j - 1 \in Entries /\ i - 1 # j - 1
      BY <1>c, <1>2, <2>2 DEF Entries
    <3> QED
      BY <1>b, <1>c, <1>2, <2>2, <3>1 DEF History, Polled, Delivered
  <2> QED
    BY <2>1, <2>2
<1>3. ASSUME NEW i \in Entries', NEW j \in Entries', NEW k \in Entries',
             recentSettlements'[i] = recentSettlements'[j],
             recentSettlements'[j] = recentSettlements'[k],
             i # j, j # k, i # k
      PROVE  FALSE
  <2>1. i \in Nat /\ j \in Nat /\ k \in Nat
    BY DEF Entries
  <2>2. ASSUME NEW a \in Entries', NEW b \in Entries', a \in Nat, b \in Nat, a # b, a # 1, b # 1
        PROVE  /\ a - 1 \in Entries /\ b - 1 \in Entries /\ a - 1 # b - 1
               /\ recentSettlements'[a] = recentSettlements[a - 1]
               /\ recentSettlements'[b] = recentSettlements[b - 1]
    BY <1>c, <2>2
  <2>3. ASSUME NEW a \in Entries', NEW b \in Entries', a \in Nat, b \in Nat, a # b, a # 1, b # 1,
               recentSettlements'[a] = t, recentSettlements'[b] = t
        PROVE  FALSE
    BY <1>d, <2>2, <2>3
  <2>4. CASE i = 1 \/ j = 1 \/ k = 1
    <3>1. recentSettlements'[i] = t /\ recentSettlements'[j] = t /\ recentSettlements'[k] = t
      BY <1>c, <1>3, <2>4
    <3> QED
      BY <1>3, <2>1, <2>3, <2>4, <3>1
  <2>5. CASE i # 1 /\ j # 1 /\ k # 1
    BY <1>3, <2>1, <2>2, <2>5 DEF History
  <2> QED
    BY <2>4, <2>5
<1> QED
  BY <1>1, <1>2, <1>3 DEF History

\* Every step keeps Counted.
LEMMA CountedStep ==
  ASSUME Inv, Counted, [Next]_vars
  PROVE  Counted'
<1>a. detail \in Txs \union {None} /\ seenHashes \subseteq Txs /\ events \subseteq Txs
  BY DEF Inv, TypeOK
<1>b. \A t \in Txs : t # None
  BY GatewayAssumption
<1>1. ASSUME UNCHANGED <<recentSettlements, seenHashes, detail, txs>>, events' \subseteq events
      PROVE  Counted'
  BY <1>1, HistoryKept DEF Counted, Polled, Delivered
<1>2. ASSUME NEW t \in Txs, PollNext(t)
      PROVE  Counted'
  <2>1. /\ detail = None /\ t \notin seenHashes /\ seenHashes' = seenHashes \union {t}
        /\ detail' \in {t, None} /\ UNCHANGED <<recentSettlements, events, txs>>
    BY <1>2 DEF PollNext, Remember, Fetch
  <2> QED
    BY <1>a, <2>1, HistoryKept DEF Counted, Polled, Delivered
<1>3. CASE PollDetail
  <2>1. detail \in Txs /\ detail' = None /\ UNCHANGED <<seenHashes, events, txs>>
    BY <1>3, <1>a DEF PollDetail
  <2>2. /\ \A u \in Txs : (Polled(u) => Polled(u)') /\ (Delivered(u) => Delivered(u)')
        /\ ~Polled(detail) /\ (detail \in seenHashes => detail \in seenHashes' /\ detail # detail')
    BY <1>b, <2>1 DEF Polled, Delivered
  <2>3. detail \in seenHashes
    BY <1>b, <2>1 DEF Counted
  <2>4. History'
    <3>1. CASE UNCHANGED recentSettlements
      BY <2>2, <3>1, HistoryKept DEF Counted
    <3>2. CASE pushSettlement(detail)
      <4> DEFINE t == detail
      <4>1. t \in Txs /\ pushSettlement(t) /\ ~Polled(t)
        BY <2>1, <2>2, <3>2
      <4>2. t \in seenHashes' /\ t # detail'
        BY <2>2, <2>3
      <4>3. PICK u \in Txs : u = t
        BY <4>1
      <4>4. pushSettlement(u) /\ ~Polled(u) /\ Polled(u)'
        BY <4>1, <4>2, <4>3 DEF Polled
      <4> QED
        BY <2>2, <4>4, HistoryPushed DEF Counted
    <3> QED
      BY <1>3, <3>1, <3>2 DEF PollDetail, settle
  <2> QED
    BY <2>1, <2>4 DEF Counted
<1>4. CASE PollDetailEmpty \/ PollDetailFails
  <2>1. detail' = None /\ UNCHANGED <<recentSettlements, seenHashes, events, txs>>
    BY <1>4 DEF PollDetailEmpty, PollDetailFails
  <2> QED
    BY <1>b, <2>1, HistoryKept DEF Counted, Polled, Delivered
<1>5. CASE Crash
  BY <1>5 DEF Crash, Counted, History, Entries
<1>6. ASSUME NEW t \in Txs, WsMessage(t)
      PROVE  Counted'
  <2>1. /\ t \in events /\ events' = events \ {t} /\ pushSettlement(t)
        /\ UNCHANGED <<seenHashes, detail, txs>>
    BY <1>6 DEF WsMessage, settle
  <2>2. Ws /\ txs[t] # None /\ txs[t].status = "confirmed"
    BY <2>1 DEF Counted, Inv, WitnessedBacked
  <2>3. /\ \A u \in Txs : (Polled(u) => Polled(u)') /\ (Delivered(u) => Delivered(u)')
        /\ ~Delivered(t) /\ Delivered(t)'
    BY <2>1, <2>2 DEF Polled, Delivered
  <2>4. History'
    BY <2>1, <2>3, HistoryPushed DEF Counted
  <2> QED
    BY <2>1, <2>2, <2>4 DEF Counted
<1>7. ASSUME NEW t \in Txs, NEW s \in {"pending", "confirmed", "failed"}, NEW x,
             txs' = [txs EXCEPT ![t] = x], x # None,
             txs[t] = None \/ txs[t].status = "pending",
             UNCHANGED <<recentSettlements, seenHashes, detail>>,
             events' = events \/ (Ws /\ events' = events \union {t})
      PROVE  Counted'
  <2>1. \A u \in Txs : (Polled(u) => Polled(u)') /\ (Delivered(u) => Delivered(u)')
    BY <1>7 DEF Polled, Delivered, Inv, TypeOK
  <2> QED
    BY <1>7, <2>1, HistoryKept DEF Counted
<1>8. ASSUME NEW t \in Txs, Confirm(t) \/ Revert(t)
      PROVE  Counted'
  <2>1. PICK s \in {"confirmed", "failed"} : txs' = [txs EXCEPT ![t].status = s]
    BY <1>8 DEF Confirm, Revert
  <2> DEFINE x == [txs[t] EXCEPT !.status = s]
  <2>2. txs' = [txs EXCEPT ![t] = x] /\ x \in Transaction
    BY <1>8, <2>1 DEF Confirm, Revert, Inv, TypeOK, Transaction
  <2>3. x # None
    BY <2>2, NoneAssumption
  <2> HIDE DEF x
  <2> QED
    BY <1>7, <1>8, <2>2, <2>3 DEF Confirm, Revert
<1>9. ASSUME NEW t \in Txs, NEW p \in Payers, NEW to \in {Registry, "elsewhere"},
             NEW h \in Requests, Pay(t, p, to, h)
      PROVE  Counted'
  <2> DEFINE x == [from |-> p, to |-> to, invoice |-> h,
                   earlier |-> {u \in Txs : txs[u] # None}, status |-> "pending"]
  <2>1. txs' = [txs EXCEPT ![t] = x] /\ x \in Transaction
    BY <1>9 DEF Pay, Transaction
  <2>2. x # None
    BY <2>1, NoneAssumption
  <2> HIDE DEF x
  <2> QED
    BY <1>7, <1>9, <2>1, <2>2 DEF Pay
<1>10. ASSUME NEW r \in Requests, Handler(r)
       PROVE  Counted'
  BY <1>1, <1>10
     DEF Handler, Handling, HandleNoReceipt, HandleBadSignature, HandleSubscription,
         HandlePayment, VerifiedUnknown, VerifiedUnpaid, Verified, VerifyFails, SubscriptionValid,
         SubscriptionInvalid, UpstreamAnswers, UpstreamFails
<1>11. ASSUME \/ \E t \in Txs : WsLost(t)
              \/ \E r \in Requests : (\E e, k : Send(r, e, k)) \/ (\E e, p, h, t : SendReceipt(r, e, p, h, t))
              \/ PollList \/ Sweep \/ Tick \/ UNCHANGED vars
       PROVE  Counted'
  BY <1>1, <1>11 DEF WsLost, Send, SendReceipt, PollList, Sweep, Tick, vars
<1> QED
  BY <1>2, <1>3, <1>4, <1>5, <1>6, <1>8, <1>9, <1>10, <1>11 DEF Next, Client, Chain, Witness

\* In every deployment, the history counts a transaction once for each witness that settled it:
\* polls, lost and late events, failed details, the cut of the history and restarts do not
\* repeat one (lines 165-216, 318-323 and 369-415).
THEOREM SettlementsCounted == Spec => []OncePerWitness
<1>1. Init => Counted
  BY DEF Init, Counted, History, Entries
<1>2. Inv /\ Counted /\ [Next]_vars => Counted'
  BY CountedStep
<1>3. Counted => OncePerWitness
  <2> SUFFICES ASSUME Counted, NEW i \in Entries, NEW j \in Entries, i < j,
                      recentSettlements[i] = recentSettlements[j]
               PROVE  /\ Ws
                      /\ recentSettlements[i] \in seenHashes
                      /\ \A k \in Entries :
                           recentSettlements[k] = recentSettlements[i] => k \in {i, j}
    BY DEF OncePerWitness, Entries
  <2>1. i # j
    BY DEF Entries
  <2> QED
    BY <2>1 DEF Counted, History, Polled, Delivered
<1> QED
  BY <1>1, <1>2, <1>3, Invariance, PTL DEF Spec

===============================================================================
