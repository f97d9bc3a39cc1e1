------------------------------- MODULE Gateway -------------------------------
(***************************************************************************)
(* The self-hosted x402 gateway (x402-gateway/server.js).                  *)
(*                                                                         *)
(* One Node.js process: a handler runs without interruption between two    *)
(* awaits, so every action below is the code from one await to the next.   *)
(* The process keeps a Map of invoices; three activities change it:        *)
(*   - the route handler, one activation per HTTP request (reqs);          *)
(*   - the WebSocket listener and the chain poller, which call settle;     *)
(*   - the 30 s sweep.                                                     *)
(* The chain node (txs, events) and the clients are the environment.       *)
(*                                                                         *)
(* An invoice hash is drawn from a timestamp and 16 random bytes inside    *)
(* challenge, at most once per request: the hash is named by the request   *)
(* whose challenge drew it, so an invoice is a member of Requests.         *)
(***************************************************************************)
EXTENDS Naturals, Sequences, FiniteSets

CONSTANTS
  Requests,        \* HTTP requests, and the invoice hashes their challenges draw
  Payers,          \* wallet addresses
  Endpoints,       \* route ids of config.yaml
  SubscriptionEndpoints,  \* those with `subscription: true`
  Txs,             \* transaction hashes
  None,            \* no invoice, no transaction, no payer

  \* parameters of the program
  TTL,                     \* invoiceTtlSeconds
  Grace,                   \* the 60 s the sweep adds
  MAX_SETTLEMENT_HISTORY,
  Window,                  \* the 100 transactions the poller asks for

  \* the environment of one deployment
  Ws,              \* the node delivers PaymentProcessed events over the WebSocket
  ReceiptTx,       \* clients put the transaction hash in the receipt
  OthersTx,        \* also that of a transaction which another wallet sent
  RpcFaults,       \* calls to the chain RPC may fail, or come back without the transaction
  Listed,          \* statuses of the transactions syn_getRecentTransactions returns
  ReceiptKinds,    \* the sorts of receipt that clients send

  \* bounds of the model
  MaxTime,
  MaxCrashes

ASSUME GatewayAssumption ==
  /\ None \notin Requests \union Payers \union Endpoints \union Txs
  /\ SubscriptionEndpoints \subseteq Endpoints
  /\ TTL \in Nat /\ Grace \in Nat
  /\ MAX_SETTLEMENT_HISTORY \in Nat \ {0} /\ Window \in Nat
  /\ Ws \in BOOLEAN /\ ReceiptTx \in BOOLEAN /\ OthersTx \in BOOLEAN /\ RpcFaults \in BOOLEAN
  /\ Listed \subseteq {"pending", "confirmed", "failed"}
  /\ ReceiptKinds \subseteq {"none", "otherEndpoint", "badSignature", "subscription", "payment"}
  /\ MaxTime \in Nat /\ MaxCrashes \in Nat

VARIABLES
  \* memory of the process, lost in a crash
  invoices,            \* Map invoiceHash -> invoice object, None when absent
  recentSettlements,   \* newest first, of the transactions settled
  seenHashes,          \* the set pollChain keeps
  listing,             \* the listed transactions its loop has yet to look at
  detail,              \* the transaction whose detail pollChain awaits, or None
  reqs,                \* reqs[r]: the activation of the handler for request r
  \* the environment
  txs,                 \* the chain: Txs -> transaction, None before it is sent
  events,              \* PaymentProcessed events on their way to the gateway
  now,
  crashes

vars == <<invoices, recentSettlements, seenHashes, listing, detail, reqs,
          txs, events, now, crashes>>

Registry == "ServiceRegistry"

(***************************************************************************)
(* Types.  A request keeps what the handler's closure keeps:  the receipt, *)
(* and across the second verification the invoice object it looked up,     *)
(* which the map may have dropped or replaced meanwhile.  Of that object   *)
(* only its endpointId can still be read (the rest is overwritten), so     *)
(* held is that endpointId and live says that the map still has it.        *)
(* spent records, for the properties, inv.txHash at the moment the invoice *)
(* was consumed for the request.                                           *)
(***************************************************************************)
Kinds == {"none", "otherEndpoint", "badSignature", "subscription", "payment"}
Awaiting == {"verifyUnknown", "verifyUnpaid", "isValid", "proxy"}
Answered == {"challenged", "rejected", "served", "badGateway", "lost"}

Invoice ==
  [endpoint  : Endpoints,
   payer     : Payers \union {None},
   status    : {"pending", "paid", "consumed"},
   expiresAt : Nat,
   tx        : Txs \union {None}]

Request ==
  [pc       : {"idle", "sent"} \union Awaiting \union Answered,
   endpoint : Endpoints \union {None},
   kind     : Kinds,
   payer    : Payers \union {None},
   invoice  : Requests \union {None},
   tx       : Txs \union {None},
   held     : Endpoints \union {None},
   live     : BOOLEAN,
   spent    : Txs \union {None}]

Transaction ==
  [from    : Payers,
   to      : {Registry, "elsewhere"},
   invoice : Requests,
   earlier : SUBSET Txs,      \* the transactions that were sent before it
   status  : {"pending", "confirmed", "failed"}]

\* None is no record.
ASSUME NoneAssumption == None \notin Invoice \union Transaction

TypeOK ==
  /\ invoices \in [Requests -> Invoice \union {None}]
  /\ recentSettlements \in Seq(Txs)
  /\ Len(recentSettlements) <= MAX_SETTLEMENT_HISTORY
  /\ seenHashes \subseteq Txs
  /\ listing \subseteq Txs
  /\ detail \in Txs \union {None}
  /\ reqs \in [Requests -> Request]
  /\ txs \in [Txs -> Transaction \union {None}]
  /\ events \subseteq Txs
  /\ now \in Nat
  /\ crashes \in Nat

Idle ==
  [pc |-> "idle", endpoint |-> None, kind |-> "none", payer |-> None,
   invoice |-> None, tx |-> None, held |-> None, live |-> FALSE, spent |-> None]

Init ==
  /\ invoices = [h \in Requests |-> None]
  /\ recentSettlements = <<>>
  /\ seenHashes = {}
  /\ listing = {}
  /\ detail = None
  /\ reqs = [r \in Requests |-> Idle]
  /\ txs = [t \in Txs |-> None]
  /\ events = {}
  /\ now = 0
  /\ crashes = 0

-------------------------------------------------------------------------------
(***************************************************************************)
(* Clients.  A client learns an invoice from a 402 answer, pays it to the  *)
(* ServiceRegistry (or to a plain address, as the specification document   *)
(* allows), and sends a receipt.  The receipt names a wallet as its payer, *)
(* and may quote a transaction of the chain, of this invoice or another:   *)
(* one that this wallet sent, and with OthersTx any other (the gateway     *)
(* does not compare tx.from, lines 619-638).                               *)
(***************************************************************************)
Issued(h) == reqs[h].pc = "challenged"

Pay(t, p, to, h) ==
  /\ txs[t] = None
  /\ Issued(h)
  /\ txs' = [txs EXCEPT ![t] = [from |-> p, to |-> to, invoice |-> h,
                                    earlier |-> {u \in Txs : txs[u] # None},
                                    status |-> "pending"]]
  /\ UNCHANGED <<invoices, recentSettlements, seenHashes, listing, detail, reqs, events, now, crashes>>

Send(r, e, k) ==
  /\ reqs[r].pc = "idle"
  /\ reqs' = [reqs EXCEPT ![r] = [Idle EXCEPT !.pc = "sent", !.endpoint = e, !.kind = k]]
  /\ UNCHANGED <<invoices, recentSettlements, seenHashes, listing, detail, txs, events, now, crashes>>

Quotable(p) ==
  {None} \union {t \in Txs : ReceiptTx /\ txs[t] # None /\ (OthersTx \/ txs[t].from = p)}

SendReceipt(r, e, p, h, t) ==
  /\ reqs[r].pc = "idle"
  /\ "payment" \in ReceiptKinds
  /\ Issued(h)
  /\ t \in Quotable(p)
  /\ reqs' = [reqs EXCEPT ![r] = [Idle EXCEPT !.pc = "sent", !.endpoint = e,
                                              !.kind = "payment", !.payer = p,
                                              !.invoice = h, !.tx = t]]
  /\ UNCHANGED <<invoices, recentSettlements, seenHashes, listing, detail, txs, events, now, crashes>>

-------------------------------------------------------------------------------
(***************************************************************************)
(* The chain.  A call of pay_per_call emits PaymentProcessed when it is    *)
(* confirmed; the event reaches the gateway only if its socket is open.    *)
(***************************************************************************)
Confirm(t) ==
  /\ txs[t] # None
  /\ txs[t].status = "pending"
  /\ txs' = [txs EXCEPT ![t].status = "confirmed"]
  /\ \/ Ws /\ txs[t].to = Registry /\ events' = events \union {t}
     \/ UNCHANGED events
  /\ UNCHANGED <<invoices, recentSettlements, seenHashes, listing, detail, reqs, now, crashes>>

Revert(t) ==
  /\ txs[t] # None
  /\ txs[t].status = "pending"
  /\ txs' = [txs EXCEPT ![t].status = "failed"]
  /\ UNCHANGED <<invoices, recentSettlements, seenHashes, listing, detail, reqs, events, now, crashes>>

-------------------------------------------------------------------------------
(***************************************************************************)
(* settle: the object of the map is updated in place, whatever its status; *)
(* an unknown invoice gets a new object.                                   *)
(***************************************************************************)
Cut(entries) ==
  IF Len(entries) > MAX_SETTLEMENT_HISTORY
  THEN SubSeq(entries, 1, MAX_SETTLEMENT_HISTORY)
  ELSE entries

pushSettlement(t) == recentSettlements' = Cut(<<t>> \o recentSettlements)

SettledInvoice(h, e, t) ==
  IF invoices[h] = None
  THEN [endpoint |-> e, payer |-> txs[t].from, status |-> "paid",
        expiresAt |-> now + TTL, tx |-> t]
  ELSE [invoices[h] EXCEPT !.payer = txs[t].from, !.status = "paid", !.tx = t]

settle(h, e, t) ==
  /\ invoices' = [invoices EXCEPT ![h] = SettledInvoice(h, e, t)]
  /\ pushSettlement(t)

\* ws.on('message'): the event names the endpoint by its numeric id, the one of the challenge.
WsMessage(t) ==
  /\ t \in events
  /\ events' = events \ {t}
  /\ settle(txs[t].invoice, reqs[txs[t].invoice].endpoint, t)
  /\ UNCHANGED <<seenHashes, listing, detail, reqs, txs, now, crashes>>

\* The socket closes with the event undelivered; connectChain subscribes anew, to new events only.
WsLost(t) ==
  /\ t \in events
  /\ events' = events \ {t}
  /\ UNCHANGED <<invoices, recentSettlements, seenHashes, listing, detail, reqs, txs, now, crashes>>

(***************************************************************************)
(* pollChain.  The loop asks for the latest transactions; of those it has  *)
(* not seen it takes one at a time, remembers the hash, and fetches the    *)
(* detail of a transaction sent to the registry.  A listing that fails     *)
(* changes nothing, and a detail that fails abandons the listing; a detail *)
(* that comes back empty is passed over.                                   *)
(***************************************************************************)
Recent(t) == Cardinality({u \in Txs : txs[u] # None /\ t \in txs[u].earlier}) < Window

PollList ==
  /\ detail = None
  /\ listing = {}
  /\ listing' = {t \in Txs \ seenHashes :
                   txs[t] # None /\ txs[t].status \in Listed /\ Recent(t)}
  /\ UNCHANGED <<invoices, recentSettlements, seenHashes, detail, reqs, txs, events, now, crashes>>

\* Mutant: the poller does not remember what it has seen.
RememberNothing(t) == seenHashes

Remember(t) == seenHashes \union {t}

Fetch(t) == IF txs[t].to = Registry THEN t ELSE None

PollNext(t) ==
  /\ detail = None
  /\ t \in listing \ seenHashes
  /\ listing' = listing \ {t}
  /\ seenHashes' = Remember(t)
  /\ detail' = Fetch(t)
  /\ UNCHANGED <<invoices, recentSettlements, reqs, txs, events, now, crashes>>

PollDetail ==
  /\ detail # None
  /\ LET h == txs[detail].invoice
     IN  IF invoices[h] # None
         THEN settle(h, reqs[h].endpoint, detail)
         ELSE UNCHANGED <<invoices, recentSettlements>>
  /\ detail' = None
  /\ UNCHANGED <<seenHashes, listing, reqs, txs, events, now, crashes>>

PollDetailEmpty ==
  /\ RpcFaults
  /\ detail # None
  /\ detail' = None
  /\ UNCHANGED <<invoices, recentSettlements, seenHashes, listing, reqs, txs, events, now, crashes>>

PollDetailFails ==
  /\ RpcFaults
  /\ detail # None
  /\ detail' = None
  /\ listing' = {}
  /\ UNCHANGED <<invoices, recentSettlements, seenHashes, reqs, txs, events, now, crashes>>

-------------------------------------------------------------------------------
(***************************************************************************)
(* Memory: time, the sweep, and a crash of the process with its restart.   *)
(***************************************************************************)

\* The handlers that hold an invoice object of hs across the second verification lose sight of the map.
Detach(hs) ==
  [q \in Requests |->
     IF reqs[q].pc = "verifyUnpaid" /\ reqs[q].invoice \in hs
     THEN [reqs[q] EXCEPT !.live = FALSE]
     ELSE reqs[q]]

\* Mutant: the sweep does not look at the status.
Sweepable(h) == invoices[h].expiresAt + Grace < now

Stale(h) == invoices[h].status # "paid" /\ invoices[h].expiresAt + Grace < now

Sweep ==
  LET dropped == {h \in Requests : invoices[h] # None /\ Stale(h)}
  IN  /\ dropped # {}
      /\ invoices' = [h \in Requests |-> IF h \in dropped THEN None ELSE invoices[h]]
      /\ reqs' = Detach(dropped)
      /\ UNCHANGED <<recentSettlements, seenHashes, listing, detail, txs, events, now, crashes>>

Tick ==
  /\ now < MaxTime
  /\ now' = now + 1
  /\ UNCHANGED <<invoices, recentSettlements, seenHashes, listing, detail, reqs, txs, events, crashes>>

Crash ==
  /\ crashes < MaxCrashes
  /\ crashes' = crashes + 1
  /\ invoices' = [h \in Requests |-> None]
  /\ recentSettlements' = <<>>
  /\ seenHashes' = {}
  /\ listing' = {}
  /\ detail' = None
  /\ events' = {}
  /\ reqs' = [r \in Requests |->
                IF reqs[r].pc \in Awaiting THEN [reqs[r] EXCEPT !.pc = "lost"] ELSE reqs[r]]
  /\ UNCHANGED <<txs, now>>

-------------------------------------------------------------------------------
(***************************************************************************)
(* The route handler.                                                      *)
(***************************************************************************)
PendingInvoice(e) ==
  [endpoint |-> e, payer |-> None, status |-> "pending",
   expiresAt |-> now + TTL, tx |-> None]

\* challenge(res, route, reason): a new invoice, a 402 answer.  map is the Map so far in this step.
challenge(r, map) ==
  /\ invoices' = [map EXCEPT ![r] = PendingInvoice(reqs[r].endpoint)]
  /\ reqs' = [reqs EXCEPT ![r] = [Idle EXCEPT !.pc = "challenged", !.endpoint = reqs[r].endpoint]]

Handling(r, k) ==
  /\ reqs[r].pc = "sent"
  /\ reqs[r].kind = k
  /\ UNCHANGED <<recentSettlements, seenHashes, listing, detail, txs, events, now, crashes>>

\* no receipt, or one made for another endpoint
HandleNoReceipt(r) ==
  \E k \in {"none", "otherEndpoint"} : Handling(r, k) /\ challenge(r, invoices)

HandleBadSignature(r) ==
  /\ Handling(r, "badSignature")
  /\ reqs' = [reqs EXCEPT ![r].pc = "rejected"]
  /\ UNCHANGED invoices

HandleSubscription(r) ==
  /\ Handling(r, "subscription")
  /\ reqs' = [reqs EXCEPT ![r].pc =
                IF reqs[r].endpoint \in SubscriptionEndpoints THEN "isValid" ELSE "rejected"]
  /\ UNCHANGED invoices

\* present says whether o is the object in the Map.
PutInvoice(h, o, present) == IF present THEN [invoices EXCEPT ![h] = o] ELSE invoices

\* Mutant: the invoice stays paid.
Unconsumed(inv) == inv

Consumed(inv) == [inv EXCEPT !.status = "consumed"]

\* Mutant: the payer is not compared.
MatchesEndpoint(r, inv) == inv.endpoint = reqs[r].endpoint

Matches(r, inv) == inv.payer = reqs[r].payer /\ inv.endpoint = reqs[r].endpoint

\* The end of the check, with inv paid: compare, consume, go on to the proxy.
Admit(r, inv, present) ==
  LET h == reqs[r].invoice
  IN
  \/ /\ Matches(r, inv)
     /\ invoices' = PutInvoice(h, Consumed(inv), present)
     /\ reqs' = [reqs EXCEPT ![r].pc = "proxy", ![r].spent = inv.tx]
  \/ /\ ~Matches(r, inv)
     /\ challenge(r, PutInvoice(h, inv, present))

Status(h) == IF invoices[h] = None THEN "unknown" ELSE invoices[h].status

\* Mutant: an invoice that is not in memory is refused without asking the chain.
VerifiableInMemory(r) == reqs[r].tx # None /\ Status(reqs[r].invoice) # "unknown"

Verifiable(r) == reqs[r].tx # None

HandlePayment(r) ==
  LET h == reqs[r].invoice
  IN
  /\ Handling(r, "payment")
  /\ \/ /\ Status(h) \in {"unknown", "pending"}
        /\ ~Verifiable(r)
        /\ challenge(r, invoices)
     \/ /\ Status(h) = "unknown"
        /\ Verifiable(r)
        /\ reqs' = [reqs EXCEPT ![r].pc = "verifyUnknown"]
        /\ UNCHANGED invoices
     \/ /\ Status(h) = "pending"
        /\ Verifiable(r)
        /\ reqs' = [reqs EXCEPT ![r].pc = "verifyUnpaid",
                                ![r].held = invoices[h].endpoint,
                                ![r].live = TRUE]
        /\ UNCHANGED invoices
     \/ /\ Status(h) = "consumed"
        /\ challenge(r, invoices)
     \/ /\ Status(h) = "paid"
        /\ Admit(r, invoices[h], TRUE)

\* Mutant: any confirmed payment to the registry will do.
verifyPaymentTxAnyInvoice(t, h) ==
  /\ txs[t].status = "confirmed"
  /\ txs[t].to = Registry

\* verifyPaymentTx(txHash, invoiceHash), as the node answers it
verifyPaymentTx(t, h) ==
  /\ txs[t].status = "confirmed"
  /\ txs[t].to = Registry
  /\ txs[t].invoice = h

Verified(r, at) ==
  /\ reqs[r].pc = at
  /\ verifyPaymentTx(reqs[r].tx, reqs[r].invoice)
  /\ UNCHANGED <<recentSettlements, seenHashes, listing, detail, txs, events, now, crashes>>

\* The lookup found no invoice: the handler makes a new object and puts it in the
\* Map, in place of one that appeared while it waited.  The object has the payer
\* of the receipt and the endpoint of the route, so it passes the comparisons.
VerifiedUnknown(r) ==
  LET h == reqs[r].invoice
  IN
  /\ Verified(r, "verifyUnknown")
  /\ invoices' = [invoices EXCEPT ![h] =
                    Consumed([endpoint |-> reqs[r].endpoint, payer |-> reqs[r].payer,
                              status |-> "paid", expiresAt |-> now + TTL, tx |-> reqs[r].tx])]
  /\ reqs' = [Detach({h}) EXCEPT ![r].pc = "proxy", ![r].spent = reqs[r].tx]

\* The lookup found a pending invoice: the handler overwrites the object it held.
VerifiedUnpaid(r) ==
  LET inv == [endpoint  |-> reqs[r].held,
              payer     |-> reqs[r].payer,
              status    |-> "paid",
              expiresAt |-> IF reqs[r].live THEN invoices[reqs[r].invoice].expiresAt ELSE now,
              tx        |-> reqs[r].tx]
  IN
  /\ Verified(r, "verifyUnpaid")
  /\ Admit(r, inv, reqs[r].live)

\* Mutant: only an RPC failure ends the wait, a transaction that is not confirmed does not.
Faulty(r) == RpcFaults

Refuted(r) == RpcFaults \/ ~verifyPaymentTx(reqs[r].tx, reqs[r].invoice)

VerifyFails(r) ==
  /\ reqs[r].pc \in {"verifyUnknown", "verifyUnpaid"}
  /\ Refuted(r)
  /\ challenge(r, invoices)
  /\ UNCHANGED <<recentSettlements, seenHashes, listing, detail, txs, events, now, crashes>>

\* isSubscriptionValid: the SubscriptionNFT contract answers, or the call fails
SubscriptionValid(r) ==
  /\ reqs[r].pc = "isValid"
  /\ reqs' = [reqs EXCEPT ![r].pc = "proxy"]
  /\ UNCHANGED <<invoices, recentSettlements, seenHashes, listing, detail, txs, events, now, crashes>>

SubscriptionInvalid(r) ==
  /\ reqs[r].pc = "isValid"
  /\ challenge(r, invoices)
  /\ UNCHANGED <<recentSettlements, seenHashes, listing, detail, txs, events, now, crashes>>

\* The upstream answers, or the fetch fails or is aborted after timeoutMs.
UpstreamAnswers(r) ==
  /\ reqs[r].pc = "proxy"
  /\ reqs' = [reqs EXCEPT ![r].pc = "served"]
  /\ UNCHANGED <<invoices, recentSettlements, seenHashes, listing, detail, txs, events, now, crashes>>

UpstreamFails(r) ==
  /\ reqs[r].pc = "proxy"
  /\ reqs' = [reqs EXCEPT ![r].pc = "badGateway"]
  /\ UNCHANGED <<invoices, recentSettlements, seenHashes, listing, detail, txs, events, now, crashes>>

-------------------------------------------------------------------------------
Client ==
  \/ \E t \in Txs, p \in Payers, to \in {Registry, "elsewhere"}, h \in Requests : Pay(t, p, to, h)
  \/ \E r \in Requests, e \in Endpoints, k \in ReceiptKinds \ {"payment"} : Send(r, e, k)
  \/ \E r \in Requests, e \in Endpoints, p \in Payers, h \in Requests, t \in Txs \union {None} :
       SendReceipt(r, e, p, h, t)

Chain ==
  \E t \in Txs : Confirm(t) \/ Revert(t)

Witness ==
  \/ \E t \in Txs : WsMessage(t) \/ WsLost(t) \/ PollNext(t)
  \/ PollList
  \/ PollDetail
  \/ PollDetailEmpty
  \/ PollDetailFails

Handler(r) ==
  \/ HandleNoReceipt(r)
  \/ HandleBadSignature(r)
  \/ HandleSubscription(r)
  \/ HandlePayment(r)
  \/ VerifiedUnknown(r)
  \/ VerifiedUnpaid(r)
  \/ VerifyFails(r)
  \/ SubscriptionValid(r)
  \/ SubscriptionInvalid(r)
  \/ UpstreamAnswers(r)
  \/ UpstreamFails(r)

Next ==
  \/ Client
  \/ Chain
  \/ Witness
  \/ \E r \in Requests : Handler(r)
  \/ Sweep
  \/ Tick
  \/ Crash

Spec == Init /\ [][Next]_vars

-------------------------------------------------------------------------------
(***************************************************************************)
(* Safety.                                                                 *)
(***************************************************************************)

\* t pays invoice h as far as the gateway may believe it.  Where the node lists
\* only confirmed transactions, it is a confirmed payment.
Backs(t, h) ==
  /\ t # None
  /\ txs[t] # None
  /\ txs[t].to = Registry
  /\ txs[t].invoice = h
  /\ Listed \subseteq {"confirmed"} => txs[t].status = "confirmed"

(***************************************************************************)
(* A request passes the gate on an invoice only if somebody paid that very *)
(* invoice to the ServiceRegistry, in a confirmed transaction.  It says    *)
(* that invoice, transaction and status stay together through settle, the  *)
(* two verifications, concurrent handlers, the sweep and restarts          *)
(* ("request with receipt -> verified, then proxied upstream", line 8).    *)
(***************************************************************************)
ServicePaid ==
  \A r \in Requests :
    reqs[r].spent # None => Backs(reqs[r].spent, reqs[r].invoice)

(***************************************************************************)
(* The wallet that paid is the one the receipt names ("invoice must be     *)
(* paid, unconsumed, same payer", dashboard/components/gateway-lab.tsx     *)
(* 136): the payer that settle takes from the transaction reaches the      *)
(* comparison of line 575, whatever happens to the invoice in between.     *)
(***************************************************************************)
PaidByCaller(r) == txs[reqs[r].spent].from = reqs[r].payer

ServicePaidByCaller ==
  \A r \in Requests : reqs[r].spent # None => PaidByCaller(r)

(***************************************************************************)
(* A call that is served matches the invoice it was served on in its       *)
(* payer, or at least in the endpoint whose challenge quoted the price     *)
(* ('payer_mismatch' and 'invoice_endpoint_mismatch', lines 575-576).      *)
(***************************************************************************)
AtInvoicedEndpoint(r) == reqs[r].endpoint = reqs[reqs[r].invoice].endpoint

ReceiptMatchesInvoice ==
  \A r \in Requests : reqs[r].spent # None => PaidByCaller(r) \/ AtInvoicedEndpoint(r)

(***************************************************************************)
(* One payment, one call: no two requests get through on the same          *)
(* transaction.                                                            *)
(***************************************************************************)
NoDoubleSpend ==
  \A r, q \in Requests :
    r # q /\ reqs[r].spent # None => reqs[r].spent # reqs[q].spent


(***************************************************************************)
(* No witness counts a transaction twice: it is in the history once, or    *)
(* twice where both the listener and the poller have settled it.           *)
(***************************************************************************)
OncePerWitness ==
  \A i, j \in 1..Len(recentSettlements) :
    i < j /\ recentSettlements[i] = recentSettlements[j] =>
      /\ Ws
      /\ recentSettlements[i] \in seenHashes
      /\ \A k \in 1..Len(recentSettlements) :
           recentSettlements[k] = recentSettlements[i] => k \in {i, j}

(***************************************************************************)
(* Once settled, an invoice stays in memory until a request consumes it,   *)
(* however long it has expired: only a crash loses it.  (The sweep, a      *)
(* second verification on a stale object and a challenge must all leave it *)
(* alone.)                                                                 *)
(***************************************************************************)
SettledUntilConsumed ==
  [][\A h \in Requests :
       Status(h) = "paid" =>
         \/ Status(h)' = "paid"
         \/ \E r \in Requests : /\ reqs[r].pc \in {"sent"} \union Awaiting
                               /\ reqs'[r].invoice = h
                               /\ reqs'[r].pc = "proxy"
         \/ crashes' # crashes]_vars

(***************************************************************************)
(* A payer is never turned away wrongly: when a request with the hash of   *)
(* its payer's confirmed payment is answered with a new challenge, either  *)
(* somebody has already been served on that invoice, or the request went   *)
(* to another endpoint than the one challenged, or several payments of the *)
(* invoice compete.  The property covers expiry, the sweep and restarts:   *)
(* "The invoice may have expired from memory; verify the receipt's tx      *)
(* directly" (line 550).                                                   *)
(***************************************************************************)
Undisputed(r) ==
  /\ reqs[r].kind = "payment"
  /\ reqs[r].tx # None
  /\ verifyPaymentTx(reqs[r].tx, reqs[r].invoice)
  /\ reqs[r].endpoint = reqs[reqs[r].invoice].endpoint
  /\ \A t \in Txs \ {reqs[r].tx} : txs[t] = None \/ txs[t].invoice # reqs[r].invoice
  /\ \A q \in Requests : reqs[q].spent # reqs[r].tx

NoFalseRejection ==
  [][\A r \in Requests :
       Undisputed(r) /\ reqs[r].pc # "challenged" => reqs'[r].pc # "challenged"]_vars

-------------------------------------------------------------------------------
(***************************************************************************)
(* Liveness.  The event loop runs every handler whose await is over; each  *)
(* fetch ends (the proxy's by its AbortController, the RPC's by the HTTP   *)
(* client's own timeout) and the poll loop never stops.  Clients and the   *)
(* chain owe nothing.                                                      *)
(***************************************************************************)
Poll == (\E t \in Txs : PollNext(t)) \/ PollList \/ PollDetail \/ PollDetailEmpty \/ PollDetailFails

Fairness ==
  /\ \A r \in Requests : WF_vars(Handler(r))
  /\ WF_vars(Poll)

FairSpec == Spec /\ Fairness

\* Every request that reaches the gateway is answered, or lost with the process.
EveryRequestAnswered ==
  \A r \in Requests : reqs[r].pc = "sent" ~> reqs[r].pc \in Answered

(***************************************************************************)
(* A confirmed payment of an invoice in memory does not leave it pending:  *)
(* the poller "mark[s] any ServiceRegistry pay_per_call whose String       *)
(* argument matches a pending invoice hash as settled" (lines 365-367).    *)
(***************************************************************************)
Pending(h) == Status(h) = "pending"
ConfirmedFor(t, h) == txs[t] # None /\ verifyPaymentTx(t, h)

PaymentObserved ==
  \A h \in Requests, t \in Txs : (Pending(h) /\ ConfirmedFor(t, h)) ~> ~Pending(h)

-------------------------------------------------------------------------------
(***************************************************************************)
(* The promise this gateway keeps when its poller is the only witness.     *)
(***************************************************************************)
PC == INSTANCE PayPerCall WITH
        Calls <- Requests,
        Payments <- Txs,
        Unspent <- None,
        paid <- {t \in Txs : txs[t] # None /\ txs[t].to = Registry},
        spent <- [r \in Requests |-> reqs[r].spent]

ImplementsPayPerCall == PC!Spec
===============================================================================
