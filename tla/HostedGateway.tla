----------------------------- MODULE HostedGateway -----------------------------
(***************************************************************************)
(* The hosted edition of the gateway                                       *)
(* (dashboard/app/api/gateway/[id]/[[...path]]/route.ts).                  *)
(*                                                                         *)
(* The handler finds endpoints, invoices and subscriptions in an in-memory *)
(* store of the same process, lib/chain/store, which is outside the        *)
(* repository: it issues invoices and marks them paid.  Everything from    *)
(* the wait for the store to the wait for the request's body or for the    *)
(* upstream is one step, the check and the consumption of an invoice with  *)
(* it: the gateway implements PayPerCall whatever the order of requests.   *)
(***************************************************************************)
EXTENDS Naturals, FiniteSets

CONSTANTS
  Request,         \* HTTP requests; the invoice a challenge draws is named by its request
  Payer,           \* accounts that sign receipts and pay
  Endpoint,
  Route,           \* the endpoint each request is for
  Bodies,          \* the requests with a body: neither GET nor HEAD
  Nothing             \* no receipt, no invoice, nobody

Invoice ==
  [endpoint : Endpoint, status : {"pending", "expired", "paid", "consumed"}, payer : Payer \union {Nothing}]

\* A subscription's receipt names a token, another one an invoice; of one whose
\* signature does not verify (line 119) nothing else is read.
Receipt ==
  [kind : {"payment"}, endpoint : Endpoint, invoice : Request, payer : Payer]
    \union [kind : {"subscription", "forged"}, endpoint : Endpoint]

ASSUME HostedAssumption ==
  /\ Route \in [Request -> Endpoint]
  /\ Bodies \subseteq Request
  /\ Nothing \notin Request \union Payer \union Endpoint \union Receipt \union Invoice

VARIABLES
  invoices,        \* the store's invoices, by hash
  reqs,            \* the activations of handle
  calls            \* ep.calls, by endpoint

hostedVars == <<invoices, reqs, calls>>

Waiting == {"hydrating", "body", "fetching", "reading"}

Answered == {"404", "402", "401", "500", "502", "served"}

\* spent: for the properties, the invoice the request consumed.
Activation ==
  [pc : {"idle"} \union Waiting \union Answered, receipt : Receipt \union {Nothing}, spent : Request \union {Nothing}]

HostedTypeOK ==
  /\ invoices \in [Request -> Invoice \union {Nothing}]
  /\ reqs \in [Request -> Activation]
  /\ calls \in [Endpoint -> Nat]

Idle == [pc |-> "idle", receipt |-> Nothing, spent |-> Nothing]

HostedInit ==
  /\ invoices = [h \in Request |-> Nothing]
  /\ reqs = [r \in Request |-> Idle]
  /\ calls = [e \in Endpoint |-> 0]

-------------------------------------------------------------------------------
(***************************************************************************)
(* The store and the clients.                                              *)
(***************************************************************************)
\* registry_payPerCall, which anybody who knows the hash may call.
Settle(h, p) ==
  /\ invoices[h] # Nothing
  /\ invoices[h].status = "pending"
  /\ invoices' = [invoices EXCEPT ![h] = [endpoint |-> @.endpoint, status |-> "paid", payer |-> p]]
  /\ UNCHANGED <<reqs, calls>>

Expire(h) ==
  /\ invoices[h] # Nothing
  /\ invoices[h].status = "pending"
  /\ invoices' = [invoices EXCEPT ![h].status = "expired"]
  /\ UNCHANGED <<reqs, calls>>

\* The store forgets an expired invoice.
Forget(h) ==
  /\ invoices[h] # Nothing
  /\ invoices[h].status = "expired"
  /\ invoices' = [invoices EXCEPT ![h] = Nothing]
  /\ UNCHANGED <<reqs, calls>>

\* A hash is known from the challenge that drew it.
Quotable(receipt) ==
  receipt # Nothing /\ receipt.kind = "payment" => reqs[receipt.invoice].pc = "402"

Send(r, receipt) ==
  /\ reqs[r].pc = "idle"
  /\ reqs' = [reqs EXCEPT ![r] = [pc |-> "hydrating", receipt |-> receipt, spent |-> Nothing]]
  /\ UNCHANGED <<invoices, calls>>

-------------------------------------------------------------------------------
(***************************************************************************)
(* handle, from the end of await hydrateState().                           *)
(***************************************************************************)
Reply(r, status) == reqs' = [reqs EXCEPT ![r].pc = status]

\* createInvoice
NewInvoice(e) == [endpoint |-> e, status |-> "pending", payer |-> Nothing]

challenge(r) ==
  /\ invoices' = [invoices EXCEPT ![r] = NewInvoice(Route[r])]
  /\ Reply(r, "402")

\* The init of the forwarded request: its body is awaited unless it has none.
Forward(r) == IF r \in Bodies THEN "body" ELSE "fetching"

Handling(r) == reqs[r].pc = "hydrating"

\* The store says whether the endpoint is registered.
HandleUnregistered(r) ==
  /\ Handling(r)
  /\ Reply(r, "404")
  /\ UNCHANGED <<invoices, calls>>

Presented(r) == reqs[r].receipt # Nothing /\ reqs[r].receipt.endpoint = Route[r]

HandleNoReceipt(r) ==
  /\ Handling(r)
  /\ ~Presented(r)
  /\ challenge(r)
  /\ UNCHANGED calls

HandleBadSignature(r) ==
  /\ Handling(r)
  /\ Presented(r)
  /\ reqs[r].receipt.kind = "forged"
  /\ Reply(r, "401")
  /\ UNCHANGED <<invoices, calls>>

Verified(r, kind) ==
  /\ Handling(r)
  /\ Presented(r)
  /\ reqs[r].receipt.kind = kind

\* The store says whether the subscription is there, the payer's and current.
HandleSubscription(r) ==
  /\ Verified(r, "subscription")
  /\ \/ challenge(r)
     \/ Reply(r, Forward(r)) /\ UNCHANGED invoices
  /\ UNCHANGED calls

\* Mutant: whoever holds the hash may spend the invoice.
AcceptsAnyone(inv, receipt) ==
  inv # Nothing /\ inv.endpoint = receipt.endpoint /\ inv.status = "paid"

Accepts(inv, receipt) ==
  /\ inv # Nothing
  /\ inv.endpoint = receipt.endpoint
  /\ inv.status = "paid"
  /\ inv.payer = receipt.payer

\* Mutant: the invoice stays paid.
Unconsumed == "paid"

Consumed == "consumed"

HandlePayment(r) ==
  LET h == reqs[r].receipt.invoice IN
  /\ Verified(r, "payment")
  /\ \/ /\ ~Accepts(invoices[h], reqs[r].receipt)
        /\ challenge(r)
     \/ /\ Accepts(invoices[h], reqs[r].receipt)
        /\ invoices' = [invoices EXCEPT ![h].status = Consumed]
        /\ reqs' = [reqs EXCEPT ![r] = [pc |-> Forward(r), receipt |-> @.receipt, spent |-> h]]
  /\ UNCHANGED calls

-------------------------------------------------------------------------------
(***************************************************************************)
(* The forwarded request.  Only the fetch is guarded: a body that breaks   *)
(* off, the client's or the upstream's, leaves the handler by an exception.*)
(***************************************************************************)
BodyRead(r) ==
  /\ reqs[r].pc = "body"
  /\ Reply(r, "fetching")
  /\ UNCHANGED <<invoices, calls>>

UpstreamAnswers(r) ==
  /\ reqs[r].pc = "fetching"
  /\ Reply(r, "reading")
  /\ UNCHANGED <<invoices, calls>>

\* Mutant: a call is metered although it failed.
Metered(e) == [calls EXCEPT ![e] = @ + 1]

Unmetered(e) == calls

UpstreamFails(r) ==
  /\ reqs[r].pc = "fetching"
  /\ Reply(r, "502")
  /\ calls' = Unmetered(Route[r])
  /\ UNCHANGED <<invoices>>

\* Mutant: an answer that breaks off is fetched again.
FetchAgain(r) == IF reqs[r].pc = "reading" THEN "fetching" ELSE "500"

BrokenOff(r) == "500"

BodyFails(r) ==
  /\ reqs[r].pc \in {"body", "reading"}
  /\ Reply(r, BrokenOff(r))
  /\ UNCHANGED <<invoices, calls>>

Serve(r) ==
  /\ reqs[r].pc = "reading"
  /\ Reply(r, "served")
  /\ calls' = [calls EXCEPT ![Route[r]] = @ + 1]
  /\ UNCHANGED <<invoices>>

-------------------------------------------------------------------------------
StoreSteps ==
  \E h \in Request : Expire(h) \/ Forget(h) \/ \E p \in Payer : Settle(h, p)

Client ==
  \E r \in Request, receipt \in Receipt \union {Nothing} :
    Quotable(receipt) /\ Send(r, receipt)

handle(r) ==
  \/ HandleUnregistered(r)
  \/ HandleNoReceipt(r)
  \/ HandleBadSignature(r)
  \/ HandleSubscription(r)
  \/ HandlePayment(r)
  \/ BodyRead(r)
  \/ UpstreamAnswers(r)
  \/ UpstreamFails(r)
  \/ BodyFails(r)
  \/ Serve(r)

HostedNext == StoreSteps \/ Client \/ \E r \in Request : handle(r)

HostedSpec == HostedInit /\ [][HostedNext]_hostedVars

\* The event loop runs each handler on; the awaited calls end.
FairHostedSpec == HostedSpec /\ \A r \in Request : WF_hostedVars(handle(r))

-------------------------------------------------------------------------------
(***************************************************************************)
(* A consumed invoice is one call and one call only: the handler that      *)
(* consumed it forwarded a receipt of its own payer for its own endpoint.  *)
(* A challenge, a settlement or an expiry in between must not disturb it.  *)
(***************************************************************************)
SpentBy(r, h) ==
  /\ reqs[r].spent = h
  /\ reqs[r].receipt # Nothing
  /\ reqs[r].receipt.payer = invoices[h].payer
  /\ Route[r] = invoices[h].endpoint

ConsumedByPayer ==
  \A h \in Request :
    invoices[h] # Nothing /\ invoices[h].status = "consumed" =>
      \E r \in Request : SpentBy(r, h) /\ \A q \in Request \ {r} : reqs[q].spent # h

(***************************************************************************)
(* The provider's count of an endpoint is the number of calls it served:   *)
(* handlers that overlap lose no count, and calls that failed upstream are *)
(* not counted (line 173).                                                 *)
(***************************************************************************)
MeterIsExact ==
  \A e \in Endpoint : calls[e] = Cardinality({r \in Request : reqs[r].pc = "served" /\ Route[r] = e})

(***************************************************************************)
(* Every request is answered, whatever the body and the upstream do.       *)
(***************************************************************************)
EveryRequestAnswered ==
  \A r \in Request : reqs[r].pc = "hydrating" ~> reqs[r].pc \in Answered

(***************************************************************************)
(* The gateway's promise: a call spends a payment nobody else has spent,   *)
(* the invoice its payer settled.                                          *)
(***************************************************************************)
SettledInvoices == {h \in Request : invoices[h] # Nothing /\ invoices[h].status \in {"paid", "consumed"}}

Promise == INSTANCE PayPerCall WITH
  Calls <- Request, Payments <- Request, Unspent <- Nothing,
  paid <- SettledInvoices, spent <- [r \in Request |-> reqs[r].spent]

ImplementsPayPerCall == Promise!Spec
===============================================================================
