------------------------------ MODULE HostedProofs ------------------------------
(***************************************************************************)
(* Proofs about HostedGateway: its types, what a consumed invoice stands   *)
(* for, the meter, and that it implements PayPerCall.                      *)
(***************************************************************************)
EXTENDS HostedGateway, FiniteSetTheorems, TLAPS

(***************************************************************************)
(* The inductive invariant.                                                *)
(***************************************************************************)

\* An invoice is drawn by the answer of its request, and by nothing before.
Drawn == \A r \in Request : reqs[r].pc # "402" => invoices[r] = Nothing

\* A handler that has not looked at its receipt has spent nothing; one that did had one.
SpentLate ==
  \A r \in Request : /\ reqs[r].pc \in {"idle", "hydrating"} => reqs[r].spent = Nothing
                     /\ reqs[r].spent # Nothing => reqs[r].receipt # Nothing

\* What a call spent is a consumed invoice of its own payer and endpoint.
SpentConsumed ==
  \A r, h \in Request : reqs[r].spent = h =>
    /\ invoices[h] # Nothing
    /\ invoices[h].status = "consumed"
    /\ reqs[r].receipt.payer = invoices[h].payer
    /\ Route[r] = invoices[h].endpoint

\* No invoice is spent twice.
SpentOnce ==
  \A q, r \in Request : q # r /\ reqs[q].spent # Nothing => reqs[q].spent # reqs[r].spent

\* A consumed invoice was spent.
ConsumedSpent ==
  \A h \in Request : invoices[h] # Nothing /\ invoices[h].status = "consumed" =>
    \E r \in Request : reqs[r].spent = h

IInv == HostedTypeOK /\ Drawn /\ SpentLate /\ SpentConsumed /\ SpentOnce /\ ConsumedSpent

-------------------------------------------------------------------------------
\* A step of the store keeps the invariant: it touches neither consumed invoices nor calls.
LEMMA StoreStep ==
  ASSUME IInv, NEW h \in Request, Expire(h) \/ Forget(h) \/ \E p \in Payer : Settle(h, p)
  PROVE  IInv' /\ UNCHANGED <<reqs, calls>>
<1>1. PICK x \in Invoice \union {Nothing} :
        /\ invoices' = [invoices EXCEPT ![h] = x]
        /\ invoices[h] # Nothing /\ invoices[h].status # "consumed"
        /\ x # Nothing => x.status # "consumed"
  <2>1. invoices[h] \in Invoice \union {Nothing}
    BY DEF IInv, HostedTypeOK
  <2>2. CASE Expire(h)
    <3>1. /\ [invoices[h] EXCEPT !.status = "expired"] \in Invoice
          /\ invoices' = [invoices EXCEPT ![h] = [invoices[h] EXCEPT !.status = "expired"]]
          /\ [invoices[h] EXCEPT !.status = "expired"].status = "expired"
      BY <2>1, <2>2 DEF Expire, Invoice
    <3> QED BY <2>2, <3>1 DEF Expire
  <2>3. CASE Forget(h)
    BY <2>3 DEF Forget
  <2>4. ASSUME NEW p \in Payer, Settle(h, p)
        PROVE  \E x \in Invoice : /\ invoices' = [invoices EXCEPT ![h] = x]
                                  /\ x.status = "paid"
    <3> DEFINE x == [endpoint |-> invoices[h].endpoint, status |-> "paid", payer |-> p]
    <3>1. x \in Invoice /\ x.status = "paid"
      BY <2>1, <2>4 DEF Settle, Invoice
    <3>2. invoices' = [invoices EXCEPT ![h] = x]
      BY <2>1, <2>4 DEF Settle, Invoice, IInv, HostedTypeOK
    <3> QED BY <3>1, <3>2
  <2> QED BY <2>2, <2>3, <2>4 DEF Settle
<1>2. UNCHANGED <<reqs, calls>>
  BY DEF Expire, Forget, Settle
<1>3. \A g \in Request : /\ g # h => invoices'[g] = invoices[g]
                         /\ invoices'[h] = x
  BY <1>1 DEF IInv, HostedTypeOK
<1>4. \A r \in Request : reqs[r].spent # h
  BY <1>1 DEF IInv, SpentConsumed
<1>5. HostedTypeOK'
  BY <1>1, <1>2 DEF IInv, HostedTypeOK
<1>6. Drawn'
  BY <1>1, <1>2, <1>3 DEF IInv, Drawn
<1>7. SpentConsumed' /\ ConsumedSpent'
  BY <1>1, <1>2, <1>3, <1>4 DEF IInv, SpentConsumed, ConsumedSpent
<1>8. SpentLate' /\ SpentOnce'
  BY <1>2 DEF IInv, SpentLate, SpentOnce
<1> QED BY <1>2, <1>5, <1>6, <1>7, <1>8 DEF IInv

\* So does a step of a handler that spends nothing: it waits or answers, and at
\* most draws an invoice.
LEMMA QuietStep ==
  ASSUME IInv, NEW r \in Request, NEW q \in Activation,
         reqs' = [reqs EXCEPT ![r] = q], calls' \in [Endpoint -> Nat],
         reqs[r].pc # "402", q.pc \notin {"idle"}, q.pc = "hydrating" => q.spent = Nothing,
         q.spent = reqs[r].spent,
         q.receipt = reqs[r].receipt \/ q.spent = Nothing,
         \/ invoices' = invoices
         \/ q.pc = "402" /\ invoices' = [invoices EXCEPT ![r] = NewInvoice(Route[r])]
  PROVE  IInv'
<1>1. \A s \in Request : s # r => reqs'[s] = reqs[s]
  BY DEF IInv, HostedTypeOK
<1>2. reqs'[r] = q
  BY DEF IInv, HostedTypeOK
<1>3. \A s \in Request : reqs'[s].spent = reqs[s].spent
  BY <1>1, <1>2
<1>4. NewInvoice(Route[r]) \in Invoice /\ NewInvoice(Route[r]).status = "pending"
  BY HostedAssumption DEF NewInvoice, Invoice
<1>5. invoices[r] = Nothing
  BY DEF IInv, Drawn
<1>6. \A h \in Request : invoices'[h] = invoices[h] \/ (h = r /\ q.pc = "402" /\ invoices'[h] = NewInvoice(Route[r]))
  BY DEF IInv, HostedTypeOK
<1>7. HostedTypeOK'
  BY <1>4 DEF IInv, HostedTypeOK
<1>8. Drawn'
  BY <1>1, <1>2, <1>5, <1>6 DEF IInv, Drawn
<1>9. SpentLate'
  BY <1>1, <1>2, <1>3 DEF IInv, SpentLate
<1>10. \A s, h \in Request : reqs[s].spent = h => invoices'[h] = invoices[h]
  BY <1>5, <1>6 DEF IInv, SpentConsumed
<1>11. SpentConsumed'
  <2> SUFFICES ASSUME NEW s \in Request, NEW h \in Request, reqs'[s].spent = h
               PROVE  /\ invoices'[h] # Nothing
                      /\ invoices'[h].status = "consumed"
                      /\ reqs'[s].receipt.payer = invoices'[h].payer
                      /\ Route[s] = invoices'[h].endpoint
    BY DEF SpentConsumed
  <2>1. reqs[s].spent = h /\ invoices'[h] = invoices[h]
    BY <1>3, <1>10
  <2>2. reqs'[s].receipt = reqs[s].receipt
    BY <1>1, <1>2, <2>1, HostedAssumption
  <2> QED BY <2>1, <2>2 DEF IInv, SpentConsumed
<1>12. SpentOnce'
  BY <1>3 DEF IInv, SpentOnce
<1>13. ConsumedSpent'
  BY <1>3, <1>4, <1>6 DEF IInv, ConsumedSpent
<1> QED BY <1>7, <1>8, <1>9, <1>11, <1>12, <1>13 DEF IInv

\* And so does the step that spends an invoice.
LEMMA SpendStep ==
  ASSUME IInv, NEW r \in Request, NEW h \in Request, calls' = calls,
         reqs[r].pc = "hydrating", reqs[r].receipt # Nothing, reqs[r].receipt.endpoint = Route[r],
         Accepts(invoices[h], reqs[r].receipt),
         invoices' = [invoices EXCEPT ![h].status = "consumed"],
         reqs' = [reqs EXCEPT ![r] = [pc |-> Forward(r), receipt |-> @.receipt, spent |-> h]]
  PROVE  IInv'
<1> DEFINE i == [invoices[h] EXCEPT !.status = "consumed"]
           q == [pc |-> Forward(r), receipt |-> reqs[r].receipt, spent |-> h]
<1>1. invoices[h] \in Invoice /\ invoices[h].status = "paid" /\ invoices[h].payer = reqs[r].receipt.payer
      /\ invoices[h].endpoint = Route[r]
  BY DEF Accepts, IInv, HostedTypeOK
<1>2. /\ i \in Invoice /\ i.status = "consumed"
      /\ i.payer = reqs[r].receipt.payer /\ i.endpoint = Route[r]
  BY <1>1 DEF Invoice
<1>3. invoices' = [invoices EXCEPT ![h] = i]
  OBVIOUS
<1>4. /\ q \in Activation /\ q.spent = h /\ q.receipt = reqs[r].receipt
      /\ q.pc \in {"body", "fetching"}
  BY DEF IInv, HostedTypeOK, Activation, Forward, Waiting
<1>5. reqs' = [reqs EXCEPT ![r] = q]
  OBVIOUS
<1> HIDE DEF i, q
<1>6. i # Nothing
  BY <1>2, HostedAssumption
<1>7. /\ \A g \in Request : g # h => invoices'[g] = invoices[g]
      /\ invoices'[h] = i
  BY <1>3 DEF IInv, HostedTypeOK
<1>8. /\ \A s \in Request : s # r => reqs'[s] = reqs[s]
      /\ reqs'[r] = q
  BY <1>5 DEF IInv, HostedTypeOK
<1>9. reqs[r].spent = Nothing /\ \A s \in Request : reqs[s].spent # h
  BY <1>1 DEF IInv, SpentLate, SpentConsumed
<1>10. invoices[h] # Nothing /\ h # Nothing
  BY <1>1, HostedAssumption
<1>11. HostedTypeOK'
  BY <1>2, <1>3, <1>4, <1>5 DEF IInv, HostedTypeOK
<1>12. Drawn'
  <2>1. reqs[h].pc = "402" /\ h # r
    BY <1>10 DEF IInv, Drawn
  <2> QED BY <1>7, <1>8, <2>1 DEF IInv, Drawn
<1>13. SpentLate'
  BY <1>4, <1>8 DEF IInv, SpentLate
<1>14. SpentConsumed'
  <2> SUFFICES ASSUME NEW s \in Request, NEW g \in Request, reqs'[s].spent = g
               PROVE  /\ invoices'[g] # Nothing
                      /\ invoices'[g].status = "consumed"
                      /\ reqs'[s].receipt.payer = invoices'[g].payer
                      /\ Route[s] = invoices'[g].endpoint
    BY DEF SpentConsumed
  <2>1. CASE s = r
    <3>1. g = h
      BY <1>4, <1>8, <2>1
    <3>2. invoices'[g] = i /\ reqs'[s] = q
      BY <1>7, <1>8, <2>1, <3>1
    <3>3. q.receipt.payer = i.payer /\ Route[s] = i.endpoint
      BY <1>2, <1>4, <2>1
    <3> QED BY <1>2, <1>6, <3>2, <3>3
  <2>2. CASE s # r
    <3>1. reqs[s].spent = g /\ reqs'[s] = reqs[s]
      BY <1>8, <2>2
    <3>2. g # h
      BY <1>9, <3>1
    <3>3. invoices'[g] = invoices[g]
      BY <1>7, <3>2
    <3> QED BY <3>1, <3>3 DEF IInv, SpentConsumed
  <2> QED BY <2>1, <2>2
<1>15. SpentOnce'
  BY <1>4, <1>8, <1>9 DEF IInv, SpentOnce
<1>16. ConsumedSpent'
  <2> SUFFICES ASSUME NEW g \in Request, invoices'[g] # Nothing, invoices'[g].status = "consumed"
               PROVE  \E s \in Request : reqs'[s].spent = g
    BY DEF ConsumedSpent
  <2>1. CASE g = h
    BY <1>4, <1>8, <2>1
  <2>2. CASE g # h
    <3>1. PICK s \in Request : reqs[s].spent = g
      BY <1>7, <2>2 DEF IInv, ConsumedSpent
    <3>2. s # r
      BY <1>9, <3>1, HostedAssumption
    <3> QED BY <1>8, <3>1, <3>2
  <2> QED BY <2>1, <2>2
<1> QED BY <1>11, <1>12, <1>13, <1>14, <1>15, <1>16 DEF IInv

\* What one step of a handler or a client does to the calls: it answers or waits
\* with what it had, or spends an invoice its receipt pays for.
Quiet(r) ==
  \E q \in Activation :
    /\ reqs' = [reqs EXCEPT ![r] = q]
    /\ reqs[r].pc # "402" /\ q.pc # "idle" /\ (q.pc = "hydrating" => q.spent = Nothing)
    /\ q.spent = reqs[r].spent
    /\ q.receipt = reqs[r].receipt \/ q.spent = Nothing
    /\ \/ invoices' = invoices
       \/ q.pc = "402" /\ invoices' = [invoices EXCEPT ![r] = NewInvoice(Route[r])]

Spends(r, h) ==
  /\ reqs[r].pc = "hydrating" /\ reqs[r].receipt # Nothing /\ reqs[r].receipt.endpoint = Route[r]
  /\ Accepts(invoices[h], reqs[r].receipt)
  /\ invoices' = [invoices EXCEPT ![h].status = "consumed"]
  /\ reqs' = [reqs EXCEPT ![r] = [pc |-> Forward(r), receipt |-> @.receipt, spent |-> h]]
  /\ calls' = calls

\* A reply is a quiet step.
LEMMA ReplyQuiet ==
  ASSUME IInv, NEW r \in Request, reqs[r].pc \in Waiting, NEW a \in (Waiting \union Answered) \ {"hydrating"},
         Reply(r, a),
         \/ invoices' = invoices
         \/ a = "402" /\ invoices' = [invoices EXCEPT ![r] = NewInvoice(Route[r])]
  PROVE  Quiet(r)
<1> DEFINE q == [reqs[r] EXCEPT !.pc = a]
<1>1. /\ q \in Activation /\ q.pc = a /\ q.spent = reqs[r].spent /\ q.receipt = reqs[r].receipt
  BY DEF IInv, HostedTypeOK, Activation
<1>2. reqs' = [reqs EXCEPT ![r] = q]
  BY DEF Reply
<1>3. a \notin {"idle", "hydrating"} /\ reqs[r].pc # "402"
  BY DEF Waiting, Answered
<1> HIDE DEF q
<1> QED BY <1>1, <1>2, <1>3 DEF Quiet

\* Every step of a handler is quiet, or spends.
LEMMA HandlerStep ==
  ASSUME IInv, NEW r \in Request, handle(r)
  PROVE  /\ Quiet(r) \/ \E h \in Request : Spends(r, h)
         /\ calls' \in [Endpoint -> Nat]
<1>1. calls' \in [Endpoint -> Nat]
  BY DEF handle, HandleUnregistered, HandleNoReceipt, HandleBadSignature, HandleSubscription, HandlePayment,
     BodyRead, UpstreamAnswers, UpstreamFails, Unmetered, BodyFails, Serve, IInv, HostedTypeOK
<1>2. Forward(r) \in (Waiting \union Answered) \ {"hydrating"}
  BY DEF Forward, Waiting, Answered
<1>3. CASE HandleUnregistered(r) \/ HandleBadSignature(r) \/ HandleNoReceipt(r) \/ HandleSubscription(r)
  <2>1. /\ reqs[r].pc \in Waiting
        /\ \/ (Reply(r, "404") \/ Reply(r, "401") \/ Reply(r, Forward(r))) /\ invoices' = invoices
           \/ Reply(r, "402") /\ invoices' = [invoices EXCEPT ![r] = NewInvoice(Route[r])]
    BY <1>3 DEF HandleUnregistered, HandleBadSignature, HandleNoReceipt, HandleSubscription, Verified, Handling,
       challenge, Waiting
  <2> QED BY <1>1, <1>2, <2>1, ReplyQuiet DEF Waiting, Answered
<1>4. CASE HandlePayment(r)
  <2>1. CASE challenge(r)
    <3>1. reqs[r].pc \in Waiting
      BY <1>4 DEF HandlePayment, Verified, Handling, Waiting
    <3> QED BY <1>1, <2>1, <3>1, ReplyQuiet DEF challenge, Waiting, Answered
  <2>2. CASE ~challenge(r)
    <3> DEFINE h == reqs[r].receipt.invoice
    <3>1. /\ reqs[r].pc = "hydrating" /\ reqs[r].receipt # Nothing
          /\ reqs[r].receipt.endpoint = Route[r] /\ reqs[r].receipt.kind = "payment"
      BY <1>4 DEF HandlePayment, Verified, Handling, Presented
    <3>2. h \in Request
      BY <3>1 DEF IInv, HostedTypeOK, Activation, Receipt
    <3>3. /\ Accepts(invoices[h], reqs[r].receipt)
          /\ invoices' = [invoices EXCEPT ![h].status = "consumed"]
          /\ reqs' = [reqs EXCEPT ![r] = [pc |-> Forward(r), receipt |-> @.receipt, spent |-> h]]
          /\ calls' = calls
      BY <1>4, <2>2 DEF HandlePayment, Consumed
    <3> HIDE DEF h
    <3> QED BY <1>1, <3>1, <3>2, <3>3 DEF Spends
  <2> QED BY <2>1, <2>2
<1>5. CASE BodyRead(r) \/ UpstreamAnswers(r) \/ UpstreamFails(r) \/ BodyFails(r) \/ Serve(r)
  <2>1. /\ reqs[r].pc \in Waiting /\ invoices' = invoices
        /\ \E a \in {"fetching", "reading", "502", "500", "served"} : Reply(r, a)
    BY <1>5 DEF BodyRead, UpstreamAnswers, UpstreamFails, BodyFails, BrokenOff, Serve, Waiting
  <2> QED BY <1>1, <2>1, ReplyQuiet DEF Waiting, Answered
<1> QED BY <1>3, <1>4, <1>5 DEF handle

\* So is a client's step.
LEMMA SendQuiet ==
  ASSUME IInv, NEW r \in Request, NEW receipt \in Receipt \union {Nothing}, Send(r, receipt)
  PROVE  Quiet(r) /\ UNCHANGED calls
<1> DEFINE q == [pc |-> "hydrating", receipt |-> receipt, spent |-> Nothing]
<1>1. /\ q \in Activation /\ q.spent = reqs[r].spent /\ q.pc = "hydrating" /\ q.spent = Nothing
      /\ reqs[r].pc = "idle"
  BY DEF Send, IInv, SpentLate, Activation, Waiting
<1>2. reqs' = [reqs EXCEPT ![r] = q] /\ UNCHANGED <<invoices, calls>>
  BY DEF Send
<1> HIDE DEF q
<1> QED BY <1>1, <1>2 DEF Quiet

\* The invariant is inductive.
LEMMA InvariantStep == IInv /\ [HostedNext]_hostedVars => IInv'
<1> SUFFICES ASSUME IInv, [HostedNext]_hostedVars PROVE IInv'
  OBVIOUS
<1>1. ASSUME NEW r \in Request, Quiet(r), calls' \in [Endpoint -> Nat] PROVE IInv'
  BY <1>1, QuietStep DEF Quiet
<1>2. ASSUME NEW r \in Request, NEW h \in Request, Spends(r, h) PROVE IInv'
  BY <1>2, SpendStep DEF Spends
<1>3. CASE StoreSteps
  BY <1>3, StoreStep DEF StoreSteps
<1>4. CASE Client
  BY <1>1, <1>4, SendQuiet DEF Client, IInv, HostedTypeOK
<1>5. ASSUME NEW r \in Request, handle(r) PROVE IInv'
  BY <1>1, <1>2, <1>5, HandlerStep
<1>6. CASE UNCHANGED hostedVars
  BY <1>6 DEF hostedVars, IInv, HostedTypeOK, Drawn, SpentLate, SpentConsumed, SpentOnce, ConsumedSpent
<1> QED BY <1>3, <1>4, <1>5, <1>6 DEF HostedNext

LEMMA InitInvariant == HostedInit => IInv
<1> SUFFICES ASSUME HostedInit PROVE IInv
  OBVIOUS
<1>1. HostedTypeOK
  BY DEF HostedInit, HostedTypeOK, Idle, Activation
<1>2. \A r \in Request : reqs[r] = Idle /\ invoices[r] = Nothing
  BY DEF HostedInit
<1>3. Drawn /\ SpentLate /\ SpentConsumed /\ SpentOnce /\ ConsumedSpent
  BY <1>2, HostedAssumption DEF Idle, Drawn, SpentLate, SpentConsumed, SpentOnce, ConsumedSpent
<1> QED BY <1>1, <1>3 DEF IInv

\* What the handler's checks rest on, in every reachable state.
THEOREM Invariance == HostedSpec => []IInv
BY InitInvariant, InvariantStep, PTL DEF HostedSpec

(***************************************************************************)
(* Every variable keeps its type.                                          *)
(***************************************************************************)
THEOREM TypeCorrect == HostedSpec => []HostedTypeOK
<1>1. IInv => HostedTypeOK
  BY DEF IInv
<1> QED BY <1>1, Invariance, PTL

(***************************************************************************)
(* A consumed invoice is exactly one call, made by its payer at its        *)
(* endpoint, for any number of competing requests.                         *)
(***************************************************************************)
THEOREM ConsumedOnce == HostedSpec => []ConsumedByPayer
<1>1. IInv => ConsumedByPayer
  <2> SUFFICES ASSUME IInv, NEW h \in Request, invoices[h] # Nothing, invoices[h].status = "consumed"
               PROVE  \E r \in Request : SpentBy(r, h) /\ \A q \in Request \ {r} : reqs[q].spent # h
    BY DEF ConsumedByPayer
  <2>1. PICK r \in Request : reqs[r].spent = h
    BY DEF IInv, ConsumedSpent
  <2>2. h # Nothing
    BY HostedAssumption
  <2>3. SpentBy(r, h)
    BY <2>1, <2>2 DEF IInv, SpentConsumed, SpentLate, SpentBy
  <2>4. \A q \in Request \ {r} : reqs[q].spent # h
    BY <2>1, <2>2 DEF IInv, SpentOnce
  <2> QED BY <2>3, <2>4
<1> QED BY <1>1, Invariance, PTL

-------------------------------------------------------------------------------
\* The refinement mapping.
Spent == [r \in Request |-> reqs[r].spent]

\* The store's steps are payments or stutter.
LEMMA StorePromise ==
  ASSUME IInv, NEW h \in Request, Expire(h) \/ Forget(h) \/ \E p \in Payer : Settle(h, p)
  PROVE  Spent' = Spent /\ (SettledInvoices' = SettledInvoices \/ (h \notin SettledInvoices /\ SettledInvoices' = SettledInvoices \union {h}))
<1>1. Spent' = Spent
  BY DEF Expire, Forget, Settle, Spent
<1>2. \A g \in Request : g # h => invoices'[g] = invoices[g]
  BY DEF Expire, Forget, Settle, IInv, HostedTypeOK
<1>3. h \notin SettledInvoices
  BY DEF Expire, Forget, Settle, SettledInvoices
<1>4. \A g \in Request : g # h => (g \in SettledInvoices' <=> g \in SettledInvoices)
  BY <1>2 DEF SettledInvoices
<1>5. SettledInvoices \subseteq Request /\ SettledInvoices' \subseteq Request
  BY DEF SettledInvoices
<1>6. CASE h \in SettledInvoices'
  BY <1>1, <1>3, <1>4, <1>5, <1>6
<1>7. CASE h \notin SettledInvoices'
  BY <1>1, <1>3, <1>4, <1>5, <1>7
<1> QED BY <1>6, <1>7

\* A quiet step changes nothing of the promise.
LEMMA QuietPromise ==
  ASSUME IInv, NEW r \in Request, Quiet(r)
  PROVE  Spent' = Spent /\ SettledInvoices' = SettledInvoices
<1>1. PICK q \in Activation :
        /\ reqs' = [reqs EXCEPT ![r] = q]
        /\ reqs[r].pc # "402"
        /\ q.spent = reqs[r].spent
        /\ \/ invoices' = invoices
           \/ invoices' = [invoices EXCEPT ![r] = NewInvoice(Route[r])]
  BY DEF Quiet
<1>2. \A s \in Request : reqs'[s].spent = reqs[s].spent
  BY <1>1 DEF IInv, HostedTypeOK
<1>3. invoices[r] = Nothing
  BY <1>1 DEF IInv, Drawn
<1>4. NewInvoice(Route[r]).status = "pending"
  BY DEF NewInvoice
<1>5. \A h \in Request : h \in SettledInvoices' <=> h \in SettledInvoices
  BY <1>1, <1>3, <1>4 DEF SettledInvoices, IInv, HostedTypeOK
<1>6. SettledInvoices' = SettledInvoices
  BY <1>5 DEF SettledInvoices
<1> QED BY <1>2, <1>6 DEF Spent

\* The step that spends is a call served on a settled invoice nobody spent.
LEMMA SpendPromise ==
  ASSUME IInv, NEW r \in Request, NEW h \in Request, Spends(r, h)
  PROVE  Promise!Serve(r, h)
<1>1. invoices[h] # Nothing /\ invoices[h].status = "paid"
  BY DEF Spends, Accepts
<1>2. h \in SettledInvoices
  BY <1>1 DEF SettledInvoices
<1>3. Spent[r] = Nothing /\ \A s \in Request : Spent[s] # h
  BY <1>1 DEF Spends, IInv, SpentLate, SpentConsumed, Spent
<1>4. /\ \A s \in Request : s # r => reqs'[s] = reqs[s]
      /\ reqs'[r].spent = h
  BY DEF Spends, IInv, HostedTypeOK
<1>5. Spent' = [Spent EXCEPT ![r] = h]
  BY <1>4 DEF Spent
<1>6. SettledInvoices' = SettledInvoices
  <2>1. \A g \in Request : g # h => invoices'[g] = invoices[g]
    BY DEF Spends, IInv, HostedTypeOK
  <2>2. invoices[h] \in Invoice
    BY <1>1 DEF IInv, HostedTypeOK
  <2>3. invoices'[h] = [invoices[h] EXCEPT !.status = "consumed"]
    BY DEF Spends, IInv, HostedTypeOK
  <2>4. /\ [invoices[h] EXCEPT !.status = "consumed"] \in Invoice
        /\ [invoices[h] EXCEPT !.status = "consumed"].status = "consumed"
    BY <2>2 DEF Invoice
  <2>5. invoices'[h] # Nothing /\ invoices'[h].status = "consumed"
    BY <2>3, <2>4, HostedAssumption
  <2> QED BY <1>2, <2>1, <2>5 DEF SettledInvoices
<1> QED BY <1>2, <1>3, <1>5, <1>6 DEF Promise!Serve, Spent

(***************************************************************************)
(* The hosted gateway keeps the promise of PayPerCall, in every            *)
(* deployment: a call spends a settled invoice that no other call spent.   *)
(***************************************************************************)
THEOREM Refinement == HostedSpec => ImplementsPayPerCall
<1>1. HostedInit => Promise!Init
  <2> SUFFICES ASSUME HostedInit PROVE Promise!Init
    OBVIOUS
  <2>1. SettledInvoices = {}
    BY DEF HostedInit, SettledInvoices
  <2>2. Spent = [r \in Request |-> Nothing]
    BY DEF HostedInit, Idle, Spent
  <2> QED BY <2>1, <2>2 DEF Promise!Init, Spent
<1>2. IInv /\ [HostedNext]_hostedVars => [Promise!Next]_(Promise!vars)
  <2> SUFFICES ASSUME IInv, [HostedNext]_hostedVars PROVE Promise!Next \/ (SettledInvoices' = SettledInvoices /\ Spent' = Spent)
    BY DEF Promise!vars, Spent
  <2>1. CASE StoreSteps
    <3>1. PICK h \in Request : Expire(h) \/ Forget(h) \/ \E p \in Payer : Settle(h, p)
      BY <2>1 DEF StoreSteps
    <3> QED BY <3>1, StorePromise DEF Promise!Next, Promise!Pay, Spent
  <2>2. CASE Client
    BY <2>2, SendQuiet, QuietPromise DEF Client
  <2>3. ASSUME NEW r \in Request, handle(r) PROVE Promise!Next \/ (SettledInvoices' = SettledInvoices /\ Spent' = Spent)
    <3>1. CASE Quiet(r)
      BY <3>1, QuietPromise
    <3>2. ASSUME NEW h \in Request, Spends(r, h) PROVE Promise!Next
      BY <3>2, SpendPromise DEF Promise!Next
    <3> QED BY <2>3, <3>1, <3>2, HandlerStep
  <2>4. CASE UNCHANGED hostedVars
    BY <2>4 DEF hostedVars, SettledInvoices, Spent
  <2> QED BY <2>1, <2>2, <2>3, <2>4 DEF HostedNext
<1> QED BY <1>1, <1>2, Invariance, PTL DEF HostedSpec, ImplementsPayPerCall, Promise!Spec

-------------------------------------------------------------------------------
\* The calls the meter of an endpoint stands for.
Served(e) == {r \in Request : reqs[r].pc = "served" /\ Route[r] = e}

\* A step that serves no call leaves the served calls alone.
LEMMA ServesNone ==
  ASSUME HostedTypeOK, NEW r \in Request, reqs[r].pc # "served", NEW q \in Activation,
         reqs' = [reqs EXCEPT ![r] = q], q.pc # "served", NEW e \in Endpoint
  PROVE  Served(e)' = Served(e)
<1>1. \A s \in Request : reqs'[s].pc = "served" <=> reqs[s].pc = "served"
  BY DEF HostedTypeOK
<1> QED BY <1>1 DEF Served

\* The meter moves with the served calls, in every step.
LEMMA MeterStep ==
  ASSUME IsFiniteSet(Request), IInv, MeterIsExact, [HostedNext]_hostedVars
  PROVE  MeterIsExact'
<1> SUFFICES ASSUME NEW e \in Endpoint PROVE calls'[e] = Cardinality(Served(e)')
  BY DEF MeterIsExact, Served
<1>1. calls[e] = Cardinality(Served(e))
  BY DEF MeterIsExact, Served
<1>2. HostedTypeOK
  BY DEF IInv
<1>3. ASSUME NEW r \in Request, NEW a \in {"body", "fetching", "reading", "404", "402", "401", "500", "502"},
             reqs[r].pc \in Waiting, Reply(r, a), calls' = calls
      PROVE  calls'[e] = Cardinality(Served(e)')
  <2> DEFINE q == [reqs[r] EXCEPT !.pc = a]
  <2>1. q \in Activation /\ q.pc # "served" /\ reqs[r].pc # "served"
    BY <1>2, <1>3 DEF HostedTypeOK, Activation, Waiting, Answered
  <2>2. reqs' = [reqs EXCEPT ![r] = q]
    BY <1>3 DEF Reply
  <2> HIDE DEF q
  <2> QED BY <1>1, <1>2, <1>3, <2>1, <2>2, ServesNone
<1>4. ASSUME NEW r \in Request, HandleUnregistered(r) \/ HandleBadSignature(r) \/ HandleNoReceipt(r)
                                  \/ HandleSubscription(r)
      PROVE  calls'[e] = Cardinality(Served(e)')
  <2>1. /\ reqs[r].pc \in Waiting /\ calls' = calls
        /\ \E a \in {"404", "401", "402", "body", "fetching"} : Reply(r, a)
    BY <1>4 DEF HandleUnregistered, HandleBadSignature, HandleNoReceipt, HandleSubscription, Verified, Handling,
       challenge, Forward, Waiting
  <2> QED BY <1>3, <2>1
<1>5. ASSUME NEW r \in Request, HandlePayment(r) PROVE calls'[e] = Cardinality(Served(e)')
  <2>1. reqs[r].pc \in Waiting /\ calls' = calls /\ reqs[r].pc # "served"
    BY <1>5 DEF HandlePayment, Verified, Handling, Waiting
  <2>2. CASE challenge(r)
    BY <1>3, <2>1, <2>2 DEF challenge
  <2>3. CASE ~challenge(r)
    <3>1. PICK q \in Activation : reqs' = [reqs EXCEPT ![r] = q] /\ q.pc # "served"
      <4> DEFINE q == [pc |-> Forward(r), receipt |-> reqs[r].receipt, spent |-> reqs[r].receipt.invoice]
      <4>1. reqs' = [reqs EXCEPT ![r] = q] /\ reqs[r].receipt # Nothing /\ reqs[r].receipt.kind = "payment"
        BY <1>5, <2>3 DEF HandlePayment, Verified, Presented
      <4>2. reqs[r].receipt.invoice \in Request
        BY <1>2, <4>1 DEF HostedTypeOK, Activation, Receipt
      <4>3. q \in Activation /\ q.pc # "served"
        BY <1>2, <4>2 DEF HostedTypeOK, Activation, Forward, Waiting
      <4> HIDE DEF q
      <4> QED BY <4>1, <4>3
    <3> QED BY <1>1, <1>2, <2>1, <3>1, ServesNone
  <2> QED BY <2>2, <2>3
<1>6. ASSUME NEW r \in Request, BodyRead(r) \/ UpstreamAnswers(r) \/ UpstreamFails(r) \/ BodyFails(r)
      PROVE  calls'[e] = Cardinality(Served(e)')
  <2>1. /\ reqs[r].pc \in Waiting /\ calls' = calls
        /\ \E a \in {"fetching", "reading", "502", "500"} : Reply(r, a)
    BY <1>6 DEF BodyRead, UpstreamAnswers, UpstreamFails, Unmetered, BodyFails, BrokenOff, Waiting
  <2> QED BY <1>3, <2>1
<1>7. ASSUME NEW r \in Request, Serve(r) PROVE calls'[e] = Cardinality(Served(e)')
  <2>1. /\ reqs[r].pc = "reading"
        /\ reqs'[r].pc = "served"
        /\ \A s \in Request : s # r => reqs'[s] = reqs[s]
    BY <1>2, <1>7 DEF Serve, Reply, HostedTypeOK, Activation
  <2>2. CASE Route[r] = e
    <3>1. Served(e)' = Served(e) \union {r} /\ r \notin Served(e)
      BY <2>1, <2>2 DEF Served
    <3>2. IsFiniteSet(Served(e))
      BY FS_Subset DEF Served
    <3>3. Cardinality(Served(e)') = Cardinality(Served(e)) + 1
      BY <3>1, <3>2, FS_AddElement
    <3>4. calls'[e] = calls[e] + 1
      BY <1>2, <1>7, <2>2 DEF Serve, HostedTypeOK
    <3> QED BY <1>1, <3>3, <3>4
  <2>3. CASE Route[r] # e
    <3>1. Served(e)' = Served(e)
      BY <2>1, <2>3 DEF Served
    <3>2. calls'[e] = calls[e]
      BY <1>2, <1>7, <2>3 DEF Serve, HostedTypeOK
    <3> QED BY <1>1, <3>1, <3>2
  <2> QED BY <2>2, <2>3
<1>8. CASE Client
  <2>1. PICK r \in Request, receipt \in Receipt \union {Nothing} : Send(r, receipt)
    BY <1>8 DEF Client
  <2>2. reqs[r].pc # "served" /\ calls' = calls
    BY <2>1 DEF Send
  <2>3. [pc |-> "hydrating", receipt |-> receipt, spent |-> Nothing] \in Activation
    BY DEF Activation, Waiting
  <2>4. [pc |-> "hydrating", receipt |-> receipt, spent |-> Nothing].pc # "served"
    OBVIOUS
  <2>5. PICK q \in Activation : reqs' = [reqs EXCEPT ![r] = q] /\ q.pc # "served"
    BY <2>1, <2>3, <2>4 DEF Send
  <2> QED BY <1>1, <1>2, <2>2, <2>5, ServesNone
<1>9. CASE StoreSteps \/ UNCHANGED hostedVars
  <2>1. reqs' = reqs /\ calls' = calls
    BY <1>9 DEF StoreSteps, Expire, Forget, Settle, hostedVars
  <2> QED BY <1>1, <2>1 DEF Served
<1> QED BY <1>4, <1>5, <1>6, <1>7, <1>8, <1>9 DEF HostedNext, handle

(***************************************************************************)
(* The provider's count is exact, for any finite number of requests.       *)
(***************************************************************************)
THEOREM MeterExact ==
  ASSUME IsFiniteSet(Request)
  PROVE  HostedSpec => []MeterIsExact
<1>1. HostedInit => MeterIsExact
  <2> SUFFICES ASSUME HostedInit, NEW e \in Endpoint
               PROVE  calls[e] = Cardinality({r \in Request : reqs[r].pc = "served" /\ Route[r] = e})
    BY DEF MeterIsExact
  <2>1. {r \in Request : reqs[r].pc = "served" /\ Route[r] = e} = {}
    BY DEF HostedInit, Idle
  <2> QED BY <2>1, FS_EmptySet DEF HostedInit
<1>2. IInv /\ MeterIsExact /\ [HostedNext]_hostedVars => MeterIsExact'
  BY MeterStep
<1> QED BY <1>1, <1>2, Invariance, PTL DEF HostedSpec
================================================================================
