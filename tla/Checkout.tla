-------------------------------- MODULE Checkout --------------------------------
(***************************************************************************)
(* The checkout page (dashboard/components/checkout-panel.tsx): the        *)
(* invoice it asks for, the deposit address it shows, the event stream of  *)
(* its payment, and the payment through the injected wallet.               *)
(*                                                                         *)
(* An effect runs after a render whose dependencies changed; the cleanup   *)
(* of its last run clears that run's flag `active` (`mounted`).  What a    *)
(* handler has read before an await is as old as the render in which it    *)
(* was clicked.  The routes' records are those of TopupStore; here one is  *)
(* finished once it has been, though a stale save or a crash may take the  *)
(* file back, which is TopupStore's.  Wording, rates and the choice of the *)
(* panel are left out.                                                     *)
(***************************************************************************)
EXTENDS Naturals, FiniteSets

CONSTANTS
  Assets,
  SYN,           \* the native asset
  Networks,
  networks,      \* networks[x]: those of asset x
  firstNetwork,  \* selectedAsset.networks[0]
  Amounts,
  Ids,           \* invoices, each drawn by one run of initInvoice
  Null,          \* no invoice, no order, no address
  MaxLookups     \* bound of the model: lookups under way

Order == [amount : Amounts, asset : Assets]

ASSUME CheckoutAssumption ==
  /\ SYN \in Assets /\ MaxLookups \in Nat
  /\ networks \in [Assets -> SUBSET Networks]
  /\ firstNetwork \in [Assets -> Networks]
  /\ \A x \in Assets : firstNetwork[x] \in networks[x]
  /\ Null \notin Ids \union Order \union (Assets \X Networks)

VARIABLES
  order,      \* amountUsd and selectedAsset
  network,    \* selectedNetwork
  paymentId,
  status,
  loading,
  runs,       \* runs[i]: the run of initInvoice that draws invoice i
  records,    \* records[i]: the routes' record of invoice i
  lookups,    \* the runs of fetchDepositAddr under way
  deposit,    \* dynamicAddress: asset and network it belongs to
  payment,    \* processWeb4Payment
  reordered,  \* history: the order changed after the invoice was set, or the URL set it
  missed      \* history: no address came for the selected asset and network

checkoutVars == <<order, network, paymentId, status, loading, runs, records,
                  lookups, deposit, payment, reordered, missed>>

Run == [pc : {"idle", "asking", "over"}, active : BOOLEAN, order : Order \union {Null}]

Invoice == [status : {"none", "pending", "finished"}, order : Order \union {Null}]

Lookup == [asset : Assets, network : Networks, mounted : BOOLEAN]

Payment == [pc : {"idle", "wallet", "confirming", "confirmed", "refused"},
            id : Ids \union {Null}, order : Order \union {Null}]

CheckoutTypeOK ==
  /\ order \in Order /\ network \in Networks
  /\ paymentId \in Ids \union {Null}
  /\ status \in {"pending", "processing", "success", "error"}
  /\ loading \in BOOLEAN
  /\ runs \in [Ids -> Run]
  /\ records \in [Ids -> Invoice]
  /\ lookups \in SUBSET Lookup
  /\ deposit \in (Assets \X Networks) \union {Null}
  /\ payment \in Payment
  /\ reordered \in BOOLEAN /\ missed \in BOOLEAN

NoPayment == [pc |-> "idle", id |-> Null, order |-> Null]

NoRun == [pc |-> "idle", active |-> FALSE, order |-> Null]

\* The page after its first render: with an invoice from the URL, or asking for one.
CheckoutInit ==
  /\ order \in Order
  /\ network = firstNetwork[order.asset]
  /\ status = "pending" /\ loading = FALSE
  /\ \E i \in Ids :
       \/ /\ paymentId = i /\ reordered = TRUE
          /\ runs = [j \in Ids |-> IF j = i THEN [NoRun EXCEPT !.pc = "over"] ELSE NoRun]
          /\ \E o \in Order, st \in {"pending", "finished"} :
               records = [j \in Ids |-> IF j = i THEN [status |-> st, order |-> o]
                                                 ELSE [status |-> "none", order |-> Null]]
       \/ /\ paymentId = Null /\ reordered = FALSE
          /\ runs = [j \in Ids |->
                       IF j = i THEN [pc |-> "asking", active |-> TRUE, order |-> order] ELSE NoRun]
          /\ records = [j \in Ids |-> [status |-> "none", order |-> Null]]
  /\ lookups = {[asset |-> order.asset, network |-> network, mounted |-> TRUE]}
  /\ deposit = Null
  /\ payment = NoPayment
  /\ missed = FALSE

-------------------------------------------------------------------------------
(* Choosing. *)

\* The cleanup of initInvoice.
Inactive == [j \in Ids |-> [runs[j] EXCEPT !.active = FALSE]]

\* The choices are on the page until a success takes their place.
Choosing == status # "success"

\* The order becomes o: the last run is cleaned up, and a new one asks unless there is an invoice.
Reorder(o) ==
  /\ Choosing
  /\ o # order
  /\ order' = o
  /\ \/ /\ paymentId = Null
        /\ \E i \in Ids : /\ runs[i].pc = "idle"
                          /\ runs' = [Inactive EXCEPT ![i] = [pc |-> "asking", active |-> TRUE, order |-> o]]
        /\ UNCHANGED reordered
     \/ /\ paymentId # Null
        /\ runs' = Inactive
        /\ reordered' = TRUE
  /\ UNCHANGED <<paymentId, status, loading, records, deposit, payment>>

setAmountUsd(m) ==
  /\ Reorder([order EXCEPT !.amount = m])
  /\ UNCHANGED <<network, lookups, missed>>

\* The address of network n of asset x is looked up; what it replaces is no longer mounted.
fetchDepositAddr(x, n) ==
  /\ Cardinality(lookups) < MaxLookups
  /\ lookups' = {[l EXCEPT !.mounted = FALSE] : l \in lookups}
                  \union {[asset |-> x, network |-> n, mounted |-> TRUE]}
  /\ missed' = FALSE

setSelectedAsset(x) ==
  /\ Reorder([order EXCEPT !.asset = x])
  /\ network' = firstNetwork[x]
  /\ fetchDepositAddr(x, network')

setSelectedNetwork(n) ==
  /\ Choosing
  /\ n \in networks[order.asset] \ {network}
  /\ network' = n
  /\ fetchDepositAddr(order.asset, n)
  /\ UNCHANGED <<order, paymentId, status, loading, runs, records, deposit, payment, reordered>>

-------------------------------------------------------------------------------
(* The invoice. *)

\* POST /api/topup, at the route.
TopupCreated(i) ==
  /\ runs[i].pc = "asking" /\ records[i].status = "none"
  /\ records' = [records EXCEPT ![i] = [status |-> "pending", order |-> runs[i].order]]
  /\ UNCHANGED <<order, network, paymentId, status, loading, runs, lookups, deposit,
                 payment, reordered, missed>>

\* Mutant: the flag is not looked at.
AnyRun(i) == TRUE

Current(i) == runs[i].active

\* Its answer sets the invoice of the run that is current.
InvoiceAnswered(i) ==
  /\ runs[i].pc = "asking" /\ records[i].status # "none"
  /\ \/ /\ Current(i)
        /\ paymentId' = i
        /\ reordered' = (reordered /\ paymentId # Null)
        /\ runs' = [Inactive EXCEPT ![i].pc = "over"]
     \/ /\ ~Current(i)
        /\ runs' = [runs EXCEPT ![i].pc = "over"]
        /\ UNCHANGED <<paymentId, reordered>>
  /\ UNCHANGED <<order, network, status, loading, records, lookups, deposit, payment, missed>>

\* No invoice, or no answer: nothing asks again until the order changes.
InvoiceFails(i) ==
  /\ runs[i].pc = "asking"
  /\ runs' = [runs EXCEPT ![i].pc = "over"]
  /\ UNCHANGED <<order, network, paymentId, status, loading, records, lookups, deposit,
                 payment, reordered, missed>>

-------------------------------------------------------------------------------
(* The deposit address. *)

\* Mutant: an answer that comes late is shown.
Whatever(l) == TRUE

Mounted(l) == l.mounted

\* The address of the network if the exchange has it, or else its first one of the asset.
DepositAnswered(l) ==
  /\ lookups' = lookups \ {l}
  /\ IF Mounted(l)
     THEN \E n \in Networks : deposit' = <<l.asset, n>>
     ELSE UNCHANGED deposit
  /\ UNCHANGED <<order, network, paymentId, status, loading, runs, records, payment,
                 reordered, missed>>

\* Null, or an error: the address that was shown stays.
DepositMissing(l) ==
  /\ lookups' = lookups \ {l}
  /\ missed' = (missed \/ l.mounted)
  /\ UNCHANGED <<order, network, paymentId, status, loading, runs, records, deposit,
                 payment, reordered>>

-------------------------------------------------------------------------------
(* The event stream. *)

\* The invoice of the open EventSource, which opens again whenever status changes; the record
\* it waits for carries the hash of its transaction.
Watched == IF status = "success" THEN Null ELSE paymentId

\* A callback, a notification or another page finishes the record.
FinishedElsewhere(i) ==
  /\ records[i].status = "pending"
  /\ records' = [records EXCEPT ![i].status = "finished"]
  /\ UNCHANGED <<order, network, paymentId, status, loading, runs, lookups, deposit,
                 payment, reordered, missed>>

StreamTells ==
  /\ Watched # Null
  /\ records[Watched].status = "finished"
  /\ status' = "success"
  /\ UNCHANGED <<order, network, paymentId, loading, runs, records, lookups, deposit,
                 payment, reordered, missed>>

\* "New Deposit" keeps the invoice.
NewDeposit ==
  /\ status = "success"
  /\ status' = "pending"
  /\ UNCHANGED <<order, network, paymentId, loading, runs, records, lookups, deposit,
                 payment, reordered, missed>>

-------------------------------------------------------------------------------
(* The payment through the wallet. *)

\* The button is there until the payment has succeeded, and disabled while one is going on.
\* The wallet comes and goes; the handler ends at once without it, or for an amount of nothing.
processWeb4Payment ==
  /\ status # "success" /\ ~loading
  /\ \/ /\ status' = "error"
        /\ UNCHANGED <<loading, payment>>
     \/ /\ status' = "processing"
        /\ loading' = TRUE
        /\ payment' = [pc |-> "wallet", id |-> paymentId, order |-> order]
  /\ UNCHANGED <<order, network, paymentId, runs, records, lookups, deposit, reordered, missed>>

\* How the handler ends, whatever the page shows by then.
End(st) ==
  /\ payment' = NoPayment
  /\ loading' = FALSE
  /\ status' = st
  /\ UNCHANGED <<order, network, paymentId, runs, records, lookups, deposit, reordered, missed>>

\* Rejected, or no hash came back.
WalletRejects == payment.pc = "wallet" /\ End("error")

WalletPays ==
  /\ payment.pc = "wallet"
  /\ payment' = [payment EXCEPT !.pc = "confirming"]
  /\ UNCHANGED <<order, network, paymentId, status, loading, runs, records, lookups,
                 deposit, reordered, missed>>

\* Mutant: a confirmation without an id is granted.
NothingRequired == TRUE

\* "valid transaction hash and payment ID required"
IdGiven == payment.id # Null

\* POST /api/topup/confirm, at the route.
ConfirmHandled ==
  /\ payment.pc = "confirming"
  /\ \/ /\ IdGiven
        /\ payment' = [payment EXCEPT !.pc = "confirmed"]
        /\ records' = [j \in Ids |-> IF j = payment.id
                                     THEN [records[j] EXCEPT !.status = "finished"] ELSE records[j]]
     \/ /\ payment' = [payment EXCEPT !.pc = "refused"]
        /\ UNCHANGED records
  /\ UNCHANGED <<order, network, paymentId, status, loading, runs, lookups, deposit,
                 reordered, missed>>

ConfirmAnswered == payment.pc = "confirmed" /\ End("success")

ConfirmFails == payment.pc \in {"confirming", "confirmed", "refused"} /\ End("error")

CheckoutNext ==
  \/ \E m \in Amounts : setAmountUsd(m)
  \/ \E x \in Assets : setSelectedAsset(x)
  \/ \E n \in Networks : setSelectedNetwork(n)
  \/ \E i \in Ids : TopupCreated(i) \/ InvoiceAnswered(i) \/ InvoiceFails(i) \/ FinishedElsewhere(i)
  \/ \E l \in lookups : DepositAnswered(l) \/ DepositMissing(l)
  \/ StreamTells \/ NewDeposit
  \/ processWeb4Payment \/ WalletRejects \/ WalletPays
  \/ ConfirmHandled \/ ConfirmAnswered \/ ConfirmFails

CheckoutSpec == CheckoutInit /\ [][CheckoutNext]_checkoutVars

-------------------------------------------------------------------------------
(***************************************************************************)
(* The page says that a deposit has settled only of the invoice it shows,  *)
(* and only once its record was finished: by its own payment or elsewhere, *)
(* with errors and answers that come after the stream has told it.         *)
(***************************************************************************)
SuccessIsFinished ==
  status = "success" => paymentId # Null /\ records[paymentId].status = "finished"

(***************************************************************************)
(* The invoice is of the order on the page, and so is what the wallet is   *)
(* asked to pay for it: an answer for an order that was changed meanwhile  *)
(* is dropped (line 139).  What excuses it is an order that is changed     *)
(* after the invoice was set, which asks for no other invoice, or an       *)
(* invoice from the URL.                                                   *)
(***************************************************************************)
InvoiceIsOfOrder ==
  paymentId # Null /\ ~reordered =>
    /\ records[paymentId].order = order
    /\ payment.id = paymentId => payment.order = order

(***************************************************************************)
(* Once its address has been looked up, the page shows a deposit address   *)
(* of the selected asset, in whatever order the answers to earlier choices *)
(* arrive.  What excuses it is an answer that failed or named none, which  *)
(* leaves the last one on the page.                                        *)
(***************************************************************************)
DepositIsOfAsset ==
  (\A l \in lookups : ~l.mounted) /\ ~missed => deposit # Null /\ deposit[1] = order.asset
================================================================================
