------------------------------ MODULE TopupStore ------------------------------
(***************************************************************************)
(* Wallet top-ups (dashboard/app/api/topup, dashboard/app/api/nowpayments).*)
(*                                                                         *)
(* The routes of one Node.js process share a JSON file of payment records. *)
(* Each of them loads the whole file, changes one record and saves the     *)
(* whole file; nothing runs between a load and a save unless the route     *)
(* awaits there, which only the creation of an invoice does, when it asks  *)
(* the NowPayments service.  A payment is confirmed by the checkout page   *)
(* (with the hash of a Web4 transaction, which must be on the chain, or by *)
(* a credit by the operator's wallet) or by a notification of the service. *)
(***************************************************************************)
EXTENDS Naturals

CONSTANTS
  Payments,        \* payment ids; each is drawn by one creation
  Confirmations,   \* POST /api/topup/confirm requests
  Streams,         \* GET /api/topup/stream requests
  Transfers,       \* transactions of the chain, whoever sends them, to whom and how much
  Absent,          \* no record, no payment, no transaction
  MaxTopupCrashes  \* bound of the model

ASSUME TopupAssumption ==
  /\ Absent \notin Payments \union Transfers \union {"pending", "failed", "finished"}
  /\ MaxTopupCrashes \in Nat

VARIABLES
  apiKey,          \* NOWPAYMENTS_API_KEY is set; never changes
  topupFile,       \* the store: payment id -> status of its record, or Absent
  landed,          \* the transactions that are on the chain
  creates,         \* creates[i]: the POST /api/topup that draws id i
  confirms,
  streams,
  credits,         \* how many credits of payment i the operator's wallet has sent
  topupCrashes

topupVars == <<apiKey, topupFile, landed, creates, confirms, streams, credits, topupCrashes>>

Status == {"pending", "failed", "finished"}
StoreFile == [Payments -> Status \union {Absent}]
EmptyStore == [i \in Payments |-> Absent]

\* copy is the store object the handler holds while it waits.
Create == [pc : {"idle", "waiting", "created", "lost"}, copy : StoreFile]

Answers == {"finished", "already", "notFound", "creditFailed", "notOnChain", "lost"}

Confirmation ==
  [pc : {"idle", "verifying"} \union Answers, id : Payments \union {Absent},
   method : {"web4", "bridge"}, tx : Transfers \union {Absent}]

Stream == [pc : {"idle", "open", "closed"}, id : Payments \union {Absent}]

TopupTypeOK ==
  /\ apiKey \in BOOLEAN
  /\ topupFile \in StoreFile
  /\ landed \subseteq Transfers
  /\ creates \in [Payments -> Create]
  /\ confirms \in [Confirmations -> Confirmation]
  /\ streams \in [Streams -> Stream]
  /\ credits \in [Payments -> Nat]
  /\ topupCrashes \in Nat

TopupInit ==
  /\ apiKey \in BOOLEAN
  /\ topupFile = EmptyStore
  /\ landed = {}
  /\ creates = [i \in Payments |-> [pc |-> "idle", copy |-> EmptyStore]]
  /\ confirms = [c \in Confirmations |-> [pc |-> "idle", id |-> Absent, method |-> "web4", tx |-> Absent]]
  /\ streams = [s \in Streams |-> [pc |-> "idle", id |-> Absent]]
  /\ credits = [i \in Payments |-> 0]
  /\ topupCrashes = 0

\* The chain: a transaction lands.
Land(x) ==
  /\ x \notin landed
  /\ landed' = landed \union {x}
  /\ UNCHANGED <<apiKey, topupFile, creates, confirms, streams, credits, topupCrashes>>

-------------------------------------------------------------------------------
(***************************************************************************)
(* POST /api/topup.                                                        *)
(***************************************************************************)

NewRecord == "pending"

\* Without the service: load, add the record, save.
CreateNative(i) ==
  /\ ~apiKey
  /\ creates[i].pc = "idle"
  /\ topupFile' = [topupFile EXCEPT ![i] = NewRecord]
  /\ creates' = [creates EXCEPT ![i].pc = "created"]
  /\ UNCHANGED <<apiKey, landed, confirms, streams, credits, topupCrashes>>

\* With it: load, then wait for the service.
CreateLoad(i) ==
  /\ apiKey
  /\ creates[i].pc = "idle"
  /\ creates' = [creates EXCEPT ![i] = [pc |-> "waiting", copy |-> topupFile]]
  /\ UNCHANGED <<apiKey, landed, topupFile, confirms, streams, credits, topupCrashes>>

\* The service has answered or failed: add the record to what was loaded, save that.
CreateSave(i) ==
  /\ creates[i].pc = "waiting"
  /\ topupFile' = [creates[i].copy EXCEPT ![i] = NewRecord]
  /\ creates' = [creates EXCEPT ![i] = [pc |-> "created", copy |-> EmptyStore]]
  /\ UNCHANGED <<apiKey, landed, confirms, streams, credits, topupCrashes>>

-------------------------------------------------------------------------------
(***************************************************************************)
(* POST /api/topup/confirm.  The page knows the id from the creation.      *)
(***************************************************************************)

\* Mutant: no look at the record's status.
NeverProcessed(i) == FALSE

\* No route writes the other status the guard knows, "complete".
AlreadyProcessed(i) == topupFile[i] = "finished"

FailedRecord == "failed"

\* From the load to the answer, for confirmation c of payment i.
Confirm(c, i, method, tx) ==
  LET answer(a) == confirms' = [confirms EXCEPT ![c] = [pc |-> a, id |-> i, method |-> method, tx |-> tx]]
  IN
  \/ /\ topupFile[i] = Absent
     /\ answer("notFound")
     /\ UNCHANGED <<topupFile, credits>>
  \/ /\ AlreadyProcessed(i)
     /\ answer("already")
     /\ UNCHANGED <<topupFile, credits>>
  \/ /\ topupFile[i] # Absent /\ ~AlreadyProcessed(i)
     /\ topupFile' = [topupFile EXCEPT ![i] = "finished"]
     /\ credits' = IF method = "bridge" THEN [credits EXCEPT ![i] = @ + 1] ELSE credits
     /\ answer("finished")
  \/ /\ topupFile[i] # Absent /\ ~AlreadyProcessed(i)
     /\ method = "bridge"
     /\ topupFile' = [topupFile EXCEPT ![i] = FailedRecord]
     /\ answer("creditFailed")
     /\ UNCHANGED credits

ConfirmBridge(c, i) ==
  /\ confirms[c].pc = "idle"
  /\ creates[i].pc = "created"
  /\ Confirm(c, i, "bridge", Absent)
  /\ UNCHANGED <<apiKey, landed, creates, streams, topupCrashes>>

\* paymentMethod 'web4': the transaction the caller quotes is looked for on the chain first.
ConfirmWeb4(c, i, x) ==
  /\ confirms[c].pc = "idle"
  /\ creates[i].pc = "created"
  /\ confirms' = [confirms EXCEPT ![c] = [pc |-> "verifying", id |-> i, method |-> "web4", tx |-> x]]
  /\ UNCHANGED <<apiKey, landed, topupFile, creates, streams, credits, topupCrashes>>

\* Mutant: an answer without a result counts as well.
AnyAnswer(x) == TRUE

\* A transaction of this hash exists: nothing else of it is looked at, nor who quoted it before.
verifyTxOnChain(x) == x \in landed

OnChain(c) ==
  /\ confirms[c].pc = "verifying"
  /\ verifyTxOnChain(confirms[c].tx)
  /\ Confirm(c, confirms[c].id, "web4", confirms[c].tx)
  /\ UNCHANGED <<apiKey, landed, creates, streams, topupCrashes>>

\* It is not there yet, or the node does not answer.
NotOnChain(c) ==
  /\ confirms[c].pc = "verifying"
  /\ confirms' = [confirms EXCEPT ![c].pc = "notOnChain"]
  /\ UNCHANGED <<apiKey, landed, topupFile, creates, streams, credits, topupCrashes>>

(***************************************************************************)
(* POST /api/nowpayments/ipn and the older /api/topup/callback: after the  *)
(* body has arrived, processIpnEvent runs without an await.  It is outside *)
(* the repository; the routes say that it credits matching records.  The   *)
(* service repeats its notifications.                                      *)
(***************************************************************************)
processIpnEvent(i) ==
  /\ apiKey
  /\ creates[i].pc = "created"
  /\ topupFile[i] \in {"pending", "failed"}
  /\ \/ /\ topupFile' = [topupFile EXCEPT ![i] = "finished"]
        /\ credits' = [credits EXCEPT ![i] = @ + 1]
     \/ /\ topupFile' = [topupFile EXCEPT ![i] = "failed"]
        /\ UNCHANGED credits
  /\ UNCHANGED <<apiKey, landed, creates, confirms, streams, topupCrashes>>

-------------------------------------------------------------------------------
(***************************************************************************)
(* GET /api/topup/stream: look at the record at once and every two seconds *)
(* until it is finished or the client goes away.                           *)
(***************************************************************************)

\* Mutant: the stream waits for the service's word instead.
TerminalWord(status) == status = "complete"

Terminal(status) == status = "finished"

checkStatus(s, i) ==
  streams' = [streams EXCEPT ![s] = [pc |-> IF Terminal(topupFile[i]) THEN "closed" ELSE "open", id |-> i]]

StreamOpen(s, i) ==
  /\ streams[s].pc = "idle"
  /\ creates[i].pc = "created"
  /\ checkStatus(s, i)
  /\ UNCHANGED <<apiKey, landed, topupFile, creates, confirms, credits, topupCrashes>>

StreamTick(s) ==
  /\ streams[s].pc = "open"
  /\ checkStatus(s, streams[s].id)
  /\ UNCHANGED <<apiKey, landed, topupFile, creates, confirms, credits, topupCrashes>>

StreamAbort(s) ==
  /\ streams[s].pc = "open"
  /\ streams' = [streams EXCEPT ![s].pc = "closed"]
  /\ UNCHANGED <<apiKey, landed, topupFile, creates, confirms, credits, topupCrashes>>

-------------------------------------------------------------------------------
(***************************************************************************)
(* A crash of the process loses the handlers and keeps the file.  Inside   *)
(* writeFileSync it leaves a file that does not parse, which loadStore     *)
(* takes for an empty one; after sendTopup the credit is out and its       *)
(* record is not saved.                                                    *)
(***************************************************************************)
LoseHandlers ==
  /\ topupCrashes < MaxTopupCrashes
  /\ topupCrashes' = topupCrashes + 1
  /\ creates' = [i \in Payments |->
                   IF creates[i].pc = "waiting" THEN [pc |-> "lost", copy |-> EmptyStore] ELSE creates[i]]
  /\ confirms' = [c \in Confirmations |->
                   IF confirms[c].pc = "verifying" THEN [confirms[c] EXCEPT !.pc = "lost"] ELSE confirms[c]]
  /\ streams' = [s \in Streams |->
                   IF streams[s].pc = "open" THEN [streams[s] EXCEPT !.pc = "closed"] ELSE streams[s]]
  /\ UNCHANGED <<apiKey, landed>>

TopupCrash == LoseHandlers /\ UNCHANGED <<topupFile, credits>>

\* A handler that got to payment i would change its record; only a credit needs no chain check.
Open(i) == creates[i].pc = "created" /\ topupFile[i] # Absent /\ ~AlreadyProcessed(i)

Saving(i) ==
  \/ creates[i].pc = IF apiKey THEN "waiting" ELSE "idle"
  \/ Open(i) /\ (apiKey \/ \E c \in Confirmations : confirms[c].pc \in {"idle", "verifying"})

Crediting(i) == Open(i) /\ (apiKey \/ \E c \in Confirmations : confirms[c].pc = "idle")

TopupCrashInSave(i) ==
  /\ Saving(i)
  /\ LoseHandlers
  /\ topupFile' = EmptyStore
  /\ UNCHANGED credits

\* The credit is out; its record is not saved, or its save is cut short.
CrashInCredit(i) ==
  /\ Crediting(i)
  /\ LoseHandlers
  /\ credits' = [credits EXCEPT ![i] = @ + 1]
  /\ topupFile' \in {topupFile, EmptyStore}

TopupNext ==
  \/ \E i \in Payments :
       \/ CreateNative(i) \/ CreateLoad(i) \/ CreateSave(i)
       \/ processIpnEvent(i)
       \/ TopupCrashInSave(i)
       \/ CrashInCredit(i)
  \/ \E c \in Confirmations :
       \/ \E i \in Payments : ConfirmBridge(c, i) \/ \E x \in Transfers : ConfirmWeb4(c, i, x)
       \/ OnChain(c) \/ NotOnChain(c)
  \/ \E s \in Streams :
       \/ \E i \in Payments : StreamOpen(s, i)
       \/ StreamTick(s)
       \/ StreamAbort(s)
  \/ \E x \in Transfers : Land(x)
  \/ TopupCrash

TopupSpec == TopupInit /\ [][TopupNext]_topupVars

\* setInterval keeps looking while the stream is open.
FairTopupSpec == TopupSpec /\ \A s \in Streams : WF_topupVars(StreamTick(s))

-------------------------------------------------------------------------------
(***************************************************************************)
(* No double credit: "Idempotency guard - don't double-credit"             *)
(* (confirm/route.ts, line 90).  The guard is the record in the file, so   *)
(* without a service to wait for it holds of a process that does not       *)
(* crash, and each crash can cost one more credit of a payment: one that   *)
(* was sent and not saved, or a finished record that was lost.             *)
(***************************************************************************)
CreditedOnceNatively == ~apiKey => \A i \in Payments : credits[i] <= 1 + topupCrashes

(***************************************************************************)
(* The same comment, said of every deployment and of this route alone: no  *)
(* two confirmations both credit one payment.                              *)
(***************************************************************************)
Credits(c, i) == confirms[c].id = i /\ confirms[c].method = "bridge" /\ confirms[c].pc = "finished"

OneConfirmationCredits ==
  \A i \in Payments : \A c, d \in Confirmations : Credits(c, i) /\ Credits(d, i) => c = d

(***************************************************************************)
(* A record is finished only if something stands behind it: the operator's *)
(* wallet has credited it, or a confirmation of it quoted a transaction    *)
(* that is on the chain ("Verify the txHash actually exists on-chain       *)
(* before crediting", confirm/route.ts, line 28).  That is all the route   *)
(* asks of a transaction: one may stand behind several payments.  Records  *)
(* come and go with stale saves and crashes, and this must survive them.   *)
(***************************************************************************)
Backed(i) ==
  \/ credits[i] > 0
  \/ \E c \in Confirmations : /\ confirms[c].id = i /\ confirms[c].method = "web4"
                               /\ confirms[c].pc = "finished" /\ confirms[c].tx \in landed

FinishedIsBacked == \A i \in Payments : topupFile[i] = "finished" => Backed(i)

(***************************************************************************)
(* A record only moves forward.  What takes one back, or out of the file,  *)
(* is a crash or a creation that saves what it loaded before it waited.    *)
(***************************************************************************)
Rank(status) ==
  CASE status = "pending" -> 1 [] status = "failed" -> 2 [] status = "finished" -> 3 [] OTHER -> 0

StaleCreation == \E i \in Payments : creates[i].pc = "waiting" /\ creates'[i].pc = "created"

RecordsMoveForward ==
  [][\A i \in Payments : \/ Rank(topupFile'[i]) >= Rank(topupFile[i])
                         \/ StaleCreation
                         \/ topupCrashes' # topupCrashes]_topupVars

(***************************************************************************)
(* A client that watches a payment is told when it is finished for good    *)
(* (the stream ends with that record, lines 36-40).                        *)
(***************************************************************************)
FinishedIsShown ==
  \A s \in Streams, i \in Payments :
    <>[](topupFile[i] = "finished") => <>[](streams[s].id = i => streams[s].pc # "open")
===============================================================================
