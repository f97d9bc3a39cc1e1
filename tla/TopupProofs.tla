------------------------------ MODULE TopupProofs ------------------------------
(***************************************************************************)
(* Proofs about TopupStore: its types, the guard against double credits    *)
(* where it holds, what a finished record says, and that records move      *)
(* forward.                                                                *)
(***************************************************************************)
EXTENDS TopupStore, TLAPS

\* Every step of the process keeps the types.
LEMMA TypeStep == TopupTypeOK /\ [TopupNext]_topupVars => TopupTypeOK'
<1> SUFFICES ASSUME TopupTypeOK, [TopupNext]_topupVars PROVE TopupTypeOK'
  OBVIOUS
<1> USE DEF TopupTypeOK, StoreFile, Status, EmptyStore
<1>1. ASSUME NEW i \in Payments, CreateNative(i) PROVE TopupTypeOK'
  BY <1>1 DEF CreateNative, Create, NewRecord
<1>2. ASSUME NEW i \in Payments, CreateLoad(i) PROVE TopupTypeOK'
  BY <1>2 DEF CreateLoad, Create
<1>3. ASSUME NEW i \in Payments, CreateSave(i) PROVE TopupTypeOK'
  <2>1. creates[i].copy \in StoreFile
    BY DEF Create
  <2> QED BY <1>3, <2>1 DEF CreateSave, Create, NewRecord
<1>4. ASSUME NEW c \in Confirmations, NEW i \in Payments \union {Absent}, NEW m \in {"web4", "bridge"},
             NEW x \in Transfers \union {Absent}, Confirm(c, i, m, x), UNCHANGED <<apiKey, landed, creates, streams, topupCrashes>>
      PROVE  TopupTypeOK'
  <2>1. \A a \in Answers : [pc |-> a, id |-> i, method |-> m, tx |-> x] \in Confirmation
    BY DEF Confirmation
  <2>2. confirms' \in [Confirmations -> Confirmation]
    <3>1. PICK a \in Answers : confirms' = [confirms EXCEPT ![c] = [pc |-> a, id |-> i, method |-> m, tx |-> x]]
      BY <1>4 DEF Confirm, Answers
    <3> QED BY <2>1, <3>1
  <2>3. topupFile' \in StoreFile /\ credits' \in [Payments -> Nat]
    BY <1>4 DEF Confirm, FailedRecord
  <2> QED BY <1>4, <2>2, <2>3
<1>5. ASSUME NEW c \in Confirmations, NEW i \in Payments, ConfirmBridge(c, i) PROVE TopupTypeOK'
  BY <1>4, <1>5 DEF ConfirmBridge
<1>6. ASSUME NEW c \in Confirmations, NEW i \in Payments, NEW x \in Transfers, ConfirmWeb4(c, i, x)
      PROVE  TopupTypeOK'
  BY <1>6 DEF ConfirmWeb4, Confirmation
<1>7. ASSUME NEW i \in Payments, processIpnEvent(i) PROVE TopupTypeOK'
  BY <1>7 DEF processIpnEvent
<1>8. ASSUME NEW s \in Streams, NEW i \in Payments \union {Absent}, checkStatus(s, i),
             UNCHANGED <<apiKey, landed, topupFile, creates, confirms, credits, topupCrashes>>
      PROVE  TopupTypeOK'
  BY <1>8 DEF checkStatus, Stream
<1>9. ASSUME NEW s \in Streams, StreamAbort(s) PROVE TopupTypeOK'
  BY <1>9 DEF StreamAbort, Stream
<1>10. ASSUME LoseHandlers, topupFile' \in StoreFile, credits' \in [Payments -> Nat] PROVE TopupTypeOK'
  <2>1. creates' \in [Payments -> Create]
    <3>1. [pc |-> "lost", copy |-> EmptyStore] \in Create
      BY DEF Create
    <3> QED BY <1>10, <3>1 DEF LoseHandlers
  <2>2. confirms' \in [Confirmations -> Confirmation]
    <3>1. \A c \in Confirmations : [confirms[c] EXCEPT !.pc = "lost"] \in Confirmation
      BY DEF Confirmation, Answers
    <3> QED BY <1>10, <3>1 DEF LoseHandlers
  <2>3. streams' \in [Streams -> Stream]
    <3>1. \A s \in Streams : [streams[s] EXCEPT !.pc = "closed"] \in Stream
      BY DEF Stream
    <3> QED BY <1>10, <3>1 DEF LoseHandlers
  <2> QED BY <1>10, <2>1, <2>2, <2>3 DEF LoseHandlers
<1>11. ASSUME NEW c \in Confirmations, NotOnChain(c) PROVE TopupTypeOK'
  <2>1. [confirms[c] EXCEPT !.pc = "notOnChain"] \in Confirmation
    BY DEF Confirmation, Answers
  <2> QED BY <1>11, <2>1 DEF NotOnChain
<1>12. ASSUME NEW c \in Confirmations, OnChain(c) PROVE TopupTypeOK'
  <2>1. confirms[c].id \in Payments \union {Absent} /\ confirms[c].tx \in Transfers \union {Absent}
    BY DEF Confirmation
  <2> QED BY <1>4, <1>12, <2>1 DEF OnChain
<1>13. ASSUME NEW s \in Streams, StreamTick(s) PROVE TopupTypeOK'
  <2>1. streams[s].id \in Payments \union {Absent}
    BY DEF Stream
  <2> QED BY <1>8, <1>13, <2>1 DEF StreamTick
<1>14. ASSUME NEW i \in Payments, TopupCrashInSave(i) \/ CrashInCredit(i) PROVE TopupTypeOK'
  <2>1. topupFile' \in StoreFile /\ credits' \in [Payments -> Nat] /\ LoseHandlers
    BY <1>14 DEF TopupCrashInSave, CrashInCredit
  <2> QED BY <1>10, <2>1
<1>15. CASE TopupCrash
  BY <1>10, <1>15 DEF TopupCrash
<1>16. CASE UNCHANGED topupVars
  BY <1>16 DEF topupVars
<1>17. ASSUME NEW s \in Streams, NEW i \in Payments, StreamOpen(s, i) PROVE TopupTypeOK'
  BY <1>8, <1>17 DEF StreamOpen
<1>18. ASSUME NEW x \in Transfers, Land(x) PROVE TopupTypeOK'
  BY <1>18 DEF Land
<1> QED
  BY <1>1, <1>2, <1>3, <1>5, <1>6, <1>7, <1>9, <1>11, <1>12, <1>13, <1>14, <1>15, <1>16, <1>17, <1>18 DEF TopupNext

(***************************************************************************)
(* Every variable keeps its type: the records of the file have one of the  *)
(* three statuses the routes write.                                        *)
(***************************************************************************)
THEOREM TypeCorrect == TopupSpec => []TopupTypeOK
<1>1. TopupInit => TopupTypeOK
  BY DEF TopupInit, TopupTypeOK, StoreFile, Status, EmptyStore, Create, Confirmation, Stream
<1> QED BY <1>1, TypeStep, PTL DEF TopupSpec

-------------------------------------------------------------------------------
(***************************************************************************)
(* The inductive invariant.                                                *)
(***************************************************************************)

\* An id that is not drawn yet is in no file, no copy and no credit.
Fresh ==
  \A i \in Payments : creates[i].pc = "idle" =>
    /\ topupFile[i] = Absent
    /\ credits[i] = 0
    /\ \A j \in Payments : creates[j].copy[i] = Absent

\* Only a web4 confirmation of a payment waits for the chain.
Verifying ==
  \A c \in Confirmations : confirms[c].pc = "verifying" =>
    confirms[c].id \in Payments /\ confirms[c].method = "web4" /\ confirms[c].tx \in Transfers

\* What a waiting creation holds was once in the file, and stays backed.
BackedCopies == \A i, j \in Payments : creates[j].copy[i] = "finished" => Backed(i)

\* Without the service no creation waits, and all credits but one for each crash are on record.
CreditOnRecord ==
  ~apiKey => \A i \in Payments :
    /\ creates[i].pc # "waiting"
    /\ credits[i] <= topupCrashes \/ (credits[i] = 1 + topupCrashes /\ topupFile[i] = "finished")

IInv == TopupTypeOK /\ Fresh /\ Verifying /\ FinishedIsBacked /\ BackedCopies /\ CreditOnRecord

\* A creation, with the service or without, keeps the invariant.
LEMMA CreateStep ==
  ASSUME IInv, TopupTypeOK', NEW i \in Payments, CreateNative(i) \/ CreateLoad(i) \/ CreateSave(i)
  PROVE  IInv'
<1> USE DEF IInv
<1>1. \A j \in Payments : Backed(j) => Backed(j)'
  BY DEF CreateNative, CreateLoad, CreateSave, Backed
<1>2. Verifying'
  BY DEF CreateNative, CreateLoad, CreateSave, Verifying
<1>3. /\ \A j \in Payments : EmptyStore[j] = Absent
      /\ Absent # "finished" /\ NewRecord # "finished"
  BY TopupAssumption DEF EmptyStore, NewRecord
<1>4. CASE CreateNative(i)
  <2>1. /\ topupFile' = [topupFile EXCEPT ![i] = NewRecord]
        /\ creates[i].pc = "idle" /\ ~apiKey /\ ~apiKey'
        /\ topupCrashes' = topupCrashes /\ credits' = credits
    BY <1>4 DEF CreateNative
  <2>2. \A j \in Payments : /\ creates'[j].copy = creates[j].copy
                            /\ creates'[j].pc = IF j = i THEN "created" ELSE creates[j].pc
    BY <1>4 DEF CreateNative, TopupTypeOK, Create
  <2>3. Fresh'
    BY <2>1, <2>2 DEF TopupTypeOK, StoreFile, Fresh
  <2>5. FinishedIsBacked' /\ BackedCopies'
    BY <1>1, <1>3, <2>1, <2>2 DEF TopupTypeOK, StoreFile, FinishedIsBacked, BackedCopies
  <2>4. CreditOnRecord'
    BY <2>1, <2>2 DEF TopupTypeOK, StoreFile, Fresh, CreditOnRecord
  <2> QED BY <1>2, <2>3, <2>4, <2>5
<1>5. CASE CreateLoad(i)
  BY <1>1, <1>2, <1>3, <1>5
    DEF CreateLoad, TopupTypeOK, StoreFile, Create, Fresh, FinishedIsBacked, BackedCopies, CreditOnRecord
<1>6. CASE CreateSave(i)
  BY <1>1, <1>2, <1>3, <1>6
    DEF CreateSave, TopupTypeOK, StoreFile, Create, Fresh, FinishedIsBacked, BackedCopies, CreditOnRecord
<1> QED BY <1>4, <1>5, <1>6

\* So does a confirmation, from its load to its answer.
LEMMA ConfirmStep ==
  ASSUME IInv, TopupTypeOK', NEW c \in Confirmations, NEW i \in Payments, NEW m \in {"web4", "bridge"},
         NEW x \in Transfers \union {Absent}, m = "web4" => x \in landed,
         confirms[c].pc \in {"idle", "verifying"},
         Confirm(c, i, m, x), UNCHANGED <<apiKey, landed, creates, streams, topupCrashes>>
  PROVE  IInv'
<1> USE DEF IInv
<1>1. PICK a \in Answers :
        /\ confirms' = [confirms EXCEPT ![c] = [pc |-> a, id |-> i, method |-> m, tx |-> x]]
        /\ topupFile'[i] = "finished" => topupFile[i] = "finished" \/ a = "finished"
  BY DEF Confirm, Answers, FailedRecord, TopupTypeOK, StoreFile
<1>2. credits' = credits \/ (topupFile[i] \notin {Absent, "finished"} /\ m = "bridge" /\
        topupFile' = [topupFile EXCEPT ![i] = "finished"] /\ credits' = [credits EXCEPT ![i] = @ + 1])
  BY DEF Confirm, AlreadyProcessed
<1>3. topupFile' = topupFile \/ (topupFile[i] \notin {Absent, "finished"} /\
        (topupFile' = [topupFile EXCEPT ![i] = "finished"] \/ (topupFile' = [topupFile EXCEPT ![i] = "failed"] /\ credits' = credits)))
  BY DEF Confirm, AlreadyProcessed, FailedRecord
<1>4. \A j \in Payments : Backed(j) => Backed(j)'
  BY <1>1, <1>2 DEF Backed, TopupTypeOK, Confirmation, Answers
<1>5. topupFile'[i] = "finished" => Backed(i)'
  <2>1. SUFFICES ASSUME topupFile'[i] = "finished", topupFile[i] # "finished" PROVE Backed(i)'
    BY <1>4 DEF FinishedIsBacked
  <2>2. CASE m = "web4"
    BY <1>1, <2>1, <2>2 DEF Backed, TopupTypeOK
  <2>3. CASE m = "bridge"
    <3>1. credits' = [credits EXCEPT ![i] = @ + 1]
      BY <2>1, <2>3, TopupAssumption DEF Confirm, FailedRecord, TopupTypeOK, StoreFile
    <3> QED BY <3>1 DEF Backed, TopupTypeOK
  <2> QED BY <2>2, <2>3
<1>6. FinishedIsBacked'
  BY <1>3, <1>4, <1>5 DEF FinishedIsBacked, TopupTypeOK, StoreFile
<1>7. BackedCopies'
  BY <1>4 DEF BackedCopies
<1>8. Fresh'
  BY <1>2, <1>3 DEF Fresh, TopupTypeOK, StoreFile
<1>9. Verifying'
  BY <1>1 DEF Verifying, TopupTypeOK, Answers
<1>10. CreditOnRecord'
  BY <1>2, <1>3 DEF CreditOnRecord, TopupTypeOK, StoreFile
<1> QED BY <1>6, <1>7, <1>8, <1>9, <1>10

\* So does a notification.
LEMMA NotificationStep ==
  ASSUME IInv, TopupTypeOK', NEW i \in Payments, processIpnEvent(i)
  PROVE  IInv'
<1> USE DEF IInv
<1>1. /\ creates[i].pc = "created" /\ topupFile[i] # "finished" /\ apiKey /\ apiKey' = apiKey
      /\ creates' = creates /\ confirms' = confirms /\ landed' = landed
      /\ \/ topupFile' = [topupFile EXCEPT ![i] = "finished"] /\ credits' = [credits EXCEPT ![i] = @ + 1]
         \/ topupFile' = [topupFile EXCEPT ![i] = "failed"] /\ credits' = credits
  BY DEF processIpnEvent
<1>2. \A j \in Payments : Backed(j) => Backed(j)'
  BY <1>1 DEF Backed, TopupTypeOK
<1>3. FinishedIsBacked'
  BY <1>1, <1>2 DEF FinishedIsBacked, Backed, TopupTypeOK, StoreFile
<1>4. Fresh' /\ Verifying' /\ BackedCopies' /\ CreditOnRecord'
  BY <1>1, <1>2 DEF Fresh, Verifying, BackedCopies, CreditOnRecord, TopupTypeOK, StoreFile
<1> QED BY <1>3, <1>4

\* And so does a crash, wherever it falls.
LEMMA CrashStep ==
  ASSUME IInv, TopupTypeOK', LoseHandlers, topupFile' \in {topupFile, EmptyStore},
         \/ credits' = credits
         \/ \E i \in Payments : /\ creates[i].pc = "created" /\ topupFile[i] # "finished"
                               /\ credits' = [credits EXCEPT ![i] = @ + 1]
  PROVE  IInv'
<1> USE DEF IInv
<1>1. /\ \A j \in Payments : creates'[j].pc = "idle" <=> creates[j].pc = "idle"
      /\ \A j \in Payments : creates'[j].pc # "waiting"
      /\ \A j \in Payments : creates'[j].copy \in {creates[j].copy, EmptyStore}
  BY DEF LoseHandlers
<1>2. /\ \A c \in Confirmations : confirms'[c].pc # "verifying"
      /\ \A c \in Confirmations : confirms[c].pc = "finished" => confirms'[c] = confirms[c]
      /\ landed' = landed
  BY DEF LoseHandlers, TopupTypeOK, Confirmation
<1>3. /\ \A j \in Payments : EmptyStore[j] = Absent
      /\ Absent # "finished"
  BY TopupAssumption DEF EmptyStore
<1>4. \A j \in Payments : credits'[j] >= credits[j] /\ credits'[j] \in Nat /\ credits[j] \in Nat
  BY DEF TopupTypeOK
<1>5. \A j \in Payments : Backed(j) => Backed(j)'
  BY <1>2, <1>4 DEF Backed
<1>6. Fresh'
  BY <1>1, <1>3 DEF Fresh, TopupTypeOK
<1>7. FinishedIsBacked' /\ BackedCopies'
  BY <1>1, <1>3, <1>5 DEF FinishedIsBacked, BackedCopies
<1>8. Verifying'
  BY <1>2 DEF Verifying
<1>9. CreditOnRecord'
  <2>1. topupCrashes' = topupCrashes + 1 /\ topupCrashes \in Nat /\ apiKey' = apiKey
    BY DEF LoseHandlers, TopupTypeOK
  <2>2. ASSUME ~apiKey, NEW j \in Payments PROVE credits'[j] <= topupCrashes + 1
    BY <2>1, <2>2 DEF CreditOnRecord, TopupTypeOK
  <2> QED BY <1>1, <2>1, <2>2 DEF CreditOnRecord
<1> QED BY <1>6, <1>7, <1>8, <1>9

\* The invariant is inductive.
LEMMA InvariantStep == IInv /\ [TopupNext]_topupVars => IInv'
<1> SUFFICES ASSUME IInv, [TopupNext]_topupVars PROVE IInv'
  OBVIOUS
<1>1. TopupTypeOK'
  BY TypeStep DEF IInv
<1>2. ASSUME NEW i \in Payments, CreateNative(i) \/ CreateLoad(i) \/ CreateSave(i) PROVE IInv'
  BY <1>1, <1>2, CreateStep
<1>3. ASSUME NEW i \in Payments, processIpnEvent(i) PROVE IInv'
  BY <1>1, <1>3, NotificationStep
<1>4. ASSUME NEW c \in Confirmations, NEW i \in Payments, ConfirmBridge(c, i) PROVE IInv'
  BY <1>1, <1>4, ConfirmStep DEF ConfirmBridge
<1>5. ASSUME NEW c \in Confirmations, OnChain(c) PROVE IInv'
  <2>1. confirms[c].id \in Payments /\ confirms[c].tx \in Transfers /\ confirms[c].tx \in landed
    BY <1>5 DEF OnChain, verifyTxOnChain, IInv, Verifying
  <2> QED BY <1>1, <1>5, <2>1, ConfirmStep DEF OnChain
<1>6. ASSUME NEW c \in Confirmations,
             UNCHANGED <<apiKey, landed, topupFile, creates, credits, topupCrashes>>,
             \A d \in Confirmations : confirms[d].pc = "finished" => confirms'[d] = confirms[d],
             Verifying'
      PROVE  IInv'
  <2>1. \A j \in Payments : Backed(j) => Backed(j)'
    BY <1>6 DEF Backed
  <2> QED BY <1>1, <1>6, <2>1 DEF IInv, Fresh, FinishedIsBacked, BackedCopies, CreditOnRecord
<1>7. ASSUME NEW c \in Confirmations, NEW i \in Payments, NEW x \in Transfers, ConfirmWeb4(c, i, x) PROVE IInv'
  <2>1. Verifying' /\ \A d \in Confirmations : confirms[d].pc = "finished" => confirms'[d] = confirms[d]
    BY <1>7 DEF ConfirmWeb4, IInv, Verifying, TopupTypeOK
  <2> QED BY <1>6, <1>7, <2>1 DEF ConfirmWeb4
<1>8. ASSUME NEW c \in Confirmations, NotOnChain(c) PROVE IInv'
  <2>1. /\ confirms[c].pc = "verifying" /\ confirms'[c].pc = "notOnChain"
        /\ \A d \in Confirmations \ {c} : confirms'[d] = confirms[d]
    BY <1>8 DEF NotOnChain, IInv, TopupTypeOK, Confirmation
  <2>2. Verifying' /\ \A d \in Confirmations : confirms[d].pc = "finished" => confirms'[d] = confirms[d]
    BY <2>1 DEF IInv, Verifying
  <2> QED BY <1>6, <1>8, <2>2 DEF NotOnChain
<1>9. ASSUME UNCHANGED <<apiKey, landed, topupFile, creates, confirms, credits, topupCrashes>> PROVE IInv'
  BY <1>1, <1>9 DEF IInv, Fresh, Verifying, FinishedIsBacked, BackedCopies, CreditOnRecord, Backed
<1>10. ASSUME NEW s \in Streams, \/ \E i \in Payments : StreamOpen(s, i)
                                \/ StreamTick(s) \/ StreamAbort(s)
       PROVE  IInv'
  BY <1>9, <1>10 DEF StreamOpen, StreamTick, StreamAbort
<1>11. ASSUME NEW i \in Payments, TopupCrashInSave(i) PROVE IInv'
  BY <1>1, <1>11, CrashStep DEF TopupCrashInSave
<1>12. ASSUME NEW i \in Payments, CrashInCredit(i) PROVE IInv'
  <2>1. /\ creates[i].pc = "created" /\ topupFile[i] # "finished"
        /\ LoseHandlers /\ topupFile' \in {topupFile, EmptyStore}
        /\ credits' = [credits EXCEPT ![i] = @ + 1]
    BY <1>12 DEF CrashInCredit, Crediting, Open, AlreadyProcessed
  <2> QED BY <1>1, <2>1, CrashStep
<1>13. CASE TopupCrash
  BY <1>1, <1>13, CrashStep DEF TopupCrash
<1>14. CASE UNCHANGED topupVars
  BY <1>9, <1>14 DEF topupVars
<1>15. ASSUME NEW x \in Transfers, Land(x) PROVE IInv'
  <2>1. \A j \in Payments : Backed(j) => Backed(j)'
    BY <1>15 DEF Land, Backed
  <2> QED BY <1>1, <1>15, <2>1 DEF Land, IInv, Fresh, Verifying, FinishedIsBacked, BackedCopies, CreditOnRecord
<1> QED
  BY <1>2, <1>3, <1>4, <1>5, <1>7, <1>8, <1>10, <1>11, <1>12, <1>13, <1>14, <1>15 DEF TopupNext

\* What the guards of the routes rest on, in every reachable state.
THEOREM Invariance == TopupSpec => []IInv
<1>1. TopupInit => IInv
  <2> SUFFICES ASSUME TopupInit PROVE IInv
    OBVIOUS
  <2>1. TopupTypeOK
    BY DEF TopupInit, TopupTypeOK, StoreFile, Status, EmptyStore, Create, Confirmation, Stream
  <2>2. EmptyStore = [i \in Payments |-> Absent] /\ Absent # "finished"
    BY TopupAssumption DEF EmptyStore
  <2>3. Fresh /\ Verifying /\ FinishedIsBacked /\ BackedCopies
    BY <2>2 DEF TopupInit, Fresh, Verifying, FinishedIsBacked, BackedCopies
  <2>4. CreditOnRecord
    <3>1. ASSUME NEW i \in Payments PROVE creates[i].pc # "waiting" /\ credits[i] <= topupCrashes
      BY DEF TopupInit
    <3> QED BY <3>1 DEF CreditOnRecord
  <2> QED BY <2>1, <2>3, <2>4 DEF IInv
<1> QED BY <1>1, InvariantStep, PTL DEF TopupSpec

(***************************************************************************)
(* Without the invoice service a payment is credited once, and once more   *)
(* at most for every crash, whatever confirmations arrive and in which     *)
(* order and wherever the crashes fall.                                    *)
(***************************************************************************)
THEOREM CreditedOnce == TopupSpec => []CreditedOnceNatively
<1>1. IInv => CreditedOnceNatively
  <2> SUFFICES ASSUME IInv, ~apiKey, NEW i \in Payments PROVE credits[i] <= 1 + topupCrashes
    BY DEF CreditedOnceNatively
  <2>1. credits[i] <= topupCrashes \/ credits[i] = 1 + topupCrashes
    BY DEF IInv, CreditOnRecord
  <2>2. credits[i] \in Nat /\ topupCrashes \in Nat
    BY DEF IInv, TopupTypeOK
  <2> QED BY <2>1, <2>2
<1> QED BY <1>1, Invariance, PTL

-------------------------------------------------------------------------------
\* Without the service and before a crash, a confirmation that credited is on record.
GuardSees ==
  ~apiKey /\ topupCrashes = 0 =>
    /\ \A i \in Payments, c \in Confirmations : Credits(c, i) => topupFile[i] = "finished"
    /\ OneConfirmationCredits

\* A confirmation that credits found no other on record.
LEMMA GuardConfirm ==
  ASSUME IInv, GuardSees, ~apiKey, topupCrashes = 0,
         NEW c \in Confirmations, NEW i \in Payments, NEW m \in {"web4", "bridge"},
         NEW x, confirms[c].pc \in {"idle", "verifying"}, Confirm(c, i, m, x), UNCHANGED <<apiKey, topupCrashes>>
  PROVE  GuardSees'
<1>1. /\ TopupTypeOK /\ OneConfirmationCredits
      /\ \A j \in Payments, d \in Confirmations : Credits(d, j) => topupFile[j] = "finished"
  BY DEF IInv, GuardSees
<1>2. PICK a \in Answers :
        /\ confirms' = [confirms EXCEPT ![c] = [pc |-> a, id |-> i, method |-> m, tx |-> x]]
        /\ a = "finished" => topupFile[i] # "finished" /\ topupFile' = [topupFile EXCEPT ![i] = "finished"]
        /\ a # "finished" => topupFile' = topupFile \/ (topupFile[i] # "finished" /\ topupFile' = [topupFile EXCEPT ![i] = "failed"])
  BY DEF Confirm, AlreadyProcessed, FailedRecord, Answers
<1>3. \A d \in Confirmations \ {c} : \A j \in Payments : Credits(d, j)' <=> Credits(d, j)
  BY <1>1, <1>2 DEF Credits, TopupTypeOK
<1>4. \A j \in Payments : Credits(c, j)' => j = i /\ a = "finished"
  BY <1>1, <1>2 DEF Credits, TopupTypeOK
<1>5. \A j \in Payments : topupFile[j] = "finished" => topupFile'[j] = "finished"
  BY <1>1, <1>2 DEF TopupTypeOK, StoreFile
<1>6. a = "finished" => topupFile'[i] = "finished" /\ \A d \in Confirmations : ~Credits(d, i)
  BY <1>1, <1>2 DEF TopupTypeOK, StoreFile
<1>7. \A j \in Payments, d \in Confirmations : Credits(d, j)' => topupFile'[j] = "finished"
  BY <1>1, <1>3, <1>4, <1>5, <1>6
<1>8. ASSUME NEW j \in Payments, NEW d \in Confirmations, NEW e \in Confirmations,
             Credits(d, j)', Credits(e, j)'
      PROVE  d = e
  BY <1>1, <1>3, <1>4, <1>6, <1>8 DEF OneConfirmationCredits
<1>9. OneConfirmationCredits'
  BY <1>8 DEF OneConfirmationCredits, Credits
<1> QED BY <1>7, <1>9 DEF GuardSees

\* What credits nobody and takes no finished record back keeps it.
LEMMA GuardKept ==
  ASSUME GuardSees, UNCHANGED <<apiKey, topupCrashes>>,
         \A c \in Confirmations, i \in Payments : Credits(c, i)' => Credits(c, i),
         \A i \in Payments : topupFile[i] = "finished" => topupFile'[i] = "finished"
  PROVE  GuardSees'
<1> SUFFICES ASSUME ~apiKey, topupCrashes = 0
             PROVE  /\ \A i \in Payments, c \in Confirmations : Credits(c, i)' => topupFile'[i] = "finished"
                    /\ OneConfirmationCredits'
  BY DEF GuardSees
<1>1. OneConfirmationCredits /\ \A i \in Payments, c \in Confirmations : Credits(c, i) => topupFile[i] = "finished"
  BY DEF GuardSees
<1>2. OneConfirmationCredits'
  BY <1>1 DEF OneConfirmationCredits, Credits
<1> QED BY <1>1, <1>2

\* Every step keeps it.
LEMMA GuardStep == IInv /\ GuardSees /\ [TopupNext]_topupVars => GuardSees'
<1> SUFFICES ASSUME IInv, GuardSees, [TopupNext]_topupVars, ~apiKey', topupCrashes' = 0 PROVE GuardSees'
  BY DEF GuardSees
<1>1. TopupTypeOK /\ Fresh /\ \A i \in Payments : ~apiKey => creates[i].pc # "waiting"
  BY DEF IInv, CreditOnRecord
<1>2. ASSUME LoseHandlers PROVE FALSE
  BY <1>1, <1>2 DEF LoseHandlers, TopupTypeOK
<1>3. ASSUME UNCHANGED <<apiKey, topupFile, confirms, topupCrashes>> PROVE GuardSees'
  BY <1>3 DEF GuardSees, OneConfirmationCredits, Credits
<1>4. ASSUME NEW i \in Payments, CreateNative(i) PROVE GuardSees'
  <2>1. topupFile[i] = Absent /\ Absent # "finished" /\ topupFile' = [topupFile EXCEPT ![i] = NewRecord] /\ confirms' = confirms
    BY <1>1, <1>4, TopupAssumption DEF CreateNative, Fresh
  <2>2. \A j \in Payments : topupFile[j] = "finished" => topupFile'[j] = "finished"
    BY <1>1, <2>1 DEF TopupTypeOK, StoreFile
  <2>3. \A c \in Confirmations, j \in Payments : Credits(c, j)' => Credits(c, j)
    BY <2>1 DEF Credits
  <2> QED BY <1>4, <2>2, <2>3, GuardKept DEF CreateNative
<1>5. ASSUME NEW i \in Payments, CreateLoad(i) \/ CreateSave(i) \/ processIpnEvent(i) PROVE GuardSees'
  BY <1>1, <1>5 DEF CreateLoad, CreateSave, processIpnEvent
<1>6. ASSUME NEW c \in Confirmations, NEW i \in Payments, ConfirmBridge(c, i) PROVE GuardSees'
  BY <1>6, GuardConfirm DEF ConfirmBridge
<1>7. ASSUME NEW c \in Confirmations, OnChain(c) PROVE GuardSees'
  <2>1. confirms[c].id \in Payments
    BY <1>7 DEF OnChain, IInv, Verifying
  <2> QED BY <1>7, <2>1, GuardConfirm DEF OnChain
<1>8. ASSUME NEW c \in Confirmations, NotOnChain(c) \/ \E i \in Payments, x \in Transfers : ConfirmWeb4(c, i, x)
      PROVE  GuardSees'
  <2>1. /\ UNCHANGED <<apiKey, landed, topupFile, topupCrashes>>
        /\ confirms'[c].pc # "finished" /\ \A d \in Confirmations \ {c} : confirms'[d] = confirms[d]
    BY <1>1, <1>8 DEF NotOnChain, ConfirmWeb4, TopupTypeOK, Confirmation
  <2>2. \A d \in Confirmations, j \in Payments : Credits(d, j)' => Credits(d, j)
    BY <2>1 DEF Credits
  <2> QED BY <2>1, <2>2, GuardKept
<1>9. ASSUME NEW s \in Streams, \/ \E i \in Payments : StreamOpen(s, i)
                               \/ StreamTick(s) \/ StreamAbort(s)
      PROVE  GuardSees'
  BY <1>3, <1>9 DEF StreamOpen, StreamTick, StreamAbort
<1>10. ASSUME NEW i \in Payments, TopupCrashInSave(i) \/ CrashInCredit(i) PROVE GuardSees'
  BY <1>2, <1>10 DEF TopupCrashInSave, CrashInCredit
<1>11. CASE TopupCrash
  BY <1>2, <1>11 DEF TopupCrash
<1>12. CASE UNCHANGED topupVars
  BY <1>3, <1>12 DEF topupVars
<1>13. ASSUME NEW x \in Transfers, Land(x) PROVE GuardSees'
  BY <1>3, <1>13 DEF Land
<1> QED BY <1>4, <1>5, <1>6, <1>7, <1>8, <1>9, <1>10, <1>11, <1>12, <1>13 DEF TopupNext

(***************************************************************************)
(* The guard of the confirmation route does what its comment says where it *)
(* can: without the invoice service, and while nothing has crashed, no two *)
(* confirmations both credit one payment, however many arrive together.    *)
(***************************************************************************)
THEOREM OneConfirmationNatively == TopupSpec => [](~apiKey /\ topupCrashes = 0 => OneConfirmationCredits)
<1>1. TopupInit => GuardSees
  BY DEF TopupInit, GuardSees, OneConfirmationCredits, Credits
<1>2. GuardSees => (~apiKey /\ topupCrashes = 0 => OneConfirmationCredits)
  BY DEF GuardSees
<1> QED BY <1>1, <1>2, GuardStep, Invariance, PTL DEF TopupSpec

(***************************************************************************)
(* Something stands behind a finished record, in every deployment: a credit*)
(* or a transaction of the chain that a confirmation of it quoted.  Stale  *)
(* saves, failed credits, refused hashes and crashes never make one without*)
(* (confirm/route.ts, lines 69-77 and 108-126).                            *)
(***************************************************************************)
THEOREM FinishedMeansBacked == TopupSpec => []FinishedIsBacked
<1>1. IInv => FinishedIsBacked
  BY DEF IInv
<1> QED BY <1>1, Invariance, PTL

\* A step that takes no record back, or is excused.
Forward ==
  \A i \in Payments : Rank(topupFile'[i]) >= Rank(topupFile[i]) \/ StaleCreation \/ topupCrashes' # topupCrashes

(***************************************************************************)
(* Records move forward: what takes one back, or out of the file, is a     *)
(* crash or a creation that saves what it loaded before it waited.         *)
(***************************************************************************)
THEOREM MoveForward == TopupSpec => RecordsMoveForward
<1>1. ASSUME IInv, TopupNext PROVE Forward
  <2>1. /\ \A x \in Status \union {Absent} : Rank(x) \in 0..3 /\ (x # "finished" => Rank(x) <= 2)
        /\ Rank(Absent) = 0 /\ Rank("failed") = 2 /\ Rank("finished") = 3
    BY TopupAssumption DEF Rank, Status
  <2>2. \A i \in Payments : topupFile[i] \in Status \union {Absent}
    BY <1>1 DEF IInv, TopupTypeOK, StoreFile
  <2>3. ASSUME topupFile' = topupFile PROVE Forward
    BY <2>1, <2>2, <2>3 DEF Forward
  <2>4. ASSUME NEW i \in Payments, NEW x \in Status, topupFile' = [topupFile EXCEPT ![i] = x],
               Rank(x) >= Rank(topupFile[i])
        PROVE  Forward
    BY <1>1, <2>1, <2>2, <2>4 DEF IInv, TopupTypeOK, StoreFile, Forward
  <2>5. ASSUME NEW i \in Payments, CreateNative(i) PROVE Forward
    <3>1. topupFile[i] = Absent /\ NewRecord \in Status /\ topupFile' = [topupFile EXCEPT ![i] = NewRecord]
      BY <1>1, <2>5 DEF CreateNative, IInv, Fresh, NewRecord, Status
    <3>2. Rank(NewRecord) >= Rank(topupFile[i])
      BY <2>1, <3>1
    <3> QED BY <2>4, <3>1, <3>2
  <2>6. ASSUME NEW i \in Payments, CreateSave(i) PROVE Forward
    <3>1. StaleCreation
      BY <1>1, <2>6 DEF CreateSave, StaleCreation, IInv, TopupTypeOK
    <3> QED BY <3>1 DEF Forward
  <2>7. ASSUME NEW i \in Payments, topupFile[i] # "finished",
               topupFile' = [topupFile EXCEPT ![i] = "finished"] \/ topupFile' = [topupFile EXCEPT ![i] = "failed"]
        PROVE  Forward
    <3>1. Rank("finished") >= Rank(topupFile[i]) /\ Rank("failed") >= Rank(topupFile[i])
      BY <2>1, <2>2, <2>7
    <3> QED BY <2>4, <2>7, <3>1 DEF Status
  <2>8. ASSUME NEW c \in Confirmations, NEW i \in Payments, NEW m \in {"web4", "bridge"}, NEW x, Confirm(c, i, m, x)
        PROVE  Forward
    BY <2>3, <2>7, <2>8 DEF Confirm, AlreadyProcessed, FailedRecord
  <2>9. ASSUME NEW c \in Confirmations, OnChain(c) PROVE Forward
    <3>1. confirms[c].id \in Payments
      BY <1>1, <2>9 DEF OnChain, IInv, Verifying
    <3> QED BY <2>8, <2>9, <3>1 DEF OnChain
  <2>10. ASSUME NEW i \in Payments, processIpnEvent(i) PROVE Forward
    <3>1. topupFile[i] # "finished"
      BY <2>10 DEF processIpnEvent
    <3> QED BY <2>7, <2>10, <3>1 DEF processIpnEvent
  <2>11. ASSUME LoseHandlers PROVE Forward
    <3>1. topupCrashes' # topupCrashes
      BY <1>1, <2>11 DEF LoseHandlers, IInv, TopupTypeOK
    <3> QED BY <3>1 DEF Forward
  <2>12. ASSUME NEW c \in Confirmations, NEW i \in Payments, ConfirmBridge(c, i) PROVE Forward
    BY <2>8, <2>12 DEF ConfirmBridge
  <2>13. ASSUME NEW i \in Payments, CreateLoad(i) PROVE Forward
    BY <2>3, <2>13 DEF CreateLoad
  <2>14. ASSUME NEW c \in Confirmations, NEW i \in Payments, NEW x \in Transfers, ConfirmWeb4(c, i, x) PROVE Forward
    BY <2>3, <2>14 DEF ConfirmWeb4
  <2>15. ASSUME NEW c \in Confirmations, NotOnChain(c) PROVE Forward
    BY <2>3, <2>15 DEF NotOnChain
  <2>16. ASSUME NEW s \in Streams, NEW i \in Payments, StreamOpen(s, i) PROVE Forward
    BY <2>3, <2>16 DEF StreamOpen
  <2>17. ASSUME NEW s \in Streams, StreamTick(s) \/ StreamAbort(s) PROVE Forward
    BY <2>3, <2>17 DEF StreamTick, StreamAbort
  <2>18. ASSUME NEW i \in Payments, TopupCrashInSave(i) \/ CrashInCredit(i) PROVE Forward
    BY <2>11, <2>18 DEF TopupCrashInSave, CrashInCredit
  <2>19. CASE TopupCrash
    BY <2>11, <2>19 DEF TopupCrash
  <2>20. ASSUME NEW x \in Transfers, Land(x) PROVE Forward
    BY <2>3, <2>20 DEF Land
  <2> QED
    BY <1>1, <2>5, <2>6, <2>9, <2>10, <2>12, <2>13, <2>14, <2>15, <2>16, <2>17, <2>18, <2>19, <2>20 DEF TopupNext
<1>2. IInv /\ [TopupNext]_topupVars =>
        [\A i \in Payments : \/ Rank(topupFile'[i]) >= Rank(topupFile[i])
                             \/ StaleCreation
                             \/ topupCrashes' # topupCrashes]_topupVars
  BY <1>1 DEF Forward
<1> QED BY <1>2, Invariance, PTL DEF TopupSpec, RecordsMoveForward
================================================================================
