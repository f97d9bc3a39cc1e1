----------------------------- MODULE BatcherProofs -----------------------------
(***************************************************************************)
(* Batcher, for every number of transfers, lanes and retries, every size   *)
(* of batch and queue, and every answer of a node.                         *)
(***************************************************************************)
EXTENDS Batcher, TLAPS

LEMMA Params ==
  /\ MaxLanes \in Nat \ {0} /\ Retries \in Nat /\ Spread \in Nat
  /\ \A n \in NodeNonces : n \in Nat
  /\ Unset \notin Txs /\ Unset \notin Nat /\ Unset \notin Result
  BY BatcherAssumption DEF BatcherAssumption

-------------------------------------------------------------------------------
(***************************************************************************)
(* The steps of the wallet, of the thread and of close keep the types.     *)
(***************************************************************************)
LEMMA LaneType == 0 \in Lanes /\ \A l \in Lanes : NextLane(l) \in Lanes
  BY Params DEF Lanes, NextLane

LEMMA SignTypes ==
  ASSUME BatcherTypeOK, NEW t \in Txs, NEW l \in Lanes, NEW n \in Nat, Sign(t, l, n)
  PROVE  nonces' \in [Lanes -> Nat \union {Unset}] /\ transfers' \in [Txs -> Call]
<1>1. n + 1 \in Nat
  OBVIOUS
<1>2. nonces' \in [Lanes -> Nat \union {Unset}]
  BY <1>1 DEF BatcherTypeOK, Sign, NextNonce
<1>3. transfers' \in [Txs -> Call]
  BY DEF BatcherTypeOK, Sign, Call
<1> QED
  BY <1>2, <1>3

LEMMA WalletTypes ==
  ASSUME BatcherTypeOK, NEW t \in Txs, transfer(t)
  PROVE  BatcherTypeOK'
<1>1. CASE Transfer(t)
  <2>1. nonces[lane] \in Nat /\ lane \in Lanes
    BY <1>1 DEF BatcherTypeOK, Transfer
  <2>2. nonces' \in [Lanes -> Nat \union {Unset}] /\ transfers' \in [Txs -> Call]
    BY <1>1, <2>1, SignTypes DEF Transfer
  <2> QED
    BY <1>1, <2>2, LaneType DEF BatcherTypeOK, Transfer, elsewhere
<1>2. CASE TransferAsks(t)
  BY <1>2, LaneType DEF BatcherTypeOK, TransferAsks, Call, elsewhere
<1>3. CASE TransferAnswered(t)
  <2>1. PICK n \in NodeNonces : Sign(t, transfers[t].lane, n + transfers[t].lane * Spread)
    BY <1>3 DEF TransferAnswered
  <2>2. transfers[t].lane \in Lanes
    BY DEF BatcherTypeOK, Call
  <2>3. n + transfers[t].lane * Spread \in Nat
    <3>1. transfers[t].lane \in Nat /\ n \in Nat /\ Spread \in Nat
      BY <2>2, Params DEF Lanes
    <3>2. transfers[t].lane * Spread \in Nat
      BY <3>1
    <3> QED
      BY <3>1, <3>2
  <2>4. nonces' \in [Lanes -> Nat \union {Unset}] /\ transfers' \in [Txs -> Call]
    BY <2>1, <2>2, <2>3, SignTypes
  <2> QED
    BY <1>3, <2>4 DEF BatcherTypeOK, TransferAnswered, elsewhere
<1>4. CASE TransferFails(t)
  BY <1>4 DEF BatcherTypeOK, TransferFails, Call, elsewhere
<1>5. CASE Put(t)
  <2>1. queue' \in Seq(Txs)
    BY <1>5 DEF BatcherTypeOK, Put
  <2>2. transfers' \in [Txs -> Call]
    BY <1>5 DEF BatcherTypeOK, Put, Call
  <2> QED
    BY <1>5, <2>1, <2>2 DEF BatcherTypeOK, Put, wallet
<1>6. CASE PutTimesOut(t)
  BY <1>6 DEF BatcherTypeOK, PutTimesOut, Call, wallet, elsewhere
<1> QED
  BY <1>1, <1>2, <1>3, <1>4, <1>5, <1>6 DEF transfer

\* Results for a batch, one each or none at all, are set on futures.
ResultsOf(results) == results = <<>> \/ results \in [1..Len(flusher.batch) -> Result]

LEMMA ResolveTypes ==
  ASSUME BatcherTypeOK, NEW results, ResultsOf(results), Resolve(results)
  PROVE  /\ futures' \in [Txs -> Result \union {Unset}]
         /\ flusher' \in Flusher
<1> DEFINE of(t) == {i \in DOMAIN results : flusher.batch[i] = t}
<1>1. \A t \in Txs : of(t) # {} => results[CHOOSE i \in of(t) : TRUE] \in Result
  <2>1. \A i \in DOMAIN results : results[i] \in Result
    BY DEF ResultsOf
  <2> QED
    BY <2>1
<1>2. futures' = [t \in Txs |-> IF of(t) = {} THEN futures[t] ELSE results[CHOOSE i \in of(t) : TRUE]]
  BY DEF Resolve
<1>3. futures' \in [Txs -> Result \union {Unset}]
  BY <1>1, <1>2 DEF BatcherTypeOK
<1>4. flusher' \in Flusher
  BY DEF Resolve, NewBatch, Flusher
<1> QED
  BY <1>3, <1>4

LEMMA BatchType ==
  ASSUME BatcherTypeOK
  PROVE  /\ flusher.batch \in Seq(Txs) /\ Len(flusher.batch) \in Nat
         /\ \A i \in 1..Len(flusher.batch) : flusher.batch[i] \in Txs
  BY DEF BatcherTypeOK, Flusher

LEMMA ErrorTypes ==
  ASSUME BatcherTypeOK
  PROVE  ResultsOf(Errors(flusher.batch))
  BY DEF ResultsOf, Errors, Result

LEMMA AnswerTypes ==
  ASSUME BatcherTypeOK
  PROVE  ResultsOf(Results(tx_hexes(flusher.batch)))
  BY BatchType DEF ResultsOf, Results, tx_hexes, Result

LEMMA NodeTypes ==
  ASSUME BatcherTypeOK, Node
  PROVE  accepted' \subseteq Txs /\ accepted \subseteq accepted'
<1>1. PICK new \in SUBSET {flusher.batch[i] : i \in DOMAIN flusher.batch} : accepted' = accepted \union new
  BY DEF Node
<1>2. new \subseteq Txs
  BY <1>1, BatchType
<1> QED
  BY <1>1, <1>2 DEF BatcherTypeOK

LEMMA ThreadTypes ==
  ASSUME BatcherTypeOK, flush_loop
  PROVE  BatcherTypeOK'
<1>1. CASE LoopTop
  BY <1>1 DEF BatcherTypeOK, LoopTop, Flusher, wallet
<1>2. CASE Get
  <2>1. Head(queue) \in Txs /\ Tail(queue) \in Seq(Txs)
    BY <1>2 DEF BatcherTypeOK, Get
  <2>2. Append(flusher.batch, Head(queue)) \in Seq(Txs)
    BY <2>1, BatchType
  <2> QED
    BY <1>2, <2>1, <2>2 DEF BatcherTypeOK, Get, Flusher, wallet
<1>3. CASE EndBatch
  <2>1. flusher'.pc \in {"top", "sending", "dead"} /\ flusher' = [flusher EXCEPT !.pc = flusher'.pc]
    BY <1>3 DEF BatcherTypeOK, EndBatch, Flusher
  <2>2. flusher' \in Flusher
    BY <2>1 DEF BatcherTypeOK, Flusher
  <2> QED
    BY <1>3, <2>2 DEF BatcherTypeOK, EndBatch, wallet
<1>4. CASE Acknowledged
  <2>1. futures' \in [Txs -> Result \union {Unset}] /\ flusher' \in Flusher
    BY <1>4, ResolveTypes, AnswerTypes DEF Acknowledged
  <2> QED
    BY <1>4, <2>1, NodeTypes DEF BatcherTypeOK, Acknowledged, wallet
<1>5. CASE Refused
  <2>1. futures' \in [Txs -> Result \union {Unset}] /\ flusher' \in Flusher
    BY <1>5, ResolveTypes, ErrorTypes DEF Refused
  <2> QED
    BY <1>5, <2>1 DEF BatcherTypeOK, Refused, wallet
<1>6. CASE AttemptFails
  <2>1. flusher' \in Flusher
    <3>1. flusher \in Flusher /\ flusher.attempt + 1 \in Nat
      BY DEF BatcherTypeOK, Flusher
    <3> QED
      BY <1>6, <3>1 DEF AttemptFails, Flusher
  <2> QED
    BY <1>6, <2>1, NodeTypes DEF BatcherTypeOK, AttemptFails, wallet
<1>7. CASE GiveUp
  <2>1. futures' \in [Txs -> Result \union {Unset}] /\ flusher' \in Flusher
    BY <1>7, ResolveTypes, ErrorTypes DEF GiveUp
  <2> QED
    BY <1>7, <2>1 DEF BatcherTypeOK, GiveUp, wallet
<1> QED
  BY <1>1, <1>2, <1>3, <1>4, <1>5, <1>6, <1>7 DEF flush_loop

LEMMA CloseTypes ==
  ASSUME BatcherTypeOK, close
  PROVE  BatcherTypeOK'
<1>1. stop' \in BOOLEAN /\ closer' \in Closer
  <2>1. closer \in Closer /\ stop \in BOOLEAN
    BY DEF BatcherTypeOK
  <2>2. CASE Close
    BY <2>1, <2>2 DEF Close, Closer
  <2>3. CASE FlushReturns \/ FlushTimesOut \/ Joined
    BY <2>1, <2>3 DEF FlushReturns, FlushTimesOut, Joined, Closer
  <2> QED
    BY <2>2, <2>3 DEF close
<1>2. UNCHANGED <<answersLists, unserializable, lane, nonces, lock, transfers, queue, futures, flusher, accepted>>
  BY DEF close, Close, FlushReturns, FlushTimesOut, Joined, open, wallet
<1> QED
  BY <1>1, <1>2 DEF BatcherTypeOK

(***************************************************************************)
(* Type correctness.                                                       *)
(***************************************************************************)
LEMMA InitTypes == BatcherInit => BatcherTypeOK
<1> SUFFICES ASSUME BatcherInit PROVE BatcherTypeOK
  OBVIOUS
<1>1. flusher \in Flusher /\ closer \in Closer /\ transfers \in [Txs -> Call]
  BY LaneType DEF BatcherInit, Flusher, Closer, Call
<1>2. nonces \in [Lanes -> Nat \union {Unset}] /\ futures \in [Txs -> Result \union {Unset}]
  BY DEF BatcherInit
<1>3. unserializable \subseteq Txs /\ accepted \subseteq Txs /\ queue \in Seq(Txs)
  BY DEF BatcherInit
<1> QED
  BY <1>1, <1>2, <1>3, LaneType DEF BatcherInit, BatcherTypeOK

LEMMA StepTypes == BatcherTypeOK /\ [BatcherNext]_batcherVars => BatcherTypeOK'
<1> SUFFICES ASSUME BatcherTypeOK, [BatcherNext]_batcherVars PROVE BatcherTypeOK'
  OBVIOUS
<1>1. CASE UNCHANGED batcherVars
  BY <1>1 DEF batcherVars, wallet, BatcherTypeOK
<1>2. ASSUME NEW t \in Txs, transfer(t) PROVE BatcherTypeOK'
  BY <1>2, WalletTypes
<1>3. CASE flush_loop
  BY <1>3, ThreadTypes
<1>4. CASE close
  BY <1>4, CloseTypes
<1> QED
  BY <1>1, <1>2, <1>3, <1>4 DEF BatcherNext

\* Every reachable state is of the declared types.
THEOREM TypeCorrect == BatcherSpec => []BatcherTypeOK
<1>1. BatcherInit => BatcherTypeOK
  BY InitTypes
<1>2. BatcherTypeOK /\ [BatcherNext]_batcherVars => BatcherTypeOK'
  BY StepTypes
<1> QED
  BY <1>1, <1>2, PTL DEF BatcherSpec

-------------------------------------------------------------------------------
(***************************************************************************)
(* The wallet.                                                             *)
(***************************************************************************)

\* Who asks the node holds the lock, and its lane has no counter.
AskerHoldsLock ==
  \A t \in Txs : transfers[t].pc = "asking" => lock = t /\ nonces[transfers[t].lane] = Unset

\* A lane's counter is beyond every nonce that was signed for it.
BelowCounter ==
  \A t \in Txs : Signed(t) => /\ nonces[transfers[t].lane] # Unset
                              /\ transfers[t].nonce < nonces[transfers[t].lane]

WInv == BatcherTypeOK /\ AskerHoldsLock /\ BelowCounter /\ NoNonceReused

LEMMA CallTypes ==
  ASSUME BatcherTypeOK, NEW t \in Txs
  PROVE  /\ transfers[t] \in Call /\ transfers[t].lane \in Lanes /\ transfers[t].nonce \in Nat
         /\ nonces[transfers[t].lane] \in Nat \union {Unset}
  BY DEF BatcherTypeOK, Call

\* A nonce that the lane's counter has not passed is signed, and the counter passes it.
LEMMA SignKeeps ==
  ASSUME WInv, NEW t \in Txs, NEW l \in Lanes, NEW n \in Nat, Sign(t, l, n), UNCHANGED unserializable,
         \/ transfers[t].pc = "idle" /\ lock = Unset /\ nonces[l] = n
         \/ transfers[t].pc = "asking" /\ transfers[t].lane = l
  PROVE  AskerHoldsLock' /\ BelowCounter' /\ NoNonceReused'
<1>1. /\ transfers'[t] = [pc |-> "signed", lane |-> l, nonce |-> n]
      /\ nonces'[l] = n + 1 /\ n + 1 # Unset
      /\ \A u \in Txs \ {t} : transfers'[u] = transfers[u]
      /\ \A m \in Lanes \ {l} : nonces'[m] = nonces[m]
  BY Params DEF Sign, NextNonce, WInv, BatcherTypeOK
<1>2. \A u \in Txs \ {t} : transfers[u].pc # "asking"
  BY Params DEF WInv, AskerHoldsLock
<1>3. AskerHoldsLock'
  BY <1>1, <1>2 DEF AskerHoldsLock
<1>4. \A u \in Txs \ {t} : Signed(u) /\ transfers[u].lane = l => transfers[u].nonce < n
  BY DEF WInv, BelowCounter, AskerHoldsLock
<1>5. BelowCounter'
  <2> SUFFICES ASSUME NEW u \in Txs, Signed(u)'
               PROVE  nonces'[transfers'[u].lane] # Unset /\ transfers'[u].nonce < nonces'[transfers'[u].lane]
    BY DEF BelowCounter
  <2>1. CASE u = t
    BY <1>1, <2>1
  <2>2. CASE u # t
    <3>1. transfers'[u] = transfers[u] /\ Signed(u)
      BY <1>1, <2>2 DEF Signed
    <3>2. CASE transfers[u].lane = l
      <4>1. transfers[u].nonce < n /\ transfers[u].nonce \in Nat
        BY <1>4, <2>2, <3>1, <3>2, CallTypes DEF WInv
      <4> QED
        BY <1>1, <3>1, <3>2, <4>1
    <3>3. CASE transfers[u].lane # l
      BY <1>1, <3>1, <3>3, CallTypes DEF WInv, BelowCounter
    <3> QED
      BY <3>2, <3>3
  <2> QED
    BY <2>1, <2>2
<1>6. NoNonceReused'
  <2>1. \A u \in Txs \ {t} : Signed(u)' => Signed(u) /\ transfers'[u] = transfers[u]
    BY <1>1 DEF Signed
  <2>2. \A u \in Txs \ {t} : Signed(u)' => ~ SameSlot(t, u)'
    <3> SUFFICES ASSUME NEW u \in Txs \ {t}, Signed(u)', SameSlot(t, u)' PROVE FALSE
      OBVIOUS
    <3>1. Signed(u) /\ transfers[u].lane = l /\ transfers[u].nonce = n
      BY <1>1, <2>1 DEF SameSlot
    <3> QED
      BY <1>4, <3>1
  <2>3. \A u \in Txs \ {t} : Signed(u)' => ~ SameSlot(u, t)'
    BY <2>2 DEF SameSlot
  <2>4. \A u, v \in Txs \ {t} : Signed(u)' /\ Signed(v)' /\ SameSlot(u, v)' => u = v
    BY <2>1 DEF WInv, NoNonceReused, SameSlot
  <2> QED
    BY <2>2, <2>3, <2>4 DEF NoNonceReused
<1> QED
  BY <1>3, <1>5, <1>6

\* A step that changes no counter, signs nothing and lets nobody ask keeps the invariant.
LEMMA NoSignKeeps ==
  ASSUME WInv, UNCHANGED <<nonces, unserializable>>,
         \A t \in Txs : /\ Signed(t)' => Signed(t) /\ transfers'[t].lane = transfers[t].lane /\ transfers'[t].nonce = transfers[t].nonce
                        /\ transfers'[t].pc = "asking" => lock' = t /\ nonces[transfers'[t].lane] = Unset
  PROVE  AskerHoldsLock' /\ BelowCounter' /\ NoNonceReused'
<1>1. AskerHoldsLock'
  BY DEF AskerHoldsLock
<1>2. BelowCounter'
  BY DEF WInv, BelowCounter
<1>3. NoNonceReused'
  BY DEF WInv, NoNonceReused, SameSlot
<1> QED
  BY <1>1, <1>2, <1>3

LEMMA WalletKeeps ==
  ASSUME WInv, NEW t \in Txs, transfer(t)
  PROVE  AskerHoldsLock' /\ BelowCounter' /\ NoNonceReused'
<1> USE DEF WInv
<1>1. CASE Transfer(t)
  <2>1. nonces[lane] \in Nat /\ lane \in Lanes
    BY <1>1 DEF BatcherTypeOK, Transfer
  <2> QED
    BY <1>1, <2>1, SignKeeps DEF Transfer, elsewhere
<1>2. CASE TransferAnswered(t)
  <2>1. PICK n \in NodeNonces : Sign(t, transfers[t].lane, n + transfers[t].lane * Spread)
    BY <1>2 DEF TransferAnswered
  <2>2. transfers[t].lane \in Lanes
    BY CallTypes
  <2>3. transfers[t].lane \in Nat /\ n \in Nat /\ Spread \in Nat
    BY <2>2, Params DEF Lanes
  <2>4. transfers[t].lane * Spread \in Nat
    BY <2>3
  <2>5. n + transfers[t].lane * Spread \in Nat
    BY <2>3, <2>4
  <2> QED
    BY <1>2, <2>1, <2>2, <2>5, SignKeeps DEF TransferAnswered, elsewhere
<1>3. CASE TransferAsks(t)
  <2>1. \A u \in Txs : transfers[u].pc # "asking"
    BY <1>3, Params DEF TransferAsks, AskerHoldsLock
  <2>2. /\ transfers'[t] = [pc |-> "asking", lane |-> lane, nonce |-> 0]
        /\ \A u \in Txs \ {t} : transfers'[u] = transfers[u]
    BY <1>3 DEF TransferAsks, BatcherTypeOK
  <2> QED
    BY <1>3, <2>1, <2>2, NoSignKeeps DEF TransferAsks, Signed, elsewhere
<1>4. CASE TransferFails(t)
  <2>1. \A u \in Txs \ {t} : transfers[u].pc # "asking"
    BY <1>4 DEF TransferFails, AskerHoldsLock
  <2>2. transfers'[t] = [transfers[t] EXCEPT !.pc = "failed"] /\ \A u \in Txs \ {t} : transfers'[u] = transfers[u]
    BY <1>4 DEF TransferFails, BatcherTypeOK
  <2>3. transfers'[t].pc = "failed"
    BY <2>2, CallTypes DEF Call
  <2> QED
    BY <1>4, <2>1, <2>2, <2>3, NoSignKeeps DEF TransferFails, Signed, elsewhere
<1>5. CASE Put(t) \/ PutTimesOut(t)
  <2>1. /\ Ready(t) /\ UNCHANGED <<nonces, lock, unserializable>>
        /\ transfers'[t] \in {[transfers[t] EXCEPT !.pc = "queued"], [transfers[t] EXCEPT !.pc = "full"]}
        /\ \A u \in Txs \ {t} : transfers'[u] = transfers[u]
    BY <1>5 DEF Put, PutTimesOut, BatcherTypeOK, wallet, elsewhere
  <2>2. /\ transfers'[t].pc \in {"queued", "full"}
        /\ transfers'[t].lane = transfers[t].lane /\ transfers'[t].nonce = transfers[t].nonce
    BY <2>1, CallTypes DEF Call
  <2> QED
    BY <2>1, <2>2, NoSignKeeps DEF AskerHoldsLock, Signed, Ready
<1> QED
  BY <1>1, <1>2, <1>3, <1>4, <1>5 DEF transfer

\* The thread and close leave the wallet alone.
LEMMA OthersKeepWallet ==
  ASSUME flush_loop \/ close \/ UNCHANGED batcherVars
  PROVE  UNCHANGED <<nonces, lock, transfers, unserializable>>
<1>1. CASE flush_loop
  BY <1>1 DEF flush_loop, LoopTop, Get, EndBatch, Acknowledged, Refused, AttemptFails, GiveUp, wallet
<1>2. CASE close
  BY <1>2 DEF close, Close, FlushReturns, FlushTimesOut, Joined, open, wallet
<1>3. CASE UNCHANGED batcherVars
  BY <1>3 DEF batcherVars, wallet
<1> QED
  BY <1>1, <1>2, <1>3

LEMMA WalletStep == WInv /\ [BatcherNext]_batcherVars => WInv'
<1> SUFFICES ASSUME WInv, [BatcherNext]_batcherVars PROVE WInv'
  OBVIOUS
<1>1. BatcherTypeOK'
  BY StepTypes DEF WInv
<1>2. ASSUME NEW t \in Txs, transfer(t) PROVE WInv'
  BY <1>1, <1>2, WalletKeeps DEF WInv
<1>3. CASE flush_loop \/ close \/ UNCHANGED batcherVars
  <2>1. UNCHANGED <<nonces, lock, transfers, unserializable>>
    BY <1>3, OthersKeepWallet
  <2> QED
    BY <1>1, <2>1 DEF WInv, AskerHoldsLock, BelowCounter, NoNonceReused, Signed, SameSlot
<1> QED
  BY <1>2, <1>3 DEF BatcherNext

\* No two transfers are signed with one lane and nonce (transfer, lines 213-225).
THEOREM NoncesAreFresh == BatcherSpec => []NoNonceReused
<1>1. BatcherInit => WInv
  <2>1. BatcherInit => AskerHoldsLock /\ BelowCounter /\ NoNonceReused
    BY DEF BatcherInit, AskerHoldsLock, BelowCounter, NoNonceReused, Signed
  <2> QED
    BY <2>1, InitTypes DEF WInv
<1>2. WInv /\ [BatcherNext]_batcherVars => WInv'
  BY WalletStep
<1>3. WInv => NoNonceReused
  BY DEF WInv
<1> QED
  BY <1>1, <1>2, <1>3, PTL DEF BatcherSpec

-------------------------------------------------------------------------------
(***************************************************************************)
(* The futures.                                                            *)
(***************************************************************************)

\* A result is about its transaction or about none, and a success is on the chain.
Honest(t, result, chain) ==
  result.of \in {t, Unset} /\ (result.ok => result.of = t /\ t \in chain)

LEMMA ResolveOwn ==
  ASSUME BatcherTypeOK, ResultIsOwn, accepted \subseteq accepted', NEW results, Resolve(results),
         \A i \in DOMAIN results : Honest(flusher.batch[i], results[i], accepted')
  PROVE  ResultIsOwn'
<1> DEFINE of(t) == {i \in DOMAIN results : flusher.batch[i] = t}
<1>1. futures' = [t \in Txs |-> IF of(t) = {} THEN futures[t] ELSE results[CHOOSE i \in of(t) : TRUE]]
  BY DEF Resolve
<1>2. SUFFICES ASSUME NEW t \in Txs, futures'[t] # Unset
               PROVE  Honest(t, futures'[t], accepted')
  BY DEF ResultIsOwn, Honest
<1>3. CASE of(t) = {}
  <2>1. futures'[t] = futures[t]
    BY <1>1, <1>3
  <2> QED
    BY <1>2, <2>1 DEF ResultIsOwn, Honest
<1>4. CASE of(t) # {}
  <2>1. PICK i \in of(t) : futures'[t] = results[i]
    BY <1>1, <1>4
  <2> QED
    BY <2>1
<1> QED
  BY <1>3, <1>4

LEMMA OwnStep == BatcherTypeOK /\ ResultIsOwn /\ [BatcherNext]_batcherVars => ResultIsOwn'
<1> SUFFICES ASSUME BatcherTypeOK, ResultIsOwn, [BatcherNext]_batcherVars PROVE ResultIsOwn'
  OBVIOUS
<1>1. CASE Acknowledged
  <2>1. \A i \in DOMAIN Results(tx_hexes(flusher.batch)) :
          Honest(flusher.batch[i], Results(tx_hexes(flusher.batch))[i], accepted')
    <3>1. CASE answersLists
      <4>1. Results(tx_hexes(flusher.batch)) =
              [i \in 1..Len(flusher.batch) |->
                 [of |-> flusher.batch[i], ok |-> flusher.batch[i] \in accepted' \ accepted]]
        BY <3>1 DEF Results, tx_hexes
      <4> DEFINE R == Results(tx_hexes(flusher.batch))
      <4>2. DOMAIN R = 1..Len(flusher.batch)
        BY <4>1
      <4>3. \A i \in DOMAIN R : R[i].of = flusher.batch[i] /\ (R[i].ok => flusher.batch[i] \in accepted')
        <5> SUFFICES ASSUME NEW i \in 1..Len(flusher.batch)
                     PROVE  R[i].of = flusher.batch[i] /\ (R[i].ok => flusher.batch[i] \in accepted')
          BY <4>2
        <5> DEFINE t == flusher.batch[i]  new == t \in accepted' \ accepted
        <5>1. R[i] = [of |-> t, ok |-> new]
          BY <4>1
        <5> HIDE DEF R, t, new
        <5>2. R[i].of = t /\ R[i].ok = new
          BY <5>1
        <5> QED
          BY <5>2 DEF t, new
      <4> HIDE DEF R
      <4>4. \A i \in DOMAIN R : Honest(flusher.batch[i], R[i], accepted')
        BY <4>3 DEF Honest
      <4> QED
        BY <4>4 DEF R
    <3>2. CASE ~answersLists
      BY <3>2 DEF Results
    <3> QED
      BY <3>1, <3>2
  <2> QED
    BY <1>1, <2>1, ResolveOwn, NodeTypes DEF Acknowledged
<1>2. CASE Refused \/ GiveUp
  <2>1. \A i \in DOMAIN Errors(flusher.batch) : Honest(flusher.batch[i], Errors(flusher.batch)[i], accepted')
    BY DEF Errors, Honest
  <2> QED
    BY <1>2, <2>1, ResolveOwn DEF Refused, GiveUp
<1>3. CASE AttemptFails
  <2>1. UNCHANGED futures /\ accepted \subseteq accepted'
    BY <1>3, NodeTypes DEF AttemptFails
  <2> QED
    BY <2>1 DEF ResultIsOwn
<1>4. CASE LoopTop \/ Get \/ EndBatch \/ UNCHANGED batcherVars
  BY <1>4 DEF LoopTop, Get, EndBatch, batcherVars, ResultIsOwn
<1>5. CASE close
  BY <1>5 DEF close, Close, FlushReturns, FlushTimesOut, Joined, open, ResultIsOwn
<1>6. ASSUME NEW t \in Txs, transfer(t) PROVE ResultIsOwn'
  BY <1>6 DEF transfer, Transfer, TransferAsks, TransferAnswered, TransferFails, Put, PutTimesOut,
              elsewhere, ResultIsOwn
<1> QED
  BY <1>1, <1>2, <1>3, <1>4, <1>5, <1>6 DEF BatcherNext, flush_loop

\* A caller is told of its own transaction (_send_batch, zip of batch and results).
THEOREM ResultsAreOwn == BatcherSpec => []ResultIsOwn
<1>1. BatcherInit => BatcherTypeOK /\ ResultIsOwn
  BY InitTypes DEF BatcherInit, ResultIsOwn
<1>2. (BatcherTypeOK /\ ResultIsOwn) /\ [BatcherNext]_batcherVars => (BatcherTypeOK /\ ResultIsOwn)'
  BY StepTypes, OwnStep
<1> QED
  BY <1>1, <1>2, PTL DEF BatcherSpec

-------------------------------------------------------------------------------
(***************************************************************************)
(* No transaction is lost between the queue, the thread and its future.    *)
(***************************************************************************)

\* Between batches the thread has none.
Rest == flusher.pc \in {"top", "stopped"} => flusher.batch = <<>>

\* Only a queued transaction has a result.
NoneEarly == \A t \in Txs : futures[t] # Unset => transfers[t].pc = "queued"

FInv == BatcherTypeOK /\ Rest /\ NoneEarly /\ NothingLost

\* A step that leaves queue, batch and futures alone, and queues nobody.
LEMMA StillHeld ==
  ASSUME FInv, Rest', UNCHANGED <<queue, futures, answersLists, unserializable>>, flusher'.batch = flusher.batch,
         flusher'.pc = "dead" => flusher.pc = "dead" \/ ~Serializable(flusher.batch),
         \A t \in Txs : transfers'[t].pc = "queued" <=> transfers[t].pc = "queued"
  PROVE  NoneEarly' /\ NothingLost'
<1>0. NoneEarly'
  BY DEF FInv, NoneEarly
<1>1. \A t \in Txs : Queued(t)' = Queued(t) /\ Carried(t)' = Carried(t)
  BY DEF Queued, Carried
<1>2. \A t \in Txs : flusher'.pc = "stopped" => Carried(t)' = {}
  BY <1>1 DEF Rest, Carried
<1>3. flusher'.pc = "dead" => ~Serializable(flusher.batch)'
  BY DEF FInv, NothingLost, Serializable
<1> QED
  BY <1>0, <1>1, <1>2, <1>3 DEF FInv, NothingLost, Held, OneOf

LEMMA PutKeeps ==
  ASSUME FInv, NEW u \in Txs, Put(u)
  PROVE  NoneEarly' /\ NothingLost'
<1>1. /\ UNCHANGED <<futures, flusher, answersLists, unserializable>> /\ queue' = Append(queue, u)
      /\ transfers[u].pc # "queued" /\ transfers'[u].pc = "queued"
      /\ \A t \in Txs \ {u} : transfers'[t] = transfers[t]
  <2>1. transfers' = [transfers EXCEPT ![u] = [transfers[u] EXCEPT !.pc = "queued"]] /\ transfers[u] \in Call
    BY CallTypes DEF Put, FInv
  <2> QED
    BY <2>1 DEF Put, Ready, Call, FInv, BatcherTypeOK
<1>2. /\ Len(queue) \in Nat /\ Len(queue') = Len(queue) + 1
      /\ \A i \in 1..Len(queue) : queue'[i] = queue[i]
      /\ queue'[Len(queue) + 1] = u
  BY <1>1 DEF FInv, BatcherTypeOK
<1>3. \A t \in Txs \ {u} : Queued(t)' = Queued(t)
  BY <1>2 DEF Queued
<1>4. ~ Held(u)
  BY <1>1 DEF FInv, NothingLost
<1>5. Queued(u)' = {Len(queue) + 1}
  BY <1>2, <1>4 DEF Queued, Held
<1>6. \A t \in Txs : Carried(t)' = Carried(t)
  BY <1>1 DEF Carried
<1>7. futures[u] = Unset
  BY <1>1 DEF FInv, NoneEarly
<1>8. NoneEarly'
  BY <1>1 DEF FInv, NoneEarly
<1>9. ASSUME NEW t \in Txs \ {u}
      PROVE  transfers'[t] = transfers[t] /\ Queued(t)' = Queued(t) /\ Carried(t)' = Carried(t) /\ (Held(t)' <=> Held(t))
  BY <1>1, <1>3, <1>6 DEF Held
<1>10. Carried(u)' = {} /\ Queued(u)' = {Len(queue) + 1} /\ Held(u)'
  BY <1>4, <1>5, <1>6 DEF Held
<1> QED
  BY <1>1, <1>7, <1>8, <1>9, <1>10 DEF FInv, NothingLost, OneOf, Serializable

\* The head of the queue goes to the end of the batch.
LEMMA GetKeeps ==
  ASSUME FInv, Get
  PROVE  NoneEarly' /\ NothingLost'
<1>0. PICK u \in Txs : u = Head(queue)
  BY DEF Get, FInv, BatcherTypeOK
<1>1. /\ UNCHANGED <<futures, transfers, answersLists>> /\ queue # <<>>
      /\ queue' = Tail(queue) /\ flusher'.batch = Append(flusher.batch, u) /\ flusher'.pc = "collecting"
  BY <1>0 DEF Get, FInv, BatcherTypeOK, Flusher
<1>2. /\ Len(queue) \in Nat \ {0} /\ Len(queue') = Len(queue) - 1 /\ u = queue[1] /\ u \in Txs
      /\ \A i \in 1..(Len(queue) - 1) : queue'[i] = queue[i + 1]
  BY <1>0, <1>1 DEF FInv, BatcherTypeOK
<1>3. /\ Len(flusher.batch) \in Nat /\ Len(flusher'.batch) = Len(flusher.batch) + 1
      /\ \A i \in 1..Len(flusher.batch) : flusher'.batch[i] = flusher.batch[i]
      /\ flusher'.batch[Len(flusher.batch) + 1] = u
  BY <1>1, <1>2, BatchType DEF FInv
<1>4. \A t \in Txs : \A i \in Queued(t)' : i + 1 \in Queued(t) /\ i \in Nat
  BY <1>2 DEF Queued
<1>5. \A t \in Txs : OneOf(Queued(t)) => OneOf(Queued(t)')
  BY <1>4 DEF OneOf
<1>6. 1 \in Queued(u)
  BY <1>2 DEF Queued
<1>7. Carried(u) = {} /\ OneOf(Queued(u)) /\ Held(u)
  BY <1>2, <1>6 DEF FInv, NothingLost, Held
<1>8. Queued(u)' = {}
  <2> SUFFICES ASSUME NEW i \in Queued(u)' PROVE FALSE
    OBVIOUS
  <2>1. i \in 1..(Len(queue) - 1) /\ i + 1 \in Queued(u)
    BY <1>2, <1>4 DEF Queued
  <2> QED
    BY <1>6, <1>7, <2>1 DEF OneOf
<1>9. Carried(u)' = {Len(flusher.batch) + 1}
  BY <1>3, <1>7 DEF Carried
<1>10. \A t \in Txs \ {u} : Carried(t)' = Carried(t)
  BY <1>3 DEF Carried
<1>11. ASSUME NEW t \in Txs \ {u} PROVE Queued(t)' = {} <=> Queued(t) = {}
  <2>1. ASSUME NEW i \in Queued(t) PROVE Queued(t)' # {}
    <3>1. i \in 1..Len(queue) /\ queue[i] = t /\ i # 1
      BY <1>2 DEF Queued
    <3>2. i - 1 \in 1..(Len(queue) - 1) /\ (i - 1) + 1 = i
      BY <3>1, <1>2
    <3>3. queue'[i - 1] = t
      BY <1>2, <3>1, <3>2
    <3>4. i - 1 \in Queued(t)'
      BY <1>2, <3>2, <3>3 DEF Queued
    <3> QED
      BY <3>4
  <2> QED
    BY <2>1, <1>4
<1>12. NoneEarly'
  BY <1>1 DEF FInv, NoneEarly
<1>13. NothingLost'
  <2> SUFFICES ASSUME NEW t \in Txs
               PROVE  /\ OneOf(Queued(t)') /\ OneOf(Carried(t)') /\ (Queued(t)' = {} \/ Carried(t)' = {})
                      /\ Held(t)' => transfers'[t].pc = "queued" /\ futures'[t] = Unset
                      /\ answersLists' /\ transfers'[t].pc = "queued" /\ futures'[t] = Unset => Held(t)'
                      /\ flusher'.pc = "stopped" => Carried(t)' = {}
    BY <1>1 DEF NothingLost, OneOf
  <2>1. CASE t = u
    BY <1>1, <1>2, <1>7, <1>8, <1>9, <2>1 DEF FInv, NothingLost, Held, OneOf
  <2>2. CASE t # u
    <3>1. Carried(t)' = Carried(t) /\ (Queued(t)' = {} <=> Queued(t) = {}) /\ (OneOf(Queued(t)) => OneOf(Queued(t)'))
      BY <1>5, <1>10, <1>11, <2>2
    <3>2. Held(t)' <=> Held(t)
      BY <3>1 DEF Held
    <3> QED
      BY <1>1, <3>1, <3>2 DEF FInv, NothingLost
  <2> QED
    BY <2>1, <2>2
<1> QED
  BY <1>12, <1>13

\* The futures of the batch are set, all of them or, without a list from the node, none.
LEMMA ResolveKeeps ==
  ASSUME FInv, UNCHANGED <<queue, transfers, answersLists>>, NEW results, Resolve(results),
         \/ results \in [1..Len(flusher.batch) -> Result]
         \/ results = <<>> /\ ~answersLists
  PROVE  Rest' /\ NoneEarly' /\ NothingLost'
<1> DEFINE of(t) == {i \in DOMAIN results : flusher.batch[i] = t}
<1>1. futures' = [t \in Txs |-> IF of(t) = {} THEN futures[t] ELSE results[CHOOSE i \in of(t) : TRUE]]
  BY DEF Resolve
<1>2. flusher'.batch = <<>> /\ flusher'.pc = "top"
  BY DEF Resolve, NewBatch
<1>3. \A t \in Txs : of(t) \subseteq Carried(t) /\ (answersLists => of(t) = Carried(t))
  BY DEF Carried
<1>4. ASSUME NEW t \in Txs, of(t) # {} PROVE futures'[t] # Unset /\ Carried(t) # {}
  <2>1. PICK i \in of(t) : futures'[t] = results[i]
    BY <1>1, <1>4
  <2>2. results[i] \in Result
    BY <2>1
  <2> QED
    BY <1>3, <1>4, <2>1, <2>2, Params
<1>5. \A t \in Txs : of(t) = {} => futures'[t] = futures[t]
  BY <1>1
<1> HIDE DEF of
<1>6. \A t \in Txs : Carried(t)' = {} /\ Queued(t)' = Queued(t)
  BY <1>2 DEF Carried, Queued
<1>7. Rest'
  BY <1>2 DEF Rest
<1>8. NoneEarly'
  BY <1>4, <1>5 DEF FInv, NoneEarly, NothingLost, Held
<1>9. ASSUME NEW t \in Txs
      PROVE  /\ OneOf(Queued(t)') /\ OneOf(Carried(t)') /\ (Queued(t)' = {} \/ Carried(t)' = {})
             /\ Held(t)' => transfers'[t].pc = "queued" /\ futures'[t] = Unset
             /\ answersLists' /\ transfers'[t].pc = "queued" /\ futures'[t] = Unset => Held(t)'
             /\ flusher'.pc = "stopped" => Carried(t)' = {}
  <2>1. OneOf(Queued(t)') /\ OneOf(Carried(t)')
    BY <1>6 DEF FInv, NothingLost, OneOf
  <2>2. Held(t)' => transfers'[t].pc = "queued" /\ futures'[t] = Unset
    <3> SUFFICES ASSUME Held(t)' PROVE transfers'[t].pc = "queued" /\ futures'[t] = Unset
      OBVIOUS
    <3>1. Queued(t) # {} /\ Carried(t) = {}
      BY <1>6 DEF Held, FInv, NothingLost
    <3>2. of(t) = {}
      BY <1>3, <3>1
    <3> QED
      BY <1>5, <3>1, <3>2 DEF Held, FInv, NothingLost
  <2>3. answersLists' /\ transfers'[t].pc = "queued" /\ futures'[t] = Unset => Held(t)'
    <3> SUFFICES ASSUME answersLists', transfers'[t].pc = "queued", futures'[t] = Unset PROVE Held(t)'
      OBVIOUS
    <3>1. of(t) = {}
      BY <1>4
    <3>2. Carried(t) = {} /\ futures[t] = Unset
      BY <1>3, <1>5, <3>1
    <3> QED
      BY <1>6, <3>2 DEF Held, FInv, NothingLost
  <2> QED
    BY <1>6, <2>1, <2>2, <2>3
<1>10. NothingLost'
  BY <1>2, <1>9 DEF NothingLost, OneOf
<1> QED
  BY <1>7, <1>8, <1>10

LEMMA FutureStep == FInv /\ [BatcherNext]_batcherVars => FInv'
<1> SUFFICES ASSUME FInv, [BatcherNext]_batcherVars PROVE FInv'
  OBVIOUS
<1>1. BatcherTypeOK'
  BY StepTypes DEF FInv
<1>2. CASE UNCHANGED batcherVars
  <2>1. Rest'
    BY <1>2 DEF batcherVars, FInv, Rest
  <2> QED
    BY <1>1, <1>2, <2>1, StillHeld DEF batcherVars, FInv
<1>3. ASSUME NEW t \in Txs, transfer(t) PROVE FInv'
  <2>1. CASE Put(t)
    <3>1. Rest'
      BY <2>1 DEF Put, FInv, Rest
    <3> QED
      BY <1>1, <2>1, <3>1, PutKeeps DEF FInv
  <2>2. CASE Transfer(t) \/ TransferAsks(t) \/ TransferAnswered(t) \/ TransferFails(t) \/ PutTimesOut(t)
    <3>1. /\ UNCHANGED <<queue, futures, answersLists, unserializable, flusher>>
          /\ transfers[t].pc # "queued"
      BY <2>2 DEF Transfer, TransferAsks, TransferAnswered, TransferFails, PutTimesOut, Ready, elsewhere
    <3>2. /\ transfers'[t].pc \in {"asking", "signed", "failed", "full"}
          /\ \A u \in Txs \ {t} : transfers'[u] = transfers[u]
      BY <2>2, CallTypes DEF Transfer, TransferAsks, TransferAnswered, TransferFails, PutTimesOut,
                             Sign, FInv, BatcherTypeOK, Call
    <3>3. Rest'
      BY <3>1 DEF FInv, Rest
    <3> QED
      BY <1>1, <3>1, <3>2, <3>3, StillHeld DEF FInv
  <2> QED
    BY <1>3, <2>1, <2>2 DEF transfer
<1>4. CASE close
  <2>1. UNCHANGED <<queue, futures, answersLists, unserializable, flusher, transfers>>
    BY <1>4 DEF close, Close, FlushReturns, FlushTimesOut, Joined, open
  <2>2. Rest'
    BY <2>1 DEF FInv, Rest
  <2> QED
    BY <1>1, <2>1, <2>2, StillHeld DEF FInv
<1>5. CASE LoopTop \/ EndBatch \/ AttemptFails
  <2>1. /\ UNCHANGED <<queue, futures, answersLists, unserializable, transfers>>
        /\ flusher'.batch = flusher.batch
        /\ flusher'.pc \in {"top", "stopped"} => flusher.batch = <<>>
        /\ flusher'.pc = "dead" => ~Serializable(flusher.batch)
    BY <1>5 DEF LoopTop, EndBatch, AttemptFails, Sending, FInv, Rest, BatcherTypeOK, Flusher
  <2>2. Rest'
    BY <2>1 DEF Rest
  <2> QED
    BY <1>1, <2>1, <2>2, StillHeld DEF FInv
<1>6. CASE Get
  <2>1. Rest'
    BY <1>6 DEF Get, Rest, FInv, BatcherTypeOK, Flusher
  <2> QED
    BY <1>1, <1>6, <2>1, GetKeeps DEF FInv
<1>7. CASE Refused \/ GiveUp
  <2>1. Errors(flusher.batch) \in [1..Len(flusher.batch) -> Result]
    BY DEF Errors, Result
  <2> QED
    BY <1>1, <1>7, <2>1, ResolveKeeps DEF FInv, Refused, GiveUp
<1>8. CASE Acknowledged
  <2> DEFINE results == Results(tx_hexes(flusher.batch))
  <2>1. \/ results \in [1..Len(flusher.batch) -> Result]
        \/ results = <<>> /\ ~answersLists
    BY BatchType DEF Results, tx_hexes, Result, FInv
  <2> QED
    BY <1>1, <1>8, <2>1, ResolveKeeps DEF FInv, Acknowledged
<1> QED
  BY <1>2, <1>3, <1>4, <1>5, <1>6, <1>7, <1>8 DEF BatcherNext, flush_loop

\* No transaction is lost, doubled or done twice between put, get and set.
THEOREM NoneIsLost == BatcherSpec => []NothingLost
<1>1. BatcherInit => FInv
  <2>1. BatcherInit => Rest /\ NoneEarly /\ NothingLost
    BY DEF BatcherInit, Rest, NoneEarly, NothingLost, Held, Queued, Carried, OneOf
  <2> QED
    BY <2>1, InitTypes DEF FInv
<1>2. FInv /\ [BatcherNext]_batcherVars => FInv'
  BY FutureStep
<1>3. FInv => NothingLost
  BY DEF FInv
<1> QED
  BY <1>1, <1>2, <1>3, PTL DEF BatcherSpec

-------------------------------------------------------------------------------
(***************************************************************************)
(* close.                                                                  *)
(***************************************************************************)

\* What was queued before the call stays queued or done, and after flush is not in the queue.
Owed ==
  \A t \in closer.owed : /\ transfers[t].pc = "queued"
                         /\ closer.pc \in {"joining", "closed"} => Queued(t) = {}

CInv == FInv /\ Owed

LEMMA OwedStep == CInv /\ [BatcherNext]_batcherVars => Owed'
<1> SUFFICES ASSUME CInv, [BatcherNext]_batcherVars PROVE Owed'
  OBVIOUS
<1>1. closer.owed \subseteq Txs /\ closer \in Closer
  BY DEF CInv, FInv, BatcherTypeOK, Closer
<1>2. CASE Close
  BY <1>2 DEF Close, open, Owed
<1>3. CASE FlushReturns
  <2>1. closer'.owed = closer.owed /\ UNCHANGED <<transfers, queue>> /\ queue = <<>>
    BY <1>1, <1>3 DEF FlushReturns, open, Drained, Closer
  <2> QED
    BY <2>1 DEF CInv, Owed, Queued
<1>4. CASE FlushTimesOut \/ Joined
  <2>1. /\ closer'.owed = closer.owed /\ UNCHANGED <<transfers, queue>>
        /\ closer'.pc \in {"joining", "closed"} => closer.pc \in {"joining", "closed"}
    BY <1>1, <1>4 DEF FlushTimesOut, Joined, open, Closer
  <2> QED
    BY <2>1 DEF CInv, Owed, Queued
<1>5. CASE Get
  <2>1. /\ UNCHANGED <<closer, transfers>> /\ queue # <<>> /\ queue' = Tail(queue) /\ queue \in Seq(Txs)
    BY <1>5 DEF Get, CInv, FInv, BatcherTypeOK
  <2>2. Len(queue) \in Nat \ {0} /\ Len(queue') = Len(queue) - 1
        /\ \A i \in 1..(Len(queue) - 1) : queue'[i] = queue[i + 1]
    BY <2>1
  <2>3. ASSUME NEW t \in Txs, Queued(t) = {} PROVE Queued(t)' = {}
    <3> SUFFICES ASSUME NEW i \in Queued(t)' PROVE FALSE
      OBVIOUS
    <3>1. i \in 1..(Len(queue) - 1) /\ queue[i + 1] = t
      BY <2>2 DEF Queued
    <3>2. i + 1 \in Queued(t)
      BY <2>2, <3>1 DEF Queued
    <3> QED
      BY <2>3, <3>2
  <2> QED
    BY <1>1, <2>1, <2>3 DEF CInv, Owed
<1>6. CASE LoopTop \/ EndBatch \/ Acknowledged \/ Refused \/ AttemptFails \/ GiveUp \/ UNCHANGED batcherVars
  <2>1. UNCHANGED <<closer, transfers, queue>>
    BY <1>6 DEF LoopTop, EndBatch, Acknowledged, Refused, AttemptFails, GiveUp, batcherVars
  <2> QED
    BY <2>1 DEF CInv, Owed, Queued
<1>7. ASSUME NEW u \in Txs, Put(u) PROVE Owed'
  <2>1. /\ UNCHANGED closer /\ queue' = Append(queue, u) /\ queue \in Seq(Txs) /\ transfers[u].pc # "queued"
        /\ \A t \in Txs \ {u} : transfers'[t] = transfers[t]
    BY <1>7 DEF Put, Ready, CInv, FInv, BatcherTypeOK
  <2>2. /\ Len(queue) \in Nat /\ Len(queue') = Len(queue) + 1
        /\ \A i \in 1..Len(queue) : queue'[i] = queue[i]
        /\ queue'[Len(queue) + 1] = u
    BY <2>1
  <2>3. \A t \in Txs \ {u} : Queued(t)' = Queued(t)
    BY <2>2 DEF Queued
  <2>4. u \notin closer.owed
    BY <2>1 DEF CInv, Owed
  <2> QED
    BY <1>1, <2>1, <2>3, <2>4 DEF CInv, Owed
<1>8. ASSUME NEW u \in Txs, transfer(u), ~ Put(u) PROVE Owed'
  <2>1. UNCHANGED <<closer, queue>> /\ transfers[u].pc # "queued" /\ \A t \in Txs \ {u} : transfers'[t] = transfers[t]
    BY <1>8 DEF transfer, Transfer, TransferAsks, TransferAnswered, TransferFails, PutTimesOut,
                Ready, Sign, elsewhere, CInv, FInv, BatcherTypeOK
  <2> QED
    BY <1>1, <2>1 DEF CInv, Owed, Queued
<1> QED
  BY <1>2, <1>3, <1>4, <1>5, <1>6, <1>7, <1>8 DEF BatcherNext, flush_loop, close

\* A close that returns leaves nothing of what was queued before it (close, flush).
THEOREM ClosedMeansDrained == BatcherSpec => []ClosedIsDrained
<1>1. BatcherInit => CInv
  <2>1. BatcherInit => Rest /\ NoneEarly /\ NothingLost /\ Owed
    BY DEF BatcherInit, Rest, NoneEarly, NothingLost, Held, Queued, Carried, OneOf, Owed
  <2> QED
    BY <2>1, InitTypes DEF CInv, FInv
<1>2. CInv /\ [BatcherNext]_batcherVars => CInv'
  BY FutureStep, OwedStep DEF CInv
<1>3. CInv => ClosedIsDrained
  <2> SUFFICES ASSUME CInv, closer.pc = "closed", answersLists, NEW t \in closer.owed
               PROVE  futures[t] # Unset \/ Carried(t) # {}
    BY DEF ClosedIsDrained
  <2>1. t \in Txs /\ transfers[t].pc = "queued" /\ Queued(t) = {}
    BY DEF CInv, Owed, FInv, BatcherTypeOK, Closer
  <2> QED
    BY <2>1 DEF CInv, FInv, NothingLost, Held
<1> QED
  BY <1>1, <1>2, <1>3, PTL DEF BatcherSpec
===============================================================================
