-------------------------------- MODULE Batcher --------------------------------
(***************************************************************************)
(* The batching client of the Python SDK                                   *)
(* (sdks/python/src/synapticchain/batcher.py).                             *)
(*                                                                         *)
(* Application threads sign transfers with a BatchingWallet, which hands   *)
(* out lanes and nonces under a lock, and put them in a bounded queue.     *)
(* One background thread takes them in batches, submits a batch in one RPC *)
(* call that is retried (rpc/__init__.py, _call), and sets the futures of  *)
(* its transactions.  close() stops that thread.                           *)
(***************************************************************************)
EXTENDS Naturals, Sequences

CONSTANTS
  Txs,             \* transactions, each from a thread of the application
  MaxLanes,        \* max_lanes
  Spread,          \* what the wallet adds to a lane's first nonce, per lane
  NodeNonces,      \* what a node may answer to get_nonce
  BatchSize, MaxQueue, Retries,
  Unset             \* no nonce, no holder of the lock, no result

Lanes == 0..(MaxLanes - 1)

\* A node's result is of one transaction; an error of the client is of none.
Result == [of : Txs \union {Unset}, ok : BOOLEAN]

ASSUME BatcherAssumption ==
  /\ {MaxLanes, BatchSize, Retries} \subseteq Nat \ {0}
  /\ {Spread, MaxQueue} \subseteq Nat
  /\ NodeNonces \subseteq Nat
  /\ Unset \notin Txs \union Nat \union Result

VARIABLES
  answersLists,    \* the node answers a batch with a list of results; never changes
  unserializable,  \* what the application hands to send_transaction itself and
                   \* borsh_serialize does not take; never changes
  lane, nonces,    \* the wallet's next lane and, per lane, its next nonce
  lock,            \* who holds the wallet's lock across a call
  transfers,
  queue,
  futures,         \* by transaction; Unset is a future that is not set
  flusher,         \* _flush_loop: where it is, its batch and the attempts made to send it
  stop,
  closer,          \* close(): where it is, and what was queued when it was called
  accepted         \* the transactions the chain has accepted

wallet == <<lane, nonces, lock>>
batcherVars ==
  <<wallet, answersLists, unserializable, transfers, queue, futures, flusher, stop, closer, accepted>>

Call ==
  [pc : {"idle", "asking", "signed", "queued", "full", "failed"}, lane : Lanes, nonce : Nat]

Flusher == [pc : {"top", "collecting", "sending", "stopped", "dead"}, batch : Seq(Txs), attempt : Nat]

Closer == [pc : {"open", "flushing", "raised", "joining", "closed"}, owed : SUBSET Txs]

BatcherTypeOK ==
  /\ answersLists \in BOOLEAN
  /\ unserializable \subseteq Txs
  /\ lane \in Lanes
  /\ nonces \in [Lanes -> Nat \union {Unset}]
  /\ lock \in Txs \union {Unset}
  /\ transfers \in [Txs -> Call]
  /\ queue \in Seq(Txs)
  /\ futures \in [Txs -> Result \union {Unset}]
  /\ flusher \in Flusher
  /\ stop \in BOOLEAN
  /\ closer \in Closer
  /\ accepted \subseteq Txs

BatcherInit ==
  /\ answersLists \in BOOLEAN
  /\ unserializable \in SUBSET Txs
  /\ lane = 0
  /\ nonces = [l \in Lanes |-> Unset]
  /\ lock = Unset
  /\ transfers = [t \in Txs |-> [pc |-> "idle", lane |-> 0, nonce |-> 0]]
  /\ queue = <<>>
  /\ futures = [t \in Txs |-> Unset]
  /\ flusher = [pc |-> "top", batch |-> <<>>, attempt |-> 0]
  /\ stop = FALSE
  /\ closer = [pc |-> "open", owed |-> {}]
  /\ accepted = {}

-------------------------------------------------------------------------------
(***************************************************************************)
(* BatchingWallet.transfer.  The lock covers the choice of the lane and of *)
(* the nonce, with the call to the node for a lane's first nonce.  What    *)
(* the wallet signs has been serialized once, by sign.                     *)
(***************************************************************************)

NextLane(l) == (l + 1) % MaxLanes

\* Mutant: the counter keeps the nonce that was handed out.
SameNonce(n) == n

NextNonce(n) == n + 1

Sign(t, l, n) ==
  /\ nonces' = [nonces EXCEPT ![l] = NextNonce(n)]
  /\ transfers' = [transfers EXCEPT ![t] = [pc |-> "signed", lane |-> l, nonce |-> n]]

elsewhere == <<answersLists, unserializable, queue, futures, flusher, stop, closer, accepted>>

\* The lane has a counter.
Transfer(t) ==
  /\ t \notin unserializable
  /\ transfers[t].pc = "idle"
  /\ lock = Unset
  /\ nonces[lane] # Unset
  /\ Sign(t, lane, nonces[lane])
  /\ lane' = NextLane(lane)
  /\ UNCHANGED <<lock, elsewhere>>

\* It has none: the node is asked, under the lock.
TransferAsks(t) ==
  /\ t \notin unserializable
  /\ transfers[t].pc = "idle"
  /\ lock = Unset
  /\ nonces[lane] = Unset
  /\ transfers' = [transfers EXCEPT ![t] = [pc |-> "asking", lane |-> lane, nonce |-> 0]]
  /\ lane' = NextLane(lane)
  /\ lock' = t
  /\ UNCHANGED <<nonces, elsewhere>>

\* get_nonce of the client asks for the account, not for the lane.
TransferAnswered(t) ==
  /\ transfers[t].pc = "asking"
  /\ \E n \in NodeNonces : Sign(t, transfers[t].lane, n + transfers[t].lane * Spread)
  /\ lock' = Unset
  /\ UNCHANGED <<lane, elsewhere>>

TransferFails(t) ==
  /\ transfers[t].pc = "asking"
  /\ transfers' = [transfers EXCEPT ![t] = [@ EXCEPT !.pc = "failed"]]
  /\ lock' = Unset
  /\ UNCHANGED <<lane, nonces, elsewhere>>

\* Signed by the wallet, or the application's own.
Ready(t) == transfers[t].pc = IF t \in unserializable THEN "idle" ELSE "signed"

\* BatchedRpcClient.send_transaction: put blocks while the queue is full, for 5 s at most.
Put(t) ==
  /\ Ready(t)
  /\ Len(queue) < MaxQueue
  /\ queue' = Append(queue, t)
  /\ transfers' = [transfers EXCEPT ![t] = [@ EXCEPT !.pc = "queued"]]
  /\ UNCHANGED <<wallet, answersLists, unserializable, futures, flusher, stop, closer, accepted>>

PutTimesOut(t) ==
  /\ Ready(t)
  /\ Len(queue) >= MaxQueue
  /\ transfers' = [transfers EXCEPT ![t] = [@ EXCEPT !.pc = "full"]]
  /\ UNCHANGED <<wallet, elsewhere>>

-------------------------------------------------------------------------------
(***************************************************************************)
(* _flush_loop.  stop is looked at between batches only.                   *)
(***************************************************************************)

LoopTop ==
  /\ flusher.pc = "top"
  /\ flusher' = [flusher EXCEPT !.pc = IF stop THEN "stopped" ELSE "collecting"]
  /\ UNCHANGED <<wallet, answersLists, unserializable, transfers, queue, futures, stop, closer, accepted>>

Get ==
  /\ flusher.pc = "collecting"
  /\ Len(flusher.batch) < BatchSize
  /\ queue # <<>>
  /\ flusher' = [flusher EXCEPT !.batch = Append(@, Head(queue))]
  /\ queue' = Tail(queue)
  /\ UNCHANGED <<wallet, answersLists, unserializable, transfers, futures, stop, closer, accepted>>

\* Mutant: only a full batch is sent.
Full == Len(flusher.batch) = BatchSize

\* A get whose time is up raises Empty only if nothing is there.
Collected == Len(flusher.batch) = BatchSize \/ queue = <<>>

Serializable(batch) == \A i \in 1..Len(batch) : batch[i] \notin unserializable

(***************************************************************************)
(* An empty batch is not sent; the loop sleeps and starts again.  A batch  *)
(* is serialized before the try of _send_batch: an exception there leaves  *)
(* _flush_loop, and the thread ends with its batch.                        *)
(***************************************************************************)
EndBatch ==
  /\ flusher.pc = "collecting"
  /\ Collected
  /\ flusher' = [flusher EXCEPT !.pc = CASE flusher.batch = <<>> -> "top"
                                       [] Serializable(flusher.batch) -> "sending"
                                       [] OTHER -> "dead"]
  /\ UNCHANGED <<wallet, answersLists, unserializable, transfers, queue, futures, stop, closer, accepted>>

(***************************************************************************)
(* _send_batch.                                                            *)
(***************************************************************************)

\* Mutant: one list for all batches.
KeptBatch == flusher.batch

\* The list the next turn of the loop starts with.
NewBatch == <<>>

\* Mutant: what is sent is not in the order of the batch.
Backwards(batch) == [i \in 1..Len(batch) |-> batch[Len(batch) + 1 - i]]

tx_hexes(batch) == batch

\* The except clause: every future gets the error.
Errors(batch) == [i \in 1..Len(batch) |-> [of |-> Unset, ok |-> FALSE]]

\* for item, result in zip(batch, results)
Resolve(results) ==
  LET of(t) == {i \in DOMAIN results : flusher.batch[i] = t} IN
  /\ futures' = [t \in Txs |-> IF of(t) = {} THEN futures[t] ELSE results[CHOOSE i \in of(t) : TRUE]]
  /\ flusher' = [pc |-> "top", batch |-> NewBatch, attempt |-> 0]

\* The chain accepts any of the transactions it has not got, but no (lane, nonce) twice.
SameSlot(t, u) == transfers[t].lane = transfers[u].lane /\ transfers[t].nonce = transfers[u].nonce

Node ==
  \E new \in SUBSET {flusher.batch[i] : i \in DOMAIN flusher.batch} :
    /\ \A t \in new : \A u \in new \union accepted : SameSlot(t, u) => t = u
    /\ new \intersect accepted = {}
    /\ accepted' = accepted \union new

\* The node's results, in the order of what it was sent; an answer that is no list counts as empty.
Results(sent) ==
  IF answersLists
    THEN [i \in 1..Len(sent) |-> [of |-> sent[i], ok |-> sent[i] \in accepted' \ accepted]]
    ELSE <<>>

Sending == flusher.pc = "sending" /\ flusher.attempt < Retries

Acknowledged ==
  /\ Sending
  /\ Node
  /\ Resolve(Results(tx_hexes(flusher.batch)))
  /\ UNCHANGED <<wallet, answersLists, unserializable, transfers, queue, stop, closer>>

\* An error in the answer is raised at once.
Refused ==
  /\ Sending
  /\ Resolve(Errors(flusher.batch))
  /\ UNCHANGED <<wallet, answersLists, unserializable, transfers, queue, stop, closer, accepted>>

\* A connection that fails or a time-out, before or after the node took the batch: the next attempt.
AttemptFails ==
  /\ Sending
  /\ Node
  /\ flusher' = [flusher EXCEPT !.attempt = @ + 1]
  /\ UNCHANGED <<wallet, answersLists, unserializable, transfers, queue, futures, stop, closer>>

GiveUp ==
  /\ flusher.pc = "sending"
  /\ flusher.attempt = Retries
  /\ Resolve(Errors(flusher.batch))
  /\ UNCHANGED <<wallet, answersLists, unserializable, transfers, queue, stop, closer, accepted>>

-------------------------------------------------------------------------------
(***************************************************************************)
(* close: stop, wait 2 s for the queue to empty, join for 3 s, close the   *)
(* RPC clients.                                                            *)
(***************************************************************************)
open == <<wallet, answersLists, unserializable, transfers, queue, futures, flusher, accepted>>

Close ==
  /\ closer.pc = "open"
  /\ stop' = TRUE
  /\ closer' = [pc |-> "flushing", owed |-> {t \in Txs : transfers[t].pc = "queued"}]
  /\ UNCHANGED open

\* Mutant: flush does not look at the queue after its loop.
NoMatter == TRUE

Drained == queue = <<>>

FlushReturns ==
  /\ closer.pc = "flushing"
  /\ Drained
  /\ closer' = [closer EXCEPT !.pc = "joining"]
  /\ UNCHANGED <<open, stop>>

FlushTimesOut ==
  /\ closer.pc = "flushing"
  /\ ~Drained
  /\ closer' = [closer EXCEPT !.pc = "raised"]
  /\ UNCHANGED <<open, stop>>

\* The thread has ended or the time is up.  A call it makes after that fails, as AttemptFails allows.
Joined ==
  /\ closer.pc = "joining"
  /\ closer' = [closer EXCEPT !.pc = "closed"]
  /\ UNCHANGED <<open, stop>>

-------------------------------------------------------------------------------
transfer(t) ==
  Transfer(t) \/ TransferAsks(t) \/ TransferAnswered(t) \/ TransferFails(t) \/ Put(t) \/ PutTimesOut(t)

flush_loop == LoopTop \/ Get \/ EndBatch \/ Acknowledged \/ Refused \/ AttemptFails \/ GiveUp

close == Close \/ FlushReturns \/ FlushTimesOut \/ Joined

BatcherNext == (\E t \in Txs : transfer(t)) \/ flush_loop \/ close

BatcherSpec == BatcherInit /\ [][BatcherNext]_batcherVars

\* The background thread runs, and its calls end (RpcOptions.timeout).
FairBatcherSpec == BatcherSpec /\ WF_batcherVars(flush_loop)

-------------------------------------------------------------------------------
(***************************************************************************)
(* The wallet signs no two transfers with one lane and nonce, whatever the *)
(* node answers and however threads, failed calls and full queues mix.     *)
(***************************************************************************)
Signed(t) == t \notin unserializable /\ transfers[t].pc \in {"signed", "queued", "full"}

NoNonceReused == \A t, u \in Txs : Signed(t) /\ Signed(u) /\ SameSlot(t, u) => t = u

(***************************************************************************)
(* A caller is told of its own transaction, and of a success only if the   *)
(* chain has accepted it: through batches, retries and the order of the    *)
(* queue.                                                                  *)
(***************************************************************************)
ResultIsOwn ==
  \A t \in Txs :
    futures[t] # Unset => futures[t].of \in {t, Unset} /\ (futures[t].ok => futures[t].of = t /\ t \in accepted)

(***************************************************************************)
(* A transaction is in one place: in the queue, with the thread, or done.  *)
(* None is lost, sent again after its result or left with a thread that    *)
(* has ended, unless that ended on a batch it could not serialize.         *)
(***************************************************************************)
OneOf(S) == \A i, j \in S : i = j

Queued(t) == {i \in 1..Len(queue) : queue[i] = t}

Carried(t) == {i \in 1..Len(flusher.batch) : flusher.batch[i] = t}

Held(t) == Queued(t) # {} \/ Carried(t) # {}

NothingLost ==
  /\ \A t \in Txs :
       /\ OneOf(Queued(t)) /\ OneOf(Carried(t)) /\ (Queued(t) = {} \/ Carried(t) = {})
       /\ Held(t) => transfers[t].pc = "queued" /\ futures[t] = Unset
       /\ answersLists /\ transfers[t].pc = "queued" /\ futures[t] = Unset => Held(t)
       /\ flusher.pc = "stopped" => Carried(t) = {}
  /\ flusher.pc = "dead" => ~Serializable(flusher.batch)

(***************************************************************************)
(* A close that returns has left nothing of what was queued before it:     *)
(* every future is set, or the thread still has its batch (close, "after   *)
(* draining the queue").                                                   *)
(***************************************************************************)
ClosedIsDrained ==
  closer.pc = "closed" /\ answersLists =>
    \A t \in closer.owed : futures[t] # Unset \/ Carried(t) # {}

(***************************************************************************)
(* While nobody closes the client, every queued transaction's future is    *)
(* set, if the node answers with a list (send_transaction: "resolves when  *)
(* the batch containing this transaction is acknowledged") and no batch    *)
(* has ended the thread.                                                   *)
(***************************************************************************)
EveryFutureSet ==
  \A t \in Txs :
    answersLists /\ transfers[t].pc = "queued" ~> futures[t] # Unset \/ stop \/ flusher.pc = "dead"

(***************************************************************************)
(* What close says of itself: "Stop the background flusher after draining  *)
(* the queue".  The code sets stop first; see the run that refutes it.     *)
(***************************************************************************)
StoppedAfterDraining ==
  flusher.pc = "stopped" /\ answersLists => \A t \in closer.owed : futures[t] # Unset
===============================================================================
