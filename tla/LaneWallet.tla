----------------------------- MODULE LaneWallet -----------------------------
(***************************************************************************)
(* The nonces of one account, which the chain keeps in lanes.              *)
(*                                                                         *)
(* A lane accepts a nonce once, and only within a window above the lowest  *)
(* nonce it has not accepted; a nonce that is skipped stalls its lane.     *)
(* The account is driven in one of three ways, for good:                   *)
(*   threads  the synchronous methods of wallet/__init__.py, from several  *)
(*            threads and without a lock;                                  *)
(*   loop     its asynchronous methods, which hold one asyncio.Lock from   *)
(*            the nonce to its increment;                                  *)
(*   route    the dashboard's chain/send route, which asks the node every  *)
(*            time and caches nothing.                                     *)
(* The node may be asked through CachedRpcClient of rpc/__init__.py, whose *)
(* nonce entries live until their time is up: submitting a transaction     *)
(* drops keys of two parts, and nonces are cached under keys of three.  A  *)
(* node or a client that knows of no lanes answers for lane 0, whichever   *)
(* lane it is asked for.                                                   *)
(***************************************************************************)
EXTENDS Integers

CONSTANTS
    Callers,    \* threads, coroutines or requests
    LaneCount,  \* 256 in the code
    Window,     \* 256 on the chain
    MaxNonce,   \* bound: the nonces a lane has
    MaxCalls    \* bound: the calls of a run

ASSUME LaneAssumption ==
    /\ LaneCount \in Nat \ {0} /\ Window \in Nat \ {0}
    /\ MaxNonce \in Nat /\ MaxCalls \in Nat

Lanes == 0 .. LaneCount - 1
Nonces == 0 .. MaxNonce
None == -1

ASSUME CallersAssumption == None \notin Callers

Modes == {"threads", "loop", "route"}

VARIABLES
    mode,           \* how the account is driven
    cachedClient,   \* whether the node is asked through the caching client
    laneAware,      \* whether node and client tell lanes apart
    used,           \* the nonces each lane has accepted
    nonces,         \* Wallet._nonces: the next nonce of a lane, when cached
    client,         \* CachedRpcClient._nonce_cache, by lane
    laneCounter,    \* Wallet._lane_counter
    holder,         \* who holds Wallet._nonce_lock
    pc, laneOf, nonceOf,    \* a call: where it is, its lane and its nonce
    calls,          \* how many calls have begun
    \* history
    disturbed,      \* lanes where the wallet's bookkeeping was bypassed or misled
    lost            \* lanes with an answer lost since their nonce was fetched

rigid == <<mode, cachedClient, laneAware>>
callVars == <<pc, laneOf, nonceOf>>
laneVars == <<rigid, used, nonces, client, laneCounter, holder, callVars, calls,
              disturbed, lost>>

InFlight(c) == pc[c] \notin {"idle", "waiting"}

LaneInit ==
    /\ mode \in Modes
    /\ cachedClient \in BOOLEAN
    /\ laneAware \in BOOLEAN
    /\ used = [l \in Lanes |-> {}]
    /\ nonces = [l \in Lanes |-> None]
    /\ client = [l \in Lanes |-> None]
    /\ laneCounter = 0
    /\ holder = None
    /\ pc = [c \in Callers |-> "idle"]
    /\ laneOf = [c \in Callers |-> 0]
    /\ nonceOf = [c \in Callers |-> None]
    /\ calls = 0
    /\ disturbed = [l \in Lanes |-> FALSE]
    /\ lost = [l \in Lanes |-> FALSE]

-----------------------------------------------------------------------------
(* The chain.                                                              *)

\* Every nonce below n is accepted.
AllBelow(n, l) == \A k \in 0 .. n - 1 : k \in used[l]

IsNext(n, l) == n \notin used[l] /\ AllBelow(n, l)

Accepts(n, l) ==
    n \notin used[l] /\ \E w \in Nonces : IsNext(w, l) /\ w <= n /\ n < w + Window

\* The plain client asks for the pending nonce, the caching one for the
\* latest, which may be behind by what is accepted and not yet executed.
LaneAnswer(n, l) == IF cachedClient THEN AllBelow(n, l) ELSE IsNext(n, l)

\* The lane-0 view: of nodes without lanes, of clients that ignore the lane,
\* and of the query without a lane, after a TypeError.
Lanewise(l) == laneAware \/ l = 0

Answer(n, l) == LaneAnswer(n, IF Lanewise(l) THEN l ELSE 0)

\* An answer ahead of the lane misleads who asked.
Misleads(n, l) == ~AllBelow(n, l)

-----------------------------------------------------------------------------
(* A call.                                                                 *)

\* The call is over; it leaves the lock if it has it.
Leave(c) ==
    /\ pc' = [pc EXCEPT ![c] = "idle"]
    /\ laneOf' = [laneOf EXCEPT ![c] = 0]
    /\ nonceOf' = [nonceOf EXCEPT ![c] = None]
    /\ holder' = IF holder = c THEN None ELSE holder

\* A lane given by the caller, lane 0 for a nonce given without one, or the
\* next lane in turn.  The route's requests name their lane, 0 by default.
Begin(c, key, nonce) ==
    LET lane == IF key # None THEN key
                ELSE IF nonce # None THEN 0 ELSE laneCounter % LaneCount
    IN /\ pc[c] = "idle" /\ calls < MaxCalls
       /\ mode = "route" => key # None /\ nonce = None
       /\ calls' = calls + 1
       /\ laneCounter' =
            IF key = None /\ nonce = None THEN laneCounter + 1 ELSE laneCounter
       /\ pc' = [pc EXCEPT ![c] = IF mode = "loop" THEN "waiting" ELSE "start"]
       /\ laneOf' = [laneOf EXCEPT ![c] = lane]
       /\ nonceOf' = [nonceOf EXCEPT ![c] = nonce]
       /\ disturbed' = [disturbed EXCEPT ![lane] =
                          @ \/ nonce # None
                            \/ /\ mode = "threads"
                               /\ \E d \in Callers : InFlight(d) /\ laneOf[d] = lane]
       /\ UNCHANGED <<rigid, used, nonces, client, holder, lost>>

Acquire(c) ==
    /\ pc[c] = "waiting" /\ holder = None
    /\ holder' = c
    /\ pc' = [pc EXCEPT ![c] = "start"]
    /\ UNCHANGED <<rigid, used, nonces, client, laneCounter, laneOf, nonceOf, calls,
                   disturbed, lost>>

\* The nonce the caller gave, or the cached one of the lane.
TakeNonce(c) ==
    /\ pc[c] = "start"
    /\ nonceOf[c] # None \/ nonces[laneOf[c]] # None
    /\ nonceOf' = [nonceOf EXCEPT ![c] = IF @ # None THEN @ ELSE nonces[laneOf[c]]]
    /\ pc' = [pc EXCEPT ![c] = "ready"]
    /\ UNCHANGED <<rigid, used, nonces, client, laneCounter, holder, laneOf, calls,
                   disturbed, lost>>

\* The caching client answers from its entry, or the node is asked.
AskNode(c) ==
    LET entry == client[laneOf[c]]
    IN /\ pc[c] = "start" /\ nonceOf[c] = None /\ nonces[laneOf[c]] = None
       /\ pc' = [pc EXCEPT ![c] = IF entry # None THEN "answered" ELSE "asked"]
       /\ nonceOf' = [nonceOf EXCEPT ![c] = entry]
       /\ UNCHANGED <<rigid, used, nonces, client, laneCounter, holder, laneOf, calls,
                      disturbed, lost>>

NodeAnswers(c) ==
    /\ pc[c] = "asked"
    /\ \E n \in Nonces :
         /\ Answer(n, laneOf[c])
         /\ disturbed' = [disturbed EXCEPT ![laneOf[c]] = @ \/ Misleads(n, laneOf[c])]
         /\ nonceOf' = [nonceOf EXCEPT ![c] = n]
         /\ client' = IF cachedClient THEN [client EXCEPT ![laneOf[c]] = n] ELSE client
    /\ pc' = [pc EXCEPT ![c] = "answered"]
    /\ UNCHANGED <<rigid, used, nonces, laneCounter, holder, laneOf, calls, lost>>

\* The wallet caches the answer over whatever is there; the route does not.
StoreNonce(c) ==
    /\ pc[c] = "answered"
    /\ pc' = [pc EXCEPT ![c] = "ready"]
    /\ nonces' = IF mode = "route" THEN nonces
                 ELSE [nonces EXCEPT ![laneOf[c]] = nonceOf[c]]
    /\ lost' = [lost EXCEPT ![laneOf[c]] = IF cachedClient THEN @ ELSE FALSE]
    /\ UNCHANGED <<rigid, used, client, laneCounter, holder, laneOf, nonceOf, calls,
                   disturbed>>

NodeAccepts(c) ==
    /\ pc[c] = "ready" /\ nonceOf[c] \in Nonces /\ Accepts(nonceOf[c], laneOf[c])
    /\ used' = [used EXCEPT ![laneOf[c]] = @ \union {nonceOf[c]}]
    /\ pc' = [pc EXCEPT ![c] = "accepted"]
    /\ UNCHANGED <<rigid, nonces, client, laneCounter, holder, laneOf, nonceOf, calls,
                   disturbed, lost>>

\* A mutant: the counter is advanced by a call that raises too.
CallRaisesAfterIncrement(c) ==
    /\ pc[c] \in {"asked", "ready"}
    /\ Leave(c)
    /\ nonces' = [nonces EXCEPT ![laneOf[c]] = IF @ # None THEN @ + 1 ELSE @]
    /\ UNCHANGED <<rigid, used, client, laneCounter, calls, disturbed, lost>>

\* The query or the submission raises: refused, or it never arrived.
CallRaises(c) ==
    /\ pc[c] \in {"asked", "ready"}
    /\ Leave(c)
    /\ UNCHANGED <<rigid, used, nonces, client, laneCounter, calls, disturbed, lost>>

\* The transaction is accepted and the answer never comes.
AnswerLost(c) ==
    /\ pc[c] = "accepted"
    /\ Leave(c)
    /\ lost' = [lost EXCEPT ![laneOf[c]] = TRUE]
    /\ UNCHANGED <<rigid, used, nonces, client, laneCounter, calls, disturbed>>

\* _increment_nonce, only when the lane is cached.  Among threads it reads
\* the counter in one step and writes it in another.
Increment(c) ==
    LET lane == laneOf[c]
    IN /\ pc[c] = "accepted" /\ mode # "threads"
       /\ nonces' = IF nonces[lane] # None
                    THEN [nonces EXCEPT ![lane] = @ + 1] ELSE nonces
       /\ Leave(c)
       /\ UNCHANGED <<rigid, used, client, laneCounter, calls, disturbed, lost>>

LoadCounter(c) ==
    /\ pc[c] = "accepted" /\ mode = "threads"
    /\ nonces[laneOf[c]] # None
    /\ pc' = [pc EXCEPT ![c] = "loaded"]
    /\ nonceOf' = [nonceOf EXCEPT ![c] = nonces[laneOf[c]]]
    /\ UNCHANGED <<rigid, used, nonces, client, laneCounter, holder, laneOf, calls,
                   disturbed, lost>>

StoreCounter(c) ==
    /\ pc[c] = "loaded"
    /\ nonces' = [nonces EXCEPT ![laneOf[c]] = nonceOf[c] + 1]
    /\ Leave(c)
    /\ UNCHANGED <<rigid, used, client, laneCounter, calls, disturbed, lost>>

SkipCounter(c) ==
    /\ pc[c] = "accepted" /\ mode = "threads"
    /\ nonces[laneOf[c]] = None
    /\ Leave(c)
    /\ UNCHANGED <<rigid, used, nonces, client, laneCounter, calls, disturbed, lost>>

-----------------------------------------------------------------------------
(* What the owner of the wallet may do between calls.                      *)

\* reset_nonce_cache, of one lane or of all.
ResetCache(S) ==
    /\ \E l \in S : nonces[l] # None
    /\ nonces' = [l \in Lanes |-> IF l \in S THEN None ELSE nonces[l]]
    /\ UNCHANGED <<rigid, used, client, laneCounter, holder, callVars, calls,
                   disturbed, lost>>

\* get_nonce, which takes no lock, called from outside.
PeekNonce(l) ==
    /\ mode # "route" /\ nonces[l] = None
    /\ \E n \in Nonces :
         /\ Answer(n, l)
         /\ nonces' = [nonces EXCEPT ![l] = n]
         /\ disturbed' = [disturbed EXCEPT ![l] =
                            @ \/ Misleads(n, l) \/ \E c \in Callers : InFlight(c) /\ laneOf[c] = l]
    /\ lost' = [lost EXCEPT ![l] = IF cachedClient THEN @ ELSE FALSE]
    /\ UNCHANGED <<rigid, used, client, laneCounter, holder, callVars, calls>>

\* The time of an entry of the caching client is up, or clear_cache.
ExpireEntry(l) ==
    /\ client[l] # None
    /\ client' = [client EXCEPT ![l] = None]
    /\ UNCHANGED <<rigid, used, nonces, laneCounter, holder, callVars, calls,
                   disturbed, lost>>

-----------------------------------------------------------------------------
LaneNext ==
    \/ \E c \in Callers :
         \/ \E key \in Lanes \union {None}, nonce \in Nonces \union {None} : Begin(c, key, nonce)
         \/ Acquire(c) \/ TakeNonce(c) \/ AskNode(c) \/ NodeAnswers(c) \/ StoreNonce(c)
         \/ NodeAccepts(c) \/ CallRaises(c) \/ AnswerLost(c)
         \/ Increment(c) \/ LoadCounter(c) \/ StoreCounter(c) \/ SkipCounter(c)
    \/ \E S \in {Lanes} \union {{l} : l \in Lanes} : ResetCache(S)
    \/ \E l \in Lanes : PeekNonce(l) \/ ExpireEntry(l)

LaneSpec == LaneInit /\ [][LaneNext]_laneVars

-----------------------------------------------------------------------------
(* Lanes and nonces have their types, and the lock is held by a caller.    *)
LaneTypeOK ==
    /\ mode \in Modes /\ cachedClient \in BOOLEAN /\ laneAware \in BOOLEAN
    /\ used \in [Lanes -> SUBSET Nat]
    /\ nonces \in [Lanes -> Nat \union {None}]
    /\ client \in [Lanes -> Nat \union {None}]
    /\ laneCounter \in Nat /\ calls \in Nat
    /\ holder \in Callers \union {None}
    /\ pc \in [Callers -> {"idle", "waiting", "start", "asked", "answered", "ready",
                           "accepted", "loaded"}]
    /\ laneOf \in [Callers -> Lanes]
    /\ nonceOf \in [Callers -> Nat \union {None}]
    /\ disturbed \in [Lanes -> BOOLEAN] /\ lost \in [Lanes -> BOOLEAN]

(* No nonce of a lane is ever skipped, so that no lane stalls: not when    *)
(* answers are lost, calls fail, caches are reset in the middle of a call  *)
(* or serve old answers.  This holds for every request of the route and    *)
(* for every asynchronous call, whose lock it needs; for threads, only in  *)
(* a lane that never had two calls at once; and nowhere after the caller   *)
(* chose a nonce or asked for one around a call, or after a node or client *)
(* without lanes answered with a nonce of lane 0 that is ahead of the lane *)
(* ("fall back to the lane-agnostic query (correct for fresh lanes)",      *)
(* wallet/__init__.py:243, is so only while lane 0 has accepted nothing).  *)
LaneGapFree ==
    \A l \in Lanes : ~disturbed[l] =>
      \A n \in used[l] : \A k \in 0 .. n - 1 : k \in used[l]

(* Under the same conditions the cached nonce of a lane is never ahead of  *)
(* the chain; and it is not behind either once calls have finished, unless *)
(* an answer was lost since it was fetched, or it was fetched through the  *)
(* caching client or as the view of another lane.                          *)
LaneCounterExact ==
    \A l \in Lanes : ~disturbed[l] /\ nonces[l] # None =>
      /\ AllBelow(nonces[l], l)
      /\ \/ lost[l] \/ cachedClient \/ ~Lanewise(l) \/ nonces[l] \notin used[l]
         \/ \E c \in Callers : pc[c] \in {"accepted", "loaded"} /\ laneOf[c] = l
=============================================================================
