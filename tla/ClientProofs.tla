---------------------------- MODULE ClientProofs -----------------------------
(***************************************************************************)
(* Proofs about LaneWallet, AgentRetry and Broadcast.  For any number of   *)
(* callers, lanes and nonces, no nonce of an undisturbed lane is skipped,  *)
(* and its cached counter is never ahead of the chain.  For any number of  *)
(* calls, attempts and posts, a call is executed once per answer that was  *)
(* had or lost, in order, and the TypeScript agent gets one transaction    *)
(* executed at most.  For any number of nodes, what the parallel client    *)
(* reports of a broadcast is so.                                           *)
(***************************************************************************)
EXTENDS LaneWallet, AgentRetry, Broadcast, TLAPS

(* An asynchronous call in flight has the lock; only such a call waits for *)
(* it, and only threads load the counter.                                  *)
Locked ==
    \A c \in Callers :
      /\ pc[c] = "waiting" => mode = "loop"
      /\ pc[c] = "loaded" => mode = "threads"
      /\ mode = "loop" /\ InFlight(c) => holder = c

(* The wallet has one call in flight in an undisturbed lane, at most.      *)
Alone ==
    \A c, d \in Callers :
      /\ mode # "route" /\ InFlight(c) /\ InFlight(d)
      /\ laneOf[c] = laneOf[d] /\ ~disturbed[laneOf[c]]
      => c = d

(* Where nonces come from: not from the caller, in an undisturbed lane;    *)
(* the route caches none, and an entry of the caching client is one its    *)
(* lane has been through.                                                  *)
Sources ==
    /\ \A c \in Callers :
         pc[c] \in {"waiting", "start", "asked"} /\ ~disturbed[laneOf[c]] => nonceOf[c] = None
    /\ mode = "route" => \A l \in Lanes : nonces[l] = None
    /\ \A l \in Lanes :
         /\ client[l] # None /\ ~disturbed[l] => AllBelow(client[l], l)
         /\ ~cachedClient => client[l] = None

(* What a call knows of its nonce n, in an undisturbed lane l: everything  *)
(* below it is accepted, and so is n once the node took it; while the      *)
(* wallet is at it, the cached nonce is n or dropped, n is not accepted    *)
(* before, and n + 1 not after.                                            *)
Below ==
    \A c \in Callers :
      ~disturbed[laneOf[c]] /\ pc[c] \in {"answered", "ready", "accepted", "loaded"}
      => nonceOf[c] # None /\ AllBelow(nonceOf[c], laneOf[c])

Taken ==
    \A c \in Callers :
      ~disturbed[laneOf[c]] /\ pc[c] \in {"accepted", "loaded"} =>
        /\ nonceOf[c] \in used[laneOf[c]]
        /\ mode # "route" => nonceOf[c] + 1 \notin used[laneOf[c]]

Matching ==
    \A c \in Callers :
      ~disturbed[laneOf[c]] /\ mode # "route" =>
        /\ pc[c] \in {"ready", "accepted"} => nonces[laneOf[c]] \in {None, nonceOf[c]}
        /\ pc[c] = "answered" /\ ~cachedClient /\ Lanewise(laneOf[c]) => nonceOf[c] \notin used[laneOf[c]]

LaneInv ==
    /\ LaneTypeOK /\ Locked /\ Alone /\ Sources /\ Below /\ Taken /\ Matching
    /\ LaneGapFree /\ LaneCounterExact

-----------------------------------------------------------------------------
(* The lane in turn is a lane.                                             *)
LEMMA LanesInTurn == 0 \in Lanes /\ \A n \in Nat : n % LaneCount \in Lanes
BY LaneAssumption DEF Lanes


(* Whether a node and its client tell lanes apart does not change.         *)
LEMMA LanewiseStays ==
    ASSUME laneAware' = laneAware
    PROVE  \A l : Lanewise(l)' <=> Lanewise(l)
BY DEF Lanewise

(* What is disturbed stays so; an answer that left its lane undisturbed is *)
(* not ahead of it, and of a lane the node knows it is the next.           *)
LEMMA AnswerDisturbs ==
    ASSUME LaneTypeOK, NEW l \in Lanes, NEW n \in Nonces, NEW more \in BOOLEAN,
           disturbed' = [disturbed EXCEPT ![l] = @ \/ Misleads(n, l) \/ more]
    PROVE  /\ n # None /\ n \in Nat
           /\ ~disturbed'[l] => ~disturbed[l] /\ AllBelow(n, l) /\ ~more
           /\ \A m \in Lanes : ~disturbed'[m] => ~disturbed[m]
<1>1. disturbed'[l] <=> disturbed[l] \/ Misleads(n, l) \/ more
    BY DEF LaneTypeOK
<1>2. \A m \in Lanes \ {l} : disturbed'[m] = disturbed[m]
    BY DEF LaneTypeOK
<1>3. n # None /\ n \in Nat
    BY DEF Nonces, None
<1> QED BY <1>1, <1>2, <1>3 DEF Misleads

LEMMA AnswerIsNext ==
    ASSUME NEW l \in Lanes, NEW n \in Nonces, Answer(n, l), Lanewise(l), ~cachedClient
    PROVE  n \notin used[l]
BY DEF Answer, LaneAnswer, IsNext, Lanewise

(* Every step keeps the types.                                             *)
LEMMA LaneTypeStep == LaneTypeOK /\ [LaneNext]_laneVars => LaneTypeOK'
<1> SUFFICES ASSUME LaneTypeOK, [LaneNext]_laneVars PROVE LaneTypeOK'
    OBVIOUS
<1> USE LaneAssumption, LanesInTurn DEF LaneTypeOK, Nonces, None
<1>1. ASSUME NEW c \in Callers, NEW key \in Lanes \union {None},
             NEW nonce \in Nonces \union {None}, Begin(c, key, nonce)
       PROVE  LaneTypeOK'
    <2>1. PICK lane \in Lanes :
            /\ laneOf' = [laneOf EXCEPT ![c] = lane]
            /\ disturbed' = [disturbed EXCEPT ![lane] =
                               @ \/ nonce # None
                                 \/ /\ mode = "threads"
                                    /\ \E d \in Callers : InFlight(d) /\ laneOf[d] = lane]
        BY <1>1, LanesInTurn DEF Begin
    <2>2. disturbed' \in [Lanes -> BOOLEAN]
        <3>1. (\E d \in Callers : InFlight(d) /\ laneOf[d] = lane) \in BOOLEAN
            OBVIOUS
        <3> QED BY <2>1, <3>1
    <2> QED BY <1>1, <2>1, <2>2 DEF Begin, rigid
<1>2. ASSUME NEW c \in Callers, Acquire(c)
       PROVE  LaneTypeOK'
    BY <1>2 DEF Acquire, rigid, callVars
<1>3. ASSUME NEW c \in Callers, TakeNonce(c)
       PROVE  LaneTypeOK'
    BY <1>3 DEF TakeNonce, rigid, callVars
<1>4. ASSUME NEW c \in Callers, AskNode(c)
       PROVE  LaneTypeOK'
    BY <1>4 DEF AskNode, rigid, callVars
<1>5. ASSUME NEW c \in Callers, NodeAnswers(c)
       PROVE  LaneTypeOK'
    BY <1>5 DEF NodeAnswers, rigid, callVars
<1>6. ASSUME NEW c \in Callers, StoreNonce(c)
       PROVE  LaneTypeOK'
    BY <1>6 DEF StoreNonce, rigid, callVars
<1>7. ASSUME NEW c \in Callers, NodeAccepts(c)
       PROVE  LaneTypeOK'
    BY <1>7 DEF NodeAccepts, rigid, callVars
<1>8. ASSUME NEW c \in Callers, CallRaises(c)
       PROVE  LaneTypeOK'
    BY <1>8 DEF CallRaises, Leave, rigid, callVars
<1>9. ASSUME NEW c \in Callers, AnswerLost(c)
       PROVE  LaneTypeOK'
    BY <1>9 DEF AnswerLost, Leave, rigid, callVars
<1>10. ASSUME NEW c \in Callers, Increment(c)
       PROVE  LaneTypeOK'
    BY <1>10 DEF Increment, Leave, rigid, callVars
<1>11. ASSUME NEW c \in Callers, LoadCounter(c)
       PROVE  LaneTypeOK'
    BY <1>11 DEF LoadCounter, rigid, callVars
<1>12. ASSUME NEW c \in Callers, StoreCounter(c)
       PROVE  LaneTypeOK'
    BY <1>12 DEF StoreCounter, Leave, rigid, callVars
<1>13. ASSUME NEW c \in Callers, SkipCounter(c)
       PROVE  LaneTypeOK'
    BY <1>13 DEF SkipCounter, Leave, rigid, callVars
<1>14. ASSUME NEW S \in {Lanes} \union {{l} : l \in Lanes}, ResetCache(S)
       PROVE  LaneTypeOK'
    BY <1>14 DEF ResetCache, rigid, callVars
<1>15. ASSUME NEW l \in Lanes, PeekNonce(l)
       PROVE  LaneTypeOK'
    <2>1. (\E c \in Callers : InFlight(c) /\ laneOf[c] = l) \in BOOLEAN
        OBVIOUS
    <2>2. disturbed' \in [Lanes -> BOOLEAN]
        BY <1>15, <2>1 DEF PeekNonce
    <2>3. PICK stale \in BOOLEAN : lost' = [lost EXCEPT ![l] = stale]
        <3>1. (IF cachedClient THEN lost[l] ELSE FALSE) \in BOOLEAN
            OBVIOUS
        <3> QED BY <1>15, <3>1 DEF PeekNonce
    <2>4. nonces' \in [Lanes -> Nat \union {None}]
        BY <1>15 DEF PeekNonce
    <2>5. lost' \in [Lanes -> BOOLEAN]
        BY <2>3
    <2> QED BY <1>15, <2>2, <2>4, <2>5 DEF PeekNonce, rigid, callVars
<1>16. ASSUME NEW l \in Lanes, ExpireEntry(l)
       PROVE  LaneTypeOK'
    BY <1>16 DEF ExpireEntry, rigid, callVars
<1>17. CASE UNCHANGED laneVars
    BY <1>17 DEF laneVars, rigid, callVars
<1> QED BY <1>1, <1>2, <1>3, <1>4, <1>5, <1>6, <1>7, <1>8, <1>9,
           <1>10, <1>11, <1>12, <1>13, <1>14, <1>15, <1>16, <1>17 DEF LaneNext

(* The lock has one holder, who leaves it as the call ends.                *)
LEMMA LockedStep == LaneInv /\ [LaneNext]_laneVars => Locked'
<1> SUFFICES ASSUME LaneInv, [LaneNext]_laneVars PROVE Locked'
    OBVIOUS
<1> USE CallersAssumption DEF LaneInv, LaneTypeOK, Locked, InFlight
<1>1. ASSUME NEW c \in Callers, NEW key \in Lanes \union {None},
             NEW nonce \in Nonces \union {None}, Begin(c, key, nonce)
       PROVE  Locked'
    BY <1>1 DEF Begin, rigid, callVars
<1>2. ASSUME NEW c \in Callers, Acquire(c)
       PROVE  Locked'
    BY <1>2 DEF Acquire, rigid, callVars
<1>3. ASSUME NEW c \in Callers, TakeNonce(c)
       PROVE  Locked'
    BY <1>3 DEF TakeNonce, rigid, callVars
<1>4. ASSUME NEW c \in Callers, AskNode(c)
       PROVE  Locked'
    BY <1>4 DEF AskNode, rigid, callVars
<1>5. ASSUME NEW c \in Callers, NodeAnswers(c)
       PROVE  Locked'
    BY <1>5 DEF NodeAnswers, rigid, callVars
<1>6. ASSUME NEW c \in Callers, StoreNonce(c)
       PROVE  Locked'
    BY <1>6 DEF StoreNonce, rigid, callVars
<1>7. ASSUME NEW c \in Callers, NodeAccepts(c)
       PROVE  Locked'
    BY <1>7 DEF NodeAccepts, rigid, callVars
<1>8. ASSUME NEW c \in Callers, CallRaises(c)
       PROVE  Locked'
    BY <1>8 DEF CallRaises, Leave, rigid, callVars
<1>9. ASSUME NEW c \in Callers, AnswerLost(c)
       PROVE  Locked'
    BY <1>9 DEF AnswerLost, Leave, rigid, callVars
<1>10. ASSUME NEW c \in Callers, Increment(c)
       PROVE  Locked'
    BY <1>10 DEF Increment, Leave, rigid, callVars
<1>11. ASSUME NEW c \in Callers, LoadCounter(c)
       PROVE  Locked'
    BY <1>11 DEF LoadCounter, rigid, callVars
<1>12. ASSUME NEW c \in Callers, StoreCounter(c)
       PROVE  Locked'
    BY <1>12 DEF StoreCounter, Leave, rigid, callVars
<1>13. ASSUME NEW c \in Callers, SkipCounter(c)
       PROVE  Locked'
    BY <1>13 DEF SkipCounter, Leave, rigid, callVars
<1>14. ASSUME NEW S \in {Lanes} \union {{l} : l \in Lanes}, ResetCache(S)
       PROVE  Locked'
    BY <1>14 DEF ResetCache, rigid, callVars
<1>15. ASSUME NEW l \in Lanes, PeekNonce(l)
       PROVE  Locked'
    BY <1>15 DEF PeekNonce, rigid, callVars
<1>16. ASSUME NEW l \in Lanes, ExpireEntry(l)
       PROVE  Locked'
    BY <1>16 DEF ExpireEntry, rigid, callVars
<1>17. CASE UNCHANGED laneVars
    BY <1>17 DEF laneVars, rigid, callVars
<1> QED BY <1>1, <1>2, <1>3, <1>4, <1>5, <1>6, <1>7, <1>8, <1>9,
           <1>10, <1>11, <1>12, <1>13, <1>14, <1>15, <1>16, <1>17 DEF LaneNext

(* A second call in a lane disturbs it, or waits for the lock.             *)
LEMMA AloneStep == LaneInv /\ [LaneNext]_laneVars => Alone'
<1> SUFFICES ASSUME LaneInv, [LaneNext]_laneVars PROVE Alone'
    OBVIOUS
<1> USE CallersAssumption DEF LaneInv, LaneTypeOK, Locked, Alone, InFlight
<1>1. ASSUME NEW c \in Callers, NEW key \in Lanes \union {None},
             NEW nonce \in Nonces \union {None}, Begin(c, key, nonce)
       PROVE  Alone'
    <2>1. PICK lane \in Lanes :
            /\ laneOf' = [laneOf EXCEPT ![c] = lane]
            /\ disturbed' = [disturbed EXCEPT ![lane] =
                               @ \/ nonce # None
                                 \/ /\ mode = "threads"
                                    /\ \E d \in Callers : InFlight(d) /\ laneOf[d] = lane]
        BY <1>1, LanesInTurn DEF Begin
    <2>2. /\ mode' = mode /\ mode \in Modes
          /\ pc' = [pc EXCEPT ![c] = IF mode = "loop" THEN "waiting" ELSE "start"]
        BY <1>1 DEF Begin, rigid
    <2>3. \A l \in Lanes : disturbed[l] => disturbed'[l]
        BY <2>1
    <2>4. ASSUME NEW d \in Callers, d # c, mode # "route", InFlight(c)', InFlight(d)',
                 laneOf'[c] = laneOf'[d], ~disturbed'[laneOf'[c]]
          PROVE  FALSE
        <3>1. mode = "threads"
            BY <2>2, <2>4 DEF Modes
        <3>2. laneOf[d] = lane /\ InFlight(d) /\ laneOf'[c] = lane
            BY <2>1, <2>2, <2>4
        <3>3. disturbed'[lane]
            BY <2>1, <3>1, <3>2
        <3> QED BY <2>4, <3>2, <3>3
    <2>5. \A d \in Callers \ {c} : laneOf'[d] = laneOf[d] /\ pc'[d] = pc[d]
        BY <2>1, <2>2
    <2> QED BY <2>1, <2>2, <2>3, <2>4, <2>5
<1>2. ASSUME NEW c \in Callers, Acquire(c)
       PROVE  Alone'
    BY <1>2 DEF Acquire, rigid, callVars
<1>3. ASSUME NEW c \in Callers, TakeNonce(c)
       PROVE  Alone'
    BY <1>3 DEF TakeNonce, rigid, callVars
<1>4. ASSUME NEW c \in Callers, AskNode(c)
       PROVE  Alone'
    BY <1>4 DEF AskNode, rigid, callVars
<1>5. ASSUME NEW c \in Callers, NodeAnswers(c)
       PROVE  Alone'
    BY <1>5 DEF NodeAnswers, rigid, callVars
<1>6. ASSUME NEW c \in Callers, StoreNonce(c)
       PROVE  Alone'
    BY <1>6 DEF StoreNonce, rigid, callVars
<1>7. ASSUME NEW c \in Callers, NodeAccepts(c)
       PROVE  Alone'
    BY <1>7 DEF NodeAccepts, rigid, callVars
<1>8. ASSUME NEW c \in Callers, CallRaises(c)
       PROVE  Alone'
    BY <1>8 DEF CallRaises, Leave, rigid, callVars
<1>9. ASSUME NEW c \in Callers, AnswerLost(c)
       PROVE  Alone'
    BY <1>9 DEF AnswerLost, Leave, rigid, callVars
<1>10. ASSUME NEW c \in Callers, Increment(c)
       PROVE  Alone'
    BY <1>10 DEF Increment, Leave, rigid, callVars
<1>11. ASSUME NEW c \in Callers, LoadCounter(c)
       PROVE  Alone'
    BY <1>11 DEF LoadCounter, rigid, callVars
<1>12. ASSUME NEW c \in Callers, StoreCounter(c)
       PROVE  Alone'
    BY <1>12 DEF StoreCounter, Leave, rigid, callVars
<1>13. ASSUME NEW c \in Callers, SkipCounter(c)
       PROVE  Alone'
    BY <1>13 DEF SkipCounter, Leave, rigid, callVars
<1>14. ASSUME NEW S \in {Lanes} \union {{l} : l \in Lanes}, ResetCache(S)
       PROVE  Alone'
    BY <1>14 DEF ResetCache, rigid, callVars
<1>15. ASSUME NEW l \in Lanes, PeekNonce(l)
       PROVE  Alone'
    BY <1>15 DEF PeekNonce, rigid, callVars
<1>16. ASSUME NEW l \in Lanes, ExpireEntry(l)
       PROVE  Alone'
    BY <1>16 DEF ExpireEntry, rigid, callVars
<1>17. CASE UNCHANGED laneVars
    BY <1>17 DEF laneVars, rigid, callVars
<1> QED BY <1>1, <1>2, <1>3, <1>4, <1>5, <1>6, <1>7, <1>8, <1>9,
           <1>10, <1>11, <1>12, <1>13, <1>14, <1>15, <1>16, <1>17 DEF LaneNext

(* The client's entries stay behind a chain that only moves forward.       *)
LEMMA SourcesStep == LaneInv /\ [LaneNext]_laneVars => Sources'
<1> SUFFICES ASSUME LaneInv, [LaneNext]_laneVars PROVE Sources'
    OBVIOUS
<1> USE DEF LaneInv, LaneTypeOK, Locked, Sources, AllBelow
<1>1. ASSUME NEW c \in Callers, NEW key \in Lanes \union {None},
             NEW nonce \in Nonces \union {None}, Begin(c, key, nonce)
       PROVE  Sources'
    <2>1. PICK lane \in Lanes :
            /\ laneOf' = [laneOf EXCEPT ![c] = lane]
            /\ disturbed' = [disturbed EXCEPT ![lane] =
                               @ \/ nonce # None
                                 \/ /\ mode = "threads"
                                    /\ \E d \in Callers : InFlight(d) /\ laneOf[d] = lane]
        BY <1>1, LanesInTurn DEF Begin
    <2>2. \A l \in Lanes : disturbed[l] => disturbed'[l]
        BY <2>1
    <2>3. /\ nonceOf' = [nonceOf EXCEPT ![c] = nonce]
          /\ pc' = [pc EXCEPT ![c] = IF mode = "loop" THEN "waiting" ELSE "start"]
        BY <1>1 DEF Begin
    <2>4. nonce # None => disturbed'[lane]
        BY <2>1
    <2>5. \A d \in Callers : pc'[d] \in {"waiting", "start", "asked"} /\ ~disturbed'[laneOf'[d]]
                               => nonceOf'[d] = None
        BY <2>1, <2>2, <2>3, <2>4
    <2>6. /\ UNCHANGED <<mode, nonces, cachedClient>>
          /\ UNCHANGED <<client, used>>
        BY <1>1 DEF Begin, rigid
    <2> QED BY <2>2, <2>5, <2>6
<1>2. ASSUME NEW c \in Callers, Acquire(c)
       PROVE  Sources'
    BY <1>2 DEF Acquire, rigid, callVars
<1>3. ASSUME NEW c \in Callers, TakeNonce(c)
       PROVE  Sources'
    BY <1>3 DEF TakeNonce, rigid, callVars
<1>4. ASSUME NEW c \in Callers, AskNode(c)
       PROVE  Sources'
    BY <1>4 DEF AskNode, rigid, callVars
<1>5. ASSUME NEW c \in Callers, NodeAnswers(c)
       PROVE  Sources'
    <2>1. PICK n \in Nonces :
            /\ nonceOf' = [nonceOf EXCEPT ![c] = n]
            /\ disturbed' = [disturbed EXCEPT ![laneOf[c]] = @ \/ Misleads(n, laneOf[c])]
            /\ client' = IF cachedClient THEN [client EXCEPT ![laneOf[c]] = n] ELSE client
        BY <1>5 DEF NodeAnswers
    <2>2. /\ ~disturbed'[laneOf[c]] => AllBelow(n, laneOf[c])
          /\ \A l \in Lanes : ~disturbed'[l] => ~disturbed[l]
        <3>1. disturbed' = [disturbed EXCEPT ![laneOf[c]] = @ \/ Misleads(n, laneOf[c])]
            BY <2>1
        <3> QED BY <3>1, AnswerDisturbs
    <2>3. \A l \in Lanes : /\ client'[l] # None /\ ~disturbed'[l] => AllBelow(client'[l], l)
                           /\ ~cachedClient => client'[l] = None
        BY <2>1, <2>2
    <2>4. /\ UNCHANGED <<mode, nonces, cachedClient, used>> /\ UNCHANGED laneOf
          /\ pc' = [pc EXCEPT ![c] = "answered"]
          /\ \A d \in Callers \ {c} : nonceOf'[d] = nonceOf[d]
        BY <1>5 DEF NodeAnswers, rigid
    <2>5. \A d \in Callers : pc'[d] \in {"waiting", "start", "asked"} /\ ~disturbed'[laneOf'[d]]
                               => nonceOf'[d] = None
        BY <2>2, <2>4
    <2> QED BY <2>3, <2>4, <2>5
<1>6. ASSUME NEW c \in Callers, StoreNonce(c)
       PROVE  Sources'
    BY <1>6 DEF StoreNonce, rigid, callVars
<1>7. ASSUME NEW c \in Callers, NodeAccepts(c)
       PROVE  Sources'
    BY <1>7 DEF NodeAccepts, rigid, callVars
<1>8. ASSUME NEW c \in Callers, CallRaises(c)
       PROVE  Sources'
    BY <1>8 DEF CallRaises, Leave, rigid, callVars
<1>9. ASSUME NEW c \in Callers, AnswerLost(c)
       PROVE  Sources'
    BY <1>9 DEF AnswerLost, Leave, rigid, callVars
<1>10. ASSUME NEW c \in Callers, Increment(c)
       PROVE  Sources'
    BY <1>10 DEF Increment, Leave, rigid, callVars
<1>11. ASSUME NEW c \in Callers, LoadCounter(c)
       PROVE  Sources'
    BY <1>11 DEF LoadCounter, rigid, callVars
<1>12. ASSUME NEW c \in Callers, StoreCounter(c)
       PROVE  Sources'
    BY <1>12 DEF StoreCounter, Leave, rigid, callVars
<1>13. ASSUME NEW c \in Callers, SkipCounter(c)
       PROVE  Sources'
    BY <1>13 DEF SkipCounter, Leave, rigid, callVars
<1>14. ASSUME NEW S \in {Lanes} \union {{l} : l \in Lanes}, ResetCache(S)
       PROVE  Sources'
    BY <1>14 DEF ResetCache, rigid, callVars
<1>15. ASSUME NEW l \in Lanes, PeekNonce(l)
       PROVE  Sources'
    BY <1>15 DEF PeekNonce, rigid, callVars
<1>16. ASSUME NEW l \in Lanes, ExpireEntry(l)
       PROVE  Sources'
    BY <1>16 DEF ExpireEntry, rigid, callVars
<1>17. CASE UNCHANGED laneVars
    BY <1>17 DEF laneVars, rigid, callVars
<1> QED BY <1>1, <1>2, <1>3, <1>4, <1>5, <1>6, <1>7, <1>8, <1>9,
           <1>10, <1>11, <1>12, <1>13, <1>14, <1>15, <1>16, <1>17 DEF LaneNext

(* A nonce that is taken has everything below it accepted.                 *)
LEMMA BelowStep == LaneInv /\ [LaneNext]_laneVars => Below'
<1> SUFFICES ASSUME LaneInv, [LaneNext]_laneVars PROVE Below'
    OBVIOUS
<1> USE DEF LaneInv, LaneTypeOK, Sources, Below, LaneCounterExact, AllBelow
<1>1. ASSUME NEW c \in Callers, NEW key \in Lanes \union {None},
             NEW nonce \in Nonces \union {None}, Begin(c, key, nonce)
       PROVE  Below'
    BY <1>1 DEF Begin, rigid, callVars
<1>2. ASSUME NEW c \in Callers, Acquire(c)
       PROVE  Below'
    BY <1>2 DEF Acquire, rigid, callVars
<1>3. ASSUME NEW c \in Callers, TakeNonce(c)
       PROVE  Below'
    BY <1>3 DEF TakeNonce, rigid, callVars
<1>4. ASSUME NEW c \in Callers, AskNode(c)
       PROVE  Below'
    BY <1>4 DEF AskNode, rigid, callVars
<1>5. ASSUME NEW c \in Callers, NodeAnswers(c)
       PROVE  Below'
    <2>1. PICK n \in Nonces :
            /\ nonceOf' = [nonceOf EXCEPT ![c] = n]
            /\ disturbed' = [disturbed EXCEPT ![laneOf[c]] = @ \/ Misleads(n, laneOf[c])]
        BY <1>5 DEF NodeAnswers
    <2>2. n # None /\ (~disturbed'[laneOf[c]] => AllBelow(n, laneOf[c]))
        BY <2>1, AnswerDisturbs
    <2>3. UNCHANGED <<used, laneOf>> /\ pc' = [pc EXCEPT ![c] = "answered"]
        BY <1>5 DEF NodeAnswers
    <2>4. \A l \in Lanes : ~disturbed'[l] => ~disturbed[l]
        BY <2>1, AnswerDisturbs
    <2> QED BY <2>1, <2>2, <2>3, <2>4
<1>6. ASSUME NEW c \in Callers, StoreNonce(c)
       PROVE  Below'
    BY <1>6 DEF StoreNonce, rigid, callVars
<1>7. ASSUME NEW c \in Callers, NodeAccepts(c)
       PROVE  Below'
    BY <1>7 DEF NodeAccepts, rigid, callVars
<1>8. ASSUME NEW c \in Callers, CallRaises(c)
       PROVE  Below'
    BY <1>8 DEF CallRaises, Leave, rigid, callVars
<1>9. ASSUME NEW c \in Callers, AnswerLost(c)
       PROVE  Below'
    BY <1>9 DEF AnswerLost, Leave, rigid, callVars
<1>10. ASSUME NEW c \in Callers, Increment(c)
       PROVE  Below'
    BY <1>10 DEF Increment, Leave, rigid, callVars
<1>11. ASSUME NEW c \in Callers, LoadCounter(c)
       PROVE  Below'
    BY <1>11 DEF LoadCounter, rigid, callVars
<1>12. ASSUME NEW c \in Callers, StoreCounter(c)
       PROVE  Below'
    BY <1>12 DEF StoreCounter, Leave, rigid, callVars
<1>13. ASSUME NEW c \in Callers, SkipCounter(c)
       PROVE  Below'
    BY <1>13 DEF SkipCounter, Leave, rigid, callVars
<1>14. ASSUME NEW S \in {Lanes} \union {{l} : l \in Lanes}, ResetCache(S)
       PROVE  Below'
    BY <1>14 DEF ResetCache, rigid, callVars
<1>15. ASSUME NEW l \in Lanes, PeekNonce(l)
       PROVE  Below'
    BY <1>15 DEF PeekNonce, rigid, callVars
<1>16. ASSUME NEW l \in Lanes, ExpireEntry(l)
       PROVE  Below'
    BY <1>16 DEF ExpireEntry, rigid, callVars
<1>17. CASE UNCHANGED laneVars
    BY <1>17 DEF laneVars, rigid, callVars
<1> QED BY <1>1, <1>2, <1>3, <1>4, <1>5, <1>6, <1>7, <1>8, <1>9,
           <1>10, <1>11, <1>12, <1>13, <1>14, <1>15, <1>16, <1>17 DEF LaneNext

(* Nothing is accepted after the present call's nonce.                     *)
LEMMA TakenStep == LaneInv /\ [LaneNext]_laneVars => Taken'
<1> SUFFICES ASSUME LaneInv, [LaneNext]_laneVars PROVE Taken'
    OBVIOUS
<1> USE DEF LaneInv, LaneTypeOK, Locked, Alone, Below, Taken, Matching, LaneGapFree
<1>1. ASSUME NEW c \in Callers, NEW key \in Lanes \union {None},
             NEW nonce \in Nonces \union {None}, Begin(c, key, nonce)
       PROVE  Taken'
    BY <1>1 DEF Begin, rigid, callVars
<1>2. ASSUME NEW c \in Callers, Acquire(c)
       PROVE  Taken'
    BY <1>2 DEF Acquire, rigid, callVars
<1>3. ASSUME NEW c \in Callers, TakeNonce(c)
       PROVE  Taken'
    BY <1>3 DEF TakeNonce, rigid, callVars
<1>4. ASSUME NEW c \in Callers, AskNode(c)
       PROVE  Taken'
    BY <1>4 DEF AskNode, rigid, callVars
<1>5. ASSUME NEW c \in Callers, NodeAnswers(c)
       PROVE  Taken'
    BY <1>5 DEF NodeAnswers, rigid, callVars
<1>6. ASSUME NEW c \in Callers, StoreNonce(c)
       PROVE  Taken'
    BY <1>6 DEF StoreNonce, rigid, callVars
<1>7. ASSUME NEW c \in Callers, NodeAccepts(c)
       PROVE  Taken'
    <2>1. PICK l \in Lanes : l = laneOf[c]
        OBVIOUS
    <2>2. PICK n \in Nonces : n = nonceOf[c] /\ n \notin used[l]
        BY <1>7, <2>1 DEF NodeAccepts, Accepts
    <2>3. /\ used' = [used EXCEPT ![l] = @ \union {n}]
          /\ pc' = [pc EXCEPT ![c] = "accepted"] /\ pc[c] = "ready"
          /\ UNCHANGED <<laneOf, nonceOf, disturbed>> /\ UNCHANGED mode
        BY <1>7, <2>1, <2>2 DEF NodeAccepts, rigid
    <2>4. used'[l] = used[l] \union {n} /\ \A k \in Lanes \ {l} : used'[k] = used[k]
        BY <2>3
    <2>5. ASSUME ~disturbed[l] PROVE n + 1 \notin used[l]
        <3>1. n \in Nat /\ n + 1 \in Nat /\ n \in 0 .. (n + 1) - 1
            BY DEF Nonces
        <3> QED BY <2>2, <2>5, <3>1
    <2>6. n \in Nat /\ n + 1 # n
        BY DEF Nonces
    <2>7. ASSUME NEW d \in Callers, ~disturbed'[laneOf'[d]], pc'[d] \in {"accepted", "loaded"}
          PROVE  /\ nonceOf'[d] \in used'[laneOf'[d]]
                 /\ mode' # "route" => nonceOf'[d] + 1 \notin used'[laneOf'[d]]
        <3>1. CASE d = c
            BY <2>1, <2>2, <2>3, <2>4, <2>5, <2>6, <2>7, <3>1
        <3>2. CASE d # c /\ laneOf[d] # l
            BY <2>3, <2>4, <2>7, <3>2
        <3>3. CASE d # c /\ laneOf[d] = l
            <4>1. mode = "route"
                BY <2>1, <2>3, <2>7, <3>3 DEF InFlight
            <4> QED BY <2>3, <2>4, <2>7, <3>3, <4>1
        <3> QED BY <3>1, <3>2, <3>3
    <2> QED BY <2>7
<1>8. ASSUME NEW c \in Callers, CallRaises(c)
       PROVE  Taken'
    BY <1>8 DEF CallRaises, Leave, rigid, callVars
<1>9. ASSUME NEW c \in Callers, AnswerLost(c)
       PROVE  Taken'
    BY <1>9 DEF AnswerLost, Leave, rigid, callVars
<1>10. ASSUME NEW c \in Callers, Increment(c)
       PROVE  Taken'
    BY <1>10 DEF Increment, Leave, rigid, callVars
<1>11. ASSUME NEW c \in Callers, LoadCounter(c)
       PROVE  Taken'
    BY <1>11 DEF LoadCounter, rigid, callVars
<1>12. ASSUME NEW c \in Callers, StoreCounter(c)
       PROVE  Taken'
    BY <1>12 DEF StoreCounter, Leave, rigid, callVars
<1>13. ASSUME NEW c \in Callers, SkipCounter(c)
       PROVE  Taken'
    BY <1>13 DEF SkipCounter, Leave, rigid, callVars
<1>14. ASSUME NEW S \in {Lanes} \union {{l} : l \in Lanes}, ResetCache(S)
       PROVE  Taken'
    BY <1>14 DEF ResetCache, rigid, callVars
<1>15. ASSUME NEW l \in Lanes, PeekNonce(l)
       PROVE  Taken'
    BY <1>15 DEF PeekNonce, rigid, callVars
<1>16. ASSUME NEW l \in Lanes, ExpireEntry(l)
       PROVE  Taken'
    BY <1>16 DEF ExpireEntry, rigid, callVars
<1>17. CASE UNCHANGED laneVars
    BY <1>17 DEF laneVars, rigid, callVars
<1> QED BY <1>1, <1>2, <1>3, <1>4, <1>5, <1>6, <1>7, <1>8, <1>9,
           <1>10, <1>11, <1>12, <1>13, <1>14, <1>15, <1>16, <1>17 DEF LaneNext

(* No one else moves the cached nonce of a call's lane.                    *)
LEMMA MatchingStep == LaneInv /\ [LaneNext]_laneVars => Matching'
<1> SUFFICES ASSUME LaneInv, [LaneNext]_laneVars PROVE Matching'
    OBVIOUS
<1> USE DEF LaneInv, LaneTypeOK, Alone, Sources, Matching, InFlight
<1>1. ASSUME NEW c \in Callers, NEW key \in Lanes \union {None},
             NEW nonce \in Nonces \union {None}, Begin(c, key, nonce)
       PROVE  Matching'
    BY <1>1 DEF Begin, rigid, callVars, Lanewise
<1>2. ASSUME NEW c \in Callers, Acquire(c)
       PROVE  Matching'
    BY <1>2 DEF Acquire, rigid, callVars, Lanewise
<1>3. ASSUME NEW c \in Callers, TakeNonce(c)
       PROVE  Matching'
    BY <1>3 DEF TakeNonce, rigid, callVars, Lanewise
<1>4. ASSUME NEW c \in Callers, AskNode(c)
       PROVE  Matching'
    BY <1>4 DEF AskNode, rigid, callVars, Lanewise
<1>5. ASSUME NEW c \in Callers, NodeAnswers(c)
       PROVE  Matching'
    <2>1. PICK n \in Nonces :
            /\ Answer(n, laneOf[c]) /\ nonceOf' = [nonceOf EXCEPT ![c] = n]
            /\ disturbed' = [disturbed EXCEPT ![laneOf[c]] = @ \/ Misleads(n, laneOf[c])]
        BY <1>5 DEF NodeAnswers
    <2>2. \A l \in Lanes : ~disturbed'[l] => ~disturbed[l]
        BY <2>1, AnswerDisturbs
    <2>3. Lanewise(laneOf[c]) /\ ~cachedClient => n \notin used[laneOf[c]]
        BY <2>1, AnswerIsNext
    <2>4. /\ UNCHANGED <<mode, cachedClient, used, nonces, laneOf>> /\ pc' = [pc EXCEPT ![c] = "answered"]
          /\ \A l : Lanewise(l)' <=> Lanewise(l)
        BY <1>5, LanewiseStays DEF NodeAnswers, rigid
    <2> QED BY <2>1, <2>2, <2>3, <2>4
<1>6. ASSUME NEW c \in Callers, StoreNonce(c)
       PROVE  Matching'
    BY <1>6 DEF StoreNonce, rigid, callVars, Lanewise
<1>7. ASSUME NEW c \in Callers, NodeAccepts(c)
       PROVE  Matching'
    BY <1>7 DEF NodeAccepts, rigid, callVars, Lanewise
<1>8. ASSUME NEW c \in Callers, CallRaises(c)
       PROVE  Matching'
    BY <1>8 DEF CallRaises, Leave, rigid, callVars, Lanewise
<1>9. ASSUME NEW c \in Callers, AnswerLost(c)
       PROVE  Matching'
    BY <1>9 DEF AnswerLost, Leave, rigid, callVars, Lanewise
<1>10. ASSUME NEW c \in Callers, Increment(c)
       PROVE  Matching'
    BY <1>10 DEF Increment, Leave, rigid, callVars, Lanewise
<1>11. ASSUME NEW c \in Callers, LoadCounter(c)
       PROVE  Matching'
    BY <1>11 DEF LoadCounter, rigid, callVars, Lanewise
<1>12. ASSUME NEW c \in Callers, StoreCounter(c)
       PROVE  Matching'
    BY <1>12 DEF StoreCounter, Leave, rigid, callVars, Lanewise
<1>13. ASSUME NEW c \in Callers, SkipCounter(c)
       PROVE  Matching'
    BY <1>13 DEF SkipCounter, Leave, rigid, callVars, Lanewise
<1>14. ASSUME NEW S \in {Lanes} \union {{l} : l \in Lanes}, ResetCache(S)
       PROVE  Matching'
    BY <1>14 DEF ResetCache, rigid, callVars, Lanewise
<1>15. ASSUME NEW l \in Lanes, PeekNonce(l)
       PROVE  Matching'
    <2>1. PICK n \in Nonces :
            /\ nonces' = [nonces EXCEPT ![l] = n]
            /\ disturbed' = [disturbed EXCEPT ![l] =
                               @ \/ Misleads(n, l) \/ \E c \in Callers : InFlight(c) /\ laneOf[c] = l]
        BY <1>15 DEF PeekNonce
    <2> DEFINE more == \E c \in Callers : InFlight(c) /\ laneOf[c] = l
    <2>2. /\ \A m \in Lanes : ~disturbed'[m] => ~disturbed[m]
          /\ ~disturbed'[l] => ~more
        <3>1. more \in BOOLEAN /\ disturbed' = [disturbed EXCEPT ![l] = @ \/ Misleads(n, l) \/ more]
            BY <2>1
        <3> HIDE DEF more
        <3> QED BY <3>1, AnswerDisturbs
    <2>3. /\ UNCHANGED <<mode, cachedClient, used, pc, laneOf, nonceOf>>
          /\ \A m : Lanewise(m)' <=> Lanewise(m)
        BY <1>15, LanewiseStays DEF PeekNonce, rigid, callVars
    <2> QED BY <2>1, <2>2, <2>3
<1>16. ASSUME NEW l \in Lanes, ExpireEntry(l)
       PROVE  Matching'
    BY <1>16 DEF ExpireEntry, rigid, callVars, Lanewise
<1>17. CASE UNCHANGED laneVars
    BY <1>17 DEF laneVars, rigid, callVars, Lanewise
<1> QED BY <1>1, <1>2, <1>3, <1>4, <1>5, <1>6, <1>7, <1>8, <1>9,
           <1>10, <1>11, <1>12, <1>13, <1>14, <1>15, <1>16, <1>17 DEF LaneNext

(* A nonce is accepted only above accepted ones.                           *)
LEMMA GapStep == LaneInv /\ [LaneNext]_laneVars => LaneGapFree'
<1> SUFFICES ASSUME LaneInv, [LaneNext]_laneVars PROVE LaneGapFree'
    OBVIOUS
<1> USE DEF LaneInv, LaneTypeOK, Below, LaneGapFree, AllBelow
<1>1. ASSUME NEW c \in Callers, NEW key \in Lanes \union {None},
             NEW nonce \in Nonces \union {None}, Begin(c, key, nonce)
       PROVE  LaneGapFree'
    BY <1>1 DEF Begin, rigid, callVars
<1>2. ASSUME NEW c \in Callers, Acquire(c)
       PROVE  LaneGapFree'
    BY <1>2 DEF Acquire, rigid, callVars
<1>3. ASSUME NEW c \in Callers, TakeNonce(c)
       PROVE  LaneGapFree'
    BY <1>3 DEF TakeNonce, rigid, callVars
<1>4. ASSUME NEW c \in Callers, AskNode(c)
       PROVE  LaneGapFree'
    BY <1>4 DEF AskNode, rigid, callVars
<1>5. ASSUME NEW c \in Callers, NodeAnswers(c)
       PROVE  LaneGapFree'
    BY <1>5 DEF NodeAnswers, rigid, callVars
<1>6. ASSUME NEW c \in Callers, StoreNonce(c)
       PROVE  LaneGapFree'
    BY <1>6 DEF StoreNonce, rigid, callVars
<1>7. ASSUME NEW c \in Callers, NodeAccepts(c)
       PROVE  LaneGapFree'
    BY <1>7 DEF NodeAccepts, rigid, callVars
<1>8. ASSUME NEW c \in Callers, CallRaises(c)
       PROVE  LaneGapFree'
    BY <1>8 DEF CallRaises, Leave, rigid, callVars
<1>9. ASSUME NEW c \in Callers, AnswerLost(c)
       PROVE  LaneGapFree'
    BY <1>9 DEF AnswerLost, Leave, rigid, callVars
<1>10. ASSUME NEW c \in Callers, Increment(c)
       PROVE  LaneGapFree'
    BY <1>10 DEF Increment, Leave, rigid, callVars
<1>11. ASSUME NEW c \in Callers, LoadCounter(c)
       PROVE  LaneGapFree'
    BY <1>11 DEF LoadCounter, rigid, callVars
<1>12. ASSUME NEW c \in Callers, StoreCounter(c)
       PROVE  LaneGapFree'
    BY <1>12 DEF StoreCounter, Leave, rigid, callVars
<1>13. ASSUME NEW c \in Callers, SkipCounter(c)
       PROVE  LaneGapFree'
    BY <1>13 DEF SkipCounter, Leave, rigid, callVars
<1>14. ASSUME NEW S \in {Lanes} \union {{l} : l \in Lanes}, ResetCache(S)
       PROVE  LaneGapFree'
    BY <1>14 DEF ResetCache, rigid, callVars
<1>15. ASSUME NEW l \in Lanes, PeekNonce(l)
       PROVE  LaneGapFree'
    BY <1>15 DEF PeekNonce, rigid, callVars
<1>16. ASSUME NEW l \in Lanes, ExpireEntry(l)
       PROVE  LaneGapFree'
    BY <1>16 DEF ExpireEntry, rigid, callVars
<1>17. CASE UNCHANGED laneVars
    BY <1>17 DEF laneVars, rigid, callVars
<1> QED BY <1>1, <1>2, <1>3, <1>4, <1>5, <1>6, <1>7, <1>8, <1>9,
           <1>10, <1>11, <1>12, <1>13, <1>14, <1>15, <1>16, <1>17 DEF LaneNext

(* The counter moves to the next nonce of the chain, or is fetched again.  *)
LEMMA ExactStep == LaneInv /\ [LaneNext]_laneVars => LaneCounterExact'
<1> SUFFICES ASSUME LaneInv, [LaneNext]_laneVars PROVE LaneCounterExact'
    OBVIOUS
<1> USE DEF LaneInv, LaneTypeOK, Locked, Sources, Below, Taken, Matching, LaneCounterExact, AllBelow
<1>1. ASSUME NEW c \in Callers, NEW key \in Lanes \union {None},
             NEW nonce \in Nonces \union {None}, Begin(c, key, nonce)
       PROVE  LaneCounterExact'
    BY <1>1 DEF Begin, rigid, callVars, Lanewise
<1>2. ASSUME NEW c \in Callers, Acquire(c)
       PROVE  LaneCounterExact'
    BY <1>2 DEF Acquire, rigid, callVars, Lanewise
<1>3. ASSUME NEW c \in Callers, TakeNonce(c)
       PROVE  LaneCounterExact'
    BY <1>3 DEF TakeNonce, rigid, callVars, Lanewise
<1>4. ASSUME NEW c \in Callers, AskNode(c)
       PROVE  LaneCounterExact'
    BY <1>4 DEF AskNode, rigid, callVars, Lanewise
<1>5. ASSUME NEW c \in Callers, NodeAnswers(c)
       PROVE  LaneCounterExact'
    BY <1>5 DEF NodeAnswers, rigid, callVars, Lanewise
<1>6. ASSUME NEW c \in Callers, StoreNonce(c)
       PROVE  LaneCounterExact'
    BY <1>6 DEF StoreNonce, rigid, callVars, Lanewise
<1>7. ASSUME NEW c \in Callers, NodeAccepts(c)
       PROVE  LaneCounterExact'
    BY <1>7 DEF NodeAccepts, rigid, callVars, Lanewise
<1>8. ASSUME NEW c \in Callers, CallRaises(c)
       PROVE  LaneCounterExact'
    BY <1>8 DEF CallRaises, Leave, rigid, callVars, Lanewise
<1>9. ASSUME NEW c \in Callers, AnswerLost(c)
       PROVE  LaneCounterExact'
    BY <1>9 DEF AnswerLost, Leave, rigid, callVars, Lanewise
<1>10. ASSUME NEW c \in Callers, Increment(c)
       PROVE  LaneCounterExact'
    BY <1>10 DEF Increment, Leave, rigid, callVars, Lanewise
<1>11. ASSUME NEW c \in Callers, LoadCounter(c)
       PROVE  LaneCounterExact'
    BY <1>11 DEF LoadCounter, rigid, callVars, Lanewise
<1>12. ASSUME NEW c \in Callers, StoreCounter(c)
       PROVE  LaneCounterExact'
    <2>1. PICK l \in Lanes : l = laneOf[c]
        OBVIOUS
    <2>2. /\ nonces' = [nonces EXCEPT ![l] = nonceOf[c] + 1]
          /\ pc[c] = "loaded" /\ pc' = [pc EXCEPT ![c] = "idle"] /\ laneOf' = [laneOf EXCEPT ![c] = 0]
          /\ UNCHANGED <<used, disturbed, lost, cachedClient>>
          /\ \A m : Lanewise(m)' <=> Lanewise(m)
        BY <1>12, <2>1, LanewiseStays DEF StoreCounter, Leave, rigid
    <2>3. ~disturbed[l] => /\ AllBelow(nonceOf[c] + 1, l) /\ nonceOf[c] + 1 \notin used[l]
                           /\ nonceOf[c] # None
        <3>1. ~disturbed[l] => /\ nonceOf[c] # None /\ nonceOf[c] \in Nat /\ AllBelow(nonceOf[c], l)
                               /\ nonceOf[c] \in used[l] /\ nonceOf[c] + 1 \notin used[l]
            BY <2>1, <2>2 DEF Modes
        <3> QED BY <3>1
    <2>4. ASSUME NEW m \in Lanes, ~disturbed'[m], nonces'[m] # None
          PROVE  /\ \A k \in 0 .. nonces'[m] - 1 : k \in used'[m]
                 /\ \/ lost'[m] \/ cachedClient' \/ ~Lanewise(m)' \/ nonces'[m] \notin used'[m]
                    \/ \E d \in Callers : pc'[d] \in {"accepted", "loaded"} /\ laneOf'[d] = m
        <3>1. CASE m = l
            BY <2>2, <2>3, <2>4, <3>1
        <3>2. CASE m # l
            BY <2>1, <2>2, <2>4, <3>2
        <3> QED BY <3>1, <3>2
    <2> QED BY <2>4
<1>13. ASSUME NEW c \in Callers, SkipCounter(c)
       PROVE  LaneCounterExact'
    BY <1>13 DEF SkipCounter, Leave, rigid, callVars, Lanewise
<1>14. ASSUME NEW S \in {Lanes} \union {{l} : l \in Lanes}, ResetCache(S)
       PROVE  LaneCounterExact'
    BY <1>14 DEF ResetCache, rigid, callVars, Lanewise
<1>15. ASSUME NEW l \in Lanes, PeekNonce(l)
       PROVE  LaneCounterExact'
    <2>1. PICK n \in Nonces :
            /\ Answer(n, l) /\ nonces' = [nonces EXCEPT ![l] = n]
            /\ disturbed' = [disturbed EXCEPT ![l] =
                               @ \/ Misleads(n, l) \/ \E c \in Callers : InFlight(c) /\ laneOf[c] = l]
        BY <1>15 DEF PeekNonce
    <2> DEFINE more == \E c \in Callers : InFlight(c) /\ laneOf[c] = l
    <2>2. /\ \A m \in Lanes : ~disturbed'[m] => ~disturbed[m]
          /\ ~disturbed'[l] => AllBelow(n, l)
        <3>1. more \in BOOLEAN /\ disturbed' = [disturbed EXCEPT ![l] = @ \/ Misleads(n, l) \/ more]
            BY <2>1
        <3> HIDE DEF more
        <3> QED BY <3>1, AnswerDisturbs
    <2>3. /\ UNCHANGED <<cachedClient, used, pc, laneOf>>
          /\ \A m \in Lanes \ {l} : lost'[m] = lost[m]
          /\ \A m : Lanewise(m)' <=> Lanewise(m)
        BY <1>15, LanewiseStays DEF PeekNonce, rigid, callVars
    <2>4. Lanewise(l) /\ ~cachedClient => n \notin used[l]
        BY <2>1, AnswerIsNext
    <2> QED BY <2>1, <2>2, <2>3, <2>4
<1>16. ASSUME NEW l \in Lanes, ExpireEntry(l)
       PROVE  LaneCounterExact'
    BY <1>16 DEF ExpireEntry, rigid, callVars, Lanewise
<1>17. CASE UNCHANGED laneVars
    BY <1>17 DEF laneVars, rigid, callVars, Lanewise
<1> QED BY <1>1, <1>2, <1>3, <1>4, <1>5, <1>6, <1>7, <1>8, <1>9,
           <1>10, <1>11, <1>12, <1>13, <1>14, <1>15, <1>16, <1>17 DEF LaneNext

(* The initial states satisfy the invariant.                               *)
LEMMA LaneInitInv == LaneInit => LaneInv
<1> SUFFICES ASSUME LaneInit PROVE LaneInv
    OBVIOUS
<1>1. LaneTypeOK
    BY LanesInTurn DEF LaneInit, LaneTypeOK
<1>2. Locked /\ Alone /\ Sources /\ Below /\ Taken /\ Matching
    BY DEF LaneInit, LaneTypeOK, Locked, Alone, Sources, Below, Taken, Matching, InFlight
<1>3. LaneGapFree /\ LaneCounterExact
    BY DEF LaneInit, LaneGapFree, LaneCounterExact
<1> QED BY <1>1, <1>2, <1>3 DEF LaneInv

(* The invariant is inductive.                                             *)
LEMMA LaneInvAlways == LaneSpec => []LaneInv
<1>1. LaneInv /\ [LaneNext]_laneVars => LaneInv'
    <2> SUFFICES ASSUME LaneInv, [LaneNext]_laneVars PROVE LaneInv'
        OBVIOUS
    <2>1. LaneTypeOK' /\ Locked' /\ Alone'
        BY LaneTypeStep, LockedStep, AloneStep DEF LaneInv
    <2>2. Sources' /\ Below' /\ Taken' /\ Matching'
        BY SourcesStep, BelowStep, TakenStep, MatchingStep
    <2>3. LaneGapFree' /\ LaneCounterExact'
        BY GapStep, ExactStep
    <2> QED BY <2>1, <2>2, <2>3 DEF LaneInv
<1> QED BY <1>1, LaneInitInv, PTL DEF LaneSpec

(* The variables of the wallet have their types in every reachable state.  *)
THEOREM LaneTypes == LaneSpec => []LaneTypeOK
<1>1. LaneInv => LaneTypeOK
    BY DEF LaneInv
<1> QED BY <1>1, LaneInvAlways, PTL

(* No lane that only the wallet or only the route uses ever skips a nonce, *)
(* however many lanes, callers and calls there are, and whatever fails.    *)
THEOREM LaneNeverStalls == LaneSpec => []LaneGapFree
<1>1. LaneInv => LaneGapFree
    BY DEF LaneInv
<1> QED BY <1>1, LaneInvAlways, PTL

(* The cached nonce of such a lane is never ahead of the chain, nor behind *)
(* it but after a lost answer or an answer of the caching client.          *)
THEOREM LaneCounterIsExact == LaneSpec => []LaneCounterExact
<1>1. LaneInv => LaneCounterExact
    BY DEF LaneInv
<1> QED BY <1>1, LaneInvAlways, PTL

-----------------------------------------------------------------------------
(* The calls before the present one have returned, those after it have not *)
(* been touched, and the present one has an outcome only when the agent is *)
(* at its end.                                                             *)
InOrder ==
    /\ \A o \in Ops : o < step => outcome[o] = "returned"
    /\ \A o \in Ops : o > step => outcome[o] = "none" /\ unheard[o] = 0
    /\ aPc \notin {"raised", "done"} => outcome[step] = "none"
    /\ aPc = "raised" => outcome[step] # "returned"

(* Executions are answers had or lost.                                     *)
Accounted ==
    \A o \in Ops :
      executed[o] = unheard[o] + (IF \/ outcome[o] = "returned"
                                     \/ o = step /\ aPc = "taken" THEN 1 ELSE 0)

AgentInv == AgentTypeOK /\ InOrder /\ Accounted

(* What keeps the TypeScript agent at nonce 0, and the chain at it only    *)
(* while nothing was executed.                                             *)
TsInv ==
    sdk = "typescript" =>
      /\ cached = Unknown /\ aNonce \in {Unknown, 0} /\ aPc # "refetching"
      /\ ledger = 0 => \A o \in Ops : executed[o] = 0

-----------------------------------------------------------------------------
(* A call is at the place it has among the calls.                          *)
LEMMA OpsAreNat == Ops \subseteq Nat /\ 1 \in Ops /\ \A o \in Ops : o >= 1
BY AgentAssumption DEF Ops

(* The initial states satisfy the invariant.                               *)
LEMMA AgentInitInv == AgentInit => AgentInv
<1> SUFFICES ASSUME AgentInit PROVE AgentInv
    OBVIOUS
<1>1. AgentTypeOK
    <2>1. ledger \in Nat
        BY AgentAssumption DEF AgentInit
    <2>2. /\ outcome \in [Ops -> {"none", "returned", "raised", "exhausted"}]
          /\ executed \in [Ops -> Nat] /\ unheard \in [Ops -> Nat]
        BY DEF AgentInit
    <2> QED BY <2>1, <2>2, OpsAreNat DEF AgentInit, AgentTypeOK
<1>2. InOrder
    BY OpsAreNat DEF AgentInit, InOrder
<1>3. Accounted
    BY OpsAreNat DEF AgentInit, Accounted
<1> QED BY <1>1, <1>2, <1>3 DEF AgentInv

(* Every step keeps the types.                                             *)
LEMMA AgentTypeStep == AgentTypeOK /\ [AgentNext]_agentVars => AgentTypeOK'
<1> SUFFICES ASSUME AgentTypeOK, [AgentNext]_agentVars PROVE AgentTypeOK'
    OBVIOUS
<1> USE OpsAreNat, AgentAssumption DEF AgentTypeOK, Unknown
<1>1. CASE PyPrepare
    BY <1>1 DEF PyPrepare, Prepare, history
<1>2. CASE TsPrepare
    BY <1>2 DEF TsPrepare, Prepare, history
<1>3. CASE NonceFails
    BY <1>3 DEF NonceFails, Give, progress, history
<1>4. CASE NodeTakes
    BY <1>4 DEF NodeTakes
<1>5. CASE NodeRefuses
    BY <1>5 DEF NodeRefuses, history
<1>6. CASE NodeRejects
    BY <1>6 DEF NodeRejects, Give, progress, history
<1>7. CASE NoAnswer
    BY <1>7 DEF NoAnswer, Give, progress
<1>8. CASE Returns
    BY <1>8 DEF Returns, Ops, history
<1>9. CASE TsRecover
    BY <1>9 DEF TsRecover, Again, Give, progress, history
<1>10. CASE PyRefetch
    BY <1>10 DEF PyRefetch, progress, history
<1>11. CASE PyRecover
    BY <1>11 DEF PyRecover, Again, Give, progress, history
<1>12. CASE OtherSends
    BY <1>12 DEF OtherSends, progress, history
<1>13. CASE UNCHANGED agentVars
    BY <1>13 DEF agentVars, progress, history
<1> QED BY <1>1, <1>2, <1>3, <1>4, <1>5, <1>6, <1>7, <1>8, <1>9, <1>10, <1>11, <1>12,
           <1>13 DEF AgentNext

(* Every step keeps the calls in order.                                    *)
LEMMA InOrderStep == AgentInv /\ [AgentNext]_agentVars => InOrder'
<1> SUFFICES ASSUME AgentInv, [AgentNext]_agentVars PROVE InOrder'
    OBVIOUS
<1> USE OpsAreNat DEF AgentInv, AgentTypeOK, InOrder
<1>1. CASE PyPrepare
    BY <1>1 DEF PyPrepare, Prepare, history
<1>2. CASE TsPrepare
    BY <1>2 DEF TsPrepare, Prepare, history
<1>3. CASE NonceFails
    BY <1>3 DEF NonceFails, Give, progress, history
<1>4. CASE NodeTakes
    BY <1>4 DEF NodeTakes
<1>5. CASE NodeRefuses
    BY <1>5 DEF NodeRefuses, history
<1>6. CASE NodeRejects
    BY <1>6 DEF NodeRejects, Give, progress, history
<1>7. CASE NoAnswer
    BY <1>7 DEF NoAnswer, Give, progress
<1>8. CASE Returns
    <2>1. PICK s \in Ops : s = step
        OBVIOUS
    <2>2. /\ outcome' = [outcome EXCEPT ![s] = "returned"] /\ unheard' = unheard
          /\ aPc' \in {"idle", "done"}
          /\ aPc' = "done" => step' = s
          /\ aPc' = "idle" => step' = s + 1 /\ step' \in Ops
        <3>1. CASE step < OpCount
            <4>1. s + 1 \in Ops
                BY <2>1, <3>1, AgentAssumption DEF Ops
            <4> QED BY <1>8, <2>1, <3>1, <4>1 DEF Returns, history
        <3>2. CASE ~(step < OpCount)
            BY <1>8, <2>1, <3>2 DEF Returns, history
        <3> QED BY <3>1, <3>2
    <2>3. outcome'[s] = "returned" /\ \A o \in Ops \ {s} : outcome'[o] = outcome[o]
        BY <2>2
    <2>4. s \in Nat /\ Ops \subseteq Nat
        BY <2>1
    <2>5. CASE aPc' = "done"
        BY <2>1, <2>2, <2>3, <2>4, <2>5
    <2>6. CASE aPc' = "idle"
        <3>1. step' = s + 1 /\ step' \in Ops
            BY <2>2, <2>6
        <3>2. \A o \in Ops : o < step' => outcome'[o] = "returned"
            BY <2>1, <2>3, <2>4, <3>1
        <3>3. \A o \in Ops : o > step' => outcome'[o] = "none" /\ unheard'[o] = 0
            BY <2>1, <2>2, <2>3, <2>4, <3>1
        <3>4. outcome'[step'] = "none"
            BY <2>1, <2>3, <2>4, <3>1
        <3> QED BY <2>6, <3>2, <3>3, <3>4
    <2> QED BY <2>2, <2>5, <2>6
<1>9. CASE TsRecover
    BY <1>9 DEF TsRecover, Again, Give, progress, history
<1>10. CASE PyRefetch
    BY <1>10 DEF PyRefetch, progress, history
<1>11. CASE PyRecover
    BY <1>11 DEF PyRecover, Again, Give, progress, history
<1>12. CASE OtherSends
    BY <1>12 DEF OtherSends, progress, history
<1>13. CASE UNCHANGED agentVars
    BY <1>13 DEF agentVars, progress, history
<1> QED BY <1>1, <1>2, <1>3, <1>4, <1>5, <1>6, <1>7, <1>8, <1>9, <1>10, <1>11, <1>12,
           <1>13 DEF AgentNext

(* Every step keeps the account of executions: one is added as the node    *)
(* takes the transaction, and it becomes an answer lost or had.            *)
LEMMA AccountedStep == AgentInv /\ [AgentNext]_agentVars => Accounted'
<1> SUFFICES ASSUME AgentInv, [AgentNext]_agentVars PROVE Accounted'
    OBVIOUS
<1> USE OpsAreNat DEF AgentInv, AgentTypeOK, InOrder, Accounted
<1>1. CASE PyPrepare
    BY <1>1 DEF PyPrepare, Prepare, history
<1>2. CASE TsPrepare
    BY <1>2 DEF TsPrepare, Prepare, history
<1>3. CASE NonceFails
    BY <1>3 DEF NonceFails, Give, progress, history
<1>4. CASE NodeTakes
    BY <1>4 DEF NodeTakes
<1>5. CASE NodeRefuses
    BY <1>5 DEF NodeRefuses, history
<1>6. CASE NodeRejects
    BY <1>6 DEF NodeRejects, Give, progress, history
<1>7. CASE NoAnswer
    BY <1>7 DEF NoAnswer, Give, progress
<1>8. CASE Returns
    BY <1>8 DEF Returns, Ops, history
<1>9. CASE TsRecover
    BY <1>9 DEF TsRecover, Again, Give, progress, history
<1>10. CASE PyRefetch
    BY <1>10 DEF PyRefetch, progress, history
<1>11. CASE PyRecover
    BY <1>11 DEF PyRecover, Again, Give, progress, history
<1>12. CASE OtherSends
    BY <1>12 DEF OtherSends, progress, history
<1>13. CASE UNCHANGED agentVars
    BY <1>13 DEF agentVars, progress, history
<1> QED BY <1>1, <1>2, <1>3, <1>4, <1>5, <1>6, <1>7, <1>8, <1>9, <1>10, <1>11, <1>12,
           <1>13 DEF AgentNext

(* The invariant is inductive.                                             *)
LEMMA AgentInvAlways == AgentSpec => []AgentInv
<1>1. AgentInv /\ [AgentNext]_agentVars => AgentInv'
    BY AgentTypeStep, InOrderStep, AccountedStep DEF AgentInv
<1> QED BY <1>1, AgentInitInv, PTL DEF AgentSpec

(* The order of the calls and the account of them is what the property     *)
(* says.                                                                   *)
LEMMA AgentInvSuffices == AgentInv => AgentExecutesOnce
<1> SUFFICES ASSUME AgentInv, NEW o \in Ops
             PROVE  /\ executed[o] = unheard[o] + (IF \/ outcome[o] = "returned"
                                                      \/ o = step /\ aPc = "taken" THEN 1 ELSE 0)
                    /\ executed[o] > 0 => \A earlier \in 1 .. o - 1 : outcome[earlier] = "returned"
    BY DEF AgentExecutesOnce
<1>1. executed[o] = unheard[o] + (IF \/ outcome[o] = "returned"
                                     \/ o = step /\ aPc = "taken" THEN 1 ELSE 0)
    BY DEF AgentInv, Accounted
<1>2. ASSUME executed[o] > 0, NEW earlier \in 1 .. o - 1
      PROVE  outcome[earlier] = "returned"
    <2>1. o \in Nat /\ step \in Nat /\ earlier \in Ops
        BY AgentAssumption DEF AgentInv, AgentTypeOK, Ops
    <2>2. ~(o > step)
        BY <1>1, <1>2, <2>1 DEF AgentInv, InOrder
    <2>3. earlier < step
        BY <2>1, <2>2
    <2> QED BY <2>1, <2>3 DEF AgentInv, InOrder
<1> QED BY <1>1, <1>2

(* The variables of an agent have their types in every reachable state.    *)
THEOREM AgentTypes == AgentSpec => []AgentTypeOK
<1>1. AgentInv => AgentTypeOK
    BY DEF AgentInv
<1> QED BY <1>1, AgentInvAlways, PTL

(* A call is executed once for its answer and once for each lost answer,   *)
(* and the calls of a swap are executed in order: _send_call_with_retry    *)
(* over _call's own retries, whatever the numbers of attempts and posts.   *)
THEOREM AgentOnce == AgentSpec => []AgentExecutesOnce
BY AgentInvAlways, AgentInvSuffices, PTL

-----------------------------------------------------------------------------
(* Every step of a TypeScript agent signs nonce 0, and the node takes it   *)
(* from an untouched account only.                                         *)
LEMMA TsStep ==
    AgentTypeOK /\ TsInv /\ TsAgentSendsOnce /\ [AgentNext]_agentVars
      => TsInv' /\ TsAgentSendsOnce'
<1> SUFFICES ASSUME AgentTypeOK, TsInv, TsAgentSendsOnce, [AgentNext]_agentVars
             PROVE  TsInv' /\ TsAgentSendsOnce'
    OBVIOUS
<1> USE OpsAreNat DEF AgentTypeOK, TsInv, TsAgentSendsOnce, Unknown
<1>1. CASE PyPrepare
    BY <1>1 DEF PyPrepare, Prepare, history
<1>2. CASE TsPrepare
    BY <1>2 DEF TsPrepare, Prepare, history
<1>3. CASE NonceFails
    BY <1>3 DEF NonceFails, Give, progress, history
<1>4. CASE NodeTakes
    BY <1>4 DEF NodeTakes
<1>5. CASE NodeRefuses
    BY <1>5 DEF NodeRefuses, history
<1>6. CASE NodeRejects
    BY <1>6 DEF NodeRejects, Give, progress, history
<1>7. CASE NoAnswer
    BY <1>7 DEF NoAnswer, Give, progress
<1>8. CASE Returns
    BY <1>8 DEF Returns, history
<1>9. CASE TsRecover
    BY <1>9 DEF TsRecover, Again, Give, progress, history
<1>10. CASE PyRefetch
    BY <1>10 DEF PyRefetch, progress, history
<1>11. CASE PyRecover
    BY <1>11 DEF PyRecover, Again, Give, progress, history
<1>12. CASE OtherSends
    BY <1>12 DEF OtherSends, progress, history
<1>13. CASE UNCHANGED agentVars
    BY <1>13 DEF agentVars, progress, history
<1> QED BY <1>1, <1>2, <1>3, <1>4, <1>5, <1>6, <1>7, <1>8, <1>9, <1>10, <1>11, <1>12,
           <1>13 DEF AgentNext

(* The TypeScript agent, whose wallet always answers nonce 0, gets at most *)
(* one transaction executed, whatever it calls and retries.                *)
THEOREM TsAgentOnce == AgentSpec => []TsAgentSendsOnce
<1>1. AgentInit => TsInv /\ TsAgentSendsOnce
    BY OpsAreNat DEF AgentInit, TsInv, TsAgentSendsOnce
<1> QED BY <1>1, TsStep, AgentTypes, PTL DEF AgentSpec
-----------------------------------------------------------------------------
(* The parallel client.                                                    *)

BroadcastTypeOK ==
    /\ lang \in {"python", "typescript"}
    /\ phase \in {"sending", "sent", "failed", "confirming", "confirmed", "unconfirmed"}
    /\ request \in [Nodes -> {"open", "good", "failed", "unasked"}]
    /\ reply \in [Nodes -> {"none", "hash", "error", "confirmed", "unconfirmed"}]
    /\ holds \subseteq Nodes
    /\ confirmed \in BOOLEAN

(* Before it is confirmed, every node was sent the transaction, and a node *)
(* whose hash came back has it.                                            *)
Submitted ==
    phase \in {"sending", "sent", "failed"} =>
      \A n \in Nodes :
        /\ request[n] # "unasked"
        /\ request[n] = "good" => reply[n] = "hash"
        /\ reply[n] = "hash" => n \in holds
        /\ reply[n] \in {"none", "hash", "error"}

(* A node says confirmed of what the chain has executed.                   *)
Truthful ==
    \A n \in Nodes : reply[n] = "confirmed" => confirmed

BroadcastInv == BroadcastTypeOK /\ Submitted /\ Truthful /\ BroadcastReport

(* Nodes are sent the transaction before anything is known of it.          *)
LEMMA BroadcastInitInv == BroadcastInit => BroadcastInv
BY DEF BroadcastInit, BroadcastInv, BroadcastTypeOK, Submitted, Truthful, BroadcastReport

(* What happens at the nodes and on the chain keeps the invariant.         *)
LEMMA NodeStepInv ==
    ASSUME BroadcastInv, NEW n \in Nodes,
           NodeGets(n) \/ NodeReports(n) \/ NodeFails(n) \/ Answered(n) \/ Gossip(n) \/ Execute
    PROVE  BroadcastInv'
<1> USE DEF BroadcastInv, BroadcastTypeOK, Submitted, Truthful, BroadcastReport
<1>1. CASE NodeGets(n)
    BY <1>1 DEF NodeGets
<1>2. CASE NodeReports(n)
    BY <1>2 DEF NodeReports
<1>3. CASE NodeFails(n)
    BY <1>3 DEF NodeFails
<1>4. CASE Answered(n)
    BY <1>4 DEF Answered
<1>5. CASE Gossip(n)
    BY <1>5 DEF Gossip
<1>6. CASE Execute
    BY <1>6 DEF Execute
<1> QED BY <1>1, <1>2, <1>3, <1>4, <1>5, <1>6

(* A round of questions starts with every reply open.                      *)
LEMMA AskAgainInv ==
    ASSUME BroadcastInv, phase \in {"sent", "confirming"}, AskAgain,
           UNCHANGED <<lang, holds, confirmed>>
    PROVE  BroadcastInv'
BY DEF BroadcastInv, BroadcastTypeOK, Submitted, Truthful, BroadcastReport, AskAgain

(* What the client does keeps the invariant.                               *)
LEMMA ClientStepInv ==
    ASSUME BroadcastInv, PyBroadcast \/ TsBroadcast \/ Await \/ RoundEnds \/ GiveUp
    PROVE  BroadcastInv'
<1> USE DEF BroadcastInv, BroadcastTypeOK, Submitted, Truthful, BroadcastReport
<1>1. CASE PyBroadcast
    BY <1>1 DEF PyBroadcast, Good, Completed
<1>2. CASE TsBroadcast
    BY <1>2 DEF TsBroadcast, Good, Completed
<1>3. CASE Await
    BY <1>3, AskAgainInv DEF Await
<1>4. CASE RoundEnds
    <2>1. CASE \E n \in Good : reply[n] = "confirmed"
        BY <1>4, <2>1 DEF RoundEnds, Good
    <2>2. CASE ~\E n \in Good : reply[n] = "confirmed"
        BY <1>4, <2>2, AskAgainInv DEF RoundEnds
    <2> QED BY <2>1, <2>2
<1>5. CASE GiveUp
    BY <1>5 DEF GiveUp
<1> QED BY <1>1, <1>2, <1>3, <1>4, <1>5

(* What either client tells its caller of a broadcast is so, for any       *)
(* number of nodes and whatever answers are lost or late (the race of      *)
(* _broadcast_transaction, allSettled of sendTransaction, and both waits   *)
(* for a confirmation).                                                    *)
THEOREM BroadcastTold == BroadcastSpec => []BroadcastReport
<1>1. BroadcastInit => BroadcastInv
    BY BroadcastInitInv
<1>2. BroadcastInv /\ [BroadcastNext]_broadcastVars => BroadcastInv'
    <2> SUFFICES ASSUME BroadcastInv, [BroadcastNext]_broadcastVars
                 PROVE  BroadcastInv'
        OBVIOUS
    <2>1. CASE \E n \in Nodes : NodeGets(n) \/ NodeReports(n) \/ NodeFails(n)
                                  \/ Answered(n) \/ Gossip(n)
        BY <2>1, NodeStepInv
    <2>2. CASE Execute
        BY <2>2, NodeStepInv, NodeCountAssumption DEF Nodes
    <2>3. CASE PyBroadcast \/ TsBroadcast \/ Await \/ RoundEnds \/ GiveUp
        BY <2>3, ClientStepInv
    <2>4. CASE UNCHANGED broadcastVars
        BY <2>4 DEF broadcastVars, BroadcastInv, BroadcastTypeOK, Submitted, Truthful,
                    BroadcastReport
    <2> QED BY <2>1, <2>2, <2>3, <2>4 DEF BroadcastNext
<1>3. BroadcastInv => BroadcastReport
    BY DEF BroadcastInv
<1> QED BY <1>1, <1>2, <1>3, PTL DEF BroadcastSpec
=============================================================================
