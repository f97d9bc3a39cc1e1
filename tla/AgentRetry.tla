----------------------------- MODULE AgentRetry -----------------------------
(***************************************************************************)
(* An agent that makes several contract calls one after the other, each    *)
(* with a retry of its own: AgentWallet of agentfi.py and of               *)
(* agentfi/index.ts, whose swap is four calls.                             *)
(*                                                                         *)
(* There are two loops, one inside the other.  The JSON-RPC client posts   *)
(* the same signed bytes again when an answer does not come; the agent     *)
(* signs the call again, under another nonce, when the node refuses the    *)
(* nonce.  The chain's lane 0 is the number of nonces it has accepted; the *)
(* same key may be in use elsewhere, and a node may be behind the others.  *)
(***************************************************************************)
EXTENDS Integers

CONSTANTS
    OpCount,    \* the calls of the agent, 4 for a swap
    Attempts,   \* 5 in the code
    PyPosts,    \* posts of one request: 3 in Python
    TsPosts,    \* and 4 in TypeScript, a first one and 3 retries
    MaxLedger   \* bound: the nonces the chain has

ASSUME AgentAssumption ==
    /\ {OpCount, Attempts, PyPosts, TsPosts} \subseteq Nat \ {0}
    /\ MaxLedger \in Nat

Ops == 1 .. OpCount
Unknown == -1

VARIABLES
    sdk,            \* "python" or "typescript"
    ledger,         \* the next nonce of the account on the chain
    step,           \* the call the agent is at
    aPc,            \* where it is
    attempt, posts, \* how often it has signed the call, and posted the bytes
    aNonce,         \* the nonce the call is signed with
    cached,         \* AgentWallet's own next nonce
    outcome,        \* what the agent's caller has been told of each call
    \* history
    executed,       \* how often each call was executed
    unheard         \* how many of these executions the agent never heard of

progress == <<step, attempt, posts, aNonce>>
history == <<executed, unheard>>
agentVars == <<sdk, ledger, aPc, progress, cached, outcome, history>>

Posts == IF sdk = "python" THEN PyPosts ELSE TsPosts

AgentInit ==
    /\ sdk \in {"python", "typescript"}
    /\ ledger \in 0 .. MaxLedger
    /\ step = 1 /\ aPc = "idle" /\ attempt = 0 /\ posts = 0
    /\ aNonce = Unknown /\ cached = Unknown
    /\ outcome = [o \in Ops |-> "none"]
    /\ executed = [o \in Ops |-> 0]
    /\ unheard = [o \in Ops |-> 0]

-----------------------------------------------------------------------------
\* A call is signed under n and handed to the JSON-RPC client.
Prepare(n) ==
    /\ aNonce' = n /\ posts' = 0
    /\ aPc' = "posting"
    /\ UNCHANGED <<sdk, ledger, step, attempt, outcome, history>>

\* An exception other than a refused nonce, or the last attempt: the calls
\* that were to follow are not made.
Give(up) ==
    /\ aPc' = "raised"
    /\ outcome' = [outcome EXCEPT ![step] = up]
    /\ UNCHANGED <<sdk, ledger, progress>>

\* The call is made again, or was for the last time.
Again ==
    IF attempt + 1 < Attempts
    THEN /\ aPc' = "idle" /\ attempt' = attempt + 1
         /\ UNCHANGED <<sdk, ledger, step, posts, aNonce, outcome>>
    ELSE Give("exhausted")

\* get_next_nonce: the chain's answer, unless the agent is ahead of it.
PyPrepare ==
    /\ sdk = "python" /\ aPc = "idle"
    /\ \E n \in 0 .. ledger :
         LET next == IF cached = Unknown \/ cached < n THEN n ELSE cached
         IN cached' = next /\ Prepare(next)

\* The agent passes a nonce only when it has one; without one the wallet
\* takes what its own getNonce returns, which is always 0.
TsPrepare ==
    /\ sdk = "typescript" /\ aPc = "idle"
    /\ Prepare(IF cached # Unknown THEN cached ELSE 0)
    /\ UNCHANGED cached

\* The node's nonce cannot be had.
NonceFails ==
    /\ sdk = "python" /\ aPc \in {"idle", "refetching"}
    /\ Give("raised")
    /\ UNCHANGED <<cached, history>>

\* A post arrives, at a node that takes the transaction or refuses its nonce.
NodeTakes ==
    /\ aPc = "posting" /\ posts < Posts
    /\ posts' = posts + 1
    /\ aNonce = ledger /\ ledger < MaxLedger
    /\ ledger' = ledger + 1
    /\ executed' = [executed EXCEPT ![step] = @ + 1]
    /\ aPc' = "taken"
    /\ UNCHANGED <<sdk, step, attempt, aNonce, cached, outcome, unheard>>

NodeRefuses ==
    /\ aPc = "posting" /\ posts < Posts
    /\ posts' = posts + 1
    /\ aNonce < ledger
    /\ aPc' = "refused"
    /\ UNCHANGED <<sdk, ledger, step, attempt, aNonce, cached, outcome, history>>

\* The node rejects the transaction for a reason other than its nonce.
NodeRejects ==
    /\ aPc = "posting" /\ posts < Posts
    /\ Give("raised")
    /\ UNCHANGED <<cached, history>>

\* A post never arrives, or its answer never does.  The client posts again
\* while it may; after the last post the agent raises.
NoAnswer ==
    /\ aPc \in {"posting", "taken", "refused"}
    /\ unheard' = [unheard EXCEPT ![step] = IF aPc = "taken" THEN @ + 1 ELSE @]
    /\ UNCHANGED <<cached, executed>>
    /\ LET sent == IF aPc = "posting" THEN posts + 1 ELSE posts
       IN IF sent < Posts
          THEN /\ aPc' = "posting" /\ posts' = sent
               /\ UNCHANGED <<sdk, ledger, step, attempt, aNonce, outcome>>
          ELSE Give("raised")

\* A mutant: a nonce that was used already is taken for this call's own.
ReturnsWhenUsed ==
    /\ aPc \in {"taken", "refused"}
    /\ outcome' = [outcome EXCEPT ![step] = "returned"]
    /\ cached' = aNonce + 1
    /\ IF step < OpCount
       THEN step' = step + 1 /\ aPc' = "idle"
       ELSE UNCHANGED step /\ aPc' = "done"
    /\ attempt' = 0 /\ posts' = 0 /\ aNonce' = Unknown
    /\ UNCHANGED <<sdk, ledger, history>>

\* The call returns, and the next one begins.
Returns ==
    /\ aPc = "taken"
    /\ outcome' = [outcome EXCEPT ![step] = "returned"]
    /\ cached' = IF sdk = "python" THEN aNonce + 1
                 ELSE IF cached # Unknown THEN cached + 1 ELSE cached
    /\ IF step < OpCount
       THEN step' = step + 1 /\ aPc' = "idle"
       ELSE UNCHANGED step /\ aPc' = "done"
    /\ attempt' = 0 /\ posts' = 0 /\ aNonce' = Unknown
    /\ UNCHANGED <<sdk, ledger, history>>

\* The nonce was refused.  TypeScript forgets the one it has, and Python
\* asks the chain for another, which may fail.
TsRecover ==
    /\ sdk = "typescript" /\ aPc = "refused"
    /\ cached' = Unknown
    /\ Again
    /\ UNCHANGED history

PyRefetch ==
    /\ sdk = "python" /\ aPc = "refused"
    /\ aPc' = "refetching"
    /\ UNCHANGED <<sdk, ledger, progress, cached, outcome, history>>

PyRecover ==
    /\ aPc = "refetching"
    /\ cached' \in 0 .. ledger
    /\ Again
    /\ UNCHANGED history

\* Another holder of the key has a transaction accepted.
OtherSends ==
    /\ ledger < MaxLedger
    /\ ledger' = ledger + 1
    /\ UNCHANGED <<sdk, aPc, progress, cached, outcome, history>>

-----------------------------------------------------------------------------
AgentNext ==
    \/ PyPrepare \/ TsPrepare \/ NonceFails
    \/ NodeTakes \/ NodeRefuses \/ NodeRejects \/ NoAnswer
    \/ Returns \/ TsRecover \/ PyRefetch \/ PyRecover
    \/ OtherSends

AgentSpec == AgentInit /\ [][AgentNext]_agentVars

-----------------------------------------------------------------------------
(* Every variable has its type, and the agent is at one of its calls.      *)
AgentTypeOK ==
    /\ sdk \in {"python", "typescript"}
    /\ ledger \in Nat
    /\ step \in Ops
    /\ aPc \in {"idle", "posting", "taken", "refused", "refetching", "raised", "done"}
    /\ attempt \in Nat /\ posts \in Nat
    /\ aNonce \in Nat \union {Unknown} /\ cached \in Nat \union {Unknown}
    /\ outcome \in [Ops -> {"none", "returned", "raised", "exhausted"}]
    /\ executed \in [Ops -> Nat] /\ unheard \in [Ops -> Nat]

(* However often the two loops send a call, it is executed once for the    *)
(* answer the agent had and once for each answer that was lost: a call     *)
(* that returned was executed, one that raised was not unless an answer    *)
(* was lost, and none is executed twice without a lost answer.  And the    *)
(* calls of a swap are executed in order, none before every earlier one    *)
(* has returned, whatever was lost or refused in between.                  *)
AgentExecutesOnce ==
    \A o \in Ops :
      /\ executed[o] = unheard[o] + (IF \/ outcome[o] = "returned"
                                        \/ o = step /\ aPc = "taken" THEN 1 ELSE 0)
      /\ executed[o] > 0 => \A earlier \in 1 .. o - 1 : outcome[earlier] = "returned"

(* The TypeScript agent always signs with nonce 0, so that in the whole    *)
(* life of an account it gets one transaction executed at most.            *)
TsAgentSendsOnce ==
    sdk = "typescript" =>
      \A o, p \in Ops : executed[o] > 0 /\ executed[p] > 0 => o = p /\ executed[o] = 1
=============================================================================
