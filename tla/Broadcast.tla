----------------------------- MODULE Broadcast ------------------------------
(***************************************************************************)
(* One transaction sent to every node at once, and the wait until it is    *)
(* confirmed: parallel_client.py and parallel-client.ts.                   *)
(*                                                                         *)
(* Python goes on as soon as the first answers are there, good or bad, and *)
(* lets the other submissions run; TypeScript waits for all of them.  To   *)
(* confirm, Python asks every node in rounds, again with the first answers *)
(* of a round, and TypeScript asks the first node only.                    *)
(***************************************************************************)
EXTENDS Integers, FiniteSets

CONSTANTS NodeCount     \* the nodes, in the order of the configuration

ASSUME NodeCountAssumption == NodeCount \in Nat \ {0}

Nodes == 1 .. NodeCount

VARIABLES
    lang,       \* "python" or "typescript"
    phase,      \* what the client does, or what it has told its caller
    request,    \* the client's request to each node
    reply,      \* and what the node made of it
    holds,      \* the nodes that have the transaction
    confirmed   \* whether the chain has executed it

broadcastVars == <<lang, phase, request, reply, holds, confirmed>>

BroadcastInit ==
    /\ lang \in {"python", "typescript"}
    /\ phase = "sending"
    /\ request = [n \in Nodes |-> "open"]
    /\ reply = [n \in Nodes |-> "none"]
    /\ holds = {}
    /\ confirmed = FALSE

-----------------------------------------------------------------------------
(* The nodes.                                                              *)

\* A submission arrives; the node takes the transaction or refuses it.
NodeGets(n) ==
    /\ phase \in {"sending", "sent", "failed"} /\ request[n] = "open" /\ reply[n] = "none"
    /\ \/ reply' = [reply EXCEPT ![n] = "hash"] /\ holds' = holds \union {n}
       \/ reply' = [reply EXCEPT ![n] = "error"] /\ UNCHANGED holds
    /\ UNCHANGED <<lang, phase, request, confirmed>>

\* A node is asked for the transaction and says what it knows.
NodeReports(n) ==
    /\ phase = "confirming" /\ request[n] = "open" /\ reply[n] = "none"
    /\ reply' = [reply EXCEPT ![n] =
                   IF confirmed /\ n \in holds THEN "confirmed" ELSE "unconfirmed"]
    /\ UNCHANGED <<lang, phase, request, holds, confirmed>>

\* The request or its answer is lost, times out, or is an HTTP error.
NodeFails(n) ==
    /\ request[n] = "open"
    /\ request' = [request EXCEPT ![n] = "failed"]
    /\ UNCHANGED <<lang, phase, reply, holds, confirmed>>

\* The answer is there: the task of this node has completed.
Answered(n) ==
    /\ request[n] = "open" /\ reply[n] # "none"
    /\ request' = [request EXCEPT ![n] = IF reply[n] = "error" THEN "failed" ELSE "good"]
    /\ UNCHANGED <<lang, phase, reply, holds, confirmed>>

\* Nodes pass the transaction on, and the chain executes it.
Gossip(n) ==
    /\ holds # {} /\ n \notin holds
    /\ holds' = holds \union {n}
    /\ UNCHANGED <<lang, phase, request, reply, confirmed>>

Execute ==
    /\ holds # {} /\ ~confirmed
    /\ confirmed' = TRUE
    /\ UNCHANGED <<lang, phase, request, reply, holds>>

-----------------------------------------------------------------------------
(* The client.                                                             *)

Good == {n \in Nodes : request[n] = "good"}
Completed == {n \in Nodes : request[n] # "open"}

\* asyncio.wait returns with the tasks that completed first, one or more;
\* any good one among them gives the hash.
PyBroadcast ==
    /\ lang = "python" /\ phase = "sending" /\ Completed # {}
    /\ phase' = IF Good # {} THEN "sent" ELSE "failed"
    /\ UNCHANGED <<lang, request, reply, holds, confirmed>>

\* A mutant: Promise.race.
TsBroadcastRace ==
    /\ lang = "typescript" /\ phase = "sending" /\ Completed # {}
    /\ phase' = IF Good # {} THEN "sent" ELSE "failed"
    /\ UNCHANGED <<lang, request, reply, holds, confirmed>>

\* Promise.allSettled, then the first node of the list with a hash.
TsBroadcast ==
    /\ lang = "typescript" /\ phase = "sending" /\ Completed = Nodes
    /\ phase' = IF Good # {} THEN "sent" ELSE "failed"
    /\ UNCHANGED <<lang, request, reply, holds, confirmed>>

\* A round of questions: to every node, or to the first.
AskAgain ==
    /\ phase' = "confirming"
    /\ request' = [n \in Nodes |->
                     IF lang = "python" \/ n = 1 THEN "open" ELSE "unasked"]
    /\ reply' = [n \in Nodes |-> "none"]

\* The caller awaits the confirmation of what was sent.
Await ==
    /\ phase = "sent"
    /\ AskAgain
    /\ UNCHANGED <<lang, holds, confirmed>>

\* A round is over: half a second has passed or a first answer is there
\* (TypeScript: the answer is).  One that confirms is returned; otherwise
\* the next round begins.
RoundEnds ==
    /\ phase = "confirming"
    /\ lang = "typescript" => request[1] # "open"
    /\ IF \E n \in Good : reply[n] = "confirmed"
       THEN phase' = "confirmed" /\ UNCHANGED <<request, reply>>
       ELSE AskAgain
    /\ UNCHANGED <<lang, holds, confirmed>>

\* The time for the confirmation is up between two rounds.
GiveUp ==
    /\ phase = "confirming"
    /\ \A n \in Nodes : reply[n] = "none"
    /\ phase' = "unconfirmed"
    /\ UNCHANGED <<lang, request, reply, holds, confirmed>>

-----------------------------------------------------------------------------
BroadcastNext ==
    \/ \E n \in Nodes : NodeGets(n) \/ NodeReports(n) \/ NodeFails(n)
                          \/ Answered(n) \/ Gossip(n)
    \/ Execute
    \/ PyBroadcast \/ TsBroadcast \/ Await \/ RoundEnds \/ GiveUp

BroadcastSpec == BroadcastInit /\ [][BroadcastNext]_broadcastVars

-----------------------------------------------------------------------------
(* What the caller is told is so.  A transaction reported as sent is held  *)
(* by a node, one reported as confirmed has been executed, and the         *)
(* TypeScript client reports failure only when no node's acceptance        *)
(* reached it.  (The Python client may report failure of a transaction     *)
(* that is on its way into the chain.)                                     *)
BroadcastReport ==
    /\ phase \in {"sent", "confirming", "confirmed", "unconfirmed"} => holds # {}
    /\ phase = "confirmed" => confirmed
    /\ phase = "failed" =>
         IF lang = "typescript"
         THEN \A n \in Nodes : request[n] = "failed"
         ELSE \E n \in Nodes : request[n] = "failed"
=============================================================================
