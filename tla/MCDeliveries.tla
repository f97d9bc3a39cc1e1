---------------------------- MODULE MCDeliveries ----------------------------
(***************************************************************************)
(* Two parts that owe an outcome to whoever waits for it, for TLC, one of  *)
(* them per behaviour: the top-ups over their store and streams, and the   *)
(* batching client with its flush thread.                                  *)
(***************************************************************************)
EXTENDS TopupStore, Batcher

CONSTANT t2

VARIABLE part

deliveryVars == <<part, topupVars, batcherVars>>

\* The part that is not at work is in one of its initial states; of the
\* transactions at most one is not serializable.
DeliveriesInit ==
    /\ part \in {"topup", "batcher"}
    /\ TopupInit /\ BatcherInit
    /\ part # "topup" => ~apiKey
    /\ part # "batcher" => ~answersLists
    /\ unserializable \subseteq IF part = "batcher" THEN {t2} ELSE {}

Topup(A) == part = "topup" /\ A /\ UNCHANGED <<part, batcherVars>>
Batched(A) == part = "batcher" /\ A /\ UNCHANGED <<part, topupVars>>

DeliveriesNext == Topup(TopupNext) \/ Batched(BatcherNext)

\* The fairness of each part, where that part is at work.
DeliveriesSpec ==
    /\ DeliveriesInit /\ [][DeliveriesNext]_deliveryVars
    /\ \A s \in Streams : WF_deliveryVars(Topup(StreamTick(s)))
    /\ WF_deliveryVars(Batched(flush_loop))
=============================================================================
