------------------------------ MODULE MCGateway ------------------------------
(***************************************************************************)
(* Small instances of Gateway for TLC.                                     *)
(***************************************************************************)
EXTENDS Gateway, TLC

\* Requests, payers and transactions are interchangeable; the endpoints are not
\* (one of them sells subscriptions).
Symmetry ==
  Permutations(Requests) \union Permutations(Payers) \union Permutations(Txs)
===============================================================================
