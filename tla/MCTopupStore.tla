---------------------------- MODULE MCTopupStore ----------------------------
(***************************************************************************)
(* Small instances of TopupStore for TLC.                                  *)
(***************************************************************************)
EXTENDS TopupStore
===============================================================================
