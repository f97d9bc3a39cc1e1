------------------------------- MODULE MCBatcher -------------------------------
(***************************************************************************)
(* Small instances of Batcher for TLC.                                     *)
(***************************************************************************)
EXTENDS Batcher

\* Every transaction can be serialized.
SoundSpec == BatcherSpec /\ unserializable = {}
===============================================================================
