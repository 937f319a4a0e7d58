------------------------------- MODULE MCSync -------------------------------
(* Instances of Sync for TLC.                                               *)
EXTENDS Sync

CONSTANT f1

OneShow == [e \in Episodes |-> f1]
=============================================================================
