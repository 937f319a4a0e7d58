------------------------------ MODULE MCListening ------------------------------
(* Instances of Listening for TLC.                                          *)
EXTENDS Listening, TLC

Symmetry == Permutations(Devices)
=============================================================================
