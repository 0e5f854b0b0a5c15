------------------------------ MODULE MCPairing ------------------------------
(***************************************************************************)
(* Small instances of Pairing.  Clients are interchangeable.               *)
(***************************************************************************)
EXTENDS Pairing, TLC

Symmetry == Permutations(Clients)
=============================================================================
