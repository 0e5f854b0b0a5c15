----------------------------- MODULE MCRegistry -----------------------------
(* Small instances of Registry for TLC. *)
EXTENDS Registry

ThreeAndOne == [f1 |-> "FRBC", f2 |-> "FRBC", f3 |-> "FRBC", o1 |-> "OMBC"]
TwoAndOne == [f1 |-> "FRBC", f2 |-> "FRBC", o1 |-> "OMBC"]
=============================================================================
