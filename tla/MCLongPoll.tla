----------------------------- MODULE MCLongPoll -----------------------------
(* A small instance of LongPoll: one endpoint asks for more nodes than a poll  *)
(* may name, another may fill the table before them.                           *)
EXTENDS LongPoll

ThreeAndOne == [gateway |-> <<"n1", "n2", "n3">>, stranger |-> <<"n3">>]
=============================================================================
