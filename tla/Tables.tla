------------------------------- MODULE Tables -------------------------------
(***************************************************************************)
(* The bounded tables of session/core.rs: sequences of entries, each under *)
(* a key.  A new entry joins at the end and the oldest leaves a table that *)
(* is too long; an entry under a known key takes the place of the old one. *)
(***************************************************************************)
EXTENDS Naturals, SequencesExt

CONSTANT MaxTracked  \* the entries a table keeps, 4096 in the code

ASSUME TablesAssumption == MaxTracked \in Nat \ {0}

Entry(key, value) == [key |-> key, value |-> value]

\* Where a key is, 0 when it is nowhere.
Place(table, key) == SelectInSeq(table, LAMBDA e : e.key = key)

Keys(table) == {table[i].key : i \in DOMAIN table}

Has(table, key) == key \in Keys(table)

Get(table, key) == table[Place(table, key)].value

Bounded(table) == IF Len(table) > MaxTracked THEN Tail(table) ELSE table

Upsert(table, key, value) ==
  IF Has(table, key)
    THEN [table EXCEPT ![Place(table, key)].value = value]
    ELSE Bounded(Append(table, Entry(key, value)))
=============================================================================
