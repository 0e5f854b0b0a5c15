----------------------------- MODULE TokenStore -----------------------------
(***************************************************************************)
(* The list of access tokens each side of a pairing keeps (TokenStore in   *)
(* connect/proto/session_init.rs).  Tokens are numbered in the order the   *)
(* server mints them; every list is newest first, so a list is a set of    *)
(* entries and its order is the order of the numbers.                      *)
(***************************************************************************)
EXTENDS Integers, FiniteSets

CONSTANTS
  MaxTokens,        \* how many tokens a list holds, 4 in the code
  PendingLifetime   \* how long a grant may wait to be confirmed, 15 s

ASSUME TokenStoreAssumption ==
  /\ MaxTokens \in Nat \ {0}
  /\ PendingLifetime \in Nat

\* A grant waits to be confirmed since `at'; a token in force has no time.
Grant(token, at) == [token |-> token, pending |-> TRUE, at |-> at]
InForce(token) == [token |-> token, pending |-> FALSE, at |-> 0]

Tokens(store) == {h.token : h \in store}

Accepts(store, token) == token \in Tokens(store)

Newer(store, h) == {other \in store : other.token > h.token}

\* The entry tried after n others, none when there are no more.
Candidate(store, n) == {h \in store : Cardinality(Newer(store, h)) = n}

\* A grant past its lifetime can no longer be confirmed.
Lapsed(h, now) == h.pending /\ now - h.at > PendingLifetime

\* The newest tokens, as many as the list holds.
Truncate(store) == {h \in store : Cardinality(Newer(store, h)) < MaxTokens}

\* Mutant of Add: a grant replaces what it is granted alongside.
AddAlone(store, token, now) == {Grant(token, now)}

\* A grant joins the list; grants that lapsed leave it first, the oldest last.
Add(store, token, now) ==
  IF Accepts(store, token) THEN store
  ELSE Truncate({h \in store : ~Lapsed(h, now)} \cup {Grant(token, now)})

Pending(store, token) == \E h \in store : h.token = token /\ h.pending

Confirmable(store, token, now) == \E h \in store : h.token = token /\ ~Lapsed(h, now)

\* A confirmed token is in force and retires every other.
Confirmed(token) == {InForce(token)}
=============================================================================
