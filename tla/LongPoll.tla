------------------------------ MODULE LongPoll ------------------------------
(* The long-polling queue behind POST /v1/waitForPairing: LongPoll of          *)
(* connect/server/longpoll.rs, the requests that hold it open, and the client  *)
(* that asks again after every answer (connect/client/lan.rs).  instruct()     *)
(* queues an action for a node under the lock and wakes the waiters after it;  *)
(* poll() takes what is queued, registers as a waiter, looks again, waits, and *)
(* looks once more.  Those are the steps here: between any two of them another *)
(* request, another instruction or the end of the connection may come.         *)
(* Time passes in units of the five seconds between the server's hold and the  *)
(* client's timeout; a request and its answer travel in less than one.         *)
(* The actions of a node are numbered in their order; what a node says of      *)
(* itself (WaitingNode) is left out, that it is remembered is kept.            *)
EXTENDS Naturals, FiniteSets, SequencesExt

CONSTANTS
  Nodes,              \* client nodes
  Clients,            \* endpoints that poll, one request at a time
  Asks,               \* [Clients -> Seq(Nodes)]: whom each asks for
  MAX_WAITING,        \* most nodes remembered, and most with an action queued
  MAX_PER_POLL,       \* most nodes one request may ask for
  LONG_POLL_HOLD,     \* how long the server holds a request
  LONG_POLL_TIMEOUT,  \* how long the client waits for the answer
  Hosts,              \* threads of the host that instruct
  MaxRequests,        \* bound: requests the server works on at once
  MaxActions,         \* bound: instructions in a behaviour
  MaxHangUps          \* bound: connections that fail in a behaviour

ASSUME LongPollAssumption ==
  /\ Asks \in [Clients -> Seq(Nodes)]
  /\ MAX_WAITING \in Nat \ {0} /\ MAX_PER_POLL \in Nat \ {0}
  /\ LONG_POLL_HOLD \in Nat /\ LONG_POLL_TIMEOUT \in Nat
  /\ LONG_POLL_HOLD < LONG_POLL_TIMEOUT
  /\ MaxRequests \in Nat /\ MaxActions \in Nat /\ MaxHangUps \in Nat

VARIABLES
  pending,    \* the action queued for each node, 0 when there is none
  seen,       \* the nodes remembered
  host,       \* how far each host thread is in instruct()
  request,    \* the requests being answered
  made,       \* history: how many actions each node was instructed
  told,       \* history: the last action each node's client received
  owed,       \* history: the last action queued for each node, until it is received or
              \* answered to a connection that has failed
  hangUps     \* history: how many connections failed

vars == <<pending, seen, host, request, made, told, owed, hangUps>>

None == 0
Requests == 1 .. MaxRequests
Free == [at |-> "free"]
Instructions == Cardinality(UNION {{n} \X (1 .. made[n]) : n \in Nodes})
Queued == {n \in Nodes : pending[n] # None}
\* The nodes a request may ask for: iter().take(MAX_PER_POLL).
Asked(c) == SubSeq(Asks[c], 1, IF Len(Asks[c]) < MAX_PER_POLL THEN Len(Asks[c]) ELSE MAX_PER_POLL)
\* A node asks through one endpoint, its own.
ASSUME OwnersAssumption ==
  \A c, d \in Clients : c # d => ToSet(Asked(c)) \cap ToSet(Asked(d)) = {}

Busy(r) == request[r].at # "free"
\* A request whose client still waits for the answer.
Live(r) == Busy(r) /\ ~request[r].abandoned

----------------------------------------------------------------------------
(* The server's side. *)

Init ==
  /\ pending = [n \in Nodes |-> None]
  /\ seen = {}
  /\ host = [h \in Hosts |-> "idle"]
  /\ request = [r \in Requests |-> Free]
  /\ made = [n \in Nodes |-> 0]
  /\ told = [n \in Nodes |-> None]
  /\ owed = [n \in Nodes |-> None]
  /\ hangUps = 0

\* instruct() under the lock: the action replaces the one queued for the node;
\* a full queue drops it.
Instruct(h, n) ==
  /\ host[h] = "idle" /\ Instructions < MaxActions
  /\ made' = [made EXCEPT ![n] = @ + 1]
  /\ host' = [host EXCEPT ![h] = "notify"]
  /\ pending' = IF Cardinality(Queued) < MAX_WAITING \/ n \in Queued
                THEN [pending EXCEPT ![n] = made'[n]] ELSE pending
  /\ owed' = [owed EXCEPT ![n] = IF pending'[n] = made'[n] THEN made'[n] ELSE @]
  /\ UNCHANGED <<seen, request, told, hangUps>>

\* Mutant of Notify: a request that is not polled yet is not a waiter.
NotifyWaiting(h) ==
  /\ host[h] = "notify"
  /\ host' = [host EXCEPT ![h] = "idle"]
  /\ request' = [r \in Requests |->
                   IF request[r].at = "waiting"
                   THEN [request[r] EXCEPT !.woken = TRUE] ELSE request[r]]
  /\ UNCHANGED <<pending, seen, made, told, owed, hangUps>>

\* instruct() after the lock: notify_waiters() wakes those registered, and only those.
Notify(h) ==
  /\ host[h] = "notify"
  /\ host' = [host EXCEPT ![h] = "idle"]
  /\ request' = [r \in Requests |->
                   IF request[r].at \in {"registered", "decided", "waiting"}
                   THEN [request[r] EXCEPT !.woken = TRUE] ELSE request[r]]
  /\ UNCHANGED <<pending, seen, made, told, owed, hangUps>>

\* take(): the nodes of a poll that are remembered after it, each new one only
\* while there is room.
Remembered(nodes) ==
  LET known(i) == seen \cup {nodes[j] : j \in 1 .. i}
  IN  seen \cup {nodes[i] : i \in {j \in DOMAIN nodes : Cardinality(known(j)) <= MAX_WAITING}}

\* Mutant of Take: what was found stays in the queue.
TakeLeaving(r, onEmpty) ==
  LET nodes == Asked(request[r].client)
      looked == ToSet(nodes) \cap Remembered(nodes)
      found == looked \cap Queued
  IN /\ seen' = Remembered(nodes)
     /\ request' = [request EXCEPT ![r] =
          [@ EXCEPT !.at = IF found = {} THEN onEmpty ELSE "answered",
                    !.answer = [n \in found |-> pending[n]], !.watches = looked]]
     /\ UNCHANGED <<pending, host, made, told, owed, hangUps>>

\* take(): looks at the nodes of the request that are remembered, and hands out what
\* is queued for them.
Take(r, onEmpty) ==
  LET nodes == Asked(request[r].client)
      looked == ToSet(nodes) \cap Remembered(nodes)
      found == looked \cap Queued
  IN /\ seen' = Remembered(nodes)
     /\ pending' = [n \in Nodes |-> IF n \in found THEN None ELSE pending[n]]
     /\ request' = [request EXCEPT ![r] =
          [@ EXCEPT !.at = IF found = {} THEN onEmpty ELSE "answered",
                    !.answer = [n \in found |-> pending[n]], !.watches = looked]]
     /\ UNCHANGED <<host, made, told, owed, hangUps>>

\* poll(): looks, and registers as a waiter (Notified::enable).  One step: what is
\* queued between the two, the second look finds.
FirstLook(r) == request[r].at = "arrived" /\ Take(r, "registered")

\* ... looks again, ...
SecondLook(r) == request[r].at = "registered" /\ Take(r, "decided")

\* ... starts the hold, ...
Hold(r) ==
  /\ request[r].at = "decided"
  /\ request' = [request EXCEPT ![r].at = "waiting"]
  /\ UNCHANGED <<pending, seen, host, made, told, owed, hangUps>>

\* ... and looks once more when it is woken (timeout() asks its future first) ...
Wake(r) == request[r].at = "waiting" /\ request[r].woken /\ Take(r, "answered")

\* Mutant of HoldIsOver: the server holds for as long as the client waits.
HoldIsOverTooLate(r) == request[r].waited >= LONG_POLL_TIMEOUT
HoldIsOver(r) == request[r].waited >= LONG_POLL_HOLD

\* ... or answers that there is nothing yet.
Expire(r) ==
  /\ request[r].at = "waiting" /\ ~request[r].woken /\ HoldIsOver(r)
  /\ request' = [request EXCEPT ![r].at = "answered"]
  /\ UNCHANGED <<pending, seen, host, made, told, owed, hangUps>>

----------------------------------------------------------------------------
(* The connection and the client. *)

\* wait_for_pairing() in the client's loop: ask when no request is open.
Ask(c, r) ==
  /\ ~Busy(r) /\ \A q \in 1 .. r - 1 : Busy(q)
  /\ ~ \E q \in Requests : Live(q) /\ request[q].client = c
  /\ request' = [request EXCEPT ![r] =
       [at |-> "arrived", client |-> c, woken |-> FALSE, waited |-> 0,
        failed |-> FALSE, abandoned |-> FALSE, answer |-> <<>>, watches |-> {}]]
  /\ UNCHANGED <<pending, seen, host, made, told, owed, hangUps>>

Settled(answer) == [n \in Nodes |-> IF n \in DOMAIN answer /\ answer[n] = owed[n] THEN None ELSE owed[n]]

\* The answer arrives.
Deliver(r) ==
  /\ Live(r) /\ request[r].at = "answered"
  /\ told' = [n \in Nodes |-> IF n \in DOMAIN request[r].answer THEN request[r].answer[n] ELSE told[n]]
  /\ owed' = Settled(request[r].answer)
  /\ request' = [request EXCEPT ![r] = Free]
  /\ UNCHANGED <<pending, seen, host, made, hangUps>>

TimedOut(r) == request[r].waited >= LONG_POLL_TIMEOUT

\* The client's side of a request ends without the answer: its timeout is over, or its
\* connection fails.
GiveUp(r) ==
  /\ Live(r) /\ ~(~TimedOut(r) /\ hangUps >= MaxHangUps)
  /\ hangUps' = IF TimedOut(r) THEN hangUps ELSE hangUps + 1
  /\ request' = [request EXCEPT ![r].abandoned = TRUE, ![r].failed = ~TimedOut(r)]
  /\ UNCHANGED <<pending, seen, host, made, told, owed>>

\* The server answers a connection that is gone, or drops the request when it notices.
Discard(r) ==
  /\ Busy(r) /\ request[r].abandoned
  /\ owed' = IF request[r].failed THEN Settled(request[r].answer) ELSE owed
  /\ request' = [request EXCEPT ![r] = Free]
  /\ UNCHANGED <<pending, seen, host, made, told, hangUps>>

\* Five seconds pass: everything that could happen at once has.
Tick ==
  /\ \E r \in Requests : Busy(r)
  /\ \A r \in Requests : Busy(r) => /\ request[r].at = "waiting" /\ ~request[r].woken
                                    /\ ~HoldIsOver(r) /\ ~TimedOut(r)
  /\ request' = [r \in Requests |-> IF Busy(r) THEN [request[r] EXCEPT !.waited = @ + 1] ELSE Free]
  /\ UNCHANGED <<pending, seen, host, made, told, owed, hangUps>>

Next ==
  \/ \E h \in Hosts : Notify(h) \/ \E n \in Nodes : Instruct(h, n)
  \/ \E c \in Clients, r \in Requests : Ask(c, r)
  \/ \E r \in Requests : \/ FirstLook(r) \/ SecondLook(r) \/ Hold(r) \/ Wake(r) \/ Expire(r)
                         \/ Deliver(r) \/ GiveUp(r) \/ Discard(r)
  \/ Tick

Spec == Init /\ [][Next]_vars

\* The server runs every request, a host thread leaves instruct(), answers arrive,
\* clients ask again, and time passes.
Progress(r) == FirstLook(r) \/ SecondLook(r) \/ Hold(r) \/ Wake(r) \/ Expire(r) \/ Deliver(r) \/ Discard(r)
FairSpec ==
  /\ Spec
  /\ \A h \in Hosts : WF_vars(Notify(h))
  /\ \A r \in Requests : WF_vars(Progress(r))
  /\ \A c \in Clients : WF_vars(\E r \in Requests : Ask(c, r))
  /\ WF_vars(Tick)

----------------------------------------------------------------------------
(* Properties. *)

\* An action queued while a request is deciding to wait is not slept through: when a
\* request waits unwoken and one of its nodes has an action queued, the thread that
\* queued it has yet to call notify_waiters().
SleepersAreWoken ==
  \A r \in Requests :
    (request[r].at = "waiting" /\ ~request[r].woken /\ request[r].watches \cap Queued # {})
      => \E h \in Hosts : host[h] = "notify"

\* A node is told each action at most once and in the order the host queued them, so
\* never one that another has superseded: cancelPreparePairing after preparePairing
\* "is not two things to do", whatever requests failed or overlapped.
EachActionOnceInOrder ==
  \A r \in Requests : (Live(r) /\ request[r].at = "answered")
    => \A n \in DOMAIN request[r].answer : request[r].answer[n] > told[n]

\* A node that has a place in the table and in its client's request.
Served(n) ==
  /\ \E c \in Clients : n \in ToSet(Asked(c))
  /\ n \in seen \/ Cardinality(seen) < MAX_WAITING

\* An action that is queued for a node some client keeps asking for reaches it, unless
\* another replaces it, the connection that carried it fails, or the table of nodes was
\* full before the node came: the client never gives up a request the server is about
\* to answer.
QueuedActionsArrive == []<>(\A n \in Nodes : owed[n] = None \/ ~Served(n))
=============================================================================
