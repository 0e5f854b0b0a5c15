--------------------------- MODULE LongPollProofs ---------------------------
(* Proofs about LongPoll: nobody sleeps through an action, and a node is told  *)
(* each action at most once and in order, for any number of nodes, clients,    *)
(* host threads and requests.                                                  *)
EXTENDS LongPoll, TLAPS

Stages == {"arrived", "registered", "decided", "waiting", "answered"}
\* What a request found: an action for each of some nodes.
Answers == UNION {[found -> Nat] : found \in SUBSET Nodes}
Open == [at : Stages, client : Clients, woken : BOOLEAN, waited : Nat, failed : BOOLEAN,
         abandoned : BOOLEAN, answer : Answers, watches : SUBSET Nodes]

Typed ==
  /\ pending \in [Nodes -> Nat] /\ made \in [Nodes -> Nat] /\ told \in [Nodes -> Nat]
  /\ host \in [Hosts -> {"idle", "notify"}]
  /\ request \in [Requests -> {Free} \cup Open]

\* Registered as a waiter, and not woken yet.
Asleep(r) == request[r].at \in {"registered", "decided", "waiting"} /\ ~request[r].woken

\* An action that nobody has been woken for is about to wake everybody.
Guarded ==
  \A r \in Requests : (Asleep(r) /\ request[r].watches \cap Queued # {})
                        => \E h \in Hosts : host[h] = "notify"

\* A client waits for one answer at a time.
OneAtATime ==
  \A q, r \in Requests : (Live(q) /\ Live(r) /\ request[q].client = request[r].client) => q = r
\* A request finds actions of its own nodes only.
OwnNodes == \A r \in Requests : Busy(r) => DOMAIN request[r].answer \subseteq ToSet(Asked(request[r].client))
\* What is queued is news.
News ==
  \A n \in Nodes : /\ told[n] <= made[n]
                   /\ pending[n] # None => told[n] < pending[n] /\ pending[n] <= made[n]
\* What was found is news, and what was queued after it is newer.
FoundIsNews ==
  \A r \in Requests : Live(r) => \A n \in DOMAIN request[r].answer :
    /\ told[n] < request[r].answer[n] /\ request[r].answer[n] <= made[n]
    /\ pending[n] # None => request[r].answer[n] < pending[n]
InOrder == OneAtATime /\ OwnNodes /\ News /\ FoundIsNews

-----------------------------------------------------------------------------
(* Requests and answers. *)

\* A request that is busy has all its parts.
LEMMA BusyIsOpen ==
  ASSUME Typed, NEW r \in Requests, Busy(r)
  PROVE  /\ request[r] \in Open
         /\ request[r].client \in Clients /\ request[r].answer \in Answers
BY DEF Typed, Busy, Free, Open

\* The nodes an answer is about are nodes, and their actions numbers.
LEMMA AnswerParts ==
  ASSUME NEW answer \in Answers
  PROVE  DOMAIN answer \subseteq Nodes /\ \A n \in DOMAIN answer : answer[n] \in Nat
BY DEF Answers

\* A request names nodes.
LEMMA AskedAreNodes == \A c \in Clients : ToSet(Asked(c)) \subseteq Nodes
<1> SUFFICES ASSUME NEW c \in Clients PROVE ToSet(Asked(c)) \subseteq Nodes
  OBVIOUS
<1>1. Asks[c] \in Seq(Nodes)
  BY LongPollAssumption
<1>2. Asked(c) \in Seq(Nodes)
  BY <1>1, LongPollAssumption DEF Asked
<1> QED BY <1>2 DEF ToSet

\* A request that moves on keeps what it has.
Moved(q, at) == [q EXCEPT !.at = at]
LEMMA MoveChanges ==
  ASSUME NEW q \in Open, NEW at \in Stages
  PROVE  /\ Moved(q, at) \in Open /\ Moved(q, at).at = at
         /\ Moved(q, at).client = q.client /\ Moved(q, at).woken = q.woken
         /\ Moved(q, at).abandoned = q.abandoned /\ Moved(q, at).answer = q.answer
         /\ Moved(q, at).watches = q.watches
BY DEF Open, Moved

\* So does one that is woken, ...
Woken(q) == [q EXCEPT !.woken = TRUE]
LEMMA WakeChanges ==
  ASSUME NEW q \in Open
  PROVE  /\ Woken(q) \in Open /\ Woken(q).at = q.at
         /\ Woken(q).client = q.client /\ Woken(q).woken
         /\ Woken(q).abandoned = q.abandoned /\ Woken(q).answer = q.answer
BY DEF Open, Woken

\* ... one that has waited, ...
Waited(q) == [q EXCEPT !.waited = @ + 1]
LEMMA WaitChanges ==
  ASSUME NEW q \in Open
  PROVE  /\ Waited(q) \in Open /\ Waited(q).at = q.at
         /\ Waited(q).client = q.client /\ Waited(q).woken = q.woken
         /\ Waited(q).abandoned = q.abandoned /\ Waited(q).answer = q.answer
         /\ Waited(q).watches = q.watches
<1>1. q.waited + 1 \in Nat
  BY DEF Open
<1> QED BY <1>1 DEF Open, Waited

\* ... and one the client has given up.
GivenUp(q, failed) == [q EXCEPT !.abandoned = TRUE, !.failed = failed]
LEMMA GiveUpChanges ==
  ASSUME NEW q \in Open, NEW failed \in BOOLEAN
  PROVE  /\ GivenUp(q, failed) \in Open /\ GivenUp(q, failed).at = q.at
         /\ GivenUp(q, failed).client = q.client /\ GivenUp(q, failed).woken = q.woken
         /\ GivenUp(q, failed).abandoned /\ GivenUp(q, failed).answer = q.answer
         /\ GivenUp(q, failed).watches = q.watches
BY DEF Open, GivenUp

\* What a look at the queue makes of a request.
Looked(q, at, answer, watches) == [q EXCEPT !.at = at, !.answer = answer, !.watches = watches]
LEMMA LookChanges ==
  ASSUME NEW q \in Open, NEW at \in Stages, NEW answer \in Answers, NEW watches \in SUBSET Nodes
  PROVE  LET p == Looked(q, at, answer, watches) IN
         /\ p \in Open
         /\ p.at = at /\ p.answer = answer /\ p.watches = watches
         /\ p.client = q.client /\ p.woken = q.woken /\ p.abandoned = q.abandoned
<1> DEFINE first == Moved(q, at)
           second == [first EXCEPT !.answer = answer]
           p == [second EXCEPT !.watches = watches]
<1>1. first \in Open /\ first.at = at
      /\ first.client = q.client /\ first.woken = q.woken /\ first.abandoned = q.abandoned
  BY MoveChanges
<1> HIDE DEF first
<1>2. second \in Open /\ second.at = at /\ second.answer = answer
      /\ second.client = q.client /\ second.woken = q.woken /\ second.abandoned = q.abandoned
  BY <1>1 DEF Open
<1> HIDE DEF second
<1>3. p \in Open /\ p.at = at /\ p.answer = answer /\ p.watches = watches
      /\ p.client = q.client /\ p.woken = q.woken /\ p.abandoned = q.abandoned
  BY <1>2 DEF Open
<1>4. Looked(q, at, answer, watches) = p
  BY DEF Looked, first, second, Moved
<1> QED BY <1>3, <1>4

-----------------------------------------------------------------------------
(* A look at the queue. *)

\* The nodes a look finds something for.
Found(r) == (ToSet(Asked(request[r].client)) \cap Remembered(Asked(request[r].client))) \cap Queued

\* It takes what it finds, and a request that found nothing has nothing to watch for.
LEMMA LookTakes ==
  ASSUME Typed, NEW r \in Requests, Busy(r), NEW onEmpty \in Stages, Take(r, onEmpty)
  PROVE  /\ Typed'
         /\ UNCHANGED <<host, made, told>>
         /\ \A q \in Requests \ {r} : request'[q] = request[q]
         /\ request'[r].client = request[r].client /\ request'[r].woken = request[r].woken
         /\ request'[r].abandoned = request[r].abandoned
         /\ request'[r].at \in {onEmpty, "answered"}
         /\ request'[r].at # "answered" => request'[r].watches \cap Found(r) = {} /\ Found(r) = {}
         /\ request'[r].watches \cap Queued = Found(r)
         /\ request'[r].answer = [n \in Found(r) |-> pending[n]]
         /\ pending' = [n \in Nodes |-> IF n \in Found(r) THEN None ELSE pending[n]]
<1> DEFINE looked == ToSet(Asked(request[r].client)) \cap Remembered(Asked(request[r].client))
           answer == [n \in Found(r) |-> pending[n]]
           stage == IF Found(r) = {} THEN onEmpty ELSE "answered"
<1>1. request[r] \in Open /\ request[r].client \in Clients
  BY BusyIsOpen
<1>2. looked \in SUBSET Nodes
  BY <1>1, AskedAreNodes
<1>3. Found(r) = looked \cap Queued /\ Found(r) \in SUBSET Nodes
  BY DEF Found, Queued
<1>4. answer \in Answers
  <2>1. answer \in [Found(r) -> Nat]
    BY <1>3 DEF Typed
  <2> QED BY <1>3, <2>1 DEF Answers
<1>5. stage \in Stages
  BY DEF Stages
<1>6. request' = [request EXCEPT ![r] =
                    [@ EXCEPT !.at = stage, !.answer = answer, !.watches = looked]]
  BY DEF Take, Found
<1>7. /\ pending' = [n \in Nodes |-> IF n \in Found(r) THEN None ELSE pending[n]]
      /\ UNCHANGED <<host, made, told>>
  BY DEF Take, Found
<1> HIDE DEF looked, answer, stage
<1>8. request'[r] = Looked(request[r], stage, answer, looked)
  BY <1>6 DEF Typed, Looked
<1>9. /\ request'[r] \in Open
      /\ request'[r].at = stage /\ request'[r].answer = answer /\ request'[r].watches = looked
      /\ request'[r].client = request[r].client /\ request'[r].woken = request[r].woken
      /\ request'[r].abandoned = request[r].abandoned
  BY <1>1, <1>2, <1>4, <1>5, <1>8, LookChanges
<1>10. \A q \in Requests \ {r} : request'[q] = request[q]
  BY <1>6 DEF Typed
<1>11. request' \in [Requests -> {Free} \cup Open]
  <2>1. request' = [request EXCEPT ![r] = request'[r]]
    BY <1>6, <1>8
  <2> QED BY <1>9, <2>1 DEF Typed
<1>12. pending' \in [Nodes -> Nat]
  BY <1>7 DEF Typed, None
<1>13. Typed'
  BY <1>7, <1>11, <1>12 DEF Typed
<1>14. stage \in {onEmpty, "answered"} /\ (stage # "answered" => Found(r) = {})
  BY DEF stage
<1> QED BY <1>3, <1>7, <1>9, <1>10, <1>13, <1>14 DEF answer
-----------------------------------------------------------------------------
(* The steps keep the types. *)

\* One request changes, the others stay.
LEMMA OneChanges ==
  ASSUME Typed, NEW r \in Requests, NEW q \in {Free} \cup Open, request' = [request EXCEPT ![r] = q]
  PROVE  /\ request' \in [Requests -> {Free} \cup Open]
         /\ request'[r] = q
         /\ \A p \in Requests \ {r} : request'[p] = request[p]
BY DEF Typed

\* A request that is asked is open.
LEMMA AskedIsOpen ==
  ASSUME NEW c \in Clients
  PROVE  [at |-> "arrived", client |-> c, woken |-> FALSE, waited |-> 0,
          failed |-> FALSE, abandoned |-> FALSE, answer |-> <<>>, watches |-> {}] \in Open
<1>1. <<>> \in [{} -> Nat]
  OBVIOUS
<1>2. <<>> \in Answers
  BY <1>1 DEF Answers
<1> QED BY <1>2 DEF Open, Stages

\* notify_waiters() wakes every request that is registered, and changes nothing else.
LEMMA NotifyWakes ==
  ASSUME Typed, NEW h \in Hosts, Notify(h)
  PROVE  /\ Typed' /\ UNCHANGED <<pending, made, told>>
         /\ \A r \in Requests : request'[r] = request[r] \/ (Busy(r) /\ request'[r] = Woken(request[r]))
         /\ \A r \in Requests : ~Asleep(r)'
<1>1. /\ request' = [r \in Requests |-> IF request[r].at \in {"registered", "decided", "waiting"}
                                        THEN Woken(request[r]) ELSE request[r]]
      /\ host' = [host EXCEPT ![h] = "idle"] /\ UNCHANGED <<pending, made, told>>
  BY DEF Notify, Woken
<1>2. ASSUME NEW r \in Requests
      PROVE  /\ request'[r] \in {Free} \cup Open /\ ~Asleep(r)'
             /\ request'[r] = request[r] \/ (Busy(r) /\ request'[r] = Woken(request[r]))
  <2>1. CASE request[r].at \in {"registered", "decided", "waiting"}
    <3>1. Busy(r) /\ request'[r] = Woken(request[r])
      BY <1>1, <2>1 DEF Busy
    <3>2. request[r] \in Open
      BY <3>1, BusyIsOpen
    <3> QED BY <3>1, <3>2, WakeChanges DEF Asleep
  <2>2. CASE request[r].at \notin {"registered", "decided", "waiting"}
    BY <1>1, <2>2 DEF Typed, Asleep
  <2> QED BY <2>1, <2>2
<1>3. request' \in [Requests -> {Free} \cup Open]
  BY <1>1, <1>2
<1>4. host' \in [Hosts -> {"idle", "notify"}]
  BY <1>1 DEF Typed
<1> QED BY <1>1, <1>2, <1>3, <1>4 DEF Typed

\* An action that is queued is the newest.
LEMMA InstructQueues ==
  ASSUME Typed, NEW h \in Hosts, NEW n \in Nodes, Instruct(h, n)
  PROVE  /\ Typed' /\ UNCHANGED <<request, told>> /\ host'[h] = "notify"
         /\ made'[n] = made[n] + 1 /\ \A m \in Nodes \ {n} : made'[m] = made[m]
         /\ pending'[n] \in {pending[n], made[n] + 1}
         /\ \A m \in Nodes \ {n} : pending'[m] = pending[m]
<1>1. made[n] \in Nat /\ made' = [made EXCEPT ![n] = made[n] + 1]
  BY DEF Instruct, Typed
<1>2. made' \in [Nodes -> Nat] /\ made'[n] = made[n] + 1 /\ \A m \in Nodes \ {n} : made'[m] = made[m]
  BY <1>1 DEF Typed
<1>3. pending' = pending \/ pending' = [pending EXCEPT ![n] = made[n] + 1]
  BY <1>2 DEF Instruct
<1>4. /\ pending' \in [Nodes -> Nat] /\ pending'[n] \in {pending[n], made[n] + 1}
      /\ \A m \in Nodes \ {n} : pending'[m] = pending[m]
  BY <1>1, <1>3 DEF Typed
<1>5. host' \in [Hosts -> {"idle", "notify"}] /\ host'[h] = "notify" /\ UNCHANGED <<request, told>>
  BY DEF Instruct, Typed
<1> QED BY <1>2, <1>4, <1>5 DEF Typed

\* An answer that arrives tells its nodes what it found.
LEMMA DeliverTells ==
  ASSUME Typed, NEW r \in Requests, Deliver(r)
  PROVE  /\ Typed' /\ UNCHANGED <<pending, host, made>> /\ Live(r)
         /\ request'[r] = Free /\ \A p \in Requests \ {r} : request'[p] = request[p]
         /\ \A n \in Nodes : told'[n] = IF n \in DOMAIN request[r].answer
                                        THEN request[r].answer[n] ELSE told[n]
<1>1. Live(r) /\ request' = [request EXCEPT ![r] = Free] /\ UNCHANGED <<pending, host, made>>
  BY DEF Deliver
<1>2. told' = [n \in Nodes |-> IF n \in DOMAIN request[r].answer
                               THEN request[r].answer[n] ELSE told[n]]
  BY DEF Deliver
<1>3. \A n \in DOMAIN request[r].answer : request[r].answer[n] \in Nat
  BY <1>1, BusyIsOpen, AnswerParts DEF Live
<1>4. told' \in [Nodes -> Nat]
  BY <1>2, <1>3 DEF Typed
<1>5. /\ request' \in [Requests -> {Free} \cup Open] /\ request'[r] = Free
      /\ \A p \in Requests \ {r} : request'[p] = request[p]
  BY <1>1, OneChanges
<1> QED BY <1>1, <1>2, <1>4, <1>5 DEF Typed

\* The steps of one request that neither take nor tell anything.
Alone(r) == Hold(r) \/ Expire(r) \/ GiveUp(r) \/ Discard(r)
LEMMA AloneChanges ==
  ASSUME Typed, NEW r \in Requests, Alone(r)
  PROVE  /\ Typed' /\ UNCHANGED <<pending, host, made, told>>
         /\ \A p \in Requests \ {r} : request'[p] = request[p]
         /\ Busy(r)
         /\ \/ request'[r] = Free
            \/ /\ request'[r].client = request[r].client /\ request'[r].answer = request[r].answer
               /\ request'[r].watches = request[r].watches
               /\ Live(r)' => Live(r)
               /\ Asleep(r)' => Asleep(r)
<1>1. UNCHANGED <<pending, host, made, told>> /\ Busy(r)
  BY DEF Alone, Hold, Expire, GiveUp, Discard, Live, Busy
<1>2. request[r] \in Open
  BY <1>1, BusyIsOpen
<1>3. CASE Discard(r)
  <2>1. request' = [request EXCEPT ![r] = Free]
    BY <1>3 DEF Discard
  <2> QED BY <1>1, <2>1, OneChanges DEF Typed
<1>4. CASE Hold(r)
  <2>1. request' = [request EXCEPT ![r] = Moved(request[r], "waiting")] /\ request[r].at = "decided"
    BY <1>4 DEF Hold, Moved
  <2>2. Moved(request[r], "waiting") \in Open
    BY <1>2, MoveChanges DEF Stages
  <2>3. Typed' /\ request'[r] = Moved(request[r], "waiting")
        /\ \A p \in Requests \ {r} : request'[p] = request[p]
    BY <1>1, <2>1, <2>2, OneChanges DEF Typed
  <2> QED BY <1>1, <1>2, <2>1, <2>3, MoveChanges DEF Stages, Live, Busy, Asleep
<1>5. CASE Expire(r)
  <2>1. request' = [request EXCEPT ![r] = Moved(request[r], "answered")]
    BY <1>5 DEF Expire, Moved
  <2>2. Moved(request[r], "answered") \in Open
    BY <1>2, MoveChanges DEF Stages
  <2>3. Typed' /\ request'[r] = Moved(request[r], "answered")
        /\ \A p \in Requests \ {r} : request'[p] = request[p]
    BY <1>1, <2>1, <2>2, OneChanges DEF Typed
  <2> QED BY <1>1, <1>2, <2>3, MoveChanges DEF Stages, Live, Busy, Asleep
<1>6. CASE GiveUp(r)
  <2>1. PICK failed \in BOOLEAN : request' = [request EXCEPT ![r] = GivenUp(request[r], failed)]
    BY <1>6 DEF GiveUp, GivenUp
  <2>2. GivenUp(request[r], failed) \in Open
    BY <1>2, GiveUpChanges
  <2>3. Typed' /\ request'[r] = GivenUp(request[r], failed)
        /\ \A p \in Requests \ {r} : request'[p] = request[p]
    BY <1>1, <2>1, <2>2, OneChanges DEF Typed
  <2> QED BY <1>1, <1>2, <2>3, GiveUpChanges DEF Live, Busy, Asleep
<1> QED BY <1>3, <1>4, <1>5, <1>6 DEF Alone

\* A request is asked by a client that waits for no other.
LEMMA AskOpens ==
  ASSUME Typed, NEW c \in Clients, NEW r \in Requests, Ask(c, r)
  PROVE  /\ Typed' /\ UNCHANGED <<pending, host, made, told>>
         /\ \A p \in Requests \ {r} : request'[p] = request[p]
         /\ request'[r].client = c /\ request'[r].answer = <<>> /\ request'[r].at = "arrived"
         /\ \A q \in Requests : Live(q) => request[q].client # c
<1> DEFINE asked == [at |-> "arrived", client |-> c, woken |-> FALSE, waited |-> 0,
                     failed |-> FALSE, abandoned |-> FALSE, answer |-> <<>>, watches |-> {}]
<1>1. asked \in Open
  BY AskedIsOpen
<1>2. request' = [request EXCEPT ![r] = asked] /\ UNCHANGED <<pending, host, made, told>>
      /\ \A q \in Requests : Live(q) => request[q].client # c
  BY DEF Ask
<1>3. asked.client = c /\ asked.answer = <<>> /\ asked.at = "arrived"
  OBVIOUS
<1> HIDE DEF asked
<1>4. /\ request' \in [Requests -> {Free} \cup Open] /\ request'[r] = asked
      /\ \A p \in Requests \ {r} : request'[p] = request[p]
  BY <1>1, <1>2, OneChanges
<1> QED BY <1>2, <1>3, <1>4 DEF Typed

\* Time passes for every request.
LEMMA TickWaits ==
  ASSUME Typed, Tick
  PROVE  /\ Typed' /\ UNCHANGED <<pending, host, made, told>>
         /\ \A r \in Requests : request'[r] = request[r] \/ (Busy(r) /\ request'[r] = Waited(request[r]))
<1>1. /\ request' = [r \in Requests |-> IF Busy(r) THEN Waited(request[r]) ELSE Free]
      /\ UNCHANGED <<pending, host, made, told>>
  BY DEF Tick, Waited
<1>2. ASSUME NEW r \in Requests
      PROVE  /\ request'[r] \in {Free} \cup Open
             /\ request'[r] = request[r] \/ (Busy(r) /\ request'[r] = Waited(request[r]))
  <2>1. CASE Busy(r)
    BY <1>1, <2>1, BusyIsOpen, WaitChanges
  <2>2. CASE ~Busy(r)
    BY <1>1, <2>2 DEF Typed, Busy, Open, Stages
  <2> QED BY <2>1, <2>2
<1>3. request' \in [Requests -> {Free} \cup Open]
  BY <1>1, <1>2
<1> QED BY <1>1, <1>2, <1>3 DEF Typed

\* A look at the queue, whichever.
Look(r) == \E onEmpty \in Stages : Busy(r) /\ Take(r, onEmpty)

\* What a step may be.
LEMMA Steps ==
  ASSUME [Next]_vars
  PROVE  \/ \E h \in Hosts : Notify(h)
         \/ \E h \in Hosts, n \in Nodes : Instruct(h, n)
         \/ \E c \in Clients, r \in Requests : Ask(c, r)
         \/ \E r \in Requests : Look(r) \/ Alone(r) \/ Deliver(r)
         \/ Tick
         \/ UNCHANGED vars
<1>1. \A r \in Requests : (FirstLook(r) \/ SecondLook(r) \/ Wake(r)) => Look(r)
  BY DEF FirstLook, SecondLook, Wake, Look, Busy, Stages
<1>2. \A r \in Requests : (Hold(r) \/ Expire(r) \/ GiveUp(r) \/ Discard(r)) => Alone(r)
  BY DEF Alone
<1> QED BY <1>1, <1>2 DEF Next

LEMMA StepIsTyped ==
  ASSUME Typed, [Next]_vars
  PROVE  Typed'
<1>1. ASSUME NEW r \in Requests, Look(r) PROVE Typed'
  BY <1>1, LookTakes DEF Look
<1>2. CASE UNCHANGED vars
  BY <1>2 DEF vars, Typed
<1> QED BY <1>1, <1>2, Steps, NotifyWakes, InstructQueues, AskOpens, AloneChanges, DeliverTells, TickWaits

\* At the start nothing is queued and nobody asks.
LEMMA Starts ==
  ASSUME Init
  PROVE  Typed /\ Guarded /\ InOrder
<1>1. Typed
  BY DEF Init, Typed, None
<1>2. \A r \in Requests : ~Busy(r) /\ ~Live(r) /\ ~Asleep(r)
  BY DEF Init, Free, Busy, Live, Asleep
<1>3. Guarded
  BY <1>2 DEF Guarded
<1>4. InOrder
  BY <1>2 DEF Init, InOrder, OneAtATime, OwnNodes, News, FoundIsNews, None
<1> QED BY <1>1, <1>3, <1>4

-----------------------------------------------------------------------------
(* Nobody sleeps through an action. *)

\* What is queued when a request looks, it takes; what is queued later has yet to wake it.
LEMMA StepGuards ==
  ASSUME Typed, Guarded, [Next]_vars
  PROVE  Guarded'
<1>1. ASSUME NEW h \in Hosts, Notify(h) PROVE Guarded'
  BY <1>1, NotifyWakes DEF Guarded
<1>2. ASSUME NEW h \in Hosts, NEW n \in Nodes, Instruct(h, n) PROVE Guarded'
  BY <1>2, InstructQueues DEF Guarded
<1>3. ASSUME NEW c \in Clients, NEW r \in Requests, Ask(c, r) PROVE Guarded'
  BY <1>3, AskOpens DEF Guarded, Asleep, Queued
<1>4. ASSUME NEW r \in Requests, Look(r) PROVE Guarded'
  <2>1. PICK onEmpty \in Stages : Busy(r) /\ Take(r, onEmpty)
    BY <1>4 DEF Look
  <2>2. Queued' \subseteq Queued /\ host' = host
    BY <2>1, LookTakes DEF Queued, None
  <2>3. ASSUME NEW p \in Requests, Asleep(p)', request'[p].watches \cap Queued' # {}
        PROVE  \E h \in Hosts : host'[h] = "notify"
    <3>1. CASE p = r
      <4>1. request'[r].at # "answered"
        BY <2>3, <3>1 DEF Asleep
      <4>2. request'[r].watches \cap Queued = {}
        BY <2>1, <4>1, LookTakes
      <4> QED BY <2>2, <2>3, <3>1, <4>2
    <3>2. CASE p # r
      <4>1. request'[p] = request[p]
        BY <2>1, <3>2, LookTakes
      <4> QED BY <2>2, <2>3, <4>1 DEF Guarded, Asleep
    <3> QED BY <3>1, <3>2
  <2> QED BY <2>3 DEF Guarded
<1>5. ASSUME NEW r \in Requests, Alone(r) PROVE Guarded'
  <2>1. Queued' = Queued /\ host' = host
    BY <1>5, AloneChanges DEF Queued
  <2>2. ASSUME NEW p \in Requests, Asleep(p)' PROVE Asleep(p) /\ request'[p].watches = request[p].watches
    <3>1. CASE p = r
      BY <1>5, <2>2, <3>1, AloneChanges DEF Asleep, Free
    <3>2. CASE p # r
      BY <1>5, <2>2, <3>2, AloneChanges DEF Asleep
    <3> QED BY <3>1, <3>2
  <2> QED BY <2>1, <2>2 DEF Guarded
<1>6. ASSUME NEW r \in Requests, Deliver(r) PROVE Guarded'
  BY <1>6, DeliverTells DEF Guarded, Asleep, Queued, Free
<1>7. CASE Tick
  <2>1. Queued' = Queued /\ host' = host
    BY <1>7, TickWaits DEF Queued
  <2>2. ASSUME NEW p \in Requests, Asleep(p)' PROVE Asleep(p) /\ request'[p].watches = request[p].watches
    BY <1>7, <2>2, TickWaits, BusyIsOpen, WaitChanges DEF Asleep
  <2> QED BY <2>1, <2>2 DEF Guarded
<1>8. CASE UNCHANGED vars
  BY <1>8 DEF vars, Guarded, Asleep, Queued
<1> QED BY <1>1, <1>2, <1>3, <1>4, <1>5, <1>6, <1>7, <1>8, Steps

\* For every number of nodes, clients, hosts and requests: no request waits for an
\* action that is queued, unless the thread that queued it is about to wake it.
THEOREM NobodySleepsThrough == Spec => []SleepersAreWoken
<1>1. Init => Typed /\ Guarded
  BY Starts
<1>2. (Typed /\ Guarded) /\ [Next]_vars => (Typed /\ Guarded)'
  BY StepIsTyped, StepGuards
<1>3. Guarded => SleepersAreWoken
  BY DEF Guarded, SleepersAreWoken, Asleep
<1> QED BY <1>1, <1>2, <1>3, PTL DEF Spec

-----------------------------------------------------------------------------
(* Each action once and in order. *)

\* A step that finds nothing, queues nothing and tells nothing.
Quiet ==
  /\ UNCHANGED <<pending, made, told>>
  /\ \A r \in Requests : Busy(r)' =>
       /\ Busy(r) /\ (Live(r)' => Live(r))
       /\ request'[r].client = request[r].client /\ request'[r].answer = request[r].answer

LEMMA QuietSteps ==
  ASSUME Typed
  PROVE  /\ \A h \in Hosts : Notify(h) => Quiet
         /\ \A r \in Requests : Alone(r) => Quiet
         /\ Tick => Quiet
         /\ UNCHANGED vars => Quiet
<1>1. ASSUME NEW h \in Hosts, Notify(h) PROVE Quiet
  BY <1>1, NotifyWakes, BusyIsOpen, WakeChanges DEF Quiet, Busy, Live
<1>2. ASSUME NEW r \in Requests, Alone(r) PROVE Quiet
  <2>1. ASSUME NEW p \in Requests, Busy(p)'
        PROVE  /\ Busy(p) /\ (Live(p)' => Live(p))
               /\ request'[p].client = request[p].client /\ request'[p].answer = request[p].answer
    <3>1. CASE p = r
      BY <1>2, <2>1, <3>1, AloneChanges DEF Busy, Free
    <3>2. CASE p # r
      BY <1>2, <2>1, <3>2, AloneChanges DEF Busy, Live
    <3> QED BY <3>1, <3>2
  <2> QED BY <1>2, <2>1, AloneChanges DEF Quiet
<1>3. ASSUME Tick PROVE Quiet
  BY <1>3, TickWaits, BusyIsOpen, WaitChanges DEF Quiet, Busy, Live
<1>4. ASSUME UNCHANGED vars PROVE Quiet
  BY <1>4 DEF vars, Quiet, Busy, Live
<1> QED BY <1>1, <1>2, <1>3, <1>4

\* It changes no order.
LEMMA QuietKeepsOrder ==
  ASSUME InOrder, Quiet
  PROVE  InOrder'
<1>1. OneAtATime'
  BY DEF InOrder, OneAtATime, Quiet, Live
<1>2. OwnNodes'
  BY DEF InOrder, OwnNodes, Quiet
<1>3. News'
  BY DEF InOrder, News, Quiet
<1>4. FoundIsNews'
  BY DEF InOrder, FoundIsNews, Quiet, Live
<1> QED BY <1>1, <1>2, <1>3, <1>4 DEF InOrder

\* A new action is newer than what is queued, found and told.
LEMMA InstructKeepsOrder ==
  ASSUME Typed, InOrder, NEW h \in Hosts, NEW n \in Nodes, Instruct(h, n)
  PROVE  InOrder'
<1>1. OneAtATime' /\ OwnNodes'
  BY InstructQueues DEF InOrder, OneAtATime, OwnNodes, Live, Busy
<1>2. \A m \in Nodes : /\ made[m] \in Nat /\ told[m] \in Nat /\ pending[m] \in Nat
                       /\ made'[m] \in Nat /\ made[m] <= made'[m]
                       /\ pending'[m] = pending[m] \/ (pending'[m] = made'[m] /\ made[m] < made'[m])
  BY InstructQueues DEF Typed
<1>3. UNCHANGED <<request, told>>
  BY InstructQueues
<1>4. News'
  BY <1>2, <1>3 DEF InOrder, News
<1>5. FoundIsNews'
  <2> SUFFICES ASSUME NEW r \in Requests, Live(r), NEW m \in DOMAIN request[r].answer
               PROVE  /\ told[m] < request[r].answer[m] /\ request[r].answer[m] <= made'[m]
                      /\ pending'[m] # None => request[r].answer[m] < pending'[m]
    BY <1>3 DEF FoundIsNews, Live, Busy
  <2>1. m \in Nodes /\ request[r].answer[m] \in Nat
    BY BusyIsOpen, AnswerParts DEF Live
  <2>2. /\ told[m] < request[r].answer[m] /\ request[r].answer[m] <= made[m]
        /\ pending[m] # None => request[r].answer[m] < pending[m]
    BY DEF InOrder, FoundIsNews
  <2> QED BY <1>2, <2>1, <2>2
<1> QED BY <1>1, <1>4, <1>5 DEF InOrder

\* A new request has found nothing.
LEMMA AskKeepsOrder ==
  ASSUME Typed, InOrder, NEW c \in Clients, NEW r \in Requests, Ask(c, r)
  PROVE  InOrder'
<1>1. UNCHANGED <<pending, made, told>> /\ DOMAIN request'[r].answer = {}
  BY AskOpens
<1>2. \A p \in Requests \ {r} : request'[p] = request[p]
  BY AskOpens
<1>3. OneAtATime'
  BY <1>2, AskOpens DEF InOrder, OneAtATime, Live, Busy
<1>4. OwnNodes'
  BY <1>1, <1>2 DEF InOrder, OwnNodes, Busy
<1>5. News'
  BY <1>1 DEF InOrder, News
<1>6. FoundIsNews'
  BY <1>1, <1>2 DEF InOrder, FoundIsNews, Live, Busy
<1> QED BY <1>3, <1>4, <1>5, <1>6 DEF InOrder

\* What a look finds is what was queued, and is not queued any more.
LEMMA LookKeepsOrder ==
  ASSUME Typed, InOrder, NEW r \in Requests, Look(r)
  PROVE  InOrder'
<1>0. PICK onEmpty \in Stages : Busy(r) /\ Take(r, onEmpty)
  BY DEF Look
<1>1. UNCHANGED <<made, told>> /\ \A p \in Requests \ {r} : request'[p] = request[p]
  BY <1>0, LookTakes
<1>2. /\ request'[r].client = request[r].client /\ request'[r].abandoned = request[r].abandoned
      /\ request'[r].answer = [n \in Found(r) |-> pending[n]]
  BY <1>0, LookTakes
<1>3. \A n \in Nodes : pending'[n] = IF n \in Found(r) THEN None ELSE pending[n]
  BY <1>0, LookTakes
<1>4. \A n \in Found(r) : n \in Nodes /\ pending[n] # None /\ n \in ToSet(Asked(request[r].client))
  BY DEF Found, Queued
<1>5. \A p \in Requests : Live(p)' => Live(p) /\ request'[p].client = request[p].client
  BY <1>0, <1>1, <1>2 DEF Live, Busy
<1>6. OneAtATime'
  BY <1>5 DEF InOrder, OneAtATime
<1>7. OwnNodes'
  BY <1>1, <1>2, <1>4 DEF InOrder, OwnNodes, Busy
<1>8. News'
  BY <1>1, <1>3 DEF InOrder, News
<1>9. ASSUME NEW p \in Requests, Live(p)', NEW n \in DOMAIN request'[p].answer
      PROVE  /\ told[n] < request'[p].answer[n] /\ request'[p].answer[n] <= made[n]
             /\ pending'[n] # None => request'[p].answer[n] < pending'[n]
  <2>1. CASE p = r
    <3>1. n \in Found(r) /\ request'[p].answer[n] = pending[n]
      BY <1>2, <1>9, <2>1
    <3> QED BY <1>3, <1>4, <3>1 DEF InOrder, News
  <2>2. CASE p # r
    <3>1. request'[p] = request[p] /\ Live(p)
      BY <1>1, <1>5, <1>9, <2>2
    <3>2. n \in Nodes
      BY <1>9, <3>1, BusyIsOpen, AnswerParts DEF Live
    <3> QED BY <1>3, <1>9, <3>1, <3>2 DEF InOrder, FoundIsNews
  <2> QED BY <2>1, <2>2
<1>10. FoundIsNews'
  BY <1>1, <1>9 DEF FoundIsNews
<1> QED BY <1>6, <1>7, <1>8, <1>10 DEF InOrder

\* What a node is told is older than what is queued for it, and no other answer is
\* about it: its client has no other, and no other client asks for it.
LEMMA DeliverKeepsOrder ==
  ASSUME Typed, InOrder, NEW r \in Requests, Deliver(r)
  PROVE  InOrder'
<1> DEFINE answer == request[r].answer
<1>1. /\ UNCHANGED <<pending, made>> /\ Live(r) /\ ~Busy(r)'
      /\ \A p \in Requests \ {r} : request'[p] = request[p]
  BY DeliverTells DEF Busy, Free
<1>2. \A n \in Nodes : told'[n] = IF n \in DOMAIN answer THEN answer[n] ELSE told[n]
  BY DeliverTells
<1>3. \A p \in Requests : Busy(p)' => p # r /\ request'[p] = request[p] /\ Busy(p) /\ (Live(p)' => Live(p))
  BY <1>1 DEF Live, Busy
<1>4. OneAtATime' /\ OwnNodes'
  BY <1>3 DEF InOrder, OneAtATime, OwnNodes, Live
<1>5. \A n \in DOMAIN answer :
        /\ n \in Nodes /\ answer[n] <= made[n]
        /\ pending[n] # None => answer[n] < pending[n]
  BY <1>1, BusyIsOpen, AnswerParts DEF InOrder, FoundIsNews, Live
<1> HIDE DEF answer
<1>6. News'
  BY <1>1, <1>2, <1>5 DEF InOrder, News
<1>7. ASSUME NEW p \in Requests, Live(p)', NEW n \in DOMAIN request'[p].answer
      PROVE  /\ told'[n] < request[p].answer[n] /\ request[p].answer[n] <= made[n]
             /\ pending[n] # None => request[p].answer[n] < pending[n]
  <2>1. p # r /\ request'[p] = request[p] /\ Live(p) /\ Busy(p)
    BY <1>3, <1>7 DEF Live
  <2>2. n \in Nodes /\ n \in ToSet(Asked(request[p].client)) /\ request[p].client \in Clients
    BY <1>7, <2>1, BusyIsOpen, AnswerParts DEF InOrder, OwnNodes
  <2>3. request[r].client \in Clients /\ request[p].client # request[r].client
    BY <1>1, <2>1, BusyIsOpen DEF InOrder, OneAtATime, Live
  <2>4. n \notin DOMAIN answer
    BY <1>1, <2>2, <2>3, OwnersAssumption DEF InOrder, OwnNodes, Live, answer
  <2>5. told'[n] = told[n]
    BY <1>2, <2>2, <2>4
  <2> QED BY <1>7, <2>1, <2>5 DEF InOrder, FoundIsNews
<1>8. FoundIsNews'
  BY <1>1, <1>3, <1>7 DEF FoundIsNews, Live
<1> QED BY <1>4, <1>6, <1>8 DEF InOrder

LEMMA StepKeepsOrder ==
  ASSUME Typed, InOrder, [Next]_vars
  PROVE  InOrder'
BY Steps, QuietSteps, QuietKeepsOrder, InstructKeepsOrder, AskKeepsOrder, LookKeepsOrder,
   DeliverKeepsOrder

\* For every number of nodes, clients, hosts and requests, whatever overlaps and whatever
\* fails: a node is told each action at most once and in the order of the host's calls.
THEOREM ToldInOrder == Spec => []EachActionOnceInOrder
<1>1. Init => Typed /\ InOrder
  BY Starts
<1>2. (Typed /\ InOrder) /\ [Next]_vars => (Typed /\ InOrder)'
  BY StepIsTyped, StepKeepsOrder
<1>3. Typed /\ InOrder => EachActionOnceInOrder
  <2> SUFFICES ASSUME Typed, InOrder, NEW r \in Requests, Live(r), NEW n \in DOMAIN request[r].answer
               PROVE  request[r].answer[n] > told[n]
    BY DEF EachActionOnceInOrder
  <2>1. n \in Nodes /\ request[r].answer[n] \in Nat /\ told[n] \in Nat
    BY BusyIsOpen, AnswerParts DEF Live, Typed
  <2> QED BY <2>1 DEF InOrder, FoundIsNews
<1> QED BY <1>1, <1>2, <1>3, PTL DEF Spec
=============================================================================
