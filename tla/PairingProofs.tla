---------------------------- MODULE PairingProofs ----------------------------
(* Proofs about Pairing: two sides never disagree about a pairing, one opening *)
(* of a node pairs one client, and an attempt that failed is given back, for   *)
(* any number of clients, attempts, openings and failures.                     *)
EXTENDS Pairing, FiniteSetTheorems, TLAPS

Id == Nat \ {0}
Phases == {"Idle", "AwaitingAcceptance", "Authenticated", "DetailsExchanged", "Paired", "Abandoning"}
Request == [c : Clients, op : {"request", "details", "post", "finalize"}, id : Nat, token : Nat,
            ok : BOOLEAN, live : BOOLEAN]
Attempt == [id : Id, c : Clients, token : Nat, started : Nat, details : BOOLEAN, verified : BOOLEAN]
Sleeper == [id : Id, c : Clients, token : Nat, at : Nat, live : BOOLEAN]
Finisher == [id : Id, c : Clients, token : Nat, live : BOOLEAN, stage : {"Store", "Unpair", "Answer"}]

ClientTypes ==
  /\ phase \in [Clients -> Phases] /\ held \in [Clients -> SUBSET Nat] /\ code \in [Clients -> Nat]
  /\ reply \in [Clients -> [status : {"None", "Ok", "Refused"}, id : Nat, token : Nat]]
  /\ requests \subseteq Request
  /\ stored \in [Clients -> SUBSET [id : Nat, server : {"Cem", "Rm"}]]
  /\ agreed \subseteq [id : Nat, c : Clients]

ServerTypes ==
  /\ attempt \subseteq Attempt
  /\ finished \subseteq Nat /\ answered \subseteq Nat
  /\ router \subseteq [id : Id, expires : Nat]
  /\ sleeping \subseteq Sleeper /\ finishing \subseteq Finisher
  /\ made \subseteq [id : Id, c : Clients, token : Nat, server : {"Cem", "Rm"}]
  /\ opening \in Nat /\ openings \in Nat /\ answers \in Nat /\ faults \in Nat /\ now \in Nat

Typed == ClientTypes /\ ServerTypes

\* The machine answered less than a second ago because of an attempt it has, or of one
\* that ended since.
RecentlyAnswered ==
  \A t \in answered : /\ t <= now /\ now - t < Delay
                      /\ \/ \E a \in attempt : a.started = t
                         \/ \E u \in finished : t <= u /\ u <= now

\* The machine has one attempt or is finalizing one, within the time it ended at.
OneAttempt ==
  /\ \A a, b \in attempt : a = b
  /\ \A g, h \in finishing : g = h
  /\ finishing # {} => attempt = {} /\ now \in finished

\* The client c has to do with attempt i.
Claims(i, c) ==
  \/ \E x \in attempt : x.id = i /\ x.c = c
  \/ \E x \in sleeping : x.id = i /\ x.c = c
  \/ \E x \in finishing : x.id = i /\ x.c = c
  \/ \E x \in made : x.id = i /\ x.c = c
  \/ \E x \in agreed : x.id = i /\ x.c = c
  \/ \E x \in requests : x.id = i /\ x.c = c
  \/ reply[c].id = i
  \/ i \in held[c]

\* An attempt is one client's, and has been answered.
Owned ==
  \A i \in Id, c \in Clients :
    Claims(i, c) => i <= answers /\ \A d \in Clients : Claims(i, d) => c = d

\* What the client that waits for an answer asked.
Fits(q) ==
  \/ q.op = "request" /\ phase[q.c] = "AwaitingAcceptance"
  \/ q.op = "details" /\ phase[q.c] = "Authenticated" /\ held[q.c] = {q.id}
  \/ q.op = "post" /\ phase[q.c] = "DetailsExchanged" /\ held[q.c] = {q.id}
  \/ q.op = "finalize" /\ q.ok /\ phase[q.c] = "Paired" /\ held[q.c] = {q.id}
  \/ q.op = "finalize" /\ ~q.ok /\ phase[q.c] = "Abandoning" /\ held[q.c] = {q.id}

\* Whoever is waited for is waited for by a client with no answer yet, and alone.
Awaited ==
  /\ \A q \in requests : q.live => reply[q.c].status = "None" /\ Fits(q)
  /\ \A s \in sleeping : s.live => reply[s.c].status = "None" /\ phase[s.c] = "AwaitingAcceptance"
  /\ \A h \in finishing : h.live => /\ reply[h.c].status = "None"
                                    /\ phase[h.c] = "Paired" /\ held[h.c] = {h.id}
AwaitedOnce ==
  /\ \A q, r \in requests : q.live /\ r.live /\ q.c = r.c => q = r
  /\ \A s, t \in sleeping : s.live /\ t.live /\ s.c = t.c => s = t
  /\ \A q \in requests, s \in sleeping : q.live /\ s.live => q.c # s.c
  /\ \A q \in requests, h \in finishing : q.live /\ h.live => q.c # h.c

\* What a client knows of its attempt at each step.
Knows ==
  \A c \in Clients :
    /\ phase[c] \in {"Authenticated", "DetailsExchanged", "Paired", "Abandoning"}
         => \E i \in Id : held[c] = {i}
    /\ reply[c].status = "None" => reply[c] = NoReply
    /\ phase[c] = "AwaitingAcceptance" /\ reply[c].status = "Ok" => reply[c].id \in Id
    /\ phase[c] = "AwaitingAcceptance" /\ reply[c].status = "Refused" => reply[c].id = 0

Stored(i, c) == \E m \in made : m.id = i /\ m.c = c
Finalized(i, c) == \E g \in agreed : g.id = i /\ g.c = c

\* Mutual at every step on the way.
Mutual ==
  /\ \A c \in Clients : \A p \in stored[c] : Stored(p.id, c)
  /\ \A m \in made : Finalized(m.id, m.c)
  /\ \A h \in finishing : Finalized(h.id, h.c) /\ (h.stage # "Store" => Stored(h.id, h.c))
  /\ \A q \in requests : q.op = "finalize" /\ q.ok => Finalized(q.id, q.c)
  /\ \A c \in Clients : phase[c] = "Paired" /\ reply[c].status = "Ok"
       => \A i \in held[c] : Stored(i, c)

\* A token that paired a client is no longer the node's, nor any attempt's.
UsedUp ==
  /\ opening <= openings
  /\ \A a \in attempt : 0 < a.token /\ a.token <= openings
  /\ \A h \in finishing : 0 < h.token /\ h.token <= openings
  /\ \A m \in made :
       /\ 0 < m.token /\ m.token <= openings /\ m.token # opening
       /\ \A a \in attempt : a.token # m.token
       /\ \A h \in finishing : h.stage = "Store" => h.token # m.token

\* What a handler that sleeps is about to tell the router is the machine's attempt, or late.
ToldLater ==
  /\ \A s \in sleeping :
       \/ s.at + Budget < now
       \/ \E a \in attempt : a.id = s.id
  /\ \A s \in sleeping, a \in attempt : a.id = s.id => a.started = s.at
  /\ \A s, t \in sleeping : s.id = t.id => s = t
  /\ \A s \in sleeping, e \in router : e.id # s.id
  /\ \A e \in router : e.id <= answers
  /\ \A e \in router, a \in attempt : e.id = a.id => e.expires = a.started + Budget

\* Where nothing is lost, somebody answers whoever waits, ...
Answerable ==
  /\ leaf = 1 /\ seen \in [Clients -> SUBSET {1}]
  /\ \A q \in requests : q.live
  /\ \A s \in sleeping : s.live
  /\ \A h \in finishing : h.live
  /\ \A c \in Clients : phase[c] # "Idle" /\ reply[c].status = "None" =>
       \/ \E q \in requests : q.c = c
       \/ \E s \in sleeping : s.c = c
       \/ \E h \in finishing : h.c = c

\* ... and the client an attempt belongs to is after it, or about to be, until it ends.
Chased(a) ==
  \/ \E s \in sleeping : s.id = a.id
  \/ phase[a.c] = "AwaitingAcceptance" /\ reply[a.c].status = "Ok" /\ reply[a.c].id = a.id
  \/ phase[a.c] \in {"Authenticated", "DetailsExchanged"} /\ held[a.c] = {a.id}
  \/ phase[a.c] = "Paired" /\ held[a.c] = {a.id} /\ reply[a.c].status # "Ok"
  \/ phase[a.c] = "Abandoning" /\ held[a.c] = {a.id} /\ reply[a.c].status = "None"
Reachable(a) == (\E s \in sleeping : s.id = a.id) \/ (\E e \in router : e.id = a.id)
NothingLost ==
  faults = 0 => /\ Answerable
                /\ \A a \in attempt : now - a.started < Budget => Chased(a) /\ Reachable(a)

-----------------------------------------------------------------------------
(* What the steps of a client come to. *)

\* The client c asks for step op of attempt i, ...
Posted(c, op, i, token, ok, at) ==
  /\ requests' = requests \cup {[c |-> c, op |-> op, id |-> i, token |-> token, ok |-> ok, live |-> TRUE]}
  /\ reply' = [reply EXCEPT ![c] = NoReply]
  /\ phase' = [phase EXCEPT ![c] = at]
  /\ held' = [held EXCEPT ![c] = IF i = 0 THEN {} ELSE {i}]
  /\ seen' \in {[seen EXCEPT ![c] = seen[c] \cup {leaf}], [seen EXCEPT ![c] = {leaf}]}
  /\ UNCHANGED stored

\* ... at the start, with a proof, to finalize or to give up, ...
Starts(c) ==
  /\ phase[c] = "Idle"
  /\ \E ok \in BOOLEAN : Posted(c, "request", 0, 0, ok, "AwaitingAcceptance")
  /\ UNCHANGED agreed
Proves(c) ==
  /\ phase[c] = "AwaitingAcceptance" /\ reply[c].status = "Ok"
  /\ \/ Posted(c, "post", reply[c].id, code[c], TRUE, "DetailsExchanged")
     \/ Posted(c, "details", reply[c].id, code[c], TRUE, "Authenticated")
  /\ UNCHANGED agreed
Finalizes(c) ==
  /\ phase[c] \in {"Authenticated", "DetailsExchanged"} /\ reply[c].status = "Ok"
  /\ \E i \in held[c] : /\ Posted(c, "finalize", i, 0, TRUE, "Paired")
                        /\ agreed' = agreed \cup {[id |-> i, c |-> c]}
GivesBack(c) ==
  /\ reply[c].status # "None"
  /\ \E i \in Id :
       /\ \/ phase[c] = "AwaitingAcceptance" /\ reply[c].status = "Ok" /\ reply[c].id = i
          \/ phase[c] \in {"Authenticated", "DetailsExchanged"} /\ held[c] = {i}
          \/ phase[c] = "Paired" /\ reply[c].status = "Refused" /\ held[c] = {i}
       /\ Posted(c, "finalize", i, 0, FALSE, "Abandoning")
  /\ UNCHANGED agreed

\* ... or its call of run() returns.
Returns(c) ==
  /\ reply[c].status # "None"
  /\ \/ /\ \/ phase[c] = "AwaitingAcceptance" /\ (reply[c].status = "Refused" \/ ~Stable(c))
           \/ phase[c] = "Abandoning"
        /\ UNCHANGED stored
     \/ /\ phase[c] = "Paired" /\ reply[c].status = "Ok"
        /\ stored' = [stored EXCEPT ![c] = {[id |-> i, server |-> ServerForClient] : i \in held[c]}]
  /\ requests' = requests
  /\ reply' = [reply EXCEPT ![c] = NoReply]
  /\ phase' = [phase EXCEPT ![c] = "Idle"]
  /\ held' = [held EXCEPT ![c] = {}]
  /\ UNCHANGED <<seen, agreed>>

\* Nothing of the server's changes.
ServerQuiet == UNCHANGED <<machine, router, handlers, leaf, store, openings, faults, now>>

\* What becomes of a failure in each phase.
LEMMA FailureGivesBack ==
  ASSUME Typed, Knows, NEW c \in Clients, reply[c].status # "None", UNCHANGED agreed,
         \/ phase[c] = "AwaitingAcceptance" /\ reply[c].status = "Ok" /\ Fail(c, {reply[c].id})
         \/ phase[c] \in {"Authenticated", "DetailsExchanged"} /\ Fail(c, held[c])
         \/ phase[c] = "Paired" /\ reply[c].status = "Refused" /\ Fail(c, held[c])
  PROVE  GivesBack(c)
<1>1. PICK known \in SUBSET Id : \E i \in Id :
        /\ known = {i} /\ Fail(c, known)
        /\ \/ phase[c] = "AwaitingAcceptance" /\ reply[c].status = "Ok" /\ reply[c].id = i
           \/ phase[c] \in {"Authenticated", "DetailsExchanged"} /\ held[c] = {i}
           \/ phase[c] = "Paired" /\ reply[c].status = "Refused" /\ held[c] = {i}
  BY DEF Knows
<1>2. PICK i \in Id :
        /\ known = {i} /\ Fail(c, known)
        /\ \/ phase[c] = "AwaitingAcceptance" /\ reply[c].status = "Ok" /\ reply[c].id = i
           \/ phase[c] \in {"Authenticated", "DetailsExchanged"} /\ held[c] = {i}
           \/ phase[c] = "Paired" /\ reply[c].status = "Refused" /\ held[c] = {i}
  BY <1>1
<1>3. Posted(c, "finalize", i, 0, FALSE, "Abandoning")
  BY <1>2 DEF Fail, Ask, Posted, Id
<1> QED BY <1>2, <1>3 DEF GivesBack

\* Every step of a client is one of these, and leaves the server alone.
LEMMA ClientSteps ==
  ASSUME Typed, Knows, NEW c \in Clients, ClientStep(c)
  PROVE  /\ ServerQuiet
         /\ Starts(c) \/ Proves(c) \/ Finalizes(c) \/ GivesBack(c) \/ Returns(c)
<1>1. ServerQuiet
  BY DEF ClientStep, Start, Refused, NotAccepted, Accept, Finalize, Succeed, StepFailed, Abandoned,
         Server, bounds, ServerQuiet
<1> SUFFICES Starts(c) \/ Proves(c) \/ Finalizes(c) \/ GivesBack(c) \/ Returns(c)
  BY <1>1
<1>0. [stored EXCEPT ![c] = stored[c]] = stored
  BY DEF Typed, ClientTypes, ServerTypes
<1>2. CASE Start(c)
  <2>1. PICK input \in Inputs, met \in {seen[c], {}} : Ask(c, met, "request", 0, 0, input.fits)
    BY <1>2 DEF Start
  <2>2. input.fits \in BOOLEAN
    BY DEF Inputs
  <2>3. seen' \in {[seen EXCEPT ![c] = seen[c] \cup {leaf}], [seen EXCEPT ![c] = {leaf}]}
    BY <2>1 DEF Ask
  <2>4. /\ phase[c] = "Idle" /\ phase' = [phase EXCEPT ![c] = "AwaitingAcceptance"]
        /\ held' = [held EXCEPT ![c] = {}]
        /\ UNCHANGED <<stored, agreed>>
    BY <1>2 DEF Start
  <2>5. Posted(c, "request", 0, 0, input.fits, "AwaitingAcceptance")
    BY <2>1, <2>3, <2>4 DEF Ask, Posted
  <2> QED BY <2>2, <2>4, <2>5 DEF Starts
<1>3. CASE Refused(c)
  BY <1>0, <1>3 DEF Refused, Return, Returns
<1>4. CASE NotAccepted(c)
  <2>1. Fail(c, {reply[c].id}) \/ (~Stable(c) /\ Fail(c, {}))
    BY <1>4 DEF NotAccepted, Unacceptable
  <2>2. CASE ~Stable(c) /\ Fail(c, {})
    BY <1>0, <1>4, <2>2 DEF NotAccepted, Fail, Return, Returns
  <2>3. CASE Fail(c, {reply[c].id})
    BY <1>4, <2>3, FailureGivesBack DEF NotAccepted
  <2> QED BY <2>1, <2>2, <2>3
<1>5. CASE Accept(c)
  <2>1. reply[c].id # 0
    BY <1>5 DEF Accept, Knows, Id
  <2> QED BY <1>5, <2>1 DEF Accept, Ask, Proves, Posted
<1>6. CASE Finalize(c)
  <2>1. PICK i \in held[c] : /\ Ask(c, seen[c], "finalize", i, 0, TRUE)
                             /\ agreed' = agreed \cup {[id |-> i, c |-> c]}
    BY <1>6 DEF Finalize
  <2>2. i # 0 /\ held[c] = {i}
    BY <1>6 DEF Finalize, Knows, Id
  <2>3. held' = [held EXCEPT ![c] = {i}]
    BY <1>6, <2>2 DEF Finalize, Typed, ClientTypes, ServerTypes
  <2> QED BY <1>6, <2>1, <2>2, <2>3 DEF Finalize, Ask, Finalizes, Posted
<1>7. CASE Succeed(c)
  <2>1. PICK i \in Id : held[c] = {i}
    BY <1>7 DEF Succeed, Knows
  <2>2. {[id |-> j, server |-> ServerForClient] : j \in held[c]} # {}
    BY <2>1
  <2> QED BY <1>7, <2>2 DEF Succeed, Return, Returns
<1>8. CASE StepFailed(c)
  BY <1>8, FailureGivesBack DEF StepFailed, NotFinalized, NotExchanged
<1>9. CASE Abandoned(c)
  BY <1>0, <1>9 DEF Abandoned, Return, Returns
<1> QED BY <1>2, <1>3, <1>4, <1>5, <1>6, <1>7, <1>8, <1>9 DEF ClientStep

-----------------------------------------------------------------------------
(* What the steps of the server come to. *)

\* The request q is answered, with nothing of the attempt in what refuses it early.
Served(q) ==
  \E status \in {"Ok", "Refused"}, i \in Nat, token \in Nat :
    /\ Respond(q, status, i, token)
    /\ q.op = "request" => status = "Refused" /\ i = 0
    /\ q.op = "finalize" /\ q.ok => status = "Refused"
    /\ i # 0 => i = q.id

\* What handlers leave alone.
ClientQuiet == UNCHANGED <<Client, leaf, store, openings, faults, agreed, now>>

\* A handler answers, or leaves the answer to a later step.
LEMMA HandlerSteps ==
  ASSUME Typed, NEW q \in requests, Handle(q)
  PROVE  /\ ClientQuiet /\ requests' = requests \ {q}
         /\ \/ Served(q) /\ UNCHANGED handlers
            \/ AcceptRequest(q)
            \/ FinalizePairing(q)
<1>1. ClientQuiet /\ requests' = requests \ {q}
  BY DEF Handle, TurnAway, RefuseRequest, AcceptRequest, Unauthorized, RefuseProof, VerifyClient,
         FinalizeNothing, FinalizePairing, Receive, bounds, ClientQuiet
<1> SUFFICES (Served(q) /\ UNCHANGED handlers) \/ AcceptRequest(q) \/ FinalizePairing(q)
  BY <1>1
<1>2. CASE TurnAway(q) \/ RefuseRequest(q)
  BY <1>2 DEF TurnAway, RefuseRequest, Refuse, Served, handlers
<1>3. CASE Unauthorized(q) \/ RefuseProof(q)
  BY <1>3 DEF Unauthorized, RefuseProof, Refuse, Served, handlers
<1>4. ASSUME NEW a \in Authenticated(q) PROVE a.id = q.id /\ a.id \in Nat /\ a.token \in Nat
  BY <1>4 DEF Authenticated, Typed, ClientTypes, ServerTypes, Attempt, Id
<1>5. CASE VerifyClient(q)
  <2>1. PICK a \in Authenticated(q) :
          /\ q.op \in {"details", "post"}
          /\ Respond(q, "Ok", a.id, a.token) \/ Respond(q, "Refused", 0, 0)
          /\ UNCHANGED handlers
    BY <1>5 DEF VerifyClient, Refuse
  <2> QED BY <1>4, <2>1 DEF Served
<1>6. CASE FinalizeNothing(q)
  <2>1. PICK a \in Authenticated(q) :
          /\ q.op = "finalize"
          /\ Respond(q, IF q.ok THEN "Refused" ELSE "Ok", a.id, 0)
          /\ UNCHANGED handlers
    BY <1>6 DEF FinalizeNothing
  <2> QED BY <1>4, <2>1 DEF Served
<1> QED BY <1>2, <1>3, <1>5, <1>6 DEF Handle

\* The machine: it answers a new client, hears from the one it has, or is done with it.
MachineHandles(q) ==
  /\ UNCHANGED <<now, sleeping>> \/ AcceptRequest(q)
  /\ \/ UNCHANGED machine
     \/ RefuseRequest(q) \/ AcceptRequest(q)
     \/ VerifyClient(q)
     \/ End /\ attempt # {}

LEMMA HandlerMeetsMachine ==
  ASSUME NEW q \in requests, Handle(q)
  PROVE  MachineHandles(q)
<1>1. CASE TurnAway(q) \/ Unauthorized(q)
  BY <1>1 DEF TurnAway, Unauthorized, MachineHandles, handlers
<1>2. CASE RefuseRequest(q) \/ AcceptRequest(q)
  BY <1>2 DEF RefuseRequest, MachineHandles, handlers
<1>3. CASE VerifyClient(q)
  BY <1>3 DEF VerifyClient, MachineHandles, handlers
<1>4. CASE RefuseProof(q) \/ FinalizeNothing(q)
  BY <1>4 DEF RefuseProof, FinalizeNothing, MachineHandles, handlers, Authenticated
<1>5. CASE FinalizePairing(q)
  BY <1>5 DEF FinalizePairing, MachineHandles, Authenticated
<1> QED BY <1>1, <1>2, <1>3, <1>4, <1>5 DEF Handle

\* What else happens to it.
LEMMA MachineSteps ==
  ASSUME Typed, Knows, [Next]_vars
  PROVE  \/ UNCHANGED <<machine, now>>
         \/ ServerRestart
         \/ Tick
         \/ \E q \in requests : Handle(q) /\ MachineHandles(q)
<1>1. CASE OpenForPairing \/ ClosePairing \/ UNCHANGED vars
  BY <1>1 DEF OpenForPairing, ClosePairing, vars
<1>2. ASSUME NEW c \in Clients, ClientStep(c) PROVE UNCHANGED <<machine, now>>
  BY <1>2, ClientSteps DEF ServerQuiet
<1>3. ASSUME NEW c \in Clients, GiveUp(c) \/ Crash(c) PROVE UNCHANGED <<machine, now>>
  BY <1>3 DEF GiveUp, Crash
<1>4. ASSUME NEW q \in requests, Handle(q) PROVE MachineHandles(q)
  BY <1>4, HandlerMeetsMachine
<1>5. ASSUME NEW s \in sleeping, Remember(s) PROVE UNCHANGED <<machine, now>>
  BY <1>5 DEF Remember
<1>6. ASSUME NEW h \in finishing, Settle(h) \/ AnswerFinalized(h) PROVE UNCHANGED <<machine, now>>
  BY <1>6 DEF Settle, AnswerFinalized
<1> QED BY <1>1, <1>2, <1>3, <1>4, <1>5, <1>6 DEF Next

\* What becomes of the handlers of finalizePairing.
LEMMA FinishingSteps ==
  ASSUME Typed, Knows, [Next]_vars
  PROVE  \/ finishing' = finishing
         \/ finishing' = {}
         \/ \E c \in Clients : finishing' = Orphaned(finishing, c) /\ UNCHANGED <<machine, now>>
         \/ \E q \in requests : FinalizePairing(q)
         \/ \E h \in finishing : /\ AnswerFinalized(h) \/ Settle(h)
                                 /\ UNCHANGED <<machine, now>>
<1>1. CASE OpenForPairing \/ ClosePairing \/ UNCHANGED vars \/ ServerRestart \/ Tick
  BY <1>1 DEF OpenForPairing, ClosePairing, vars, ServerRestart, Tick, handlers
<1>2. ASSUME NEW c \in Clients, ClientStep(c) PROVE finishing' = finishing
  BY <1>2, ClientSteps DEF ServerQuiet, handlers
<1>3. ASSUME NEW c \in Clients, GiveUp(c) \/ Crash(c)
      PROVE  finishing' = Orphaned(finishing, c) /\ UNCHANGED <<machine, now>>
  BY <1>3 DEF GiveUp, Crash, Leave
<1>4. ASSUME NEW q \in requests, Handle(q) PROVE finishing' = finishing \/ FinalizePairing(q)
  BY <1>4, HandlerSteps DEF AcceptRequest, handlers
<1>5. ASSUME NEW s \in sleeping, Remember(s) PROVE finishing' = finishing
  BY <1>5 DEF Remember
<1>6. ASSUME NEW h \in finishing, Settle(h) \/ AnswerFinalized(h) PROVE UNCHANGED <<machine, now>>
  BY <1>6 DEF Settle, AnswerFinalized
<1> QED BY <1>1, <1>2, <1>3, <1>4, <1>5, <1>6 DEF Next

\* A client that leaves is not waited for; nothing else changes about what it asked.
Left(x, y, c) == (x = y /\ (x.c # c \/ ~x.live)) \/ (x = [y EXCEPT !.live = FALSE] /\ x.c = c)
LEMMA Leaving ==
  ASSUME NEW c \in Clients, NEW S, S \subseteq Request \/ S \subseteq Sleeper \/ S \subseteq Finisher,
         NEW T \in {Orphaned(S, c), Without(S, c)}
  PROVE  \A x \in T : \E y \in S : Left(x, y, c)
<1>1. CASE T = Without(S, c)
  BY <1>1 DEF Without, Left
<1>2. CASE T = Orphaned(S, c)
  <2>1. SUFFICES ASSUME NEW y \in S
                 PROVE  Left(IF y.c = c THEN [y EXCEPT !.live = FALSE] ELSE y, y, c)
    BY <1>2 DEF Orphaned
  <2>2. [y EXCEPT !.live = FALSE].c = y.c
    BY DEF Request, Sleeper, Finisher
  <2> QED BY <2>2 DEF Left
<1> QED BY <1>1, <1>2

\* So the rest of a request, of a handler that sleeps and of one that finalizes is kept.
LEMMA LeftRequest ==
  ASSUME NEW x, NEW y \in Request, NEW c, Left(x, y, c)
  PROVE  /\ x \in Request /\ x.c = y.c /\ x.op = y.op /\ x.id = y.id /\ x.ok = y.ok
         /\ (x.live => x = y) /\ (x.c = c => ~x.live)
BY DEF Left, Request
LEMMA LeftSleeper ==
  ASSUME NEW x, NEW y \in Sleeper, NEW c, Left(x, y, c)
  PROVE  /\ x \in Sleeper /\ x.c = y.c /\ x.id = y.id /\ x.at = y.at
         /\ (x.live => x = y) /\ (x.c = c => ~x.live)
BY DEF Left, Sleeper
LEMMA LeftFinisher ==
  ASSUME NEW x, NEW y \in Finisher, NEW c, Left(x, y, c)
  PROVE  /\ x \in Finisher /\ x.c = y.c /\ x.id = y.id /\ x.token = y.token /\ x.stage = y.stage
         /\ (x.live => x = y) /\ (x.c = c => ~x.live)
BY DEF Left, Finisher

\* The other way round, what finalizes goes on.
LEMMA OrphansRemain ==
  ASSUME NEW c \in Clients, finishing \subseteq Finisher, NEW h \in finishing
  PROVE  \E g \in Orphaned(finishing, c) : g.id = h.id /\ g.c = h.c
<1> DEFINE g == IF h.c = c THEN [h EXCEPT !.live = FALSE] ELSE h
<1>1. g \in Orphaned(finishing, c)
  BY DEF Orphaned
<1>2. g.id = h.id /\ g.c = h.c
  BY DEF Finisher
<1> QED BY <1>1, <1>2

\* An attempt whose client proved itself is the same attempt.
LEMMA VerificationChanges ==
  ASSUME attempt \subseteq Attempt, NEW q, VerifyClient(q)
  PROVE  \E a \in attempt, b \in Attempt :
           /\ a.id = q.id /\ attempt' = {b}
           /\ b.id = a.id /\ b.c = a.c /\ b.token = a.token /\ b.started = a.started
<1> DEFINE Same(a, b) ==
      b \in Attempt /\ b.id = a.id /\ b.c = a.c /\ b.token = a.token /\ b.started = a.started
<1>1. PICK a \in attempt :
        /\ a.id = q.id
        /\ \/ attempt' = {[a EXCEPT !.verified = TRUE, !.details = TRUE]}
           \/ attempt' = {[a EXCEPT !.verified = TRUE]}
  BY DEF VerifyClient, Authenticated
<1>2. Same(a, [a EXCEPT !.verified = TRUE])
  BY DEF Attempt
<1>3. Same(a, [a EXCEPT !.verified = TRUE, !.details = TRUE])
  <2>1. Same([a EXCEPT !.verified = TRUE], [[a EXCEPT !.verified = TRUE] EXCEPT !.details = TRUE])
    BY <1>2 DEF Attempt
  <2> QED BY <1>2, <2>1
<1>4. \E b \in Attempt : attempt' = {b} /\ Same(a, b)
  BY <1>1, <1>2, <1>3
<1> QED BY <1>1, <1>4

\* A handler of finalizePairing moves on to another stage.
LEMMA StageChanges ==
  ASSUME NEW h \in Finisher, NEW stage \in {"Store", "Unpair", "Answer"}
  PROVE  /\ [h EXCEPT !.stage = stage] \in Finisher
         /\ [h EXCEPT !.stage = stage].stage = stage
         /\ [h EXCEPT !.stage = stage].id = h.id /\ [h EXCEPT !.stage = stage].c = h.c
         /\ [h EXCEPT !.stage = stage].token = h.token /\ [h EXCEPT !.stage = stage].live = h.live
BY DEF Finisher

-----------------------------------------------------------------------------
(* Every variable has its type. *)

\* What of it concerns the clients and the wire, and what the server.
LEMMA PostedIsTyped ==
  ASSUME Typed, NEW c \in Clients, NEW op \in {"request", "details", "post", "finalize"}, NEW i \in Nat,
         NEW token \in Nat, NEW ok \in BOOLEAN, NEW at \in Phases, Posted(c, op, i, token, ok, at)
  PROVE  /\ phase' \in [Clients -> Phases] /\ held' \in [Clients -> SUBSET Nat]
         /\ reply' \in [Clients -> [status : {"None", "Ok", "Refused"}, id : Nat, token : Nat]]
         /\ requests' \subseteq Request /\ stored' = stored
<1>1. NoReply \in [status : {"None", "Ok", "Refused"}, id : Nat, token : Nat]
  BY DEF NoReply
<1>2. reply' \in [Clients -> [status : {"None", "Ok", "Refused"}, id : Nat, token : Nat]]
  BY <1>1 DEF Posted, Typed, ClientTypes, ServerTypes
<1>3. requests' \subseteq Request
  <2>1. [c |-> c, op |-> op, id |-> i, token |-> token, ok |-> ok, live |-> TRUE] \in Request
    BY DEF Request
  <2> QED BY <2>1 DEF Posted, Typed, ClientTypes, ServerTypes
<1>4. phase' \in [Clients -> Phases] /\ held' \in [Clients -> SUBSET Nat] /\ stored' = stored
  BY DEF Posted, Typed, ClientTypes, ServerTypes
<1> QED BY <1>2, <1>3, <1>4

LEMMA ClientStepIsTyped ==
  ASSUME Typed, Knows, NEW c \in Clients, ClientStep(c)
  PROVE  /\ phase' \in [Clients -> Phases] /\ held' \in [Clients -> SUBSET Nat]
         /\ reply' \in [Clients -> [status : {"None", "Ok", "Refused"}, id : Nat, token : Nat]]
         /\ requests' \subseteq Request
         /\ stored' \in [Clients -> SUBSET [id : Nat, server : {"Cem", "Rm"}]]
         /\ agreed' \subseteq [id : Nat, c : Clients]
<1>1. /\ reply[c].id \in Nat /\ code[c] \in Nat /\ held[c] \subseteq Nat
      /\ stored \in [Clients -> SUBSET [id : Nat, server : {"Cem", "Rm"}]]
      /\ agreed \subseteq [id : Nat, c : Clients]
  BY DEF Typed, ClientTypes
<1>2. CASE Starts(c)
  <2>1. PICK ok \in BOOLEAN : Posted(c, "request", 0, 0, ok, "AwaitingAcceptance") /\ agreed' = agreed
    BY <1>2 DEF Starts
  <2> QED BY <1>1, <2>1, PostedIsTyped DEF Phases
<1>3. CASE Proves(c)
  BY <1>1, <1>3, PostedIsTyped DEF Proves, Phases
<1>4. CASE Finalizes(c)
  <2>1. PICK i \in held[c] : /\ Posted(c, "finalize", i, 0, TRUE, "Paired")
                             /\ agreed' = agreed \cup {[id |-> i, c |-> c]}
    BY <1>4 DEF Finalizes
  <2>2. agreed' \subseteq [id : Nat, c : Clients]
    BY <1>1, <2>1
  <2> QED BY <1>1, <2>1, <2>2, PostedIsTyped DEF Phases
<1>5. CASE GivesBack(c)
  <2>1. PICK i \in Id : Posted(c, "finalize", i, 0, FALSE, "Abandoning") /\ agreed' = agreed
    BY <1>5 DEF GivesBack
  <2> QED BY <1>1, <2>1, PostedIsTyped DEF Phases, Id
<1>6. CASE Returns(c)
  <2>1. NoReply \in [status : {"None", "Ok", "Refused"}, id : Nat, token : Nat]
    BY DEF NoReply
  <2>2. reply' \in [Clients -> [status : {"None", "Ok", "Refused"}, id : Nat, token : Nat]]
    BY <1>6, <2>1 DEF Returns, Typed, ClientTypes
  <2>3. ServerForClient \in {"Cem", "Rm"}
    BY DEF ServerForClient, ServerFor, CommunicationServer
  <2>4. {[id |-> i, server |-> ServerForClient] : i \in held[c]}
          \in SUBSET [id : Nat, server : {"Cem", "Rm"}]
    BY <1>1, <2>3
  <2>5. stored' \in [Clients -> SUBSET [id : Nat, server : {"Cem", "Rm"}]]
    BY <1>1, <1>6, <2>4 DEF Returns
  <2>6. phase' \in [Clients -> Phases] /\ held' \in [Clients -> SUBSET Nat]
    BY <1>6 DEF Returns, Typed, ClientTypes, Phases
  <2> QED BY <1>6, <2>2, <2>5, <2>6 DEF Returns, Typed, ClientTypes
<1> QED BY <1>2, <1>3, <1>4, <1>5, <1>6, ClientSteps

\* An answer of the server's.
LEMMA ResponseIsTyped ==
  ASSUME Typed, NEW q, NEW status \in {"None", "Ok", "Refused"}, NEW i \in Nat, NEW token \in Nat,
         Respond(q, status, i, token)
  PROVE  reply' \in [Clients -> [status : {"None", "Ok", "Refused"}, id : Nat, token : Nat]]
<1>1. [status |-> status, id |-> i, token |-> token]
        \in [status : {"None", "Ok", "Refused"}, id : Nat, token : Nat]
  OBVIOUS
<1> QED BY <1>1 DEF Respond, Typed, ClientTypes

LEMMA CodeIsTyped ==
  ASSUME Typed, [Next]_vars
  PROVE  code' \in [Clients -> Nat]
<1>1. code \in [Clients -> Nat] /\ openings \in Nat
  BY DEF Typed, ClientTypes, ServerTypes
<1>2. ASSUME NEW c \in Clients, ClientStep(c) PROVE code' \in [Clients -> Nat]
  <2>1. CASE code' = code \/ code' = [code EXCEPT ![c] = 0]
    BY <1>1, <2>1
  <2>2. CASE Start(c)
    <3>1. PICK input \in Inputs : code' = [code EXCEPT ![c] = input.token]
      BY <2>2 DEF Start
    <3>2. input.token \in Nat
      <4> DEFINE given == IF Posts THEN BOOLEAN ELSE {FALSE}
      <4>1. \/ input \in [token : 0 .. openings, own : given, fits : {TRUE}]
            \/ input \in [token : {0}, own : {FALSE}, fits : {FALSE}]
        BY DEF Inputs
      <4> HIDE DEF given
      <4>2. input.token \in 0 .. openings \/ input.token \in {0}
        BY <4>1
      <4> QED BY <1>1, <4>2
    <3> QED BY <1>1, <3>1, <3>2
  <2>3. CASE NotAccepted(c) \/ StepFailed(c)
    <3>1. \E known : Fail(c, known)
      BY <2>3 DEF NotAccepted, Unacceptable, StepFailed, NotFinalized, NotExchanged
    <3> QED BY <2>1, <3>1 DEF Fail, Return
  <2>4. CASE Refused(c) \/ Succeed(c) \/ Abandoned(c)
    BY <2>1, <2>4 DEF Refused, Succeed, Abandoned, Return
  <2>5. CASE Accept(c) \/ Finalize(c)
    BY <2>1, <2>5 DEF Accept, Finalize
  <2> QED BY <1>2, <2>2, <2>3, <2>4, <2>5 DEF ClientStep
<1>3. ASSUME NEW c \in Clients, Crash(c) PROVE code' \in [Clients -> Nat]
  BY <1>1, <1>3 DEF Crash
<1>4. CASE OpenForPairing \/ ClosePairing \/ UNCHANGED vars \/ ServerRestart \/ Tick
  BY <1>1, <1>4 DEF OpenForPairing, ClosePairing, vars, ServerRestart, Tick, client, Client
<1>5. ASSUME NEW c \in Clients, GiveUp(c) PROVE code' = code
  BY <1>5 DEF GiveUp, Client
<1>6. ASSUME NEW q \in requests, Handle(q) PROVE code' = code
  BY <1>6, HandlerSteps DEF ClientQuiet, Client
<1>7. ASSUME NEW s \in sleeping, Remember(s) PROVE code' = code
  BY <1>7 DEF Remember, Client
<1>8. ASSUME NEW h \in finishing, Settle(h) \/ AnswerFinalized(h) PROVE code' = code
  BY <1>8 DEF Settle, AnswerFinalized, Client
<1> QED BY <1>1, <1>2, <1>3, <1>4, <1>5, <1>6, <1>7, <1>8 DEF Next

LEMMA HandlerIsTyped ==
  ASSUME Typed, NEW q \in requests, Handle(q)
  PROVE  /\ reply' \in [Clients -> [status : {"None", "Ok", "Refused"}, id : Nat, token : Nat]]
         /\ attempt' \subseteq Attempt
         /\ finished' \subseteq Nat /\ answered' \subseteq Nat /\ answers' \in Nat
         /\ router' \subseteq router
         /\ sleeping' \subseteq Sleeper /\ finishing' \subseteq Finisher
<1>1. /\ q.id \in Nat /\ q.c \in Clients /\ q.live \in BOOLEAN
      /\ now \in Nat /\ opening \in Nat /\ answers + 1 \in Id /\ answers \in Nat
      /\ finished \subseteq Nat /\ answered \subseteq Nat
      /\ sleeping \subseteq Sleeper /\ finishing \subseteq Finisher
      /\ reply \in [Clients -> [status : {"None", "Ok", "Refused"}, id : Nat, token : Nat]]
  BY DEF Typed, ClientTypes, ServerTypes, Request, Id
<1>2. attempt \subseteq Attempt
  BY DEF Typed, ServerTypes
<1>3. router' \subseteq router
  BY DEF Handle, TurnAway, RefuseRequest, AcceptRequest, Unauthorized, RefuseProof, VerifyClient,
         FinalizeNothing, FinalizePairing, Forget
<1>4. reply' \in [Clients -> [status : {"None", "Ok", "Refused"}, id : Nat, token : Nat]]
  <2>1. Served(q) \/ reply' = reply
    BY HandlerSteps DEF AcceptRequest, FinalizePairing
  <2>2. CASE Served(q)
    <3>1. PICK status \in {"Ok", "Refused"}, i \in Nat, token \in Nat : Respond(q, status, i, token)
      BY <2>2 DEF Served
    <3> QED BY <3>1, ResponseIsTyped
  <2> QED BY <1>1, <2>1, <2>2
<1>5. sleeping' \subseteq Sleeper
  <2>1. CASE AcceptRequest(q)
    <3>1. [id |-> answers + 1, c |-> q.c, token |-> opening, at |-> now, live |-> q.live] \in Sleeper
      BY <1>1 DEF Sleeper
    <3> QED BY <1>1, <2>1, <3>1 DEF AcceptRequest
  <2>2. CASE sleeping' = sleeping
    BY <1>1, <2>2
  <2> QED BY <2>1, <2>2, HandlerSteps DEF FinalizePairing, handlers
<1>6. finishing' \subseteq Finisher
  <2>1. CASE FinalizePairing(q)
    <3>1. PICK a \in attempt : finishing' = finishing \cup
            {[id |-> a.id, c |-> a.c, token |-> a.token, live |-> q.live, stage |-> "Store"]}
      BY <2>1 DEF FinalizePairing, Authenticated
    <3>2. [id |-> a.id, c |-> a.c, token |-> a.token, live |-> q.live, stage |-> "Store"] \in Finisher
      BY <1>1, <1>2 DEF Finisher, Attempt
    <3> QED BY <1>1, <3>1, <3>2
  <2>2. CASE finishing' = finishing
    BY <1>1, <2>2
  <2> QED BY <2>1, <2>2, HandlerSteps DEF AcceptRequest, handlers
<1>7. MachineHandles(q)
  BY HandlerMeetsMachine
<1>8. finished' \subseteq Nat /\ answered' \subseteq Nat /\ answers' \in Nat
  <2>1. CASE RefuseRequest(q) \/ AcceptRequest(q)
    BY <1>1, <2>1 DEF RefuseRequest, AcceptRequest, Answered, Id
  <2>2. CASE VerifyClient(q) \/ UNCHANGED machine
    BY <1>1, <2>2 DEF VerifyClient, machine
  <2>3. CASE End
    BY <1>1, <2>3 DEF End
  <2> QED BY <1>7, <2>1, <2>2, <2>3 DEF MachineHandles
<1>9. attempt' \subseteq Attempt
  <2>1. CASE AcceptRequest(q)
    BY <1>1, <2>1 DEF AcceptRequest, Attempt
  <2>2. CASE VerifyClient(q)
    BY <1>2, <2>2, VerificationChanges
  <2> QED BY <1>2, <1>7, <2>1, <2>2 DEF MachineHandles, machine, RefuseRequest, End
<1> QED BY <1>3, <1>4, <1>5, <1>6, <1>8, <1>9

LEMMA StoreIsTyped ==
  ASSUME Typed, NEW h \in finishing, Settle(h) \/ AnswerFinalized(h)
  PROVE  /\ finishing' \subseteq Finisher /\ opening' \in Nat /\ router' \subseteq router
         /\ made' \subseteq [id : Id, c : Clients, token : Nat, server : {"Cem", "Rm"}]
<1>1. /\ finishing \subseteq Finisher /\ h \in Finisher /\ opening \in Nat
      /\ made \subseteq [id : Id, c : Clients, token : Nat, server : {"Cem", "Rm"}]
  BY DEF Typed, ServerTypes
<1>2. CASE AnswerFinalized(h)
  BY <1>1, <1>2 DEF AnswerFinalized, ForgetFinalized, Forget, store
<1>3. CASE Settle(h)
  <2>1. \E stage \in {"Store", "Unpair", "Answer"} :
          finishing' = (finishing \ {h}) \cup {[h EXCEPT !.stage = stage]}
    BY <1>3 DEF Settle, StorePairing, UnpairPrevious, Proceed
  <2>2. finishing' \subseteq Finisher
    BY <1>1, <2>1, StageChanges
  <2>3. ServerFor(home) \in {"Cem", "Rm"}
    BY DEF ServerFor, CommunicationServer
  <2>4. [id |-> h.id, c |-> h.c, token |-> h.token, server |-> ServerFor(home)]
          \in [id : Id, c : Clients, token : Nat, server : {"Cem", "Rm"}]
    BY <1>1, <2>3 DEF Finisher
  <2>5. /\ opening' \in Nat
        /\ made' \subseteq [id : Id, c : Clients, token : Nat, server : {"Cem", "Rm"}]
    BY <1>1, <1>3, <2>4 DEF Settle, StorePairing, UnpairPrevious
  <2> QED BY <1>3, <2>2, <2>5 DEF Settle
<1> QED BY <1>2, <1>3

LEMMA LeavingIsTyped ==
  ASSUME Typed, NEW c \in Clients, Leave(c)
  PROVE  requests' \subseteq Request /\ sleeping' \subseteq Sleeper /\ finishing' \subseteq Finisher
<1>1. requests \subseteq Request /\ sleeping \subseteq Sleeper /\ finishing \subseteq Finisher
  BY DEF Typed, ClientTypes, ServerTypes
<1>2. /\ \A x \in requests' : \E y \in requests : Left(x, y, c)
      /\ \A x \in sleeping' : \E y \in sleeping : Left(x, y, c)
      /\ \A x \in finishing' : \E y \in finishing : Left(x, y, c)
  BY <1>1, Leaving DEF Leave
<1> QED BY <1>1, <1>2, LeftRequest, LeftSleeper, LeftFinisher

LEMMA StepIsTyped ==
  ASSUME Typed, Knows, [Next]_vars
  PROVE  Typed'
<1>1. code' \in [Clients -> Nat]
  BY CodeIsTyped
<1>2. ASSUME NEW c \in Clients, ClientStep(c) PROVE Typed'
  BY <1>1, <1>2, ClientStepIsTyped, ClientSteps
  DEF ServerQuiet, machine, handlers, store, Typed, ClientTypes, ServerTypes
<1>3. ASSUME NEW q \in requests, Handle(q) PROVE Typed'
  <2>1. ClientQuiet /\ requests' \subseteq requests
    BY <1>3, HandlerSteps
  <2> QED BY <1>1, <1>3, <2>1, HandlerIsTyped DEF ClientQuiet, Client, store, Typed, ClientTypes, ServerTypes
<1>4. ASSUME NEW h \in finishing, Settle(h) \/ AnswerFinalized(h) PROVE Typed'
  <2>1. h.id \in Nat
    BY DEF Typed, ServerTypes, Finisher, Id
  <2>2. reply' \in [Clients -> [status : {"None", "Ok", "Refused"}, id : Nat, token : Nat]]
    BY <1>4, <2>1, ResponseIsTyped DEF Settle, AnswerFinalized, wire, Typed, ClientTypes
  <2> QED BY <1>1, <1>4, <2>2, StoreIsTyped
          DEF Settle, AnswerFinalized, Client, wire, machine, bounds, Typed, ClientTypes, ServerTypes
<1>5. ASSUME NEW s \in sleeping, Remember(s) PROVE Typed'
  <2>1. s.id \in Id /\ s.at \in Nat /\ s.token \in Nat /\ s.id \in Nat /\ Budget \in Nat
    BY PairingAssumption DEF Typed, ServerTypes, Sleeper, Id
  <2>2. reply' \in [Clients -> [status : {"None", "Ok", "Refused"}, id : Nat, token : Nat]]
    BY <1>5, <2>1, ResponseIsTyped DEF Remember
  <2>3. router' \subseteq [id : Id, expires : Nat]
    BY <1>5, <2>1 DEF Remember, Typed, ServerTypes
  <2> QED BY <1>1, <1>5, <2>2, <2>3
          DEF Remember, Client, store, machine, bounds, Typed, ClientTypes, ServerTypes
<1>6. ASSUME NEW c \in Clients, GiveUp(c) \/ Crash(c) PROVE Typed'
  <2>1. /\ NoReply \in [status : {"None", "Ok", "Refused"}, id : Nat, token : Nat]
        /\ [NoReply EXCEPT !.status = "Refused"] \in [status : {"None", "Ok", "Refused"}, id : Nat, token : Nat]
    BY DEF NoReply
  <2>2. reply' \in [Clients -> [status : {"None", "Ok", "Refused"}, id : Nat, token : Nat]]
    BY <1>6, <2>1 DEF GiveUp, Crash, Typed, ClientTypes
  <2>3. /\ phase' \in [Clients -> Phases] /\ held' \in [Clients -> SUBSET Nat]
        /\ UNCHANGED <<stored, machine, router, leaf, store, openings, agreed, now>>
        /\ faults' \in Nat
    <3>1. CASE GiveUp(c)
      BY <3>1 DEF GiveUp, Fault, Client, Typed, ClientTypes, ServerTypes
    <3>2. CASE Crash(c)
      <4>1. phase' = [phase EXCEPT ![c] = "Idle"] /\ held' = [held EXCEPT ![c] = {}]
        BY <3>2 DEF Crash
      <4>2. phase' \in [Clients -> Phases] /\ held' \in [Clients -> SUBSET Nat]
        BY <4>1 DEF Typed, ClientTypes, Phases
      <4>3. faults' \in Nat
        BY <3>2 DEF Crash, Fault, Typed, ServerTypes
      <4> QED BY <3>2, <4>2, <4>3 DEF Crash
    <3> QED BY <1>6, <3>1, <3>2
  <2> QED BY <1>1, <1>6, <2>2, <2>3, LeavingIsTyped
          DEF GiveUp, Crash, store, machine, Typed, ClientTypes, ServerTypes
<1>7. CASE OpenForPairing \/ ClosePairing \/ UNCHANGED vars
  <2>1. UNCHANGED <<phase, held, reply, requests, stored, agreed, attempt, finished, answered, router,
                    sleeping, finishing, made, answers, faults, now>>
    BY <1>7 DEF OpenForPairing, ClosePairing, vars, client, wire, machine, handlers, store, bounds
  <2>2. opening' \in Nat /\ openings' \in Nat
    BY <1>7 DEF OpenForPairing, ClosePairing, vars, store, bounds, Typed, ServerTypes
  <2> QED BY <1>1, <2>1, <2>2 DEF Typed, ClientTypes, ServerTypes
<1>8. CASE ServerRestart
  BY <1>1, <1>8 DEF ServerRestart, Fault, Client, store, Typed, ClientTypes, ServerTypes
<1>9. CASE Tick
  <2>1. UNCHANGED <<phase, held, reply, requests, stored, agreed, attempt, finished, router, sleeping,
                    finishing, made, answers, opening, openings, faults>>
    BY <1>9 DEF Tick, client, wire, handlers, store, bounds
  <2>2. now' \in Nat /\ answered' \subseteq Nat
    <3>1. now' = now + 1 /\ answered' \subseteq answered
      BY <1>9 DEF Tick
    <3> QED BY <3>1 DEF Typed, ServerTypes
  <2> QED BY <1>1, <2>1, <2>2 DEF Typed, ClientTypes, ServerTypes
<1> QED BY <1>2, <1>3, <1>4, <1>5, <1>6, <1>7, <1>8, <1>9 DEF Next

-----------------------------------------------------------------------------
(* The machine: a second between answers, and one attempt at a time. *)

\* Nothing takes longer than the mandatory delay, but the budget of an attempt.
LEMMA Times ==
  /\ Budget \in Nat /\ Delay \in Nat /\ 0 < Delay /\ Delay < Budget
BY PairingAssumption

\* An answer given less than a second ago keeps the machine busy.
LEMMA RecentMeansBusy ==
  ASSUME Typed, RecentlyAnswered, ~Busy
  PROVE  answered = {}
<1> SUFFICES ASSUME NEW t \in answered PROVE FALSE
  OBVIOUS
<1>1. now \in Nat /\ t \in Nat /\ finished \subseteq Nat
  BY DEF Typed, ServerTypes
<1>2. CASE \E a \in attempt : a.started = t
  BY <1>1, <1>2, Times DEF RecentlyAnswered, Busy
<1>3. CASE \E u \in finished : t <= u /\ u <= now
  BY <1>1, <1>3, Times DEF RecentlyAnswered, Busy
<1> QED BY <1>2, <1>3 DEF RecentlyAnswered

LEMMA StepIsSpaced ==
  ASSUME Typed, Knows, OneAttempt, RecentlyAnswered, [Next]_vars
  PROVE  RecentlyAnswered' /\ (answers' > answers => answered = {})
<1>1. /\ now \in Nat /\ answers \in Nat /\ finished \subseteq Nat /\ answered \subseteq Nat
      /\ attempt \subseteq Attempt
  BY DEF Typed, ServerTypes
<1>2. CASE UNCHANGED <<machine, now>>
  BY <1>1, <1>2 DEF machine, RecentlyAnswered
<1>3. CASE ServerRestart
  BY <1>1, <1>3 DEF ServerRestart, RecentlyAnswered
<1>4. CASE Tick
  <2>1. now' = now + 1 /\ answers' = answers /\ attempt' = attempt /\ finished' = finished
    BY <1>4 DEF Tick
  <2>2. \A t \in answered' : t \in answered /\ now' - t < Delay
    BY <1>4 DEF Tick
  <2>3. ASSUME NEW t \in answered'
        PROVE  /\ t <= now' /\ now' - t < Delay
               /\ \/ \E a \in attempt' : a.started = t
                  \/ \E u \in finished' : t <= u /\ u <= now'
    <3>1. t \in Nat /\ t <= now
      BY <1>1, <2>2 DEF RecentlyAnswered
    <3>2. \A u \in finished : u <= now => u <= now'
      BY <1>1, <2>1
    <3> QED BY <1>1, <2>1, <2>2, <3>1, <3>2 DEF RecentlyAnswered
  <2> QED BY <1>1, <2>1, <2>3 DEF RecentlyAnswered
<1>5. ASSUME NEW q \in requests, MachineHandles(q)
      PROVE  RecentlyAnswered' /\ (answers' > answers => answered = {})
  <2>1. CASE UNCHANGED machine
    BY <1>2, <1>5, <2>1 DEF MachineHandles, AcceptRequest
  <2>2. CASE RefuseRequest(q)
    <3>1. now' = now /\ answered' = {now} /\ finished' = {now} /\ ~Busy
      BY <2>2 DEF RefuseRequest, Answered
    <3> QED BY <1>1, <3>1, Times, RecentMeansBusy DEF RecentlyAnswered
  <2>3. CASE AcceptRequest(q)
    <3>1. /\ now' = now /\ answered' = {now} /\ ~Busy
          /\ \E a \in attempt' : a.started = now
      BY <2>3 DEF AcceptRequest, Answered
    <3> QED BY <1>1, <3>1, Times, RecentMeansBusy DEF RecentlyAnswered
  <2>4. CASE VerifyClient(q)
    <3>1. UNCHANGED <<now, answered, answers, finished>>
      BY <2>4 DEF VerifyClient
    <3>2. PICK a \in attempt, b \in Attempt : attempt' = {b} /\ b.started = a.started
      BY <1>1, <2>4, VerificationChanges
    <3>3. \A t : (\E c \in attempt : c.started = t) => b.started = t
      BY <3>2 DEF OneAttempt
    <3> QED BY <1>1, <3>1, <3>2, <3>3 DEF RecentlyAnswered
  <2>5. CASE End
    BY <1>1, <1>5, <2>5 DEF MachineHandles, AcceptRequest, End, RecentlyAnswered
  <2> QED BY <1>5, <2>1, <2>2, <2>3, <2>4, <2>5 DEF MachineHandles
<1> QED BY <1>2, <1>3, <1>4, <1>5, MachineSteps

\* While one is finalized the machine rests.
LEMMA FinalizingRests ==
  ASSUME Typed, Knows, OneAttempt, [Next]_vars, finishing # {}
  PROVE  UNCHANGED <<machine, now>> \/ finishing' = {}
<1>1. now \in finished /\ now \in Nat /\ attempt = {}
  BY DEF OneAttempt, Typed, ServerTypes
<1>2. Busy
  BY <1>1, Times DEF Busy
<1>3. CASE ServerRestart \/ Tick
  BY <1>3 DEF ServerRestart, Tick
<1>4. ASSUME NEW q \in requests, MachineHandles(q) PROVE UNCHANGED <<machine, now>>
  <2>1. ~RefuseRequest(q) /\ ~AcceptRequest(q)
    BY <1>2 DEF RefuseRequest, AcceptRequest
  <2>2. ~VerifyClient(q)
    BY <1>1 DEF VerifyClient, Authenticated
  <2> QED BY <1>1, <1>4, <2>1, <2>2 DEF MachineHandles
<1> QED BY <1>3, <1>4, MachineSteps

LEMMA StepKeepsOneAttempt ==
  ASSUME Typed, Knows, OneAttempt, [Next]_vars
  PROVE  OneAttempt'
<1>1. finishing \subseteq Finisher /\ attempt \subseteq Attempt
  BY DEF Typed, ServerTypes
<1>2. (\A a, b \in attempt : a = b)'
  <2>1. CASE UNCHANGED <<machine, now>>
    BY <2>1 DEF machine, OneAttempt
  <2>2. CASE ServerRestart \/ Tick
    BY <2>2 DEF ServerRestart, Tick, OneAttempt
  <2>3. ASSUME NEW q \in requests, MachineHandles(q) PROVE (\A a, b \in attempt : a = b)'
    <3>1. CASE UNCHANGED machine
      BY <3>1 DEF machine, OneAttempt
    <3>2. CASE RefuseRequest(q) \/ AcceptRequest(q) \/ End
      BY <3>2 DEF RefuseRequest, AcceptRequest, End
    <3>3. CASE VerifyClient(q)
      BY <1>1, <3>3, VerificationChanges
    <3> QED BY <2>3, <3>1, <3>2, <3>3 DEF MachineHandles
  <2> QED BY <2>1, <2>2, <2>3, MachineSteps
<1>3. (/\ \A g, h \in finishing : g = h
       /\ finishing # {} => attempt = {} /\ now \in finished)'
  <2>1. CASE finishing' = finishing
    BY <2>1, FinalizingRests DEF OneAttempt, machine
  <2>2. CASE finishing' = {}
    BY <2>2
  <2>3. ASSUME NEW c \in Clients, finishing' = Orphaned(finishing, c), UNCHANGED <<machine, now>>
        PROVE  (/\ \A g, h \in finishing : g = h
                /\ finishing # {} => attempt = {} /\ now \in finished)'
    BY <2>3 DEF Orphaned, OneAttempt, machine
  <2>4. ASSUME NEW q \in requests, FinalizePairing(q)
        PROVE  (/\ \A g, h \in finishing : g = h
                /\ finishing # {} => attempt = {} /\ now \in finished)'
    <3>1. PICK a \in attempt : finishing' = finishing \cup
            {[id |-> a.id, c |-> a.c, token |-> a.token, live |-> q.live, stage |-> "Store"]}
      BY <2>4 DEF FinalizePairing, Authenticated
    <3>2. finishing = {}
      BY <3>1 DEF OneAttempt
    <3>3. attempt' = {} /\ now' = now /\ finished' = {now}
      BY <2>4 DEF FinalizePairing, End
    <3> QED BY <3>1, <3>2, <3>3
  <2>5. ASSUME NEW h \in finishing, AnswerFinalized(h) \/ Settle(h), UNCHANGED <<machine, now>>
        PROVE  (/\ \A g, h_1 \in finishing : g = h_1
                /\ finishing # {} => attempt = {} /\ now \in finished)'
    <3>1. finishing = {h}
      BY DEF OneAttempt
    <3>2. \E stage \in {"Store", "Unpair", "Answer"} :
            finishing' \subseteq (finishing \ {h}) \cup {[h EXCEPT !.stage = stage]}
      BY <2>5 DEF AnswerFinalized, Settle, StorePairing, UnpairPrevious, Proceed
    <3> QED BY <2>5, <3>1, <3>2 DEF OneAttempt, machine
  <2> QED BY <2>1, <2>2, <2>3, <2>4, <2>5, FinishingSteps
<1> QED BY <1>2, <1>3 DEF OneAttempt

-----------------------------------------------------------------------------
(* Whose attempt it is. *)

\* Only a request that is accepted gives a client an attempt it had nothing to do with.
NoNewClaims == \A i \in Id, c \in Clients : Claims(i, c)' => Claims(i, c)

LEMMA PostedClaims ==
  ASSUME Typed, NEW c \in Clients, NEW op, NEW i \in Nat, NEW token, NEW ok, NEW at,
         Posted(c, op, i, token, ok, at), ServerQuiet, i # 0 => Claims(i, c),
         agreed' \subseteq agreed \cup {[id |-> i, c |-> c]}
  PROVE  NoNewClaims
<1> SUFFICES ASSUME NEW j \in Id, NEW d \in Clients, Claims(j, d)' PROVE Claims(j, d)
  BY DEF NoNewClaims
<1>1. j # 0 /\ reply \in [Clients -> [status : {"None", "Ok", "Refused"}, id : Nat, token : Nat]]
      /\ held \in [Clients -> SUBSET Nat]
  BY DEF Id, Typed, ClientTypes
<1>2. UNCHANGED <<attempt, sleeping, finishing, made>>
  BY DEF ServerQuiet, machine, handlers, store
<1>3. ASSUME \E x \in requests' : x.id = j /\ x.c = d PROVE Claims(j, d)
  BY <1>1, <1>3 DEF Posted, Claims
<1>4. ASSUME \E x \in agreed' : x.id = j /\ x.c = d PROVE Claims(j, d)
  BY <1>1, <1>4 DEF Claims
<1>5. ASSUME reply'[d].id = j PROVE Claims(j, d)
  BY <1>1, <1>5 DEF Posted, NoReply, Claims
<1>6. ASSUME j \in held'[d] PROVE Claims(j, d)
  BY <1>1, <1>6 DEF Posted, Claims
<1> QED BY <1>2, <1>3, <1>4, <1>5, <1>6 DEF Claims

LEMMA ClientStepClaims ==
  ASSUME Typed, Knows, NEW c \in Clients, ClientStep(c)
  PROVE  NoNewClaims
<1>1. ServerQuiet
  BY ClientSteps
<1>2. reply[c].id \in Nat /\ held[c] \subseteq Nat
  BY DEF Typed, ClientTypes
<1>3. CASE Starts(c)
  <2>1. PICK ok \in BOOLEAN : Posted(c, "request", 0, 0, ok, "AwaitingAcceptance") /\ agreed' = agreed
    BY <1>3 DEF Starts
  <2> QED BY <1>1, <2>1, PostedClaims
<1>4. CASE Proves(c)
  <2>1. Claims(reply[c].id, c)
    BY DEF Claims
  <2> QED BY <1>1, <1>2, <1>4, <2>1, PostedClaims DEF Proves
<1>5. CASE Finalizes(c)
  <2>1. PICK i \in held[c] : /\ Posted(c, "finalize", i, 0, TRUE, "Paired")
                             /\ agreed' = agreed \cup {[id |-> i, c |-> c]}
    BY <1>5 DEF Finalizes
  <2>2. Claims(i, c)
    BY DEF Claims
  <2> QED BY <1>1, <1>2, <2>1, <2>2, PostedClaims
<1>6. CASE GivesBack(c)
  <2>1. PICK i \in Id : /\ Posted(c, "finalize", i, 0, FALSE, "Abandoning")
                        /\ agreed' = agreed /\ (reply[c].id = i \/ held[c] = {i})
    BY <1>6 DEF GivesBack
  <2>2. Claims(i, c) /\ i \in Nat
    BY <2>1 DEF Claims, Id
  <2> QED BY <1>1, <2>1, <2>2, PostedClaims
<1>7. CASE Returns(c)
  <2> SUFFICES ASSUME NEW j \in Id, NEW d \in Clients, Claims(j, d)' PROVE Claims(j, d)
    BY DEF NoNewClaims
  <2>1. UNCHANGED <<attempt, sleeping, finishing, made, requests, agreed>>
    BY <1>1, <1>7 DEF ServerQuiet, machine, handlers, store, Returns
  <2>2. (reply'[d] = reply[d] \/ reply'[d].id = 0) /\ held'[d] \subseteq held[d] /\ j # 0
    BY <1>7 DEF Returns, Typed, ClientTypes, NoReply, Id
  <2> QED BY <2>1, <2>2 DEF Claims
<1> QED BY <1>3, <1>4, <1>5, <1>6, <1>7, ClientSteps

\* An answer is about the attempt the request names.
LEMMA ServedClaims ==
  ASSUME Typed, NEW q \in requests, Served(q), ClientQuiet, UNCHANGED handlers,
         requests' = requests \ {q}, \A b \in attempt' : \E a \in attempt : a.id = b.id /\ a.c = b.c
  PROVE  NoNewClaims
<1> SUFFICES ASSUME NEW j \in Id, NEW d \in Clients, Claims(j, d)' PROVE Claims(j, d)
  BY DEF NoNewClaims
<1>1. UNCHANGED <<sleeping, finishing, made, agreed, held>>
  BY DEF handlers, ClientQuiet, Client, store
<1>2. reply'[d] = reply[d] \/ (d = q.c /\ reply'[d].id \in {0, q.id})
  BY DEF Served, Respond, Typed, ClientTypes
<1>3. j # 0
  BY DEF Id
<1> QED BY <1>1, <1>2, <1>3 DEF Claims

LEMMA AttemptIsOfRequest ==
  ASSUME Typed, Owned, NEW q \in requests, NEW a \in attempt, a.id = q.id
  PROVE  a.c = q.c
<1>1. q.c \in Clients /\ a.c \in Clients /\ a.id \in Id
  BY DEF Typed, ClientTypes, ServerTypes, Request, Attempt
<1>2. Claims(a.id, a.c) /\ Claims(a.id, q.c)
  BY DEF Claims
<1> QED BY <1>1, <1>2 DEF Owned

LEMMA HandlerClaims ==
  ASSUME Typed, NEW q \in requests, Handle(q)
  PROVE  NoNewClaims \/ AcceptRequest(q)
<1>1. CASE Served(q) /\ UNCHANGED handlers
  <2>1. MachineHandles(q)
    BY HandlerMeetsMachine
  <2>2. CASE VerifyClient(q)
    BY <1>1, <2>2, VerificationChanges, ServedClaims, HandlerSteps DEF Typed, ServerTypes
  <2>3. CASE UNCHANGED machine
    BY <1>1, <2>3, ServedClaims, HandlerSteps DEF machine
  <2>4. CASE attempt' = {}
    BY <1>1, <2>4, ServedClaims, HandlerSteps
  <2> QED BY <2>1, <2>2, <2>3, <2>4 DEF MachineHandles, RefuseRequest, End
<1>2. CASE FinalizePairing(q)
  <2> SUFFICES ASSUME NEW j \in Id, NEW d \in Clients, Claims(j, d)' PROVE Claims(j, d)
    BY DEF NoNewClaims
  <2>1. PICK a \in attempt : finishing' = finishing \cup
          {[id |-> a.id, c |-> a.c, token |-> a.token, live |-> q.live, stage |-> "Store"]}
    BY <1>2 DEF FinalizePairing, Authenticated
  <2>2. /\ UNCHANGED <<reply, sleeping, made, agreed, held>> /\ requests' \subseteq requests
        /\ attempt' = {}
    BY <1>2 DEF FinalizePairing, End, Client, store, Receive
  <2>3. ASSUME \E x \in finishing' : x.id = j /\ x.c = d PROVE Claims(j, d)
    BY <2>1, <2>3 DEF Claims
  <2> QED BY <2>2, <2>3 DEF Claims
<1> QED BY <1>1, <1>2, HandlerSteps

LEMMA LeavingClaims ==
  ASSUME Typed, NEW c \in Clients, GiveUp(c) \/ Crash(c)
  PROVE  NoNewClaims
<1> SUFFICES ASSUME NEW j \in Id, NEW d \in Clients, Claims(j, d)' PROVE Claims(j, d)
  BY DEF NoNewClaims
<1>1. requests \subseteq Request /\ sleeping \subseteq Sleeper /\ finishing \subseteq Finisher
  BY DEF Typed, ClientTypes, ServerTypes
<1>2. /\ \A x \in requests' : \E y \in requests : Left(x, y, c)
      /\ \A x \in sleeping' : \E y \in sleeping : Left(x, y, c)
      /\ \A x \in finishing' : \E y \in finishing : Left(x, y, c)
  BY <1>1, Leaving DEF GiveUp, Crash, Leave
<1>3. /\ \A x \in requests' : \E y \in requests : x.id = y.id /\ x.c = y.c
      /\ \A x \in sleeping' : \E y \in sleeping : x.id = y.id /\ x.c = y.c
      /\ \A x \in finishing' : \E y \in finishing : x.id = y.id /\ x.c = y.c
  BY <1>1, <1>2, LeftRequest, LeftSleeper, LeftFinisher
<1>4. UNCHANGED <<attempt, made, agreed>>
  BY DEF GiveUp, Crash, machine, store
<1>5. j # 0 /\ (reply'[d] = reply[d] \/ reply'[d].id = 0) /\ held'[d] \subseteq held[d]
  BY DEF GiveUp, Crash, Client, NoReply, Typed, ClientTypes, Id
<1> QED BY <1>3, <1>4, <1>5 DEF Claims

LEMMA FinalizerClaims ==
  ASSUME Typed, NEW h \in finishing, Settle(h) \/ AnswerFinalized(h)
  PROVE  NoNewClaims
<1> SUFFICES ASSUME NEW j \in Id, NEW d \in Clients, Claims(j, d)' PROVE Claims(j, d)
  BY DEF NoNewClaims
<1>1. h \in Finisher /\ \A x : x \in {[id |-> h.id, c |-> h.c, token |-> h.token, server |-> ServerFor(home)]}
                                => x.id = h.id /\ x.c = h.c
  BY DEF Typed, ServerTypes
<1>2. \A x \in finishing' : \E y \in finishing : x.id = y.id /\ x.c = y.c
  <2>1. PICK stage \in {"Store", "Unpair", "Answer"} :
          finishing' \subseteq (finishing \ {h}) \cup {[h EXCEPT !.stage = stage]}
    BY DEF AnswerFinalized, Settle, StorePairing, UnpairPrevious, Proceed
  <2>2. [h EXCEPT !.stage = stage].id = h.id /\ [h EXCEPT !.stage = stage].c = h.c
    BY <1>1, StageChanges
  <2> QED BY <2>1, <2>2
<1>3. \A x \in made' : x \in made \/ (x.id = h.id /\ x.c = h.c)
  BY <1>1 DEF AnswerFinalized, Settle, StorePairing, UnpairPrevious, store
<1>4. UNCHANGED <<attempt, sleeping, agreed, requests, held>>
  BY DEF AnswerFinalized, Settle, machine, wire, Client
<1>5. reply'[d] = reply[d] \/ (d = h.c /\ reply'[d].id = h.id)
  BY DEF AnswerFinalized, Settle, wire, Respond, Typed, ClientTypes
<1> QED BY <1>2, <1>3, <1>4, <1>5 DEF Claims

LEMMA StepClaims ==
  ASSUME Typed, Knows, [Next]_vars
  PROVE  NoNewClaims \/ \E q \in requests : AcceptRequest(q)
<1>1. CASE OpenForPairing \/ ClosePairing \/ UNCHANGED vars \/ Tick
  <2>1. UNCHANGED <<attempt, sleeping, finishing, made, agreed, requests, reply, held>>
    BY <1>1 DEF OpenForPairing, ClosePairing, vars, Tick, client, wire, machine, handlers, store
  <2> QED BY <2>1 DEF NoNewClaims, Claims
<1>2. CASE ServerRestart
  <2>1. /\ UNCHANGED <<made, agreed, reply, held>>
        /\ attempt' = {} /\ sleeping' = {} /\ finishing' = {} /\ requests' = {}
    BY <1>2 DEF ServerRestart, Client, store
  <2> QED BY <2>1 DEF NoNewClaims, Claims
<1>3. ASSUME NEW s \in sleeping, Remember(s) PROVE NoNewClaims
  <2>1. /\ UNCHANGED <<attempt, finishing, made, agreed, requests, held>>
        /\ sleeping' \subseteq sleeping
    BY <1>3 DEF Remember, Client, machine, store
  <2>2. \A d \in Clients : reply'[d] = reply[d] \/ (d = s.c /\ reply'[d].id = s.id)
    BY <1>3 DEF Remember, Respond, Typed, ClientTypes
  <2> QED BY <2>1, <2>2 DEF NoNewClaims, Claims
<1> QED BY <1>1, <1>2, <1>3, ClientStepClaims, LeavingClaims, HandlerClaims, FinalizerClaims DEF Next

\* How many attempts were answered never goes down.
LEMMA AnswersGrow ==
  ASSUME Typed, Knows, [Next]_vars
  PROVE  answers' \in Nat /\ answers <= answers'
<1>1. answers \in Nat
  BY DEF Typed, ServerTypes
<1>2. CASE UNCHANGED <<machine, now>> \/ ServerRestart \/ Tick
  BY <1>1, <1>2 DEF machine, ServerRestart, Tick
<1>3. ASSUME NEW q \in requests, MachineHandles(q) PROVE answers' = answers \/ answers' = answers + 1
  BY <1>3 DEF MachineHandles, machine, RefuseRequest, AcceptRequest, Answered, VerifyClient, End
<1> QED BY <1>1, <1>2, <1>3, MachineSteps

\* An attempt accepted is a new one, and of the client that asked.
LEMMA AcceptedClaims ==
  ASSUME Typed, NEW q \in requests, AcceptRequest(q)
  PROVE  /\ answers' = answers + 1
         /\ \A i \in Id, c \in Clients : Claims(i, c)' => Claims(i, c) \/ (i = answers + 1 /\ c = q.c)
<1>1. /\ UNCHANGED <<reply, finishing, made, agreed, held>> /\ requests' \subseteq requests
      /\ \A x \in attempt' : x.id = answers + 1 /\ x.c = q.c
      /\ \A x \in sleeping' : x \in sleeping \/ (x.id = answers + 1 /\ x.c = q.c)
      /\ answers' = answers + 1
  BY DEF AcceptRequest, Answered, Receive, store, Client
<1> QED BY <1>1 DEF Claims

LEMMA StepIsOwned ==
  ASSUME Typed, Knows, Owned, [Next]_vars
  PROVE  Owned'
<1> SUFFICES ASSUME NEW i \in Id, NEW c \in Clients, Claims(i, c)'
             PROVE  i <= answers' /\ \A d \in Clients : Claims(i, d)' => c = d
  BY DEF Owned
<1>1. i \in Nat /\ answers \in Nat /\ answers' \in Nat /\ answers <= answers'
  BY AnswersGrow DEF Id, Typed, ServerTypes
<1>2. CASE NoNewClaims
  BY <1>1, <1>2 DEF NoNewClaims, Owned
<1>3. ASSUME NEW q \in requests, AcceptRequest(q)
      PROVE  i <= answers' /\ \A d \in Clients : Claims(i, d)' => c = d
  <2>1. \A d \in Clients : Claims(i, d)' => Claims(i, d) \/ (i = answers + 1 /\ d = q.c)
    BY <1>3, AcceptedClaims
  <2>2. \A d \in Clients : ~Claims(answers + 1, d)
    <3>1. answers + 1 \in Id /\ ~(answers + 1 <= answers)
      BY <1>1 DEF Id
    <3> QED BY <3>1 DEF Owned
  <2> QED BY <1>1, <1>3, <2>1, <2>2, AcceptedClaims DEF Owned
<1> QED BY <1>2, <1>3, StepClaims

-----------------------------------------------------------------------------
(* Who waits for what. *)

\* Nobody waits for an answer it has, or without having asked.
LEMMA NothingAwaited ==
  ASSUME Awaited, NEW c \in Clients, reply[c].status # "None" \/ phase[c] = "Idle"
  PROVE  /\ \A q \in requests : q.c = c => ~q.live
         /\ \A s \in sleeping : s.c = c => ~s.live
         /\ \A h \in finishing : h.c = c => ~h.live
BY DEF Awaited, Fits

\* What holds of the clients that a step is not about.
Untouched(d) == phase'[d] = phase[d] /\ reply'[d] = reply[d] /\ held'[d] = held[d] /\ stored'[d] = stored[d]

LEMMA FitsStill ==
  ASSUME NEW q, Fits(q), phase'[q.c] = phase[q.c], held'[q.c] = held[q.c]
  PROVE  Fits(q)'
BY DEF Fits

LEMMA PostedKeepsOrder ==
  ASSUME Typed, Knows, Awaited, AwaitedOnce, NEW c \in Clients, NEW op, NEW i \in Nat, NEW token, NEW ok, NEW at,
         Posted(c, op, i, token, ok, at), UNCHANGED handlers, reply[c].status # "None" \/ phase[c] = "Idle",
         \/ op = "request" /\ at = "AwaitingAcceptance"
         \/ i \in Id /\ \/ op = "post" /\ at = "DetailsExchanged"
                        \/ op = "details" /\ at = "Authenticated"
                        \/ op = "finalize" /\ ok = TRUE /\ at = "Paired"
                        \/ op = "finalize" /\ ok = FALSE /\ at = "Abandoning"
  PROVE  Knows' /\ Awaited' /\ AwaitedOnce'
<1> DEFINE p == [c |-> c, op |-> op, id |-> i, token |-> token, ok |-> ok, live |-> TRUE]
<1>1. \A d \in Clients \ {c} : Untouched(d)
  BY DEF Posted, Untouched, Typed, ClientTypes
<1>2. /\ phase'[c] = at /\ reply'[c] = NoReply /\ reply'[c].status = "None"
      /\ held'[c] = IF i = 0 THEN {} ELSE {i}
  BY DEF Posted, NoReply, Typed, ClientTypes
<1>3. Knows'
  BY <1>1, <1>2 DEF Knows, Untouched, Id
<1>4. /\ \A q \in requests : q.c = c => ~q.live
      /\ \A s \in sleeping : s.c = c => ~s.live
      /\ \A h \in finishing : h.c = c => ~h.live
  BY NothingAwaited
<1>5. requests' = requests \cup {p} /\ sleeping' = sleeping /\ finishing' = finishing
  BY DEF Posted, handlers
<1>6. /\ \A q \in requests : q.c \in Clients
      /\ \A s \in sleeping : s.c \in Clients
      /\ \A h \in finishing : h.c \in Clients
  BY DEF Typed, ClientTypes, ServerTypes, Request, Sleeper, Finisher
<1>7. Fits(p)' /\ p.c = c /\ p.live
  BY <1>2 DEF Fits, Id
<1>8. Awaited'
  <2>1. ASSUME NEW q \in requests', q.live PROVE reply'[q.c].status = "None" /\ Fits(q)'
    <3>1. CASE q = p
      BY <1>2, <1>7, <3>1
    <3>2. CASE q \in requests
      <4>1. q.c \in Clients \ {c} /\ Fits(q) /\ reply[q.c].status = "None"
        BY <1>4, <1>6, <2>1, <3>2 DEF Awaited
      <4> QED BY <1>1, <4>1, FitsStill DEF Untouched
    <3> QED BY <1>5, <3>1, <3>2
  <2>2. ASSUME NEW s \in sleeping', s.live
        PROVE  reply'[s.c].status = "None" /\ phase'[s.c] = "AwaitingAcceptance"
    BY <1>1, <1>4, <1>5, <1>6, <2>2 DEF Awaited, Untouched
  <2>3. ASSUME NEW h \in finishing', h.live
        PROVE  reply'[h.c].status = "None" /\ phase'[h.c] = "Paired" /\ held'[h.c] = {h.id}
    BY <1>1, <1>4, <1>5, <1>6, <2>3 DEF Awaited, Untouched
  <2> QED BY <2>1, <2>2, <2>3 DEF Awaited
<1>9. AwaitedOnce'
  <2> HIDE DEF p
  <2>1. \A q, r \in requests' : q.live /\ r.live /\ q.c = r.c => q = r
    BY <1>4, <1>5, <1>7 DEF AwaitedOnce
  <2>2. \A q \in requests', s \in sleeping' : q.live /\ s.live => q.c # s.c
    BY <1>4, <1>5, <1>7 DEF AwaitedOnce
  <2>3. \A q \in requests', h \in finishing' : q.live /\ h.live => q.c # h.c
    BY <1>4, <1>5, <1>7 DEF AwaitedOnce
  <2> QED BY <1>5, <2>1, <2>2, <2>3 DEF AwaitedOnce
<1> QED BY <1>3, <1>8, <1>9

LEMMA ClientStepKeepsOrder ==
  ASSUME Typed, Knows, Awaited, AwaitedOnce, NEW c \in Clients, ClientStep(c)
  PROVE  Knows' /\ Awaited' /\ AwaitedOnce'
<1>1. UNCHANGED handlers
  BY ClientSteps DEF ServerQuiet
<1>2. reply[c].id \in Nat /\ held[c] \subseteq Nat
  BY DEF Typed, ClientTypes
<1>3. CASE Starts(c)
  <2>1. PICK ok \in BOOLEAN : Posted(c, "request", 0, 0, ok, "AwaitingAcceptance")
    BY <1>3 DEF Starts
  <2> QED BY <1>1, <1>3, <2>1, PostedKeepsOrder DEF Starts
<1>4. CASE Proves(c)
  <2>1. reply[c].id \in Id
    BY <1>4 DEF Proves, Knows
  <2> QED BY <1>1, <1>2, <1>4, <2>1, PostedKeepsOrder DEF Proves
<1>5. CASE Finalizes(c)
  <2>1. PICK i \in held[c] : Posted(c, "finalize", i, 0, TRUE, "Paired")
    BY <1>5 DEF Finalizes
  <2>2. i \in Id
    BY <1>5 DEF Finalizes, Knows
  <2> QED BY <1>1, <1>2, <1>5, <2>1, <2>2, PostedKeepsOrder DEF Finalizes
<1>6. CASE GivesBack(c)
  <2>1. PICK i \in Id : Posted(c, "finalize", i, 0, FALSE, "Abandoning")
    BY <1>6 DEF GivesBack
  <2>2. i \in Nat
    BY DEF Id
  <2> QED BY <1>1, <1>6, <2>1, <2>2, PostedKeepsOrder DEF GivesBack
<1>7. CASE Returns(c)
  <2>1. /\ \A q \in requests : q.c = c => ~q.live
        /\ \A s \in sleeping : s.c = c => ~s.live
        /\ \A h \in finishing : h.c = c => ~h.live
    BY <1>7, NothingAwaited DEF Returns
  <2>2. \A d \in Clients \ {c} : phase'[d] = phase[d] /\ reply'[d] = reply[d] /\ held'[d] = held[d]
    BY <1>7 DEF Returns, Typed, ClientTypes
  <2>3. /\ requests' = requests /\ sleeping' = sleeping /\ finishing' = finishing
        /\ phase'[c] = "Idle" /\ reply'[c] = NoReply
    BY <1>1, <1>7 DEF Returns, handlers, Typed, ClientTypes
  <2>4. Knows'
    BY <2>2, <2>3 DEF Knows
  <2>5. /\ \A q \in requests : q.c \in Clients
        /\ \A s \in sleeping : s.c \in Clients
        /\ \A h \in finishing : h.c \in Clients
    BY DEF Typed, ClientTypes, ServerTypes, Request, Sleeper, Finisher
  <2>6. Awaited'
    <3>1. ASSUME NEW q \in requests', q.live PROVE reply'[q.c].status = "None" /\ Fits(q)'
      <4>1. q.c \in Clients \ {c} /\ Fits(q) /\ reply[q.c].status = "None"
        BY <2>1, <2>3, <2>5, <3>1 DEF Awaited
      <4> QED BY <2>2, <4>1, FitsStill
    <3> QED BY <2>1, <2>2, <2>3, <2>5, <3>1 DEF Awaited
  <2>7. AwaitedOnce'
    BY <2>3 DEF AwaitedOnce
  <2> QED BY <2>4, <2>6, <2>7
<1> QED BY <1>3, <1>4, <1>5, <1>6, <1>7, ClientSteps

\* An answer given to whoever alone waits for it, by the server.
LEMMA AnsweringKeepsOrder ==
  ASSUME Typed, Knows, Awaited, AwaitedOnce, UNCHANGED <<phase, held>>, NEW x, x.c \in Clients,
         NEW status \in {"Ok", "Refused"}, NEW i \in Nat, NEW token,
         Respond(x, status, i, token),
         requests' \subseteq requests, sleeping' \subseteq sleeping, finishing' \subseteq finishing,
         x.live => /\ phase[x.c] = "AwaitingAcceptance" => IF status = "Ok" THEN i \in Id ELSE i = 0
                   /\ \A y \in requests' \cup sleeping' \cup finishing' : y.live => y.c # x.c
  PROVE  Knows' /\ Awaited' /\ AwaitedOnce'
<1>1. \A d \in Clients : reply'[d] = reply[d] \/ (d = x.c /\ x.live)
  BY DEF Respond, Typed, ClientTypes
<1>2. x.live => reply'[x.c].status = status /\ reply'[x.c].id = i
  BY DEF Respond, Typed, ClientTypes
<1>3. Knows'
  BY <1>1, <1>2 DEF Knows
<1>4. /\ \A q \in requests : q.c \in Clients
      /\ \A s \in sleeping : s.c \in Clients
      /\ \A h \in finishing : h.c \in Clients
  BY DEF Typed, ClientTypes, ServerTypes, Request, Sleeper, Finisher
<1>5. Awaited'
  <2>1. ASSUME NEW q \in requests', q.live PROVE reply'[q.c].status = "None" /\ Fits(q)'
    <3>1. Fits(q) /\ reply[q.c].status = "None" /\ q.c \in Clients
      BY <1>4, <2>1 DEF Awaited
    <3> QED BY <1>1, <2>1, <3>1, FitsStill
  <2>2. ASSUME NEW s \in sleeping', s.live
        PROVE  reply'[s.c].status = "None" /\ phase'[s.c] = "AwaitingAcceptance"
    BY <1>1, <1>4, <2>2 DEF Awaited
  <2>3. ASSUME NEW h \in finishing', h.live
        PROVE  reply'[h.c].status = "None" /\ phase'[h.c] = "Paired" /\ held'[h.c] = {h.id}
    BY <1>1, <1>4, <2>3 DEF Awaited
  <2> QED BY <2>1, <2>2, <2>3 DEF Awaited
<1>6. AwaitedOnce'
  BY DEF AwaitedOnce
<1> QED BY <1>3, <1>5, <1>6

LEMMA HandlerKeepsOrder ==
  ASSUME Typed, Knows, Awaited, AwaitedOnce, Owned, OneAttempt, NEW q \in requests, Handle(q)
  PROVE  Knows' /\ Awaited' /\ AwaitedOnce'
<1>1. ClientQuiet /\ requests' = requests \ {q} /\ UNCHANGED <<phase, held>>
  BY HandlerSteps DEF ClientQuiet, Client
<1>2. q.c \in Clients /\ q.live \in BOOLEAN
  BY DEF Typed, ClientTypes, Request
<1>3. CASE Served(q) /\ UNCHANGED handlers
  <2>1. PICK status \in {"Ok", "Refused"}, i \in Nat, token \in Nat :
          /\ Respond(q, status, i, token)
          /\ q.op = "request" => status = "Refused" /\ i = 0
    BY <1>3 DEF Served
  <2>2. sleeping' = sleeping /\ finishing' = finishing
    BY <1>3 DEF handlers
  <2>3. q.live => (phase[q.c] = "AwaitingAcceptance" => i = 0 /\ status # "Ok")
    BY <2>1 DEF Awaited, Fits
  <2>4. q.live => \A y \in requests' \cup sleeping' \cup finishing' : y.live => y.c # q.c
    BY <1>1, <2>2 DEF AwaitedOnce
  <2> QED BY <1>1, <1>2, <2>1, <2>2, <2>3, <2>4, AnsweringKeepsOrder
<1>4. CASE AcceptRequest(q)
  <2> DEFINE s == [id |-> answers + 1, c |-> q.c, token |-> opening, at |-> now, live |-> q.live]
  <2>1. /\ reply' = reply /\ finishing' = finishing /\ sleeping' = sleeping \cup {s}
        /\ q.op = "request" /\ s.c = q.c /\ s.live = q.live
    BY <1>4 DEF AcceptRequest
  <2> HIDE DEF s
  <2>2. Knows'
    BY <1>1, <2>1 DEF Knows
  <2>3. q.live => reply[q.c].status = "None" /\ phase[q.c] = "AwaitingAcceptance"
    BY <2>1 DEF Awaited, Fits
  <2>4. Awaited'
    BY <1>1, <2>1, <2>3, FitsStill DEF Awaited
  <2>5. AwaitedOnce'
    <3>1. \A r, t \in sleeping' : r.live /\ t.live /\ r.c = t.c => r = t
      BY <2>1 DEF AwaitedOnce
    <3>2. \A r \in requests', t \in sleeping' : r.live /\ t.live => r.c # t.c
      BY <1>1, <2>1 DEF AwaitedOnce
    <3> QED BY <1>1, <2>1, <3>1, <3>2 DEF AwaitedOnce
  <2> QED BY <2>2, <2>4, <2>5
<1>5. CASE FinalizePairing(q)
  <2>1. PICK a \in attempt :
          /\ a.id = q.id /\ q.ok
          /\ finishing' = finishing \cup
               {[id |-> a.id, c |-> a.c, token |-> a.token, live |-> q.live, stage |-> "Store"]}
    BY <1>5 DEF FinalizePairing, Authenticated, Completes
  <2> DEFINE h == [id |-> a.id, c |-> a.c, token |-> a.token, live |-> q.live, stage |-> "Store"]
  <2>2. a.c = q.c /\ finishing = {}
    BY <2>1, AttemptIsOfRequest DEF OneAttempt
  <2>3. h.c = q.c /\ h.id = q.id /\ h.live = q.live /\ finishing' = {h}
    BY <2>1, <2>2
  <2> HIDE DEF h
  <2>4. reply' = reply /\ sleeping' = sleeping /\ q.op = "finalize"
    BY <1>5 DEF FinalizePairing
  <2>5. Knows'
    BY <1>1, <2>4 DEF Knows
  <2>6. q.live => reply[q.c].status = "None" /\ phase[q.c] = "Paired" /\ held[q.c] = {q.id}
    BY <2>1, <2>4 DEF Awaited, Fits
  <2>7. Awaited'
    BY <1>1, <2>3, <2>4, <2>6, FitsStill DEF Awaited
  <2>8. AwaitedOnce'
    BY <1>1, <2>3, <2>4 DEF AwaitedOnce
  <2> QED BY <2>5, <2>7, <2>8
<1> QED BY <1>3, <1>4, <1>5, HandlerSteps

LEMMA LaterAnswerKeepsOrder ==
  ASSUME Typed, Knows, Awaited, AwaitedOnce, OneAttempt,
         (\E s \in sleeping : Remember(s)) \/ (\E h \in finishing : AnswerFinalized(h))
  PROVE  Knows' /\ Awaited' /\ AwaitedOnce'
<1>1. ASSUME NEW s \in sleeping, Remember(s) PROVE Knows' /\ Awaited' /\ AwaitedOnce'
  <2>1. s.c \in Clients /\ s.id \in Id /\ s.id \in Nat
    BY DEF Typed, ServerTypes, Sleeper, Id
  <2>2. /\ UNCHANGED <<phase, held>> /\ requests' = requests /\ sleeping' = sleeping \ {s}
        /\ finishing' = finishing /\ Respond(s, "Ok", s.id, s.token)
    BY <1>1 DEF Remember, Client
  <2>3. s.live => \A y \in requests' \cup sleeping' \cup finishing' : y.live => y.c # s.c
    BY <2>2 DEF Awaited, AwaitedOnce
  <2> QED BY <2>1, <2>2, <2>3, AnsweringKeepsOrder
<1>2. ASSUME NEW h \in finishing, AnswerFinalized(h) PROVE Knows' /\ Awaited' /\ AwaitedOnce'
  <2>1. h.c \in Clients /\ h.id \in Id /\ h.id \in Nat
    BY DEF Typed, ServerTypes, Finisher, Id
  <2>2. /\ UNCHANGED <<phase, held>> /\ requests' = requests /\ sleeping' = sleeping
        /\ finishing' = {} /\ Respond(h, "Ok", h.id, 0)
    BY <1>2 DEF AnswerFinalized, Client, OneAttempt
  <2>3. h.live => phase[h.c] = "Paired"
    BY DEF Awaited
  <2>4. h.live => \A y \in requests' \cup sleeping' \cup finishing' : y.live => y.c # h.c
    BY <2>2, <2>3 DEF Awaited, AwaitedOnce
  <2> QED BY <2>1, <2>2, <2>3, <2>4, AnsweringKeepsOrder
<1> QED BY <1>1, <1>2

LEMMA LeavingKeepsOrder ==
  ASSUME Typed, Knows, Awaited, AwaitedOnce, NEW c \in Clients, GiveUp(c) \/ Crash(c)
  PROVE  Knows' /\ Awaited' /\ AwaitedOnce'
<1>1. requests \subseteq Request /\ sleeping \subseteq Sleeper /\ finishing \subseteq Finisher
  BY DEF Typed, ClientTypes, ServerTypes
<1>2. /\ \A x \in requests' : \E y \in requests : Left(x, y, c)
      /\ \A x \in sleeping' : \E y \in sleeping : Left(x, y, c)
      /\ \A x \in finishing' : \E y \in finishing : Left(x, y, c)
  BY <1>1, Leaving DEF GiveUp, Crash, Leave
<1>3. \A x \in requests' : x.live => x \in requests /\ x.c \in Clients \ {c}
  BY <1>1, <1>2, LeftRequest DEF Request
<1>4. \A x \in sleeping' : x.live => x \in sleeping /\ x.c \in Clients \ {c}
  BY <1>1, <1>2, LeftSleeper DEF Sleeper
<1>5. \A x \in finishing' : x.live => x \in finishing /\ x.c \in Clients \ {c}
  BY <1>1, <1>2, LeftFinisher DEF Finisher
<1>6. \A d \in Clients \ {c} : phase'[d] = phase[d] /\ reply'[d] = reply[d] /\ held'[d] = held[d]
  BY DEF GiveUp, Crash, Client, Typed, ClientTypes
<1>7. Knows'
  <2>1. CASE GiveUp(c)
    <3>1. reply'[c].status = "Refused" /\ reply'[c].id = 0 /\ phase'[c] = phase[c] /\ held'[c] = held[c]
      BY <2>1 DEF GiveUp, Client, NoReply, Typed, ClientTypes
    <3> QED BY <1>6, <3>1 DEF Knows
  <2>2. CASE Crash(c)
    <3>1. reply'[c] = NoReply /\ phase'[c] = "Idle"
      BY <2>2 DEF Crash, Typed, ClientTypes
    <3> QED BY <1>6, <3>1 DEF Knows
  <2> QED BY <2>1, <2>2
<1>8. Awaited'
  BY <1>3, <1>4, <1>5, <1>6, FitsStill DEF Awaited
<1>9. AwaitedOnce'
  BY <1>3, <1>4, <1>5 DEF AwaitedOnce
<1> QED BY <1>7, <1>8, <1>9

LEMMA StepKeepsOrder ==
  ASSUME Typed, Knows, Awaited, AwaitedOnce, Owned, OneAttempt, [Next]_vars
  PROVE  Knows' /\ Awaited' /\ AwaitedOnce'
<1>1. CASE OpenForPairing \/ ClosePairing \/ UNCHANGED vars \/ Tick
  <2>1. UNCHANGED <<phase, held, reply, requests, sleeping, finishing>>
    BY <1>1 DEF OpenForPairing, ClosePairing, vars, Tick, client, wire, handlers
  <2>2. Knows'
    BY <2>1 DEF Knows
  <2>3. Awaited'
    BY <2>1 DEF Awaited, Fits
  <2>4. AwaitedOnce'
    BY <2>1 DEF AwaitedOnce
  <2> QED BY <2>2, <2>3, <2>4
<1>2. CASE ServerRestart
  <2>1. UNCHANGED <<phase, held, reply>> /\ requests' = {} /\ sleeping' = {} /\ finishing' = {}
    BY <1>2 DEF ServerRestart, Client
  <2> QED BY <2>1 DEF Knows, Awaited, AwaitedOnce
<1>3. ASSUME NEW h \in finishing, Settle(h) PROVE Knows' /\ Awaited' /\ AwaitedOnce'
  <2>1. UNCHANGED <<phase, held, reply, requests, sleeping>>
    BY <1>3 DEF Settle, Client, wire
  <2>2. PICK stage \in {"Store", "Unpair", "Answer"} :
          finishing' = (finishing \ {h}) \cup {[h EXCEPT !.stage = stage]}
    BY <1>3 DEF Settle, StorePairing, UnpairPrevious, Proceed
  <2>3. h \in Finisher
    BY DEF Typed, ServerTypes
  <2>4. /\ [h EXCEPT !.stage = stage].id = h.id /\ [h EXCEPT !.stage = stage].c = h.c
        /\ [h EXCEPT !.stage = stage].live = h.live
    BY <2>3, StageChanges
  <2>5. \A x \in finishing' : \E y \in finishing : x.id = y.id /\ x.c = y.c /\ x.live = y.live
    BY <2>2, <2>4
  <2>6. Knows'
    BY <2>1 DEF Knows
  <2>7. Awaited'
    BY <2>1, <2>5, FitsStill DEF Awaited
  <2>8. AwaitedOnce'
    BY <2>1, <2>5 DEF AwaitedOnce
  <2> QED BY <2>6, <2>7, <2>8
<1> QED BY <1>1, <1>2, <1>3, ClientStepKeepsOrder, HandlerKeepsOrder, LaterAnswerKeepsOrder,
           LeavingKeepsOrder DEF Next

-----------------------------------------------------------------------------
(* A pairing one side holds, the other holds or held. *)

\* What finalizing makes of a request, and how it goes on.
LEMMA FinalizingStarts ==
  ASSUME Typed, Owned, OneAttempt, NEW q \in requests, FinalizePairing(q)
  PROVE  \E h \in Finisher :
           /\ finishing' = {h} /\ h.id = q.id /\ h.c = q.c /\ h.live = q.live /\ h.stage = "Store"
           /\ q.op = "finalize" /\ q.ok /\ \E a \in attempt : h.id = a.id /\ h.token = a.token
<1>1. PICK a \in attempt :
        /\ a.id = q.id /\ q.ok /\ q.op = "finalize"
        /\ finishing' = finishing \cup
             {[id |-> a.id, c |-> a.c, token |-> a.token, live |-> q.live, stage |-> "Store"]}
  BY DEF FinalizePairing, Authenticated, Completes
<1> DEFINE h == [id |-> a.id, c |-> a.c, token |-> a.token, live |-> q.live, stage |-> "Store"]
<1>2. a.c = q.c /\ finishing = {} /\ a \in Attempt /\ q.live \in BOOLEAN
  BY <1>1, AttemptIsOfRequest DEF OneAttempt, Typed, ClientTypes, ServerTypes, Request
<1>3. /\ h \in Finisher /\ finishing' = {h} /\ h.id = q.id /\ h.c = q.c /\ h.live = q.live
      /\ h.stage = "Store" /\ h.id = a.id /\ h.token = a.token
  BY <1>1, <1>2 DEF Attempt, Finisher
<1> QED BY <1>1, <1>3

LEMMA SettlingProceeds ==
  ASSUME Typed, OneAttempt, NEW h \in finishing, Settle(h)
  PROVE  \E g \in Finisher :
           /\ finishing' = {g} /\ g.id = h.id /\ g.c = h.c /\ g.live = h.live /\ g.token = h.token
           /\ \/ /\ h.stage = "Store" /\ g.stage = IF role = "Rm" THEN "Unpair" ELSE "Answer"
                 /\ StorePairing(h)
              \/ h.stage = "Unpair" /\ g.stage = "Answer" /\ UnpairPrevious(h)
<1>1. PICK stage \in {"Store", "Unpair", "Answer"} :
        /\ finishing' = (finishing \ {h}) \cup {[h EXCEPT !.stage = stage]}
        /\ \/ h.stage = "Store" /\ stage = (IF role = "Rm" THEN "Unpair" ELSE "Answer") /\ StorePairing(h)
           \/ h.stage = "Unpair" /\ stage = "Answer" /\ UnpairPrevious(h)
  BY DEF Settle, StorePairing, UnpairPrevious, Proceed
<1>2. finishing = {h} /\ h \in Finisher
  BY DEF OneAttempt, Typed, ServerTypes
<1> DEFINE g == [h EXCEPT !.stage = stage]
<1>3. /\ g \in Finisher /\ g.stage = stage /\ g.id = h.id /\ g.c = h.c /\ g.token = h.token
      /\ g.live = h.live
  BY <1>2, StageChanges
<1>4. finishing' = {g}
  BY <1>1, <1>2
<1> QED BY <1>1, <1>3, <1>4

LEMMA ClientStepIsMutual ==
  ASSUME Typed, Knows, Mutual, NEW c \in Clients, ClientStep(c)
  PROVE  Mutual'
<1>1. UNCHANGED <<finishing, made>>
  BY ClientSteps DEF ServerQuiet, handlers, store
<1>2. reply \in [Clients -> [status : {"None", "Ok", "Refused"}, id : Nat, token : Nat]]
      /\ stored \in [Clients -> SUBSET [id : Nat, server : {"Cem", "Rm"}]]
      /\ phase \in [Clients -> Phases] /\ held \in [Clients -> SUBSET Nat]
  BY DEF Typed, ClientTypes
<1>3. /\ agreed \subseteq agreed'
      /\ \A q \in requests' : q \in requests \/ (q.op = "finalize" /\ q.ok => Finalized(q.id, q.c)')
      /\ reply' = [reply EXCEPT ![c] = NoReply]
      /\ \A d \in Clients \ {c} : phase'[d] = phase[d] /\ held'[d] = held[d]
      /\ \/ stored' = stored
         \/ /\ phase[c] = "Paired" /\ reply[c].status = "Ok"
            /\ stored' = [stored EXCEPT ![c] = {[id |-> i, server |-> ServerForClient] : i \in held[c]}]
  <2>1. CASE Starts(c) \/ Proves(c) \/ GivesBack(c)
    <3>1. PICK op, i, token, ok, at : Posted(c, op, i, token, ok, at) /\ (op = "finalize" => ok = FALSE)
      <4>1. CASE Starts(c)
        BY <4>1 DEF Starts
      <4>2. CASE Proves(c)
        <5>1. CASE Posted(c, "post", reply[c].id, code[c], TRUE, "DetailsExchanged")
          <6>1. ("post" = "finalize") => TRUE = FALSE
            OBVIOUS
          <6> QED BY <5>1, <6>1
        <5>2. CASE Posted(c, "details", reply[c].id, code[c], TRUE, "Authenticated")
          <6>1. ("details" = "finalize") => TRUE = FALSE
            OBVIOUS
          <6> QED BY <5>2, <6>1
        <5> QED BY <4>2, <5>1, <5>2 DEF Proves
      <4>3. CASE GivesBack(c)
        BY <4>3 DEF GivesBack
      <4> QED BY <2>1, <4>1, <4>2, <4>3
    <3> QED BY <1>2, <2>1, <3>1 DEF Posted, Starts, Proves, GivesBack
  <2>2. CASE Finalizes(c)
    <3>1. PICK i \in held[c] : /\ Posted(c, "finalize", i, 0, TRUE, "Paired")
                               /\ agreed' = agreed \cup {[id |-> i, c |-> c]}
      BY <2>2 DEF Finalizes
    <3>2. Finalized(i, c)'
      <4>1. [id |-> i, c |-> c] \in agreed'
        BY <3>1
      <4> QED BY <4>1 DEF Finalized
    <3> QED BY <1>2, <3>1, <3>2 DEF Posted
  <2>3. CASE Returns(c)
    BY <1>2, <2>3 DEF Returns
  <2> QED BY <2>1, <2>2, <2>3, ClientSteps
<1>4. \A i, d : Finalized(i, d) => Finalized(i, d)'
  BY <1>3 DEF Finalized
<1>5. \A i, d : Stored(i, d)' <=> Stored(i, d)
  BY <1>1 DEF Stored
<1>6. ASSUME NEW d \in Clients, NEW p \in stored'[d] PROVE Stored(p.id, d)
  <2>1. CASE p \in stored[d]
    BY <2>1 DEF Mutual
  <2>2. CASE d = c /\ \E i \in held[c] : p.id = i /\ phase[c] = "Paired" /\ reply[c].status = "Ok"
    BY <2>2 DEF Mutual
  <2> QED BY <1>2, <1>3, <1>6, <2>1, <2>2
<1>7. ASSUME NEW d \in Clients, phase'[d] = "Paired", reply'[d].status = "Ok"
      PROVE  \A i \in held'[d] : Stored(i, d)
  <2>1. d # c
    BY <1>2, <1>3, <1>7 DEF NoReply
  <2> QED BY <1>2, <1>3, <1>7, <2>1 DEF Mutual
<1> QED BY <1>1, <1>3, <1>4, <1>5, <1>6, <1>7 DEF Mutual

LEMMA HandlerIsMutual ==
  ASSUME Typed, Awaited, Owned, OneAttempt, Mutual, NEW q \in requests, Handle(q)
  PROVE  Mutual'
<1>1. UNCHANGED <<phase, held, stored, made, agreed>> /\ requests' = requests \ {q}
  BY HandlerSteps DEF ClientQuiet, Client, store
<1>2. /\ \A i, d : Finalized(i, d)' <=> Finalized(i, d)
      /\ \A i, d : Stored(i, d)' <=> Stored(i, d)
  BY <1>1 DEF Finalized, Stored
<1>3. \A h \in finishing' : Finalized(h.id, h.c) /\ (h.stage # "Store" => Stored(h.id, h.c))
  <2>1. CASE FinalizePairing(q)
    BY <2>1, FinalizingStarts DEF Mutual
  <2>2. CASE finishing' = finishing
    BY <2>2 DEF Mutual
  <2> QED BY <2>1, <2>2, HandlerSteps DEF AcceptRequest, handlers
<1>4. \A d \in Clients : phase[d] = "Paired" /\ reply'[d].status = "Ok" => reply[d].status = "Ok"
  <2>1. CASE Served(q)
    <3>1. PICK status \in {"Ok", "Refused"}, i \in Nat, token \in Nat :
            /\ Respond(q, status, i, token)
            /\ q.op = "finalize" /\ q.ok => status = "Refused"
      BY <2>1 DEF Served
    <3>2. q.live /\ phase[q.c] = "Paired" => status = "Refused"
      BY <3>1 DEF Awaited, Fits
    <3> QED BY <3>1, <3>2 DEF Respond, Typed, ClientTypes
  <2>2. CASE reply' = reply
    BY <2>2
  <2> QED BY <2>1, <2>2, HandlerSteps DEF AcceptRequest, FinalizePairing
<1> QED BY <1>1, <1>2, <1>3, <1>4 DEF Mutual

LEMMA StepIsMutual ==
  ASSUME Typed, Knows, Awaited, Owned, OneAttempt, Mutual, [Next]_vars
  PROVE  Mutual'
<1>1. CASE OpenForPairing \/ ClosePairing \/ UNCHANGED vars \/ Tick
  <2>1. UNCHANGED <<phase, held, reply, stored, requests, agreed, made, finishing>>
    BY <1>1 DEF OpenForPairing, ClosePairing, vars, Tick, client, wire, handlers, store
  <2> QED BY <2>1 DEF Mutual, Stored, Finalized
<1>2. CASE ServerRestart
  <2>1. UNCHANGED <<phase, held, reply, stored, agreed, made>> /\ requests' = {} /\ finishing' = {}
    BY <1>2 DEF ServerRestart, Client, store
  <2> QED BY <2>1 DEF Mutual, Stored, Finalized
<1>3. ASSUME NEW s \in sleeping, Remember(s) PROVE Mutual'
  <2>1. UNCHANGED <<phase, held, stored, requests, agreed, made, finishing>>
    BY <1>3 DEF Remember, Client, store
  <2>2. \A d \in Clients : phase[d] = "Paired" => reply'[d] = reply[d]
    <3>1. s.live => phase[s.c] = "AwaitingAcceptance"
      BY DEF Awaited
    <3> QED BY <1>3, <3>1 DEF Remember, Respond, Typed, ClientTypes
  <2> QED BY <2>1, <2>2 DEF Mutual, Stored, Finalized
<1>4. ASSUME NEW h \in finishing, AnswerFinalized(h) PROVE Mutual'
  <2>1. UNCHANGED <<phase, held, stored, requests, agreed, made>> /\ finishing' \subseteq finishing
    BY <1>4 DEF AnswerFinalized, Client, store
  <2>2. Stored(h.id, h.c)
    BY <1>4 DEF AnswerFinalized, Mutual
  <2>3. \A d \in Clients : \/ reply'[d] = reply[d]
                           \/ d = h.c /\ held[d] = {h.id}
    BY <1>4 DEF AnswerFinalized, Respond, Awaited, Typed, ClientTypes
  <2> QED BY <2>1, <2>2, <2>3 DEF Mutual, Stored, Finalized
<1>5. ASSUME NEW h \in finishing, Settle(h) PROVE Mutual'
  <2>1. UNCHANGED <<phase, held, stored, requests, reply, agreed>>
    BY <1>5 DEF Settle, Client, wire
  <2>2. PICK g : /\ finishing' = {g} /\ g.id = h.id /\ g.c = h.c
                 /\ (h.stage = "Store" /\ StorePairing(h)) \/ (h.stage = "Unpair" /\ UnpairPrevious(h))
    BY <1>5, SettlingProceeds
  <2>3. \A i, d : Finalized(i, d)' <=> Finalized(i, d)
    BY <2>1 DEF Finalized
  <2>4. made \subseteq made' /\ \A m \in made' : m \in made \/ (m.id = h.id /\ m.c = h.c)
    BY <2>2 DEF StorePairing, UnpairPrevious
  <2>5. \A i, d : Stored(i, d) => Stored(i, d)'
    BY <2>4 DEF Stored
  <2>6. Stored(g.id, g.c)'
    <3>1. CASE h.stage = "Unpair"
      BY <2>2, <2>5, <3>1 DEF Mutual
    <3>2. CASE StorePairing(h)
      <4>1. [id |-> h.id, c |-> h.c, token |-> h.token, server |-> ServerFor(home)] \in made'
        BY <3>2 DEF StorePairing
      <4> QED BY <2>2, <4>1 DEF Stored
    <3> QED BY <2>2, <3>1, <3>2
  <2>7. Finalized(h.id, h.c)
    BY DEF Mutual
  <2> QED BY <2>1, <2>2, <2>3, <2>4, <2>5, <2>6, <2>7 DEF Mutual
<1>6. ASSUME NEW c \in Clients, GiveUp(c) \/ Crash(c) PROVE Mutual'
  <2>1. requests \subseteq Request /\ finishing \subseteq Finisher
    BY DEF Typed, ClientTypes, ServerTypes
  <2>2. /\ \A x \in requests' : \E y \in requests : Left(x, y, c)
        /\ \A x \in finishing' : \E y \in finishing : Left(x, y, c)
    BY <1>6, <2>1, Leaving DEF GiveUp, Crash, Leave
  <2>3. /\ \A x \in requests' : \E y \in requests : x.op = y.op /\ x.ok = y.ok /\ x.id = y.id /\ x.c = y.c
        /\ \A x \in finishing' : \E y \in finishing : x.id = y.id /\ x.c = y.c /\ x.stage = y.stage
    BY <2>1, <2>2, LeftRequest, LeftFinisher
  <2>4. UNCHANGED <<stored, agreed, made>>
    BY <1>6 DEF GiveUp, Crash, Client, store
  <2>5. \A d \in Clients : \/ phase'[d] = phase[d] /\ reply'[d] = reply[d] /\ held'[d] = held[d]
                           \/ reply'[d].status # "Ok"
    BY <1>6 DEF GiveUp, Crash, Client, NoReply, Typed, ClientTypes
  <2>6. /\ \A i, d : Finalized(i, d)' <=> Finalized(i, d)
        /\ \A i, d : Stored(i, d)' <=> Stored(i, d)
    BY <2>4 DEF Finalized, Stored
  <2> QED BY <2>3, <2>4, <2>5, <2>6 DEF Mutual
<1> QED BY <1>1, <1>2, <1>3, <1>4, <1>5, <1>6, ClientStepIsMutual, HandlerIsMutual DEF Next

-----------------------------------------------------------------------------
(* One opening pairs one client. *)

\* Steps that hand out no token and use none up.
LEMMA TokensRest ==
  ASSUME Typed, Knows, OneAttempt, UsedUp, UNCHANGED <<opening, openings, made>>,
         \A a \in attempt' : \E b \in attempt : a.token = b.token,
         \A h \in finishing' : \E g \in finishing : h.token = g.token /\ h.stage = g.stage
  PROVE  UsedUp'
BY DEF UsedUp

LEMMA StepUsesUp ==
  ASSUME Typed, Knows, Owned, OneAttempt, UsedUp, OpeningUsedOnce, [Next]_vars
  PROVE  UsedUp' /\ OpeningUsedOnce'
<1>0. /\ opening \in Nat /\ openings \in Nat /\ attempt \subseteq Attempt /\ finishing \subseteq Finisher
      /\ made \subseteq [id : Id, c : Clients, token : Nat, server : {"Cem", "Rm"}]
  BY DEF Typed, ServerTypes
<1>1. CASE OpenForPairing \/ ClosePairing
  <2>1. UNCHANGED <<attempt, finishing, made>>
    BY <1>1 DEF OpenForPairing, ClosePairing, machine, handlers
  <2>2. /\ openings' \in Nat /\ openings <= openings' /\ opening' <= openings'
        /\ \A m \in made : m.token # opening'
    BY <1>0, <1>1 DEF OpenForPairing, ClosePairing, bounds, UsedUp
  <2>3. UsedUp'
    <3>1. \A a \in attempt : a.token \in Nat
      BY <1>0 DEF Attempt
    <3>2. \A h \in finishing : h.token \in Nat
      BY <1>0 DEF Finisher
    <3>3. \A m \in made : m.token \in Nat
      BY <1>0
    <3> QED BY <1>0, <2>1, <2>2, <3>1, <3>2, <3>3 DEF UsedUp
  <2> QED BY <2>1, <2>3 DEF OpeningUsedOnce
<1>2. CASE UNCHANGED vars \/ Tick
  BY <1>2, TokensRest DEF vars, Tick, machine, handlers, store, bounds, OpeningUsedOnce
<1>3. CASE ServerRestart
  BY <1>3, TokensRest DEF ServerRestart, store, OpeningUsedOnce
<1>4. ASSUME NEW c \in Clients, ClientStep(c) PROVE UsedUp' /\ OpeningUsedOnce'
  BY <1>4, ClientSteps, TokensRest DEF ServerQuiet, machine, handlers, store, OpeningUsedOnce
<1>5. ASSUME NEW c \in Clients, GiveUp(c) \/ Crash(c) PROVE UsedUp' /\ OpeningUsedOnce'
  <2>1. \A x \in finishing' : \E y \in finishing : Left(x, y, c)
    BY <1>0, <1>5, Leaving DEF GiveUp, Crash, Leave
  <2>2. \A x \in finishing' : \E y \in finishing : x.token = y.token /\ x.stage = y.stage
    BY <1>0, <2>1, LeftFinisher
  <2> QED BY <1>5, <2>2, TokensRest DEF GiveUp, Crash, machine, store, OpeningUsedOnce
<1>6. ASSUME NEW s \in sleeping, Remember(s) PROVE UsedUp' /\ OpeningUsedOnce'
  BY <1>6, TokensRest DEF Remember, machine, store, bounds, OpeningUsedOnce
<1>7. ASSUME NEW h \in finishing, AnswerFinalized(h) PROVE UsedUp' /\ OpeningUsedOnce'
  BY <1>7, TokensRest DEF AnswerFinalized, machine, store, bounds, OpeningUsedOnce
<1>8. ASSUME NEW h \in finishing, Settle(h) PROVE UsedUp' /\ OpeningUsedOnce'
  <2>1. PICK g \in Finisher :
          /\ finishing' = {g} /\ g.token = h.token /\ g.stage # "Store"
          /\ (h.stage = "Store" /\ StorePairing(h)) \/ UnpairPrevious(h)
    BY <1>8, SettlingProceeds
  <2>2. openings' = openings /\ attempt' = attempt /\ attempt = {}
    BY <1>8 DEF Settle, bounds, machine, OneAttempt
  <2>3. CASE UnpairPrevious(h)
    BY <2>1, <2>2, <2>3 DEF UnpairPrevious, UsedUp, OpeningUsedOnce
  <2>4. CASE h.stage = "Store" /\ StorePairing(h)
    <3>1. PICK n : /\ n.token = h.token /\ made' = made \cup {n}
      BY <2>4 DEF StorePairing
    <3>2. opening' = 0 /\ 0 < h.token /\ h.token <= openings /\ \A m \in made : m.token # h.token
      BY <2>4 DEF StorePairing, UsedUp
    <3>3. UsedUp'
      BY <1>0, <2>1, <2>2, <3>1, <3>2 DEF UsedUp
    <3> QED BY <3>1, <3>2, <3>3 DEF OpeningUsedOnce
  <2> QED BY <2>1, <2>3, <2>4
<1>9. ASSUME NEW q \in requests, Handle(q) PROVE UsedUp' /\ OpeningUsedOnce'
  <2>1. UNCHANGED <<opening, openings, made>>
    BY <1>9, HandlerSteps DEF ClientQuiet, store
  <2>2. CASE AcceptRequest(q)
    <3>1. PICK a : a.token = opening /\ attempt' = {a} /\ finishing' = finishing /\ opening # 0
      BY <2>2 DEF AcceptRequest
    <3> QED BY <1>0, <2>1, <3>1 DEF UsedUp, OpeningUsedOnce
  <2>3. CASE FinalizePairing(q)
    <3>1. PICK h \in Finisher : finishing' = {h} /\ \E a \in attempt : h.token = a.token
      BY <2>3, FinalizingStarts
    <3>2. attempt' = {}
      BY <2>3 DEF FinalizePairing, End
    <3> QED BY <2>1, <3>1, <3>2 DEF UsedUp, OpeningUsedOnce
  <2>4. CASE UNCHANGED handlers /\ ~AcceptRequest(q)
    <3>1. \A a \in attempt' : \E b \in attempt : a.token = b.token
      BY <1>0, <1>9, <2>4, HandlerMeetsMachine, VerificationChanges
      DEF MachineHandles, machine, RefuseRequest, End
    <3> QED BY <2>1, <2>4, <3>1, TokensRest DEF handlers, OpeningUsedOnce
  <2> QED BY <1>9, <2>2, <2>3, <2>4, HandlerSteps
<1> QED BY <1>1, <1>2, <1>3, <1>4, <1>5, <1>6, <1>7, <1>8, <1>9 DEF Next

-----------------------------------------------------------------------------
(* The one manager of a resource manager. *)

LEMMA SetupStays ==
  ASSUME [Next]_vars
  PROVE  UNCHANGED setup
<1>1. ASSUME NEW c \in Clients, ClientStep(c) PROVE UNCHANGED setup
  BY <1>1 DEF ClientStep, Start, Refused, NotAccepted, Accept, Finalize, Succeed, StepFailed, Abandoned,
              Server
<1>2. ASSUME NEW q \in requests, Handle(q) PROVE UNCHANGED setup
  BY <1>2 DEF Handle, TurnAway, RefuseRequest, AcceptRequest, Unauthorized, RefuseProof, VerifyClient,
              FinalizeNothing, FinalizePairing
<1> QED BY <1>1, <1>2 DEF Next, OpenForPairing, ClosePairing, vars, ServerRestart, Tick, GiveUp, Crash,
                          Remember, Settle, AnswerFinalized

\* The others go before the new one is told.
LEMMA StepKeepsLastManager ==
  ASSUME Typed, Knows, Owned, OneAttempt, LastManagerOnly, [Next]_vars
  PROVE  LastManagerOnly'
<1>1. role' = role /\ finishing \subseteq Finisher
  BY SetupStays DEF setup, Typed, ServerTypes
<1>2. CASE UNCHANGED paired /\ \A x \in finishing' : \E y \in finishing : x.stage = y.stage /\ x.c = y.c
  BY <1>1, <1>2 DEF LastManagerOnly
<1>3. CASE OpenForPairing \/ ClosePairing \/ UNCHANGED vars \/ ServerRestart \/ Tick
  BY <1>2, <1>3 DEF OpenForPairing, ClosePairing, vars, ServerRestart, Tick, handlers, store
<1>4. ASSUME NEW c \in Clients, ClientStep(c) PROVE LastManagerOnly'
  BY <1>2, <1>4, ClientSteps DEF ServerQuiet, handlers, store
<1>5. ASSUME NEW c \in Clients, GiveUp(c) \/ Crash(c) PROVE LastManagerOnly'
  <2>1. \A x \in finishing' : \E y \in finishing : Left(x, y, c)
    BY <1>1, <1>5, Leaving DEF GiveUp, Crash, Leave
  <2> QED BY <1>1, <1>2, <1>5, <2>1, LeftFinisher DEF GiveUp, Crash, store
<1>6. ASSUME NEW s \in sleeping, Remember(s) PROVE LastManagerOnly'
  BY <1>2, <1>6 DEF Remember, store
<1>7. ASSUME NEW h \in finishing, AnswerFinalized(h) PROVE LastManagerOnly'
  BY <1>2, <1>7 DEF AnswerFinalized, store
<1>8. ASSUME NEW q \in requests, Handle(q) PROVE LastManagerOnly'
  <2>1. paired' = paired
    BY <1>8, HandlerSteps DEF ClientQuiet, store
  <2>2. CASE FinalizePairing(q)
    BY <2>2, FinalizingStarts DEF LastManagerOnly
  <2> QED BY <1>2, <1>8, <2>1, <2>2, HandlerSteps DEF AcceptRequest, handlers
<1>9. ASSUME NEW h \in finishing, Settle(h) PROVE LastManagerOnly'
  <2>1. PICK g \in Finisher :
          /\ finishing' = {g} /\ g.c = h.c
          /\ \/ g.stage = IF role = "Rm" THEN "Unpair" ELSE "Answer"
             \/ UnpairPrevious(h)
    BY <1>9, SettlingProceeds
  <2> QED BY <1>1, <2>1 DEF UnpairPrevious, LastManagerOnly
<1> QED BY <1>3, <1>4, <1>5, <1>6, <1>7, <1>8, <1>9 DEF Next

-----------------------------------------------------------------------------
(* The router and the machine. *)

Agreement == ToldLater /\ RouterAgrees

\* The numbers and the identifiers it is about.
LEMMA RouterTypes ==
  ASSUME Typed
  PROVE  /\ now \in Nat /\ answers \in Nat /\ Budget \in Nat
         /\ \A e \in router : e.id \in Nat /\ e.expires \in Nat
         /\ \A a \in attempt : a.id \in Id /\ a.id \in Nat /\ a.started \in Nat /\ a.c \in Clients
         /\ \A s \in sleeping : s.id \in Id /\ s.id \in Nat /\ s.at \in Nat /\ s.c \in Clients
         /\ \A h \in finishing : h.id \in Id /\ h.id \in Nat /\ h.c \in Clients
BY PairingAssumption DEF Typed, ServerTypes, Attempt, Sleeper, Finisher, Id

\* An identifier that was handed out.
LEMMA HandedOut ==
  ASSUME Typed, Owned
  PROVE  /\ \A a \in attempt : a.id <= answers
         /\ \A s \in sleeping : s.id <= answers
         /\ \A h \in finishing : h.id <= answers
<1>1. \A a \in attempt : Claims(a.id, a.c)
  BY DEF Claims
<1>2. \A s \in sleeping : Claims(s.id, s.c)
  BY DEF Claims
<1>3. \A h \in finishing : Claims(h.id, h.c)
  BY DEF Claims
<1> QED BY <1>1, <1>2, <1>3, RouterTypes DEF Owned

\* Steps that leave both alone, and at most let entries, handlers and time go.
LEMMA AgreementRests ==
  ASSUME Typed, Agreement, UNCHANGED answers, now' \in Nat, now <= now',
         router' \subseteq router,
         \A s \in sleeping' : \E r \in sleeping : s.id = r.id /\ s.at = r.at,
         \A s, t \in sleeping' : s.id = t.id => s = t,
         \A a \in attempt' : \E b \in attempt : a.id = b.id /\ a.started = b.started,
         \A a \in attempt : \E b \in attempt' : a.id = b.id,
         \A h \in finishing : \/ \E g \in finishing' : h.id = g.id
                              \/ \A e \in router' : e.id # h.id
  PROVE  Agreement'
<1>1. ToldLater'
  <2>1. \A s \in sleeping' : \/ s.at + Budget < now'
                             \/ \E a \in attempt' : a.id = s.id
    BY RouterTypes DEF Agreement, ToldLater
  <2> QED BY <2>1 DEF Agreement, ToldLater
<1>2. RouterAgrees'
  <2> SUFFICES ASSUME NEW e \in router', e.expires > now'
               PROVE  \E x \in attempt' \cup finishing' : x.id = e.id
    BY DEF RouterAgrees, Live
  <2>1. e \in router /\ e.expires > now
    BY RouterTypes
  <2> QED BY <2>1 DEF Agreement, RouterAgrees, Live
<1> QED BY <1>1, <1>2 DEF Agreement

\* The attempt a request is authenticated for is known to the router, and in time.
LEMMA AuthenticatedInTime ==
  ASSUME Typed, OneAttempt, Agreement, NEW q, NEW a \in Authenticated(q)
  PROVE  /\ a \in attempt /\ a.id = q.id /\ attempt = {a} /\ finishing = {}
         /\ now < a.started + Budget /\ \A s \in sleeping : s.id # a.id
<1>1. a \in attempt /\ a.id = q.id /\ attempt = {a} /\ finishing = {}
  BY DEF Authenticated, OneAttempt
<1>2. PICK e \in router : e.id = a.id /\ e.expires > now
  BY DEF Authenticated, Routed
<1> QED BY <1>1, <1>2, RouterTypes DEF Agreement, ToldLater

\* When the attempt ends, all that is left of it is late or forgotten.
LEMMA AgreementEnds ==
  ASSUME Typed, OneAttempt, Agreement, NEW q, NEW a \in Authenticated(q), Forget(q), UNCHANGED <<sleeping, now, answers>>,
         attempt' = {}, finishing' = finishing
  PROVE  Agreement'
<1>1. /\ a \in attempt /\ a.id = q.id /\ attempt = {a} /\ finishing = {}
      /\ \A s \in sleeping : s.id # a.id
  BY AuthenticatedInTime
<1>2. ToldLater'
  BY <1>1 DEF Forget, Agreement, ToldLater
<1>3. RouterAgrees'
  BY <1>1 DEF Forget, Agreement, RouterAgrees, Live
<1> QED BY <1>2, <1>3 DEF Agreement

\* When the machine is free, what the router and the handlers have is too late.
LEMMA FreeMeansLate ==
  ASSUME Typed, OneAttempt, Agreement, ~Busy
  PROVE  /\ finishing = {} /\ \A e \in router : ~(e.expires > now)
         /\ \A s \in sleeping : s.at + Budget < now
<1>1. finishing = {}
  <2>1. finishing # {} => now \in finished
    BY DEF OneAttempt
  <2> QED BY <2>1, RouterTypes, Times DEF Busy
<1>2. \A a \in attempt : a.started + Budget < now
  BY RouterTypes DEF Busy
<1>3. ASSUME NEW e \in router, e.expires > now PROVE FALSE
  <2>1. PICK a \in attempt : a.id = e.id
    BY <1>1, <1>3 DEF Agreement, RouterAgrees, Live
  <2>2. e.expires = a.started + Budget
    BY <2>1 DEF Agreement, ToldLater
  <2> QED BY <1>2, <1>3, <2>2, RouterTypes
<1>4. ASSUME NEW s \in sleeping PROVE s.at + Budget < now
  BY <1>2 DEF Agreement, ToldLater
<1> QED BY <1>1, <1>3, <1>4

LEMMA HandlerAgrees ==
  ASSUME Typed, Owned, OneAttempt, Agreement, NEW q \in requests, Handle(q)
  PROVE  Agreement'
<1>0. now' = now
  BY HandlerSteps DEF ClientQuiet
<1>1. CASE TurnAway(q) \/ Unauthorized(q)
  <2>1. UNCHANGED <<attempt, sleeping, finishing, answers>> /\ router' \subseteq router
    BY <1>1 DEF TurnAway, Unauthorized, machine, handlers, Forget
  <2>2. \A s, t \in sleeping : s.id = t.id => s = t
    BY DEF Agreement, ToldLater
  <2> QED BY <1>0, <2>1, <2>2, AgreementRests, RouterTypes
<1>2. CASE RefuseRequest(q)
  <2>1. /\ ~Busy /\ UNCHANGED <<router, sleeping, finishing>> /\ attempt' = {} /\ answers' = answers + 1
    BY <1>2 DEF RefuseRequest, Answered, handlers
  <2>2. ToldLater'
    BY <1>0, <2>1, FreeMeansLate, RouterTypes DEF Agreement, ToldLater
  <2>3. RouterAgrees'
    BY <1>0, <2>1, FreeMeansLate DEF RouterAgrees, Live
  <2> QED BY <2>2, <2>3 DEF Agreement
<1>3. CASE AcceptRequest(q)
  <2> DEFINE s == [id |-> answers + 1, c |-> q.c, token |-> opening, at |-> now, live |-> q.live]
             a == [id |-> answers + 1, c |-> q.c, token |-> opening, started |-> now,
                   details |-> FALSE, verified |-> FALSE]
  <2>1. /\ ~Busy /\ router' = router /\ attempt' = {a} /\ sleeping' = sleeping \cup {s}
        /\ answers' = answers + 1
    BY <1>3 DEF AcceptRequest, Answered
  <2>2. s.id = answers + 1 /\ s.at = now /\ a.id = answers + 1 /\ a.started = now
    OBVIOUS
  <2> HIDE DEF s, a
  <2>3. /\ \A r \in sleeping : r.id # answers + 1 /\ r.at + Budget < now
        /\ \A e \in router : e.id # answers + 1 /\ ~(e.expires > now)
    BY <2>1, FreeMeansLate, HandedOut, RouterTypes DEF Agreement, ToldLater
  <2>4. ToldLater'
    <3>1. \A r \in sleeping' : \/ r.at + Budget < now'
                               \/ \E b \in attempt' : b.id = r.id
      BY <1>0, <2>1, <2>2, <2>3
    <3>2. \A r \in sleeping', b \in attempt' : b.id = r.id => b.started = r.at
      BY <2>1, <2>2, <2>3
    <3>3. \A r, t \in sleeping' : r.id = t.id => r = t
      BY <2>1, <2>2, <2>3 DEF Agreement, ToldLater
    <3>4. \A r \in sleeping', e \in router' : e.id # r.id
      BY <2>1, <2>2, <2>3 DEF Agreement, ToldLater
    <3>5. \A e \in router' : e.id <= answers'
      BY <2>1, RouterTypes DEF Agreement, ToldLater
    <3>6. \A e \in router', b \in attempt' : e.id = b.id => e.expires = b.started + Budget
      BY <2>1, <2>2, <2>3
    <3> QED BY <3>1, <3>2, <3>3, <3>4, <3>5, <3>6 DEF ToldLater
  <2>5. RouterAgrees'
    BY <1>0, <2>1, <2>3 DEF RouterAgrees, Live
  <2> QED BY <2>4, <2>5 DEF Agreement
<1>4. CASE VerifyClient(q)
  <2>1. UNCHANGED <<router, sleeping, finishing, answers>>
    BY <1>4 DEF VerifyClient, handlers
  <2>2. PICK a \in attempt, b \in attempt' : attempt' = {b} /\ b.id = a.id /\ b.started = a.started
    BY <1>4, VerificationChanges DEF Typed, ServerTypes
  <2>3. attempt = {a} /\ \A s, t \in sleeping : s.id = t.id => s = t
    BY DEF OneAttempt, Agreement, ToldLater
  <2> QED BY <1>0, <2>1, <2>2, <2>3, AgreementRests, RouterTypes
<1>5. CASE RefuseProof(q)
  <2>1. PICK a \in Authenticated(q) :
          /\ End /\ UNCHANGED handlers
          /\ IF now - a.started > Budget THEN UNCHANGED router ELSE Forget(q)
    BY <1>5 DEF RefuseProof
  <2>2. ~(now - a.started > Budget)
    BY AuthenticatedInTime, RouterTypes
  <2> QED BY <1>0, <2>1, <2>2, AgreementEnds DEF End, handlers
<1>6. CASE FinalizeNothing(q)
  <2>1. PICK a \in Authenticated(q) : End /\ UNCHANGED handlers /\ Forget(q)
    BY <1>6 DEF FinalizeNothing
  <2> QED BY <1>0, <2>1, AgreementEnds DEF End, handlers
<1>7. CASE FinalizePairing(q)
  <2>1. PICK h \in Finisher : finishing' = {h} /\ h.id = q.id
    BY <1>7, FinalizingStarts
  <2>2. PICK a \in Authenticated(q) :
          attempt' = {} /\ answers' = answers /\ router' = router /\ sleeping' = sleeping
    BY <1>7 DEF FinalizePairing, End
  <2>3. a.id = q.id /\ attempt = {a} /\ finishing = {} /\ \A s \in sleeping : s.id # a.id
    BY AuthenticatedInTime
  <2>4. ToldLater'
    BY <1>0, <2>2, <2>3 DEF Agreement, ToldLater
  <2>5. RouterAgrees'
    BY <1>0, <2>1, <2>2, <2>3 DEF Agreement, RouterAgrees, Live
  <2> QED BY <2>4, <2>5 DEF Agreement
<1> QED BY <1>1, <1>2, <1>3, <1>4, <1>5, <1>6, <1>7 DEF Handle

LEMMA RememberingAgrees ==
  ASSUME Typed, Owned, Agreement, NEW s \in sleeping, Remember(s)
  PROVE  Agreement'
<1> DEFINE new == [id |-> s.id, expires |-> s.at + Budget]
<1>1. /\ UNCHANGED <<now, answers, attempt, finishing>> /\ sleeping' = sleeping \ {s}
      /\ \A e \in router' : e \in router \/ e = new
  BY DEF Remember, machine
<1>2. new.id = s.id /\ new.expires = s.at + Budget
  OBVIOUS
<1> HIDE DEF new
<1>3. ToldLater'
  <2>1. \A r \in sleeping', e \in router' : e.id # r.id
    BY <1>1, <1>2 DEF Agreement, ToldLater
  <2>2. \A e \in router' : e.id <= answers'
    BY <1>1, <1>2, HandedOut DEF Agreement, ToldLater
  <2>3. \A e \in router', a \in attempt' : e.id = a.id => e.expires = a.started + Budget
    BY <1>1, <1>2 DEF Agreement, ToldLater
  <2> QED BY <1>1, <2>1, <2>2, <2>3 DEF Agreement, ToldLater
<1>4. RouterAgrees'
  <2> SUFFICES ASSUME NEW e \in router', e.expires > now
               PROVE  \E x \in attempt \cup finishing : x.id = e.id
    BY <1>1 DEF RouterAgrees, Live
  <2>1. CASE e \in router
    BY <2>1 DEF Agreement, RouterAgrees, Live
  <2>2. CASE e = new
    BY <1>2, <2>2, RouterTypes DEF Agreement, ToldLater
  <2> QED BY <1>1, <2>1, <2>2
<1> QED BY <1>3, <1>4 DEF Agreement

LEMMA LeavingAgrees ==
  ASSUME Typed, Agreement, NEW c \in Clients, GiveUp(c) \/ Crash(c)
  PROVE  Agreement'
<1>1. sleeping \subseteq Sleeper /\ finishing \subseteq Finisher
  BY DEF Typed, ServerTypes
<1>2. /\ UNCHANGED <<attempt, answers, router, now>> /\ Leave(c)
  BY DEF GiveUp, Crash, machine
<1>3. \A x \in sleeping' : \E y \in sleeping : Left(x, y, c) /\ x.id = y.id /\ x.at = y.at /\ x.c = y.c
  <2>1. \A x \in sleeping' : \E y \in sleeping : Left(x, y, c)
    BY <1>1, <1>2, Leaving DEF Leave
  <2> QED BY <1>1, <2>1, LeftSleeper
<1>4. ASSUME NEW x \in sleeping', NEW z \in sleeping', x.id = z.id PROVE x = z
  <2>1. PICK y \in sleeping : Left(x, y, c) /\ x.id = y.id /\ x.c = y.c
    BY <1>3
  <2>2. PICK w \in sleeping : Left(z, w, c) /\ z.id = w.id /\ z.c = w.c
    BY <1>3
  <2>3. y = w /\ y \in Sleeper
    BY <1>1, <1>4, <2>1, <2>2 DEF Agreement, ToldLater
  <2>4. y.live \/ [y EXCEPT !.live = FALSE] = y
    <3>1. y.live \in BOOLEAN
      BY <2>3 DEF Sleeper
    <3> QED BY <2>3, <3>1 DEF Sleeper
  <2> DEFINE gone == [y EXCEPT !.live = FALSE]
  <2>5. Left(x, y, c) /\ Left(z, y, c) /\ x.c = z.c
    BY <2>1, <2>2, <2>3
  <2>6. /\ (x = y /\ (x.c # c \/ ~x.live)) \/ (x = gone /\ x.c = c)
        /\ (z = y /\ (z.c # c \/ ~z.live)) \/ (z = gone /\ z.c = c)
    BY <2>5 DEF Left
  <2>7. y.live \/ gone = y
    BY <2>4
  <2> HIDE DEF gone
  <2> QED BY <2>5, <2>6, <2>7
<1>5. \A h \in finishing : \E g \in finishing' : h.id = g.id
  BY <1>1, <1>2, OrphansRemain DEF Leave
<1> QED BY <1>2, <1>3, <1>4, <1>5, AgreementRests, RouterTypes

LEMMA StepAgrees ==
  ASSUME Typed, Knows, Owned, OneAttempt, Agreement, [Next]_vars
  PROVE  Agreement'
<1>0. /\ now \in Nat /\ \A s, t \in sleeping : s.id = t.id => s = t
  BY RouterTypes DEF Agreement, ToldLater
<1>1. CASE OpenForPairing \/ ClosePairing \/ UNCHANGED vars \/ Tick
  <2>1. UNCHANGED <<router, sleeping, finishing, attempt, answers>> /\ now' \in Nat /\ now <= now'
    BY <1>0, <1>1 DEF OpenForPairing, ClosePairing, vars, Tick, machine, handlers
  <2> QED BY <1>0, <2>1, AgreementRests
<1>2. CASE ServerRestart
  BY <1>2 DEF ServerRestart, Agreement, ToldLater, RouterAgrees
<1>3. ASSUME NEW c \in Clients, ClientStep(c) PROVE Agreement'
  <2>1. UNCHANGED <<router, sleeping, finishing, attempt, answers, now>>
    BY <1>3, ClientSteps DEF ServerQuiet, machine, handlers
  <2> QED BY <1>0, <2>1, AgreementRests
<1>4. ASSUME NEW h \in finishing, Settle(h) PROVE Agreement'
  <2>1. UNCHANGED <<router, sleeping, attempt, answers, now>>
    BY <1>4 DEF Settle, machine
  <2>2. finishing = {h} /\ \E g \in finishing' : g.id = h.id
    BY <1>4, SettlingProceeds DEF OneAttempt
  <2> QED BY <1>0, <2>1, <2>2, AgreementRests
<1>5. ASSUME NEW h \in finishing, AnswerFinalized(h) PROVE Agreement'
  <2>1. /\ UNCHANGED <<sleeping, attempt, answers, now>> /\ finishing = {h}
        /\ router' = {e \in router : e.id # h.id}
    BY <1>5 DEF AnswerFinalized, ForgetFinalized, Forget, machine, OneAttempt
  <2> QED BY <1>0, <2>1, AgreementRests
<1> QED BY <1>1, <1>2, <1>3, <1>4, <1>5, HandlerAgrees, RememberingAgrees, LeavingAgrees DEF Next

-----------------------------------------------------------------------------
(* Where nothing is lost. *)

\* What waits for an answer, and whoever is going to give it.
LEMMA AnswerableMeans ==
  ASSUME Typed, Answerable
  PROVE  /\ \A q \in requests : q.live /\ q.c \in Clients
         /\ \A s \in sleeping : s.live /\ s.c \in Clients
         /\ \A h \in finishing : h.live /\ h.c \in Clients
         /\ \A c \in Clients : Stable(c)
         /\ phase \in [Clients -> Phases] /\ held \in [Clients -> SUBSET Nat]
         /\ reply \in [Clients -> [status : {"None", "Ok", "Refused"}, id : Nat, token : Nat]]
<1>1. ASSUME NEW c \in Clients PROVE Stable(c)
  <2>1. seen[c] = {} \/ seen[c] = {1}
    <3>1. seen[c] \subseteq {1}
      BY DEF Answerable
    <3> QED BY <3>1
  <2>2. Cardinality({}) = 0 /\ Cardinality({1}) = 1
    BY FS_EmptySet, FS_Singleton
  <2> QED BY <2>1, <2>2 DEF Stable
<1> QED BY <1>1 DEF Answerable, Typed, ClientTypes, ServerTypes, Request, Sleeper, Finisher

\* Steps after which whoever waited still does, or has an answer.
LEMMA StillAnswerable ==
  ASSUME Typed, Answerable, UNCHANGED <<leaf, seen>>,
         \A q \in requests' : q.live, \A s \in sleeping' : s.live, \A h \in finishing' : h.live,
         \A c \in Clients : phase'[c] # "Idle" /\ reply'[c].status = "None" =>
           /\ phase[c] # "Idle" /\ reply[c].status = "None"
           /\ \A x \in requests \cup sleeping \cup finishing : x.c = c =>
                \E y \in requests' \cup sleeping' \cup finishing' : y.c = c
  PROVE  Answerable'
<1>1. ASSUME NEW c \in Clients, phase'[c] # "Idle", reply'[c].status = "None"
      PROVE  \E y \in requests' \cup sleeping' \cup finishing' : y.c = c
  <2>1. \E x \in requests \cup sleeping \cup finishing : x.c = c
    BY <1>1 DEF Answerable
  <2> QED BY <1>1, <2>1
<1> QED BY <1>1 DEF Answerable

LEMMA ClientStepAnswerable ==
  ASSUME Typed, Knows, Answerable, NEW c \in Clients, ClientStep(c)
  PROVE  Answerable'
<1>1. ServerQuiet /\ UNCHANGED <<leaf, sleeping, finishing>>
  BY ClientSteps DEF ServerQuiet, handlers
<1>2. CASE Returns(c)
  <2>1. /\ UNCHANGED <<seen, requests>> /\ phase'[c] = "Idle"
        /\ \A d \in Clients \ {c} : phase'[d] = phase[d] /\ reply'[d] = reply[d]
    BY <1>2, AnswerableMeans DEF Returns
  <2>2. /\ \A q \in requests' : q.live
        /\ \A s \in sleeping' : s.live
        /\ \A h \in finishing' : h.live
    BY <1>1, <2>1, AnswerableMeans
  <2>3. \A d \in Clients : phase'[d] # "Idle" /\ reply'[d].status = "None" =>
          phase[d] # "Idle" /\ reply[d].status = "None"
    BY <2>1
  <2> QED BY <1>1, <2>1, <2>2, <2>3, StillAnswerable
<1>3. ASSUME NEW op, NEW i, NEW token, NEW ok, NEW at, Posted(c, op, i, token, ok, at)
      PROVE  Answerable'
  <2> DEFINE p == [c |-> c, op |-> op, id |-> i, token |-> token, ok |-> ok, live |-> TRUE]
  <2>1. requests' = requests \cup {p} /\ p.c = c /\ p.live
    BY <1>3 DEF Posted
  <2> HIDE DEF p
  <2>2. seen' \in [Clients -> SUBSET {1}]
    BY <1>3 DEF Posted, Answerable
  <2>3. \A d \in Clients \ {c} : phase'[d] = phase[d] /\ reply'[d] = reply[d]
    BY <1>3, AnswerableMeans DEF Posted
  <2>4. ASSUME NEW d \in Clients, phase'[d] # "Idle", reply'[d].status = "None"
        PROVE  \/ \E q \in requests' : q.c = d
               \/ \E s \in sleeping' : s.c = d
               \/ \E h \in finishing' : h.c = d
    <3>1. CASE d = c
      BY <2>1, <3>1
    <3>2. CASE d # c
      BY <1>1, <2>1, <2>3, <2>4, <3>2 DEF Answerable
    <3> QED BY <3>1, <3>2
  <2> QED BY <1>1, <2>1, <2>2, <2>4 DEF Answerable
<1>4. CASE Starts(c)
  BY <1>3, <1>4 DEF Starts
<1>5. CASE Proves(c)
  BY <1>3, <1>5 DEF Proves
<1>6. CASE Finalizes(c)
  BY <1>3, <1>6 DEF Finalizes
<1>7. CASE GivesBack(c)
  BY <1>3, <1>7 DEF GivesBack
<1> QED BY <1>2, <1>4, <1>5, <1>6, <1>7, ClientSteps

LEMMA HandlerAnswerable ==
  ASSUME Typed, Owned, OneAttempt, Answerable, NEW q \in requests, Handle(q)
  PROVE  Answerable'
<1>1. UNCHANGED <<leaf, seen, phase>> /\ requests' = requests \ {q}
  BY HandlerSteps DEF ClientQuiet, Client
<1>2. q.live /\ q.c \in Clients
  BY AnswerableMeans
<1>3. CASE Served(q) /\ UNCHANGED handlers
  <2>1. PICK status \in {"Ok", "Refused"} :
          /\ reply'[q.c].status = status
          /\ \A d \in Clients \ {q.c} : reply'[d] = reply[d]
    BY <1>2, <1>3, AnswerableMeans DEF Served, Respond
  <2>2. \A d \in Clients : reply'[d].status = "None" => d # q.c /\ reply[d].status = "None"
    BY <2>1
  <2>3. /\ \A r \in requests' : r.live
        /\ \A s \in sleeping' : s.live
        /\ \A h \in finishing' : h.live
    BY <1>1, <1>3, AnswerableMeans DEF handlers
  <2> QED BY <1>1, <1>3, <2>2, <2>3, StillAnswerable DEF handlers
<1>4. CASE AcceptRequest(q)
  <2>1. PICK s : s.c = q.c /\ s.live = q.live /\ sleeping' = sleeping \cup {s}
    BY <1>4 DEF AcceptRequest
  <2>2. finishing' = finishing /\ reply' = reply
    BY <1>4 DEF AcceptRequest
  <2>3. /\ \A r \in requests' : r.live
        /\ \A t \in sleeping' : t.live
        /\ \A h \in finishing' : h.live
    BY <1>1, <1>2, <2>1, <2>2, AnswerableMeans
  <2> QED BY <1>1, <2>1, <2>2, <2>3, StillAnswerable
<1>5. CASE FinalizePairing(q)
  <2>1. PICK h \in Finisher : finishing' = {h} /\ h.c = q.c /\ h.live = q.live
    BY <1>5, FinalizingStarts
  <2>2. finishing = {} /\ sleeping' = sleeping /\ reply' = reply
    BY <1>5 DEF FinalizePairing, Authenticated, OneAttempt
  <2>3. /\ \A r \in requests' : r.live
        /\ \A t \in sleeping' : t.live
        /\ \A g \in finishing' : g.live
    BY <1>1, <1>2, <2>1, <2>2, AnswerableMeans
  <2> QED BY <1>1, <2>1, <2>2, <2>3, StillAnswerable
<1> QED BY <1>3, <1>4, <1>5, HandlerSteps

LEMMA LaterAnswerAnswerable ==
  ASSUME Typed, OneAttempt, Answerable,
         (\E s \in sleeping : Remember(s)) \/ (\E h \in finishing : Settle(h) \/ AnswerFinalized(h))
  PROVE  Answerable'
<1>1. ASSUME NEW s \in sleeping, Remember(s) PROVE Answerable'
  <2>1. /\ UNCHANGED <<leaf, seen, phase, requests, finishing>> /\ sleeping' = sleeping \ {s}
        /\ Respond(s, "Ok", s.id, s.token)
    BY <1>1 DEF Remember, Client
  <2>2. s.live /\ s.c \in Clients
    BY AnswerableMeans
  <2>3. \A d \in Clients : reply'[d].status = "None" => d # s.c /\ reply[d].status = "None"
    BY <2>1, <2>2, AnswerableMeans DEF Respond
  <2>4. /\ \A r \in requests' : r.live
        /\ \A t \in sleeping' : t.live
        /\ \A h \in finishing' : h.live
    BY <2>1, AnswerableMeans
  <2> QED BY <2>1, <2>3, <2>4, StillAnswerable
<1>2. ASSUME NEW h \in finishing, AnswerFinalized(h) PROVE Answerable'
  <2>1. /\ UNCHANGED <<leaf, seen, phase, requests, sleeping>> /\ finishing' = finishing \ {h}
        /\ Respond(h, "Ok", h.id, 0)
    BY <1>2 DEF AnswerFinalized, Client
  <2>2. h.live /\ h.c \in Clients
    BY AnswerableMeans
  <2>3. \A d \in Clients : reply'[d].status = "None" => d # h.c /\ reply[d].status = "None"
    BY <2>1, <2>2, AnswerableMeans DEF Respond
  <2>4. /\ \A r \in requests' : r.live
        /\ \A t \in sleeping' : t.live
        /\ \A g \in finishing' : g.live
    BY <2>1, AnswerableMeans
  <2> QED BY <2>1, <2>3, <2>4, StillAnswerable
<1>3. ASSUME NEW h \in finishing, Settle(h) PROVE Answerable'
  <2>1. UNCHANGED <<leaf, seen, phase, reply, requests, sleeping>>
    BY <1>3 DEF Settle, Client, client, wire
  <2>2. PICK g \in Finisher : finishing' = {g} /\ g.c = h.c /\ g.live = h.live
    BY <1>3, SettlingProceeds
  <2>3. finishing = {h}
    BY DEF OneAttempt
  <2>4. /\ \A r \in requests' : r.live
        /\ \A t \in sleeping' : t.live
        /\ \A x \in finishing' : x.live
    BY <2>1, <2>2, <2>3, AnswerableMeans
  <2> QED BY <2>1, <2>2, <2>3, <2>4, StillAnswerable
<1> QED BY <1>1, <1>2, <1>3

\* Nobody gives up on whom somebody is going to answer.
LEMMA NobodyGivesUp ==
  ASSUME Typed, Answerable, NEW c \in Clients, GiveUp(c)
  PROVE  faults' = faults + 1
<1>1. phase[c] # "Idle" /\ reply[c].status = "None"
  BY DEF GiveUp, Waiting, NoReply
<1>2. ~Forgotten(c)
  BY <1>1, AnswerableMeans DEF Answerable, Forgotten
<1> QED BY <1>2 DEF GiveUp, Fault

InPursuit(a) == Chased(a) /\ Reachable(a)
AllPursued == \A a \in attempt : now - a.started < Budget => InPursuit(a)

\* A step that does nothing to an attempt or to its client.
LEMMA StillPursued ==
  ASSUME NEW a, InPursuit(a), phase'[a.c] = phase[a.c], reply'[a.c] = reply[a.c], held'[a.c] = held[a.c],
         \A s \in sleeping : s.id = a.id => \E t \in sleeping' : t.id = a.id,
         \A e \in router : e.id = a.id => \E t \in router' : t.id = a.id
  PROVE  InPursuit(a)'
BY DEF InPursuit, Chased, Reachable

\* Whose client's second is not over yet is pursued by the handler.
LEMMA SleeperPursues ==
  ASSUME NEW a, \E s \in sleeping' : s.id = a.id
  PROVE  InPursuit(a)'
BY DEF InPursuit, Chased, Reachable

\* A client that asks for the next step of its attempt is after it.
LEMMA PostedPursues ==
  ASSUME Typed, NEW a \in attempt, NEW op, NEW token, NEW ok,
         NEW at \in {"Authenticated", "DetailsExchanged", "Paired", "Abandoning"},
         Posted(a.c, op, a.id, token, ok, at)
  PROVE  Chased(a)'
<1>1. phase'[a.c] = at /\ held'[a.c] = {a.id} /\ reply'[a.c].status = "None"
  BY RouterTypes DEF Posted, NoReply, Id, Typed, ClientTypes
<1> QED BY <1>1 DEF Chased

LEMMA ClientStepPursues ==
  ASSUME Typed, Knows, Answerable, AllPursued, NEW c \in Clients, ClientStep(c)
  PROVE  AllPursued'
<1>1. UNCHANGED <<attempt, now, router, sleeping>>
  BY ClientSteps DEF ServerQuiet, machine, handlers
<1> SUFFICES ASSUME NEW a \in attempt, InPursuit(a) PROVE InPursuit(a)'
  BY <1>1 DEF AllPursued
<1>2. CASE \E s \in sleeping : s.id = a.id
  BY <1>1, <1>2, SleeperPursues
<1>3. /\ a.c \in Clients /\ reply[c].id \in Nat /\ Stable(c)
      /\ phase \in [Clients -> Phases] /\ held \in [Clients -> SUBSET Nat]
      /\ reply \in [Clients -> [status : {"None", "Ok", "Refused"}, id : Nat, token : Nat]]
  BY AnswerableMeans, RouterTypes
<1>4. CASE a.c # c
  <2>1. phase'[a.c] = phase[a.c] /\ reply'[a.c] = reply[a.c] /\ held'[a.c] = held[a.c]
    BY <1>3, <1>4, ClientSteps DEF Starts, Proves, Finalizes, GivesBack, Returns, Posted
  <2> QED BY <1>1, <2>1, StillPursued
<1>5. CASE a.c = c /\ ~\E s \in sleeping : s.id = a.id
  <2>1. Reachable(a)' /\ Chased(a)
    BY <1>1 DEF InPursuit, Reachable
  <2>2. \/ phase[c] = "AwaitingAcceptance" /\ reply[c].status = "Ok" /\ reply[c].id = a.id
        \/ phase[c] \in {"Authenticated", "DetailsExchanged"} /\ held[c] = {a.id}
        \/ phase[c] = "Paired" /\ held[c] = {a.id} /\ reply[c].status # "Ok"
        \/ phase[c] = "Abandoning" /\ held[c] = {a.id} /\ reply[c].status = "None"
    BY <1>5, <2>1 DEF Chased
  <2>3. ASSUME NEW op, NEW token, NEW ok,
               NEW at \in {"Authenticated", "DetailsExchanged", "Paired", "Abandoning"},
               Posted(c, op, a.id, token, ok, at)
        PROVE  InPursuit(a)'
    <3>1. Posted(a.c, op, a.id, token, ok, at)
      BY <1>5, <2>3
    <3> QED BY <2>1, <3>1, PostedPursues DEF InPursuit
  <2>4. CASE Starts(c)
    BY <2>2, <2>4 DEF Starts
  <2>5. CASE Proves(c)
    <3>1. reply[c].id = a.id /\ reply[c].id \in Id
      BY <2>2, <2>5 DEF Proves, Knows
    <3>2. CASE Posted(c, "post", a.id, code[c], TRUE, "DetailsExchanged")
      BY <2>3, <3>2
    <3>3. CASE Posted(c, "details", a.id, code[c], TRUE, "Authenticated")
      BY <2>3, <3>3
    <3> QED BY <2>5, <3>1, <3>2, <3>3 DEF Proves
  <2>6. CASE Finalizes(c)
    <3>1. PICK i \in held[c] : Posted(c, "finalize", i, 0, TRUE, "Paired")
      BY <2>6 DEF Finalizes
    <3>2. i = a.id
      BY <2>2, <2>6, <3>1 DEF Finalizes
    <3>3. Posted(c, "finalize", a.id, 0, TRUE, "Paired")
      BY <3>1, <3>2
    <3> QED BY <2>3, <3>3
  <2>7. CASE GivesBack(c)
    <3>1. PICK i \in Id :
            /\ \/ phase[c] = "AwaitingAcceptance" /\ reply[c].status = "Ok" /\ reply[c].id = i
               \/ phase[c] \in {"Authenticated", "DetailsExchanged"} /\ held[c] = {i}
               \/ phase[c] = "Paired" /\ reply[c].status = "Refused" /\ held[c] = {i}
            /\ Posted(c, "finalize", i, 0, FALSE, "Abandoning")
      BY <2>7 DEF GivesBack
    <3>2. i = a.id
      <4>1. {i} = {a.id} => i = a.id
        OBVIOUS
      <4> QED BY <2>2, <3>1, <4>1
    <3>3. Posted(c, "finalize", a.id, 0, FALSE, "Abandoning")
      BY <3>1, <3>2
    <3> QED BY <2>3, <3>3
  <2>8. CASE Returns(c)
    BY <1>3, <2>2, <2>8 DEF Returns
  <2> QED BY <2>1, <2>4, <2>5, <2>6, <2>7, <2>8, ClientSteps DEF InPursuit
<1> QED BY <1>2, <1>4, <1>5

LEMMA HandlerPursues ==
  ASSUME Typed, Owned, OneAttempt, Awaited, Agreement, Answerable, AllPursued, NEW q \in requests, Handle(q)
  PROVE  AllPursued'
<1>0. /\ q.live /\ q.c \in Clients /\ Fits(q) /\ reply[q.c].status = "None"
      /\ UNCHANGED <<phase, held, now>>
  BY AnswerableMeans, HandlerSteps DEF Awaited, ClientQuiet, Client
<1>1. CASE attempt' = {}
  BY <1>1 DEF AllPursued
<1>2. CASE AcceptRequest(q)
  <2> DEFINE s == [id |-> answers + 1, c |-> q.c, token |-> opening, at |-> now, live |-> q.live]
  <2>1. s \in sleeping' /\ s.id = answers + 1 /\ \A a \in attempt' : a.id = answers + 1
    BY <1>2 DEF AcceptRequest
  <2>2. \A a \in attempt' : \E t \in sleeping' : t.id = a.id
    BY <2>1
  <2> QED BY <2>2, SleeperPursues DEF AllPursued
<1>3. ASSUME TurnAway(q) \/ Unauthorized(q), NEW a \in attempt, now - a.started < Budget
      PROVE  InPursuit(a)'
  <2>1. /\ InPursuit(a) /\ a.c \in Clients /\ sleeping' = sleeping
        /\ reply \in [Clients -> [status : {"None", "Ok", "Refused"}, id : Nat, token : Nat]]
    BY <1>3, RouterTypes, AnswerableMeans DEF AllPursued, TurnAway, Unauthorized, handlers
  <2>2. CASE \E s \in sleeping : s.id = a.id
    BY <2>1, <2>2, SleeperPursues
  <2>3. CASE a.c # q.c
    <3>1. reply'[a.c] = reply[a.c]
      BY <1>3, <2>1, <2>3 DEF TurnAway, Unauthorized, Refuse, Respond
    <3>2. a.id # q.id
      BY <2>3, AttemptIsOfRequest
    <3>3. \A e \in router : e.id = a.id => e \in router'
      BY <1>3, <3>2 DEF TurnAway, Unauthorized, Forget
    <3> QED BY <1>0, <2>1, <3>1, <3>3, StillPursued
  <2>4. CASE a.c = q.c /\ ~\E s \in sleeping : s.id = a.id
    <3>1. Chased(a) /\ \E e \in router : e.id = a.id
      BY <2>1, <2>4 DEF InPursuit, Reachable
    <3>2. phase[q.c] \in {"Authenticated", "DetailsExchanged", "Paired", "Abandoning"} /\ held[q.c] = {a.id}
      BY <1>0, <2>4, <3>1 DEF Chased
    <3>3. Unauthorized(q) /\ held[q.c] = {q.id}
      BY <1>0, <1>3, <3>2 DEF TurnAway, Fits
    <3>4. a.id = q.id
      BY <3>2, <3>3
    <3>5. Routed(q)
      <4>1. PICK e \in router : e.id = a.id
        BY <3>1
      <4>2. e.expires = a.started + Budget
        BY <4>1 DEF Agreement, ToldLater
      <4> QED BY <1>3, <3>4, <4>1, <4>2, RouterTypes DEF Routed
    <3> QED BY <3>3, <3>4, <3>5 DEF Unauthorized, Authenticated
  <2> QED BY <2>2, <2>3, <2>4
<1>4. CASE VerifyClient(q)
  <2>1. PICK a \in attempt, b \in Attempt :
          a.id = q.id /\ attempt' = {b} /\ b.id = a.id /\ b.c = a.c /\ b.started = a.started
    BY <1>4, VerificationChanges DEF Typed, ServerTypes
  <2>2. b.c = q.c
    BY <2>1, AttemptIsOfRequest
  <2>3. UNCHANGED <<sleeping, router>> /\ q.op \in {"details", "post"}
    BY <1>4 DEF VerifyClient, handlers
  <2>4. Chased(b)'
    <3>1. phase'[b.c] \in {"Authenticated", "DetailsExchanged"} /\ held'[b.c] = {b.id}
      BY <1>0, <2>1, <2>2, <2>3 DEF Fits
    <3> QED BY <3>1 DEF Chased
  <2>5. now - a.started < Budget => Reachable(b)'
    BY <2>1, <2>3 DEF AllPursued, InPursuit, Reachable
  <2> QED BY <1>0, <2>1, <2>4, <2>5 DEF AllPursued, InPursuit
<1>5. CASE TurnAway(q) \/ Unauthorized(q)
  <2>1. attempt' = attempt
    BY <1>5 DEF TurnAway, Unauthorized, machine
  <2> QED BY <1>0, <1>3, <1>5, <2>1 DEF AllPursued
<1> QED BY <1>1, <1>2, <1>4, <1>5 DEF Handle, RefuseRequest, RefuseProof, FinalizeNothing, FinalizePairing, End

LEMMA RememberingPursues ==
  ASSUME Typed, Owned, Awaited, Agreement, Answerable, AllPursued, NEW s \in sleeping, Remember(s)
  PROVE  AllPursued'
<1>1. /\ UNCHANGED <<attempt, now, phase, held>> /\ sleeping' = sleeping \ {s}
      /\ [id |-> s.id, expires |-> s.at + Budget] \in router'
      /\ \A e \in router : e.expires > s.at => e \in router'
      /\ now >= s.at + Delay
      /\ Respond(s, "Ok", s.id, s.token)
  BY DEF Remember, machine, Client
<1>2. /\ s.live /\ s.c \in Clients /\ reply[s.c].status = "None" /\ phase[s.c] = "AwaitingAcceptance"
      /\ reply \in [Clients -> [status : {"None", "Ok", "Refused"}, id : Nat, token : Nat]]
  BY AnswerableMeans DEF Awaited
<1> SUFFICES ASSUME NEW a \in attempt, now - a.started < Budget, InPursuit(a) PROVE InPursuit(a)'
  BY <1>1 DEF AllPursued
<1>3. CASE a.id = s.id
  <2>1. a.c = s.c
    <3>1. Claims(a.id, a.c) /\ Claims(a.id, s.c)
      BY <1>3 DEF Claims
    <3> QED BY <1>2, <3>1, RouterTypes DEF Owned
  <2>2. reply'[s.c].status = "Ok" /\ reply'[s.c].id = s.id
    BY <1>1, <1>2 DEF Respond
  <2>3. Chased(a)' /\ Reachable(a)'
    BY <1>1, <1>2, <1>3, <2>1, <2>2 DEF Chased, Reachable
  <2> QED BY <2>3 DEF InPursuit
<1>4. CASE \E t \in sleeping : t.id = a.id /\ t # s
  BY <1>1, <1>4, SleeperPursues
<1>5. CASE ~\E t \in sleeping : t.id = a.id
  <2>1. a.c # s.c
    BY <1>2, <1>5 DEF InPursuit, Chased
  <2>2. reply'[a.c] = reply[a.c]
    BY <1>1, <1>2, <2>1, RouterTypes DEF Respond
  <2>3. \A e \in router : e.id = a.id => e \in router'
    <3>1. ASSUME NEW e \in router, e.id = a.id PROVE e.expires > s.at
      <4>1. e.expires = a.started + Budget
        BY <3>1 DEF Agreement, ToldLater
      <4> QED BY <1>1, <4>1, RouterTypes, Times
    <3> QED BY <1>1, <3>1
  <2> QED BY <1>1, <1>5, <2>2, <2>3, StillPursued
<1> QED BY <1>3, <1>4, <1>5

\* Failures count, so that nothing is lost later either.
LEMMA StepLosesNothing ==
  ASSUME Typed, Knows, Owned, OneAttempt, Awaited, Agreement, NothingLost, [Next]_vars
  PROVE  NothingLost'
<1>0. faults \in Nat /\ now \in Nat
  BY DEF Typed, ServerTypes
<1>1. ASSUME NEW c \in Clients, GiveUp(c) \/ Crash(c), faults' = 0 PROVE FALSE
  <2>1. faults' = faults \/ faults' = faults + 1
    BY <1>1 DEF GiveUp, Crash, Fault
  <2>2. Answerable
    BY <1>0, <1>1, <2>1 DEF NothingLost
  <2>3. faults' = faults + 1
    BY <1>1, <2>2, NobodyGivesUp DEF Crash, Fault
  <2> QED BY <1>0, <1>1, <2>3
<1>2. CASE ServerRestart
  BY <1>0, <1>2 DEF ServerRestart, Fault, NothingLost
<1>3. faults' = 0 => faults = 0
  <2>1. faults' = faults \/ faults' = faults + 1
    <3>1. ASSUME NEW c \in Clients, ClientStep(c) PROVE faults' = faults
      BY <3>1, ClientSteps DEF ServerQuiet
    <3>2. ASSUME NEW q \in requests, Handle(q) PROVE faults' = faults
      BY <3>2, HandlerSteps DEF ClientQuiet
    <3> QED BY <3>1, <3>2 DEF Next, OpenForPairing, ClosePairing, ServerRestart, Tick, GiveUp, Crash, Fault,
                 Remember, Settle, AnswerFinalized, vars, bounds
  <2> QED BY <1>0, <2>1
<1> SUFFICES ASSUME faults' = 0, Answerable, AllPursued PROVE Answerable' /\ AllPursued'
  BY <1>3 DEF NothingLost, AllPursued, InPursuit
<1>4. CASE OpenForPairing \/ ClosePairing \/ UNCHANGED vars \/ Tick
  <2>1. UNCHANGED <<leaf, seen, phase, held, reply, requests, sleeping, finishing, attempt, router>>
    BY <1>4 DEF OpenForPairing, ClosePairing, vars, Tick, client, wire, machine, handlers
  <2>2. now' = now \/ now' = now + 1
    BY <1>4 DEF OpenForPairing, ClosePairing, vars, Tick
  <2>3. Answerable'
    BY <2>1 DEF Answerable
  <2>4. AllPursued'
    <3>1. ASSUME NEW a \in attempt, now' - a.started < Budget PROVE now - a.started < Budget
      BY <1>0, <2>2, <3>1, RouterTypes
    <3> QED BY <2>1, <3>1 DEF AllPursued, InPursuit, Chased, Reachable
  <2> QED BY <2>3, <2>4
<1>5. ASSUME NEW h \in finishing, Settle(h) \/ AnswerFinalized(h) PROVE AllPursued'
  <2>1. attempt' = {}
    BY <1>5 DEF Settle, AnswerFinalized, machine, OneAttempt
  <2> QED BY <2>1 DEF AllPursued
<1> QED BY <1>1, <1>2, <1>4, <1>5, ClientStepAnswerable, ClientStepPursues, HandlerAnswerable, HandlerPursues,
           LaterAnswerAnswerable, RememberingPursues DEF Next, NothingLost, AllPursued, InPursuit

-----------------------------------------------------------------------------
(* The theorems. *)

Inv ==
  /\ Typed /\ RecentlyAnswered /\ OneAttempt /\ Owned /\ Awaited /\ AwaitedOnce /\ Knows
  /\ Mutual /\ UsedUp /\ OpeningUsedOnce /\ LastManagerOnly /\ Agreement /\ NothingLost

LEMMA InitIsInv == Init => Inv
<1> SUFFICES ASSUME Init PROVE Inv
  OBVIOUS
<1>1. NoReply \in [status : {"None", "Ok", "Refused"}, id : Nat, token : Nat] /\ NoReply.status = "None"
      /\ NoReply.id = 0
  BY DEF NoReply
<1>2. Typed
  BY <1>1 DEF Init, Typed, ClientTypes, ServerTypes, Phases
<1>3. RecentlyAnswered /\ OneAttempt /\ Awaited /\ AwaitedOnce /\ LastManagerOnly /\ OpeningUsedOnce
  BY DEF Init, RecentlyAnswered, OneAttempt, Awaited, AwaitedOnce, LastManagerOnly, OpeningUsedOnce
<1>4. Owned
  BY <1>1 DEF Init, Owned, Claims, Id
<1>5. Knows /\ Mutual
  BY <1>1 DEF Init, Knows, Mutual
<1>6. UsedUp /\ Agreement
  BY DEF Init, UsedUp, Agreement, ToldLater, RouterAgrees
<1>7. NothingLost
  BY DEF Init, NothingLost, Answerable
<1> QED BY <1>2, <1>3, <1>4, <1>5, <1>6, <1>7 DEF Inv

LEMMA StepKeepsInv == Inv /\ [Next]_vars => Inv'
<1> SUFFICES ASSUME Inv, [Next]_vars PROVE Inv'
  OBVIOUS
<1>1. Typed' /\ RecentlyAnswered' /\ OneAttempt' /\ Owned'
  BY StepIsTyped, StepIsSpaced, StepKeepsOneAttempt, StepIsOwned DEF Inv
<1>2. Knows' /\ Awaited' /\ AwaitedOnce' /\ Mutual'
  BY StepKeepsOrder, StepIsMutual DEF Inv
<1>3. UsedUp' /\ OpeningUsedOnce' /\ LastManagerOnly' /\ Agreement' /\ NothingLost'
  BY StepUsesUp, StepKeepsLastManager, StepAgrees, StepLosesNothing DEF Inv
<1> QED BY <1>1, <1>2, <1>3 DEF Inv

LEMMA AlwaysInv == Spec => []Inv
BY InitIsInv, StepKeepsInv, PTL DEF Spec

\* A client that stored a pairing stored one that the server stored, for the same client,
\* and the server stored only what a client had finalized as successful.
THEOREM PairingIsMutual == Spec => []PairingsAreMutual
<1>1. Inv => PairingsAreMutual
  <2> SUFFICES ASSUME Inv PROVE PairingsAreMutual
    OBVIOUS
  <2>1. \A m \in made : [id |-> m.id, c |-> m.c] \in agreed
    <3> SUFFICES ASSUME NEW m \in made PROVE [id |-> m.id, c |-> m.c] \in agreed
      OBVIOUS
    <3>1. PICK g \in agreed : g.id = m.id /\ g.c = m.c
      BY DEF Inv, Mutual, Finalized
    <3>2. g = [id |-> g.id, c |-> g.c]
      BY DEF Inv, Typed, ClientTypes
    <3> QED BY <3>1, <3>2
  <2> QED BY <2>1 DEF Inv, Mutual, Stored, PairingsAreMutual
<1> QED BY <1>1, AlwaysInv, PTL

\* However many clients race for it and however often the node is opened, one opening's
\* token pairs one client: storing the pairing closes the node before the next attempt.
THEOREM OneOpeningOnePairing == Spec => []OpeningUsedOnce
<1>1. Inv => OpeningUsedOnce
  BY DEF Inv
<1> QED BY <1>1, AlwaysInv, PTL

\* A resource manager that confirms a pairing has unpaired every other energy manager.
THEOREM OneManagerLeft == Spec => []LastManagerOnly
<1>1. Inv => LastManagerOnly
  BY DEF Inv
<1> QED BY <1>1, AlwaysInv, PTL

\* The router and the machine, changed at different moments under different locks, agree on
\* which attempt is in flight for as long as the router takes it for live.
THEOREM RouterFollowsMachine == Spec => []RouterAgrees
<1>1. Inv => RouterAgrees
  BY DEF Inv, Agreement
<1> QED BY <1>1, AlwaysInv, PTL

\* An attempt in its budget has somebody after it, as long as no request, client or server
\* was lost: every way a client fails gives its attempt back.
THEOREM FailuresRelease == Spec => []FailureReleases
<1>1. Inv => FailureReleases
  <2> SUFFICES ASSUME Inv, NEW a \in attempt, faults = 0, now - a.started < Budget PROVE Pursued(a)
    BY DEF FailureReleases
  <2>1. Chased(a)
    BY DEF Inv, NothingLost
  <2> QED BY <2>1 DEF Chased, Pursued
<1> QED BY <1>1, AlwaysInv, PTL

\* Two answers of the node's machine are a second apart, after a refusal, a failure and a
\* completed pairing as well as after an attempt that still runs.
THEOREM SecondBetweenAnswers == Spec => AnswersAreSpaced
<1>1. Inv /\ [Next]_vars => [answers' > answers => answered = {}]_vars
  BY StepIsSpaced DEF Inv
<1> QED BY <1>1, AlwaysInv, PTL DEF Spec, AnswersAreSpaced
=============================================================================
