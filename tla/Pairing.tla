------------------------------- MODULE Pairing -------------------------------
(***************************************************************************)
(* Pairing with one node of an endpoint (connect/proto/pairing.rs, its     *)
(* drivers connect/client/pairing.rs and connect/server/pairing.rs, and    *)
(* the part of connect/server/routes.rs and store.rs they use).  Clients   *)
(* whose users typed a code compete for the node: each asks for an         *)
(* attempt, waits out the mandatory second, checks the server, proves      *)
(* itself, exchanges connection details, and finalizes.  An attempt        *)
(* occupies the node until it is finalized, fails, or its budget is over.  *)
(***************************************************************************)
EXTENDS Naturals, FiniteSets

CONSTANTS
  Clients,         \* nodes that pair, all of the other role than the server's node
  Roles,           \* the server's node: subset of {"Cem", "Rm"}
  Places,          \* where the server is: subset of {"Lan", "Wan"}
  Homes,           \* where the clients are
  Budget,          \* how long an attempt may take, 15 s
  Delay,           \* before requestPairing is answered, and between attempts, 1 s
  RequestTimeout,  \* how long a request waits for its reply, 10 s
  MaxOpenings,     \* bound: times a user opens the node for pairing
  MaxRuns,         \* bound: pairings the clients try
  MaxAttempts,     \* bound: requests the server's machine answers
  MaxFaults,       \* bound: requests given up on, restarts
  MaxTime          \* bound: the clock

ASSUME PairingAssumption ==
  /\ IsFiniteSet(Clients)
  /\ Roles \subseteq {"Cem", "Rm"}
  /\ Places \subseteq {"Lan", "Wan"} /\ Homes \subseteq {"Lan", "Wan"}
  /\ {Budget, Delay, RequestTimeout} \subseteq Nat
  /\ 0 < Delay /\ Delay < RequestTimeout /\ RequestTimeout < Budget
  /\ {MaxOpenings, MaxRuns, MaxAttempts, MaxFaults, MaxTime} \subseteq Nat

VARIABLES
  role, place, home,  \* the server's node's role, where it is, where the clients are
  offers,      \* whether the server has connection details to hand out
  phase,       \* [Clients -> the step of its machine], "Idle" when no run is going on
  code,        \* the opening whose token its user typed, 0 for a wrong one
  own,         \* whether the run was given connection details to offer
  held,        \* the attempt it knows the bearer of, as a set of at most one
  seen,        \* the server's certificates its HTTPS client has met
  stored,      \* what its last successful run returned, as a set of at most one
  asked,       \* since when it waits for a reply
  reply,       \* the reply it waits for
  requests,    \* requests on their way; live when somebody waits for the reply
  attempt,     \* PairingServer: the attempt in flight, as a set of at most one
  finished,    \* PairingServer: last_finished, as a set of at most one time
  router,      \* the router's list of live attempts
  sleeping,    \* requestPairing handlers waiting out the mandatory delay
  finishing,   \* finalizePairing handlers past the machine
  leaf,        \* which certificate the server presents
  opening,     \* the store: the pairing token the node is open with, 0 for none
  paired,      \* the store: the clients it is paired with
  openings, runs, answers, faults,   \* counts, for the bounds
  agreed,      \* pairings a client finalized: no code reads it
  made,        \* pairings the server stored: no code reads it
  answered,    \* when the machine answered, if less than a second ago: no code reads it
  now

setup == <<role, place, home, offers>>
client == <<phase, code, own, held, seen, stored, asked>>
wire == <<reply, requests>>
machine == <<attempt, finished, answers, answered>>
handlers == <<sleeping, finishing>>
store == <<opening, paired, made>>
bounds == <<openings, runs, faults>>
vars == <<setup, client, wire, machine, router, handlers, leaf, store, bounds, agreed, now>>

NoReply == [status |-> "None", id |-> 0, token |-> 0]
Ids == 1 .. MaxAttempts

\* A node in a WAN is the communication server; of two alike, the CEM is.
CommunicationServer(cem, rm) == IF cem = "Lan" /\ rm = "Wan" THEN "Rm" ELSE "Cem"

Other(r) == IF r = "Cem" THEN "Rm" ELSE "Cem"

ServerFor(clientPlace) ==
  IF role = "Cem" THEN CommunicationServer(place, clientPlace)
                  ELSE CommunicationServer(clientPlace, place)

\* What the driver takes for its own deployment is where it was told the server is.
ServerForClient == ServerFor(place)

\* Whether the client takes itself for it, and posts its details instead of asking.
Posts == ServerForClient = Other(role)

\* A server in a LAN is out of reach from outside it.  Details nobody asks for are left out.
Init ==
  /\ role \in Roles /\ place \in Places /\ home \in Homes
  /\ place = "Lan" => home = "Lan"
  /\ offers \in BOOLEAN /\ (Posts => ~offers)
  /\ phase = [c \in Clients |-> "Idle"] /\ code = [c \in Clients |-> 0]
  /\ own = [c \in Clients |-> FALSE] /\ held = [c \in Clients |-> {}]
  /\ seen = [c \in Clients |-> {}] /\ stored = [c \in Clients |-> {}]
  /\ asked = [c \in Clients |-> 0] /\ reply = [c \in Clients |-> NoReply]
  /\ requests = {} /\ attempt = {} /\ finished = {} /\ router = {}
  /\ sleeping = {} /\ finishing = {} /\ leaf = 1 /\ opening = 0 /\ paired = {}
  /\ openings = 0 /\ runs = 0 /\ answers = 0 /\ faults = 0
  /\ agreed = {} /\ made = {} /\ answered = {} /\ now = 0

Fault == faults < MaxFaults /\ faults' = faults + 1

-----------------------------------------------------------------------------
(***************************************************************************)
(* The users: one opens and closes the server's node, the others type.     *)
(***************************************************************************)
OpenForPairing ==
  /\ openings < MaxOpenings
  /\ openings' = openings + 1
  /\ opening' = openings + 1
  /\ UNCHANGED <<setup, client, wire, machine, router, handlers, leaf, paired, made, runs,
                 faults, agreed, now>>

ClosePairing ==
  /\ opening # 0
  /\ opening' = 0
  /\ UNCHANGED <<setup, client, wire, machine, router, handlers, leaf, paired, made, bounds,
                 agreed, now>>

-----------------------------------------------------------------------------
(***************************************************************************)
(* The client.  Each call of run() has a machine of its own, and the HTTPS *)
(* client outlives it.                                                     *)
(***************************************************************************)
\* A request, over a connection whose handshake showed the server's certificate.
Ask(c, met, op, id, token, ok) ==
  /\ requests' = requests \cup
       {[c |-> c, op |-> op, id |-> id, token |-> token, ok |-> ok, live |-> TRUE]}
  /\ reply' = [reply EXCEPT ![c] = NoReply]
  /\ asked' = [asked EXCEPT ![c] = now]
  /\ seen' = [seen EXCEPT ![c] = met \cup {leaf}]

Stable(c) == Cardinality(seen[c]) <= 1

\* What its user typed, the details it was given to post, and whether the node accepts
\* its role, versions, transports and hash functions: if not, the rest is not looked at.
Inputs ==
  [token : 0 .. openings, own : IF Posts THEN BOOLEAN ELSE {FALSE}, fits : {TRUE}]
    \cup [token : {0}, own : {FALSE}, fits : {FALSE}]

\* requestPairing, by the driver of an earlier run or by a new one.
Start(c) ==
  /\ phase[c] = "Idle" /\ runs < MaxRuns
  /\ runs' = runs + 1
  /\ \E input \in Inputs, met \in {seen[c], {}} :
       /\ code' = [code EXCEPT ![c] = input.token]
       /\ own' = [own EXCEPT ![c] = input.own]
       /\ Ask(c, met, "request", 0, 0, input.fits)
  /\ phase' = [phase EXCEPT ![c] = "AwaitingAcceptance"]
  /\ held' = [held EXCEPT ![c] = {}]
  /\ UNCHANGED <<setup, stored, machine, router, handlers, leaf, store, openings, faults,
                 agreed, now>>

\* run() returns: an error leaves what an earlier run returned alone.
Return(c, result) ==
  /\ phase' = [phase EXCEPT ![c] = "Idle"]
  /\ code' = [code EXCEPT ![c] = 0]
  /\ own' = [own EXCEPT ![c] = FALSE]
  /\ held' = [held EXCEPT ![c] = {}]
  /\ stored' = [stored EXCEPT ![c] = IF result = {} THEN @ ELSE result]
  /\ reply' = [reply EXCEPT ![c] = NoReply]
  /\ asked' = [asked EXCEPT ![c] = 0]
  /\ UNCHANGED <<seen, requests>>

\* A failure gives the attempt back, as far as the machine knows of one.
Fail(c, known) ==
  \/ /\ known = {}
     /\ Return(c, {})
  \/ \E id \in known :
       /\ Ask(c, seen[c], "finalize", id, 0, FALSE)
       /\ phase' = [phase EXCEPT ![c] = "Abandoning"]
       /\ held' = [held EXCEPT ![c] = known]
       /\ UNCHANGED <<code, own, stored>>

Server == <<setup, machine, router, handlers, leaf, store, bounds, now>>

\* requestPairing was refused.
Refused(c) ==
  /\ phase[c] = "AwaitingAcceptance"
  /\ reply[c].status = "Refused"
  /\ Return(c, {})
  /\ UNCHANGED <<Server, agreed>>

\* Mutant of Unacceptable: the bearer is kept once the answer has been judged.
UnacceptableUnremembered(c) ==
  \/ ~Stable(c) /\ Fail(c, {})
  \/ Stable(c) /\ reply[c].token # code[c] /\ Fail(c, {})
  \/ Stable(c) /\ reply[c].token = code[c] /\ Posts /\ ~own[c] /\ Fail(c, {reply[c].id})

\* The certificate changed, which is noticed before the machine sees the answer; the
\* response is not the one the code gives; or there are no details to post.
Unacceptable(c) ==
  \/ ~Stable(c) /\ Fail(c, {})
  \/ Stable(c) /\ reply[c].token # code[c] /\ Fail(c, {reply[c].id})
  \/ Stable(c) /\ reply[c].token = code[c] /\ Posts /\ ~own[c] /\ Fail(c, {reply[c].id})

\* accept() failed, or what follows it.
NotAccepted(c) ==
  /\ phase[c] = "AwaitingAcceptance"
  /\ reply[c].status = "Ok"
  /\ Unacceptable(c)
  /\ UNCHANGED <<Server, agreed>>

\* The server proved that it holds the token: prove the same, and get or give details.
Accept(c) ==
  /\ phase[c] = "AwaitingAcceptance"
  /\ reply[c].status = "Ok"
  /\ Stable(c)
  /\ reply[c].token = code[c]
  /\ held' = [held EXCEPT ![c] = {reply[c].id}]
  /\ \/ /\ Posts /\ own[c]
        /\ phase' = [phase EXCEPT ![c] = "DetailsExchanged"]
        /\ Ask(c, seen[c], "post", reply[c].id, code[c], TRUE)
     \/ /\ ~Posts
        /\ phase' = [phase EXCEPT ![c] = "Authenticated"]
        /\ Ask(c, seen[c], "details", reply[c].id, code[c], TRUE)
  /\ UNCHANGED <<Server, code, own, stored, agreed>>

\* Details are exchanged: the machine holds the pairing, and the server is told so.
Finalize(c) ==
  /\ phase[c] \in {"Authenticated", "DetailsExchanged"}
  /\ reply[c].status = "Ok"
  /\ Stable(c)
  /\ phase' = [phase EXCEPT ![c] = "Paired"]
  /\ \E id \in held[c] :
       /\ Ask(c, seen[c], "finalize", id, 0, TRUE)
       /\ agreed' = agreed \cup {[id |-> id, c |-> c]}
  /\ UNCHANGED <<Server, code, own, held, stored>>

Succeed(c) ==
  /\ phase[c] = "Paired"
  /\ reply[c].status = "Ok"
  /\ Return(c, {[id |-> id, server |-> ServerForClient] : id \in held[c]})
  /\ UNCHANGED <<Server, agreed>>

\* The server refused the pairing.
NotFinalized(c) ==
  /\ phase[c] = "Paired"
  /\ reply[c].status = "Refused"
  /\ Fail(c, held[c])

\* The server refused the proof or has no details; or its certificate changed.
NotExchanged(c) ==
  /\ phase[c] \in {"Authenticated", "DetailsExchanged"}
  /\ reply[c].status = "Refused" \/ (reply[c].status = "Ok" /\ ~Stable(c))
  /\ Fail(c, held[c])

StepFailed(c) ==
  /\ NotFinalized(c) \/ NotExchanged(c)
  /\ UNCHANGED <<Server, agreed>>

\* Whatever the server says to a client that gave up.
Abandoned(c) ==
  /\ phase[c] = "Abandoning"
  /\ reply[c].status # "None"
  /\ Return(c, {})
  /\ UNCHANGED <<Server, agreed>>

-----------------------------------------------------------------------------
(***************************************************************************)
(* The server.  A handler reads the clock once, when it starts.            *)
(***************************************************************************)
Client == <<phase, code, own, held, seen, stored, asked>>

Respond(q, status, id, token) ==
  reply' = IF q.live THEN [reply EXCEPT ![q.c] = [status |-> status, id |-> id, token |-> token]]
           ELSE reply

Receive(q) == q \in requests /\ requests' = requests \ {q}

Refuse(q) == Respond(q, "Refused", 0, 0)

\* An attempt in flight, or one that ended less than a second ago.
Busy ==
  \/ \E a \in attempt : now - a.started <= Budget
  \/ \E t \in finished : now - t < Delay

\* Another handler may hold the machine's lock, for which requestPairing does not wait.
Contended(q) == requests # {q}

\* Not open for pairing, or busy: neither counts as an answer of the machine.
TurnAway(q) ==
  /\ q.op = "request"
  /\ Receive(q)
  /\ opening = 0 \/ Busy \/ Contended(q)
  /\ Refuse(q)
  /\ UNCHANGED <<setup, Client, machine, router, handlers, leaf, store, bounds, agreed, now>>

\* The machine answers, whatever the answer is.
Answered ==
  /\ answers < MaxAttempts
  /\ answers' = answers + 1
  /\ answered' = {now}

\* Mutant of RefuseRequest: a refusal costs nothing.
RefuseRequestFreely(q) ==
  /\ q.op = "request" /\ ~q.ok
  /\ opening # 0 /\ ~Busy
  /\ Receive(q)
  /\ Answered
  /\ attempt' = {}
  /\ Refuse(q)
  /\ UNCHANGED <<setup, Client, finished, router, handlers, leaf, store, bounds, agreed, now>>

\* The two nodes do not fit: a refusal takes up the node's second as well.
RefuseRequest(q) ==
  /\ q.op = "request" /\ ~q.ok
  /\ opening # 0 /\ ~Busy
  /\ Receive(q)
  /\ Answered
  /\ finished' = {now}
  /\ attempt' = {}
  /\ Refuse(q)
  /\ UNCHANGED <<setup, Client, router, handlers, leaf, store, bounds, agreed, now>>

\* A new attempt, in place of one whose budget is over.  Its answer is due later.
AcceptRequest(q) ==
  /\ q.op = "request" /\ q.ok
  /\ opening # 0 /\ ~Busy
  /\ Receive(q)
  /\ Answered
  /\ attempt' = {[id |-> answers + 1, c |-> q.c, token |-> opening, started |-> now,
                  details |-> FALSE, verified |-> FALSE]}
  /\ sleeping' = sleeping \cup
       {[id |-> answers + 1, c |-> q.c, token |-> opening, at |-> now, live |-> q.live]}
  /\ UNCHANGED <<setup, Client, reply, finished, router, finishing, leaf, store, bounds, agreed,
                 now>>

\* The second is over: the router learns of the attempt, and drops those whose time
\* had come when this one was asked for.
Remember(s) ==
  /\ now >= s.at + Delay
  /\ sleeping' = sleeping \ {s}
  /\ router' = {e \in router : e.expires > s.at} \cup {[id |-> s.id, expires |-> s.at + Budget]}
  /\ Respond(s, "Ok", s.id, s.token)
  /\ UNCHANGED <<setup, Client, requests, machine, finishing, leaf, store, bounds, agreed, now>>

\* The attempt a bearer names, known to the router and still the machine's.
Routed(q) == \E e \in router : e.id = q.id /\ e.expires > now

Authenticated(q) == {a \in attempt : a.id = q.id /\ Routed(q)}

Forget(q) == router' = {e \in router : e.id # q.id}

\* The router or the machine does not know the bearer.  finalizePairing lets go of it.
Unauthorized(q) ==
  /\ q.op \in {"details", "post", "finalize"}
  /\ Receive(q)
  /\ Authenticated(q) = {}
  /\ IF q.op = "finalize" /\ Routed(q) THEN Forget(q) ELSE UNCHANGED router
  /\ Refuse(q)
  /\ UNCHANGED <<setup, Client, machine, handlers, leaf, store, bounds, agreed, now>>

\* The machine drops its attempt.
End ==
  /\ attempt' = {}
  /\ finished' = {now}
  /\ UNCHANGED <<answers, answered>>

\* The proof came too late, or is wrong: the attempt has failed.
RefuseProof(q) ==
  \E a \in Authenticated(q) :
    /\ q.op \in {"details", "post"}
    /\ Receive(q)
    /\ now - a.started > Budget \/ q.token # a.token
    /\ End
    /\ IF now - a.started > Budget THEN UNCHANGED router ELSE Forget(q)
    /\ Refuse(q)
    /\ UNCHANGED <<setup, Client, handlers, leaf, store, bounds, agreed, now>>

\* The client proved itself.  Details are posted, handed out, or not to be had.
VerifyClient(q) ==
  \E a \in Authenticated(q) :
    /\ q.op \in {"details", "post"}
    /\ Receive(q)
    /\ now - a.started <= Budget /\ q.token = a.token
    /\ \/ /\ q.op = "post" \/ offers
          /\ attempt' = {[a EXCEPT !.verified = TRUE, !.details = TRUE]}
          /\ Respond(q, "Ok", a.id, a.token)
       \/ /\ q.op = "details" /\ ~offers
          /\ attempt' = {[a EXCEPT !.verified = TRUE]}
          /\ Refuse(q)
    /\ UNCHANGED <<setup, Client, finished, answers, answered, router, handlers, leaf, store,
                   bounds, agreed, now>>

\* Mutant of Completes: the client's verdict is not looked at.
CompletesRegardless(q, a) == now - a.started <= Budget /\ a.verified /\ a.details

Completes(q, a) == now - a.started <= Budget /\ q.ok /\ a.verified /\ a.details

\* The attempt is over, without a pairing: the client gave up, or may not finalize.
FinalizeNothing(q) ==
  \E a \in Authenticated(q) :
    /\ q.op = "finalize"
    /\ Receive(q)
    /\ ~Completes(q, a)
    /\ End
    /\ Forget(q)
    /\ Respond(q, IF q.ok THEN "Refused" ELSE "Ok", a.id, 0)
    /\ UNCHANGED <<setup, Client, handlers, leaf, store, bounds, agreed, now>>

\* The attempt is over, with a pairing, which is stored after the machine's lock is
\* released.
FinalizePairing(q) ==
  \E a \in Authenticated(q) :
    /\ q.op = "finalize"
    /\ Receive(q)
    /\ Completes(q, a)
    /\ End
    /\ finishing' = finishing \cup
         {[id |-> a.id, c |-> a.c, token |-> a.token, live |-> q.live, stage |-> "Store"]}
    /\ UNCHANGED <<setup, Client, reply, router, sleeping, leaf, store, bounds, agreed, now>>

Proceed(h, stage) == finishing' = (finishing \ {h}) \cup {[h EXCEPT !.stage = stage]}

\* Mutant of StorePairing: the node stays open for pairing.
StorePairingKeepingOpen(h) ==
  /\ h.stage = "Store"
  /\ paired' = paired \cup {h.c}
  /\ made' = made \cup {[id |-> h.id, c |-> h.c, token |-> h.token,
                         server |-> ServerFor(home)]}
  /\ Proceed(h, IF role = "Rm" THEN "Unpair" ELSE "Answer")
  /\ UNCHANGED opening

\* A completed pairing closes the node, whichever token it is open with by now.
StorePairing(h) ==
  /\ h.stage = "Store"
  /\ paired' = paired \cup {h.c}
  /\ made' = made \cup {[id |-> h.id, c |-> h.c, token |-> h.token,
                         server |-> ServerFor(home)]}
  /\ opening' = 0
  /\ Proceed(h, IF role = "Rm" THEN "Unpair" ELSE "Answer")

\* Mutant of UnpairPrevious: the node's own identifier is looked for among the remotes.
UnpairPreviousWrongKey(h) ==
  /\ h.stage = "Unpair"
  /\ Proceed(h, "Answer")
  /\ UNCHANGED <<opening, paired, made>>

\* A resource manager has one energy manager: after the new one is stored the others go.
UnpairPrevious(h) ==
  /\ h.stage = "Unpair"
  /\ paired' = {h.c}
  /\ Proceed(h, "Answer")
  /\ UNCHANGED <<opening, made>>

Settle(h) ==
  /\ StorePairing(h) \/ UnpairPrevious(h)
  /\ UNCHANGED <<setup, Client, wire, machine, router, sleeping, leaf, bounds, agreed, now>>

\* Mutant of ForgetFinalized: the bearer is left to expire.
ForgetFinalizedLater(h) == UNCHANGED router

ForgetFinalized(h) == Forget(h)

AnswerFinalized(h) ==
  /\ h.stage = "Answer"
  /\ finishing' = finishing \ {h}
  /\ ForgetFinalized(h)
  /\ Respond(h, "Ok", h.id, 0)
  /\ UNCHANGED <<setup, Client, requests, machine, sleeping, leaf, store, bounds, agreed, now>>

-----------------------------------------------------------------------------
(***************************************************************************)
(* Failures and time.                                                      *)
(***************************************************************************)
Orphaned(S, c) == {IF x.c = c THEN [x EXCEPT !.live = FALSE] ELSE x : x \in S}
Without(S, c) == {x \in S : ~(x.c = c /\ x.live)}

\* Nobody waits for the client's request any more.  It may be lost; a handler that
\* sleeps is dropped with its connection, unless the server does not notice.
Leave(c) ==
  /\ \/ requests' = Orphaned(requests, c) /\ sleeping' = Orphaned(sleeping, c)
     \/ requests' = Without(requests, c) /\ sleeping' = Without(sleeping, c)
  /\ finishing' = Orphaned(finishing, c)

Waiting(c) == phase[c] # "Idle" /\ reply[c] = NoReply

\* The server restarted, and will not answer.
Forgotten(c) == \A x \in requests \cup sleeping \cup finishing : ~(x.c = c /\ x.live)

\* A request or its reply is lost or too slow: the client sees an error.
GiveUp(c) ==
  /\ Waiting(c)
  /\ IF Forgotten(c) THEN UNCHANGED faults ELSE Fault
  /\ Leave(c)
  /\ reply' = [reply EXCEPT ![c] = [NoReply EXCEPT !.status = "Refused"]]
  /\ UNCHANGED <<setup, Client, machine, router, leaf, store, openings, runs, agreed, now>>

\* The client's process ends; what earlier runs returned was persisted.
Crash(c) ==
  /\ Fault
  /\ phase[c] # "Idle"
  /\ Leave(c)
  /\ reply' = [reply EXCEPT ![c] = NoReply]
  /\ phase' = [phase EXCEPT ![c] = "Idle"]
  /\ code' = [code EXCEPT ![c] = 0] /\ own' = [own EXCEPT ![c] = FALSE]
  /\ held' = [held EXCEPT ![c] = {}] /\ seen' = [seen EXCEPT ![c] = {}]
  /\ asked' = [asked EXCEPT ![c] = 0]
  /\ UNCHANGED <<setup, stored, machine, router, leaf, store, openings, runs, agreed,
                 now>>

\* The server's process ends, and starts with its store and perhaps a new certificate.
ServerRestart ==
  /\ Fault
  /\ leaf' \in {leaf, leaf + 1}
  /\ attempt' = {} /\ finished' = {} /\ answered' = {} /\ router' = {}
  /\ sleeping' = {} /\ finishing' = {} /\ requests' = {}
  /\ UNCHANGED <<setup, Client, reply, answers, store, openings, runs, agreed, now>>

\* A request does not outlive its timeout; the store's calls return at once.
Tick ==
  /\ now < MaxTime
  /\ \A c \in Clients : phase[c] # "Idle" => now - asked[c] < RequestTimeout
  /\ finishing = {}
  /\ now' = now + 1
  /\ answered' = {t \in answered : now' - t < Delay}
  /\ UNCHANGED <<setup, client, wire, attempt, finished, answers, router, handlers, leaf, store,
                 bounds, agreed>>

-----------------------------------------------------------------------------
ClientStep(c) ==
  \/ Start(c) \/ Refused(c) \/ NotAccepted(c) \/ Accept(c) \/ Finalize(c) \/ Succeed(c)
  \/ StepFailed(c) \/ Abandoned(c)

Handle(q) ==
  \/ TurnAway(q) \/ RefuseRequest(q) \/ AcceptRequest(q)
  \/ Unauthorized(q) \/ RefuseProof(q) \/ VerifyClient(q)
  \/ FinalizeNothing(q) \/ FinalizePairing(q)

Next ==
  \/ OpenForPairing \/ ClosePairing \/ ServerRestart \/ Tick
  \/ \E c \in Clients : ClientStep(c) \/ GiveUp(c) \/ Crash(c)
  \/ \E q \in requests : Handle(q)
  \/ \E s \in sleeping : Remember(s)
  \/ \E h \in finishing : Settle(h) \/ AnswerFinalized(h)

Spec == Init /\ [][Next]_vars

-----------------------------------------------------------------------------
Live(e) == e.expires > now

\* What the router takes for a live attempt is the machine's, or is being finalized: two
\* views of one attempt, changed at different moments, never differ while they matter.
RouterAgrees ==
  \A e \in router : Live(e) => \E x \in attempt \cup finishing : x.id = e.id

\* A client that holds a pairing holds one the server stored, and the server stored only
\* what a client finalized as successful, having checked the server first.
PairingsAreMutual ==
  /\ \A c \in Clients : \A p \in stored[c] : \E m \in made : m.id = p.id /\ m.c = c
  /\ \A m \in made : [id |-> m.id, c |-> m.c] \in agreed

\* One opening of the node pairs one client, whichever of them race for it.
OpeningUsedOnce == \A m, n \in made : m.token = n.token => m = n

\* When a resource manager answers that a pairing is final, that is the only one it has.
LastManagerOnly ==
  \A h \in finishing : h.stage = "Answer" /\ role = "Rm" => paired = {h.c}

\* Two answers of one node are never less than a second apart, whichever way the first
\* one went and however it ended.
AnswersAreSpaced ==
  [][answers' > answers => answered = {}]_vars

Pursued(a) ==
  \/ \E s \in sleeping : s.id = a.id
  \/ reply[a.c].id = a.id
  \/ phase[a.c] # "Idle" /\ held[a.c] = {a.id}

\* Where nothing is lost, no attempt stays behind when its client has given up: the next
\* client does not wait for the budget to run out.
FailureReleases ==
  \A a \in attempt : faults = 0 /\ now - a.started < Budget => Pursued(a)

\* Both sides of a pairing take the same one of them for the communication server.
CommunicationServerAgreed ==
  \A c \in Clients : \A p \in stored[c], m \in made : m.id = p.id => m.server = p.server
=============================================================================
