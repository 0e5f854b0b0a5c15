-------------------------- MODULE SessionInitiation --------------------------
(***************************************************************************)
(* Session initiation of one pairing (connect/proto/session_init.rs,       *)
(* connect/client/session.rs, connect/server/session.rs and store.rs).     *)
(* The client presents an access token, is granted a replacement, proves   *)
(* it stored the replacement by presenting that, and only then does the    *)
(* server retire the old one and hand out a token for one connection.      *)
(* Requests and replies may be lost or come late, either side may restart, *)
(* and the server may handle two requests at once.                         *)
(***************************************************************************)
EXTENDS TokenStore, Sequences

CONSTANTS
  Drivers,                \* "Session", the crate's, "Machine", an integrator's own
  MidCall,                \* those whose process may end in the middle of a call
  CommunicationLifetime,  \* how long a communication token may be used, 30 s
  RequestTimeout,         \* how long a request waits for its reply, 10 s
  Late,                   \* whether a request given up on may still be handled
  MaxFaults,              \* bound: requests given up on, restarts
  MaxSessions,            \* bound: connections asked for
  MaxTime                 \* bound: the clock

ASSUME InitiationAssumption ==
  /\ Drivers \subseteq {"Session", "Machine"}
  /\ MidCall \subseteq Drivers
  /\ CommunicationLifetime \in Nat
  /\ RequestTimeout \in Nat
  /\ RequestTimeout <= PendingLifetime
  /\ Late \in BOOLEAN
  /\ MaxFaults \in Nat
  /\ MaxSessions \in Nat
  /\ MaxTime \in Nat

VARIABLES
  driver,       \* what drives the client's machine
  phase,        \* the client's machine
  tokens,       \* the client's tokens, in memory
  tried,        \* how many of them were refused since the last success
  granted,      \* the replacement it was granted, as a set of at most one
  started,      \* the time initiate() was called with
  verdict,      \* "NotPaired" when the last initiate() said so
  credentials,  \* the communication token it was given, as a set of at most one
  disk,         \* the tokens it persisted: TokenStore gives out nothing but those
  waiting,      \* the request whose reply the client waits for, NoRequest if none
  asked,        \* since when
  requests,     \* requests on their way, among them some nobody waits for
  reply,        \* the reply to the one it waits for
  paired,       \* whether the server's store holds the pairing
  held,         \* the server's tokens, persisted
  working,      \* requests being handled, each with the tokens it read
  issued,       \* communication tokens the server would accept
  minted,       \* how many access tokens the server granted
  log,          \* when each communication token was issued: a sequence
  opens,        \* how often each of them opened a connection: no code reads it
  now, faults

client == <<driver, phase, tokens, tried, granted, started, verdict, credentials, disk>>
wire == <<waiting, asked, requests, reply>>
server == <<paired, held, working, issued, minted, log>>
vars == <<client, wire, server, opens, now, faults>>

NoRequest == 0
NoReply == [status |-> "None", token |-> 0]
Reply(status, token) == [status |-> status, token |-> token]

\* Enough names for a request being waited for, and for those given up on.
Names == 1 .. MaxFaults + 2

\* One per connection asked for and, at worst, per failure.
Connections == 1 .. MaxSessions + MaxFaults

InUse == {q.n : q \in requests} \cup {w.n : w \in working}

\* Token 0 is the one pairing produced.
Init ==
  /\ driver \in Drivers
  /\ phase = "Start" /\ tokens = {InForce(0)} /\ disk = {0}
  /\ tried = 0 /\ granted = {} /\ credentials = {}
  /\ started = 0 /\ verdict = "None"
  /\ waiting = NoRequest /\ asked = 0 /\ requests = {} /\ reply = NoReply
  /\ paired = TRUE /\ held = {InForce(0)} /\ working = {} /\ issued = {}
  /\ minted = 0 /\ log = <<>> /\ opens = [c \in Connections |-> 0]
  /\ now = 0 /\ faults = 0

Fault == faults < MaxFaults /\ faults' = faults + 1

-----------------------------------------------------------------------------
(***************************************************************************)
(* The client.                                                             *)
(***************************************************************************)
Ask(op, bearer) ==
  \E n \in Names \ InUse :
    /\ \A other \in Names \ InUse : n <= other
    /\ requests' = requests \cup {[n |-> n, op |-> op, bearer |-> bearer]}
    /\ waiting' = n
    /\ asked' = now
    /\ reply' = NoReply

\* The caller saves the tokens: the driver's when a call has returned.
Persist == disk' = Tokens(tokens')

\* No call is running.
Idle == waiting = NoRequest

\* initiate() presents the next token not refused yet.
Initiate ==
  /\ Idle
  /\ phase \in {"Start", "Connected"}
  /\ phase = "Connected" => Len(log) < MaxSessions
  /\ \E h \in Candidate(tokens, tried) : Ask("initiate", h.token)
  /\ phase' = "AwaitingGrant"
  /\ started' = now
  /\ verdict' = "None"
  /\ UNCHANGED <<driver, tokens, tried, granted, credentials, disk, server, opens, now, faults>>

\* No token left to try.
InitiateUnpaired ==
  /\ Idle
  /\ phase \in {"Start", "Connected"}
  /\ Candidate(tokens, tried) = {}
  /\ phase' = "Start"
  /\ verdict' = "NotPaired"
  /\ UNCHANGED <<driver, tokens, tried, granted, started, credentials, disk, wire, server,
                 opens, now, faults>>

\* Called again after it failed, without a restart, it fails for good.
InitiateOutOfOrder ==
  /\ Idle
  /\ phase \in {"AwaitingGrant", "Granted"}
  /\ phase' = "Failed"
  /\ UNCHANGED <<driver, tokens, tried, granted, started, verdict, credentials, disk, wire,
                 server, opens, now, faults>>

Take(status) ==
  /\ waiting # NoRequest
  /\ reply.status = status
  /\ waiting' = NoRequest
  /\ reply' = NoReply
  /\ UNCHANGED <<asked, requests>>

\* Mutant of Unauthorized: one refusal is taken for the end of the pairing.
UnauthorizedAtOnce ==
  /\ Take("Unauthorized")
  /\ phase = "AwaitingGrant"
  /\ tried' = tried + 1
  /\ phase' = "Failed" /\ verdict' = "NotPaired"
  /\ UNCHANGED <<driver, tokens, granted, started, credentials, disk, server, opens, now,
                 faults>>

\* A 401 on the first request: on to the next token, or the pairing is gone.
Unauthorized ==
  /\ Take("Unauthorized")
  /\ phase = "AwaitingGrant"
  /\ tried' = tried + 1
  /\ IF tried + 1 >= Cardinality(tokens)
       THEN phase' = "Failed" /\ verdict' = "NotPaired"
       ELSE phase' = "Start" /\ UNCHANGED verdict
  /\ UNCHANGED <<driver, tokens, granted, started, credentials, disk, server, opens, now,
                 faults>>

\* The time the client gives its store: the driver's is the one it was called with.
ClientNow == IF driver = "Session" THEN started ELSE now

\* The replacement is stored before it is confirmed, and then it is presented.
\* An integrator can persist it in between; the driver leaves no room to.
AcceptAndConfirm ==
  /\ waiting # NoRequest
  /\ reply.status = "Granted"
  /\ phase = "AwaitingGrant"
  /\ tokens' = Add(tokens, reply.token, ClientNow)
  /\ IF driver = "Machine" THEN Persist ELSE UNCHANGED disk
  /\ granted' = {reply.token}
  /\ phase' = "Granted"
  /\ Ask("confirm", reply.token)
  /\ UNCHANGED <<driver, tried, started, verdict, credentials, server, opens, now, faults>>

\* The server took the confirmation: the old tokens are retired, unless the client
\* was away for too long.  Then the caller persists what it has.
Connected ==
  /\ Take("Details")
  /\ phase = "Granted"
  /\ granted' = {}
  /\ \E token \in granted :
       IF Confirmable(tokens, token, ClientNow)
         THEN /\ tokens' = Confirmed(token)
              /\ tried' = 0
              /\ phase' = "Connected"
              /\ credentials' = {reply.token}
         ELSE UNCHANGED <<driver, tokens, tried, phase, credentials>>
  /\ Persist
  /\ UNCHANGED <<driver, started, verdict, server, opens, now, faults>>

\* A refused confirmation is an error the machine is not told of.
ConfirmationRefused ==
  /\ Take("Unauthorized")
  /\ phase = "Granted"
  /\ UNCHANGED <<driver, phase, tokens, tried, granted, started, verdict, credentials, server,
                 opens, now, faults>>
  /\ Persist

\* The server forgot the request when it restarted.
Forgotten == reply = NoReply /\ waiting \notin InUse

\* What becomes of requests nobody waits for: lost, or only late.
Abandon ==
  IF Late THEN requests' \in {requests, {q \in requests : q.n # waiting}}
  ELSE working = {} /\ requests' = {}

\* No reply came in time.
GiveUp ==
  /\ waiting # NoRequest
  /\ Abandon
  /\ IF Forgotten THEN UNCHANGED faults ELSE Fault
  /\ waiting' = NoRequest
  /\ reply' = NoReply
  /\ UNCHANGED <<asked, driver, phase, tokens, tried, granted, started, verdict, credentials,
                 server, opens, now>>
  /\ Persist

\* An integrator restarts the machine, which remembers how far down the list it was.
Restart ==
  /\ driver = "Machine"
  /\ Idle
  /\ phase \in {"AwaitingGrant", "Granted", "Failed"}
  /\ phase' = "Start"
  /\ UNCHANGED <<driver, tokens, tried, granted, started, verdict, credentials, disk, wire,
                 server, opens, now, faults>>

Fresh(store) ==
  /\ phase' = "Start" /\ tokens' = store /\ tried' = 0 /\ granted' = {}
  /\ verdict' = "None" /\ credentials' = {}
  /\ UNCHANGED <<driver, started>>

\* Mutant of Rebuild: a driver that failed is not replaced.
RebuildUnlessFailed ==
  /\ driver = "Session"
  /\ Idle
  /\ phase \in {"AwaitingGrant", "Granted"}
  /\ tokens # {}
  /\ Fresh(tokens)
  /\ UNCHANGED <<disk, wire, server, opens, now, faults>>

\* The driver has no restart: a new one is built around the tokens it holds.
Rebuild ==
  /\ driver = "Session"
  /\ Idle
  /\ phase \in {"AwaitingGrant", "Granted", "Failed"}
  /\ tokens # {}
  /\ Fresh(tokens)
  /\ UNCHANGED <<disk, wire, server, opens, now, faults>>

\* The client's process ends, and a new one adopts the tokens it persisted.
Crash ==
  /\ Fault
  /\ Idle \/ driver \in MidCall
  /\ Fresh({InForce(token) : token \in disk})
  /\ Abandon
  /\ waiting' = NoRequest /\ reply' = NoReply
  /\ UNCHANGED <<disk, asked, server, opens, now>>

\* The client renounces the pairing: its tokens are gone whatever the server says.
Unpair ==
  /\ Idle
  /\ tokens # {}
  /\ \E h \in Candidate(tokens, 0) : Ask("unpair", h.token)
  /\ tokens' = {} /\ disk' = {}
  /\ phase' = "Failed"
  /\ UNCHANGED <<driver, tried, granted, started, verdict, credentials, server, opens, now,
                 faults>>

\* Whatever the server answered.
Renounced ==
  /\ waiting # NoRequest
  /\ tokens = {}
  /\ \E status \in {"Unpaired", "Unauthorized"} : Take(status)
  /\ UNCHANGED <<client, server, opens, now, faults>>

-----------------------------------------------------------------------------
(***************************************************************************)
(* The server.  A handler reads the pairing, works on its copy, and writes *)
(* the tokens back; another may do the same in between.                    *)
(***************************************************************************)
Begin ==
  \E q \in requests :
    /\ requests' = requests \ {q}
    /\ working' = working \cup {[n |-> q.n, op |-> q.op, bearer |-> q.bearer,
                                 paired |-> paired, tokens |-> held, at |-> now]}
    /\ UNCHANGED <<client, waiting, asked, reply, paired, held, issued, minted, log, opens,
                   now, faults>>

Finish(w) == working' = working \ {w}

Respond(w, status, token) ==
  /\ reply' = IF w.n = waiting THEN Reply(status, token) ELSE reply
  /\ UNCHANGED <<waiting, asked, requests>>

Write(store) == held' = IF paired THEN store ELSE held

\* The store has no such pairing, or the pairing no such token.
Refused(w) ==
  \/ ~w.paired
  \/ w.op = "confirm" /\ ~(Pending(w.tokens, w.bearer) /\ Confirmable(w.tokens, w.bearer, w.at))
  \/ ~Accepts(w.tokens, w.bearer)

Refuse(w) ==
  /\ Refused(w)
  /\ Finish(w)
  /\ Respond(w, "Unauthorized", 0)
  /\ UNCHANGED <<client, paired, held, issued, minted, log, opens, now, faults>>

\* The replacement is issued alongside the token presented, not instead of it.
InitiateSession(w) ==
  /\ w.op = "initiate" /\ ~Refused(w)
  /\ Finish(w)
  /\ minted' = minted + 1
  /\ Write(Add(w.tokens, minted + 1, w.at))
  /\ Respond(w, "Granted", minted + 1)
  /\ UNCHANGED <<client, paired, issued, log, opens, now, faults>>

\* Mutant of ConfirmAccessToken: tokens for connections add up.
ConfirmAccessTokenKeepingIssued(w) ==
  /\ w.op = "confirm" /\ ~Refused(w)
  /\ Finish(w)
  /\ Write(Confirmed(w.bearer))
  /\ log' = Append(log, w.at)
  /\ issued' = issued \cup {[token |-> Len(log) + 1, at |-> w.at]}
  /\ Respond(w, "Details", Len(log) + 1)
  /\ UNCHANGED <<client, paired, minted, opens, now, faults>>

\* The proof that the replacement was stored retires every other token, and the
\* connection it authorises supersedes the one authorised before.
ConfirmAccessToken(w) ==
  /\ w.op = "confirm" /\ ~Refused(w)
  /\ Finish(w)
  /\ Write(Confirmed(w.bearer))
  /\ log' = Append(log, w.at)
  /\ issued' = {[token |-> Len(log) + 1, at |-> w.at]}
  /\ Respond(w, "Details", Len(log) + 1)
  /\ UNCHANGED <<client, paired, minted, opens, now, faults>>

UnpairServed(w) ==
  /\ w.op = "unpair" /\ ~Refused(w)
  /\ Finish(w)
  /\ paired' = FALSE /\ held' = {} /\ issued' = {}
  /\ Respond(w, "Unpaired", 0)
  /\ UNCHANGED <<client, minted, log, opens, now, faults>>

\* A server that restarts holds no communication token, and every access token.
ServerRestart ==
  /\ Fault
  /\ working' = {} /\ issued' = {}
  /\ UNCHANGED <<client, wire, paired, held, minted, log, opens, now>>

Expired(entry) == now - entry.at >= CommunicationLifetime

\* The client opens a WebSocket: the token it was given is used up, a token that
\* is not one is refused, and those that expired are swept on the way.
Dial ==
  \E c \in credentials :
    /\ IF \E entry \in issued : entry.token = c /\ ~Expired(entry)
         THEN /\ opens' = [opens EXCEPT ![c] = @ + 1]
              /\ UNCHANGED credentials
         ELSE /\ credentials' = {}
              /\ UNCHANGED opens
    /\ issued' = {entry \in issued : ~Expired(entry) /\ entry.token # c}
    /\ UNCHANGED <<driver, phase, tokens, tried, granted, started, verdict, disk, wire,
                   paired, held, working, minted, log, now, faults>>

\* A call does not outlive its timeout.
Tick ==
  /\ now < MaxTime
  /\ waiting # NoRequest => now - asked < RequestTimeout
  /\ now' = now + 1
  /\ UNCHANGED <<client, wire, server, opens, faults>>

-----------------------------------------------------------------------------
ClientStep ==
  \/ Initiate \/ InitiateUnpaired \/ InitiateOutOfOrder
  \/ Unauthorized \/ AcceptAndConfirm \/ Connected \/ ConfirmationRefused
  \/ Renounced \/ Restart \/ Rebuild

ServerStep ==
  \/ Begin
  \/ \E w \in working : Refuse(w) \/ InitiateSession(w) \/ ConfirmAccessToken(w) \/ UnpairServed(w)

Next ==
  \/ ClientStep \/ ServerStep
  \/ GiveUp \/ Crash \/ Unpair \/ ServerRestart \/ Dial \/ Tick

Spec == Init /\ [][Next]_vars

Fairness ==
  /\ WF_vars(ClientStep) /\ WF_vars(GiveUp) /\ WF_vars(Begin)
  /\ WF_vars(\E w \in working : Refuse(w) \/ InitiateSession(w) \/ ConfirmAccessToken(w)
                               \/ UnpairServed(w))

FairSpec == Spec /\ Fairness

-----------------------------------------------------------------------------
\* A grant on its way to the client.
Arriving == IF reply.status = "Granted" THEN {reply.token} ELSE {}

\* While both sides believe in the pairing, the client holds a token, or is about to, that
\* the server accepts: a failure anywhere in the two requests leaves a way back.
PairingSurvives ==
  paired /\ tokens # {} => (Tokens(tokens) \cup Arriving) \cap Tokens(held) # {}

\* A client that still has tokens says NotPaired, a call to a human, only when the server
\* really has forgotten the pairing: not because it lost track of which token is in force.
NotPairedMeansGone == verdict = "NotPaired" /\ tokens # {} => ~paired

\* The crate's own driver is built anew after a failure and starts with its newest token,
\* so it has not lost track however often it failed before.
DriverKnowsWhenGone == driver = "Session" => NotPairedMeansGone

\* A communication token opens one connection at most, and only the one issued last does,
\* within its lifetime: whatever was retried, lost or restarted since it was issued.
ConnectionsAreAuthorised ==
  [][\A c \in Connections :
       opens'[c] > opens[c] =>
         opens[c] = 0 /\ c = Len(log) /\ now - log[c] < CommunicationLifetime]_vars

\* The crate's own driver, as long as its caller keeps trying, is connected again after any
\* failure, unless one of the two gave the pairing up.
Reconnects ==
  (driver = "Session" /\ phase # "Connected")
    ~> (phase = "Connected" \/ tokens = {} \/ ~paired)
=============================================================================
