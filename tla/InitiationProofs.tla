-------------------------- MODULE InitiationProofs --------------------------
(***************************************************************************)
(* Proofs about SessionInitiation.  A communication token opens one        *)
(* connection, only the newest one does, and only within its lifetime, for *)
(* any number of requests, failures and restarts.  And when one thing      *)
(* failed, whichever, the two sides share an access token, and the crate's *)
(* driver says NotPaired only of a pairing that is gone.                   *)
(***************************************************************************)
EXTENDS SessionInitiation, FiniteSetTheorems, SequenceTheorems, TLAPS

\* What a handler that runs took its time from, and what the server wrote down.
Timed ==
  /\ now \in Nat
  /\ \A w \in working : w.at \in Nat
  /\ log \in Seq(Nat)

\* The server would accept the token it issued last, and no other, and has not seen it yet.
NewestOnly ==
  /\ \A entry \in issued :
       /\ entry.token = Len(log) /\ Len(log) > 0 /\ entry.at = log[Len(log)]
       /\ Len(log) \in Connections => opens[Len(log)] = 0
  /\ opens \in [Connections -> Nat]
  /\ \A c \in Connections : c > Len(log) => opens[c] = 0

\* The steps that issue nothing and open nothing.
Quiet == UNCHANGED <<issued, log, opens>>

\* Every step but a confirmation, a connection, a restart of the server and an unpairing.
LEMMA Steps ==
  ASSUME [Next]_vars
  PROVE  \/ Quiet
         \/ \E w \in working : ConfirmAccessToken(w)
         \/ Dial
         \/ issued' = {} /\ UNCHANGED <<log, opens>>
<1>1. CASE ClientStep
  BY <1>1 DEF ClientStep, Quiet, server, Initiate, InitiateUnpaired, InitiateOutOfOrder, Unauthorized,
              AcceptAndConfirm, Connected, ConfirmationRefused, Renounced, Restart, Rebuild
<1>2. CASE Begin
  BY <1>2 DEF Begin, Quiet
<1>3. ASSUME NEW w \in working, Refuse(w) \/ InitiateSession(w) PROVE Quiet
  BY <1>3 DEF Refuse, InitiateSession, Quiet
<1>4. ASSUME NEW w \in working, UnpairServed(w) PROVE issued' = {} /\ UNCHANGED <<log, opens>>
  BY <1>4 DEF UnpairServed
<1>5. CASE GiveUp \/ Crash \/ Unpair \/ Tick \/ UNCHANGED vars
  BY <1>5 DEF GiveUp, Crash, Unpair, Tick, vars, server, Quiet
<1>6. CASE ServerRestart
  BY <1>6 DEF ServerRestart
<1> QED BY <1>1, <1>2, <1>3, <1>4, <1>5, <1>6 DEF Next, ServerStep

\* A handler's time is the time it began at.
LEMMA WorkingIsTimed ==
  ASSUME Timed, [Next]_vars
  PROVE  now' \in Nat /\ \A w \in working' : w.at \in Nat
<1>1. CASE ClientStep
  BY <1>1 DEF Timed, ClientStep, server, Initiate, InitiateUnpaired, InitiateOutOfOrder, Unauthorized,
              AcceptAndConfirm, Connected, ConfirmationRefused, Renounced, Restart, Rebuild
<1>2. CASE Begin
  <2>1. now' = now /\ \A w \in working' : w \in working \/ w.at = now
    BY <1>2 DEF Begin
  <2> QED BY <2>1 DEF Timed
<1>3. ASSUME NEW w \in working,
             Refuse(w) \/ InitiateSession(w) \/ ConfirmAccessToken(w) \/ UnpairServed(w)
      PROVE  now' = now /\ working' \subseteq working
  BY <1>3 DEF Refuse, InitiateSession, ConfirmAccessToken, UnpairServed, Finish
<1>4. CASE GiveUp \/ Crash \/ Unpair \/ Dial \/ UNCHANGED vars
  BY <1>4 DEF Timed, GiveUp, Crash, Unpair, Dial, vars, server
<1>5. CASE ServerRestart
  BY <1>5 DEF ServerRestart, Timed
<1>6. CASE Tick
  BY <1>6 DEF Tick, Timed, server
<1> QED BY <1>1, <1>2, <1>3, <1>4, <1>5, <1>6 DEF Next, ServerStep, Timed

\* The token a confirmation issues is a new one, and the others are forgotten.
LEMMA ConfirmationIssues ==
  ASSUME Timed, NewestOnly, NEW w \in working, ConfirmAccessToken(w)
  PROVE  log' \in Seq(Nat) /\ NewestOnly'
<1>1. w.at \in Nat /\ log \in Seq(Nat)
  BY DEF Timed
<1>2. log' = Append(log, w.at) /\ opens' = opens /\ issued' = {[token |-> Len(log) + 1, at |-> w.at]}
  BY DEF ConfirmAccessToken
<1>3. log' \in Seq(Nat) /\ Len(log') = Len(log) + 1 /\ log'[Len(log')] = w.at
  BY <1>1, <1>2, AppendProperties
<1>4. Len(log) \in Nat
  BY <1>1
<1>5. \A entry \in issued' : entry.token = Len(log') /\ entry.at = log'[Len(log')]
  BY <1>2, <1>3
<1>6. \A c \in Connections : c \in Nat
  BY InitiationAssumption DEF Connections
<1>7. /\ \A c \in Connections : c > Len(log') => opens[c] = 0
      /\ Len(log') \in Connections => opens[Len(log')] = 0
  BY <1>3, <1>4, <1>6 DEF NewestOnly
<1>8. Len(log') > 0
  BY <1>3, <1>4
<1>9. opens' \in [Connections -> Nat]
  BY <1>2 DEF NewestOnly
<1> QED BY <1>2, <1>3, <1>5, <1>7, <1>8, <1>9 DEF NewestOnly

\* A connection is opened by the newest token, in time, and by that only once.
LEMMA DialUses ==
  ASSUME Timed, NewestOnly, Dial
  PROVE  /\ NewestOnly' /\ log' = log
         /\ \A c \in Connections : opens'[c] > opens[c] =>
              opens[c] = 0 /\ c = Len(log) /\ now - log[c] < CommunicationLifetime
<1>1. PICK c \in credentials :
        /\ \/ /\ \E entry \in issued : entry.token = c /\ ~Expired(entry)
              /\ opens' = [opens EXCEPT ![c] = @ + 1]
           \/ opens' = opens
        /\ issued' = {entry \in issued : ~Expired(entry) /\ entry.token # c}
        /\ log' = log
  BY DEF Dial
<1>2. Len(log) \in Nat /\ \A e \in Connections : e \in Nat /\ opens[e] \in Nat
  BY InitiationAssumption DEF Timed, Connections, NewestOnly
<1>3. CASE opens' = opens
  BY <1>1, <1>2, <1>3 DEF NewestOnly
<1>4. ASSUME NEW entry \in issued, entry.token = c, ~Expired(entry), opens' = [opens EXCEPT ![c] = @ + 1]
      PROVE  /\ NewestOnly'
             /\ \A e \in Connections : opens'[e] > opens[e] =>
                  opens[e] = 0 /\ e = Len(log) /\ now - log[e] < CommunicationLifetime
  <2>1. c = Len(log) /\ entry.at = log[Len(log)] /\ (c \in Connections => opens[c] = 0)
    BY <1>4 DEF NewestOnly
  <2>2. issued' = {}
    BY <1>1, <2>1 DEF NewestOnly
  <2>3. /\ \A e \in Connections : e # c => opens'[e] = opens[e]
        /\ c \in Connections => opens'[c] = opens[c] + 1
    BY <1>4 DEF NewestOnly
  <2>4. opens' \in [Connections -> Nat]
    <3>1. opens \in [Connections -> Nat] /\ (c \in Connections => opens[c] + 1 \in Nat)
      BY <1>2 DEF NewestOnly
    <3>2. CASE c \in Connections
      BY <1>4, <3>1, <3>2
    <3>3. CASE c \notin Connections
      BY <1>4, <3>1, <3>3
    <3> QED BY <3>2, <3>3
  <2>5. NewestOnly'
    BY <1>1, <1>2, <2>1, <2>2, <2>3, <2>4 DEF NewestOnly
  <2>6. now - log[Len(log)] < CommunicationLifetime
    <3>1. \E e \in issued : e = entry
      BY <1>4
    <3>2. Len(log) > 0
      BY <1>4 DEF NewestOnly
    <3>3. log[Len(log)] \in Nat /\ now \in Nat
      BY <3>2, ElementOfSeq DEF Timed
    <3> QED BY <1>4, <2>1, <3>3, InitiationAssumption DEF Expired
  <2> QED BY <1>2, <2>1, <2>3, <2>5, <2>6
<1> QED BY <1>1, <1>3, <1>4

LEMMA StepIssuesNewest ==
  ASSUME Timed, NewestOnly, [Next]_vars
  PROVE  Timed' /\ NewestOnly'
<1>1. CASE Quiet
  BY <1>1, WorkingIsTimed DEF Quiet, Timed, NewestOnly
<1>2. ASSUME NEW w \in working, ConfirmAccessToken(w) PROVE Timed' /\ NewestOnly'
  BY <1>2, WorkingIsTimed, ConfirmationIssues DEF Timed
<1>3. CASE Dial
  BY <1>3, WorkingIsTimed, DialUses DEF Timed
<1>4. CASE issued' = {} /\ UNCHANGED <<log, opens>>
  BY <1>4, WorkingIsTimed DEF Timed, NewestOnly
<1> QED BY <1>1, <1>2, <1>3, <1>4, Steps

\* For every number of attempts, failures and restarts, and every lifetime: a connection
\* is opened once by the token issued last, within its lifetime.
THEOREM OnlyAuthorisedConnections == Spec => ConnectionsAreAuthorised
<1> DEFINE Authorised ==
      \A c \in Connections :
        opens'[c] > opens[c] =>
          opens[c] = 0 /\ c = Len(log) /\ now - log[c] < CommunicationLifetime
<1>1. Init => Timed /\ NewestOnly
  <2> SUFFICES ASSUME Init PROVE Timed /\ NewestOnly
    OBVIOUS
  <2>1. now = 0 /\ working = {} /\ log = <<>> /\ issued = {} /\ opens = [c \in Connections |-> 0]
    BY DEF Init
  <2> QED BY <2>1 DEF Timed, NewestOnly
<1>2. (Timed /\ NewestOnly) /\ [Next]_vars => (Timed /\ NewestOnly)'
  BY StepIssuesNewest
<1>3. (Timed /\ NewestOnly) /\ [Next]_vars => [Authorised]_vars
  <2> SUFFICES ASSUME Timed, NewestOnly, [Next]_vars, NEW c \in Connections, opens'[c] > opens[c]
               PROVE  opens[c] = 0 /\ c = Len(log) /\ now - log[c] < CommunicationLifetime
    OBVIOUS
  <2>1. CASE Dial
    BY <2>1, DialUses
  <2>2. CASE opens' = opens
    <3>1. opens[c] \in Nat
      BY DEF NewestOnly
    <3> QED BY <2>2, <3>1
  <2>3. \A w \in working : ConfirmAccessToken(w) => opens' = opens
    BY DEF ConfirmAccessToken
  <2> QED BY <2>1, <2>2, <2>3, Steps DEF Quiet
<1> QED BY <1>1, <1>2, <1>3, PTL DEF Spec, ConnectionsAreAuthorised

-----------------------------------------------------------------------------
(***************************************************************************)
(* The lists of tokens.                                                    *)
(***************************************************************************)
Entries == [token : Nat, pending : BOOLEAN, at : Nat]

\* A list of tokens up to the n-th, each of them once.
Listed(store, n) ==
  /\ store \subseteq Entries
  /\ \A h \in store : h.token <= n
  /\ \A g, h \in store : g.token = h.token => g = h

\* A grant that is new to a list is the newest of the list it leaves, and what else
\* stays was there and had not lapsed.
LEMMA GrantJoins ==
  ASSUME NEW n \in Nat, NEW store, Listed(store, n), NEW t \in Nat, t > n, NEW now0 \in Nat
  PROVE  LET added == Add(store, t, now0) IN
         /\ Listed(added, t)
         /\ Grant(t, now0) \in added
         /\ \A h \in added : h = Grant(t, now0) \/ (h \in store /\ ~Lapsed(h, now0))
         /\ IsFiniteSet(store) => IsFiniteSet(added)
<1> DEFINE all == {h \in store : ~Lapsed(h, now0)} \cup {Grant(t, now0)}
<1>1. ~Accepts(store, t)
  <2>1. \A h \in store : h.token # t
    BY DEF Listed, Entries
  <2> QED BY <2>1 DEF Accepts, Tokens
<1>2. Add(store, t, now0) = {h \in all : Cardinality(Newer(all, h)) < MaxTokens}
  BY <1>1 DEF Add, Truncate
<1>3. Grant(t, now0) \in Entries /\ Grant(t, now0).token = t /\ Grant(t, now0) \in all
  BY DEF Grant, Entries
<1>4. \A h \in all : h = Grant(t, now0) \/ (h \in store /\ ~Lapsed(h, now0))
  OBVIOUS
<1>5. Newer(all, Grant(t, now0)) = {}
  <2>1. \A h \in all : ~(h.token > Grant(t, now0).token)
    BY <1>3, <1>4 DEF Listed, Entries
  <2> QED BY <2>1 DEF Newer
<1>6. Grant(t, now0) \in Add(store, t, now0)
  BY <1>2, <1>3, <1>5, FS_EmptySet, TokenStoreAssumption
<1>7. Listed(all, t)
  BY <1>3, <1>4 DEF Listed, Entries
<1>8. Listed(Add(store, t, now0), t)
  BY <1>2, <1>7 DEF Listed
<1>9. ASSUME IsFiniteSet(store) PROVE IsFiniteSet(Add(store, t, now0))
  <2>1. Add(store, t, now0) \subseteq store \cup {Grant(t, now0)}
    BY <1>2, <1>4
  <2>2. IsFiniteSet(store \cup {Grant(t, now0)})
    BY <1>9, FS_AddElement
  <2> QED BY <2>1, <2>2, FS_Subset
<1> QED BY <1>2, <1>4, <1>6, <1>8, <1>9

\* A token in force stays when all grants before it that have not lapsed are one at most.
LEMMA InForceStays ==
  ASSUME NEW store, NEW t, NEW now0, NEW f \in Nat, NEW p, ~Accepts(store, t),
         InForce(f) \in store, MaxTokens >= 3,
         \A h \in store : h = InForce(f) \/ h = p \/ Lapsed(h, now0)
  PROVE  InForce(f) \in Add(store, t, now0)
<1> DEFINE all == {h \in store : ~Lapsed(h, now0)} \cup {Grant(t, now0)}
<1>1. Add(store, t, now0) = {h \in all : Cardinality(Newer(all, h)) < MaxTokens}
  BY DEF Add, Truncate
<1>2. InForce(f) \in all
  BY DEF InForce, Lapsed
<1>3. Newer(all, InForce(f)) \subseteq {p, Grant(t, now0)}
  <2> SUFFICES ASSUME NEW h \in all, h.token > InForce(f).token, h # p, h # Grant(t, now0) PROVE FALSE
    BY DEF Newer
  <2>1. h = InForce(f)
    OBVIOUS
  <2>2. f > f
    BY <2>1 DEF InForce
  <2> QED BY <2>2
<1>4. IsFiniteSet({p, Grant(t, now0)}) /\ Cardinality({p, Grant(t, now0)}) <= 2
  <2>1. IsFiniteSet({p}) /\ Cardinality({p}) = 1
    BY FS_Singleton
  <2>2. {p, Grant(t, now0)} = {p} \cup {Grant(t, now0)}
    OBVIOUS
  <2>3. /\ IsFiniteSet({p} \cup {Grant(t, now0)})
        /\ Cardinality({p} \cup {Grant(t, now0)})
             = IF Grant(t, now0) \in {p} THEN Cardinality({p}) ELSE Cardinality({p}) + 1
    BY <2>1, FS_AddElement
  <2> QED BY <2>1, <2>2, <2>3
<1>5. Cardinality(Newer(all, InForce(f))) <= 2 /\ Cardinality(Newer(all, InForce(f))) \in Nat
  <2>1. Cardinality({p, Grant(t, now0)}) \in Nat
    BY <1>4, FS_CardinalityType
  <2> QED BY <1>3, <1>4, <2>1, FS_Subset, FS_CardinalityType
<1> QED BY <1>1, <1>2, <1>5, TokenStoreAssumption

-----------------------------------------------------------------------------
(***************************************************************************)
(* One call at a time.                                                     *)
(***************************************************************************)
\* What is needed for the pairing to survive: one failure at most, requests that are lost
\* when they are given up on, room for three tokens, and a driver that is not interrupted.
OneFailure == MaxFaults <= 1 /\ ~Late /\ MaxTokens >= 3 /\ "Session" \notin MidCall

Shapes ==
  /\ driver \in {"Session", "Machine"} /\ tried \in Nat /\ waiting \in Nat
  /\ now \in Nat /\ minted \in Nat /\ faults \in Nat
  /\ Listed(tokens, minted) /\ Listed(held, minted) /\ IsFiniteSet(tokens)

Calls == requests \cup working

\* A call is one request, which nobody handles once the client gave up on it: what its
\* handler read is what the server holds.
OneCall ==
  /\ waiting = NoRequest => reply = NoReply
  /\ \A q \in Calls : waiting # NoRequest /\ q.n = waiting /\ reply = NoReply
  /\ \A q, r \in requests : q = r
  /\ \A v, w \in working : v = w
  /\ requests = {} \/ working = {}
  /\ \A w \in working : w.tokens = held /\ w.paired = paired

\* What a call asks, and what its reply says.
Asked ==
  /\ \A q \in Calls :
       \/ q.op = "initiate" /\ phase = "AwaitingGrant" /\ q.bearer \in Tokens(tokens)
       \/ q.op = "confirm" /\ phase = "Granted" /\ granted = {q.bearer} /\ q.bearer \in Tokens(tokens)
       \/ q.op = "unpair" /\ phase = "Failed" /\ tokens = {}
  /\ reply.status \in {"None", "Granted", "Details", "Unauthorized", "Unpaired"}
  /\ reply.status = "None" => reply = NoReply
  /\ reply.status = "Granted" =>
       /\ phase = "AwaitingGrant" /\ tokens # {}
       /\ reply.token = minted /\ \A h \in tokens : h.token < minted
       /\ paired => minted \in Tokens(held)
  /\ reply.status = "Details" =>
       /\ phase = "Granted"
       /\ \E n \in Tokens(tokens) : granted = {n} /\ (paired => held = {InForce(n)})
  /\ reply.status = "Unpaired" => tokens = {}

\* The time the grant being confirmed was stored at.
StoredAt == IF driver = "Session" THEN started ELSE asked

\* A call lasts no longer than its timeout.
Clocked ==
  /\ started \in Nat /\ started <= now
  /\ waiting # NoRequest => asked \in Nat /\ asked <= now /\ now - asked <= RequestTimeout
  /\ \A w \in working : w.at \in Nat /\ asked <= w.at /\ w.at <= now
  /\ waiting # NoRequest /\ phase = "AwaitingGrant" => started = asked
  /\ waiting # NoRequest /\ phase = "Granted" =>
       \A n \in granted, h \in tokens : h.token = n /\ h.pending => h.at = StoredAt

\* What is persisted is what the client holds, but while the driver confirms a grant.
Saved ==
  Idle \/ driver = "Machine" \/ phase # "Granted" \/ tokens = {} => disk = Tokens(tokens)

Structure == Shapes /\ OneCall /\ Asked /\ Clocked /\ Saved

LEMMA NoCallAtRest ==
  ASSUME OneCall, waiting = NoRequest \/ reply # NoReply
  PROVE  requests = {} /\ working = {}
BY DEF OneCall, Calls

LEMMA InitStructure == Init => Structure
<1> SUFFICES ASSUME Init PROVE Structure
  OBVIOUS
<1>1. tokens = {InForce(0)} /\ held = {InForce(0)} /\ disk = {0} /\ minted = 0 /\ now = 0 /\ started = 0
      /\ tried = 0 /\ faults = 0 /\ waiting = NoRequest /\ requests = {} /\ working = {} /\ reply = NoReply
      /\ driver \in {"Session", "Machine"}
  BY InitiationAssumption DEF Init
<1>2. InForce(0) \in Entries /\ InForce(0).token = 0
  BY DEF InForce, Entries
<1>3. Listed(tokens, minted) /\ Listed(held, minted) /\ Tokens(tokens) = {0}
  BY <1>1, <1>2 DEF Listed, Tokens
<1>4. IsFiniteSet(tokens)
  BY <1>1, FS_Singleton
<1>5. NoReply.status = "None"
  BY DEF NoReply
<1>6. Shapes /\ OneCall /\ Asked /\ Clocked /\ Saved
  BY <1>1, <1>3, <1>4, <1>5 DEF Shapes, OneCall, Asked, Clocked, Saved, Calls, NoRequest
<1> QED BY <1>6 DEF Structure

\* A call that is over, or none: nothing is on its way, and what is held is persisted.
LEMMA StructureRests ==
  ASSUME Structure, waiting' = NoRequest, reply' = NoReply, requests' = {}, working' = {},
         Listed(tokens', minted), IsFiniteSet(tokens'), disk' = Tokens(tokens'),
         UNCHANGED <<driver, started, held, minted, now>>, tried' \in Nat, faults' \in Nat
  PROVE  Structure'
<1>1. NoReply.status = "None" /\ NoRequest \in Nat
  BY DEF NoReply, NoRequest
<1>2. Shapes'
  BY <1>1 DEF Structure, Shapes
<1>3. OneCall' /\ Asked' /\ Clocked' /\ Saved'
  BY <1>1 DEF Structure, OneCall, Asked, Clocked, Saved, Calls
<1> QED BY <1>2, <1>3 DEF Structure

\* A new call.
LEMMA StructureAsks ==
  ASSUME Structure, NEW op, NEW bearer, Ask(op, bearer), requests = {}, working = {},
         Listed(tokens', minted), IsFiniteSet(tokens'),
         UNCHANGED <<driver, held, paired, working, minted, now>>, tried' \in Nat, faults' \in Nat,
         started' \in Nat, started' <= now,
         \/ op = "initiate" /\ phase' = "AwaitingGrant" /\ bearer \in Tokens(tokens') /\ started' = now
         \/ op = "confirm" /\ phase' = "Granted" /\ granted' = {bearer} /\ bearer \in Tokens(tokens')
            /\ \A h \in tokens' : h.token = bearer => h.at = IF driver = "Session" THEN started' ELSE now
         \/ op = "unpair" /\ phase' = "Failed" /\ tokens' = {},
         (driver = "Machine" \/ phase' # "Granted" \/ tokens' = {}) => disk' = Tokens(tokens')
  PROVE  Structure' /\ Calls' # {} /\ waiting' # NoRequest /\ reply' = NoReply
<1>1. PICK n \in Names : requests' = {[n |-> n, op |-> op, bearer |-> bearer]} /\ waiting' = n /\ asked' = now
                         /\ reply' = NoReply
  BY DEF Ask
<1>2. n \in Nat /\ n # NoRequest /\ NoReply.status = "None" /\ RequestTimeout \in Nat
  BY InitiationAssumption DEF Names, NoRequest, NoReply
<1>3. Calls' = {[n |-> n, op |-> op, bearer |-> bearer]} /\ Calls' # {}
  BY <1>1 DEF Calls
<1>4. Shapes'
  BY <1>1, <1>2 DEF Structure, Shapes
<1>5. OneCall'
  BY <1>1, <1>2, <1>3 DEF OneCall
<1>6. Asked'
  BY <1>1, <1>2, <1>3 DEF Asked
<1>7. now \in Nat
  BY DEF Structure, Shapes
<1>8. Clocked'
  BY <1>1, <1>2, <1>7 DEF Clocked, StoredAt
<1>9. Saved'
  BY <1>1, <1>2 DEF Saved, Idle
<1> QED BY <1>1, <1>2, <1>3, <1>4, <1>5, <1>6, <1>8, <1>9 DEF Structure

\* The steps that only look at the call that is over, or leave it as it is.
AtRest ==
  /\ Idle
  /\ UNCHANGED <<tokens, started, disk, wire, server>>
  /\ tried' \in {tried, 0}

LEMMA RestingSteps ==
  ASSUME InitiateUnpaired \/ InitiateOutOfOrder \/ Restart \/ Rebuild
  PROVE  AtRest
BY DEF InitiateUnpaired, InitiateOutOfOrder, Restart, Rebuild, AtRest, Fresh, wire

LEMMA StructureAtRest ==
  ASSUME Structure, InitiateUnpaired \/ InitiateOutOfOrder \/ Restart \/ Rebuild
  PROVE  Structure'
<1>1. AtRest /\ UNCHANGED <<driver, now, faults>>
  BY RestingSteps DEF InitiateUnpaired, InitiateOutOfOrder, Restart, Rebuild, Fresh
<1>2. waiting = NoRequest /\ reply = NoReply /\ requests = {} /\ working = {} /\ disk = Tokens(tokens)
  BY <1>1, NoCallAtRest DEF Structure, OneCall, Saved, AtRest, Idle
<1>3. tried' \in Nat /\ faults' \in Nat /\ Listed(tokens, minted) /\ IsFiniteSet(tokens)
  BY <1>1 DEF Structure, Shapes, AtRest
<1> QED BY <1>1, <1>2, <1>3, StructureRests DEF AtRest, wire, server

LEMMA StructureRefused ==
  ASSUME Structure, Unauthorized \/ ConfirmationRefused \/ Renounced
  PROVE  Structure'
<1>1. PICK status \in {"Unpaired", "Unauthorized"} : Take(status)
  BY DEF Unauthorized, ConfirmationRefused, Renounced
<1>2. reply # NoReply /\ requests = {} /\ working = {}
  BY <1>1, NoCallAtRest DEF Take, NoReply, Structure
<1>3. waiting' = NoRequest /\ reply' = NoReply /\ requests' = {} /\ working' = {}
      /\ UNCHANGED <<driver, tokens, started, held, minted, now, faults>>
  BY <1>1, <1>2 DEF Take, Unauthorized, ConfirmationRefused, Renounced, server, client
<1>4. disk' = Tokens(tokens)
  BY DEF Unauthorized, ConfirmationRefused, Renounced, Persist, Structure, Saved, client
<1>5. tried' \in Nat
  BY DEF Unauthorized, ConfirmationRefused, Renounced, Structure, Shapes, client
<1> QED BY <1>3, <1>4, <1>5, StructureRests DEF Structure, Shapes

LEMMA ConfirmedIsListed ==
  ASSUME NEW n \in Nat, NEW store, Listed(store, n), NEW t \in Tokens(store)
  PROVE  /\ Listed(Confirmed(t), n) /\ IsFiniteSet(Confirmed(t)) /\ Tokens(Confirmed(t)) = {t}
         /\ t \in Nat
<1>1. t \in Nat /\ t <= n
  BY DEF Listed, Entries, Tokens
<1>2. InForce(t) \in Entries /\ InForce(t).token = t
  BY <1>1 DEF InForce, Entries
<1>3. Confirmed(t) = {InForce(t)}
  BY DEF Confirmed
<1>4. Listed({InForce(t)}, n) /\ Tokens({InForce(t)}) = {t}
  BY <1>1, <1>2 DEF Listed, Tokens
<1> QED BY <1>1, <1>3, <1>4, FS_Singleton

LEMMA StructureInitiates ==
  ASSUME Structure, Initiate
  PROVE  Structure'
<1>1. PICK h \in Candidate(tokens, tried) : Ask("initiate", h.token)
  BY DEF Initiate
<1>2. h \in tokens /\ h.token \in Tokens(tokens)
  BY <1>1 DEF Candidate, Tokens
<1>3. requests = {} /\ working = {} /\ disk = Tokens(tokens)
  BY NoCallAtRest DEF Initiate, Idle, Structure, Saved
<1>4. UNCHANGED <<driver, tokens, tried, disk, held, paired, working, minted, now, faults>> /\ started' = now
      /\ phase' = "AwaitingGrant"
  BY DEF Initiate, server
<1>5. now \in Nat /\ Listed(tokens, minted) /\ IsFiniteSet(tokens) /\ tried \in Nat /\ faults \in Nat
  BY DEF Structure, Shapes
<1> QED BY <1>1, <1>2, <1>3, <1>4, <1>5, StructureAsks

LEMMA StructureUnpairs ==
  ASSUME Structure, Unpair
  PROVE  Structure'
<1>1. PICK h \in Candidate(tokens, 0) : Ask("unpair", h.token)
  BY DEF Unpair
<1>2. requests = {} /\ working = {}
  BY NoCallAtRest DEF Unpair, Idle, Structure
<1>3. UNCHANGED <<driver, tried, started, held, paired, working, minted, now, faults>>
      /\ tokens' = {} /\ disk' = {} /\ phase' = "Failed"
  BY DEF Unpair, server
<1>4. now \in Nat /\ tried \in Nat /\ faults \in Nat /\ started \in Nat /\ started <= now
  BY DEF Structure, Shapes, Clocked
<1>5. Listed({}, minted) /\ IsFiniteSet({}) /\ Tokens({}) = {}
  BY FS_EmptySet DEF Listed, Tokens
<1> QED BY <1>1, <1>2, <1>3, <1>4, <1>5, StructureAsks

\* What the client's list becomes when a replacement is granted.
LEMMA Accepting ==
  ASSUME Structure, AcceptAndConfirm
  PROVE  /\ reply.token = minted /\ reply # NoReply /\ phase = "AwaitingGrant" /\ waiting # NoRequest
         /\ ClientNow \in Nat
         /\ Listed(tokens', minted) /\ IsFiniteSet(tokens') /\ Grant(minted, ClientNow) \in tokens'
         /\ \A h \in tokens' : h = Grant(minted, ClientNow) \/ (h \in tokens /\ h.token < minted)
         /\ ~Accepts(tokens, minted)
<1>1. reply.token = minted /\ reply # NoReply /\ (\A h \in tokens : h.token < minted) /\ tokens # {}
      /\ phase = "AwaitingGrant" /\ waiting # NoRequest
  BY DEF AcceptAndConfirm, Structure, Asked, NoReply
<1>2. ClientNow \in Nat
  BY DEF ClientNow, Structure, Shapes, Clocked
<1>3. minted \in Nat /\ Listed(tokens, minted) /\ IsFiniteSet(tokens)
  BY DEF Structure, Shapes
<1>4. Listed(tokens, minted - 1) /\ minted - 1 \in Nat
  <2>1. PICK h \in tokens : h.token \in Nat /\ h.token < minted
    BY <1>1, <1>3 DEF Listed, Entries
  <2>2. \A g \in tokens : g.token <= minted - 1
    BY <1>1, <1>3 DEF Listed, Entries
  <2> QED BY <1>3, <2>1, <2>2 DEF Listed
<1>5. tokens' = Add(tokens, minted, ClientNow)
  BY <1>1 DEF AcceptAndConfirm
<1>6. ~Accepts(tokens, minted)
  BY <1>1, <1>3 DEF Accepts, Tokens, Listed, Entries
<1>7. minted > minted - 1
  BY <1>3
<1> QED BY <1>1, <1>2, <1>3, <1>4, <1>5, <1>6, <1>7, GrantJoins

LEMMA StructureAccepts ==
  ASSUME Structure, AcceptAndConfirm
  PROVE  Structure' /\ Calls' # {} /\ waiting' # NoRequest /\ reply' = NoReply
<1>1. Ask("confirm", minted) /\ phase' = "Granted" /\ granted' = {minted}
      /\ UNCHANGED <<driver, held, paired, working, minted, now, faults, tried, started>>
      /\ (driver = "Machine" => disk' = Tokens(tokens'))
  BY Accepting DEF AcceptAndConfirm, server, Persist
<1>2. requests = {} /\ working = {}
  BY NoCallAtRest, Accepting DEF Structure
<1>3. minted \in Tokens(tokens')
  <2>1. Grant(minted, ClientNow).token = minted
    BY DEF Grant
  <2> QED BY <2>1, Accepting DEF Tokens
<1>4. \A h \in tokens' : h.token = minted => h.at = IF driver = "Session" THEN started' ELSE now
  <2>1. Grant(minted, ClientNow).at = IF driver = "Session" THEN started' ELSE now
    BY <1>1 DEF Grant, ClientNow
  <2>2. \A h \in tokens : ~(minted < minted)
    BY DEF Structure, Shapes
  <2> QED BY <2>1, <2>2, Accepting
<1>5. started' \in Nat /\ started' <= now /\ tried' \in Nat /\ faults' \in Nat
  BY <1>1 DEF Structure, Shapes, Clocked
<1>6. tokens' # {}
  BY Accepting
<1>7. phase' # "Granted" \/ tokens' = {} => FALSE
  BY <1>1, <1>6
<1> QED BY <1>1, <1>2, <1>3, <1>4, <1>5, <1>7, Accepting, StructureAsks

\* A confirmation that was accepted is of a grant the client still has.
LEMMA Connecting ==
  ASSUME Structure, Connected
  PROVE  /\ waiting # NoRequest /\ reply # NoReply /\ phase = "Granted" /\ requests = {} /\ working = {}
         /\ \E n \in Tokens(tokens) :
              /\ granted = {n} /\ tokens' = Confirmed(n) /\ phase' = "Connected" /\ tried' = 0
              /\ (paired => held = {InForce(n)})
<1>1. reply.status = "Details" /\ phase = "Granted" /\ waiting # NoRequest
  BY DEF Connected, Take
<1>2. reply # NoReply /\ requests = {} /\ working = {}
  BY <1>1, NoCallAtRest DEF Structure, NoReply
<1>3. PICK n \in Tokens(tokens) : granted = {n} /\ (paired => held = {InForce(n)})
  BY <1>1 DEF Structure, Asked
<1>4. Confirmable(tokens, n, ClientNow)
  <2>1. PICK h \in tokens : h.token = n
    BY DEF Tokens
  <2>2. h.pending => h.at = StoredAt
    BY <1>1, <1>3, <2>1 DEF Structure, Clocked
  <2>3. ClientNow - StoredAt <= PendingLifetime
    BY <1>1, TokenStoreAssumption, InitiationAssumption
       DEF ClientNow, StoredAt, Structure, Clocked, Shapes
  <2>4. h.pending \in BOOLEAN /\ h.at \in Nat /\ ClientNow \in Nat
    BY DEF Structure, Shapes, Clocked, ClientNow, Listed, Entries
  <2>5. ~Lapsed(h, ClientNow)
    BY <2>2, <2>3, <2>4, TokenStoreAssumption DEF Lapsed
  <2> QED BY <2>1, <2>5 DEF Confirmable
<1>5. tokens' = Confirmed(n) /\ phase' = "Connected" /\ tried' = 0
  BY <1>3, <1>4 DEF Connected
<1> QED BY <1>1, <1>2, <1>3, <1>5

LEMMA StructureConnects ==
  ASSUME Structure, Connected
  PROVE  Structure'
<1>1. PICK n \in Tokens(tokens) : tokens' = Confirmed(n) /\ tried' = 0
  BY Connecting
<1>2. Listed(tokens', minted) /\ IsFiniteSet(tokens')
  BY <1>1, ConfirmedIsListed DEF Structure, Shapes
<1>3. waiting' = NoRequest /\ reply' = NoReply /\ requests' = {} /\ working' = {}
      /\ UNCHANGED <<driver, started, held, minted, now, faults>> /\ disk' = Tokens(tokens')
  BY Connecting DEF Connected, Take, Persist, server
<1>4. tried' \in Nat /\ faults' \in Nat
  BY <1>1, <1>3 DEF Structure, Shapes
<1> QED BY <1>2, <1>3, <1>4, StructureRests

LEMMA StructureGivesUp ==
  ASSUME Structure, ~Late, GiveUp
  PROVE  Structure'
<1>1. waiting' = NoRequest /\ reply' = NoReply /\ requests' = {} /\ working' = {}
      /\ UNCHANGED <<driver, tokens, tried, started, held, minted, now>> /\ disk' = Tokens(tokens')
  BY DEF GiveUp, Abandon, Persist, server
<1>2. faults' \in Nat /\ tried' \in Nat
  BY <1>1 DEF GiveUp, Fault, Structure, Shapes
<1> QED BY <1>1, <1>2, StructureRests DEF Structure, Shapes

\* What a client adopts is what it persisted, each token in force.
LEMMA Adopting ==
  ASSUME Structure, disk = Tokens(tokens), tokens' = {InForce(token) : token \in disk}
  PROVE  Listed(tokens', minted) /\ IsFiniteSet(tokens') /\ Tokens(tokens') = disk
<1>1. \A t \in disk : InForce(t) \in Entries /\ InForce(t).token = t /\ t <= minted
  BY DEF InForce, Entries, Structure, Shapes, Listed, Tokens
<1>2. Listed(tokens', minted)
  BY <1>1 DEF Listed
<1>3. Tokens(tokens') = disk
  BY <1>1 DEF Tokens
<1>4. IsFiniteSet(disk)
  <2> DEFINE name == [h \in tokens |-> h.token]
  <2>1. name \in Surjection(tokens, disk)
    BY DEF Surjection, Tokens
  <2> QED BY <2>1, FS_Surjection DEF Structure, Shapes
<1>5. IsFiniteSet(tokens')
  <2> DEFINE adopt == [t \in disk |-> InForce(t)]
  <2>1. adopt \in Surjection(disk, tokens')
    BY DEF Surjection
  <2> QED BY <2>1, <1>4, FS_Surjection
<1> QED BY <1>2, <1>3, <1>5

LEMMA Crashing ==
  ASSUME Structure, OneFailure, Crash
  PROVE  disk = Tokens(tokens) /\ tokens' = {InForce(token) : token \in disk} /\ tried' = 0
         /\ phase' = "Start" /\ requests' = {} /\ working' = {} /\ waiting' = NoRequest /\ reply' = NoReply
         /\ UNCHANGED <<driver, started, paired, held, minted, now, disk>>
<1>1. Idle \/ driver = "Machine"
  BY DEF Crash, OneFailure, Structure, Shapes
<1> QED BY <1>1 DEF Crash, Fresh, Abandon, OneFailure, server, Structure, Saved

LEMMA StructureCrashes ==
  ASSUME Structure, OneFailure, Crash
  PROVE  Structure'
<1>1. faults' \in Nat /\ tried' \in Nat
  BY Crashing DEF Crash, Fault, Structure, Shapes
<1> QED BY <1>1, Crashing, Adopting, StructureRests

-----------------------------------------------------------------------------
(* The steps of the server. *)

LEMMA StructureBegins ==
  ASSUME Structure, Begin
  PROVE  Structure' /\ Calls' # {}
<1>1. PICK q \in requests :
        /\ requests' = requests \ {q}
        /\ working' = working \cup {[n |-> q.n, op |-> q.op, bearer |-> q.bearer,
                                     paired |-> paired, tokens |-> held, at |-> now]}
        /\ UNCHANGED <<client, waiting, asked, reply, paired, held, minted, now, faults>>
  BY DEF Begin
<1>2. requests = {q} /\ working = {} /\ waiting # NoRequest /\ q.n = waiting /\ reply = NoReply /\ q \in Calls
  BY DEF Structure, OneCall, Calls
<1> DEFINE w == [n |-> q.n, op |-> q.op, bearer |-> q.bearer, paired |-> paired, tokens |-> held, at |-> now]
<1>3. requests' = {} /\ working' = {w} /\ Calls' = {w}
  BY <1>1, <1>2 DEF Calls
<1>4. Shapes' /\ Saved'
  BY <1>1 DEF client, Structure, Shapes, Saved, Idle
<1>5. w.n = q.n /\ w.op = q.op /\ w.bearer = q.bearer /\ w.paired = paired /\ w.tokens = held /\ w.at = now
  OBVIOUS
<1> HIDE DEF w
<1>6. OneCall'
  BY <1>1, <1>2, <1>3, <1>5 DEF OneCall
<1>7. Asked'
  BY <1>1, <1>2, <1>3, <1>5 DEF Asked, Structure, client
<1>8. Clocked'
  BY <1>1, <1>2, <1>3, <1>5 DEF Clocked, Structure, Shapes, client, StoredAt
<1> QED BY <1>3, <1>4, <1>6, <1>7, <1>8 DEF Structure

\* A handler that answers, to the client that waits.
Answers(w, status, token) ==
  /\ working = {w} /\ working' = {} /\ requests = {} /\ requests' = {}
  /\ reply = NoReply /\ reply' = Reply(status, token) /\ w.n = waiting /\ waiting # NoRequest
  /\ w.tokens = held /\ w.paired = paired /\ w \in Calls
  /\ UNCHANGED <<client, waiting, asked, now, faults>>

LEMMA Answering ==
  ASSUME Structure, NEW w \in working, NEW status, NEW token, Finish(w), Respond(w, status, token),
         UNCHANGED <<client, now, faults>>
  PROVE  Answers(w, status, token)
BY DEF Structure, OneCall, Calls, Finish, Respond, Answers

LEMMA StructureAnswers ==
  ASSUME Structure, NEW w \in working, NEW status, NEW token, Answers(w, status, token),
         minted' \in Nat, minted' >= minted, Listed(held', minted'),
         status \in {"Granted", "Details", "Unauthorized", "Unpaired"},
         status = "Granted" => /\ w.op = "initiate" /\ token = minted' /\ minted' > minted
                               /\ (paired' => minted' \in Tokens(held')),
         status = "Details" => w.op = "confirm" /\ (paired' => held' = {InForce(w.bearer)}),
         status = "Unpaired" => w.op = "unpair"
  PROVE  Structure'
<1>1. reply'.status = status /\ reply'.token = token /\ reply' # NoReply
  BY DEF Answers, Reply, NoReply
<1>2. Calls' = {}
  BY DEF Calls, Answers
<1>3. UNCHANGED <<driver, phase, tokens, tried, granted, started, disk, waiting, asked, now, faults>>
      /\ waiting # NoRequest
  BY DEF Answers, client
<1>4. Shapes'
  <2>1. Listed(tokens, minted')
    BY DEF Structure, Shapes, Listed, Entries
  <2> QED BY <1>3, <2>1 DEF Structure, Shapes
<1>5. OneCall'
  BY <1>1, <1>2, <1>3 DEF OneCall, Answers
<1>6. Asked'
  <2>1. w \in Calls
    BY DEF Answers
  <2>2. \A h \in tokens : h.token \in Nat /\ h.token <= minted /\ minted \in Nat
    BY DEF Structure, Shapes, Listed, Entries
  <2>3. status = "Granted" => phase = "AwaitingGrant" /\ tokens # {} /\ \A h \in tokens : h.token < minted'
    BY <2>1, <2>2 DEF Structure, Asked, Tokens
  <2>4. status = "Details" => phase = "Granted" /\ granted = {w.bearer} /\ w.bearer \in Tokens(tokens)
    BY <2>1 DEF Structure, Asked
  <2>5. status = "Unpaired" => tokens = {}
    BY <2>1 DEF Structure, Asked
  <2> QED BY <1>1, <1>2, <1>3, <2>3, <2>4, <2>5 DEF Asked
<1>7. Clocked'
  BY <1>3 DEF Structure, Clocked, Answers, StoredAt
<1>8. Saved'
  BY <1>3 DEF Structure, Saved, Idle
<1> QED BY <1>4, <1>5, <1>6, <1>7, <1>8 DEF Structure

LEMMA Refusing ==
  ASSUME Structure, NEW w \in working, Refuse(w)
  PROVE  Answers(w, "Unauthorized", 0) /\ UNCHANGED <<paired, held, minted>>
BY Answering DEF Refuse

LEMMA StructureRefuses ==
  ASSUME Structure, NEW w \in working, Refuse(w)
  PROVE  Structure'
BY Refusing, StructureAnswers DEF Structure, Shapes

LEMMA Replacing ==
  ASSUME Structure, NEW w \in working, InitiateSession(w)
  PROVE  /\ Answers(w, "Granted", minted + 1)
         /\ minted' = minted + 1 /\ paired' = paired
         /\ held' = IF paired THEN Add(held, minted + 1, w.at) ELSE held
         /\ w.op = "initiate" /\ w.at \in Nat /\ asked <= w.at
         /\ Listed(Add(held, minted + 1, w.at), minted + 1)
         /\ Grant(minted + 1, w.at) \in Add(held, minted + 1, w.at)
         /\ \A h \in Add(held, minted + 1, w.at) :
              h = Grant(minted + 1, w.at) \/ (h \in held /\ ~Lapsed(h, w.at))
<1>1. Answers(w, "Granted", minted + 1)
  BY Answering DEF InitiateSession
<1>2. w.tokens = held /\ w.paired = paired
  BY <1>1 DEF Answers
<1>3. w.at \in Nat /\ asked <= w.at
  BY DEF Structure, Clocked
<1>4. minted \in Nat /\ minted + 1 \in Nat /\ minted + 1 > minted /\ Listed(held, minted)
  BY DEF Structure, Shapes
<1> QED BY <1>1, <1>2, <1>3, <1>4, GrantJoins DEF InitiateSession, Write

LEMMA StructureGrants ==
  ASSUME Structure, NEW w \in working, InitiateSession(w)
  PROVE  Structure'
<1>1. Listed(held', minted + 1)
  <2>1. Listed(held, minted + 1)
    BY DEF Structure, Shapes, Listed, Entries
  <2> QED BY <2>1, Replacing
<1>2. paired => minted + 1 \in Tokens(held')
  <2>1. Grant(minted + 1, w.at).token = minted + 1
    BY DEF Grant
  <2> QED BY <2>1, Replacing DEF Tokens
<1>3. minted' \in Nat /\ minted' > minted
  BY Replacing DEF Structure, Shapes
<1>4. Answers(w, "Granted", minted') /\ w.op = "initiate" /\ minted' = minted + 1 /\ paired' = paired
  BY Replacing
<1>5. minted' >= minted /\ Listed(held', minted') /\ (paired' => minted' \in Tokens(held'))
  BY <1>1, <1>2, <1>4 DEF Structure, Shapes
<1> QED BY <1>3, <1>4, <1>5, StructureAnswers

LEMMA Confirming ==
  ASSUME Structure, NEW w \in working, ConfirmAccessToken(w)
  PROVE  /\ Answers(w, "Details", Len(log) + 1)
         /\ UNCHANGED <<paired, minted>>
         /\ held' = IF paired THEN {InForce(w.bearer)} ELSE held
         /\ w.op = "confirm" /\ phase = "Granted" /\ granted = {w.bearer} /\ w.bearer \in Tokens(tokens)
<1>1. Answers(w, "Details", Len(log) + 1)
  BY Answering DEF ConfirmAccessToken
<1>2. w \in Calls
  BY DEF Calls
<1> QED BY <1>1, <1>2 DEF ConfirmAccessToken, Write, Confirmed, Structure, Asked

LEMMA StructureConfirms ==
  ASSUME Structure, NEW w \in working, ConfirmAccessToken(w)
  PROVE  Structure'
<1>1. Listed({InForce(w.bearer)}, minted)
  BY Confirming, ConfirmedIsListed DEF Structure, Shapes, Confirmed
<1>2. /\ minted' = minted /\ paired' = paired
      /\ (held' = {InForce(w.bearer)} \/ held' = held) /\ (paired => held' = {InForce(w.bearer)})
  BY Confirming
<1>4. minted \in Nat /\ Listed(held, minted)
  BY DEF Structure, Shapes
<1>5. Listed(held', minted')
  BY <1>1, <1>2, <1>4
<1>6. minted' \in Nat /\ minted' >= minted
  BY <1>2, <1>4
<1>3. Answers(w, "Details", Len(log) + 1) /\ w.op = "confirm"
  BY Confirming
<1> QED BY <1>2, <1>3, <1>5, <1>6, StructureAnswers

LEMMA Unpairing ==
  ASSUME Structure, NEW w \in working, UnpairServed(w)
  PROVE  Answers(w, "Unpaired", 0) /\ w.op = "unpair" /\ paired' = FALSE /\ held' = {} /\ minted' = minted
BY Answering DEF UnpairServed

LEMMA StructureUnpairServed ==
  ASSUME Structure, NEW w \in working, UnpairServed(w)
  PROVE  Structure'
<1>1. Listed({}, minted)
  BY DEF Listed
<1>2. minted' = minted /\ held' = {}
  BY Unpairing
<1>4. minted' \in Nat /\ minted' >= minted
  BY <1>2 DEF Structure, Shapes
<1>5. Listed(held', minted')
  BY <1>1, <1>2
<1>3. Answers(w, "Unpaired", 0) /\ w.op = "unpair"
  BY Unpairing
<1> QED BY <1>3, <1>4, <1>5, StructureAnswers

\* The steps that concern connections, the clock and the server's memory.
Elsewhere ==
  /\ UNCHANGED <<driver, phase, tokens, tried, granted, started, verdict, disk, wire, paired, held, minted>>
  /\ working' \in {working, {}}
  /\ now' = now \/ (now' = now + 1 /\ (waiting # NoRequest => now - asked < RequestTimeout))

LEMMA ElsewhereSteps ==
  ASSUME Dial \/ Tick \/ ServerRestart \/ UNCHANGED vars
  PROVE  /\ Elsewhere
         /\ Dial \/ Tick \/ UNCHANGED vars => working' = working /\ faults' = faults
BY DEF Dial, Tick, ServerRestart, vars, client, wire, server, Elsewhere

LEMMA StructureElsewhere ==
  ASSUME Structure, Dial \/ Tick \/ ServerRestart \/ UNCHANGED vars
  PROVE  Structure'
<1>1. Elsewhere
  BY ElsewhereSteps
<1>2. faults' \in Nat
  BY DEF Dial, Tick, ServerRestart, vars, Fault, Structure, Shapes
<1>3. UNCHANGED <<driver, phase, tokens, tried, granted, started, disk, waiting, asked, requests, reply,
                  paired, held, minted>>
      /\ (\A w \in working' : w \in working) /\ (\A q \in Calls' : q \in Calls)
  BY <1>1 DEF Elsewhere, wire, Calls
<1>4. now' \in Nat /\ now <= now' /\ now \in Nat
  BY <1>1 DEF Elsewhere, Structure, Shapes
<1>5. Shapes' /\ Saved'
  BY <1>2, <1>3, <1>4 DEF Structure, Shapes, Saved, Idle
<1>6. OneCall'
  <2>1. requests' = {} \/ working' = {}
    BY <1>1, <1>3 DEF Structure, OneCall, Elsewhere
  <2> QED BY <1>3, <2>1 DEF Structure, OneCall
<1>7. Asked'
  BY <1>3 DEF Structure, Asked
<1>8. Clocked'
  <2>1. waiting # NoRequest => now' - asked <= RequestTimeout
    BY <1>1, InitiationAssumption DEF Elsewhere, Structure, Clocked, Shapes
  <2>2. \A w \in working : w.at \in Nat /\ asked <= w.at /\ w.at <= now'
    BY <1>4 DEF Structure, Clocked
  <2> QED BY <1>3, <1>4, <2>1, <2>2 DEF Structure, Clocked, StoredAt
<1> QED BY <1>5, <1>6, <1>7, <1>8 DEF Structure

LEMMA NextStructure ==
  ASSUME Structure, OneFailure, [Next]_vars
  PROVE  Structure'
<1>1. CASE ClientStep
  BY <1>1, StructureInitiates, StructureAtRest, StructureRefused, StructureAccepts, StructureConnects
     DEF ClientStep
<1>2. CASE ServerStep
  BY <1>2, StructureBegins, StructureRefuses, StructureGrants, StructureConfirms, StructureUnpairServed
     DEF ServerStep
<1>3. CASE GiveUp \/ Crash \/ Unpair
  BY <1>3, StructureGivesUp, StructureCrashes, StructureUnpairs DEF OneFailure
<1> QED BY <1>1, <1>2, <1>3, StructureElsewhere DEF Next

-----------------------------------------------------------------------------
(***************************************************************************)
(* As long as nothing failed both sides hold the token in force, and no    *)
(* list holds more than that one and two grants.                           *)
(***************************************************************************)
Agreed(f) ==
  /\ InForce(f) \in tokens /\ InForce(f) \in held
  /\ \A h \in tokens \cup held : ~h.pending => h = InForce(f)

\* The server's grants that nobody confirmed have lapsed by t, and so have the client's
\* but the newest, ...
ServerLapsed(t) == \A h \in held : h.pending => Lapsed(h, t)

ClientLapsed(t) ==
  \A h \in tokens : h.pending =>
    /\ t - h.at > PendingLifetime - RequestTimeout
    /\ \A g \in tokens : g.pending /\ h.token < g.token => t - h.at > PendingLifetime

\* ... when a call is over, ...
LapsedAtRest ==
  waiting = NoRequest \/ reply.status = "Unauthorized" => ClientLapsed(now) /\ ServerLapsed(now)

\* ... when a replacement is asked for, ...
LapsedWhenAsked ==
  waiting # NoRequest /\ phase = "AwaitingGrant" =>
    ClientLapsed(started) /\ (reply = NoReply => ServerLapsed(started))

\* ... and when one was granted all but that one have.
OneGrant ==
  reply.status = "Granted" \/ (waiting # NoRequest /\ phase = "Granted" /\ reply = NoReply) =>
    \E g \in held :
      /\ g.pending /\ g.token = minted /\ g.at >= started
      /\ \A h \in held : h.pending => h = g
      /\ phase = "Granted" =>
           /\ granted = {minted}
           /\ \A h \in tokens : h.pending =>
                IF h.token = minted THEN h.at <= g.at + RequestTimeout
                                    ELSE g.at - h.at > PendingLifetime - RequestTimeout

InStep == (\E f \in Tokens(held) : Agreed(f)) /\ LapsedAtRest /\ LapsedWhenAsked /\ OneGrant

\* Whoever waits is answered, and a confirmation that was answered took effect.
Faultless ==
  faults = 0 /\ paired /\ tokens # {} =>
    /\ waiting # NoRequest /\ reply = NoReply => Calls # {}
    /\ reply.status = "Details" \/ InStep

Times == PendingLifetime \in Nat /\ RequestTimeout \in Nat /\ RequestTimeout <= PendingLifetime

LEMMA TimeFacts ==
  ASSUME Structure
  PROVE  /\ Times /\ now \in Nat /\ started \in Nat /\ started <= now
         /\ \A h \in tokens \cup held :
              h.at \in Nat /\ h.token \in Nat /\ h.token <= minted /\ h.pending \in BOOLEAN
BY TokenStoreAssumption, InitiationAssumption DEF Structure, Shapes, Clocked, Listed, Entries, Times

\* What has lapsed stays lapsed.
LEMMA LapsedLater ==
  ASSUME Structure, NEW s \in Nat, NEW t \in Nat, s <= t
  PROVE  /\ ServerLapsed(s) => ServerLapsed(t)
         /\ ClientLapsed(s) => ClientLapsed(t)
<1>1. ServerLapsed(s) => ServerLapsed(t)
  BY TimeFacts DEF ServerLapsed, Lapsed, Times
<1>2. ClientLapsed(s) => ClientLapsed(t)
  BY TimeFacts DEF ClientLapsed, Times
<1> QED BY <1>1, <1>2

LEMMA InitFaultless == Init => Faultless
<1> SUFFICES ASSUME Init PROVE Faultless
  OBVIOUS
<1>1. tokens = {InForce(0)} /\ held = {InForce(0)} /\ waiting = NoRequest /\ reply = NoReply /\ phase = "Start"
  BY DEF Init
<1>2. InForce(0).token = 0 /\ ~InForce(0).pending /\ NoReply.status = "None"
  BY DEF InForce, NoReply
<1>3. 0 \in Tokens(held) /\ Agreed(0)
  BY <1>1, <1>2 DEF Agreed, Tokens
<1>4. LapsedAtRest /\ LapsedWhenAsked /\ OneGrant
  BY <1>1, <1>2 DEF LapsedAtRest, LapsedWhenAsked, OneGrant, ClientLapsed, ServerLapsed
<1> QED BY <1>1, <1>3, <1>4 DEF Faultless, InStep

\* A call that is over leaves the lists as they are.
LEMMA CallEnds ==
  ASSUME Structure, InStep, UNCHANGED <<tokens, held, now>>, waiting' = NoRequest, reply' = NoReply,
         waiting = NoRequest \/ reply.status = "Unauthorized"
  PROVE  InStep'
<1>1. NoReply.status = "None"
  BY DEF NoReply
<1>2. ClientLapsed(now)' /\ ServerLapsed(now)'
  BY DEF InStep, LapsedAtRest, ClientLapsed, ServerLapsed
<1>3. LapsedAtRest' /\ LapsedWhenAsked' /\ OneGrant'
  BY <1>1, <1>2 DEF LapsedAtRest, LapsedWhenAsked, OneGrant
<1>4. (\E f \in Tokens(held) : Agreed(f))'
  BY DEF InStep, Agreed
<1> QED BY <1>3, <1>4 DEF InStep

LEMMA FaultlessAtRest ==
  ASSUME Structure, Faultless,
         InitiateUnpaired \/ InitiateOutOfOrder \/ Restart \/ Rebuild
  PROVE  Faultless'
<1>1. AtRest /\ UNCHANGED <<now, faults, tokens, held, paired, waiting, reply>> /\ waiting = NoRequest
  BY RestingSteps DEF AtRest, InitiateUnpaired, InitiateOutOfOrder, Restart, Rebuild, Idle, wire, server
<1>2. reply = NoReply /\ reply.status # "Details"
  BY <1>1 DEF Structure, OneCall, NoReply
<1> QED BY <1>1, <1>2, CallEnds DEF Faultless

LEMMA FaultlessRefused ==
  ASSUME Structure, Faultless, Unauthorized \/ ConfirmationRefused \/ Renounced
  PROVE  Faultless'
<1>1. CASE Unauthorized \/ ConfirmationRefused
  <2>1. /\ waiting' = NoRequest /\ reply' = NoReply /\ reply.status = "Unauthorized"
        /\ UNCHANGED <<tokens, held, paired, now, faults>>
    BY <1>1 DEF Unauthorized, ConfirmationRefused, Take, server
  <2> QED BY <2>1, CallEnds DEF Faultless
<1>2. CASE Renounced
  BY <1>2 DEF Renounced, client, Faultless
<1> QED BY <1>1, <1>2

LEMMA FaultlessInitiates ==
  ASSUME Structure, Faultless, Initiate
  PROVE  Faultless'
<1> SUFFICES ASSUME faults = 0, paired, tokens # {}
             PROVE  Calls' # {} /\ InStep'
  BY DEF Initiate, server, Faultless
<1>1. waiting = NoRequest /\ reply = NoReply /\ reply.status # "Details"
  BY DEF Initiate, Idle, Structure, OneCall, NoReply
<1>2. PICK op, bearer : Ask(op, bearer)
  BY DEF Initiate
<1>3. waiting' # NoRequest /\ reply' = NoReply /\ Calls' # {}
  <2>1. PICK n \in Names : /\ requests' = requests \cup {[n |-> n, op |-> op, bearer |-> bearer]}
                           /\ waiting' = n /\ reply' = NoReply
    BY <1>2 DEF Ask
  <2>2. n # NoRequest
    BY InitiationAssumption DEF Names, NoRequest
  <2> QED BY <2>1, <2>2 DEF Calls
<1>4. UNCHANGED <<tokens, held, now, minted>> /\ started' = now /\ phase' = "AwaitingGrant"
  BY DEF Initiate, server
<1>5. InStep /\ ClientLapsed(now) /\ ServerLapsed(now)
  BY <1>1 DEF Faultless, InStep, LapsedAtRest
<1>6. ClientLapsed(started)' /\ ServerLapsed(started)'
  BY <1>4, <1>5 DEF ClientLapsed, ServerLapsed
<1>7. LapsedAtRest' /\ LapsedWhenAsked' /\ OneGrant'
  BY <1>3, <1>4, <1>6 DEF LapsedAtRest, LapsedWhenAsked, OneGrant, NoReply
<1>8. (\E f \in Tokens(held) : Agreed(f))'
  BY <1>4, <1>5 DEF InStep, Agreed
<1> QED BY <1>3, <1>7, <1>8 DEF InStep

LEMMA FaultlessAccepts ==
  ASSUME Structure, OneFailure, Faultless, AcceptAndConfirm
  PROVE  Faultless'
<1> SUFFICES ASSUME faults = 0, paired
             PROVE  Calls' # {} /\ InStep'
  BY DEF AcceptAndConfirm, server, Faultless
<1>1. reply.status = "Granted" /\ waiting # NoRequest /\ phase = "AwaitingGrant"
  BY Accepting DEF AcceptAndConfirm
<1>2. waiting' # NoRequest /\ reply' = NoReply /\ Calls' # {} /\ reply'.status = "None"
  BY StructureAccepts DEF NoReply
<1>3. UNCHANGED <<held, now, minted, started>> /\ phase' = "Granted" /\ granted' = {minted}
      /\ tokens' = Add(tokens, minted, ClientNow)
  BY Accepting DEF AcceptAndConfirm, server
<1>4. InStep /\ ClientLapsed(started)
  <2>1. tokens # {} /\ reply.status # "Details"
    BY <1>1 DEF Structure, Asked
  <2> QED BY <1>1, <2>1 DEF Faultless, InStep, LapsedWhenAsked
<1>5. PICK f \in Tokens(held) : Agreed(f)
  BY <1>4 DEF InStep
<1>6. started <= ClientNow /\ ClientNow \in Nat
  BY TimeFacts DEF ClientNow
\* Of the grants the list had only the newest may still be there.
<1>7. \E p : \A h \in tokens : h = InForce(f) \/ h = p \/ Lapsed(h, ClientNow)
  <2>1. \A h, g \in tokens : h.pending /\ g.pending /\ h.token < g.token => Lapsed(h, ClientNow)
    BY <1>4, <1>6, TimeFacts DEF ClientLapsed, Lapsed, Times
  <2>2. \A h \in tokens : ~h.pending => h = InForce(f)
    BY <1>5 DEF Agreed
  <2>3. \A h, g \in tokens : h.token = g.token => h = g
    BY DEF Structure, Shapes, Listed
  <2>4. CASE \E p \in tokens : p.pending /\ ~Lapsed(p, ClientNow)
    <3>1. PICK p \in tokens : p.pending /\ ~Lapsed(p, ClientNow)
      BY <2>4
    <3>2. \A h \in tokens : h.pending /\ h # p => Lapsed(h, ClientNow)
      BY <2>1, <2>3, <3>1, TimeFacts
    <3> QED BY <2>2, <3>2
  <2>5. CASE \A p \in tokens : p.pending => Lapsed(p, ClientNow)
    BY <2>2, <2>5
  <2> QED BY <2>4, <2>5
<1>8. InForce(f) \in tokens'
  <2>1. f \in Nat /\ InForce(f) \in tokens
    BY <1>5, TimeFacts DEF Agreed, Tokens
  <2> QED BY <1>3, <1>7, <2>1, Accepting, InForceStays DEF OneFailure
<1>9. Agreed(f)'
  <2>1. Grant(minted, ClientNow).pending = TRUE
    BY DEF Grant
  <2>2. \A h \in tokens' : h = Grant(minted, ClientNow) \/ h \in tokens
    BY Accepting
  <2> QED BY <1>3, <1>5, <1>8, <2>1, <2>2 DEF Agreed
<1>10. OneGrant'
  <2>1. PICK g \in held :
          g.pending /\ g.token = minted /\ g.at >= started /\ \A h \in held : h.pending => h = g
    BY <1>1, <1>4 DEF InStep, OneGrant
  <2>2. ClientNow <= g.at + RequestTimeout
    BY <1>1, <2>1, TimeFacts DEF ClientNow, Structure, Shapes, Clocked, Times
  <2>3. ASSUME NEW h \in tokens', h.pending
        PROVE  IF h.token = minted THEN h.at <= g.at + RequestTimeout
                                   ELSE g.at - h.at > PendingLifetime - RequestTimeout
    <3>1. CASE h = Grant(minted, ClientNow)
      <4>1. h.token = minted /\ h.at = ClientNow
        BY <3>1 DEF Grant
      <4> QED BY <2>2, <4>1
    <3>2. CASE h \in tokens /\ h.token < minted
      <4>1. started - h.at > PendingLifetime - RequestTimeout
        BY <1>4, <2>3, <3>2 DEF ClientLapsed
      <4>2. h.token # minted
        BY <3>2, TimeFacts
      <4> QED BY <2>1, <3>2, <4>1, <4>2, TimeFacts DEF Times
    <3> QED BY <3>1, <3>2, Accepting
  <2> QED BY <1>2, <1>3, <2>1, <2>3 DEF OneGrant
<1>11. LapsedAtRest' /\ LapsedWhenAsked'
  BY <1>2, <1>3 DEF LapsedAtRest, LapsedWhenAsked
<1>12. (\E n \in Tokens(held) : Agreed(n))'
  BY <1>3, <1>5, <1>9
<1> QED BY <1>2, <1>10, <1>11, <1>12 DEF InStep

LEMMA FaultlessConnects ==
  ASSUME Structure, Connected
  PROVE  Faultless'
<1>1. PICK n \in Tokens(tokens) : tokens' = Confirmed(n) /\ (paired => held = {InForce(n)})
  BY Connecting
<1>2. waiting' = NoRequest /\ reply' = NoReply /\ UNCHANGED <<paired, held, now>>
  BY DEF Connected, Take, server
<1> SUFFICES ASSUME paired PROVE InStep'
  BY <1>2 DEF Faultless
<1>3. tokens' = {InForce(n)} /\ held' = {InForce(n)}
  BY <1>1, <1>2 DEF Confirmed
<1>4. InForce(n).token = n /\ ~InForce(n).pending /\ NoReply.status = "None"
  BY DEF InForce, NoReply
<1>5. n \in Tokens(held') /\ Agreed(n)'
  BY <1>3, <1>4 DEF Tokens, Agreed
<1>6. LapsedAtRest' /\ LapsedWhenAsked' /\ OneGrant'
  BY <1>2, <1>3, <1>4 DEF LapsedAtRest, LapsedWhenAsked, OneGrant, ClientLapsed, ServerLapsed
<1> QED BY <1>5, <1>6 DEF InStep

LEMMA FaultlessBegins ==
  ASSUME Structure, Faultless, Begin
  PROVE  Faultless'
<1>1. Calls' # {}
  BY StructureBegins
<1>2. UNCHANGED <<tokens, phase, granted, started, waiting, reply, paired, held, minted, now, faults>>
  BY DEF Begin, client
<1> QED BY <1>1, <1>2 DEF Faultless, InStep, Agreed, LapsedAtRest, LapsedWhenAsked, OneGrant, ClientLapsed,
                         ServerLapsed

\* A refusal of the confirmation comes when the grant has lapsed.
LEMMA FaultlessRefuses ==
  ASSUME Structure, Faultless, NEW w \in working, Refuse(w)
  PROVE  Faultless'
<1>1. /\ Answers(w, "Unauthorized", 0) /\ UNCHANGED <<paired, held, minted, tokens, phase, granted, started,
                                                      waiting, now, faults>>
  BY Refusing DEF Answers, client
<1> SUFFICES ASSUME faults = 0, paired, tokens # {} PROVE InStep'
  BY <1>1 DEF Faultless, Answers, Reply, NoReply
<1>2. reply = NoReply /\ reply.status = "None" /\ waiting # NoRequest /\ reply'.status = "Unauthorized"
      /\ reply' # NoReply /\ w \in Calls /\ w.tokens = held /\ w.paired
  BY <1>1 DEF Answers, Reply, NoReply
<1>3. InStep
  BY <1>2 DEF Faultless
<1>4. ClientLapsed(now) /\ ServerLapsed(now)
  <2>1. CASE w.op = "initiate" /\ phase = "AwaitingGrant"
    <3>1. ClientLapsed(started) /\ ServerLapsed(started)
      BY <1>2, <1>3, <2>1 DEF InStep, LapsedWhenAsked
    <3> QED BY <3>1, LapsedLater, TimeFacts
  <2>2. CASE w.op = "confirm" /\ phase = "Granted" /\ granted = {w.bearer}
    <3>1. PICK g \in held :
            /\ g.pending /\ g.token = minted /\ \A h \in held : h.pending => h = g
            /\ granted = {minted}
            /\ \A h \in tokens : h.pending =>
                 IF h.token = minted THEN h.at <= g.at + RequestTimeout
                                     ELSE g.at - h.at > PendingLifetime - RequestTimeout
      BY <1>2, <1>3, <2>2 DEF InStep, OneGrant
    <3>2. w.bearer = g.token /\ Pending(held, w.bearer) /\ Accepts(held, w.bearer)
      BY <2>2, <3>1 DEF Pending, Accepts, Tokens
    <3>3. ~Confirmable(held, w.bearer, w.at)
      BY <1>2, <2>2, <3>2 DEF Refuse, Refused
    <3>4. w.at - g.at > PendingLifetime /\ w.at \in Nat /\ w.at <= now
      BY <3>2, <3>3 DEF Confirmable, Lapsed, Structure, Clocked
    <3>5. now - g.at > PendingLifetime
      BY <3>4, TimeFacts DEF Times
    <3>6. ServerLapsed(now)
      BY <3>1, <3>5 DEF ServerLapsed, Lapsed
    <3>7. ASSUME NEW h \in tokens, h.pending
          PROVE  /\ now - h.at > PendingLifetime - RequestTimeout
                 /\ \A i \in tokens : i.pending /\ h.token < i.token => now - h.at > PendingLifetime
      <4>1. CASE h.token = minted
        <5>1. \A i \in tokens : ~(h.token < i.token)
          BY <4>1, TimeFacts
        <5>2. h.at <= g.at + RequestTimeout
          BY <3>1, <3>7, <4>1
        <5> QED BY <3>5, <5>1, <5>2, TimeFacts DEF Times
      <4>2. CASE h.token # minted
        <5>1. g.at - h.at > PendingLifetime - RequestTimeout
          BY <3>1, <3>7, <4>2
        <5> QED BY <3>5, <5>1, TimeFacts DEF Times
      <4> QED BY <4>1, <4>2
    <3>8. ClientLapsed(now)
      BY <3>7 DEF ClientLapsed
    <3> QED BY <3>6, <3>8
  <2> QED BY <1>2, <2>1, <2>2 DEF Structure, Asked
<1>5. LapsedAtRest'
  BY <1>1, <1>4 DEF LapsedAtRest, ClientLapsed, ServerLapsed
<1>6. LapsedWhenAsked'
  BY <1>1, <1>2, <1>3 DEF InStep, LapsedWhenAsked, ClientLapsed
<1>7. OneGrant'
  BY <1>2 DEF OneGrant
<1>8. (\E f \in Tokens(held) : Agreed(f))'
  BY <1>1, <1>3 DEF InStep, Agreed
<1> QED BY <1>5, <1>6, <1>7, <1>8 DEF InStep

LEMMA FaultlessGrants ==
  ASSUME Structure, OneFailure, Faultless, NEW w \in working, InitiateSession(w)
  PROVE  Faultless'
<1>1. /\ Answers(w, "Granted", minted + 1) /\ minted' = minted + 1
      /\ UNCHANGED <<paired, tokens, phase, granted, started, asked, waiting, now, faults>>
  BY Replacing DEF Answers, client
<1> SUFFICES ASSUME faults = 0, paired, tokens # {} PROVE InStep'
  BY <1>1 DEF Faultless, Answers, Reply, NoReply
<1>2. reply = NoReply /\ reply.status = "None" /\ waiting # NoRequest /\ reply'.status = "Granted"
      /\ reply' # NoReply /\ w \in Calls
  BY <1>1 DEF Answers, Reply, NoReply
<1>3. InStep
  BY <1>2 DEF Faultless
<1>4. phase = "AwaitingGrant" /\ started = asked
  BY <1>2, Replacing DEF Structure, Asked, Clocked
<1>5. ClientLapsed(started) /\ ServerLapsed(started)
  BY <1>2, <1>3, <1>4 DEF InStep, LapsedWhenAsked
<1>6. PICK f \in Tokens(held) : Agreed(f)
  BY <1>3 DEF InStep
<1>7. held' = Add(held, minted + 1, w.at) /\ w.at \in Nat /\ started <= w.at
      /\ Grant(minted + 1, w.at) \in held'
      /\ \A h \in held' : h = Grant(minted + 1, w.at) \/ (h \in held /\ ~Lapsed(h, w.at))
  BY <1>4, Replacing
<1>8. \A h \in held : h = InForce(f) \/ Lapsed(h, w.at)
  <2>1. ServerLapsed(w.at)
    BY <1>5, <1>7, LapsedLater, TimeFacts
  <2> QED BY <1>6, <2>1 DEF Agreed, ServerLapsed
<1>9. InForce(f) \in held'
  <2>1. f \in Nat /\ InForce(f) \in held
    BY <1>6, TimeFacts DEF Agreed, Tokens
  <2>2. ~Accepts(held, minted + 1)
    <3>1. \A h \in held : h.token # minted + 1
      BY TimeFacts DEF Structure, Shapes
    <3> QED BY <3>1 DEF Accepts, Tokens
  <2> QED BY <1>7, <1>8, <2>1, <2>2, InForceStays DEF OneFailure
<1>10. Grant(minted + 1, w.at).pending = TRUE /\ Grant(minted + 1, w.at).token = minted'
       /\ Grant(minted + 1, w.at).at = w.at
  BY <1>1 DEF Grant
<1>11. Agreed(f)' /\ f \in Tokens(held')
  <2>1. InForce(f).token = f
    BY DEF InForce
  <2> QED BY <1>1, <1>6, <1>7, <1>9, <1>10, <2>1 DEF Agreed, Tokens
<1>12. OneGrant'
  <2>1. \A h \in held' : h.pending => h = Grant(minted + 1, w.at)
    <3>1. \A h \in held : h.pending /\ h = InForce(f) => FALSE
      BY DEF InForce
    <3> QED BY <1>7, <1>8, <3>1
  <2> QED BY <1>1, <1>4, <1>7, <1>10, <2>1 DEF OneGrant
<1>13. LapsedAtRest' /\ LapsedWhenAsked'
  BY <1>1, <1>2, <1>5 DEF LapsedAtRest, LapsedWhenAsked, ClientLapsed
<1> QED BY <1>11, <1>12, <1>13 DEF InStep

LEMMA FaultlessConfirms ==
  ASSUME Structure, NEW w \in working, ConfirmAccessToken(w)
  PROVE  Faultless'
<1>1. reply' = Reply("Details", Len(log) + 1)
  BY Confirming DEF Answers
<1> QED BY <1>1 DEF Faultless, Reply, NoReply

LEMMA FaultlessElsewhere ==
  ASSUME Structure, Faultless, Dial \/ Tick \/ UNCHANGED vars
  PROVE  Faultless'
<1>1. UNCHANGED <<tokens, phase, granted, started, waiting, reply, paired, held, minted, faults>>
      /\ Calls' = Calls
      /\ now' \in Nat /\ now <= now'
  <2>1. Elsewhere /\ working' = working /\ faults' = faults
    BY ElsewhereSteps
  <2> QED BY <2>1, TimeFacts DEF Elsewhere, wire, Calls
<1> SUFFICES ASSUME InStep PROVE InStep'
  BY <1>1 DEF Faultless
<1>2. /\ ClientLapsed(now) => ClientLapsed(now')
      /\ ServerLapsed(now) => ServerLapsed(now')
  BY <1>1, LapsedLater, TimeFacts
<1>3. /\ ClientLapsed(now)' <=> ClientLapsed(now')
      /\ ServerLapsed(now)' <=> ServerLapsed(now')
      /\ ClientLapsed(started)' <=> ClientLapsed(started)
      /\ ServerLapsed(started)' <=> ServerLapsed(started)
  BY <1>1 DEF ClientLapsed, ServerLapsed
<1>4. LapsedAtRest' /\ LapsedWhenAsked'
  BY <1>1, <1>2, <1>3 DEF InStep, LapsedAtRest, LapsedWhenAsked
<1>5. OneGrant' /\ (\E f \in Tokens(held) : Agreed(f))'
  BY <1>1 DEF InStep, OneGrant, Agreed
<1> QED BY <1>4, <1>5 DEF InStep

\* A failure, or the end of the pairing: nothing is said of what comes after.
LEMMA FaultlessNoMore ==
  ASSUME Structure, Faultless,
         GiveUp \/ Crash \/ ServerRestart \/ Unpair \/ \E w \in working : UnpairServed(w)
  PROVE  Faultless'
<1>1. CASE faults' = faults + 1 \/ tokens' = {} \/ paired' = FALSE
  BY <1>1 DEF Faultless, Structure, Shapes
<1>2. CASE GiveUp /\ Forgotten /\ UNCHANGED faults
  <2>1. waiting # NoRequest /\ reply = NoReply /\ Calls = {} /\ UNCHANGED <<tokens, paired>>
    BY <1>2 DEF GiveUp, Forgotten, InUse, Calls, Structure, OneCall, server
  <2>2. ~(faults = 0 /\ paired /\ tokens # {})
    BY <2>1 DEF Faultless
  <2> QED BY <1>2, <2>1, <2>2 DEF Faultless
<1> QED BY <1>1, <1>2 DEF GiveUp, Crash, ServerRestart, Unpair, UnpairServed, Fault

LEMMA NextFaultless ==
  ASSUME Structure, OneFailure, Faultless, [Next]_vars
  PROVE  Faultless'
<1>1. CASE ClientStep
  BY <1>1, FaultlessInitiates, FaultlessAtRest, FaultlessRefused, FaultlessAccepts, FaultlessConnects
     DEF ClientStep
<1>2. CASE ServerStep
  BY <1>2, FaultlessBegins, FaultlessRefuses, FaultlessGrants, FaultlessConfirms, FaultlessNoMore
     DEF ServerStep
<1>3. CASE GiveUp \/ Crash \/ Unpair \/ ServerRestart
  BY <1>3, FaultlessNoMore
<1> QED BY <1>1, <1>2, <1>3, FaultlessElsewhere DEF Next

-----------------------------------------------------------------------------
(* After the failure. *)

\* Whatever the failure takes, the two share a token.
LEMMA SharedBeforeFailure ==
  ASSUME Structure, Faultless, faults = 0, paired, tokens # {}
  PROVE  Tokens(tokens) \cap Tokens(held) # {}
<1>1. CASE reply.status = "Details"
  <2>1. PICK n \in Tokens(tokens) : held = {InForce(n)}
    BY <1>1 DEF Structure, Asked
  <2>2. InForce(n).token = n
    BY DEF InForce
  <2> QED BY <2>1, <2>2 DEF Tokens
<1>2. CASE InStep
  <2>1. PICK f \in Tokens(held) : InForce(f) \in tokens
    BY <1>2 DEF InStep, Agreed
  <2>2. InForce(f).token = f
    BY DEF InForce
  <2> QED BY <2>1, <2>2 DEF Tokens
<1> QED BY <1>1, <1>2 DEF Faultless

LEMMA ClientKeepsShared ==
  ASSUME Structure, PairingSurvives, ClientStep
  PROVE  PairingSurvives'
<1>1. CASE Initiate
  BY <1>1 DEF Initiate, Idle, Ask, PairingSurvives, Arriving, Structure, OneCall, server
<1>2. CASE InitiateUnpaired \/ InitiateOutOfOrder \/ Restart \/ Rebuild
  BY <1>2, RestingSteps DEF AtRest, wire, server, PairingSurvives, Arriving
<1>3. CASE Unauthorized \/ ConfirmationRefused
  <2>1. reply.status = "Unauthorized" /\ UNCHANGED <<tokens, held, paired>>
    BY <1>3 DEF Unauthorized, ConfirmationRefused, Take, server
  <2> QED BY <2>1 DEF PairingSurvives, Arriving
<1>4. CASE Renounced
  BY <1>4 DEF Renounced, client, PairingSurvives
<1>5. CASE AcceptAndConfirm
  <2>1. Grant(minted, ClientNow) \in tokens' /\ UNCHANGED <<held, paired>> /\ reply.status = "Granted"
    BY <1>5, Accepting DEF AcceptAndConfirm, server
  <2>2. Grant(minted, ClientNow).token = minted
    BY DEF Grant
  <2>3. paired => minted \in Tokens(held)
    BY <2>1 DEF Structure, Asked
  <2> QED BY <2>1, <2>2, <2>3 DEF PairingSurvives, Tokens
<1>6. CASE Connected
  <2>1. PICK n \in Tokens(tokens) : tokens' = {InForce(n)} /\ (paired => held = {InForce(n)})
    BY <1>6, Connecting DEF Confirmed
  <2>2. UNCHANGED <<held, paired>> /\ InForce(n).token = n
    BY <1>6 DEF Connected, server, InForce
  <2> QED BY <2>1, <2>2 DEF PairingSurvives, Tokens
<1> QED BY <1>1, <1>2, <1>3, <1>4, <1>5, <1>6 DEF ClientStep

LEMMA ServerKeepsShared ==
  ASSUME Structure, PairingSurvives, ServerStep
  PROVE  PairingSurvives'
<1>1. CASE Begin
  BY <1>1 DEF Begin, client, PairingSurvives, Arriving
<1>2. ASSUME NEW w \in working, Refuse(w) PROVE PairingSurvives'
  <2>1. Answers(w, "Unauthorized", 0) /\ UNCHANGED <<paired, held>>
    BY <1>2, Refusing
  <2>2. Arriving = {} /\ UNCHANGED tokens
    BY <2>1 DEF Answers, Arriving, NoReply, client
  <2> QED BY <2>1, <2>2 DEF PairingSurvives
<1>3. ASSUME NEW w \in working, InitiateSession(w) PROVE PairingSurvives'
  <2>1. Answers(w, "Granted", minted + 1) /\ paired' = paired
        /\ (paired => Grant(minted + 1, w.at) \in held')
    BY <1>3, Replacing
  <2>2. Arriving' = {minted + 1} /\ Grant(minted + 1, w.at).token = minted + 1
    BY <2>1 DEF Answers, Arriving, Reply, Grant
  <2> QED BY <2>1, <2>2 DEF PairingSurvives, Tokens
<1>4. ASSUME NEW w \in working, ConfirmAccessToken(w) PROVE PairingSurvives'
  <2>1. w.bearer \in Tokens(tokens) /\ (paired => held' = {InForce(w.bearer)}) /\ paired' = paired
        /\ UNCHANGED tokens
    BY <1>4, Confirming DEF Answers, client
  <2>2. InForce(w.bearer).token = w.bearer
    BY DEF InForce
  <2> QED BY <2>1, <2>2 DEF PairingSurvives, Tokens
<1>5. ASSUME NEW w \in working, UnpairServed(w) PROVE PairingSurvives'
  BY <1>5 DEF UnpairServed, PairingSurvives
<1> QED BY <1>1, <1>2, <1>3, <1>4, <1>5 DEF ServerStep

LEMMA NextShared ==
  ASSUME Structure, OneFailure, Faultless, PairingSurvives, [Next]_vars
  PROVE  PairingSurvives'
<1>1. CASE Dial \/ Tick \/ ServerRestart \/ UNCHANGED vars
  BY <1>1, ElsewhereSteps DEF Elsewhere, wire, PairingSurvives, Arriving
<1>2. CASE Unpair
  BY <1>2 DEF Unpair, PairingSurvives
<1>3. CASE GiveUp
  <2>1. UNCHANGED <<tokens, held, paired>>
    BY <1>3 DEF GiveUp, server
  <2>2. CASE Forgotten
    <3>1. Arriving = {}
      BY <2>2 DEF Forgotten, Arriving, NoReply
    <3> QED BY <2>1, <3>1 DEF PairingSurvives
  <2>3. CASE Fault
    <3>1. faults = 0
      BY <2>3, InitiationAssumption DEF Fault, OneFailure, Structure, Shapes
    <3> QED BY <2>1, <3>1, SharedBeforeFailure DEF PairingSurvives
  <2> QED BY <1>3, <2>2, <2>3 DEF GiveUp
<1>4. CASE Crash
  <2>1. faults = 0
    BY <1>4, InitiationAssumption DEF Crash, Fault, OneFailure, Structure, Shapes
  <2>2. UNCHANGED <<held, paired>> /\ Tokens(tokens') = Tokens(tokens)
    BY <1>4, Crashing, Adopting
  <2>3. tokens' # {} => tokens # {}
    BY <2>2 DEF Tokens
  <2> QED BY <2>1, <2>2, <2>3, SharedBeforeFailure DEF PairingSurvives
<1> QED BY <1>1, <1>2, <1>3, <1>4, ClientKeepsShared, ServerKeepsShared DEF Next

LEMMA InitShared == Init => PairingSurvives
<1> SUFFICES ASSUME Init PROVE PairingSurvives
  OBVIOUS
<1>1. tokens = {InForce(0)} /\ held = {InForce(0)}
  BY DEF Init
<1> QED BY <1>1 DEF PairingSurvives, Tokens

\* For every lifetime and timeout and any number of tokens and connections: after any one
\* failure - a request or a reply lost, a process restarted - the client holds a token the
\* server accepts.  With the driver interrupted, two failures, requests handled after they
\* were given up on, or room for two tokens only, it need not.
THEOREM SurvivesAnyFailure ==
  ASSUME MaxFaults <= 1, ~Late, MaxTokens >= 3, "Session" \notin MidCall
  PROVE  Spec => []PairingSurvives
<1>1. OneFailure
  BY DEF OneFailure
<1>2. Init => Structure /\ Faultless /\ PairingSurvives
  BY InitStructure, InitFaultless, InitShared
<1>3. Structure /\ Faultless /\ PairingSurvives /\ [Next]_vars => (Structure /\ Faultless /\ PairingSurvives)'
  BY <1>1, NextStructure, NextFaultless, NextShared
<1> QED BY <1>2, <1>3, PTL DEF Spec

-----------------------------------------------------------------------------
(***************************************************************************)
(* How far down its list the crate's driver is.                            *)
(***************************************************************************)
\* A newer entry has fewer before it, ...
LEMMA FewerBefore ==
  ASSUME NEW n \in Nat, NEW store, Listed(store, n), IsFiniteSet(store), NEW g \in store, NEW h \in store
  PROVE  /\ Cardinality(Newer(store, h)) \in Nat /\ Cardinality(Newer(store, h)) < Cardinality(store)
         /\ h.token < g.token => Cardinality(Newer(store, g)) < Cardinality(Newer(store, h))
<1>1. \A i \in store : i.token \in Nat
  BY DEF Listed, Entries
<1>2. Newer(store, h) \subseteq store /\ h \notin Newer(store, h)
  BY <1>1 DEF Newer
<1>3. IsFiniteSet(Newer(store, h)) /\ Cardinality(Newer(store, h)) \in Nat /\ Cardinality(store) \in Nat
  BY <1>2, FS_Subset, FS_CardinalityType
<1>4. Cardinality(Newer(store, h)) <= Cardinality(store) /\ Cardinality(Newer(store, h)) # Cardinality(store)
  BY <1>2, FS_Subset
<1>5. ASSUME h.token < g.token
      PROVE  Cardinality(Newer(store, g)) < Cardinality(Newer(store, h))
  <2>1. Newer(store, g) \subseteq Newer(store, h) /\ g \in Newer(store, h) /\ g \notin Newer(store, g)
    BY <1>1, <1>5 DEF Newer
  <2>2. Cardinality(Newer(store, g)) <= Cardinality(Newer(store, h))
        /\ Cardinality(Newer(store, g)) # Cardinality(Newer(store, h))
    BY <1>3, <2>1, FS_Subset
  <2>3. Cardinality(Newer(store, g)) \in Nat
    BY <1>3, <2>1, FS_Subset, FS_CardinalityType
  <2> QED BY <1>3, <2>2, <2>3
<1> QED BY <1>3, <1>4, <1>5

\* ... so each place of the list has one entry ...
LEMMA OneCandidate ==
  ASSUME NEW n \in Nat, NEW store, Listed(store, n), IsFiniteSet(store), NEW k,
         NEW g \in Candidate(store, k), NEW h \in Candidate(store, k)
  PROVE  g = h
<1>1. g \in store /\ h \in store /\ Cardinality(Newer(store, g)) = Cardinality(Newer(store, h))
  BY DEF Candidate
<1>2. Cardinality(Newer(store, g)) \in Nat /\ ~(h.token < g.token) /\ ~(g.token < h.token)
  BY <1>1, FewerBefore
<1>3. h.token \in Nat /\ g.token \in Nat
  BY <1>1 DEF Listed, Entries
<1>4. h.token = g.token
  BY <1>2, <1>3
<1> QED BY <1>1, <1>4 DEF Listed

\* ... and the list has as many places as entries.
LEMMA CandidateExists ==
  ASSUME NEW n \in Nat, NEW store, Listed(store, n), IsFiniteSet(store), NEW k \in Nat, k < Cardinality(store)
  PROVE  Candidate(store, k) # {}
<1> DEFINE places == 0 .. Cardinality(store) - 1
           place == [h \in store |-> Cardinality(Newer(store, h))]
<1>1. Cardinality(store) \in Nat
  BY FS_CardinalityType
<1>2. \A h \in store : place[h] \in places
  BY <1>1, FewerBefore
<1>3. \A g, h \in store : place[g] = place[h] => g = h
  <2> SUFFICES ASSUME NEW g \in store, NEW h \in store, place[g] = place[h] PROVE g = h
    OBVIOUS
  <2>1. g \in Candidate(store, place[g]) /\ h \in Candidate(store, place[g])
    BY DEF Candidate
  <2> QED BY <2>1, OneCandidate
<1>4. place \in Injection(store, places)
  BY <1>2, <1>3 DEF Injection, IsInjective
<1>5. IsFiniteSet(places) /\ Cardinality(places) = Cardinality(store)
  <2>1. 0 \in Int /\ Cardinality(store) - 1 \in Int
    BY <1>1
  <2>2. IsFiniteSet(places)
        /\ Cardinality(places) = IF 0 > Cardinality(store) - 1 THEN 0 ELSE Cardinality(store) - 1 - 0 + 1
    BY <2>1, FS_Interval
  <2> QED BY <1>1, <2>2
<1>6. place \in Surjection(store, places)
  BY <1>4, <1>5, FS_Injection
<1>7. k \in places
  BY <1>1
<1>8. PICK h \in store : place[h] = k
  BY <1>6, <1>7 DEF Surjection
<1> QED BY <1>8 DEF Candidate

\* The server does not accept what the driver passed, ...
Passed ==
  driver = "Session" /\ paired /\ phase \in {"Start", "AwaitingGrant"} =>
    \A h \in tokens : Cardinality(Newer(tokens, h)) < tried => h.token \notin Tokens(held)

\* ... and the driver presents the next one until there are no more.
Presented ==
  driver = "Session" =>
    /\ phase = "Connected" => tried = 0
    /\ phase = "Start" /\ tokens # {} => tried < Cardinality(tokens)
    /\ \A q \in Calls : q.op = "initiate" => \E h \in Candidate(tokens, tried) : h.token = q.bearer
    /\ phase = "AwaitingGrant" /\ reply.status = "Unauthorized" =>
         \E h \in Candidate(tokens, tried) : paired => h.token \notin Tokens(held)

\* Nothing is passed by a driver that starts at the top of its list.
LEMMA TopOfList ==
  ASSUME NEW n \in Nat, NEW store, Listed(store, n), IsFiniteSet(store)
  PROVE  /\ \A h \in store : ~(Cardinality(Newer(store, h)) < 0)
         /\ store # {} => 0 < Cardinality(store)
<1>1. \A h \in store : Cardinality(Newer(store, h)) \in Nat
  BY FewerBefore
<1>2. store # {} => Cardinality(store) > 0
  BY FS_EmptySet, FS_CardinalityType
<1> QED BY <1>1, <1>2

LEMMA PlacesAtRest ==
  ASSUME Structure, Passed, Presented, InitiateUnpaired \/ InitiateOutOfOrder \/ Restart \/ Rebuild
  PROVE  Passed' /\ Presented'
<1> SUFFICES ASSUME driver = "Session" PROVE Passed' /\ Presented'
  BY DEF InitiateUnpaired, InitiateOutOfOrder, Restart, Rebuild, Fresh, Passed, Presented
<1>1. UNCHANGED <<driver, tokens, paired, held>> /\ Calls' = {} /\ reply' = NoReply
  BY RestingSteps, NoCallAtRest
     DEF AtRest, Idle, wire, server, Structure, OneCall, Calls, InitiateUnpaired, InitiateOutOfOrder, Restart,
         Rebuild, Fresh
<1>2. reply'.status # "Unauthorized"
  BY <1>1 DEF NoReply
<1>3. Listed(tokens, minted) /\ minted \in Nat /\ IsFiniteSet(tokens)
  BY DEF Structure, Shapes
<1>4. CASE phase' = "Start" /\ tried' = 0
  BY <1>1, <1>2, <1>3, <1>4, TopOfList DEF Passed, Presented
<1>5. CASE phase = "Start" /\ phase' = "Start" /\ tried' = tried
  BY <1>1, <1>2, <1>5 DEF Passed, Presented
<1>6. CASE phase' = "Failed"
  BY <1>1, <1>2, <1>6 DEF Passed, Presented
<1> QED BY <1>4, <1>5, <1>6 DEF InitiateUnpaired, InitiateOutOfOrder, Restart, Rebuild, Fresh, Presented

LEMMA PlacesInitiated ==
  ASSUME Structure, Structure', Passed, Presented, Initiate
  PROVE  Passed' /\ Presented'
<1> SUFFICES ASSUME driver = "Session" PROVE Passed' /\ Presented'
  BY DEF Initiate, Passed, Presented
<1>1. UNCHANGED <<driver, tokens, tried, paired, held>> /\ phase' = "AwaitingGrant"
  BY DEF Initiate, server
<1>2. Passed'
  <2>1. CASE phase = "Start"
    BY <1>1, <2>1 DEF Passed
  <2>2. CASE phase = "Connected"
    <3>1. Listed(tokens, minted) /\ minted \in Nat /\ IsFiniteSet(tokens) /\ tried = 0
      BY <2>2 DEF Structure, Shapes, Presented
    <3> QED BY <1>1, <3>1, TopOfList DEF Passed
  <2> QED BY <2>1, <2>2 DEF Initiate
<1>3. PICK h \in Candidate(tokens, tried) : Ask("initiate", h.token)
  BY DEF Initiate
<1>4. Calls = {}
  BY NoCallAtRest DEF Initiate, Idle, Structure, Calls
<1>5. (\A q \in Calls' : q.bearer = h.token) /\ reply'.status = "None"
  BY <1>3, <1>4 DEF Ask, Calls, Initiate, server, NoReply
<1> QED BY <1>1, <1>2, <1>3, <1>5 DEF Presented

\* A refusal takes the driver past the token it presented.
LEMMA PlacesRefused ==
  ASSUME Structure, Passed, Presented, Unauthorized
  PROVE  Passed' /\ Presented'
<1> SUFFICES ASSUME driver = "Session" PROVE Passed' /\ Presented'
  BY DEF Unauthorized, Passed, Presented
<1>1. /\ reply.status = "Unauthorized" /\ phase = "AwaitingGrant" /\ tried' = tried + 1 /\ reply' = NoReply
      /\ UNCHANGED <<driver, tokens, paired, held>> /\ phase' \in {"Start", "Failed"}
      /\ phase' = "Start" => tried' < Cardinality(tokens)
  <2>1. Cardinality(tokens) \in Nat /\ tried \in Nat
    BY FS_CardinalityType DEF Structure, Shapes
  <2> QED BY <2>1 DEF Unauthorized, Take, server
<1>2. Calls' = {} /\ reply'.status = "None"
  BY <1>1, NoCallAtRest DEF Unauthorized, Take, Calls, server, NoReply, Structure
<1>3. Listed(tokens, minted) /\ minted \in Nat /\ IsFiniteSet(tokens) /\ tried \in Nat
  BY DEF Structure, Shapes
<1>4. PICK h \in Candidate(tokens, tried) : paired => h.token \notin Tokens(held)
  BY <1>1 DEF Presented
<1>5. ASSUME paired, NEW g \in tokens, Cardinality(Newer(tokens, g)) < tried + 1
      PROVE  g.token \notin Tokens(held)
  <2>1. Cardinality(Newer(tokens, g)) \in Nat
    BY <1>3, FewerBefore
  <2>2. CASE Cardinality(Newer(tokens, g)) < tried
    BY <1>1, <1>5, <2>2 DEF Passed
  <2>3. CASE Cardinality(Newer(tokens, g)) = tried
    <3>1. g \in Candidate(tokens, tried)
      BY <2>3 DEF Candidate
    <3> QED BY <1>3, <1>4, <1>5, <3>1, OneCandidate
  <2> QED BY <1>3, <1>5, <2>1, <2>2, <2>3
<1> QED BY <1>1, <1>2, <1>5 DEF Passed, Presented

LEMMA PlacesOtherwise ==
  ASSUME Structure, Structure', OneFailure, Passed, Presented,
         \/ ConfirmationRefused \/ Renounced \/ AcceptAndConfirm \/ Connected \/ Unpair \/ GiveUp \/ Crash
  PROVE  Passed' /\ Presented'
<1> SUFFICES ASSUME driver = "Session", driver' = driver PROVE Passed' /\ Presented'
  BY DEF ConfirmationRefused, Renounced, AcceptAndConfirm, Connected, Unpair, GiveUp, Crash, Fresh, client,
         Passed, Presented
<1>1. CASE ConfirmationRefused \/ Renounced
  <2>1. UNCHANGED <<tokens, tried, phase>> /\ reply' = NoReply /\ (phase = "Granted" \/ tokens = {})
        /\ reply # NoReply
    BY <1>1 DEF ConfirmationRefused, Renounced, Take, client, NoReply
  <2>2. Calls' = {} /\ reply'.status = "None"
    BY <1>1, <2>1, NoCallAtRest DEF ConfirmationRefused, Renounced, Take, Calls, server, NoReply, Structure
  <2> QED BY <2>1, <2>2 DEF Passed, Presented
<1>2. CASE AcceptAndConfirm
  <2>1. phase' = "Granted"
    BY <1>2 DEF AcceptAndConfirm
  <2>2. \A q \in Calls' : q.op # "initiate"
    BY <2>1 DEF Structure, Asked
  <2> QED BY <2>1, <2>2 DEF Passed, Presented
<1>3. CASE Connected
  <2>1. phase' = "Connected" /\ tried' = 0
    BY <1>3, Connecting
  <2>2. \A q \in Calls' : q.op # "initiate"
    BY <2>1 DEF Structure, Asked
  <2> QED BY <2>1, <2>2 DEF Passed, Presented
<1>4. CASE Unpair
  <2>1. phase' = "Failed"
    BY <1>4 DEF Unpair
  <2>2. \A q \in Calls' : q.op # "initiate"
    BY <2>1 DEF Structure, Asked
  <2> QED BY <2>1, <2>2 DEF Passed, Presented
<1>5. CASE GiveUp
  <2>1. UNCHANGED <<tokens, tried, phase, paired, held>> /\ reply' = NoReply /\ Calls' = {}
    BY <1>5 DEF GiveUp, Abandon, OneFailure, server, Calls
  <2>2. reply'.status = "None"
    BY <2>1 DEF NoReply
  <2> QED BY <2>1, <2>2 DEF Passed, Presented
<1>6. CASE Crash
  <2>1. phase' = "Start" /\ tried' = 0 /\ Calls' = {} /\ reply' = NoReply
    BY <1>6, Crashing DEF Calls
  <2>2. reply'.status = "None"
    BY <2>1 DEF NoReply
  <2>3. Listed(tokens', minted') /\ minted' \in Nat /\ IsFiniteSet(tokens')
    BY DEF Structure, Shapes
  <2> QED BY <2>1, <2>2, <2>3, TopOfList DEF Passed, Presented
<1> QED BY <1>1, <1>2, <1>3, <1>4, <1>5, <1>6

LEMMA PlacesServed ==
  ASSUME Structure, Passed, Presented, ServerStep
  PROVE  Passed' /\ Presented'
<1>1. CASE Begin
  <2>1. UNCHANGED <<driver, tokens, tried, phase, reply, paired, held>>
    BY <1>1 DEF Begin, client
  <2>2. \A q \in Calls' : \E r \in Calls : q.op = r.op /\ q.bearer = r.bearer
    BY <1>1 DEF Begin, Calls
  <2> QED BY <2>1, <2>2 DEF Passed, Presented
<1>2. ASSUME NEW w \in working, NEW status, NEW token, Answers(w, status, token), paired' => paired,
             \A h \in tokens : h.token \in Tokens(held') => h.token \in Tokens(held) \/ phase = "Granted",
             status = "Unauthorized" =>
               (w.op = "initiate" => (paired => w.bearer \notin Tokens(held)))
      PROVE  Passed' /\ Presented'
  <2>1. UNCHANGED <<driver, tokens, tried, phase>> /\ Calls' = {} /\ reply'.status = status /\ w \in Calls
    BY <1>2 DEF Answers, client, Calls, Reply
  <2>2. Passed'
    BY <1>2, <2>1 DEF Passed
  <2>3. ASSUME driver = "Session", phase = "AwaitingGrant", status = "Unauthorized"
        PROVE  \E h \in Candidate(tokens, tried) : paired' => h.token \notin Tokens(held')
    <3>1. w.op = "initiate"
      BY <2>1, <2>3 DEF Structure, Asked
    <3>2. PICK h \in Candidate(tokens, tried) : h.token = w.bearer
      BY <2>1, <2>3, <3>1 DEF Presented
    <3>3. h \in tokens
      BY DEF Candidate
    <3> QED BY <1>2, <2>3, <3>1, <3>2, <3>3
  <2> QED BY <2>1, <2>2, <2>3 DEF Presented
<1>3. ASSUME NEW w \in working, Refuse(w) PROVE Passed' /\ Presented'
  <2>1. Answers(w, "Unauthorized", 0) /\ UNCHANGED <<paired, held>> /\ w.tokens = held /\ w.paired = paired
    BY <1>3, Refusing DEF Answers
  <2>2. w.op = "initiate" => (paired => w.bearer \notin Tokens(held))
    BY <1>3, <2>1 DEF Refuse, Refused, Accepts
  <2> QED BY <1>2, <2>1, <2>2
<1>4. ASSUME NEW w \in working, InitiateSession(w) PROVE Passed' /\ Presented'
  <2>1. Answers(w, "Granted", minted + 1) /\ paired' = paired
        /\ \A h \in held' : h = Grant(minted + 1, w.at) \/ h \in held
    BY <1>4, Replacing
  <2>2. Grant(minted + 1, w.at).token = minted + 1 /\ \A h \in tokens : h.token # minted + 1
    BY TimeFacts DEF Grant, Structure, Shapes
  <2>3. \A h \in tokens : h.token \in Tokens(held') => h.token \in Tokens(held)
    BY <2>1, <2>2 DEF Tokens
  <2> QED BY <1>2, <2>1, <2>3
<1>5. ASSUME NEW w \in working, ConfirmAccessToken(w) PROVE Passed' /\ Presented'
  BY <1>2, <1>5, Confirming
<1>6. ASSUME NEW w \in working, UnpairServed(w) PROVE Passed' /\ Presented'
  <2>1. Answers(w, "Unpaired", 0) /\ paired' = FALSE /\ held' = {}
    BY <1>6, Unpairing
  <2>2. Tokens(held') = {}
    BY <2>1 DEF Tokens
  <2> QED BY <1>2, <2>1, <2>2
<1> QED BY <1>1, <1>3, <1>4, <1>5, <1>6 DEF ServerStep

LEMMA NextPlaces ==
  ASSUME Structure, Structure', OneFailure, Passed, Presented, [Next]_vars
  PROVE  Passed' /\ Presented'
<1>1. CASE Dial \/ Tick \/ ServerRestart \/ UNCHANGED vars
  <2>1. UNCHANGED <<driver, tokens, tried, phase, reply, paired, held>> /\ \A q \in Calls' : q \in Calls
    BY <1>1, ElsewhereSteps DEF Elsewhere, wire, Calls
  <2> QED BY <2>1 DEF Passed, Presented
<1> QED BY <1>1, PlacesAtRest, PlacesInitiated, PlacesRefused, PlacesOtherwise, PlacesServed
        DEF Next, ClientStep

LEMMA InitPlaces == Init => Passed /\ Presented
<1> SUFFICES ASSUME Init PROVE Passed /\ Presented
  OBVIOUS
<1>1. Structure
  BY InitStructure
<1>2. phase = "Start" /\ tried = 0 /\ reply.status = "None" /\ Calls = {}
  BY DEF Init, Calls, NoReply
<1>3. Listed(tokens, minted) /\ minted \in Nat /\ IsFiniteSet(tokens)
  BY <1>1 DEF Structure, Shapes
<1> QED BY <1>2, <1>3, TopOfList DEF Passed, Presented

\* No token left to try is no token at all.
LEMMA NothingLeft ==
  ASSUME Structure, Presented, InitiateUnpaired, driver = "Session"
  PROVE  tokens = {}
<1> SUFFICES ASSUME tokens # {} PROVE FALSE
  OBVIOUS
<1>1. Listed(tokens, minted) /\ minted \in Nat /\ IsFiniteSet(tokens) /\ tried \in Nat
  BY DEF Structure, Shapes
<1>2. tried < Cardinality(tokens)
  BY <1>1, TopOfList DEF InitiateUnpaired, Presented
<1> QED BY <1>1, <1>2, CandidateExists DEF InitiateUnpaired

\* The last token was refused: the server accepts none, and the two share one.
LEMMA LastRefused ==
  ASSUME Structure, Structure', Passed, Presented, PairingSurvives, Unauthorized, driver = "Session",
         tried + 1 >= Cardinality(tokens), paired
  PROVE  tokens = {}
<1> SUFFICES ASSUME tokens # {} PROVE FALSE
  OBVIOUS
<1>1. reply.status = "Unauthorized" /\ phase = "AwaitingGrant"
  BY DEF Unauthorized, Take
<1>2. PICK h \in Candidate(tokens, tried) : h.token \notin Tokens(held)
  BY <1>1 DEF Presented
<1>3. Listed(tokens, minted) /\ minted \in Nat /\ IsFiniteSet(tokens) /\ tried \in Nat
      /\ Cardinality(tokens) \in Nat
  BY FS_CardinalityType DEF Structure, Shapes
<1>4. ASSUME NEW g \in tokens PROVE g.token \notin Tokens(held)
  <2>1. Cardinality(Newer(tokens, g)) \in Nat /\ Cardinality(Newer(tokens, g)) < Cardinality(tokens)
    BY <1>3, FewerBefore
  <2>2. CASE Cardinality(Newer(tokens, g)) < tried
    BY <1>1, <2>2 DEF Passed
  <2>3. CASE Cardinality(Newer(tokens, g)) = tried
    <3>1. g \in Candidate(tokens, tried)
      BY <2>3 DEF Candidate
    <3> QED BY <1>2, <1>3, <3>1, OneCandidate
  <2> QED BY <1>3, <2>1, <2>2, <2>3
<1>5. Tokens(tokens) \cap Tokens(held) # {}
  BY <1>1 DEF PairingSurvives, Arriving
<1> QED BY <1>4, <1>5 DEF Tokens

\* Elsewhere no verdict is passed, no pairing restored, and an empty list stays empty.
LEMMA NoVerdict ==
  ASSUME Structure, [Next]_vars, ~InitiateUnpaired, ~Unauthorized
  PROVE  /\ driver' = driver /\ (paired' => paired)
         /\ verdict' = "None" \/ (verdict' = verdict /\ (tokens = {} => tokens' = {}))
<1>1. CASE Initiate \/ InitiateOutOfOrder \/ ConfirmationRefused \/ Renounced \/ Restart \/ Rebuild
  BY <1>1 DEF Initiate, InitiateOutOfOrder, ConfirmationRefused, Renounced, Restart, Rebuild, Fresh,
              server, client
<1>2. CASE AcceptAndConfirm
  <2>1. tokens # {}
    BY <1>2 DEF AcceptAndConfirm, Structure, Asked
  <2> QED BY <1>2, <2>1 DEF AcceptAndConfirm, server
<1>3. CASE Connected
  <2>1. tokens # {}
    BY <1>3, Connecting DEF Tokens
  <2> QED BY <1>3, <2>1 DEF Connected, server
<1>4. CASE GiveUp \/ Crash \/ Unpair
  BY <1>4 DEF GiveUp, Crash, Unpair, Fresh, server
<1>5. CASE ServerStep
  BY <1>5 DEF ServerStep, Begin, Refuse, InitiateSession, ConfirmAccessToken, UnpairServed, client
<1>6. CASE Dial \/ Tick \/ ServerRestart \/ UNCHANGED vars
  BY <1>6, ElsewhereSteps DEF Elsewhere
<1> QED BY <1>1, <1>2, <1>3, <1>4, <1>5, <1>6 DEF Next, ClientStep

LEMMA NextKnows ==
  ASSUME Structure, Structure', Passed, Presented, PairingSurvives, DriverKnowsWhenGone, [Next]_vars
  PROVE  DriverKnowsWhenGone'
<1>1. CASE InitiateUnpaired
  BY <1>1, NothingLeft DEF InitiateUnpaired, DriverKnowsWhenGone, NotPairedMeansGone
<1>2. CASE Unauthorized
  <2>1. UNCHANGED <<driver, tokens, paired>>
    BY <1>2 DEF Unauthorized, server
  <2>2. CASE tried + 1 >= Cardinality(tokens)
    BY <1>2, <2>1, <2>2, LastRefused DEF DriverKnowsWhenGone, NotPairedMeansGone
  <2>3. CASE ~(tried + 1 >= Cardinality(tokens))
    BY <1>2, <2>1, <2>3 DEF Unauthorized, DriverKnowsWhenGone, NotPairedMeansGone
  <2> QED BY <2>2, <2>3
<1>3. CASE ~InitiateUnpaired /\ ~Unauthorized
  BY <1>3, NoVerdict DEF DriverKnowsWhenGone, NotPairedMeansGone
<1> QED BY <1>1, <1>2, <1>3

\* Under the same hypotheses the crate's driver, which starts anew at the top of its list
\* after every failure, says NotPaired only of a pairing the server has forgotten: it has
\* presented every token it holds, and the server accepts one of them while it is paired.
THEOREM DriverAsksForHelpOnlyWhenGone ==
  ASSUME MaxFaults <= 1, ~Late, MaxTokens >= 3, "Session" \notin MidCall
  PROVE  Spec => []DriverKnowsWhenGone
<1> DEFINE IInv == Structure /\ Faultless /\ PairingSurvives /\ Passed /\ Presented /\ DriverKnowsWhenGone
<1>1. OneFailure
  BY DEF OneFailure
<1>2. Init => IInv
  BY InitStructure, InitFaultless, InitShared, InitPlaces DEF Init, DriverKnowsWhenGone, NotPairedMeansGone
<1>3. IInv /\ [Next]_vars => IInv'
  <2> SUFFICES ASSUME IInv, [Next]_vars PROVE IInv'
    OBVIOUS
  <2>1. Structure' /\ Faultless' /\ PairingSurvives'
    BY <1>1, NextStructure, NextFaultless, NextShared
  <2>2. Passed' /\ Presented'
    BY <1>1, <2>1, NextPlaces
  <2>3. DriverKnowsWhenGone'
    BY <2>1, NextKnows
  <2> QED BY <2>1, <2>2, <2>3
<1>4. IInv => DriverKnowsWhenGone
  OBVIOUS
<1> QED BY <1>2, <1>3, <1>4, PTL DEF Spec
=============================================================================
