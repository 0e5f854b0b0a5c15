--------------------------- MODULE SessionProofs ---------------------------
(***************************************************************************)
(* What holds of a session for every configuration.  One inductive         *)
(* invariant, Inv, carries type correctness, version agreement and the     *)
(* manager's wait; it is kept by every action of Session.  What the two    *)
(* sides know of each other comes after it, in invariants that add to it.  *)
(***************************************************************************)
EXTENDS Session, SequenceTheorems, WellFoundedInduction, TLAPS

\* The version two sides that negotiate agree on.
Agreed == IF Negotiation = "Handshake" THEN Chosen ELSE Supported[1]

(***************************************************************************)
(* What every message on its way satisfies, whoever sent it and whenever:  *)
(* its content fits its kind, a choice of version is the manager's choice, *)
(* and it exists in the version the two sides agree on.                    *)
(***************************************************************************)
Good ==
  {m \in Messages :
     /\ m.kind = "ResourceManagerDetails" => m.arg \in Details
     /\ m.kind = "SelectControlType" => m.arg \in Selections
     /\ m.kind \in HandshakeKinds => Negotiation = "Handshake"
     /\ m.kind = "HandshakeResponse" =>
          /\ m.arg = Chosen
          /\ WireProfile(Chosen) # NoProfile
     /\ WireProfile(Agreed) # NoProfile => ExistsIn(m.kind, WireProfile(Agreed))}

Before == {"Idle", "Handshaking"}

Typed ==
  /\ state \in [Roles -> States]
  /\ reason \in [Roles -> Reasons]
  /\ version \in [Roles -> Versions \cup {NoVersion}]
  /\ details \in [Roles -> Details \cup {NoDetails}]
  /\ minted \in [Roles -> Nat]
  /\ pending \in [Roles -> SUBSET Ids]
  /\ answered \in [Roles -> SUBSET [id : Ids, status : Statuses]]
  /\ selecting \in SUBSET [id : Ids, selection : Selections]
  /\ net \in [Roles -> Seq(Good)]
  /\ up \in BOOLEAN
  /\ copies \in Nat

\* A version is the agreed one, and a session past the handshake has it.
Agreeing ==
  \A r \in Roles :
    /\ version[r] \in {NoVersion, Agreed}
    /\ version[r] # NoVersion => WireProfile(Agreed) # NoProfile
    /\ Negotiated(r) => version[r] # NoVersion
    /\ reason[r] # "UnsupportedVersion"

\* The manager waits only for what it sent, and only once it may select.
Awaiting ==
  /\ AwaitedSelectionIsPending
  /\ selecting # {} => state["CEM"] \notin Before

Inv == Typed /\ Agreeing /\ Awaiting

-----------------------------------------------------------------------------
(***************************************************************************)
(* Constants.                                                              *)
(***************************************************************************)

\* The manager's choice is one of its versions, and one the resource offered.
LEMMA ChosenIsCommon ==
  /\ Chosen \in Versions \cup {NoVersion}
  /\ Chosen # NoVersion => Chosen \in Offered
<1> DEFINE I == {i \in 1 .. Len(Supported) : Supported[i] \in Offered}
<1>1. Len(Supported) \in Nat /\ DOMAIN Supported = 1 .. Len(Supported)
  BY ConfigAssumption, LenProperties
<1>2. CASE I = {}
  <2>1. Chosen = NoVersion
    BY <1>2 DEF Chosen, SelectInSeq
  <2> QED BY <2>1
<1>3. CASE I # {}
  <2>1. I \subseteq Nat
    BY <1>1
  <2>2. PICK x \in I : \A y \in I : ~(<<y, x>> \in OpToRel(<, Nat))
    BY <1>3, <2>1, NatLessThanWellFounded, WFMin
  <2>3. \A y \in I : x <= y
    <3> SUFFICES ASSUME NEW y \in I, y < x PROVE FALSE
      BY <2>1
    <3>1. <<y, x>> \in Nat \X Nat /\ <<y, x>>[1] < <<y, x>>[2]
      BY <2>1
    <3>2. <<y, x>> \in OpToRel(<, Nat)
      BY <3>1 DEF OpToRel
    <3> QED BY <2>2, <3>2
  <2>4. Min(I) \in I
    BY <2>2, <2>3 DEF Min
  <2>5. SelectInSeq(Supported, LAMBDA v : v \in Offered) = Min(I)
    BY <1>3 DEF SelectInSeq
  <2>6. Chosen = Supported[Min(I)]
    BY <2>4, <2>5, <1>1 DEF Chosen
  <2> QED BY <2>4, <2>6, <1>1 DEF Versions
<1> QED BY <1>2, <1>3

LEMMA KindFacts ==
  /\ HandshakeKinds \subseteq Kinds
  /\ SharedKinds \subseteq Kinds
  /\ StandingKinds \subseteq Kinds
BY DEF Kinds

\* An agreed version is one of the versions configured.
LEMMA AgreedIsConfigured == Agreed \in Versions \cup {NoVersion}
<1>1. Supported[1] \in Versions
  <2>1. Len(Supported) \in Nat \ {0} /\ DOMAIN Supported = 1 .. Len(Supported)
    BY ConfigAssumption, LenProperties, EmptySeq
  <2> QED BY <2>1 DEF Versions
<1> QED BY <1>1, ChosenIsCommon DEF Agreed

\* A message that is not special in any way is good in every version.
LEMMA PlainMessage ==
  ASSUME NEW kind \in Kinds, NEW id \in Ids, NEW arg \in Args,
         kind \notin {"ResourceManagerDetails", "SelectControlType", "HandshakeResponse",
                      "DdbcPresentDemandStatus"},
         kind = "Handshake" => Negotiation = "Handshake"
  PROVE  Msg(kind, id, arg) \in Good
BY DEF Msg, Good, Messages, ExistsIn, HandshakeKinds

LEMMA AnswerIsGood ==
  ASSUME NEW id \in Ids, NEW status \in Statuses
  PROVE  ReceptionStatus(id, status) \in Good
<1>1. "ReceptionStatus" \in Kinds
  BY KindFacts DEF SharedKinds
<1>2. status \in Args
  BY DEF Args
<1> QED BY <1>1, <1>2, PlainMessage DEF ReceptionStatus

-----------------------------------------------------------------------------
(***************************************************************************)
(* The queues carry good messages and nothing else.                        *)
(***************************************************************************)
LEMMA EmittedGood ==
  ASSUME NEW queues \in [Roles -> Seq(Good)], NEW r \in Roles, NEW out \in Seq(Good)
  PROVE  Emitted(queues, r, out) \in [Roles -> Seq(Good)]
<1>1. Peer(r) \in Roles
  BY DEF Peer, Roles
<1>2. queues[Peer(r)] \o out \in Seq(Good)
  BY <1>1, ConcatProperties
<1> QED BY <1>1, <1>2 DEF Emitted

LEMMA EmitGood ==
  ASSUME Typed, NEW r \in Roles, NEW out \in Seq(Good), Emit(r, out)
  PROVE  net' \in [Roles -> Seq(Good)]
BY EmittedGood DEF Typed, Emit

LEMMA ConsumeGood ==
  ASSUME Typed, NEW r \in Roles, NEW out \in Seq(Good), net[r] # <<>>, Consume(r, out)
  PROVE  net' \in [Roles -> Seq(Good)]
<1>1. Tail(net[r]) \in Seq(Good)
  BY HeadTailProperties DEF Typed
<1>2. [net EXCEPT ![r] = Tail(@)] \in [Roles -> Seq(Good)]
  BY <1>1 DEF Typed
<1> QED BY <1>2, EmittedGood DEF Consume

LEMMA HeadIsGood ==
  ASSUME Typed, NEW r \in Roles, net[r] # <<>>
  PROVE  Head(net[r]) \in Good
BY HeadTailProperties DEF Typed

LEMMA NextIdIsNew ==
  ASSUME Typed, NEW r \in Roles
  PROVE  NextId(r) \in Ids
BY DEF Typed, NextId, Ids

\* What minting an identifier keeps.
LEMMA TransmitTyped ==
  ASSUME Typed, NEW r \in Roles, Transmit(r)
  PROVE  /\ minted' \in [Roles -> Nat]
         /\ pending' \in [Roles -> SUBSET Ids]
         /\ \A q \in Roles : pending[q] \subseteq pending'[q]
         /\ NextId(r) \in pending'[r]
<1>1. NextId(r) \in Ids
  BY NextIdIsNew
<1> QED BY <1>1 DEF Typed, Transmit

LEMMA RememberTyped ==
  ASSUME Typed, NEW r \in Roles, NEW id \in Ids, NEW status \in Statuses,
         Remember(r, id, status)
  PROVE  answered' \in [Roles -> SUBSET [id : Ids, status : Statuses]]
BY DEF Typed, Remember

LEMMA CloseTyped ==
  ASSUME Typed, NEW r \in Roles, NEW why \in Reasons, Close(r, why)
  PROVE  /\ state' \in [Roles -> States]
         /\ reason' \in [Roles -> Reasons]
         /\ state'[r] = "Closed" /\ reason'[r] = why
         /\ \A q \in Roles \ {r} : state'[q] = state[q] /\ reason'[q] = reason[q]
BY DEF Typed, Close, States

-----------------------------------------------------------------------------
(***************************************************************************)
(* Two shapes most steps have: nothing but queues and answers changes, or  *)
(* one session closes.                                                     *)
(***************************************************************************)
LEMMA QuietStep ==
  ASSUME Inv,
         UNCHANGED <<state, reason, version, details, minted, pending, selecting>>,
         answered' \in [Roles -> SUBSET [id : Ids, status : Statuses]],
         net' \in [Roles -> Seq(Good)], up' \in BOOLEAN, copies' \in Nat
  PROVE  Inv'
BY DEF Inv, Typed, Agreeing, Awaiting, Negotiated, AwaitedSelectionIsPending

LEMMA ClosingStep ==
  ASSUME Inv, NEW r \in Roles, NEW why \in Reasons \ {"UnsupportedVersion"}, Close(r, why),
         UNCHANGED <<version, details, selecting, up, copies>>,
         minted' \in [Roles -> Nat],
         pending' \in [Roles -> SUBSET Ids],
         \A q \in Roles : pending[q] \subseteq pending'[q],
         answered' \in [Roles -> SUBSET [id : Ids, status : Statuses]],
         net' \in [Roles -> Seq(Good)]
  PROVE  Inv'
<1>1. Typed'
  BY CloseTyped DEF Inv, Typed
<1>2. Agreeing'
  BY CloseTyped DEF Inv, Agreeing, Negotiated
<1>3. Awaiting'
  <2>1. "CEM" \in Roles
    BY DEF Roles
  <2>2. (state["CEM"] \notin Before) => (state["CEM"] \notin Before)'
    BY <2>1, CloseTyped DEF Inv, Before
  <2> QED BY <2>1, <2>2 DEF Inv, Awaiting, AwaitedSelectionIsPending
<1> QED BY <1>1, <1>2, <1>3 DEF Inv

-----------------------------------------------------------------------------
(***************************************************************************)
(* Receiving, the part both engines share.                                 *)
(***************************************************************************)
LEMMA EmptyOut == <<>> \in Seq(Good)
  BY EmptySeq

LEMMA OneOut == \A m \in Good : <<m>> \in Seq(Good)
  OBVIOUS

LEMMA TwoOut == \A m, n \in Good : <<m>> \o <<n>> \in Seq(Good)
  BY OneOut, ConcatProperties

LEMMA SharedReceive ==
  ASSUME Inv, NEW r \in Roles, net[r] # <<>>, NEW m, m = Head(net[r]),
         \/ Ignore(r, m) \/ AnswerUnreadable(r, m) \/ AnswerDuplicate(r, m)
         \/ RefuseInvalid(r, m) \/ RefuseByPolicy(r, m) \/ Unmatched(r, m)
         \/ AcceptSessionRequest(r, m) \/ AcceptOther(r, m, RmProcessed)
         \/ AcceptOther(r, m, CemProcessed)
  PROVE  Inv'
<1> USE DEF Inv
<1>0. m \in Good /\ m.id \in Ids
  BY HeadIsGood DEF Good, Messages
<1>a. {"OK", "INVALID_CONTENT", "INVALID_DATA", "TEMPORARY_ERROR", "PERMANENT_ERROR"} \subseteq Statuses
  BY DEF Statuses
<1>b. NIL \in Ids
  BY DEF NIL, Ids
<1>c. \A id \in Ids, status \in Statuses : <<ReceptionStatus(id, status)>> \in Seq(Good)
  BY AnswerIsGood, OneOut
<1>1. CASE Ignore(r, m)
  <2>1. net' \in [Roles -> Seq(Good)]
    BY <1>1, EmptyOut, ConsumeGood DEF Ignore
  <2> QED BY <1>1, <2>1, QuietStep DEF Ignore, Typed
<1>2. CASE AnswerUnreadable(r, m)
  <2>1. net' \in [Roles -> Seq(Good)]
    BY <1>2, <1>a, <1>b, <1>c, ConsumeGood DEF AnswerUnreadable
  <2>2. answered' \in [Roles -> SUBSET [id : Ids, status : Statuses]]
    BY <1>2, <1>a, <1>b, RememberTyped DEF AnswerUnreadable
  <2> QED BY <1>2, <2>1, <2>2, QuietStep DEF AnswerUnreadable, Typed
<1>3. CASE AnswerDuplicate(r, m)
  <2>1. PICK a \in answered[r] : Consume(r, <<ReceptionStatus(m.id, a.status)>>)
    BY <1>3 DEF AnswerDuplicate
  <2>2. a.status \in Statuses
    BY <2>1 DEF Typed
  <2>3. net' \in [Roles -> Seq(Good)]
    BY <2>1, <2>2, <1>0, <1>c, ConsumeGood
  <2> QED BY <1>3, <2>3, QuietStep DEF AnswerDuplicate, Typed
<1>4. CASE RefuseInvalid(r, m)
  <2>1. net' \in [Roles -> Seq(Good)]
    BY <1>4, <1>0, <1>a, <1>c, ConsumeGood DEF RefuseInvalid
  <2>2. answered' \in [Roles -> SUBSET [id : Ids, status : Statuses]]
    BY <1>4, <1>0, <1>a, RememberTyped DEF RefuseInvalid
  <2>3. CASE UNCHANGED <<state, reason>>
    BY <1>4, <2>1, <2>2, <2>3, QuietStep DEF RefuseInvalid, Typed
  <2>4. CASE Close(r, "ProtocolError")
    BY <1>4, <2>1, <2>2, <2>4, ClosingStep DEF RefuseInvalid, Typed, Reasons
  <2> QED BY <1>4, <2>3, <2>4 DEF RefuseInvalid
<1>5. CASE RefuseByPolicy(r, m)
  <2>1. PICK status \in PolicyAnswers[r] :
          Consume(r, <<ReceptionStatus(m.id, status)>>) /\ Remember(r, m.id, status)
    BY <1>5 DEF RefuseByPolicy
  <2>2. status \in Statuses
    BY ConfigAssumption DEF Statuses
  <2>3. net' \in [Roles -> Seq(Good)]
    BY <2>1, <2>2, <1>0, <1>c, ConsumeGood
  <2>4. answered' \in [Roles -> SUBSET [id : Ids, status : Statuses]]
    BY <2>1, <2>2, <1>0, RememberTyped
  <2> QED BY <1>5, <2>3, <2>4, QuietStep DEF RefuseByPolicy, Typed
<1>6. CASE Unmatched(r, m)
  <2>1. net' \in [Roles -> Seq(Good)]
    BY <1>6, EmptyOut, ConsumeGood DEF Unmatched
  <2> QED BY <1>6, <2>1, QuietStep DEF Unmatched, Typed
<1>7. ASSUME Acknowledge(r, m, <<>>)
      PROVE  /\ net' \in [Roles -> Seq(Good)]
             /\ answered' \in [Roles -> SUBSET [id : Ids, status : Statuses]]
  <2>1. <<ReceptionStatus(m.id, "OK")>> \o <<>> \in Seq(Good)
    BY <1>0, <1>a, <1>c, EmptyOut, ConcatProperties
  <2> QED BY <1>7, <2>1, <1>0, <1>a, ConsumeGood, RememberTyped DEF Acknowledge
<1>8. CASE AcceptSessionRequest(r, m)
  BY <1>8, <1>7, ClosingStep DEF AcceptSessionRequest, Typed, Reasons
<1>9. CASE AcceptOther(r, m, RmProcessed) \/ AcceptOther(r, m, CemProcessed)
  BY <1>9, <1>7, QuietStep DEF AcceptOther, Typed
<1> QED BY <1>1, <1>2, <1>3, <1>4, <1>5, <1>6, <1>8, <1>9

-----------------------------------------------------------------------------
(***************************************************************************)
(* Sending.  A kind that needs an active control type is sent by a session *)
(* past the handshake, so in the agreed version.                           *)
(***************************************************************************)
LEMMA SendableIsPast ==
  ASSUME Inv, NEW r \in Roles, NEW kind, NEW arg, Sendable(r, kind, arg),
         kind \notin HandshakeKinds \cup {"ReceptionStatus", "SessionRequest"}
  PROVE  Negotiated(r) /\ version[r] = Agreed
<1>1. Phase(r) # "Negotiating"
  BY DEF Sendable, Allowed, AllowedInPhase, Activated, ControlTypes
<1>2. Negotiated(r)
  BY <1>1 DEF Phase, Negotiated, Sendable, IsClosed
<1> QED BY <1>2 DEF Inv, Agreeing

LEMMA SendGood ==
  ASSUME Inv, NEW r \in Roles, NEW kind \in Kinds, NEW arg \in Args, Send(r, kind, arg),
         kind \notin HandshakeKinds,
         kind = "ResourceManagerDetails" => arg \in Details,
         kind = "SelectControlType" => arg \in Selections
  PROVE  /\ net' \in [Roles -> Seq(Good)]
         /\ minted' \in [Roles -> Nat]
         /\ pending' \in [Roles -> SUBSET Ids]
         /\ \A q \in Roles : pending[q] \subseteq pending'[q]
         /\ NextId(r) \in pending'[r]
<1>1. NextId(r) \in Ids
  BY NextIdIsNew DEF Inv
<1>2. WireProfile(Agreed) # NoProfile => ExistsIn(kind, WireProfile(Agreed))
  <2>1. CASE kind # "DdbcPresentDemandStatus"
    BY <2>1 DEF ExistsIn
  <2>2. CASE kind = "DdbcPresentDemandStatus"
    <3>1. version[r] = Agreed /\ version[r] # NoVersion
      BY <2>2, SendableIsPast DEF Send, HandshakeKinds, Inv, Agreeing
    <3> QED BY <3>1 DEF Send, Sendable, Profile
  <2> QED BY <2>1, <2>2
<1>3. Msg(kind, NextId(r), arg) \in Good
  BY <1>1, <1>2 DEF Msg, Good, Messages, HandshakeKinds
<1>4. net' \in [Roles -> Seq(Good)]
  BY <1>3, OneOut, EmitGood DEF Send, Inv
<1> QED BY <1>4, TransmitTyped DEF Send, Inv

\* A send that moves nothing but the counters and the queue.
LEMMA SendingStep ==
  ASSUME Inv, NEW r \in Roles, NEW kind \in Kinds, NEW arg \in Args, Send(r, kind, arg),
         kind \notin HandshakeKinds \cup {"ResourceManagerDetails", "SelectControlType"},
         UNCHANGED <<state, reason, version, details, answered, selecting, up, copies>>
  PROVE  Inv'
<1>1. /\ net' \in [Roles -> Seq(Good)]
      /\ minted' \in [Roles -> Nat]
      /\ pending' \in [Roles -> SUBSET Ids]
      /\ \A q \in Roles : pending[q] \subseteq pending'[q]
  BY SendGood
<1>2. "CEM" \in Roles
  BY DEF Roles
<1> QED BY <1>1, <1>2 DEF Inv, Typed, Agreeing, Awaiting, Negotiated, AwaitedSelectionIsPending

LEMMA EitherKeeps ==
  ASSUME Inv, NEW r \in Roles, Either(r)
  PROVE  Inv'
<1> USE DEF Inv
<1>1. CASE RequestSession(r)
  <2>1. PICK request \in SessionRequests : Send(r, "SessionRequest", request)
    BY <1>1 DEF RequestSession
  <2>2. "SessionRequest" \in Kinds /\ request \in Args
    BY KindFacts DEF SharedKinds, Args
  <2>3. /\ net' \in [Roles -> Seq(Good)]
        /\ minted' \in [Roles -> Nat]
        /\ pending' \in [Roles -> SUBSET Ids]
        /\ \A q \in Roles : pending[q] \subseteq pending'[q]
    BY <2>1, <2>2, SendGood DEF HandshakeKinds
  <2> QED BY <1>1, <2>3, ClosingStep DEF RequestSession, Typed, Reasons
<1>2. CASE CloseLocally(r)
  BY <1>2, ClosingStep DEF CloseLocally, Typed, Reasons
<1>3. CASE TransportClosed(r)
  BY <1>3, ClosingStep DEF TransportClosed, Typed, Reasons
<1>4. CASE Redeliver(r)
  <2>1. PICK i \in DOMAIN net[r] : net' = [net EXCEPT ![r] = Append(@, net[r][i])]
    BY <1>4 DEF Redeliver
  <2>2. net[r] \in Seq(Good) /\ net[r][i] \in Good
    BY <2>1, ElementOfSeq, LenProperties DEF Typed
  <2>3. net' \in [Roles -> Seq(Good)]
    BY <2>1, <2>2, AppendProperties DEF Typed
  <2>4. copies' \in Nat
    BY <1>4 DEF Redeliver, Typed
  <2> QED BY <1>4, <2>3, <2>4, QuietStep DEF Redeliver, Typed
<1> QED BY <1>1, <1>2, <1>3, <1>4 DEF Either

LEMMA DisconnectKeeps ==
  ASSUME Inv, Disconnect
  PROVE  Inv'
<1> USE DEF Inv
<1>0. "RM" \in Roles /\ "CEM" \in Roles
  BY DEF Roles
<1>1. PICK toRm \in 0 .. Len(net["RM"]), toCem \in 0 .. Len(net["CEM"]) :
        net' = [r \in Roles |-> SubSeq(net[r], 1, IF r = "RM" THEN toRm ELSE toCem)]
  BY DEF Disconnect
<1>2. \A s \in Seq(Good), n \in Nat : n <= Len(s) => SubSeq(s, 1, n) \in Seq(Good)
  BY LenProperties, ElementOfSeq, SubSeqProperties
<1>3. \A r \in Roles : net[r] \in Seq(Good) /\ Len(net[r]) \in Nat
  BY LenProperties DEF Typed
<1>4. net' \in [Roles -> Seq(Good)]
  <2> SUFFICES ASSUME NEW r \in Roles
               PROVE  SubSeq(net[r], 1, IF r = "RM" THEN toRm ELSE toCem) \in Seq(Good)
    BY <1>1
  <2> QED BY <1>0, <1>2, <1>3 DEF Roles
<1> QED BY <1>4, QuietStep DEF Disconnect, Typed

-----------------------------------------------------------------------------
(***************************************************************************)
(* The Resource Manager's own actions.                                     *)
(***************************************************************************)
LEMMA RolesFacts == "RM" \in Roles /\ "CEM" \in Roles
  BY DEF Roles

LEMMA DetailsAreGood ==
  ASSUME Typed, NEW r \in Roles
  PROVE  DetailsMessage(NextId(r)) \in Good
<1>1. /\ "ResourceManagerDetails" \in Kinds
      /\ InitialDetails \in Args /\ InitialDetails \in Details
  BY KindFacts, ConfigAssumption DEF StandingKinds, Args
<1> QED BY <1>1, NextIdIsNew DEF DetailsMessage, Msg, Good, Messages, ExistsIn, HandshakeKinds

LEMMA HandshakeIsGood ==
  ASSUME Typed, NEW r \in Roles, Negotiation = "Handshake"
  PROVE  Msg("Handshake", NextId(r), NoArg) \in Good
<1>1. "Handshake" \in Kinds /\ NoArg \in Args
  BY KindFacts DEF HandshakeKinds, Args
<1> QED BY <1>1, NextIdIsNew, PlainMessage

LEMMA RmOpenKeeps ==
  ASSUME Inv, RmOpen
  PROVE  Inv'
<1> USE DEF Inv
<1>1. /\ minted' \in [Roles -> Nat]
      /\ pending' \in [Roles -> SUBSET Ids]
      /\ \A q \in Roles : pending[q] \subseteq pending'[q]
  BY RolesFacts, TransmitTyped DEF RmOpen
<1>2. Awaiting'
  <2>1. selecting' = selecting /\ state'["CEM"] = state["CEM"]
    BY RolesFacts DEF RmOpen, Typed
  <2> QED BY <1>1, <2>1, RolesFacts DEF Awaiting, AwaitedSelectionIsPending
<1>3. CASE Negotiation = "Handshake"
  <2>1. net' \in [Roles -> Seq(Good)]
    BY <1>3, RolesFacts, HandshakeIsGood, OneOut, EmitGood DEF RmOpen
  <2>2. Typed'
    BY <1>1, <1>3, <2>1 DEF RmOpen, Typed, States
  <2>3. Agreeing'
    BY <1>3 DEF RmOpen, Typed, Agreeing, Negotiated
  <2> QED BY <1>2, <2>2, <2>3
<1>4. CASE Negotiation # "Handshake"
  <2>1. net' \in [Roles -> Seq(Good)]
    BY <1>4, RolesFacts, DetailsAreGood, OneOut, EmitGood DEF RmOpen
  <2>2. /\ Agreed = Supported[1] /\ WireProfile(Agreed) # NoProfile
        /\ Agreed \in Versions \cup {NoVersion}
    BY <1>4, ConfigAssumption, AgreedIsConfigured DEF Agreed
  <2>3. WireProfile(NoVersion) = NoProfile
    BY DEF WireProfile, NoVersion
  <2>4. Typed'
    <3>1. /\ state' = [state EXCEPT !["RM"] = "Connected"]
          /\ version' = [version EXCEPT !["RM"] = Agreed]
          /\ details' = [details EXCEPT !["RM"] = InitialDetails]
          /\ UNCHANGED <<reason, answered, selecting, up, copies>>
      BY <1>4, <2>2 DEF RmOpen
    <3>2. InitialDetails \in Details
      BY ConfigAssumption
    <3> QED BY <1>1, <2>1, <2>2, <3>1, <3>2 DEF Typed, States
  <2>5. Agreeing'
    BY <1>4, <2>2, <2>3 DEF RmOpen, Typed, Agreeing, Negotiated
  <2> QED BY <1>2, <2>4, <2>5
<1> QED BY <1>3, <1>4

\* What arrives as a choice of version was offered and is spoken.
LEMMA RmAcceptHandshakeResponseKeeps ==
  ASSUME Inv, net["RM"] # <<>>, NEW m, m = Head(net["RM"]), RmAcceptHandshakeResponse(m)
  PROVE  Inv'
<1> USE DEF Inv
<1>0. m \in Good /\ m.id \in Ids /\ "OK" \in Statuses
  BY HeadIsGood, RolesFacts DEF Good, Messages, Statuses
<1>1. /\ Negotiation = "Handshake" /\ m.arg = Chosen /\ WireProfile(Chosen) # NoProfile
      /\ Agreed = Chosen
  BY <1>0 DEF RmAcceptHandshakeResponse, Good, Agreed, HandshakeKinds
<1>2. Chosen # NoVersion
  BY <1>1 DEF WireProfile, NoVersion
<1>3. m.arg \in Offered /\ WireProfile(m.arg) # NoProfile /\ m.arg \in Versions
  BY <1>1, <1>2, ChosenIsCommon
<1>4. /\ Acknowledge("RM", m, <<DetailsMessage(NextId("RM"))>>)
      /\ Transmit("RM")
      /\ version' = [version EXCEPT !["RM"] = m.arg]
      /\ details' = [details EXCEPT !["RM"] = InitialDetails]
      /\ state' = [state EXCEPT !["RM"] = "Connected"]
      /\ UNCHANGED <<reason, selecting, up, copies>>
  BY <1>3 DEF RmAcceptHandshakeResponse
<1>5. net' \in [Roles -> Seq(Good)]
  BY <1>0, <1>4, RolesFacts, AnswerIsGood, DetailsAreGood, TwoOut, ConsumeGood DEF Acknowledge
<1>6. answered' \in [Roles -> SUBSET [id : Ids, status : Statuses]]
  BY <1>0, <1>4, RolesFacts, RememberTyped DEF Acknowledge
<1>7. /\ minted' \in [Roles -> Nat]
      /\ pending' \in [Roles -> SUBSET Ids]
      /\ \A q \in Roles : pending[q] \subseteq pending'[q]
  BY <1>4, RolesFacts, TransmitTyped
<1>8. Typed'
  BY <1>3, <1>4, <1>5, <1>6, <1>7, ConfigAssumption DEF Typed, States
<1>9. Agreeing'
  BY <1>1, <1>2, <1>4 DEF Typed, Agreeing, Negotiated
<1>10. Awaiting'
  BY <1>4, <1>7, RolesFacts DEF Typed, Awaiting, AwaitedSelectionIsPending
<1> QED BY <1>8, <1>9, <1>10

\* A selection is followed only by a session past the handshake.
LEMMA RmAcceptSelectionKeeps ==
  ASSUME Inv, net["RM"] # <<>>, NEW m, m = Head(net["RM"]), RmAcceptSelection(m)
  PROVE  Inv'
<1> USE DEF Inv
<1>0. m \in Good /\ m.id \in Ids /\ "OK" \in Statuses
  BY HeadIsGood, RolesFacts DEF Good, Messages, Statuses
<1>1. SelectedState(m.arg) \in States
  BY <1>0 DEF RmAcceptSelection, Good, SelectedState, States, Selections
<1>2. <<ReceptionStatus(m.id, "OK")>> \o <<>> \in Seq(Good)
  BY <1>0, AnswerIsGood, OneOut, EmptyOut, ConcatProperties
<1>3. net' \in [Roles -> Seq(Good)]
  BY <1>2, RolesFacts, ConsumeGood DEF RmAcceptSelection, Acknowledge
<1>4. answered' \in [Roles -> SUBSET [id : Ids, status : Statuses]]
  BY <1>0, RolesFacts, RememberTyped DEF RmAcceptSelection, Acknowledge
<1>5. Negotiated("RM")
  <2>1. Phase("RM") # "Negotiating" /\ ~IsClosed("RM")
    BY DEF RmAcceptSelection, Acknowledge, Fresh, Valid, OutOfPlace, Allowed,
           AllowedInPhase, Activated, ControlTypes, HandshakeKinds
  <2> QED BY <2>1 DEF Phase, IsClosed, Negotiated
<1>6. Typed'
  BY <1>1, <1>3, <1>4 DEF RmAcceptSelection, Typed
<1>7. Agreeing'
  BY <1>5, RolesFacts DEF RmAcceptSelection, Typed, Agreeing, Negotiated
<1>8. Awaiting'
  BY RolesFacts DEF RmAcceptSelection, Typed, Awaiting, AwaitedSelectionIsPending
<1> QED BY <1>6, <1>7, <1>8

\* Giving up on messages.
LEMMA RmTimeoutKeeps ==
  ASSUME Inv, RmTimeout
  PROVE  Inv'
<1> USE DEF Inv
<1>1. Typed'
  BY DEF RmTimeout, Typed
<1>2. pending'["CEM"] = pending["CEM"]
  BY RolesFacts DEF RmTimeout, Typed
<1> QED BY <1>1, <1>2 DEF RmTimeout, Agreeing, Negotiated, Awaiting, AwaitedSelectionIsPending

LEMMA PublishKeeps ==
  ASSUME Inv, Publish
  PROVE  Inv'
<1>1. PICK kind \in RmKinds, size \in Frames : Send("RM", kind, size)
  BY DEF Publish
<1>2. /\ kind \in Kinds /\ size \in Args
      /\ kind \notin HandshakeKinds \cup {"ResourceManagerDetails", "SelectControlType"}
  BY ConfigAssumption, RmAssumption DEF RmProcessed, Args, HandshakeKinds
<1> QED BY <1>1, <1>2, RolesFacts, SendingStep DEF Publish

LEMMA AnnounceDetailsKeeps ==
  ASSUME Inv, AnnounceDetails
  PROVE  Inv'
<1> USE DEF Inv
<1>1. PICK d \in Details : /\ Send("RM", "ResourceManagerDetails", d)
                           /\ details' = [details EXCEPT !["RM"] = d]
  BY DEF AnnounceDetails
<1>2. "ResourceManagerDetails" \in Kinds /\ d \in Args
  BY KindFacts DEF StandingKinds, Args
<1>3. /\ net' \in [Roles -> Seq(Good)]
      /\ minted' \in [Roles -> Nat]
      /\ pending' \in [Roles -> SUBSET Ids]
      /\ \A q \in Roles : pending[q] \subseteq pending'[q]
  BY <1>1, <1>2, RolesFacts, SendGood DEF HandshakeKinds
<1>4. Typed'
  BY <1>1, <1>3 DEF AnnounceDetails, Typed
<1> QED BY <1>3, <1>4, RolesFacts
        DEF AnnounceDetails, Agreeing, Negotiated, Awaiting, AwaitedSelectionIsPending

LEMMA RmReceptionStatusKeeps ==
  ASSUME Inv, net["RM"] # <<>>, NEW m, m = Head(net["RM"]), RmReceptionStatus(m)
  PROVE  Inv'
<1> USE DEF Inv
<1>1. net' \in [Roles -> Seq(Good)]
  BY RolesFacts, EmptyOut, ConsumeGood DEF RmReceptionStatus, Matched
<1>2. /\ pending' \in [Roles -> SUBSET Ids]
      /\ pending'["CEM"] = pending["CEM"]
  BY RolesFacts DEF RmReceptionStatus, Matched, Typed
<1>3. CASE UNCHANGED <<state, reason>>
  <2>1. Typed'
    BY <1>1, <1>2, <1>3 DEF RmReceptionStatus, Typed
  <2> QED BY <2>1, <1>2, <1>3
          DEF RmReceptionStatus, Agreeing, Negotiated, Awaiting, AwaitedSelectionIsPending
<1>4. CASE Close("RM", "PermanentError")
  <2>0. "PermanentError" \in Reasons
    BY DEF Reasons
  <2>1. Typed'
    BY <1>1, <1>2, <1>4, <2>0, RolesFacts, CloseTyped DEF RmReceptionStatus, Typed
  <2>2. Agreeing'
    BY <1>4, <2>0, RolesFacts, CloseTyped DEF RmReceptionStatus, Agreeing, Negotiated
  <2>3. state'["CEM"] = state["CEM"] /\ selecting' = selecting
    BY <1>4, RolesFacts DEF RmReceptionStatus, Close, Typed
  <2>4. Awaiting'
    BY <1>2, <2>3 DEF Awaiting, AwaitedSelectionIsPending
  <2> QED BY <2>1, <2>2, <2>4
<1> QED BY <1>3, <1>4 DEF RmReceptionStatus

LEMMA RmKeeps ==
  ASSUME Inv, Rm
  PROVE  Inv'
<1>1. CASE RmReceive
  <2> DEFINE m == Head(net["RM"])
  <2>1. net["RM"] # <<>>
    BY <1>1 DEF RmReceive
  <2>2. \/ Ignore("RM", m) \/ AnswerUnreadable("RM", m) \/ AnswerDuplicate("RM", m)
        \/ RefuseInvalid("RM", m) \/ RefuseByPolicy("RM", m) \/ Unmatched("RM", m)
        \/ AcceptSessionRequest("RM", m) \/ RmAcceptHandshakeResponse(m)
        \/ RmAcceptSelection(m) \/ AcceptOther("RM", m, RmProcessed)
        \/ RmReceptionStatus(m)
    BY <1>1 DEF RmReceive
  <2> HIDE DEF m
  <2>3. m = Head(net["RM"])
    BY DEF m
  <2> QED BY <2>1, <2>2, <2>3, RolesFacts, SharedReceive, RmAcceptHandshakeResponseKeeps,
             RmAcceptSelectionKeeps, RmReceptionStatusKeeps
<1> QED BY <1>1, RmOpenKeeps, RmTimeoutKeeps, PublishKeeps, AnnounceDetailsKeeps DEF Rm

-----------------------------------------------------------------------------
(***************************************************************************)
(* The Customer Energy Manager's own actions.                              *)
(***************************************************************************)
LEMMA CemOpenKeeps ==
  ASSUME Inv, CemOpen
  PROVE  Inv'
<1> USE DEF Inv
<1>0. selecting = {}
  BY DEF CemOpen, Awaiting, Before
<1>1. CASE Negotiation = "Handshake"
  <2>1. /\ minted' \in [Roles -> Nat]
        /\ pending' \in [Roles -> SUBSET Ids]
    BY <1>1, RolesFacts, TransmitTyped DEF CemOpen
  <2>2. net' \in [Roles -> Seq(Good)]
    BY <1>1, RolesFacts, HandshakeIsGood, OneOut, EmitGood DEF CemOpen
  <2>3. Typed'
    BY <1>1, <2>1, <2>2 DEF CemOpen, Typed, States
  <2>4. Agreeing'
    BY <1>1 DEF CemOpen, Typed, Agreeing, Negotiated
  <2>5. Awaiting'
    BY <1>0 DEF CemOpen, Awaiting, AwaitedSelectionIsPending
  <2> QED BY <2>3, <2>4, <2>5
<1>2. CASE Negotiation # "Handshake"
  <2>1. /\ Agreed = Supported[1] /\ WireProfile(Agreed) # NoProfile
        /\ Agreed \in Versions \cup {NoVersion}
    BY <1>2, ConfigAssumption, AgreedIsConfigured DEF Agreed
  <2>2. WireProfile(NoVersion) = NoProfile
    BY DEF WireProfile, NoVersion
  <2>3. /\ state' = [state EXCEPT !["CEM"] = "Connected"]
        /\ version' = [version EXCEPT !["CEM"] = Agreed]
        /\ UNCHANGED <<net, minted, pending, reason, details, answered, selecting, up, copies>>
    BY <1>2, <2>1 DEF CemOpen
  <2>4. Typed'
    BY <2>1, <2>3 DEF Typed, States
  <2>5. Agreeing'
    BY <2>1, <2>2, <2>3 DEF Typed, Agreeing, Negotiated
  <2>6. Awaiting'
    BY <1>0, <2>3 DEF Awaiting, AwaitedSelectionIsPending
  <2> QED BY <2>4, <2>5, <2>6
<1> QED BY <1>1, <1>2

LEMMA CemAcceptHandshakeKeeps ==
  ASSUME Inv, net["CEM"] # <<>>, NEW m, m = Head(net["CEM"]), CemAcceptHandshake(m)
  PROVE  Inv'
<1> USE DEF Inv
<1>0. m \in Good /\ m.id \in Ids /\ "OK" \in Statuses
  BY HeadIsGood, RolesFacts DEF Good, Messages, Statuses
<1>1. Negotiation = "Handshake" /\ Agreed = Chosen
  BY <1>0 DEF CemAcceptHandshake, Good, Agreed, HandshakeKinds
<1>2. CASE WireProfile(Chosen) # NoProfile
  <2>1. Chosen # NoVersion /\ Chosen \in Versions
    BY <1>2, ChosenIsCommon DEF WireProfile, NoVersion
  <2>2. Msg("HandshakeResponse", NextId("CEM"), Chosen) \in Good
    <3>1. "HandshakeResponse" \in Kinds /\ Chosen \in Args /\ NextId("CEM") \in Ids
      BY <2>1, KindFacts, RolesFacts, NextIdIsNew DEF HandshakeKinds, Args
    <3> QED BY <1>1, <1>2, <3>1 DEF Msg, Good, Messages, ExistsIn
  <2>3. /\ Acknowledge("CEM", m, <<Msg("HandshakeResponse", NextId("CEM"), Chosen)>>)
        /\ Transmit("CEM")
        /\ version' = [version EXCEPT !["CEM"] = Chosen]
        /\ state' = [state EXCEPT !["CEM"] = "Connected"]
        /\ UNCHANGED <<reason, details, selecting, up, copies>>
    BY <1>2 DEF CemAcceptHandshake
  <2>4. net' \in [Roles -> Seq(Good)]
    BY <1>0, <2>2, <2>3, RolesFacts, AnswerIsGood, TwoOut, ConsumeGood DEF Acknowledge
  <2>5. answered' \in [Roles -> SUBSET [id : Ids, status : Statuses]]
    BY <1>0, <2>3, RolesFacts, RememberTyped DEF Acknowledge
  <2>6. /\ minted' \in [Roles -> Nat]
        /\ pending' \in [Roles -> SUBSET Ids]
        /\ \A q \in Roles : pending[q] \subseteq pending'[q]
    BY <2>3, RolesFacts, TransmitTyped
  <2>7. Typed'
    BY <2>1, <2>3, <2>4, <2>5, <2>6 DEF Typed, States
  <2>8. Agreeing'
    BY <1>1, <1>2, <2>1, <2>3 DEF Typed, Agreeing, Negotiated
  <2>9. Awaiting'
    BY <2>3, <2>6, RolesFacts DEF Typed, Awaiting, AwaitedSelectionIsPending, Before
  <2> QED BY <2>7, <2>8, <2>9
<1>3. CASE WireProfile(Chosen) = NoProfile
  <2>1. /\ Acknowledge("CEM", m, <<>>)
        /\ Close("CEM", "NoCommonVersion")
        /\ UNCHANGED <<version, minted, pending, details, selecting, up, copies>>
    BY <1>3 DEF CemAcceptHandshake
  <2>2. <<ReceptionStatus(m.id, "OK")>> \o <<>> \in Seq(Good)
    BY <1>0, AnswerIsGood, OneOut, EmptyOut, ConcatProperties
  <2>3. net' \in [Roles -> Seq(Good)]
    BY <2>1, <2>2, RolesFacts, ConsumeGood DEF Acknowledge
  <2>4. answered' \in [Roles -> SUBSET [id : Ids, status : Statuses]]
    BY <1>0, <2>1, RolesFacts, RememberTyped DEF Acknowledge
  <2> QED BY <2>1, <2>3, <2>4, RolesFacts, ClosingStep DEF Typed, Reasons
<1> QED BY <1>2, <1>3

LEMMA CemAcceptDetailsKeeps ==
  ASSUME Inv, net["CEM"] # <<>>, NEW m, m = Head(net["CEM"]), CemAcceptDetails(m)
  PROVE  Inv'
<1> USE DEF Inv
<1>0. m \in Good /\ m.id \in Ids /\ m.arg \in Details /\ "OK" \in Statuses
  BY HeadIsGood, RolesFacts DEF CemAcceptDetails, Good, Messages, Statuses
<1>1. <<ReceptionStatus(m.id, "OK")>> \o <<>> \in Seq(Good)
  BY <1>0, AnswerIsGood, OneOut, EmptyOut, ConcatProperties
<1>2. net' \in [Roles -> Seq(Good)]
  BY <1>1, RolesFacts, ConsumeGood DEF CemAcceptDetails, Acknowledge
<1>3. answered' \in [Roles -> SUBSET [id : Ids, status : Statuses]]
  BY <1>0, RolesFacts, RememberTyped DEF CemAcceptDetails, Acknowledge
<1>4. Typed'
  BY <1>0, <1>2, <1>3 DEF CemAcceptDetails, Typed
<1> QED BY <1>4
        DEF CemAcceptDetails, Agreeing, Negotiated, Awaiting, AwaitedSelectionIsPending

LEMMA CemReceptionStatusKeeps ==
  ASSUME Inv, net["CEM"] # <<>>, NEW m, m = Head(net["CEM"]), CemReceptionStatus(m)
  PROVE  Inv'
<1> USE DEF Inv
<1>1. net' \in [Roles -> Seq(Good)]
  BY RolesFacts, EmptyOut, ConsumeGood DEF CemReceptionStatus, Matched
<1>2. /\ pending' \in [Roles -> SUBSET Ids]
      /\ pending'["CEM"] = pending["CEM"] \ {m.id}
  BY RolesFacts DEF CemReceptionStatus, Matched, Typed
<1>3. /\ selecting' = {s \in selecting : s.id # m.id}
      /\ UNCHANGED <<version, details, minted, answered, up, copies>>
      /\ ~IsClosed("CEM")
  BY DEF CemReceptionStatus, Matched
<1>4. selecting' \subseteq selecting /\ selecting' \in SUBSET [id : Ids, selection : Selections]
  BY <1>3 DEF Typed
<1>5. AwaitedSelectionIsPending'
  BY <1>2, <1>3 DEF Awaiting, AwaitedSelectionIsPending
<1>6. CASE Close("CEM", "PermanentError")
  <2>0. "PermanentError" \in Reasons
    BY DEF Reasons
  <2>1. Typed'
    BY <1>1, <1>2, <1>3, <1>4, <1>6, <2>0, RolesFacts, CloseTyped DEF Typed
  <2>2. Agreeing'
    BY <1>3, <1>6, <2>0, RolesFacts, CloseTyped DEF Agreeing, Negotiated
  <2>3. state'["CEM"] = "Closed"
    BY <1>6, <2>0, RolesFacts, CloseTyped
  <2> QED BY <1>5, <2>1, <2>2, <2>3 DEF Awaiting, Before
<1>7. CASE /\ state' = state
           /\ UNCHANGED reason
  <2>1. Typed'
    BY <1>1, <1>2, <1>3, <1>4, <1>7 DEF Typed
  <2>2. Agreeing'
    BY <1>3, <1>7 DEF Agreeing, Negotiated
  <2> QED BY <1>4, <1>5, <1>7, <2>1, <2>2 DEF Awaiting
<1>8. ASSUME NEW s \in selecting,
             state' = [state EXCEPT !["CEM"] = SelectedState(s.selection)],
             UNCHANGED reason
      PROVE  Inv'
  <2>1. /\ SelectedState(s.selection) \in States
        /\ SelectedState(s.selection) \notin Before
    BY DEF Typed, SelectedState, States, Selections, ControlTypes, Before
  <2>2. Negotiated("CEM")
    BY <1>3, <1>8 DEF Awaiting, Before, Negotiated, IsClosed
  <2>3. Typed'
    BY <1>1, <1>2, <1>3, <1>4, <1>8, <2>1 DEF Typed
  <2>4. Agreeing'
    BY <1>3, <1>8, <2>2, RolesFacts DEF Typed, Agreeing, Negotiated
  <2>5. state'["CEM"] \notin Before
    BY <1>8, <2>1, RolesFacts DEF Typed
  <2> QED BY <1>5, <2>3, <2>4, <2>5 DEF Awaiting
<1> DEFINE chosen == CHOOSE s \in selecting : s.id = m.id
<1>9. (\E s \in selecting : s.id = m.id) => chosen \in selecting
  OBVIOUS
<1>10. \/ Close("CEM", "PermanentError")
       \/ state' = state /\ UNCHANGED reason
       \/ /\ \E s \in selecting : s.id = m.id
          /\ state' = [state EXCEPT !["CEM"] = SelectedState(chosen.selection)]
          /\ UNCHANGED reason
  BY DEF CemReceptionStatus
<1> HIDE DEF chosen, Inv
<1> QED BY <1>6, <1>7, <1>8, <1>9, <1>10 DEF Inv

LEMMA CemTimeoutKeeps ==
  ASSUME Inv, CemTimeout
  PROVE  Inv'
<1> USE DEF Inv
<1>1. PICK late \in SUBSET pending["CEM"] :
        /\ pending' = [pending EXCEPT !["CEM"] = @ \ late]
        /\ selecting' = {s \in selecting : s.id \notin late}
  BY DEF CemTimeout
<1>2. /\ pending' \in [Roles -> SUBSET Ids]
      /\ pending'["CEM"] = pending["CEM"] \ late
  BY <1>1, RolesFacts DEF Typed
<1>3. selecting' \in SUBSET [id : Ids, selection : Selections]
  BY <1>1 DEF Typed
<1>4. Typed'
  BY <1>2, <1>3 DEF CemTimeout, Typed
<1>5. Awaiting'
  BY <1>1, <1>2 DEF CemTimeout, Awaiting, AwaitedSelectionIsPending
<1> QED BY <1>4, <1>5 DEF CemTimeout, Agreeing, Negotiated

LEMMA SelectControlTypeKeeps ==
  ASSUME Inv, SelectControlType
  PROVE  Inv'
<1> USE DEF Inv
<1>1. PICK selection \in CemSelections :
        /\ Send("CEM", "SelectControlType", selection)
        /\ selecting' = {[id |-> NextId("CEM"), selection |-> selection]}
  BY DEF SelectControlType
<1>2. /\ "SelectControlType" \in Kinds /\ selection \in Args /\ selection \in Selections
      /\ "SelectControlType" \notin HandshakeKinds
  BY KindFacts, CemAssumption DEF StandingKinds, Args, HandshakeKinds
<1>3. /\ net' \in [Roles -> Seq(Good)]
      /\ minted' \in [Roles -> Nat]
      /\ pending' \in [Roles -> SUBSET Ids]
      /\ NextId("CEM") \in pending'["CEM"]
  BY <1>1, <1>2, RolesFacts, SendGood
<1>4. state["CEM"] \notin Before
  BY <1>1, <1>2, RolesFacts, SendableIsPast DEF Send, Negotiated, Before
<1>5. selecting' \in SUBSET [id : Ids, selection : Selections]
  BY <1>1, <1>2, RolesFacts, NextIdIsNew
<1>6. Typed'
  BY <1>3, <1>5 DEF SelectControlType, Typed
<1>7. Awaiting'
  BY <1>1, <1>3, <1>4 DEF SelectControlType, Awaiting, AwaitedSelectionIsPending
<1> QED BY <1>6, <1>7 DEF SelectControlType, Agreeing, Negotiated

LEMMA InstructKeeps ==
  ASSUME Inv, Instruct
  PROVE  Inv'
<1>1. PICK kind \in CemKinds :
        Send("CEM", kind, IF selecting = {} THEN NoArg ELSE Racing)
  BY DEF Instruct
<1>2. /\ kind \in Kinds
      /\ kind \notin HandshakeKinds \cup {"ResourceManagerDetails", "SelectControlType"}
  BY CemAssumption DEF CemProcessed, HandshakeKinds
<1>3. (IF selecting = {} THEN NoArg ELSE Racing) \in Args
  BY DEF Args
<1> QED BY <1>1, <1>2, <1>3, RolesFacts, SendingStep DEF Instruct

LEMMA CemKeeps ==
  ASSUME Inv, Cem
  PROVE  Inv'
<1>1. CASE CemReceive
  <2> DEFINE m == Head(net["CEM"])
  <2>1. net["CEM"] # <<>>
    BY <1>1 DEF CemReceive
  <2>2. \/ Ignore("CEM", m) \/ AnswerUnreadable("CEM", m) \/ AnswerDuplicate("CEM", m)
        \/ RefuseInvalid("CEM", m) \/ RefuseByPolicy("CEM", m) \/ Unmatched("CEM", m)
        \/ AcceptSessionRequest("CEM", m) \/ CemAcceptHandshake(m)
        \/ CemAcceptDetails(m) \/ AcceptOther("CEM", m, CemProcessed)
        \/ CemReceptionStatus(m)
    BY <1>1 DEF CemReceive
  <2> HIDE DEF m
  <2>3. m = Head(net["CEM"])
    BY DEF m
  <2> QED BY <2>1, <2>2, <2>3, RolesFacts, SharedReceive, CemAcceptHandshakeKeeps,
             CemAcceptDetailsKeeps, CemReceptionStatusKeeps
<1> QED BY <1>1, CemOpenKeeps, CemTimeoutKeeps, SelectControlTypeKeeps, InstructKeeps DEF Cem

-----------------------------------------------------------------------------
LEMMA InitEstablishes == Init => Inv
<1> SUFFICES ASSUME Init PROVE Inv
  OBVIOUS
<1>1. Typed
  BY EmptyOut DEF Init, Typed, States, Reasons
<1>2. Agreeing
  BY DEF Init, Agreeing, Negotiated
<1>3. Awaiting
  BY DEF Init, Awaiting, AwaitedSelectionIsPending
<1> QED BY <1>1, <1>2, <1>3 DEF Inv

LEMMA NextKeeps == Inv /\ [Next]_vars => Inv'
<1> SUFFICES ASSUME Inv, [Next]_vars PROVE Inv'
  OBVIOUS
<1>1. CASE UNCHANGED vars
  BY <1>1 DEF vars, Inv, Typed, Agreeing, Awaiting, Negotiated, AwaitedSelectionIsPending
<1>2. CASE Next
  BY <1>1, <1>2, RmKeeps, CemKeeps, DisconnectKeeps, EitherKeeps DEF Next, Ended
<1> QED BY <1>1, <1>2

LEMMA Invariance == Spec => []Inv
  BY InitEstablishes, NextKeeps, PTL DEF Spec

(***************************************************************************)
(* Every variable keeps its type: in particular a description is set only  *)
(* to one the resource announced and a state only to one a selection names.*)
(***************************************************************************)
THEOREM TypeCorrectness == Spec => []TypeOK
<1>1. Inv => TypeOK
  <2>1. Good \subseteq Messages
    BY DEF Good
  <2>2. Seq(Good) \subseteq Seq(Messages)
    BY <2>1, SeqMonotonic
  <2> QED BY <2>2 DEF Inv, Typed, TypeOK
<1> QED BY <1>1, Invariance, PTL

(***************************************************************************)
(* Two sides past the handshake agree on a version the crate speaks, the   *)
(* resource never closes over the choice, and no frame is read against a   *)
(* schema its kind does not exist in: for any lists of versions, any       *)
(* number of messages, copies, timeouts and failures.                      *)
(***************************************************************************)
THEOREM VersionsAgree == Spec => []VersionAgreement
<1>1. Inv => VersionAgreement
  <2> SUFFICES ASSUME Inv PROVE VersionAgreement
    OBVIOUS
  <2> USE DEF Inv
  <2>1. \A r \in Roles : Negotiated(r) => version[r] = Agreed /\ WireProfile(Agreed) # NoProfile
    BY DEF Agreeing
  <2>2. \A r \in Roles : reason[r] # "UnsupportedVersion"
    BY DEF Agreeing
  <2>3. ASSUME NEW r \in Roles, net[r] # <<>>
        PROVE  ExistsIn(Head(net[r]).kind, Profile(r))
    <3>1. Head(net[r]) \in Good
      BY <2>3, HeadIsGood
    <3>2. CASE version[r] = NoVersion
      BY <3>2 DEF Profile, ExistsIn
    <3>3. CASE version[r] # NoVersion
      BY <3>1, <3>3 DEF Profile, Agreeing, Good
    <3> QED BY <3>2, <3>3
  <2> QED BY <2>1, <2>2, <2>3, RolesFacts DEF VersionAgreement
<1> QED BY <1>1, Invariance, PTL

(***************************************************************************)
(* The manager never waits for a selection its ledger has forgotten, so an *)
(* answer, a refusal or a timeout always ends the wait.                    *)
(***************************************************************************)
THEOREM AwaitedSelections == Spec => []AwaitedSelectionIsPending
<1>1. Inv => AwaitedSelectionIsPending
  BY DEF Inv, Awaiting
<1> QED BY <1>1, Invariance, PTL

-----------------------------------------------------------------------------
(***************************************************************************)
(* What one role's step may do to the other.                               *)
(***************************************************************************)
Shrinks(r) == Len(net'[r]) <= Len(net[r])

\* A step of r touches only its own state, and reads or leaves its own queue.
\* Once r is closed, it changes nothing and sends nothing.
StepOf(r) ==
  /\ \A q \in Roles \ {r} : state'[q] = state[q] /\ reason'[q] = reason[q]
  /\ Shrinks(r)
  /\ IsClosed(r) => UNCHANGED <<state, reason>> /\ Shrinks(Peer(r))

LEMMA PeerFacts ==
  \A r \in Roles : Peer(r) \in Roles /\ Peer(r) # r /\ \A q \in Roles : q = r \/ q = Peer(r)
BY DEF Peer, Roles

LEMMA EmitShrinks ==
  ASSUME Typed, NEW r \in Roles, NEW out, Emit(r, out)
  PROVE  Shrinks(r)
<1>1. net'[r] = net[r] /\ Len(net[r]) \in Nat
  BY PeerFacts, LenProperties DEF Emit, Emitted, Typed
<1> QED BY <1>1 DEF Shrinks

LEMMA ConsumeShrinks ==
  ASSUME Typed, NEW r \in Roles, NEW out, net[r] # <<>>, Consume(r, out)
  PROVE  Shrinks(r) /\ (out = <<>> => Shrinks(Peer(r)))
<1>1. net[r] \in Seq(Good) /\ net[Peer(r)] \in Seq(Good)
  BY PeerFacts DEF Typed
<1>2. Len(Tail(net[r])) <= Len(net[r])
  BY <1>1, HeadTailProperties, LenProperties
<1>3. net'[r] = Tail(net[r])
  BY PeerFacts DEF Consume, Emitted, Typed
<1>4. ASSUME out = <<>> PROVE net'[Peer(r)] = net[Peer(r)]
  <2>1. net[Peer(r)] \o out = net[Peer(r)]
    BY <1>1, <1>4, ConcatEmptySeq
  <2> QED BY <2>1, PeerFacts DEF Consume, Emitted, Typed
<1>5. Len(net[Peer(r)]) \in Nat
  BY <1>1, LenProperties
<1> QED BY <1>2, <1>3, <1>4, <1>5 DEF Shrinks

\* An open session that consumes, emits or leaves the queues alone steps alone.
LEMMA OpenStep ==
  ASSUME Typed, NEW r \in Roles, ~IsClosed(r), Shrinks(r),
         \A q \in Roles \ {r} : state'[q] = state[q] /\ reason'[q] = reason[q]
  PROVE  StepOf(r)
BY DEF StepOf

LEMMA QuietQueues ==
  ASSUME Typed, NEW r \in Roles, net' = net
  PROVE  Shrinks(r)
<1>1. Len(net[r]) \in Nat
  BY LenProperties DEF Typed
<1> QED BY <1>1 DEF Shrinks

LEMMA RmSteps ==
  ASSUME Inv, Rm
  PROVE  StepOf("RM")
<1>0. Typed
  BY DEF Inv
<1>1. CASE RmOpen
  <2>1. Shrinks("RM")
    BY <1>0, <1>1, RolesFacts, EmitShrinks DEF RmOpen
  <2> QED BY <1>0, <1>1, <2>1, RolesFacts, OpenStep DEF RmOpen, IsClosed, Typed
<1>2. CASE RmReceive
  <2> DEFINE m == Head(net["RM"])
  <2>1. net["RM"] # <<>>
    BY <1>2 DEF RmReceive
  <2>2. CASE Ignore("RM", m)
    BY <1>0, <2>1, <2>2, RolesFacts, ConsumeShrinks DEF Ignore, StepOf
  <2>3. CASE ~Ignore("RM", m)
    <3>1. \E out : Consume("RM", out)
      BY <1>2, <2>3
      DEF RmReceive, AnswerUnreadable, AnswerDuplicate, RefuseInvalid, RefuseByPolicy,
          Unmatched, AcceptSessionRequest, RmAcceptHandshakeResponse, RmAcceptSelection,
          AcceptOther, RmReceptionStatus, Acknowledge, Matched
    <3>2. ~IsClosed("RM")
      BY <1>2, <2>3
      DEF RmReceive, AnswerUnreadable, AnswerDuplicate, RefuseInvalid, RefuseByPolicy,
          Unmatched, AcceptSessionRequest, RmAcceptHandshakeResponse, RmAcceptSelection,
          AcceptOther, RmReceptionStatus, Acknowledge, Matched, Fresh
    <3>3. \A q \in Roles \ {"RM"} : state'[q] = state[q] /\ reason'[q] = reason[q]
      BY <1>0, <1>2, <2>3
      DEF RmReceive, AnswerUnreadable, AnswerDuplicate, RefuseInvalid, RefuseByPolicy,
          Unmatched, AcceptSessionRequest, RmAcceptHandshakeResponse, RmAcceptSelection,
          AcceptOther, RmReceptionStatus, Close, Typed
    <3> QED BY <1>0, <2>1, <3>1, <3>2, <3>3, RolesFacts, ConsumeShrinks, OpenStep
  <2> QED BY <2>2, <2>3
<1>3. CASE RmTimeout
  BY <1>0, <1>3, RolesFacts, QuietQueues, OpenStep DEF RmTimeout
<1>4. CASE Publish
  <2>1. ~IsClosed("RM") /\ \E out : Emit("RM", out)
    BY <1>4 DEF Publish, Send, Sendable
  <2> QED BY <1>0, <1>4, <2>1, RolesFacts, EmitShrinks, OpenStep DEF Publish
<1>5. CASE AnnounceDetails
  <2>1. ~IsClosed("RM") /\ \E out : Emit("RM", out)
    BY <1>5 DEF AnnounceDetails, Send, Sendable
  <2> QED BY <1>0, <1>5, <2>1, RolesFacts, EmitShrinks, OpenStep DEF AnnounceDetails
<1> QED BY <1>1, <1>2, <1>3, <1>4, <1>5 DEF Rm

LEMMA CemSteps ==
  ASSUME Inv, Cem
  PROVE  StepOf("CEM")
<1>0. Typed
  BY DEF Inv
<1>1. CASE CemOpen
  <2>1. Shrinks("CEM")
    BY <1>0, <1>1, RolesFacts, EmitShrinks, QuietQueues DEF CemOpen
  <2> QED BY <1>0, <1>1, <2>1, RolesFacts, OpenStep DEF CemOpen, IsClosed, Typed
<1>2. CASE CemReceive
  <2> DEFINE m == Head(net["CEM"])
  <2>1. net["CEM"] # <<>>
    BY <1>2 DEF CemReceive
  <2>2. CASE Ignore("CEM", m)
    BY <1>0, <2>1, <2>2, RolesFacts, ConsumeShrinks DEF Ignore, StepOf
  <2>3. CASE ~Ignore("CEM", m)
    <3>1. \E out : Consume("CEM", out)
      BY <1>2, <2>3
      DEF CemReceive, AnswerUnreadable, AnswerDuplicate, RefuseInvalid, RefuseByPolicy,
          Unmatched, AcceptSessionRequest, CemAcceptHandshake, CemAcceptDetails,
          AcceptOther, CemReceptionStatus, Acknowledge, Matched
    <3>2. ~IsClosed("CEM")
      BY <1>2, <2>3
      DEF CemReceive, AnswerUnreadable, AnswerDuplicate, RefuseInvalid, RefuseByPolicy,
          Unmatched, AcceptSessionRequest, CemAcceptHandshake, CemAcceptDetails,
          AcceptOther, CemReceptionStatus, Acknowledge, Matched, Fresh
    <3>3. \A q \in Roles \ {"CEM"} : state'[q] = state[q] /\ reason'[q] = reason[q]
      BY <1>0, <1>2, <2>3
      DEF CemReceive, AnswerUnreadable, AnswerDuplicate, RefuseInvalid, RefuseByPolicy,
          Unmatched, AcceptSessionRequest, CemAcceptHandshake, CemAcceptDetails,
          AcceptOther, CemReceptionStatus, Close, Typed
    <3> QED BY <1>0, <2>1, <3>1, <3>2, <3>3, RolesFacts, ConsumeShrinks, OpenStep
  <2> QED BY <2>2, <2>3
<1>3. CASE CemTimeout
  BY <1>0, <1>3, RolesFacts, QuietQueues, OpenStep DEF CemTimeout
<1>4. CASE SelectControlType
  <2>1. ~IsClosed("CEM") /\ \E out : Emit("CEM", out)
    BY <1>4 DEF SelectControlType, Send, Sendable
  <2> QED BY <1>0, <1>4, <2>1, RolesFacts, EmitShrinks, OpenStep DEF SelectControlType
<1>5. CASE Instruct
  <2>1. ~IsClosed("CEM") /\ \E out : Emit("CEM", out)
    BY <1>5 DEF Instruct, Send, Sendable
  <2> QED BY <1>0, <1>5, <2>1, RolesFacts, EmitShrinks, OpenStep DEF Instruct
<1> QED BY <1>1, <1>2, <1>3, <1>4, <1>5 DEF Cem

\* Of the steps either side may take, a copy by the proxy alone lengthens a queue.
LEMMA EitherSteps ==
  ASSUME Inv, NEW r \in Roles, Either(r), copies' = copies
  PROVE  StepOf(r)
<1>0. Typed
  BY DEF Inv
<1>1. CASE RequestSession(r)
  <2>1. ~IsClosed(r) /\ \E out : Emit(r, out)
    BY <1>1 DEF RequestSession, Send, Sendable
  <2> QED BY <1>0, <1>1, <2>1, EmitShrinks, OpenStep DEF RequestSession, Close, Typed
<1>2. CASE CloseLocally(r) \/ TransportClosed(r)
  BY <1>0, <1>2, QuietQueues, OpenStep DEF CloseLocally, TransportClosed, Close, Typed
<1>3. ~Redeliver(r)
  BY <1>0 DEF Redeliver, Typed
<1> QED BY <1>1, <1>2, <1>3 DEF Either

\* What ClosedIsFinal asks of one step.
Final ==
  \A r \in Roles : IsClosed(r) =>
    /\ state'[r] = "Closed"
    /\ reason'[r] = reason[r]
    /\ (copies' = copies) => Shrinks(Peer(r))

LEMMA StepIsFinal ==
  ASSUME NEW r \in Roles, StepOf(r)
  PROVE  Final
<1>1. Peer(Peer(r)) = r
  BY DEF Peer, Roles
<1> QED BY <1>1, PeerFacts DEF StepOf, Final, IsClosed

LEMMA NextIsFinal ==
  ASSUME Inv, [Next]_vars
  PROVE  Final
<1>0. Typed
  BY DEF Inv
<1>1. CASE UNCHANGED vars
  BY <1>0, <1>1, PeerFacts, QuietQueues DEF vars, Final, IsClosed
<1>2. CASE Rm
  BY <1>2, RolesFacts, RmSteps, StepIsFinal
<1>3. CASE Cem
  BY <1>3, RolesFacts, CemSteps, StepIsFinal
<1>4. CASE Disconnect
  <2>1. PICK toRm \in 0 .. Len(net["RM"]), toCem \in 0 .. Len(net["CEM"]) :
          net' = [r \in Roles |-> SubSeq(net[r], 1, IF r = "RM" THEN toRm ELSE toCem)]
    BY <1>4 DEF Disconnect
  <2>2. \A s \in Seq(Good), n \in Nat : n <= Len(s) => Len(SubSeq(s, 1, n)) <= Len(s)
    BY LenProperties, ElementOfSeq, SubSeqProperties
  <2>3. \A r \in Roles : net[r] \in Seq(Good) /\ Len(net[r]) \in Nat
    BY <1>0, LenProperties DEF Typed
  <2>4. \A r \in Roles : Shrinks(r)
    BY <2>1, <2>2, <2>3 DEF Shrinks, Roles
  <2> QED BY <1>4, <2>4, PeerFacts DEF Disconnect, Final, IsClosed
<1>5. ASSUME NEW r \in Roles, Either(r)
      PROVE  Final
  <2>1. CASE copies' = copies
    BY <1>5, <2>1, EitherSteps, StepIsFinal
  <2>2. CASE copies' # copies
    <3>1. UNCHANGED <<state, reason>>
      BY <1>5, <2>2
      DEF Either, RequestSession, CloseLocally, TransportClosed, Redeliver
    <3> QED BY <2>2, <3>1 DEF Final, IsClosed
  <2> QED BY <2>1, <2>2
<1>6. CASE Ended
  BY <1>1, <1>6 DEF Ended
<1> QED BY <1>1, <1>2, <1>3, <1>4, <1>5, <1>6 DEF Next

(***************************************************************************)
(* Closed is final and silent, whatever else happens: a session that is    *)
(* over never reopens, keeps its first reason, and queues nothing more.    *)
(***************************************************************************)
THEOREM ClosedStaysClosed == Spec => ClosedIsFinal
<1>1. Inv /\ [Next]_vars =>
        [\A r \in Roles : IsClosed(r) =>
           /\ state'[r] = "Closed"
           /\ reason'[r] = reason[r]
           /\ (copies' = copies) => Len(net'[Peer(r)]) <= Len(net[Peer(r)])]_vars
  BY NextIsFinal DEF Final, Shrinks
<1> QED BY <1>1, Invariance, PTL DEF Spec, ClosedIsFinal

(***************************************************************************)
(* What the two sides of a session know of each other: what is waited for  *)
(* is on its way, a reason names what happened at the other side, and the  *)
(* manager is where the resource is.                                       *)
(***************************************************************************)
-----------------------------------------------------------------------------
(* What is on its way. *)

On(r) == Range(net[r])

Asks(m) == m.kind # "ReceptionStatus"

Remembered == [id : Ids, status : Statuses]

\* What emitting adds to the peer's queue, and to no other.
LEMMA EmittingAdds ==
  ASSUME Typed, NEW r \in Roles, NEW out \in Seq(Good), Emit(r, out)
  PROVE  /\ On(r)' = On(r)
         /\ On(Peer(r))' \subseteq On(Peer(r)) \cup Range(out)
         /\ On(Peer(r)) \subseteq On(Peer(r))'
         /\ up => Range(out) \subseteq On(Peer(r))'
<1>1. net[Peer(r)] \in Seq(Good) /\ Peer(r) \in Roles /\ Peer(r) # r
  BY PeerFacts DEF Typed
<1>2. net'[r] = net[r] /\ net'[Peer(r)] = IF up THEN net[Peer(r)] \o out ELSE net[Peer(r)]
  BY <1>1 DEF Emit, Emitted, Typed
<1>3. Range(net[Peer(r)] \o out) = Range(net[Peer(r)]) \cup Range(out)
  BY <1>1, RangeConcatenation
<1> QED BY <1>2, <1>3 DEF On

\* What taking the first message and emitting does to the two queues.
LEMMA ConsumingMoves ==
  ASSUME Typed, NEW r \in Roles, NEW out \in Seq(Good), net[r] # <<>>, Consume(r, out)
  PROVE  /\ Head(net[r]) \in On(r)
         /\ On(r)' \subseteq On(r)
         /\ On(r) \subseteq On(r)' \cup {Head(net[r])}
         /\ On(Peer(r))' \subseteq On(Peer(r)) \cup Range(out)
         /\ On(Peer(r)) \subseteq On(Peer(r))'
         /\ up => Range(out) \subseteq On(Peer(r))'
<1>1. net[Peer(r)] \in Seq(Good) /\ Peer(r) \in Roles /\ Peer(r) # r /\ net[r] \in Seq(Good)
  BY PeerFacts DEF Typed
<1>2. /\ net'[r] = Tail(net[r])
      /\ net'[Peer(r)] = IF up THEN net[Peer(r)] \o out ELSE net[Peer(r)]
  BY <1>1 DEF Consume, Emitted, Typed
<1>3. Range(net[Peer(r)] \o out) = Range(net[Peer(r)]) \cup Range(out)
  BY <1>1, RangeConcatenation
<1>4. /\ Tail(net[r]) \in Seq(Good) /\ Len(Tail(net[r])) = Len(net[r]) - 1
      /\ Head(net[r]) = net[r][1]
      /\ \A i \in 1 .. Len(Tail(net[r])) : Tail(net[r])[i] = net[r][i + 1]
      /\ Len(net[r]) \in Nat \ {0}
      /\ DOMAIN net[r] = 1 .. Len(net[r]) /\ DOMAIN Tail(net[r]) = 1 .. Len(Tail(net[r]))
  BY <1>1, HeadTailProperties, LenProperties, EmptySeq
<1>5. Head(net[r]) \in Range(net[r])
  BY <1>4 DEF Range
<1>6. Range(Tail(net[r])) \subseteq Range(net[r])
  BY <1>4 DEF Range
<1>7. Range(net[r]) \subseteq Range(Tail(net[r])) \cup {Head(net[r])}
  <2> SUFFICES ASSUME NEW i \in 1 .. Len(net[r]), i # 1 PROVE net[r][i] \in Range(Tail(net[r]))
    BY <1>4 DEF Range
  <2>1. i - 1 \in 1 .. Len(Tail(net[r])) /\ (i - 1) + 1 = i
    BY <1>4
  <2> QED BY <2>1, <1>4 DEF Range
<1> QED BY <1>2, <1>3, <1>5, <1>6, <1>7 DEF On

LEMMA SingleRange == \A x : Range(<<x>>) = {x}
  BY DEF Range

LEMMA PairRange == \A x, y : Range(<<x>> \o <<y>>) = {x, y}
<1> SUFFICES ASSUME NEW x, NEW y PROVE Range(<<x>> \o <<y>>) = {x, y}
  OBVIOUS
<1> DEFINE A == {x, y}
           p == <<x>>
           q == <<y>>
<1>1. p \in Seq(A) /\ q \in Seq(A)
  OBVIOUS
<1>2. Range(p) = {x} /\ Range(q) = {y}
  BY SingleRange
<1>3. Range(p \o q) = Range(p) \cup Range(q)
  <2> HIDE DEF A, p, q
  <2> QED BY <1>1, RangeConcatenation
<1>4. {x} \cup {y} = {x, y}
  OBVIOUS
<1> QED BY <1>2, <1>3, <1>4

LEMMA EmptyRange == Range(<<>>) = {}
  BY DEF Range

-----------------------------------------------------------------------------
(***************************************************************************)
(* What a step of one side does to the queues and to what is remembered:   *)
(* it asks something under a new identifier, answers the first question,   *)
(* takes something nobody answers, or leaves the queues alone.             *)
(***************************************************************************)
\* A new question, under the next identifier.
Question(r, m) == m \in Good /\ Asks(m) /\ m.id = NextId(r)

AsksNew(r, m) ==
  /\ ~IsClosed(r)
  /\ Question(r, m)
  /\ Emit(r, <<m>>)
  /\ Transmit(r)
  /\ answered' = answered

\* The answer to the first question, which is new, or the one given before.
AnswersFirst(r, a, out) ==
  /\ net[r] # <<>> /\ ~IsClosed(r) /\ Asks(Head(net[r]))
  /\ a \in Remembered
  /\ Consume(r, out)
  /\ answered' = [answered EXCEPT ![r] = @ \cup {a}]
  /\ \/ a.id = Head(net[r]).id /\ Head(net[r]).arg # Oversized
        /\ (a \in answered[r] \/ ~HasAnswered(r, a.id))
     \/ a = [id |-> NIL, status |-> "INVALID_DATA"] /\ Head(net[r]).arg = Oversized
  /\ \/ out = <<ReceptionStatus(a.id, a.status)>> /\ UNCHANGED <<minted, pending>>
     \/ \E m : /\ Question(r, m) /\ Transmit(r)
               /\ out = <<ReceptionStatus(a.id, a.status)>> \o <<m>>

\* A frame nobody reads, or an answer.
TakesFirst(r) ==
  /\ net[r] # <<>>
  /\ IsClosed(r) \/ ~Asks(Head(net[r]))
  /\ Consume(r, <<>>)
  /\ UNCHANGED <<minted, answered>>
  /\ IF IsClosed(r) THEN UNCHANGED pending
     ELSE pending' = [pending EXCEPT ![r] = @ \ {Head(net[r]).id}]

LeavesQueues(r) ==
  /\ UNCHANGED <<net, minted, answered>>
  /\ \E late : pending' = [pending EXCEPT ![r] = @ \ late]

Turn(r) ==
  /\ UNCHANGED up
  /\ \/ \E m : AsksNew(r, m)
     \/ \E a, out : AnswersFirst(r, a, out)
     \/ TakesFirst(r)
     \/ LeavesQueues(r)

LEMMA SendsAsk ==
  ASSUME Inv, NEW r \in Roles, NEW kind \in Kinds, NEW arg \in Args, Send(r, kind, arg),
         kind \notin HandshakeKinds, kind # "ReceptionStatus",
         kind = "ResourceManagerDetails" => arg \in Details,
         kind = "SelectControlType" => arg \in Selections,
         answered' = answered
  PROVE  AsksNew(r, Msg(kind, NextId(r), arg))
<1>1. NextId(r) \in Ids
  BY NextIdIsNew DEF Inv
<1>2. WireProfile(Agreed) # NoProfile => ExistsIn(kind, WireProfile(Agreed))
  <2>1. CASE kind # "DdbcPresentDemandStatus"
    BY <2>1 DEF ExistsIn
  <2>2. CASE kind = "DdbcPresentDemandStatus"
    <3>1. version[r] = Agreed /\ version[r] # NoVersion
      BY <2>2, SendableIsPast DEF Send, HandshakeKinds, Inv, Agreeing
    <3> QED BY <3>1 DEF Send, Sendable, Profile
  <2> QED BY <2>1, <2>2
<1>3. Msg(kind, NextId(r), arg) \in Good
  BY <1>1, <1>2 DEF Msg, Good, Messages, HandshakeKinds
<1> QED BY <1>3 DEF AsksNew, Question, Send, Sendable, Msg, Asks

\* A question has one answer, and the answers on their way are the ones remembered.
Truthful ==
  /\ \A r \in Roles : \A a, b \in answered[r] : a.id = b.id => a = b
  /\ \A r \in Roles : \A m \in On(r) :
       ~Asks(m) => [id |-> m.id, status |-> m.arg] \in answered[Peer(r)]

LEMMA AnswersAreReadable ==
  ASSUME Typed, Truthful, NEW r \in Roles, NEW m \in On(r), ~Asks(m)
  PROVE  m.arg \in Statuses /\ m.arg # Oversized
<1>1. Peer(r) \in Roles /\ [id |-> m.id, status |-> m.arg] \in answered[Peer(r)]
  BY PeerFacts DEF Truthful
<1>2. m.arg \in Statuses
  BY <1>1 DEF Typed
<1> QED BY <1>2 DEF Statuses, Oversized

LEMMA HeadIsOn ==
  ASSUME Typed, NEW r \in Roles, net[r] # <<>>
  PROVE  Head(net[r]) \in On(r)
<1>1. Head(net[r]) = net[r][1] /\ 1 \in DOMAIN net[r]
  BY HeadTailProperties, LenProperties, EmptySeq DEF Typed
<1> QED BY <1>1 DEF On, Range

\* An answer alone, to the first question.
LEMMA AnswersAlone ==
  ASSUME Inv, NEW r \in Roles, net[r] # <<>>, ~IsClosed(r), Asks(Head(net[r])), UNCHANGED up,
         NEW a \in Remembered, Consume(r, <<ReceptionStatus(a.id, a.status)>>),
         answered' = [answered EXCEPT ![r] = @ \cup {a}], UNCHANGED <<minted, pending>>,
         \/ a.id = Head(net[r]).id /\ Head(net[r]).arg # Oversized
            /\ (a \in answered[r] \/ ~HasAnswered(r, a.id))
         \/ a = [id |-> NIL, status |-> "INVALID_DATA"] /\ Head(net[r]).arg = Oversized
  PROVE  Turn(r)
BY DEF AnswersFirst, Turn

LEMMA SharedTurn ==
  ASSUME Inv, Truthful, NEW r \in Roles, net[r] # <<>>, NEW m, m = Head(net[r]),
         \/ Ignore(r, m) \/ AnswerUnreadable(r, m) \/ AnswerDuplicate(r, m)
         \/ RefuseInvalid(r, m) \/ RefuseByPolicy(r, m) \/ Unmatched(r, m)
         \/ AcceptSessionRequest(r, m) \/ AcceptOther(r, m, RmProcessed)
         \/ AcceptOther(r, m, CemProcessed)
  PROVE  Turn(r)
<1>0. Typed /\ m \in Good /\ m.id \in Ids
  BY HeadIsGood DEF Good, Messages, Inv
<1>a. {"OK", "INVALID_CONTENT", "INVALID_DATA", "TEMPORARY_ERROR", "PERMANENT_ERROR"} \subseteq Statuses
  BY DEF Statuses
<1>b. NIL \in Ids
  BY DEF NIL, Ids
<1>c. \A id \in Ids, status \in Statuses : [id |-> id, status |-> status] \in Remembered
  BY DEF Remembered
<1>1. CASE Ignore(r, m)
  BY <1>1 DEF Ignore, Turn, TakesFirst
<1>2. CASE AnswerUnreadable(r, m)
  <2>1. Asks(m) /\ ~IsClosed(r)
    BY <1>2, <1>0, HeadIsOn, AnswersAreReadable DEF AnswerUnreadable
  <2> DEFINE a == [id |-> NIL, status |-> "INVALID_DATA"]
  <2>2. a \in Remembered /\ a.id = NIL /\ a.status = "INVALID_DATA"
    BY <1>a, <1>b, <1>c
  <2>3. Consume(r, <<ReceptionStatus(a.id, a.status)>>) /\ answered' = [answered EXCEPT ![r] = @ \cup {a}]
    BY <1>2 DEF AnswerUnreadable, Remember
  <2> HIDE DEF a
  <2>4. m.arg = Oversized /\ UNCHANGED <<minted, pending, up>>
    BY <1>2 DEF AnswerUnreadable
  <2> QED BY <2>1, <2>2, <2>3, <2>4, AnswersAlone DEF a
<1>3. CASE AnswerDuplicate(r, m)
  <2>1. PICK a \in answered[r] : a.id = m.id /\ Consume(r, <<ReceptionStatus(m.id, a.status)>>)
    BY <1>3 DEF AnswerDuplicate
  <2>2. a \in Remembered /\ answered = [answered EXCEPT ![r] = @ \cup {a}]
    BY <1>0, <2>1 DEF Typed, Remembered
  <2> QED BY <1>3, <2>1, <2>2, AnswersAlone DEF AnswerDuplicate, Asks
<1>4. ASSUME NEW status \in Statuses, Fresh(r, m), Consume(r, <<ReceptionStatus(m.id, status)>>),
             Remember(r, m.id, status), UNCHANGED <<minted, pending, up>>
      PROVE  Turn(r)
  <2> DEFINE a == [id |-> m.id, status |-> status]
  <2>1. a \in Remembered /\ a.id = m.id /\ a.status = status
    BY <1>0, <1>c
  <2>2. answered' = [answered EXCEPT ![r] = @ \cup {a}]
    BY <1>4 DEF Remember
  <2> HIDE DEF a
  <2> QED BY <1>4, <2>1, <2>2, AnswersAlone DEF Fresh, Asks
<1>5. CASE RefuseInvalid(r, m)
  BY <1>5, <1>4, <1>a DEF RefuseInvalid
<1>6. CASE RefuseByPolicy(r, m)
  <2>1. \A status \in PolicyAnswers[r] : status \in Statuses
    BY ConfigAssumption DEF Statuses
  <2> QED BY <1>6, <1>4, <2>1 DEF RefuseByPolicy
<1>7. CASE Unmatched(r, m)
  <2>1. pending = [pending EXCEPT ![r] = @ \ {m.id}]
    BY <1>0, <1>7 DEF Unmatched, Typed
  <2> QED BY <1>7, <2>1 DEF Unmatched, Turn, TakesFirst, Asks
<1>8. <<ReceptionStatus(m.id, "OK")>> \o <<>> = <<ReceptionStatus(m.id, "OK")>>
  OBVIOUS
<1>9. ASSUME Acknowledge(r, m, <<>>), UNCHANGED <<minted, pending, up>>
      PROVE  Turn(r)
  BY <1>9, <1>8, <1>4, <1>a DEF Acknowledge
<1>10. CASE AcceptSessionRequest(r, m)
  BY <1>10, <1>9 DEF AcceptSessionRequest
<1>11. CASE AcceptOther(r, m, RmProcessed) \/ AcceptOther(r, m, CemProcessed)
  BY <1>11, <1>9 DEF AcceptOther
<1> QED BY <1>1, <1>2, <1>3, <1>5, <1>6, <1>7, <1>10, <1>11

\* An acceptance that replies nothing.
LEMMA AcceptsTurn ==
  ASSUME Inv, NEW r \in Roles, net[r] # <<>>, NEW m, m = Head(net[r]),
         Acknowledge(r, m, <<>>), UNCHANGED <<minted, pending, up>>
  PROVE  Turn(r)
<1> DEFINE a == [id |-> m.id, status |-> "OK"]
<1>1. a \in Remembered /\ a.id = m.id /\ a.status = "OK"
  BY HeadIsGood DEF Inv, Good, Messages, Remembered, Statuses
<1>2. answered' = [answered EXCEPT ![r] = @ \cup {a}]
  BY DEF Acknowledge, Remember
<1>3. <<ReceptionStatus(m.id, "OK")>> \o <<>> = <<ReceptionStatus(m.id, "OK")>>
  OBVIOUS
<1> HIDE DEF a
<1> QED BY <1>1, <1>2, <1>3, AnswersAlone DEF Acknowledge, Fresh, Asks

LEMMA ChoiceIsGood ==
  ASSUME Typed, net["CEM"] # <<>>, Head(net["CEM"]).kind = "Handshake", WireProfile(Chosen) # NoProfile
  PROVE  Msg("HandshakeResponse", NextId("CEM"), Chosen) \in Good
<1>1. Negotiation = "Handshake"
  BY HeadIsGood, RolesFacts DEF Good, HandshakeKinds
<1>2. Chosen \in Args /\ NextId("CEM") \in Ids /\ "HandshakeResponse" \in Kinds
  <2>1. Chosen \in Versions
    BY ChosenIsCommon, ConfigAssumption DEF WireProfile, NoVersion, NoProfile
  <2> QED BY <2>1, RolesFacts, NextIdIsNew, KindFacts DEF Args, HandshakeKinds
<1> QED BY <1>1, <1>2 DEF Msg, Good, Messages, ExistsIn, HandshakeKinds

\* An acceptance that replies with a question of its own.
LEMMA RepliesTurn ==
  ASSUME Inv, NEW r \in Roles, net[r] # <<>>, NEW m, m = Head(net[r]), NEW reply,
         Question(r, reply), Acknowledge(r, m, <<reply>>), Transmit(r), UNCHANGED up
  PROVE  Turn(r)
<1> DEFINE a == [id |-> m.id, status |-> "OK"]
<1>1. a \in Remembered /\ a.id = m.id /\ a.status = "OK"
  BY HeadIsGood DEF Inv, Good, Messages, Remembered, Statuses
<1>2. answered' = [answered EXCEPT ![r] = @ \cup {a}]
  BY DEF Acknowledge, Remember
<1> HIDE DEF a
<1>3. AnswersFirst(r, a, <<ReceptionStatus(a.id, a.status)>> \o <<reply>>)
  BY <1>1, <1>2 DEF AnswersFirst, Acknowledge, Fresh, Asks
<1> QED BY <1>3 DEF Turn

-----------------------------------------------------------------------------
LEMMA RmTurn ==
  ASSUME Inv, Truthful, Rm
  PROVE  Turn("RM")
<1>0. Typed /\ NextId("RM") \in Ids /\ "RM" \in Roles
  BY RolesFacts, NextIdIsNew DEF Inv
<1>1. CASE RmOpen
  <2>1. CASE Negotiation = "Handshake"
    <3>1. Msg("Handshake", NextId("RM"), NoArg) \in Good
      BY <1>0, <2>1, HandshakeIsGood
    <3>2. AsksNew("RM", Msg("Handshake", NextId("RM"), NoArg))
      BY <1>1, <2>1, <3>1 DEF RmOpen, AsksNew, Question, Msg, Asks, IsClosed
    <3> QED BY <1>1, <3>2 DEF Turn, RmOpen
  <2>2. CASE Negotiation # "Handshake"
    <3>1. DetailsMessage(NextId("RM")) \in Good
      BY <1>0, DetailsAreGood
    <3>2. AsksNew("RM", DetailsMessage(NextId("RM")))
      BY <1>1, <2>2, <3>1 DEF RmOpen, AsksNew, Question, Msg, Asks, IsClosed, DetailsMessage
    <3> QED BY <1>1, <3>2 DEF Turn, RmOpen
  <2> QED BY <2>1, <2>2
<1>2. CASE RmReceive
  <2> DEFINE m == Head(net["RM"])
  <2>1. net["RM"] # <<>>
    BY <1>2 DEF RmReceive
  <2>2. CASE RmAcceptHandshakeResponse(m)
    <3>1. CASE Acknowledge("RM", m, <<DetailsMessage(NextId("RM"))>>) /\ Transmit("RM")
      <4>1. Question("RM", DetailsMessage(NextId("RM")))
        BY <1>0, DetailsAreGood DEF Question, DetailsMessage, Msg, Asks
      <4> QED BY <1>0, <2>1, <2>2, <3>1, <4>1, RepliesTurn DEF RmAcceptHandshakeResponse
    <3>2. CASE Acknowledge("RM", m, <<>>) /\ UNCHANGED <<minted, pending>>
      BY <1>0, <2>1, <2>2, <3>2, AcceptsTurn DEF RmAcceptHandshakeResponse
    <3> QED BY <2>2, <3>1, <3>2 DEF RmAcceptHandshakeResponse
  <2>3. CASE RmAcceptSelection(m)
    BY <1>0, <2>1, <2>3, AcceptsTurn DEF RmAcceptSelection
  <2>4. CASE RmReceptionStatus(m)
    BY <1>0, <2>1, <2>4 DEF RmReceptionStatus, Matched, Turn, TakesFirst, Asks
  <2>5. CASE \/ Ignore("RM", m) \/ AnswerUnreadable("RM", m) \/ AnswerDuplicate("RM", m)
             \/ RefuseInvalid("RM", m) \/ RefuseByPolicy("RM", m) \/ Unmatched("RM", m)
             \/ AcceptSessionRequest("RM", m) \/ AcceptOther("RM", m, RmProcessed)
    BY <1>0, <2>1, <2>5, SharedTurn
  <2> QED BY <1>2, <2>2, <2>3, <2>4, <2>5 DEF RmReceive
<1>3. CASE RmTimeout
  BY <1>3 DEF RmTimeout, Turn, LeavesQueues
<1>4. CASE Publish
  <2>1. PICK kind \in RmKinds, size \in Frames : Send("RM", kind, size)
    BY <1>4 DEF Publish
  <2>2. /\ kind \in Kinds /\ size \in Args
        /\ kind \notin HandshakeKinds \cup {"ResourceManagerDetails", "SelectControlType", "ReceptionStatus"}
    BY RmAssumption, ConfigAssumption DEF RmProcessed, HandshakeKinds, Args
  <2> QED BY <1>0, <1>4, <2>1, <2>2, SendsAsk DEF Publish, Turn
<1>5. CASE AnnounceDetails
  <2>1. PICK d \in Details : Send("RM", "ResourceManagerDetails", d)
    BY <1>5 DEF AnnounceDetails
  <2>2. "ResourceManagerDetails" \in Kinds /\ d \in Args
    BY KindFacts DEF StandingKinds, Args
  <2> QED BY <1>0, <1>5, <2>1, <2>2, SendsAsk DEF AnnounceDetails, Turn, HandshakeKinds
<1> QED BY <1>1, <1>2, <1>3, <1>4, <1>5 DEF Rm

LEMMA CemTurn ==
  ASSUME Inv, Truthful, Cem
  PROVE  Turn("CEM")
<1>0. Typed /\ NextId("CEM") \in Ids /\ "CEM" \in Roles
  BY RolesFacts, NextIdIsNew DEF Inv
<1>1. CASE CemOpen
  <2>1. CASE Negotiation = "Handshake"
    <3>1. Msg("Handshake", NextId("CEM"), NoArg) \in Good
      BY <1>0, <2>1, HandshakeIsGood
    <3>2. AsksNew("CEM", Msg("Handshake", NextId("CEM"), NoArg))
      BY <1>1, <2>1, <3>1 DEF CemOpen, AsksNew, Question, Msg, Asks, IsClosed
    <3> QED BY <1>1, <3>2 DEF Turn, CemOpen
  <2>2. CASE Negotiation # "Handshake"
    <3>1. pending = [pending EXCEPT !["CEM"] = @ \ {}]
      BY <1>0 DEF Typed
    <3> QED BY <1>1, <2>2, <3>1 DEF Turn, CemOpen, LeavesQueues
  <2> QED BY <2>1, <2>2
<1>2. CASE CemReceive
  <2> DEFINE m == Head(net["CEM"])
  <2>1. net["CEM"] # <<>>
    BY <1>2 DEF CemReceive
  <2>2. CASE CemAcceptHandshake(m)
    <3>1. CASE /\ Acknowledge("CEM", m, <<Msg("HandshakeResponse", NextId("CEM"), Chosen)>>)
               /\ Transmit("CEM") /\ WireProfile(Chosen) # NoProfile
      <4>1. Msg("HandshakeResponse", NextId("CEM"), Chosen) \in Good
        BY <1>0, <2>1, <2>2, <3>1, ChoiceIsGood DEF CemAcceptHandshake
      <4>2. Question("CEM", Msg("HandshakeResponse", NextId("CEM"), Chosen))
        BY <4>1 DEF Question, Msg, Asks
      <4> QED BY <1>0, <2>1, <2>2, <3>1, <4>2, RepliesTurn DEF CemAcceptHandshake
    <3>2. CASE Acknowledge("CEM", m, <<>>) /\ UNCHANGED <<minted, pending>>
      BY <1>0, <2>1, <2>2, <3>2, AcceptsTurn DEF CemAcceptHandshake
    <3> QED BY <2>2, <3>1, <3>2 DEF CemAcceptHandshake
  <2>3. CASE CemAcceptDetails(m)
    BY <1>0, <2>1, <2>3, AcceptsTurn DEF CemAcceptDetails
  <2>4. CASE CemReceptionStatus(m)
    BY <1>0, <2>1, <2>4 DEF CemReceptionStatus, Matched, Turn, TakesFirst, Asks
  <2>5. CASE \/ Ignore("CEM", m) \/ AnswerUnreadable("CEM", m) \/ AnswerDuplicate("CEM", m)
             \/ RefuseInvalid("CEM", m) \/ RefuseByPolicy("CEM", m) \/ Unmatched("CEM", m)
             \/ AcceptSessionRequest("CEM", m) \/ AcceptOther("CEM", m, CemProcessed)
    BY <1>0, <2>1, <2>5, SharedTurn
  <2> QED BY <1>2, <2>2, <2>3, <2>4, <2>5 DEF CemReceive
<1>3. CASE CemTimeout
  BY <1>3 DEF CemTimeout, Turn, LeavesQueues
<1>4. CASE SelectControlType
  <2>1. PICK selection \in CemSelections : Send("CEM", "SelectControlType", selection)
    BY <1>4 DEF SelectControlType
  <2>2. "SelectControlType" \in Kinds /\ selection \in Args /\ selection \in Selections
    BY KindFacts, CemAssumption DEF StandingKinds, Args
  <2> QED BY <1>0, <1>4, <2>1, <2>2, SendsAsk DEF SelectControlType, Turn, HandshakeKinds
<1>5. CASE Instruct
  <2>1. PICK kind \in CemKinds : Send("CEM", kind, IF selecting = {} THEN NoArg ELSE Racing)
    BY <1>5 DEF Instruct
  <2>2. /\ kind \in Kinds /\ (IF selecting = {} THEN NoArg ELSE Racing) \in Args
        /\ kind \notin HandshakeKinds \cup {"ResourceManagerDetails", "SelectControlType", "ReceptionStatus"}
    BY CemAssumption DEF CemProcessed, HandshakeKinds, Args
  <2> QED BY <1>0, <1>5, <2>1, <2>2, SendsAsk DEF Instruct, Turn
<1> QED BY <1>1, <1>2, <1>3, <1>4, <1>5 DEF Cem

LEMMA EitherTurn ==
  ASSUME Inv, NEW r \in Roles, Either(r), ~Redeliver(r)
  PROVE  Turn(r)
<1>1. CASE RequestSession(r)
  <2>1. PICK request \in SessionRequests : Send(r, "SessionRequest", request)
    BY <1>1 DEF RequestSession
  <2>2. "SessionRequest" \in Kinds /\ request \in Args
    BY KindFacts DEF SharedKinds, Args
  <2> QED BY <1>1, <2>1, <2>2, SendsAsk DEF RequestSession, Turn, HandshakeKinds
<1>2. CASE CloseLocally(r) \/ TransportClosed(r)
  <2>1. pending = [pending EXCEPT ![r] = @ \ {}]
    BY DEF Inv, Typed
  <2> QED BY <1>2, <2>1 DEF CloseLocally, TransportClosed, Turn, LeavesQueues
<1> QED BY <1>1, <1>2 DEF Either

-----------------------------------------------------------------------------
(***************************************************************************)
(* The same for every step, as far as what is on its way and what is       *)
(* remembered go: r is the side that steps.                                *)
(***************************************************************************)
\* A question r has just asked.
IsNew(r, m) == Question(r, m) /\ minted'[r] = minted[r] + 1

Moved(r) ==
  /\ On(r)' \subseteq On(r)
  /\ \A m \in On(Peer(r))' :
       \/ m \in On(Peer(r))
       \/ IsNew(r, m)
       \/ ~Asks(m) /\ [id |-> m.id, status |-> m.arg] \in answered'[r]
  /\ \A m, n \in On(Peer(r))' : IsNew(r, m) /\ IsNew(r, n) => m = n \/ m \in On(Peer(r)) \/ n \in On(Peer(r))
  /\ answered'[Peer(r)] = answered[Peer(r)]
  /\ answered[r] \subseteq answered'[r]
  /\ \A a \in answered'[r] \ answered[r] :
       \/ a = [id |-> NIL, status |-> "INVALID_DATA"]
       \/ ~HasAnswered(r, a.id) /\ \E m \in On(r) : Asks(m) /\ m.id = a.id
  /\ \A a, b \in answered'[r] \ answered[r] : a = b
  /\ minted'[Peer(r)] = minted[Peer(r)]
  /\ minted'[r] \in {minted[r], minted[r] + 1}

LEMMA QuietMoves ==
  ASSUME Typed, NEW r \in Roles, UNCHANGED <<minted, answered>>,
         \A q \in Roles : On(q)' \subseteq On(q)
  PROVE  Moved(r)
BY PeerFacts DEF Moved

LEMMA TurnMoves ==
  ASSUME Typed, NEW r \in Roles, Turn(r)
  PROVE  Moved(r)
<1>0. Peer(r) \in Roles /\ Peer(r) # r /\ minted \in [Roles -> Nat]
  BY PeerFacts DEF Typed
<1>1. ASSUME NEW m, AsksNew(r, m) PROVE Moved(r)
  <2>1. m \in Good /\ <<m>> \in Seq(Good) /\ Range(<<m>>) = {m}
    BY <1>1, SingleRange DEF AsksNew, Question
  <2>2. On(r)' = On(r) /\ On(Peer(r))' \subseteq On(Peer(r)) \cup {m}
    BY <1>1, <2>1, EmittingAdds DEF AsksNew
  <2>3. minted'[r] = minted[r] + 1 /\ minted'[Peer(r)] = minted[Peer(r)] /\ answered' = answered
    BY <1>0, <1>1 DEF AsksNew, Transmit
  <2>4. Question(r, m)
    BY <1>1 DEF AsksNew
  <2>5. \A n \in On(Peer(r))' : n \in On(Peer(r)) \/ n = m
    BY <2>2
  <2>6. \A n \in On(Peer(r))' : n \in On(Peer(r)) \/ IsNew(r, n)
    BY <2>3, <2>4, <2>5 DEF IsNew
  <2> QED BY <1>0, <2>2, <2>3, <2>5, <2>6 DEF Moved
<1>2. ASSUME NEW a, NEW out, AnswersFirst(r, a, out) PROVE Moved(r)
  <2> DEFINE ack == ReceptionStatus(a.id, a.status)
  <2>1. /\ net[r] # <<>> /\ Consume(r, out) /\ a \in Remembered
        /\ answered' = [answered EXCEPT ![r] = @ \cup {a}]
        /\ Asks(Head(net[r]))
    BY <1>2 DEF AnswersFirst
  <2>2. ack \in Good /\ ~Asks(ack) /\ [id |-> ack.id, status |-> ack.arg] = a
    <3>1. a = [id |-> a.id, status |-> a.status] /\ a.id \in Ids /\ a.status \in Statuses
      BY <2>1 DEF Remembered
    <3>2. ack \in Good
      BY <3>1, AnswerIsGood
    <3> QED BY <3>1, <3>2 DEF ReceptionStatus, Msg, Asks
  <2>3. answered'[r] = answered[r] \cup {a} /\ answered'[Peer(r)] = answered[Peer(r)]
    BY <1>0, <2>1 DEF Typed
  <2> HIDE DEF ack
  <2>4. \/ out = <<ack>> /\ UNCHANGED minted
        \/ \E m : Question(r, m) /\ Transmit(r) /\ out = <<ack>> \o <<m>>
    BY <1>2 DEF AnswersFirst, ack
  <2>5. /\ On(r)' \subseteq On(r)
        /\ \A m \in On(Peer(r))' :
             m \in On(Peer(r)) \/ m = ack \/ (IsNew(r, m) /\ out = <<ack>> \o <<m>>)
        /\ minted'[Peer(r)] = minted[Peer(r)] /\ minted'[r] \in {minted[r], minted[r] + 1}
    <3>1. CASE out = <<ack>> /\ UNCHANGED minted
      <4>1. out \in Seq(Good) /\ Range(out) = {ack}
        BY <2>2, <3>1, SingleRange
      <4>2. On(r)' \subseteq On(r) /\ On(Peer(r))' \subseteq On(Peer(r)) \cup {ack}
        BY <2>1, <4>1, ConsumingMoves
      <4> QED BY <3>1, <4>2
    <3>2. ASSUME NEW m, Question(r, m), Transmit(r), out = <<ack>> \o <<m>>
          PROVE  /\ On(r)' \subseteq On(r)
                 /\ \A n \in On(Peer(r))' :
                      n \in On(Peer(r)) \/ n = ack \/ (IsNew(r, n) /\ out = <<ack>> \o <<n>>)
                 /\ minted'[Peer(r)] = minted[Peer(r)] /\ minted'[r] = minted[r] + 1
      <4>1. out \in Seq(Good) /\ Range(out) = {ack, m}
        BY <2>2, <3>2, PairRange, TwoOut DEF Question
      <4>2. On(r)' \subseteq On(r) /\ On(Peer(r))' \subseteq On(Peer(r)) \cup {ack, m}
        BY <2>1, <4>1, ConsumingMoves
      <4>3. minted'[r] = minted[r] + 1 /\ minted'[Peer(r)] = minted[Peer(r)]
        BY <1>0, <3>2 DEF Transmit
      <4>4. \A n \in On(Peer(r))' : n \in On(Peer(r)) \/ n = ack \/ n = m
        BY <4>2
      <4>5. IsNew(r, m)
        BY <3>2, <4>3 DEF IsNew
      <4> QED BY <3>2, <4>2, <4>3, <4>4, <4>5
    <3> QED BY <2>4, <3>1, <3>2
  <2>6. \A m, n : <<ack>> \o <<m>> = <<ack>> \o <<n>> => m = n
    <3> SUFFICES ASSUME NEW m, NEW n, <<ack>> \o <<m>> = <<ack>> \o <<n>> PROVE m = n
      OBVIOUS
    <3>1. (<<ack>> \o <<m>>)[2] = m /\ (<<ack>> \o <<n>>)[2] = n
      OBVIOUS
    <3> QED BY <3>1
  <2>7. ~IsNew(r, ack)
    BY <2>2 DEF IsNew, Question
  <2>8. Head(net[r]) \in On(r)
    BY <2>1, HeadIsOn
  <2>9. \A b \in answered'[r] \ answered[r] :
          \/ b = [id |-> NIL, status |-> "INVALID_DATA"]
          \/ ~HasAnswered(r, b.id) /\ \E m \in On(r) : Asks(m) /\ m.id = b.id
    <3> SUFFICES ASSUME a \notin answered[r]
                 PROVE  \/ a = [id |-> NIL, status |-> "INVALID_DATA"]
                        \/ ~HasAnswered(r, a.id) /\ \E m \in On(r) : Asks(m) /\ m.id = a.id
      BY <2>3
    <3>1. \/ a.id = Head(net[r]).id /\ ~HasAnswered(r, a.id)
          \/ a = [id |-> NIL, status |-> "INVALID_DATA"]
      BY <1>2 DEF AnswersFirst
    <3> QED BY <2>1, <2>8, <3>1
  <2>10. \A m \in On(Peer(r))' :
          \/ m \in On(Peer(r))
          \/ IsNew(r, m)
          \/ ~Asks(m) /\ [id |-> m.id, status |-> m.arg] \in answered'[r]
    BY <2>2, <2>3, <2>5
  <2>11. \A m, n \in On(Peer(r))' :
           IsNew(r, m) /\ IsNew(r, n) => m = n \/ m \in On(Peer(r)) \/ n \in On(Peer(r))
    BY <2>5, <2>6, <2>7
  <2> QED BY <2>3, <2>5, <2>9, <2>10, <2>11 DEF Moved
<1>3. CASE TakesFirst(r)
  <2>1. On(r)' \subseteq On(r) /\ On(Peer(r))' \subseteq On(Peer(r)) \cup Range(<<>>)
    BY <1>3, EmptyOut, ConsumingMoves DEF TakesFirst
  <2> QED BY <1>3, <2>1, EmptyRange, PeerFacts, QuietMoves DEF TakesFirst
<1>4. CASE LeavesQueues(r)
  BY <1>4, QuietMoves DEF LeavesQueues, On
<1> QED BY <1>1, <1>2, <1>3, <1>4 DEF Turn

\* A connection that fails only loses, and a copy is of what is on its way.
LEMMA CutOn ==
  ASSUME Typed, Disconnect, NEW r \in Roles
  PROVE  On(r)' \subseteq On(r)
<1>1. PICK n \in 0 .. Len(net[r]) : net'[r] = SubSeq(net[r], 1, n)
  BY DEF Disconnect, Roles
<1>2. net[r] \in Seq(Good) /\ Len(net[r]) \in Nat /\ DOMAIN net[r] = 1 .. Len(net[r])
  BY LenProperties DEF Typed
<1>3. \A i \in 1 .. n : net[r][i] \in Good
  BY <1>1, <1>2, ElementOfSeq
<1>4. /\ Len(SubSeq(net[r], 1, n)) = n /\ SubSeq(net[r], 1, n) \in Seq(Good)
      /\ \A i \in 1 .. n : SubSeq(net[r], 1, n)[i] = net[r][i]
  BY <1>1, <1>2, <1>3, SubSeqProperties
<1>5. DOMAIN SubSeq(net[r], 1, n) = 1 .. n
  BY <1>4, LenProperties
<1> QED BY <1>1, <1>2, <1>4, <1>5 DEF On, Range

LEMMA CopyOn ==
  ASSUME Typed, NEW r \in Roles, Redeliver(r), NEW q \in Roles
  PROVE  On(q)' = On(q)
<1>1. PICK i \in DOMAIN net[r] : net' = [net EXCEPT ![r] = Append(@, net[r][i])]
  BY DEF Redeliver
<1>2. CASE q # r
  BY <1>1, <1>2 DEF Typed, On
<1>3. CASE q = r
  <2>1. net[r] \in Seq(Good) /\ net[r][i] \in Good /\ net[r][i] \in Range(net[r])
    BY <1>1, ElementOfSeq, LenProperties DEF Typed, Range
  <2>2. /\ Len(Append(net[r], net[r][i])) = Len(net[r]) + 1 /\ Len(net[r]) \in Nat
        /\ Append(net[r], net[r][i])[Len(net[r]) + 1] = net[r][i]
        /\ \A j \in 1 .. Len(net[r]) : Append(net[r], net[r][i])[j] = net[r][j]
        /\ DOMAIN net[r] = 1 .. Len(net[r])
        /\ DOMAIN Append(net[r], net[r][i]) = 1 .. (Len(net[r]) + 1)
    BY <2>1, AppendProperties, LenProperties
  <2>3. Range(Append(net[r], net[r][i])) = Range(net[r])
    BY <2>1, <2>2 DEF Range
  <2> QED BY <1>1, <1>3, <2>3 DEF Typed, On
<1> QED BY <1>2, <1>3

-----------------------------------------------------------------------------
(* Identifiers. *)

\* The identifiers a side has used.
Used(r) == {<<r, n>> : n \in 1 .. minted[r]}

\* A question carries an identifier its sender minted, and what is remembered of it too.
Numbered ==
  /\ \A r \in Roles : \A m \in On(r) : Asks(m) => m.id \in Used(Peer(r))
  /\ \A r \in Roles : \A a \in answered[r] :
       a = [id |-> NIL, status |-> "INVALID_DATA"] \/ a.id \in Used(Peer(r))

\* An identifier not minted yet is nobody's.
LEMMA NextIsUnused ==
  ASSUME Typed, NEW r \in Roles
  PROVE  NextId(r) \notin Used(r) /\ NextId(r) # NIL
<1>1. minted[r] \in Nat
  BY DEF Typed
<1> QED BY <1>1 DEF NextId, Used, NIL, Roles

LEMMA UsedGrows ==
  ASSUME Typed, NEW r \in Roles, NEW q \in Roles, Moved(r)
  PROVE  Used(q) \subseteq Used(q)'
<1>1. minted[q] \in Nat /\ minted'[q] \in {minted[q], minted[q] + 1}
  BY PeerFacts DEF Typed, Moved
<1>2. \A n \in 1 .. minted[q] : n \in 1 .. minted'[q]
  BY <1>1
<1> QED BY <1>2 DEF Used

LEMMA NumberedStays ==
  ASSUME Typed, Numbered, NEW r \in Roles, Moved(r)
  PROVE  Numbered'
<1>0. Peer(r) \in Roles /\ Peer(Peer(r)) = r /\ \A q \in Roles : q = r \/ q = Peer(r)
  BY PeerFacts DEF Peer, Roles
<1>1. \A q \in Roles : Used(q) \subseteq Used(q)'
  BY UsedGrows
<1>2. ASSUME NEW m, IsNew(r, m) PROVE m.id \in Used(r)'
  <2>1. minted[r] \in Nat /\ minted'[r] = minted[r] + 1 /\ m.id = <<r, minted[r] + 1>>
    BY <1>2 DEF Typed, IsNew, Question, NextId
  <2>2. minted[r] + 1 \in 1 .. minted'[r]
    BY <2>1
  <2> QED BY <2>1, <2>2 DEF Used
<1>3. ASSUME NEW m \in On(r)', Asks(m) PROVE m.id \in Used(Peer(r))'
  BY <1>0, <1>1, <1>3 DEF Moved, Numbered
<1>4. ASSUME NEW m \in On(Peer(r))', Asks(m) PROVE m.id \in Used(r)'
  <2>1. m \in On(Peer(r)) \/ IsNew(r, m)
    BY <1>4 DEF Moved
  <2> QED BY <1>0, <1>1, <1>2, <1>4, <2>1 DEF Numbered
<1>5. ASSUME NEW a \in answered'[r] PROVE a = [id |-> NIL, status |-> "INVALID_DATA"] \/ a.id \in Used(Peer(r))'
  <2>1. CASE a \in answered[r]
    BY <1>0, <1>1, <2>1 DEF Numbered
  <2>2. CASE a \notin answered[r]
    BY <1>0, <1>1, <2>2, <1>5 DEF Numbered, Moved
  <2> QED BY <2>1, <2>2
<1>6. ASSUME NEW a \in answered'[Peer(r)] PROVE a = [id |-> NIL, status |-> "INVALID_DATA"] \/ a.id \in Used(r)'
  <2>1. a \in answered[Peer(r)]
    BY <1>6 DEF Moved
  <2> QED BY <1>0, <1>1, <2>1 DEF Numbered
<1>7. ASSUME NEW q \in Roles PROVE \A m \in On(q)' : Asks(m) => m.id \in Used(Peer(q))'
  BY <1>0, <1>3, <1>4
<1>8. ASSUME NEW q \in Roles
      PROVE \A a \in answered'[q] : a = [id |-> NIL, status |-> "INVALID_DATA"] \/ a.id \in Used(Peer(q))'
  BY <1>0, <1>5, <1>6
<1> QED BY <1>7, <1>8 DEF Numbered

LEMMA TruthfulStays ==
  ASSUME Typed, Numbered, Truthful, NEW r \in Roles, Moved(r)
  PROVE  Truthful'
<1>0. Peer(r) \in Roles /\ Peer(Peer(r)) = r /\ \A q \in Roles : q = r \/ q = Peer(r)
  BY PeerFacts DEF Peer, Roles
<1>1. ASSUME NEW a \in answered'[r], NEW b \in answered'[r], a.id = b.id, a \in answered[r] PROVE a = b
  <2>1. CASE b \in answered[r]
    BY <1>1, <2>1 DEF Truthful
  <2>2. CASE b \notin answered[r]
    <3>1. ~(~HasAnswered(r, b.id))
      BY <1>1 DEF HasAnswered
    <3>2. b = [id |-> NIL, status |-> "INVALID_DATA"]
      BY <2>2, <3>1 DEF Moved
    <3>3. a.id = NIL /\ NIL \notin Used(Peer(r))
      BY <1>1, <3>2, <1>0 DEF Used, NIL, Roles
    <3> QED BY <1>1, <3>2, <3>3 DEF Numbered
  <2> QED BY <2>1, <2>2
<1>2. ASSUME NEW a \in answered'[r], NEW b \in answered'[r], a.id = b.id PROVE a = b
  <2>1. CASE a \notin answered[r] /\ b \notin answered[r]
    BY <2>1 DEF Moved
  <2> QED BY <1>1, <1>2, <2>1
<1>3. \A q \in Roles : answered[q] \subseteq answered'[q]
  BY <1>0 DEF Moved
<1>4. ASSUME NEW m \in On(r)', ~Asks(m) PROVE [id |-> m.id, status |-> m.arg] \in answered'[Peer(r)]
  BY <1>0, <1>3, <1>4 DEF Moved, Truthful
<1>5. ASSUME NEW m \in On(Peer(r))', ~Asks(m) PROVE [id |-> m.id, status |-> m.arg] \in answered'[r]
  <2>1. m \in On(Peer(r)) \/ [id |-> m.id, status |-> m.arg] \in answered'[r]
    BY <1>5 DEF Moved, IsNew, Question
  <2> QED BY <1>0, <1>3, <1>5, <2>1 DEF Truthful
<1>6. ASSUME NEW q \in Roles PROVE \A a, b \in answered'[q] : a.id = b.id => a = b
  <2>1. CASE q = r
    BY <1>2, <2>1
  <2>2. CASE q = Peer(r)
    BY <1>0, <2>2 DEF Moved, Truthful
  <2> QED BY <1>0, <2>1, <2>2
<1>7. ASSUME NEW q \in Roles
      PROVE  \A m \in On(q)' : ~Asks(m) => [id |-> m.id, status |-> m.arg] \in answered'[Peer(q)]
  BY <1>0, <1>4, <1>5
<1> QED BY <1>6, <1>7 DEF Truthful

-----------------------------------------------------------------------------
(***************************************************************************)
(* What a step does to the places of what is on its way: it takes the      *)
(* first message or none, settles it if its reader is open, and puts what  *)
(* is new behind the rest.                                                 *)
(***************************************************************************)
\* How the first message for r was settled.
Settled(r) ==
  \/ IsClosed(r)
  \/ ~Asks(net[r][1]) /\ net[r][1].id \notin pending'[r]
  \/ Asks(net[r][1]) /\ (net[r][1].arg = Oversized \/ \E a \in answered'[r] : a.id = net[r][1].id)

\* The queue for r has moved forward by k places.
Shifts(r, k) ==
  /\ \A i \in 1 .. Len(net'[r]) : i + k <= Len(net[r]) => net'[r][i] = net[r][i + k]
  /\ k = 1 => net[r] # <<>> /\ Len(net'[r]) = Len(net[r]) - 1 /\ Settled(r)
  /\ up' => Len(net[r]) <= Len(net'[r]) + k
  /\ Len(net'[r]) > Len(net[r]) => up
  /\ \A a \in answered'[r] \ answered[r] :
       \/ a.id = NIL
       \/ k = 1 /\ Asks(net[r][1]) /\ net[r][1].arg # Oversized /\ a.id = net[r][1].id

LEMMA QueueFacts ==
  ASSUME Typed, NEW r \in Roles
  PROVE  /\ net[r] \in Seq(Good) /\ Len(net[r]) \in Nat /\ DOMAIN net[r] = 1 .. Len(net[r])
         /\ net[r] # <<>> => Len(net[r]) # 0 /\ Head(net[r]) = net[r][1]
         /\ net[r] = <<>> => Len(net[r]) = 0
BY LenProperties, EmptySeq, HeadTailProperties DEF Typed

LEMMA SameShifts ==
  ASSUME Typed, NEW r \in Roles, net'[r] = net[r], answered'[r] = answered[r]
  PROVE  Shifts(r, 0)
BY QueueFacts DEF Shifts

LEMMA GrowingShifts ==
  ASSUME Typed, NEW r \in Roles, NEW out \in Seq(Good), net'[r] = net[r] \o out, answered'[r] = answered[r], up
  PROVE  Shifts(r, 0)
<1>1. net[r] \in Seq(Good) /\ Len(net[r]) \in Nat /\ Len(out) \in Nat
  BY QueueFacts, LenProperties
<1>2. /\ Len(net'[r]) = Len(net[r]) + Len(out)
      /\ \A i \in 1 .. Len(net[r]) + Len(out) : i <= Len(net[r]) => net'[r][i] = net[r][i]
  BY <1>1, ConcatProperties
<1> QED BY <1>1, <1>2 DEF Shifts

LEMMA TailShifts ==
  ASSUME Typed, NEW r \in Roles, net[r] # <<>>, net'[r] = Tail(net[r]), Settled(r),
         \A a \in answered'[r] \ answered[r] :
           \/ a.id = NIL
           \/ Asks(net[r][1]) /\ net[r][1].arg # Oversized /\ a.id = net[r][1].id
  PROVE  Shifts(r, 1)
<1>1. net[r] \in Seq(Good) /\ Len(net[r]) \in Nat \ {0}
  BY QueueFacts
<1>2. /\ Len(Tail(net[r])) = Len(net[r]) - 1
      /\ \A i \in 1 .. Len(Tail(net[r])) : Tail(net[r])[i] = net[r][i + 1]
  BY <1>1, HeadTailProperties
<1> QED BY <1>1, <1>2 DEF Shifts

LEMMA EmittingShifts ==
  ASSUME Typed, NEW r \in Roles, NEW out \in Seq(Good),
         Emit(r, out) \/ (net[r] # <<>> /\ Consume(r, out)),
         answered'[Peer(r)] = answered[Peer(r)]
  PROVE  Shifts(Peer(r), 0)
<1>1. Peer(r) \in Roles /\ Peer(r) # r
  BY PeerFacts
<1>2. net'[Peer(r)] = IF up THEN net[Peer(r)] \o out ELSE net[Peer(r)]
  BY <1>1 DEF Emit, Consume, Emitted, Typed
<1> QED BY <1>1, <1>2, SameShifts, GrowingShifts

LEMMA TurnShifts ==
  ASSUME Typed, NEW r \in Roles, Turn(r)
  PROVE  (\E k \in {0, 1} : Shifts(r, k)) /\ Shifts(Peer(r), 0)
<1>0. Peer(r) \in Roles /\ Peer(r) # r
  BY PeerFacts
<1>1. ASSUME NEW m, AsksNew(r, m) PROVE Shifts(r, 0) /\ Shifts(Peer(r), 0)
  <2>1. <<m>> \in Seq(Good) /\ Emit(r, <<m>>) /\ answered' = answered
    BY <1>1, OneOut DEF AsksNew, Question
  <2>2. net'[r] = net[r]
    BY <1>0, <2>1 DEF Emit, Emitted, Typed
  <2> QED BY <1>0, <2>1, <2>2, EmittingShifts, SameShifts
<1>2. ASSUME NEW a, NEW out, AnswersFirst(r, a, out) PROVE Shifts(r, 1) /\ Shifts(Peer(r), 0)
  <2> DEFINE ack == ReceptionStatus(a.id, a.status)
  <2>1. /\ net[r] # <<>> /\ ~IsClosed(r) /\ Consume(r, out) /\ a \in Remembered
        /\ Head(net[r]) = net[r][1] /\ Asks(net[r][1])
        /\ answered' = [answered EXCEPT ![r] = @ \cup {a}]
    BY <1>2, QueueFacts DEF AnswersFirst
  <2>2. out \in Seq(Good)
    <3>1. ack \in Good
      <4>1. a.id \in Ids /\ a.status \in Statuses
        BY <2>1 DEF Remembered
      <4> QED BY <4>1, AnswerIsGood
    <3>2. \/ out = <<ack>>
          \/ \E m \in Good : out = <<ack>> \o <<m>>
      BY <1>2 DEF AnswersFirst, Question
    <3> HIDE DEF ack
    <3> QED BY <3>1, <3>2, OneOut, TwoOut
  <2>3. net'[r] = Tail(net[r])
    BY <1>0, <2>1 DEF Consume, Emitted, Typed
  <2>4. answered'[r] = answered[r] \cup {a} /\ answered'[Peer(r)] = answered[Peer(r)]
    BY <1>0, <2>1 DEF Typed
  <2>5. \/ a.id = net[r][1].id /\ net[r][1].arg # Oversized
        \/ a.id = NIL /\ net[r][1].arg = Oversized
    BY <1>2, <2>1 DEF AnswersFirst
  <2>6. Settled(r)
    BY <2>1, <2>4, <2>5 DEF Settled
  <2>7. Shifts(r, 1)
    BY <2>1, <2>3, <2>4, <2>5, <2>6, TailShifts
  <2> QED BY <2>1, <2>2, <2>4, <2>7, EmittingShifts
<1>3. CASE TakesFirst(r)
  <2>1. /\ net[r] # <<>> /\ Consume(r, <<>>) /\ answered' = answered
        /\ Head(net[r]) = net[r][1]
    BY <1>3, QueueFacts DEF TakesFirst
  <2>4. ASSUME ~IsClosed(r) PROVE ~Asks(net[r][1]) /\ net[r][1].id \notin pending'[r]
    <3>1. pending' = [pending EXCEPT ![r] = @ \ {net[r][1].id}] /\ ~Asks(net[r][1])
      BY <1>3, <2>1, <2>4 DEF TakesFirst
    <3>2. pending'[r] = pending[r] \ {net[r][1].id}
      BY <3>1 DEF Typed
    <3> QED BY <3>1, <3>2
  <2>2. net'[r] = Tail(net[r])
    BY <1>0, <2>1 DEF Consume, Emitted, Typed
  <2>3. Shifts(r, 1)
    BY <2>1, <2>2, <2>4, TailShifts DEF Settled
  <2> QED BY <2>1, <2>3, EmptyOut, EmittingShifts
<1>4. CASE LeavesQueues(r)
  BY <1>0, <1>4, SameShifts DEF LeavesQueues
<1> QED BY <1>1, <1>2, <1>3, <1>4 DEF Turn

LEMMA CutShifts ==
  ASSUME Typed, Disconnect, NEW r \in Roles
  PROVE  Shifts(r, 0)
<1>1. PICK n \in 0 .. Len(net[r]) : net'[r] = SubSeq(net[r], 1, n)
  BY DEF Disconnect, Roles
<1>2. net[r] \in Seq(Good) /\ Len(net[r]) \in Nat
  BY QueueFacts
<1>3. \A i \in 1 .. n : net[r][i] \in Good
  BY <1>1, <1>2, ElementOfSeq
<1>4. Len(SubSeq(net[r], 1, n)) = n /\ \A i \in 1 .. n : SubSeq(net[r], 1, n)[i] = net[r][i]
  BY <1>1, <1>2, <1>3, SubSeqProperties
<1> QED BY <1>1, <1>2, <1>4 DEF Shifts, Disconnect

LEMMA CopyShifts ==
  ASSUME Typed, NEW q \in Roles, Redeliver(q), NEW r \in Roles
  PROVE  Shifts(r, 0)
<1>1. PICK i \in DOMAIN net[q] : net' = [net EXCEPT ![q] = Append(@, net[q][i])] /\ answered' = answered
  BY DEF Redeliver
<1>2. CASE r # q
  BY <1>1, <1>2, SameShifts DEF Typed
<1>3. CASE r = q
  <2>1. net[r] \in Seq(Good) /\ net[r][i] \in Good /\ Len(net[r]) \in Nat
    BY <1>1, <1>3, QueueFacts, ElementOfSeq
  <2>2. /\ Len(Append(net[r], net[r][i])) = Len(net[r]) + 1
        /\ \A j \in 1 .. Len(net[r]) : Append(net[r], net[r][i])[j] = net[r][j]
    BY <2>1, AppendProperties
  <2>3. net'[r] = Append(net[r], net[r][i])
    BY <1>1, <1>3 DEF Typed
  <2> QED BY <1>1, <2>1, <2>2, <2>3 DEF Shifts, Redeliver
<1> QED BY <1>2, <1>3

LEMMA EverythingShifts ==
  ASSUME Inv, Truthful, [Next]_vars, NEW q \in Roles
  PROVE  \E k \in {0, 1} : Shifts(q, k)
<1>0. Typed /\ "RM" \in Roles /\ "CEM" \in Roles
  BY RolesFacts DEF Inv
<1>1. ASSUME NEW r \in Roles, Turn(r) PROVE \E k \in {0, 1} : Shifts(q, k)
  <2>1. q = r \/ q = Peer(r)
    BY DEF Peer, Roles
  <2> QED BY <1>0, <1>1, <2>1, TurnShifts
<1>2. CASE UNCHANGED vars
  BY <1>0, <1>2, SameShifts DEF vars
<1>3. CASE Rm
  BY <1>0, <1>1, <1>3, RmTurn
<1>4. CASE Cem
  BY <1>0, <1>1, <1>4, CemTurn
<1>5. CASE Disconnect
  BY <1>0, <1>5, CutShifts
<1>6. ASSUME NEW r \in Roles, Either(r) PROVE \E k \in {0, 1} : Shifts(q, k)
  <2>1. CASE Redeliver(r)
    BY <1>0, <2>1, CopyShifts
  <2> QED BY <1>1, <1>6, <2>1, EitherTurn
<1> QED BY <1>2, <1>3, <1>4, <1>5, <1>6 DEF Next, Ended

-----------------------------------------------------------------------------
(***************************************************************************)
(* What a step of one side does to its state, to its reason and to the     *)
(* selection the manager awaits.                                           *)
(***************************************************************************)
Keeps(r) == state'[r] = state[r] /\ reason'[r] = reason[r]

\* A reason, and what it is said to be the reason of.
Cause(r, why) ==
  \/ why \in {"LocallyRequested", "Local", "UnsupportedVersion", "NoCommonVersion"}
  \/ why = "PeerRequested" /\ \E m \in On(r) : m.kind = "SessionRequest"
  \/ why = "PermanentError" /\ \E m \in On(r) : ~Asks(m) /\ m.arg = "PERMANENT_ERROR"
  \/ why = "TransportClosed" /\ (~up \/ IsClosed(Peer(r)))
  \/ why = "ProtocolError" /\ OutOfOrder[r] = "Close" /\ \E a \in answered'[r] : a.status = "INVALID_CONTENT"

Ends(r) == ~IsClosed(r) /\ state'[r] = "Closed" /\ Cause(r, reason'[r])

Opens(r) ==
  /\ state[r] = "Idle"
  /\ state'[r] = IF Negotiation = "Handshake" THEN "Handshaking" ELSE "Connected"
  /\ reason'[r] = reason[r]

Accepts(r, m) ==
  /\ net[r] # <<>> /\ m = Head(net[r]) /\ m \in On(r)
  /\ Fresh(r, m) /\ Valid(r, m)
  /\ [id |-> m.id, status |-> "OK"] \in answered'[r]

\* The manager accepts the handshake, the resource the choice.
Agrees(r) ==
  /\ \E m : Accepts(r, m) /\ m.kind = IF r = "CEM" THEN "Handshake" ELSE "HandshakeResponse"
  /\ state'[r] = "Connected" /\ reason'[r] = reason[r]

\* The resource follows a selection.
FollowsSelection ==
  \E m : /\ Accepts("RM", m) /\ m.kind = "SelectControlType"
         /\ state'["RM"] = SelectedState(m.arg) /\ reason'["RM"] = reason["RM"]

RmCourse ==
  /\ Keeps("CEM") /\ selecting' = selecting
  /\ Keeps("RM") \/ Ends("RM") \/ Opens("RM") \/ Agrees("RM") \/ FollowsSelection

\* The manager selects, and waits.
Chooses ==
  /\ OverlapsSelections \/ selecting = {}
  /\ Negotiated("CEM") /\ Keeps("CEM")
  /\ minted'["CEM"] = minted["CEM"] + 1
  /\ \E selection \in Selections : selecting' = {[id |-> NextId("CEM"), selection |-> selection]}

\* The manager hears of something it sent.
HearsOf(m) ==
  /\ m \in On("CEM") /\ ~Asks(m) /\ ~IsClosed("CEM")
  /\ net["CEM"] # <<>> /\ m = Head(net["CEM"]) /\ Shifts("CEM", 1)
  /\ selecting' = {s \in selecting : s.id # m.id}
  /\ \/ Ends("CEM")
     \/ m.arg # "OK" /\ Keeps("CEM")
     \/ (\A s \in selecting : s.id # m.id) /\ Keeps("CEM")
     \/ \E s \in selecting : /\ s.id = m.id /\ m.arg = "OK"
                             /\ state'["CEM"] = SelectedState(s.selection) /\ reason'["CEM"] = reason["CEM"]

CemCourse ==
  /\ Keeps("RM")
  /\ \/ selecting' = selecting /\ (Keeps("CEM") \/ Ends("CEM") \/ Opens("CEM") \/ Agrees("CEM"))
     \/ Chooses
     \/ "CEM" \in GivesUp /\ Keeps("CEM") /\ selecting' \subseteq selecting
     \/ \E m : HearsOf(m)

LEMMA ClosesInCourse ==
  ASSUME Typed, NEW r \in Roles, NEW why, Close(r, why), ~IsClosed(r), Cause(r, why)
  PROVE  Ends(r) /\ Keeps(Peer(r))
<1>1. /\ state'[r] = "Closed" /\ reason'[r] = why
      /\ state'[Peer(r)] = state[Peer(r)] /\ reason'[Peer(r)] = reason[Peer(r)]
  BY PeerFacts DEF Close, Typed
<1> QED BY <1>1 DEF Ends, Keeps

\* What is the same in both engines.
LEMMA SharedCourse ==
  ASSUME Inv, Truthful, NEW r \in Roles, net[r] # <<>>, NEW m, m = Head(net[r]),
         \/ Ignore(r, m) \/ AnswerUnreadable(r, m) \/ AnswerDuplicate(r, m)
         \/ RefuseInvalid(r, m) \/ RefuseByPolicy(r, m) \/ Unmatched(r, m)
         \/ AcceptSessionRequest(r, m) \/ AcceptOther(r, m, RmProcessed)
         \/ AcceptOther(r, m, CemProcessed)
  PROVE  Keeps(Peer(r)) /\ selecting' = selecting /\ (Keeps(r) \/ Ends(r))
<1>0. Typed /\ m \in On(r)
  BY HeadIsOn DEF Inv
<1>1. CASE RefuseInvalid(r, m)
  <2>1. selecting' = selecting /\ ~IsClosed(r)
    BY <1>1 DEF RefuseInvalid, Fresh
  <2>2. CASE UNCHANGED <<state, reason>>
    BY <2>1, <2>2 DEF Keeps
  <2>3. CASE Close(r, "ProtocolError") /\ OutOfOrder[r] = "Close"
    <3>1. Remember(r, m.id, "INVALID_CONTENT")
      BY <1>1 DEF RefuseInvalid
    <3>2. [id |-> m.id, status |-> "INVALID_CONTENT"] \in answered'[r]
      BY <3>1, <1>0 DEF Remember, Typed
    <3>3. Cause(r, "ProtocolError")
      BY <2>3, <3>2 DEF Cause
    <3> QED BY <1>0, <2>1, <2>3, <3>3, ClosesInCourse
  <2> QED BY <1>1, <2>2, <2>3 DEF RefuseInvalid
<1>2. CASE AcceptSessionRequest(r, m)
  <2>1. m.kind = "SessionRequest" /\ ~IsClosed(r) /\ Close(r, "PeerRequested") /\ selecting' = selecting
    BY <1>2 DEF AcceptSessionRequest, Acknowledge, Fresh
  <2>2. Cause(r, "PeerRequested")
    BY <1>0, <2>1 DEF Cause
  <2> QED BY <1>0, <2>1, <2>2, ClosesInCourse
<1>3. CASE \/ Ignore(r, m) \/ AnswerUnreadable(r, m) \/ AnswerDuplicate(r, m)
           \/ RefuseByPolicy(r, m) \/ Unmatched(r, m) \/ AcceptOther(r, m, RmProcessed)
           \/ AcceptOther(r, m, CemProcessed)
  BY <1>3
  DEF Ignore, AnswerUnreadable, AnswerDuplicate, RefuseByPolicy, Unmatched, AcceptOther, Keeps
<1> QED BY <1>1, <1>2, <1>3

LEMMA AcknowledgesAccept ==
  ASSUME Typed, NEW r \in Roles, net[r] # <<>>, NEW m, m = Head(net[r]), NEW out, Acknowledge(r, m, out)
  PROVE  Accepts(r, m)
<1>1. [id |-> m.id, status |-> "OK"] \in answered'[r]
  BY DEF Acknowledge, Remember, Typed
<1> QED BY <1>1, HeadIsOn DEF Acknowledge, Accepts

LEMMA RmTakesCourse ==
  ASSUME Inv, Truthful, Rm
  PROVE  RmCourse
<1>0. Typed /\ "RM" \in Roles /\ Peer("RM") = "CEM" /\ "CEM" \in Roles
  BY RolesFacts DEF Inv, Peer
<1>1. CASE RmOpen
  BY <1>0, <1>1 DEF RmOpen, RmCourse, Keeps, Opens, Typed
<1>2. CASE RmReceive
  <2> DEFINE m == Head(net["RM"])
  <2>1. net["RM"] # <<>>
    BY <1>2 DEF RmReceive
  <2>2. CASE RmAcceptHandshakeResponse(m)
    <3>1. CASE state' = [state EXCEPT !["RM"] = "Connected"] /\ reason' = reason
               /\ Acknowledge("RM", m, <<DetailsMessage(NextId("RM"))>>)
      <4>1. Accepts("RM", m)
        BY <1>0, <2>1, <3>1, AcknowledgesAccept
      <4> QED BY <1>0, <2>2, <3>1, <4>1 DEF RmAcceptHandshakeResponse, RmCourse, Agrees, Keeps, Typed
    <3>2. CASE Acknowledge("RM", m, <<>>) /\ Close("RM", "UnsupportedVersion")
      <4>1. ~IsClosed("RM") /\ selecting' = selecting
        BY <2>2, <3>2 DEF RmAcceptHandshakeResponse, Acknowledge, Fresh
      <4> QED BY <1>0, <3>2, <4>1, ClosesInCourse DEF RmCourse, Cause
    <3> QED BY <2>2, <3>1, <3>2 DEF RmAcceptHandshakeResponse
  <2>3. CASE RmAcceptSelection(m)
    <3>1. Accepts("RM", m)
      BY <1>0, <2>1, <2>3, AcknowledgesAccept DEF RmAcceptSelection
    <3> QED BY <1>0, <2>3, <3>1 DEF RmAcceptSelection, RmCourse, FollowsSelection, Keeps, Typed
  <2>4. CASE RmReceptionStatus(m)
    <3>1. ~IsClosed("RM") /\ ~Asks(m) /\ m \in On("RM") /\ selecting' = selecting
      BY <1>0, <2>1, <2>4, HeadIsOn DEF RmReceptionStatus, Matched, Asks
    <3>2. CASE m.arg = "PERMANENT_ERROR" /\ Close("RM", "PermanentError")
      BY <1>0, <3>1, <3>2, ClosesInCourse DEF RmCourse, Cause
    <3>3. CASE UNCHANGED <<state, reason>>
      BY <3>1, <3>3 DEF RmCourse, Keeps
    <3> QED BY <2>4, <3>2, <3>3 DEF RmReceptionStatus
  <2>5. CASE \/ Ignore("RM", m) \/ AnswerUnreadable("RM", m) \/ AnswerDuplicate("RM", m)
             \/ RefuseInvalid("RM", m) \/ RefuseByPolicy("RM", m) \/ Unmatched("RM", m)
             \/ AcceptSessionRequest("RM", m) \/ AcceptOther("RM", m, RmProcessed)
    BY <1>0, <2>1, <2>5, SharedCourse DEF RmCourse
  <2> QED BY <1>2, <2>2, <2>3, <2>4, <2>5 DEF RmReceive
<1>3. CASE RmTimeout \/ Publish \/ AnnounceDetails
  BY <1>3 DEF RmTimeout, Publish, AnnounceDetails, RmCourse, Keeps
<1> QED BY <1>1, <1>2, <1>3 DEF Rm

LEMMA CemTakesCourse ==
  ASSUME Inv, Truthful, Cem
  PROVE  CemCourse
<1>0. Typed /\ "RM" \in Roles /\ Peer("CEM") = "RM" /\ "CEM" \in Roles
  BY RolesFacts DEF Inv, Peer
<1>1. CASE CemOpen
  BY <1>0, <1>1 DEF CemOpen, CemCourse, Keeps, Opens, Typed
<1>2. CASE CemReceive
  <2> DEFINE m == Head(net["CEM"])
  <2>1. net["CEM"] # <<>>
    BY <1>2 DEF CemReceive
  <2>2. CASE CemAcceptHandshake(m)
    <3>1. CASE /\ state' = [state EXCEPT !["CEM"] = "Connected"] /\ reason' = reason
               /\ Acknowledge("CEM", m, <<Msg("HandshakeResponse", NextId("CEM"), Chosen)>>)
      <4>1. Accepts("CEM", m)
        BY <1>0, <2>1, <3>1, AcknowledgesAccept
      <4> QED BY <1>0, <2>2, <3>1, <4>1 DEF CemAcceptHandshake, CemCourse, Agrees, Keeps, Typed
    <3>2. CASE Acknowledge("CEM", m, <<>>) /\ Close("CEM", "NoCommonVersion")
      <4>1. ~IsClosed("CEM") /\ selecting' = selecting
        BY <2>2, <3>2 DEF CemAcceptHandshake, Acknowledge, Fresh
      <4> QED BY <1>0, <3>2, <4>1, ClosesInCourse DEF CemCourse, Cause
    <3> QED BY <2>2, <3>1, <3>2 DEF CemAcceptHandshake
  <2>3. CASE CemAcceptDetails(m)
    BY <2>3 DEF CemAcceptDetails, CemCourse, Keeps
  <2>4. CASE CemReceptionStatus(m)
    <3> HIDE DEF m
    <3>0. Shifts("CEM", 1)
      <4>1. m = net["CEM"][1] /\ ~Asks(m) /\ m.id \notin pending'["CEM"]
        BY <1>0, <2>1, <2>4, QueueFacts DEF CemReceptionStatus, Matched, Asks, m, Typed
      <4>2. net'["CEM"] = Tail(net["CEM"]) /\ answered' = answered
        BY <1>0, <2>4 DEF CemReceptionStatus, Matched, Consume, Emitted, Typed
      <4> QED BY <1>0, <2>1, <4>1, <4>2, TailShifts DEF Settled
    <3>1. /\ ~IsClosed("CEM") /\ ~Asks(m) /\ m \in On("CEM")
          /\ net["CEM"] # <<>> /\ m = Head(net["CEM"]) /\ Shifts("CEM", 1)
          /\ selecting' = {s \in selecting : s.id # m.id}
      BY <1>0, <2>1, <2>4, <3>0, HeadIsOn DEF CemReceptionStatus, Matched, Asks, m
    <3>2. CASE m.arg = "PERMANENT_ERROR" /\ Close("CEM", "PermanentError")
      BY <1>0, <3>1, <3>2, ClosesInCourse DEF CemCourse, Cause, HearsOf
    <3>3. CASE UNCHANGED <<state, reason>> /\ ~(m.arg = "OK" /\ \E s \in selecting : s.id = m.id)
      <4>1. Keeps("CEM") /\ Keeps("RM")
        BY <3>3 DEF Keeps
      <4>2. m.arg # "OK" \/ \A s \in selecting : s.id # m.id
        BY <3>3
      <4> QED BY <3>1, <4>1, <4>2 DEF HearsOf, CemCourse
    <3>4. ASSUME m.arg = "OK", NEW s \in selecting, s.id = m.id, reason' = reason,
                 state' = [state EXCEPT !["CEM"] =
                             SelectedState((CHOOSE t \in selecting : t.id = m.id).selection)]
          PROVE  CemCourse
      <4>1. PICK c \in selecting : c.id = m.id /\ c = CHOOSE t \in selecting : t.id = m.id
        BY <3>4
      <4>2. state'["CEM"] = SelectedState(c.selection) /\ state'["RM"] = state["RM"]
        BY <1>0, <3>4, <4>1 DEF Typed
      <4> QED BY <3>1, <3>4, <4>1, <4>2 DEF HearsOf, CemCourse, Keeps
    <3> QED BY <2>4, <3>2, <3>3, <3>4 DEF CemReceptionStatus
  <2>5. CASE \/ Ignore("CEM", m) \/ AnswerUnreadable("CEM", m) \/ AnswerDuplicate("CEM", m)
             \/ RefuseInvalid("CEM", m) \/ RefuseByPolicy("CEM", m) \/ Unmatched("CEM", m)
             \/ AcceptSessionRequest("CEM", m) \/ AcceptOther("CEM", m, CemProcessed)
    BY <1>0, <2>1, <2>5, SharedCourse DEF CemCourse
  <2> QED BY <1>2, <2>2, <2>3, <2>4, <2>5 DEF CemReceive
<1>3. CASE CemTimeout
  BY <1>3 DEF CemTimeout, CemCourse, Keeps
<1>4. CASE SelectControlType
  <2>1. PICK selection \in CemSelections :
          /\ Send("CEM", "SelectControlType", selection)
          /\ selecting' = {[id |-> NextId("CEM"), selection |-> selection]}
    BY <1>4 DEF SelectControlType
  <2>2. Negotiated("CEM")
    BY <1>0, <2>1, SendableIsPast DEF Send, HandshakeKinds
  <2>3. minted'["CEM"] = minted["CEM"] + 1
    BY <1>0, <2>1 DEF Send, Transmit, Typed
  <2> QED BY <1>4, <2>1, <2>2, <2>3, CemAssumption DEF SelectControlType, CemCourse, Chooses, Keeps
<1>5. CASE Instruct
  BY <1>5 DEF Instruct, CemCourse, Keeps
<1> QED BY <1>1, <1>2, <1>3, <1>4, <1>5 DEF Cem

LEMMA EitherTakesCourse ==
  ASSUME Typed, NEW r \in Roles, Either(r)
  PROVE  Keeps(Peer(r)) /\ selecting' = selecting /\ (Keeps(r) \/ Ends(r))
<1>1. CASE RequestSession(r)
  <2>1. ~IsClosed(r) /\ Close(r, "LocallyRequested") /\ selecting' = selecting
    BY <1>1 DEF RequestSession, Send, Sendable
  <2> QED BY <2>1, ClosesInCourse DEF Cause
<1>2. CASE CloseLocally(r)
  BY <1>2, ClosesInCourse DEF CloseLocally, Cause
<1>3. CASE TransportClosed(r)
  BY <1>3, ClosesInCourse DEF TransportClosed, Cause
<1>4. CASE Redeliver(r)
  BY <1>4 DEF Redeliver, Keeps
<1> QED BY <1>1, <1>2, <1>3, <1>4 DEF Either

-----------------------------------------------------------------------------
(***************************************************************************)
(* What a new question is about.                                           *)
(***************************************************************************)
SpecialKinds ==
  {"SessionRequest", "Handshake", "HandshakeResponse", "ResourceManagerDetails", "SelectControlType"}

Topic(r, m) ==
  \/ m.kind = "SessionRequest" /\ reason'[r] = "LocallyRequested" /\ m.arg \in SessionRequests
  \/ m.kind = "Handshake" /\ Opens(r) /\ Negotiation = "Handshake" /\ m.arg = NoArg
  \/ m.kind = "HandshakeResponse" /\ r = "CEM" /\ Agrees("CEM")
  \/ m.kind = "ResourceManagerDetails" /\ r = "RM" /\ Negotiated("RM")'
  \/ /\ m.kind = "SelectControlType" /\ r = "CEM" /\ Chooses
     /\ selecting' = {[id |-> m.id, selection |-> m.arg]}
  \/ /\ m.kind \in Kinds \ SpecialKinds /\ Negotiated(r) /\ Keeps(r) /\ selecting' = selecting
     /\ Allowed(Phase(r), r, m.kind) /\ answered' = answered
     /\ r = "RM" => m.arg \in Frames
     /\ r = "CEM" => m.kind \in CemKinds /\ m.arg = IF selecting = {} THEN NoArg ELSE Racing

AsksAbout(r) == \A m \in On(Peer(r))' : m \in On(Peer(r)) \/ ~Asks(m) \/ Topic(r, m)

\* A side that mints no identifier asks nothing.
LEMMA NothingAsked ==
  ASSUME Typed, NEW r \in Roles, Moved(r), UNCHANGED minted
  PROVE  AsksAbout(r)
<1>1. minted[r] \in Nat
  BY DEF Typed
<1>2. \A m : ~IsNew(r, m)
  BY <1>1 DEF IsNew
<1> QED BY <1>2 DEF Moved, AsksAbout

LEMMA OneAsked ==
  ASSUME Typed, NEW r \in Roles, NEW m \in Good, Emit(r, <<m>>), Topic(r, m)
  PROVE  AsksAbout(r)
BY SingleRange, OneOut, EmittingAdds DEF AsksAbout

LEMMA OneReplied ==
  ASSUME Typed, NEW r \in Roles, net[r] # <<>>, NEW a \in Good, NEW m \in Good, ~Asks(a),
         Consume(r, <<a>> \o <<m>>), Topic(r, m)
  PROVE  AsksAbout(r)
<1>1. <<a>> \o <<m>> \in Seq(Good) /\ Range(<<a>> \o <<m>>) = {a, m}
  BY TwoOut, PairRange
<1> QED BY <1>1, ConsumingMoves DEF AsksAbout

\* What an application's send puts on its way.
LEMMA SentIsGood ==
  ASSUME Inv, NEW r \in Roles, NEW kind \in Kinds, NEW arg \in Args, Send(r, kind, arg),
         kind \notin HandshakeKinds, kind # "ReceptionStatus",
         kind = "ResourceManagerDetails" => arg \in Details,
         kind = "SelectControlType" => arg \in Selections
  PROVE  /\ Msg(kind, NextId(r), arg) \in Good
         /\ Emit(r, <<Msg(kind, NextId(r), arg)>>)
         /\ kind # "SessionRequest" => Negotiated(r)
         /\ Allowed(Phase(r), r, kind)
<1>1. NextId(r) \in Ids
  BY NextIdIsNew DEF Inv
<1>2. WireProfile(Agreed) # NoProfile => ExistsIn(kind, WireProfile(Agreed))
  <2>1. CASE kind # "DdbcPresentDemandStatus"
    BY <2>1 DEF ExistsIn
  <2>2. CASE kind = "DdbcPresentDemandStatus"
    <3>1. version[r] = Agreed /\ version[r] # NoVersion
      BY <2>2, SendableIsPast DEF Send, HandshakeKinds, Inv, Agreeing
    <3> QED BY <3>1 DEF Send, Sendable, Profile
  <2> QED BY <2>1, <2>2
<1>3. Msg(kind, NextId(r), arg) \in Good
  BY <1>1, <1>2 DEF Msg, Good, Messages, HandshakeKinds
<1>4. kind # "SessionRequest" => Negotiated(r)
  BY SendableIsPast DEF Send
<1> QED BY <1>3, <1>4 DEF Send, Sendable

LEMMA RmAsksAbout ==
  ASSUME Inv, Truthful, Rm
  PROVE  AsksAbout("RM")
<1>0. Typed /\ "RM" \in Roles /\ Moved("RM")
  BY RolesFacts, RmTurn, TurnMoves DEF Inv
<1>1. CASE RmOpen
  <2>1. CASE Negotiation = "Handshake"
    <3>1. Opens("RM") /\ Emit("RM", <<Msg("Handshake", NextId("RM"), NoArg)>>)
      BY <1>0, <1>1, <2>1 DEF RmOpen, Opens, Typed
    <3>2. Topic("RM", Msg("Handshake", NextId("RM"), NoArg))
      BY <2>1, <3>1 DEF Topic, Msg
    <3> QED BY <1>0, <2>1, <3>1, <3>2, HandshakeIsGood, OneAsked
  <2>2. CASE Negotiation # "Handshake"
    <3>1. Negotiated("RM")' /\ Emit("RM", <<DetailsMessage(NextId("RM"))>>)
      BY <1>0, <1>1, <2>2 DEF RmOpen, Negotiated, Typed
    <3>2. Topic("RM", DetailsMessage(NextId("RM")))
      BY <3>1 DEF Topic, Msg, DetailsMessage
    <3> QED BY <1>0, <3>1, <3>2, DetailsAreGood, OneAsked
  <2> QED BY <2>1, <2>2
<1>2. CASE RmReceive
  <2> DEFINE m == Head(net["RM"])
  <2>1. CASE UNCHANGED minted
    BY <1>0, <2>1, NothingAsked
  <2>2. CASE ~UNCHANGED minted
    <3>1. /\ RmAcceptHandshakeResponse(m) /\ net["RM"] # <<>>
          /\ m.arg \in Offered /\ WireProfile(m.arg) # NoProfile
      BY <1>2, <2>2
      DEF RmReceive, Ignore, AnswerUnreadable, AnswerDuplicate, RefuseInvalid, RefuseByPolicy,
          Unmatched, AcceptSessionRequest, RmAcceptHandshakeResponse, RmAcceptSelection,
          AcceptOther, RmReceptionStatus
    <3>2. /\ Consume("RM", <<ReceptionStatus(m.id, "OK")>> \o <<DetailsMessage(NextId("RM"))>>)
          /\ state' = [state EXCEPT !["RM"] = "Connected"]
      BY <3>1 DEF RmAcceptHandshakeResponse, Acknowledge
    <3>3. Negotiated("RM")'
      BY <1>0, <3>2 DEF Negotiated, Typed
    <3>4. Topic("RM", DetailsMessage(NextId("RM")))
      BY <3>3 DEF Topic, Msg, DetailsMessage
    <3>5. ReceptionStatus(m.id, "OK") \in Good /\ ~Asks(ReceptionStatus(m.id, "OK"))
      <4>1. m.id \in Ids /\ "OK" \in Statuses
        BY <1>0, <3>1, HeadIsGood DEF Good, Messages, Statuses
      <4>2. ReceptionStatus(m.id, "OK") \in Good
        BY <4>1, AnswerIsGood
      <4> QED BY <4>2 DEF ReceptionStatus, Msg, Asks
    <3> QED BY <1>0, <3>1, <3>2, <3>4, <3>5, DetailsAreGood, OneReplied
  <2> QED BY <2>1, <2>2
<1>3. CASE RmTimeout
  BY <1>0, <1>3, NothingAsked DEF RmTimeout
<1>4. CASE Publish
  <2>1. PICK kind \in RmKinds, size \in Frames : Send("RM", kind, size)
    BY <1>4 DEF Publish
  <2>2. /\ kind \in Kinds /\ size \in Args /\ kind \notin HandshakeKinds
        /\ kind \notin SpecialKinds /\ kind # "ReceptionStatus"
    BY RmAssumption, ConfigAssumption DEF RmProcessed, HandshakeKinds, SpecialKinds, Args
  <2>3. /\ Msg(kind, NextId("RM"), size) \in Good /\ Emit("RM", <<Msg(kind, NextId("RM"), size)>>)
        /\ Negotiated("RM") /\ Allowed(Phase("RM"), "RM", kind)
    BY <1>0, <2>1, <2>2, SentIsGood DEF SpecialKinds
  <2>4. Keeps("RM") /\ selecting' = selecting
    BY <1>4 DEF Publish, Keeps
  <2>5. Topic("RM", Msg(kind, NextId("RM"), size))
    BY <1>4, <2>2, <2>3, <2>4 DEF Publish, Topic, Msg
  <2> QED BY <1>0, <2>3, <2>5, OneAsked
<1>5. CASE AnnounceDetails
  <2>1. PICK d \in Details : Send("RM", "ResourceManagerDetails", d)
    BY <1>5 DEF AnnounceDetails
  <2>2. "ResourceManagerDetails" \in Kinds /\ d \in Args
    BY KindFacts DEF StandingKinds, Args
  <2> DEFINE m == Msg("ResourceManagerDetails", NextId("RM"), d)
  <2>3. m \in Good /\ Emit("RM", <<m>>) /\ Negotiated("RM")
    BY <1>0, <2>1, <2>2, SentIsGood DEF HandshakeKinds
  <2>4. Topic("RM", m)
    BY <1>5, <2>3 DEF AnnounceDetails, Negotiated, Topic, Msg
  <2> HIDE DEF m
  <2> QED BY <1>0, <2>3, <2>4, OneAsked
<1> QED BY <1>1, <1>2, <1>3, <1>4, <1>5 DEF Rm

LEMMA CemAsksAbout ==
  ASSUME Inv, Truthful, Cem
  PROVE  AsksAbout("CEM")
<1>0. Typed /\ "CEM" \in Roles /\ Moved("CEM")
  BY RolesFacts, CemTurn, TurnMoves DEF Inv
<1>1. CASE CemOpen
  <2>1. CASE Negotiation = "Handshake"
    <3>1. Opens("CEM") /\ Emit("CEM", <<Msg("Handshake", NextId("CEM"), NoArg)>>)
      BY <1>0, <1>1, <2>1 DEF CemOpen, Opens, Typed
    <3>2. Topic("CEM", Msg("Handshake", NextId("CEM"), NoArg))
      BY <2>1, <3>1 DEF Topic, Msg
    <3> QED BY <1>0, <2>1, <3>1, <3>2, HandshakeIsGood, OneAsked
  <2>2. CASE Negotiation # "Handshake"
    BY <1>0, <1>1, <2>2, NothingAsked DEF CemOpen
  <2> QED BY <2>1, <2>2
<1>2. CASE CemReceive
  <2> DEFINE m == Head(net["CEM"])
             choice == Msg("HandshakeResponse", NextId("CEM"), Chosen)
  <2>1. CASE UNCHANGED minted
    BY <1>0, <2>1, NothingAsked
  <2>2. CASE ~UNCHANGED minted
    <3>1. CemAcceptHandshake(m) /\ net["CEM"] # <<>> /\ WireProfile(Chosen) # NoProfile
      BY <1>2, <2>2
      DEF CemReceive, Ignore, AnswerUnreadable, AnswerDuplicate, RefuseInvalid, RefuseByPolicy,
          Unmatched, AcceptSessionRequest, CemAcceptHandshake, CemAcceptDetails,
          AcceptOther, CemReceptionStatus
    <3>2. /\ Acknowledge("CEM", m, <<choice>>) /\ m.kind = "Handshake"
          /\ Consume("CEM", <<ReceptionStatus(m.id, "OK")>> \o <<choice>>)
          /\ state' = [state EXCEPT !["CEM"] = "Connected"] /\ reason' = reason
      BY <3>1 DEF CemAcceptHandshake, Acknowledge
    <3>3. Accepts("CEM", m)
      BY <1>0, <3>1, <3>2, AcknowledgesAccept
    <3>4. Topic("CEM", choice)
      BY <1>0, <3>2, <3>3 DEF Topic, Agrees, Msg, Typed
    <3>5. ReceptionStatus(m.id, "OK") \in Good /\ ~Asks(ReceptionStatus(m.id, "OK"))
      <4>1. m.id \in Ids /\ "OK" \in Statuses
        BY <1>0, <3>1, HeadIsGood DEF Good, Messages, Statuses
      <4>2. ReceptionStatus(m.id, "OK") \in Good
        BY <4>1, AnswerIsGood
      <4> QED BY <4>2 DEF ReceptionStatus, Msg, Asks
    <3>6. choice \in Good
      BY <1>0, <3>1, <3>2, ChoiceIsGood
    <3> HIDE DEF m, choice
    <3> QED BY <1>0, <3>1, <3>2, <3>4, <3>5, <3>6, OneReplied
  <2> QED BY <2>1, <2>2
<1>3. CASE CemTimeout
  BY <1>0, <1>3, NothingAsked DEF CemTimeout
<1>4. CASE SelectControlType
  <2>1. PICK selection \in CemSelections :
          /\ Send("CEM", "SelectControlType", selection)
          /\ selecting' = {[id |-> NextId("CEM"), selection |-> selection]}
    BY <1>4 DEF SelectControlType
  <2>2. "SelectControlType" \in Kinds /\ selection \in Args /\ selection \in Selections
    BY KindFacts, CemAssumption DEF StandingKinds, Args
  <2> DEFINE m == Msg("SelectControlType", NextId("CEM"), selection)
  <2>3. m \in Good /\ Emit("CEM", <<m>>) /\ Negotiated("CEM")
    BY <1>0, <2>1, <2>2, SentIsGood DEF HandshakeKinds
  <2>4. Chooses
    <3>1. minted'["CEM"] = minted["CEM"] + 1
      BY <1>0, <2>1 DEF Send, Transmit, Typed
    <3> QED BY <1>4, <2>1, <2>2, <2>3, <3>1 DEF SelectControlType, Chooses, Keeps
  <2>5. Topic("CEM", m)
    BY <2>1, <2>4 DEF Topic, Msg
  <2> HIDE DEF m
  <2> QED BY <1>0, <2>3, <2>5, OneAsked
<1>5. CASE Instruct
  <2> DEFINE arg == IF selecting = {} THEN NoArg ELSE Racing
  <2>1. PICK kind \in CemKinds : Send("CEM", kind, arg)
    BY <1>5 DEF Instruct
  <2>2. /\ kind \in Kinds /\ arg \in Args /\ kind \notin HandshakeKinds
        /\ kind \notin SpecialKinds /\ kind # "ReceptionStatus"
    BY CemAssumption DEF CemProcessed, HandshakeKinds, SpecialKinds, Args
  <2>3. /\ Msg(kind, NextId("CEM"), arg) \in Good /\ Emit("CEM", <<Msg(kind, NextId("CEM"), arg)>>)
        /\ Negotiated("CEM") /\ Allowed(Phase("CEM"), "CEM", kind)
    BY <1>0, <2>1, <2>2, SentIsGood DEF SpecialKinds
  <2>4. Keeps("CEM") /\ selecting' = selecting
    BY <1>5 DEF Instruct, Keeps
  <2>5. Topic("CEM", Msg(kind, NextId("CEM"), arg))
    BY <1>5, <2>2, <2>3, <2>4 DEF Instruct, Topic, Msg
  <2> QED BY <1>0, <2>3, <2>5, OneAsked
<1> QED BY <1>1, <1>2, <1>3, <1>4, <1>5 DEF Cem

LEMMA EitherAsksAbout ==
  ASSUME Inv, NEW r \in Roles, Either(r), Moved(r)
  PROVE  AsksAbout(r)
<1>0. Typed
  BY DEF Inv
<1>1. CASE RequestSession(r)
  <2>1. PICK request \in SessionRequests : Send(r, "SessionRequest", request)
    BY <1>1 DEF RequestSession
  <2>2. "SessionRequest" \in Kinds /\ request \in Args
    BY KindFacts DEF SharedKinds, Args
  <2> DEFINE m == Msg("SessionRequest", NextId(r), request)
  <2>3. m \in Good /\ Emit(r, <<m>>)
    BY <2>1, <2>2, SentIsGood DEF HandshakeKinds
  <2>4. Topic(r, m)
    BY <1>0, <1>1 DEF RequestSession, Close, Topic, Msg, Typed
  <2> HIDE DEF m
  <2> QED BY <1>0, <2>3, <2>4, OneAsked
<1>2. CASE CloseLocally(r) \/ TransportClosed(r) \/ Redeliver(r)
  BY <1>0, <1>2, NothingAsked DEF CloseLocally, TransportClosed, Redeliver
<1> QED BY <1>1, <1>2 DEF Either

-----------------------------------------------------------------------------
(* Every step, seen from the side that takes it. *)

Course(r) == IF r = "RM" THEN RmCourse ELSE CemCourse

Step(r) ==
  /\ Moved(r) /\ AsksAbout(r) /\ Course(r)
  /\ up' => up

LEMMA EverythingSteps ==
  ASSUME Inv, Truthful, [Next]_vars
  PROVE  \E r \in Roles : Step(r)
<1>0. Typed /\ "RM" \in Roles /\ "CEM" \in Roles
  BY RolesFacts DEF Inv
<1>1. ASSUME UNCHANGED <<minted, answered, state, reason, selecting>>, \A q \in Roles : On(q)' \subseteq On(q), up' => up
      PROVE  Step("RM")
  <2>1. Moved("RM")
    BY <1>0, <1>1, QuietMoves
  <2>2. AsksAbout("RM")
    BY <1>0, <1>1, <2>1, NothingAsked
  <2>3. Course("RM")
    BY <1>1 DEF Course, RmCourse, Keeps
  <2> QED BY <1>1, <2>1, <2>2, <2>3 DEF Step
<1>2. CASE UNCHANGED vars
  BY <1>0, <1>1, <1>2 DEF vars, On
<1>3. CASE Rm
  BY <1>0, <1>3, RmTurn, TurnMoves, RmAsksAbout, RmTakesCourse DEF Step, Course, Turn
<1>4. CASE Cem
  BY <1>0, <1>4, CemTurn, TurnMoves, CemAsksAbout, CemTakesCourse DEF Step, Course, Turn
<1>5. CASE Disconnect
  BY <1>0, <1>1, <1>5, CutOn DEF Disconnect
<1>6. ASSUME NEW r \in Roles, Either(r) PROVE \E q \in Roles : Step(q)
  <2>1. CASE Redeliver(r)
    BY <1>0, <1>1, <2>1, CopyOn DEF Redeliver
  <2>2. CASE ~Redeliver(r)
    <3>1. Turn(r)
      BY <1>6, <2>2, EitherTurn
    <3>2. Moved(r) /\ AsksAbout(r)
      BY <1>0, <1>6, <3>1, TurnMoves, EitherAsksAbout
    <3>3. Keeps(Peer(r)) /\ selecting' = selecting /\ (Keeps(r) \/ Ends(r))
      BY <1>0, <1>6, EitherTakesCourse
    <3>4. Course(r)
      BY <3>3 DEF Course, RmCourse, CemCourse, Roles, Peer
    <3> QED BY <3>1, <3>2, <3>4 DEF Step, Turn
  <2> QED BY <2>1, <2>2
<1> QED BY <1>2, <1>3, <1>4, <1>5, <1>6 DEF Next, Ended


-----------------------------------------------------------------------------
(***************************************************************************)
(* Reasons.                                                                *)
(***************************************************************************)
\* A session that closed says why, and a request to end it comes from a side that closed.
Closing ==
  /\ \A r \in Roles : IsClosed(r) <=> reason[r] # "Open"
  /\ \A r \in Roles : \A m \in On(r) : m.kind = "SessionRequest" => reason[Peer(r)] = "LocallyRequested"

\* A selection on its way or awaited leads to a state of an open session.
LEMMA SelectedIsOpen ==
  ASSUME NEW selection \in Selections
  PROVE  SelectedState(selection) \notin {"Idle", "Handshaking", "Closed"}
BY DEF SelectedState, Selections, ControlTypes

LEMMA OnIsGood ==
  ASSUME Typed, NEW r \in Roles, NEW m \in On(r)
  PROVE  m \in Good
<1>1. Range(net[r]) \subseteq Good
  BY RangeOfSeq DEF Typed
<1> QED BY <1>1 DEF On

\* The side that steps keeps its state, closes, or moves on without closing.
LEMMA StateMoves ==
  ASSUME Typed, NEW r \in Roles, Step(r)
  PROVE  /\ Keeps(Peer(r))
         /\ \/ Keeps(r) \/ Ends(r)
            \/ ~IsClosed(r) /\ state'[r] # "Closed" /\ reason'[r] = reason[r]
<1>0. Peer("RM") = "CEM" /\ Peer("CEM") = "RM" /\ (r = "RM" \/ r = "CEM")
  BY DEF Peer, Roles
<1>1. CASE r = "RM"
  <2>1. RmCourse
    BY <1>1 DEF Step, Course
  <2>2. CASE FollowsSelection
    <3>1. PICK m : /\ Accepts("RM", m) /\ m.kind = "SelectControlType"
                   /\ state'["RM"] = SelectedState(m.arg) /\ reason'["RM"] = reason["RM"]
      BY <2>2 DEF FollowsSelection
    <3>2. m.arg \in Selections /\ ~IsClosed("RM")
      BY <1>1, <3>1, OnIsGood DEF Accepts, Fresh, Good
    <3> QED BY <1>0, <1>1, <2>1, <3>1, <3>2, SelectedIsOpen DEF RmCourse
  <2>3. CASE Opens("RM") \/ Agrees("RM")
    BY <1>0, <1>1, <2>1, <2>3 DEF RmCourse, Opens, Agrees, Accepts, Fresh, IsClosed
  <2> QED BY <1>0, <1>1, <2>1, <2>2, <2>3 DEF RmCourse
<1>2. CASE r = "CEM"
  <2>1. CemCourse
    BY <1>2 DEF Step, Course
  <2>2. ASSUME NEW m, HearsOf(m), ~Ends("CEM"), ~Keeps("CEM")
        PROVE  ~IsClosed("CEM") /\ state'["CEM"] # "Closed" /\ reason'["CEM"] = reason["CEM"]
    <3>1. PICK s \in selecting : state'["CEM"] = SelectedState(s.selection)
      BY <2>2 DEF HearsOf
    <3>2. s.selection \in Selections
      BY <3>1 DEF Typed
    <3> QED BY <2>2, <3>1, <3>2, SelectedIsOpen DEF HearsOf
  <2>3. CASE Opens("CEM") \/ Agrees("CEM")
    BY <1>0, <1>2, <2>1, <2>3 DEF CemCourse, Opens, Agrees, Accepts, Fresh, IsClosed, Chooses, HearsOf
  <2> QED BY <1>0, <1>2, <2>1, <2>2, <2>3 DEF CemCourse, Chooses
<1> QED BY <1>0, <1>1, <1>2

LEMMA ClosingStays ==
  ASSUME Typed, Closing, NEW r \in Roles, Step(r)
  PROVE  Closing'
<1>0. Peer(r) \in Roles /\ Peer(Peer(r)) = r /\ \A q \in Roles : q = r \/ q = Peer(r)
  BY PeerFacts DEF Peer, Roles
<1>1. /\ Keeps(Peer(r))
      /\ \/ Keeps(r) \/ Ends(r)
         \/ ~IsClosed(r) /\ state'[r] # "Closed" /\ reason'[r] = reason[r]
  BY StateMoves
<1>2. Ends(r) => reason'[r] # "Open"
  BY DEF Ends, Cause
<1>3. \A q \in Roles : (IsClosed(q))' <=> reason'[q] # "Open"
  BY <1>0, <1>1, <1>2 DEF Closing, Keeps, Ends, IsClosed
<1>4. \A q \in Roles : reason[q] # "Open" => reason'[q] = reason[q]
  BY <1>0, <1>1 DEF Closing, Keeps, Ends
<1>5. ASSUME NEW m \in On(r)', m.kind = "SessionRequest" PROVE reason'[Peer(r)] = "LocallyRequested"
  BY <1>0, <1>4, <1>5 DEF Step, Moved, Closing
<1>6. ASSUME NEW m \in On(Peer(r))', m.kind = "SessionRequest" PROVE reason'[r] = "LocallyRequested"
  <2>1. CASE m \in On(Peer(r))
    BY <1>0, <1>4, <1>6, <2>1 DEF Closing
  <2>2. CASE m \notin On(Peer(r))
    <3>1. Topic(r, m)
      BY <1>6, <2>2 DEF Step, AsksAbout, Asks
    <3> QED BY <1>6, <3>1 DEF Topic, SpecialKinds
  <2> QED BY <2>1, <2>2
<1>7. \A q \in Roles : \A m \in On(q)' : m.kind = "SessionRequest" => reason'[Peer(q)] = "LocallyRequested"
  BY <1>0, <1>5, <1>6
<1> QED BY <1>3, <1>7 DEF Closing

\* What ReasonsAreTrue says of one side.
ReasonIsTrue(r) ==
  /\ reason[r] = "PeerRequested" => reason[Peer(r)] = "LocallyRequested"
  /\ reason[r] = "PermanentError" => \E a \in answered[Peer(r)] : a.status = "PERMANENT_ERROR"
  /\ reason[r] = "TransportClosed" => ~up \/ IsClosed(Peer(r))
  /\ reason[r] = "ProtocolError" =>
       /\ OutOfOrder[r] = "Close"
       /\ \E a \in answered[r] : a.status = "INVALID_CONTENT"

LEMMA ReasonsStay ==
  ASSUME Typed, Truthful, Closing, ReasonsAreTrue, NEW r \in Roles, Step(r)
  PROVE  ReasonsAreTrue'
<1>0. Peer(r) \in Roles /\ Peer(Peer(r)) = r /\ \A q \in Roles : q = r \/ q = Peer(r)
  BY PeerFacts DEF Peer, Roles
<1>1. /\ Keeps(Peer(r))
      /\ \/ Keeps(r) \/ Ends(r)
         \/ ~IsClosed(r) /\ state'[r] # "Closed" /\ reason'[r] = reason[r]
  BY StateMoves
<1>2. \A q \in Roles : reason[q] # "Open" => reason'[q] = reason[q]
  BY <1>0, <1>1 DEF Closing, Keeps, Ends
<1>3. \A q \in Roles : IsClosed(q) => (IsClosed(q))'
  BY <1>0, <1>1 DEF Keeps, Ends, IsClosed
<1>4. \A q \in Roles : answered[q] \subseteq answered'[q]
  BY <1>0 DEF Step, Moved
<1>5. up' => up
  BY DEF Step
<1>6. ASSUME NEW q \in Roles, reason'[q] = reason[q] PROVE ReasonIsTrue(q)'
  <2>1. Peer(q) \in Roles
    BY PeerFacts
  <2>2. reason[Peer(q)] = "LocallyRequested" => reason'[Peer(q)] = "LocallyRequested"
    BY <1>2, <2>1
  <2>3. IsClosed(Peer(q)) => (IsClosed(Peer(q)))'
    BY <1>3, <2>1
  <2> QED BY <1>4, <1>5, <1>6, <2>1, <2>2, <2>3 DEF ReasonsAreTrue, ReasonIsTrue
<1>7. ASSUME Ends(r) PROVE ReasonIsTrue(r)'
  <2>1. Cause(r, reason'[r])
    BY <1>7 DEF Ends
  <2>2. reason'[r] = "PeerRequested" => reason'[Peer(r)] = "LocallyRequested"
    <3>1. SUFFICES ASSUME reason'[r] = "PeerRequested" PROVE reason'[Peer(r)] = "LocallyRequested"
      OBVIOUS
    <3>2. \E m \in On(r) : m.kind = "SessionRequest"
      BY <2>1, <3>1 DEF Cause
    <3> QED BY <1>0, <1>2, <3>2 DEF Closing
  <2>3. reason'[r] = "PermanentError" => \E a \in answered'[Peer(r)] : a.status = "PERMANENT_ERROR"
    <3>1. SUFFICES ASSUME reason'[r] = "PermanentError"
                   PROVE  \E a \in answered'[Peer(r)] : a.status = "PERMANENT_ERROR"
      OBVIOUS
    <3>2. PICK m \in On(r) : ~Asks(m) /\ m.arg = "PERMANENT_ERROR"
      BY <2>1, <3>1 DEF Cause
    <3>3. [id |-> m.id, status |-> m.arg] \in answered'[Peer(r)]
      BY <1>0, <1>4, <3>2 DEF Truthful
    <3> QED BY <3>2, <3>3
  <2>4. reason'[r] = "TransportClosed" => ~up' \/ (IsClosed(Peer(r)))'
    BY <1>0, <1>3, <1>5, <2>1 DEF Cause
  <2>5. reason'[r] = "ProtocolError" =>
           /\ OutOfOrder[r] = "Close"
           /\ \E a \in answered'[r] : a.status = "INVALID_CONTENT"
    BY <2>1 DEF Cause
  <2> QED BY <2>2, <2>3, <2>4, <2>5 DEF ReasonIsTrue
<1>8. \A q \in Roles : ReasonIsTrue(q)'
  BY <1>0, <1>1, <1>6, <1>7 DEF Keeps
<1> QED BY <1>8 DEF ReasonsAreTrue, ReasonIsTrue

\* What holds of what both sides have said, whatever the application does.
Exchange == Numbered /\ Truthful /\ Closing /\ ReasonsAreTrue

LEMMA InitExchange == Init => Exchange
<1> SUFFICES ASSUME Init PROVE Exchange
  OBVIOUS
<1>1. \A r \in Roles : On(r) = {}
  BY EmptyRange DEF Init, On
<1>2. \A r \in Roles : Peer(r) \in Roles
  BY PeerFacts
<1> QED BY <1>1, <1>2 DEF Init, Exchange, Numbered, Truthful, Closing, ReasonsAreTrue, IsClosed

LEMMA NextExchange == Inv /\ Exchange /\ [Next]_vars => Exchange'
<1> SUFFICES ASSUME Inv, Exchange, [Next]_vars PROVE Exchange'
  OBVIOUS
<1>1. Typed /\ Numbered /\ Truthful /\ Closing /\ ReasonsAreTrue
  BY DEF Inv, Exchange
<1>2. PICK r \in Roles : Step(r)
  BY <1>1, EverythingSteps
<1>3. Moved(r)
  BY <1>2 DEF Step
<1> QED BY <1>1, <1>2, <1>3, NumberedStays, TruthfulStays, ClosingStays, ReasonsStay DEF Exchange

LEMMA AlwaysExchange == Spec => []Exchange
  BY InitExchange, NextExchange, Invariance, PTL DEF Spec

(***************************************************************************)
(* A reason names what happened at the other side: only a peer that asked  *)
(* to end the session is said to have, a permanent error is an answer the  *)
(* peer gave, and a transport that closed had failed or been closed.       *)
(***************************************************************************)
THEOREM ReasonsHold == Spec => []ReasonsAreTrue
<1>1. Exchange => ReasonsAreTrue
  BY DEF Exchange
<1> QED BY <1>1, AlwaysExchange, PTL

-----------------------------------------------------------------------------
(***************************************************************************)
(* Acknowledgements.                                                       *)
(***************************************************************************)
\* Nothing on its way is a frame the receiver cannot read.
Readable == \A r \in Roles : \A m \in On(r) : m.arg # Oversized

\* NoForgottenAck, of what is on its way instead of where it is.
Accounted ==
  \A r \in Roles : up /\ ~IsClosed(r) /\ ~IsClosed(Peer(r)) =>
    \A id \in pending[r] :
      \/ \E m \in On(Peer(r)) : m.id = id /\ Asks(m)
      \/ \E m \in On(r) : m.id = id /\ ~Asks(m)

LEMMA AccountedIsNotForgotten == Accounted => NoForgottenAck
BY DEF Accounted, NoForgottenAck, On, Range, Asks

LEMMA ReadableStays ==
  ASSUME Typed, Typed', Truthful', Readable, Oversized \notin Frames, NEW r \in Roles, Step(r)
  PROVE  Readable'
<1>0. Peer(r) \in Roles /\ Peer(Peer(r)) = r /\ \A q \in Roles : q = r \/ q = Peer(r)
  BY PeerFacts DEF Peer, Roles
<1>1. ASSUME NEW m \in On(r)' PROVE m.arg # Oversized
  BY <1>1 DEF Readable, Step, Moved
<1>2. ASSUME NEW m \in On(Peer(r))' PROVE m.arg # Oversized
  <2>1. CASE m \in On(Peer(r))
    BY <1>0, <2>1 DEF Readable
  <2>2. CASE ~Asks(m)
    <3>1. [id |-> m.id, status |-> m.arg] \in answered'[r]
      BY <1>0, <1>2, <2>2 DEF Truthful
    <3>2. m.arg \in Statuses
      BY <3>1 DEF Typed
    <3> QED BY <3>2 DEF Statuses, Oversized
  <2>3. CASE m \notin On(Peer(r)) /\ Asks(m)
    <3>1. Topic(r, m)
      BY <1>2, <2>3 DEF Step, AsksAbout
    <3>2. m \in Good
      <4>1. net'[Peer(r)] \in Seq(Good)
        BY <1>0 DEF Typed
      <4> QED BY <1>2, <4>1, RangeOfSeq DEF On
    <3>3. m.kind = "ResourceManagerDetails" => m.arg # Oversized
      BY <3>2, ConfigAssumption DEF Good
    <3>4. m.kind = "SelectControlType" => m.arg # Oversized
      BY <3>2 DEF Good, Selections, ControlTypes, Oversized
    <3>5. m.kind = "HandshakeResponse" => m.arg # Oversized
      BY <3>2 DEF Good, WireProfile, Oversized, NoProfile
    <3>6. m.arg \in SessionRequests \cup {NoArg, Racing} \cup Frames => m.arg # Oversized
      BY DEF SessionRequests, NoArg, Racing, Oversized
    <3> QED BY <1>0, <3>1, <3>3, <3>4, <3>5, <3>6 DEF Topic, Roles
  <2> QED BY <2>1, <2>2, <2>3
<1> QED BY <1>0, <1>1, <1>2 DEF Readable

\* While the connection holds, a step loses nothing: what it takes is settled or answered.
LEMMA TurnKeepsTrack ==
  ASSUME Typed, NEW r \in Roles, Turn(r), up, Readable
  PROVE  /\ On(Peer(r)) \subseteq On(Peer(r))'
         /\ \A m \in On(r) :
              \/ m \in On(r)'
              \/ IsClosed(r)
              \/ ~Asks(m) /\ m.id \notin pending'[r]
              \/ Asks(m) /\ \E n \in On(Peer(r))' : ~Asks(n) /\ n.id = m.id
         /\ \A id \in pending'[r] : id \in pending[r] \/ \E n \in On(Peer(r))' : Asks(n) /\ n.id = id
         /\ pending'[Peer(r)] = pending[Peer(r)]
<1>0. Peer(r) \in Roles /\ Peer(r) # r /\ pending \in [Roles -> SUBSET Ids]
  BY PeerFacts DEF Typed
<1>1. ASSUME NEW m, Transmit(r), Question(r, m), m \in On(Peer(r))'
      PROVE  /\ \A id \in pending'[r] : id \in pending[r] \/ \E n \in On(Peer(r))' : Asks(n) /\ n.id = id
             /\ pending'[Peer(r)] = pending[Peer(r)]
  BY <1>0, <1>1 DEF Transmit, Question
<1>2. ASSUME NEW m, AsksNew(r, m)
      PROVE  On(Peer(r)) \subseteq On(Peer(r))' /\ On(r)' = On(r) /\ m \in On(Peer(r))'
  <2>1. <<m>> \in Seq(Good) /\ Range(<<m>>) = {m}
    BY <1>2, SingleRange DEF AsksNew, Question
  <2> QED BY <1>2, <2>1, EmittingAdds DEF AsksNew
<1>3. ASSUME NEW a, NEW out, AnswersFirst(r, a, out)
      PROVE  /\ On(Peer(r)) \subseteq On(Peer(r))'
             /\ \A m \in On(r) : m \in On(r)' \/ \E n \in On(Peer(r))' : ~Asks(n) /\ n.id = m.id /\ Asks(m)
             /\ \/ UNCHANGED pending
                \/ Transmit(r) /\ \E m \in On(Peer(r))' : Question(r, m)
  <2> DEFINE ack == ReceptionStatus(a.id, a.status)
             h == Head(net[r])
  <2>1. net[r] # <<>> /\ Consume(r, out) /\ a \in Remembered /\ Asks(h)
    BY <1>3 DEF AnswersFirst
  <2>2. h \in On(r) /\ h.arg # Oversized
    BY <2>1, HeadIsOn DEF Readable
  <2>3. a.id = h.id
    BY <1>3, <2>2 DEF AnswersFirst
  <2>4. ack \in Good /\ ~Asks(ack) /\ ack.id = h.id
    <3>1. a.id \in Ids /\ a.status \in Statuses
      BY <2>1 DEF Remembered
    <3>2. ack \in Good
      BY <3>1, AnswerIsGood
    <3> QED BY <2>3, <3>2 DEF ReceptionStatus, Msg, Asks
  <2>5. \/ out = <<ack>> /\ UNCHANGED pending
        \/ \E m : Question(r, m) /\ Transmit(r) /\ out = <<ack>> \o <<m>>
    BY <1>3 DEF AnswersFirst
  <2> HIDE DEF ack, h
  <2>6. /\ out \in Seq(Good) /\ ack \in Range(out)
        /\ \/ UNCHANGED pending
           \/ Transmit(r) /\ \E m \in Range(out) : Question(r, m)
    <3>1. CASE out = <<ack>> /\ UNCHANGED pending
      BY <2>4, <3>1, SingleRange
    <3>2. ASSUME NEW m, Question(r, m), Transmit(r), out = <<ack>> \o <<m>>
          PROVE  out \in Seq(Good) /\ ack \in Range(out) /\ m \in Range(out)
      BY <2>4, <3>2, PairRange, TwoOut DEF Question
    <3> QED BY <2>5, <3>1, <3>2
  <2>7. /\ On(r) \subseteq On(r)' \cup {h}
        /\ On(Peer(r)) \subseteq On(Peer(r))'
        /\ Range(out) \subseteq On(Peer(r))'
    BY <2>1, <2>6, ConsumingMoves DEF h
  <2>8. \A m \in On(r) : m \in On(r)' \/ \E n \in On(Peer(r))' : ~Asks(n) /\ n.id = m.id /\ Asks(m)
    BY <2>1, <2>4, <2>6, <2>7
  <2> QED BY <2>6, <2>7, <2>8
<1>4. CASE TakesFirst(r)
  <2> DEFINE h == Head(net[r])
  <2>1. net[r] # <<>> /\ Consume(r, <<>>) /\ (IsClosed(r) \/ ~Asks(h))
    BY <1>4 DEF TakesFirst
  <2>2. On(r) \subseteq On(r)' \cup {h} /\ On(Peer(r)) \subseteq On(Peer(r))'
    BY <2>1, EmptyOut, ConsumingMoves
  <2>3. \/ IsClosed(r) /\ pending' = pending
        \/ pending'[r] = pending[r] \ {h.id} /\ pending'[Peer(r)] = pending[Peer(r)]
    BY <1>0, <1>4 DEF TakesFirst
  <2> QED BY <2>1, <2>2, <2>3
<1>5. CASE LeavesQueues(r)
  <2>1. On(r)' = On(r) /\ On(Peer(r))' = On(Peer(r))
    BY <1>5 DEF LeavesQueues, On
  <2>2. pending'[r] \subseteq pending[r] /\ pending'[Peer(r)] = pending[Peer(r)]
    BY <1>0, <1>5 DEF LeavesQueues
  <2> QED BY <2>1, <2>2
<1>6. ASSUME NEW m, AsksNew(r, m)
      PROVE  Transmit(r) /\ Question(r, m)
  BY <1>6 DEF AsksNew
<1>7. CASE \E m : AsksNew(r, m)
  BY <1>1, <1>2, <1>6, <1>7
<1>8. CASE \E a, out : AnswersFirst(r, a, out)
  <2>1. /\ On(Peer(r)) \subseteq On(Peer(r))'
        /\ \A m \in On(r) : m \in On(r)' \/ \E n \in On(Peer(r))' : ~Asks(n) /\ n.id = m.id /\ Asks(m)
        /\ \/ UNCHANGED pending
           \/ Transmit(r) /\ \E m \in On(Peer(r))' : Question(r, m)
    BY <1>3, <1>8
  <2> QED BY <1>1, <2>1
<1> QED BY <1>4, <1>5, <1>7, <1>8 DEF Turn

LEMMA AccountedStays ==
  ASSUME Inv, Exchange, Readable, Accounted, [Next]_vars
  PROVE  Accounted'
<1>0. Typed /\ Truthful /\ "RM" \in Roles /\ "CEM" \in Roles
  BY RolesFacts DEF Inv, Exchange
<1>1. \A q \in Roles : IsClosed(q) => (IsClosed(q))'
  BY NextIsFinal DEF Final, IsClosed
<1>2. ASSUME NEW r \in Roles, Turn(r) PROVE Accounted'
  <2>0. Peer(r) \in Roles /\ Peer(Peer(r)) = r /\ \A q \in Roles : q = r \/ q = Peer(r)
    BY PeerFacts DEF Peer, Roles
  <2> SUFFICES ASSUME up, ~IsClosed(r), ~IsClosed(Peer(r))
               PROVE  /\ \A id \in pending'[r] :
                           \/ \E m \in On(Peer(r))' : m.id = id /\ Asks(m)
                           \/ \E m \in On(r)' : m.id = id /\ ~Asks(m)
                      /\ \A id \in pending'[Peer(r)] :
                           \/ \E m \in On(r)' : m.id = id /\ Asks(m)
                           \/ \E m \in On(Peer(r))' : m.id = id /\ ~Asks(m)
    <3>1. up' = up
      BY <1>2 DEF Turn
    <3>2. up' /\ ~(IsClosed(r))' => up /\ ~IsClosed(r)
      BY <1>1, <3>1
    <3>3. ~(IsClosed(Peer(r)))' => ~IsClosed(Peer(r))
      BY <1>1, <2>0
    <3> QED BY <2>0, <3>1, <3>2, <3>3 DEF Accounted
  <2>1. /\ On(Peer(r)) \subseteq On(Peer(r))'
        /\ \A m \in On(r) :
             \/ m \in On(r)'
             \/ ~Asks(m) /\ m.id \notin pending'[r]
             \/ Asks(m) /\ \E n \in On(Peer(r))' : ~Asks(n) /\ n.id = m.id
        /\ \A id \in pending'[r] : id \in pending[r] \/ \E n \in On(Peer(r))' : Asks(n) /\ n.id = id
        /\ pending'[Peer(r)] = pending[Peer(r)]
    BY <1>0, <1>2, TurnKeepsTrack
  <2>2. \A id \in pending[r] :
           (\E m \in On(Peer(r)) : m.id = id /\ Asks(m)) \/ (\E m \in On(r) : m.id = id /\ ~Asks(m))
    BY DEF Accounted
  <2>3. \A id \in pending[Peer(r)] :
           (\E m \in On(r) : m.id = id /\ Asks(m)) \/ (\E m \in On(Peer(r)) : m.id = id /\ ~Asks(m))
    BY <2>0 DEF Accounted
  <2>4. ASSUME NEW id \in pending'[r]
        PROVE  (\E m \in On(Peer(r))' : m.id = id /\ Asks(m)) \/ (\E m \in On(r)' : m.id = id /\ ~Asks(m))
    BY <2>1, <2>2
  <2>5. ASSUME NEW id \in pending'[Peer(r)]
        PROVE  (\E m \in On(r)' : m.id = id /\ Asks(m)) \/ (\E m \in On(Peer(r))' : m.id = id /\ ~Asks(m))
    BY <2>1, <2>3
  <2> QED BY <2>4, <2>5
<1>3. ASSUME UNCHANGED <<state, pending>>, up' => up, \A q \in Roles : On(q)' = On(q) PROVE Accounted'
  BY <1>3, PeerFacts DEF Accounted, IsClosed
<1>4. CASE UNCHANGED vars
  BY <1>3, <1>4 DEF vars, On
<1>5. CASE Disconnect
  BY <1>5 DEF Disconnect, Accounted
<1>6. ASSUME NEW r \in Roles, Either(r) PROVE Accounted'
  <2>1. CASE Redeliver(r)
    BY <1>0, <1>3, <2>1, CopyOn DEF Redeliver
  <2> QED BY <1>2, <1>6, <2>1, EitherTurn
<1> QED BY <1>0, <1>2, <1>4, <1>5, <1>6, RmTurn, CemTurn DEF Next, Ended

(***************************************************************************)
(* No acknowledgement is forgotten: while the connection holds and both    *)
(* sides are open, whatever one waits for is on its way to the other, or   *)
(* its answer is on its way back.  A frame the receiver cannot read at all *)
(* is answered without naming it, so the applications send none.           *)
(***************************************************************************)
THEOREM NothingIsForgotten ==
  ASSUME Oversized \notin Frames
  PROVE  Spec => []NoForgottenAck
<1>1. Init => Readable /\ Accounted
  <2> SUFFICES ASSUME Init PROVE Readable /\ Accounted
    OBVIOUS
  <2>1. \A r \in Roles : On(r) = {} /\ pending[r] = {}
    BY EmptyRange DEF Init, On
  <2> QED BY <2>1 DEF Readable, Accounted
<1>2. Inv /\ Inv' /\ Exchange /\ Exchange' /\ Readable /\ Accounted /\ [Next]_vars => Readable' /\ Accounted'
  <2> SUFFICES ASSUME Inv, Inv', Exchange, Exchange', Readable, Accounted, [Next]_vars
               PROVE  Readable' /\ Accounted'
    OBVIOUS
  <2>1. Typed /\ Typed' /\ Truthful /\ Truthful'
    BY DEF Inv, Exchange
  <2>2. PICK r \in Roles : Step(r)
    BY <2>1, EverythingSteps
  <2> QED BY <2>1, <2>2, ReadableStays, AccountedStays
<1>3. Accounted => NoForgottenAck
  BY AccountedIsNotForgotten
<1> QED BY <1>1, <1>2, <1>3, Invariance, AlwaysExchange, PTL DEF Spec

-----------------------------------------------------------------------------
(***************************************************************************)
(* The handshake, which happens once: the resource asks, the manager       *)
(* chooses, the resource follows.                                          *)
(***************************************************************************)
\* Only one question of the handshake is ever on its way in each direction, to a side that
\* has not answered it as long as that side has not agreed.
Shaking ==
  /\ \A m, n \in On("CEM") : m.kind = "Handshake" /\ n.kind = "Handshake" => m.id = n.id
  /\ \A m, n \in On("RM") : m.kind = "HandshakeResponse" /\ n.kind = "HandshakeResponse" => m.id = n.id
  /\ state["RM"] = "Idle" => \A m \in On("CEM") : m.kind # "Handshake"
  /\ state["RM"] = "Idle" /\ Negotiation = "Handshake" => ~Negotiated("CEM")
  /\ Negotiated("CEM") => \A m \in On("CEM") : m.kind = "Handshake" => HasAnswered("CEM", m.id)
  /\ state["CEM"] \in Before => \A m \in On("RM") : m.kind # "HandshakeResponse"
  /\ state["CEM"] \in Before /\ Negotiation = "Handshake" => ~Negotiated("RM")
  /\ Negotiated("RM") => \A m \in On("RM") : m.kind = "HandshakeResponse" => HasAnswered("RM", m.id)

\* A session that is open is before the handshake's end or past it.
LEMMA OpenIsEither ==
  ASSUME Typed, NEW r \in Roles
  PROVE  /\ ~IsClosed(r) => Negotiated(r) \/ state[r] \in Before
         /\ state[r] \in Before => ~Negotiated(r) /\ ~IsClosed(r)
BY DEF IsClosed, Negotiated, Before

\* A selection is accepted past the handshake only.
LEMMA SelectionIsLate ==
  ASSUME Typed, NEW r \in Roles, NEW m, Accepts(r, m), m.kind = "SelectControlType"
  PROVE  Negotiated(r) /\ m.arg \in Selections /\ Asks(m)
<1>1. ~IsClosed(r) /\ Allowed(Phase(r), Peer(r), m.kind) /\ Asks(m)
  BY DEF Accepts, Fresh, Valid, OutOfPlace, Asks
<1>2. Phase(r) # "Negotiating"
  BY <1>1 DEF Allowed, AllowedInPhase, HandshakeKinds, StandingKinds, Activated, ControlTypes
<1>3. Negotiated(r)
  BY <1>1, <1>2 DEF Phase, Negotiated, IsClosed
<1>4. m \in Good
  BY OnIsGood DEF Accepts
<1> QED BY <1>1, <1>3, <1>4 DEF Good

\* The resource's side of the handshake.
LEMMA RmShakes ==
  ASSUME Typed, Typed', Shaking, Step("RM")
  PROVE  Shaking'
<1>0. "RM" \in Roles /\ "CEM" \in Roles /\ Peer("RM") = "CEM" /\ Peer("CEM") = "RM"
  BY RolesFacts DEF Peer
<1>1. /\ On("RM")' \subseteq On("RM") /\ answered'["CEM"] = answered["CEM"]
      /\ answered["RM"] \subseteq answered'["RM"] /\ state'["CEM"] = state["CEM"]
  BY <1>0 DEF Step, Moved, Course, RmCourse, Keeps
<1>2. /\ (Negotiated("CEM"))' <=> Negotiated("CEM")
      /\ \A id : (HasAnswered("CEM", id))' <=> HasAnswered("CEM", id)
      /\ \A id : HasAnswered("RM", id) => (HasAnswered("RM", id))'
  BY <1>1 DEF Negotiated, HasAnswered
<1>3. ASSUME NEW m \in On("CEM")', m.kind = "Handshake", m \notin On("CEM")
      PROVE  /\ state["RM"] = "Idle" /\ state'["RM"] = "Handshaking" /\ Negotiation = "Handshake"
             /\ IsNew("RM", m)
  <2>1. Topic("RM", m) /\ IsNew("RM", m)
    BY <1>0, <1>3 DEF Step, Moved, AsksAbout, Asks
  <2> QED BY <1>3, <2>1 DEF Topic, SpecialKinds, Opens
<1>4. ASSUME NEW m \in On("RM"), m.kind = "HandshakeResponse" PROVE Negotiation = "Handshake"
  BY <1>0, <1>4, OnIsGood DEF Good, HandshakeKinds
<1>5. ASSUME NEW m \in On("CEM")', NEW n \in On("CEM")', m.kind = "Handshake", n.kind = "Handshake"
      PROVE  m.id = n.id
  <2>1. CASE m \in On("CEM") /\ n \in On("CEM")
    BY <1>5, <2>1 DEF Shaking
  <2>2. CASE m \notin On("CEM") \/ n \notin On("CEM")
    <3>1. state["RM"] = "Idle"
      BY <1>3, <1>5, <2>2
    <3>2. m \notin On("CEM") /\ n \notin On("CEM")
      BY <1>5, <3>1 DEF Shaking
    <3>3. IsNew("RM", m) /\ IsNew("RM", n)
      BY <1>3, <1>5, <3>2
    <3> QED BY <3>3 DEF IsNew, Question
  <2> QED BY <2>1, <2>2
<1>6. state'["RM"] = "Idle" => state["RM"] = "Idle"
  <2>1. state["RM"] # "Idle" /\ FollowsSelection => state'["RM"] # "Idle"
    <3> SUFFICES ASSUME FollowsSelection PROVE state'["RM"] # "Idle"
      OBVIOUS
    <3>1. PICK m : Accepts("RM", m) /\ m.kind = "SelectControlType" /\ state'["RM"] = SelectedState(m.arg)
      BY DEF FollowsSelection
    <3> QED BY <1>0, <3>1, SelectionIsLate, SelectedIsOpen
  <2> QED BY <2>1 DEF Step, Course, RmCourse, Keeps, Ends, Opens, Agrees
<1>7. state'["RM"] = "Idle" => \A m \in On("CEM")' : m.kind # "Handshake"
  BY <1>3, <1>6 DEF Shaking
<1>8. Negotiated("CEM") => \A m \in On("CEM")' : m.kind = "Handshake" => HasAnswered("CEM", m.id)
  BY <1>3 DEF Shaking
<1>9. (Negotiated("RM"))' =>
         \/ Negotiated("RM") \/ Negotiation # "Handshake"
         \/ \E m : Accepts("RM", m) /\ m.kind = "HandshakeResponse"
  <2>1. FollowsSelection => Negotiated("RM")
    BY <1>0, SelectionIsLate DEF FollowsSelection
  <2>2. Keeps("RM") => ((Negotiated("RM"))' <=> Negotiated("RM"))
    BY DEF Keeps, Negotiated
  <2>3. Ends("RM") => ~(Negotiated("RM"))'
    BY DEF Ends, Negotiated
  <2>4. Opens("RM") => ~(Negotiated("RM"))' \/ Negotiation # "Handshake"
    BY DEF Opens, Negotiated
  <2>5. Agrees("RM") => \E m : Accepts("RM", m) /\ m.kind = "HandshakeResponse"
    BY DEF Agrees
  <2> QED BY <2>1, <2>2, <2>3, <2>4, <2>5 DEF Step, Course, RmCourse
<1>10. ASSUME NEW m, Accepts("RM", m), m.kind = "HandshakeResponse"
       PROVE  /\ state["CEM"] \notin Before
              /\ \A n \in On("RM") : n.kind = "HandshakeResponse" => (HasAnswered("RM", n.id))'
  <2>1. m \in On("RM") /\ (HasAnswered("RM", m.id))'
    BY <1>10 DEF Accepts, HasAnswered
  <2> QED BY <1>10, <2>1 DEF Shaking
<1>11. (Negotiated("RM"))' => \A m \in On("RM")' : m.kind = "HandshakeResponse" => (HasAnswered("RM", m.id))'
  BY <1>1, <1>2, <1>4, <1>9, <1>10 DEF Shaking
<1>12. state["CEM"] \in Before /\ Negotiation = "Handshake" => ~(Negotiated("RM"))'
  BY <1>9, <1>10 DEF Shaking
<1> QED BY <1>1, <1>2, <1>5, <1>6, <1>7, <1>8, <1>11, <1>12 DEF Shaking

\* The manager passes the handshake once, by agreeing.
LEMMA CemMoves ==
  ASSUME Typed, Awaiting, Step("CEM")
  PROVE  \/ Agrees("CEM") /\ state'["CEM"] = "Connected"
         \/ /\ (Negotiated("CEM"))' => Negotiated("CEM") \/ Negotiation # "Handshake"
            /\ state'["CEM"] \in Before => state["CEM"] \in Before
<1>1. CASE Keeps("CEM")
  BY <1>1 DEF Keeps, Negotiated
<1>2. CASE Ends("CEM")
  BY <1>2 DEF Ends, Negotiated, Before
<1>3. CASE Opens("CEM")
  BY <1>3 DEF Opens, Negotiated, Before
<1>4. CASE Agrees("CEM")
  BY <1>4 DEF Agrees
<1>5. ASSUME NEW m, HearsOf(m), ~Keeps("CEM"), ~Ends("CEM") PROVE Negotiated("CEM") /\ state'["CEM"] \notin Before
  <2>1. PICK s \in selecting : state'["CEM"] = SelectedState(s.selection)
    BY <1>5 DEF HearsOf
  <2>2. state["CEM"] \notin Before /\ ~IsClosed("CEM") /\ s.selection \in Selections
    BY <1>5, <2>1 DEF Awaiting, HearsOf, Typed
  <2> QED BY RolesFacts, <2>1, <2>2, OpenIsEither, SelectedIsOpen DEF Before
<1> QED BY <1>1, <1>2, <1>3, <1>4, <1>5 DEF Step, Course, CemCourse, Chooses

\* The manager's side of the handshake.
LEMMA CemShakes ==
  ASSUME Typed, Typed', Awaiting, Shaking, Step("CEM")
  PROVE  Shaking'
<1>0. "RM" \in Roles /\ "CEM" \in Roles /\ Peer("RM") = "CEM" /\ Peer("CEM") = "RM"
  BY RolesFacts DEF Peer
<1>1. /\ On("CEM")' \subseteq On("CEM") /\ answered'["RM"] = answered["RM"]
      /\ answered["CEM"] \subseteq answered'["CEM"] /\ state'["RM"] = state["RM"]
  BY <1>0 DEF Step, Moved, Course, CemCourse, Keeps
<1>2. /\ (Negotiated("RM"))' <=> Negotiated("RM")
      /\ \A id : (HasAnswered("RM", id))' <=> HasAnswered("RM", id)
      /\ \A id : HasAnswered("CEM", id) => (HasAnswered("CEM", id))'
  BY <1>1 DEF Negotiated, HasAnswered
<1>3. ASSUME NEW m, Accepts("CEM", m), m.kind = "Handshake"
      PROVE  /\ state["CEM"] \in Before /\ Negotiation = "Handshake" /\ state["RM"] # "Idle"
             /\ \A n \in On("CEM") : n.kind = "Handshake" => (HasAnswered("CEM", n.id))'
  <2>1. m \in On("CEM") /\ ~IsClosed("CEM") /\ ~HasAnswered("CEM", m.id) /\ (HasAnswered("CEM", m.id))'
    BY <1>3 DEF Accepts, HasAnswered, Fresh
  <2>2. Negotiation = "Handshake"
    BY <1>0, <1>3, <2>1, OnIsGood DEF Good, HandshakeKinds
  <2>3. ~Negotiated("CEM") /\ state["RM"] # "Idle"
    BY <1>3, <2>1 DEF Shaking
  <2>4. \A n \in On("CEM") : n.kind = "Handshake" => n.id = m.id
    BY <1>3, <2>1 DEF Shaking
  <2> QED BY <1>0, <2>1, <2>2, <2>3, <2>4, OpenIsEither
<1>4. Agrees("CEM") => \E m : Accepts("CEM", m) /\ m.kind = "Handshake"
  BY DEF Agrees
<1>5. ASSUME NEW m \in On("RM")', m.kind = "HandshakeResponse", m \notin On("RM")
      PROVE  Agrees("CEM") /\ IsNew("CEM", m)
  <2>1. Topic("CEM", m) /\ IsNew("CEM", m)
    BY <1>0, <1>5 DEF Step, Moved, AsksAbout, Asks
  <2> QED BY <1>5, <2>1 DEF Topic, SpecialKinds
<1>6. ASSUME NEW m \in On("RM")', NEW n \in On("RM")',
             m.kind = "HandshakeResponse", n.kind = "HandshakeResponse"
      PROVE  m.id = n.id
  <2>1. CASE m \in On("RM") /\ n \in On("RM")
    BY <1>6, <2>1 DEF Shaking
  <2>2. CASE m \notin On("RM") \/ n \notin On("RM")
    <3>1. state["CEM"] \in Before
      BY <1>3, <1>4, <1>5, <1>6, <2>2
    <3>2. m \notin On("RM") /\ n \notin On("RM")
      BY <1>6, <3>1 DEF Shaking
    <3>3. IsNew("CEM", m) /\ IsNew("CEM", n)
      BY <1>5, <1>6, <3>2
    <3> QED BY <3>3 DEF IsNew, Question
  <2> QED BY <2>1, <2>2
<1>7. \/ Agrees("CEM") /\ state'["CEM"] = "Connected"
      \/ /\ (Negotiated("CEM"))' => Negotiated("CEM") \/ Negotiation # "Handshake"
         /\ state'["CEM"] \in Before => state["CEM"] \in Before
  BY CemMoves
<1>8. \A m \in On("CEM") : m.kind = "Handshake" => Negotiation = "Handshake"
  BY <1>0, OnIsGood DEF Good, HandshakeKinds
<1>9. \A m \in On("CEM")' : (Negotiated("CEM"))' /\ m.kind = "Handshake" => (HasAnswered("CEM", m.id))'
  BY <1>1, <1>2, <1>3, <1>4, <1>7, <1>8 DEF Shaking
<1>10. state["RM"] = "Idle" /\ Negotiation = "Handshake" => ~(Negotiated("CEM"))'
  BY <1>3, <1>4, <1>7 DEF Shaking
<1>11. state'["CEM"] \in Before => state["CEM"] \in Before /\ ~Agrees("CEM")
  BY <1>7 DEF Agrees, Before
<1>12. state'["CEM"] \in Before => \A m \in On("RM")' : m.kind # "HandshakeResponse"
  BY <1>5, <1>11 DEF Shaking
<1>13. state'["CEM"] \in Before /\ Negotiation = "Handshake" => ~Negotiated("RM")
  BY <1>11 DEF Shaking
<1>14. Negotiated("RM") => \A m \in On("RM")' : m.kind = "HandshakeResponse" => HasAnswered("RM", m.id)
  BY <1>3, <1>4, <1>5 DEF Shaking
<1> QED BY <1>1, <1>2, <1>6, <1>9, <1>10, <1>12, <1>13, <1>14 DEF Shaking

-----------------------------------------------------------------------------
(***************************************************************************)
(* Selections, as long as the manager selects again only with its answer   *)
(* and waits for it as long as it takes.                                   *)
(***************************************************************************)
\* What the resource accepts it has read for the first time, and it follows a selection it accepts.
Heeds ==
  \A a \in answered'["RM"] \ answered["RM"] : a.status = "OK" =>
    \E m : /\ Accepts("RM", m) /\ m.id = a.id
           /\ m.kind = "SelectControlType" => state'["RM"] = SelectedState(m.arg)

LEMMA RemembersNothing ==
  ASSUME answered'["RM"] = answered["RM"]
  PROVE  Heeds
BY DEF Heeds

LEMMA RemembersOne ==
  ASSUME Typed, NEW id, NEW status, Remember("RM", id, status),
         status = "OK" =>
           \E m : /\ Accepts("RM", m) /\ m.id = id
                  /\ m.kind = "SelectControlType" => state'["RM"] = SelectedState(m.arg)
  PROVE  Heeds
<1>1. \A a \in answered'["RM"] \ answered["RM"] : a = [id |-> id, status |-> status]
  BY RolesFacts DEF Remember, Typed
<1>2. ASSUME NEW a \in answered'["RM"] \ answered["RM"], a.status = "OK"
      PROVE  \E m : /\ Accepts("RM", m) /\ m.id = a.id
                    /\ m.kind = "SelectControlType" => state'["RM"] = SelectedState(m.arg)
  <2>1. a.id = id /\ status = "OK"
    BY <1>1, <1>2
  <2> QED BY <2>1
<1> QED BY <1>2 DEF Heeds

LEMMA EverythingHeeds ==
  ASSUME Inv, Truthful, [Next]_vars
  PROVE  Heeds
<1>0. Typed /\ "RM" \in Roles /\ "CEM" \in Roles /\ Peer("CEM") = "RM"
  BY RolesFacts DEF Inv, Peer
<1>1. CASE UNCHANGED vars
  BY <1>1, RemembersNothing DEF vars
<1>2. CASE Cem
  BY <1>0, <1>2, CemTurn, TurnMoves, RemembersNothing DEF Moved
<1>3. CASE Disconnect
  BY <1>3, RemembersNothing DEF Disconnect
<1>4. ASSUME NEW r \in Roles, Either(r) PROVE Heeds
  BY <1>4, RemembersNothing DEF Either, RequestSession, CloseLocally, TransportClosed, Redeliver
<1>5. CASE RmOpen \/ RmTimeout \/ Publish \/ AnnounceDetails
  BY <1>5, RemembersNothing DEF RmOpen, RmTimeout, Publish, AnnounceDetails
<1>6. CASE RmReceive
  <2> DEFINE m == Head(net["RM"])
  <2>1. net["RM"] # <<>>
    BY <1>6 DEF RmReceive
  <2>2. ASSUME NEW out, Acknowledge("RM", m, out),
               m.kind = "SelectControlType" => state'["RM"] = SelectedState(m.arg)
        PROVE  Heeds
    <3>1. Accepts("RM", m)
      BY <1>0, <2>1, <2>2, AcknowledgesAccept
    <3>2. Remember("RM", m.id, "OK")
      BY <2>2 DEF Acknowledge
    <3> HIDE DEF m
    <3> QED BY <1>0, <2>2, <3>1, <3>2, RemembersOne
  <2>3. CASE Ignore("RM", m) \/ AnswerDuplicate("RM", m) \/ Unmatched("RM", m) \/ RmReceptionStatus(m)
    BY <2>3, RemembersNothing DEF Ignore, AnswerDuplicate, Unmatched, RmReceptionStatus
  <2>4. CASE AnswerUnreadable("RM", m)
    BY <1>0, <2>4, RemembersOne DEF AnswerUnreadable
  <2>5. CASE RefuseInvalid("RM", m)
    BY <1>0, <2>5, RemembersOne DEF RefuseInvalid
  <2>6. CASE RefuseByPolicy("RM", m)
    <3>1. PICK status \in PolicyAnswers["RM"] : Remember("RM", m.id, status)
      BY <2>6 DEF RefuseByPolicy
    <3>2. status # "OK"
      BY <1>0, <3>1, ConfigAssumption
    <3> QED BY <1>0, <3>1, <3>2, RemembersOne
  <2>7. CASE AcceptSessionRequest("RM", m)
    BY <2>2, <2>7 DEF AcceptSessionRequest
  <2>8. CASE AcceptOther("RM", m, RmProcessed)
    BY <2>2, <2>8 DEF AcceptOther, RmProcessed
  <2>9. CASE RmAcceptHandshakeResponse(m)
    BY <2>2, <2>9 DEF RmAcceptHandshakeResponse
  <2>10. CASE RmAcceptSelection(m)
    BY <1>0, <2>2, <2>10 DEF RmAcceptSelection, Typed
  <2> QED BY <1>6, <2>3, <2>4, <2>5, <2>6, <2>7, <2>8, <2>9, <2>10 DEF RmReceive
<1> QED BY <1>1, <1>2, <1>3, <1>4, <1>5, <1>6 DEF Next, Ended, Rm

\* The identifier of the awaited selection is that of no other message, and a selection
\* the resource has not answered is the one that is awaited.
Choosing ==
  /\ \A s, t \in selecting : s = t
  /\ \A s \in selecting : s.id \in Used("CEM")
  /\ \A m \in On("RM"), s \in selecting :
       Asks(m) /\ m.id = s.id => m.kind = "SelectControlType" /\ m.arg = s.selection
  /\ \A m \in On("RM") :
       m.kind = "SelectControlType" =>
         HasAnswered("RM", m.id) \/ [id |-> m.id, selection |-> m.arg] \in selecting

AcceptedByResource(s) == [id |-> s.id, status |-> "OK"] \in answered["RM"]

\* A side that is past the handshake alone is where it started.
Waiting ==
  /\ state["CEM"] \in Before => state["RM"] \in Before \cup {"Connected", "Closed"}
  /\ state["RM"] \in Before /\ Negotiated("CEM") =>
       state["CEM"] = "Connected" /\ \A s \in selecting : ~AcceptedByResource(s)

\* The manager is where the resource is, or where it will be with the answer it awaits.
Following ==
  Negotiated("RM") /\ Negotiated("CEM") =>
    /\ selecting = {} => state["CEM"] = state["RM"]
    /\ \A s \in selecting :
         state["RM"] = IF AcceptedByResource(s) THEN SelectedState(s.selection) ELSE state["CEM"]

LEMMA RmChoosing ==
  ASSUME Typed, Choosing, Step("RM")
  PROVE  Choosing'
<1>0. "RM" \in Roles /\ "CEM" \in Roles /\ Peer("RM") = "CEM" /\ Peer("CEM") = "RM"
  BY RolesFacts DEF Peer
<1>1. /\ On("RM")' \subseteq On("RM") /\ selecting' = selecting
      /\ answered["RM"] \subseteq answered'["RM"]
  BY <1>0 DEF Step, Moved, Course, RmCourse
<1>2. \A id : HasAnswered("RM", id) => (HasAnswered("RM", id))'
  BY <1>1 DEF HasAnswered
<1>3. Used("CEM") \subseteq Used("CEM")'
  BY <1>0, UsedGrows DEF Step
<1> QED BY <1>1, <1>2, <1>3 DEF Choosing

\* What the manager's step does to the selection it awaits.
LEMMA CemChoosing ==
  ASSUME Typed, Numbered, Truthful, Closing, Shaking, Choosing, Step("CEM"), ~OverlapsSelections, "CEM" \notin GivesUp
  PROVE  Choosing'
<1>0. "RM" \in Roles /\ "CEM" \in Roles /\ Peer("RM") = "CEM" /\ Peer("CEM") = "RM"
  BY RolesFacts DEF Peer
<1>1. answered'["RM"] = answered["RM"] /\ \A id : (HasAnswered("RM", id))' <=> HasAnswered("RM", id)
  BY <1>0 DEF Step, Moved, HasAnswered
<1>2. Used("CEM") \subseteq Used("CEM")' /\ NextId("CEM") \notin Used("CEM")
  BY <1>0, UsedGrows, NextIsUnused DEF Step
<1>3. ASSUME NEW m \in On("RM")', m \notin On("RM"), Asks(m)
      PROVE  m.id = NextId("CEM") /\ NextId("CEM") \in Used("CEM")' /\ Topic("CEM", m)
  <2>1. IsNew("CEM", m) /\ Topic("CEM", m)
    BY <1>0, <1>3 DEF Step, Moved, AsksAbout
  <2>2. minted["CEM"] \in Nat /\ minted'["CEM"] = minted["CEM"] + 1
    BY <1>0, <2>1 DEF IsNew, Typed
  <2>3. minted["CEM"] + 1 \in 1 .. minted'["CEM"]
    BY <2>2
  <2> QED BY <2>1, <2>3 DEF IsNew, Question, Used, NextId
<1>4. CASE selecting' = selecting
  <2>1. ASSUME NEW m \in On("RM")', NEW s \in selecting', Asks(m), m.id = s.id
        PROVE  m.kind = "SelectControlType" /\ m.arg = s.selection
    <3>1. m \in On("RM")
      BY <1>2, <1>3, <1>4, <2>1 DEF Choosing
    <3> QED BY <1>4, <2>1, <3>1 DEF Choosing
  <2>2. ASSUME NEW m \in On("RM")', m.kind = "SelectControlType"
        PROVE  HasAnswered("RM", m.id) \/ [id |-> m.id, selection |-> m.arg] \in selecting'
    <3>1. CASE m \in On("RM")
      BY <1>4, <2>2, <3>1 DEF Choosing
    <3>2. CASE m \notin On("RM")
      BY <1>3, <2>2, <3>2 DEF Asks, Topic, SpecialKinds
    <3> QED BY <3>1, <3>2
  <2> QED BY <1>1, <1>2, <1>4, <2>1, <2>2 DEF Choosing
<1>5. CASE \E m : HearsOf(m)
  <2>1. PICK h : HearsOf(h)
    BY <1>5
  <2>2. selecting' = {s \in selecting : s.id # h.id} /\ HasAnswered("RM", h.id)
    <3>1. h \in On("CEM") /\ ~Asks(h) /\ selecting' = {s \in selecting : s.id # h.id}
      BY <2>1 DEF HearsOf
    <3>2. [id |-> h.id, status |-> h.arg] \in answered["RM"]
      BY <1>0, <3>1 DEF Truthful
    <3> QED BY <3>1, <3>2 DEF HasAnswered
  <2>3. ASSUME NEW m \in On("RM")', NEW s \in selecting', Asks(m), m.id = s.id
        PROVE  m.kind = "SelectControlType" /\ m.arg = s.selection
    <3>1. m \in On("RM")
      BY <1>2, <1>3, <2>2, <2>3 DEF Choosing
    <3> QED BY <2>2, <2>3, <3>1 DEF Choosing
  <2>4. ASSUME NEW m \in On("RM")', m.kind = "SelectControlType"
        PROVE  HasAnswered("RM", m.id) \/ [id |-> m.id, selection |-> m.arg] \in selecting'
    <3>1. CASE m \in On("RM")
      <4> SUFFICES ASSUME ~HasAnswered("RM", m.id) PROVE [id |-> m.id, selection |-> m.arg] \in selecting'
        OBVIOUS
      <4>1. [id |-> m.id, selection |-> m.arg] \in selecting
        BY <2>4, <3>1 DEF Choosing
      <4>2. m.id # h.id
        BY <2>2
      <4> QED BY <2>2, <4>1, <4>2
    <3>2. CASE m \notin On("RM")
      BY <1>3, <2>4, <3>2 DEF Asks, Topic, SpecialKinds
    <3> QED BY <3>1, <3>2
  <2> QED BY <1>1, <1>2, <2>2, <2>3, <2>4 DEF Choosing
<1>6. CASE Chooses
  <2>1. PICK selection \in Selections : selecting' = {[id |-> NextId("CEM"), selection |-> selection]}
    BY <1>6 DEF Chooses
  <2>2. selecting = {} /\ Negotiated("CEM") /\ Keeps("CEM")
    BY <1>6 DEF Chooses
  <2>3. ~IsClosed("CEM") /\ state["CEM"] # "Idle" /\ reason'["CEM"] # "LocallyRequested"
    BY <1>0, <2>2 DEF Negotiated, IsClosed, Closing, Keeps
  <2>4. ~Agrees("CEM")
    <3> SUFFICES ASSUME NEW m, Accepts("CEM", m), m.kind = "Handshake" PROVE FALSE
      BY DEF Agrees
    <3>1. HasAnswered("CEM", m.id)
      BY <2>2 DEF Accepts, Shaking
    <3> QED BY <3>1 DEF Accepts, Fresh
  <2>5. ASSUME NEW m \in On("RM")', m \notin On("RM"), Asks(m)
        PROVE  m.kind = "SelectControlType" /\ [id |-> m.id, selection |-> m.arg] \in selecting'
    <3>1. Topic("CEM", m)
      BY <1>3, <2>5
    <3>2. selecting' # selecting
      BY <2>1, <2>2
    <3> QED BY <2>3, <2>4, <3>1, <3>2 DEF Topic, Opens
  <2>6. \A s \in selecting' : s.id = NextId("CEM") /\ s.selection = selection
    BY <2>1
  <2>7. ASSUME NEW m \in On("RM")', NEW s \in selecting', Asks(m), m.id = s.id
        PROVE  m.kind = "SelectControlType" /\ m.arg = s.selection
    <3>1. m \notin On("RM")
      BY <1>0, <1>2, <2>6, <2>7 DEF Numbered
    <3>2. m.kind = "SelectControlType" /\ [id |-> m.id, selection |-> m.arg] \in selecting'
      BY <2>5, <2>7, <3>1
    <3>3. [id |-> m.id, selection |-> m.arg].selection = selection
      BY <2>6, <3>2
    <3> QED BY <2>6, <3>2, <3>3
  <2>8. ASSUME NEW m \in On("RM")', m.kind = "SelectControlType"
        PROVE  HasAnswered("RM", m.id) \/ [id |-> m.id, selection |-> m.arg] \in selecting'
    BY <2>2, <2>5, <2>8 DEF Choosing, Asks
  <2>9. NextId("CEM") \in Used("CEM")'
    <3>1. minted["CEM"] \in Nat /\ minted'["CEM"] = minted["CEM"] + 1
      BY <1>0, <1>6 DEF Chooses, Typed
    <3>2. minted["CEM"] + 1 \in 1 .. minted'["CEM"]
      BY <3>1
    <3> QED BY <3>2 DEF Used, NextId
  <2> QED BY <1>1, <2>1, <2>6, <2>7, <2>8, <2>9 DEF Choosing
<1>7. selecting' = selecting \/ Chooses \/ \E m : HearsOf(m)
  BY DEF Step, Course, CemCourse
<1> QED BY <1>4, <1>5, <1>6, <1>7

\* The resource follows the selection that is awaited, and answers it once.
LEMMA RmFollowing ==
  ASSUME Typed, Awaiting, Shaking, Choosing, Waiting, Following, Heeds, Step("RM")
  PROVE  Waiting' /\ Following'
<1>0. "RM" \in Roles /\ "CEM" \in Roles /\ Peer("RM") = "CEM" /\ Peer("CEM") = "RM"
  BY RolesFacts DEF Peer
<1>1. /\ On("RM")' \subseteq On("RM") /\ selecting' = selecting
      /\ answered["RM"] \subseteq answered'["RM"] /\ state'["CEM"] = state["CEM"]
      /\ Keeps("RM") \/ Ends("RM") \/ Opens("RM") \/ Agrees("RM") \/ FollowsSelection
  BY <1>0 DEF Step, Moved, Course, RmCourse, Keeps
<1>2. (Negotiated("CEM"))' <=> Negotiated("CEM")
  BY <1>1 DEF Negotiated
<1>3. ASSUME NEW s \in selecting, (AcceptedByResource(s))', ~AcceptedByResource(s)
      PROVE  Negotiated("RM") /\ state'["RM"] = SelectedState(s.selection)
  <2>1. [id |-> s.id, status |-> "OK"] \in answered'["RM"] \ answered["RM"]
    BY <1>3 DEF AcceptedByResource
  <2>2. PICK m : /\ Accepts("RM", m) /\ m.id = s.id
                 /\ m.kind = "SelectControlType" => state'["RM"] = SelectedState(m.arg)
    BY <2>1 DEF Heeds
  <2>3. m \in On("RM") /\ Asks(m)
    BY <2>2 DEF Accepts, Fresh, Asks
  <2>4. m.kind = "SelectControlType" /\ m.arg = s.selection
    BY <2>2, <2>3 DEF Choosing
  <2> QED BY <1>0, <2>2, <2>4, SelectionIsLate
<1>4. ASSUME FollowsSelection
      PROVE  /\ Negotiated("RM") /\ state["CEM"] \notin Before /\ state'["RM"] \notin Before
             /\ \E s \in selecting : ~AcceptedByResource(s) /\ (AcceptedByResource(s))'
  <2>1. PICK m : Accepts("RM", m) /\ m.kind = "SelectControlType" /\ state'["RM"] = SelectedState(m.arg)
    BY <1>4 DEF FollowsSelection
  <2>2. Negotiated("RM") /\ m.arg \in Selections
    BY <1>0, <2>1, SelectionIsLate
  <2>3. m \in On("RM") /\ ~HasAnswered("RM", m.id)
    BY <2>1 DEF Accepts, Fresh
  <2> DEFINE s == [id |-> m.id, selection |-> m.arg]
  <2>4. s \in selecting /\ s.id = m.id
    BY <2>1, <2>3 DEF Choosing
  <2>5. ~AcceptedByResource(s)
    BY <2>3, <2>4 DEF AcceptedByResource, HasAnswered
  <2>6. (AcceptedByResource(s))'
    BY <2>1, <2>4 DEF AcceptedByResource, Accepts
  <2>7. state["CEM"] \notin Before /\ state'["RM"] \notin Before
    BY <2>1, <2>2, <2>4, SelectedIsOpen DEF Awaiting, Before
  <2> QED BY <2>2, <2>4, <2>5, <2>6, <2>7
<1>5. Agrees("RM") => ~Negotiated("RM")
  <2> SUFFICES ASSUME NEW m, Accepts("RM", m), m.kind = "HandshakeResponse", Negotiated("RM") PROVE FALSE
    BY DEF Agrees
  <2>1. HasAnswered("RM", m.id)
    BY DEF Accepts, Shaking
  <2> QED BY <2>1 DEF Accepts, Fresh
<1>6. state["CEM"] \in Before => state'["RM"] \in Before \cup {"Connected", "Closed"}
  BY <1>1, <1>4 DEF Waiting, Keeps, Ends, Opens, Agrees, Before
<1>7. state'["RM"] \in Before => state["RM"] \in Before
  BY <1>1, <1>4 DEF Keeps, Ends, Opens, Agrees, Before
<1>8. state["RM"] \in Before => ~Negotiated("RM")
  BY <1>0, OpenIsEither
<1>9. Waiting'
  BY <1>1, <1>2, <1>3, <1>6, <1>7, <1>8 DEF Waiting
<1>10. ASSUME (Negotiated("RM"))', Negotiated("CEM"), NEW s \in selecting
       PROVE  state'["RM"] = IF (AcceptedByResource(s))' THEN SelectedState(s.selection) ELSE state["CEM"]
  <2>1. AcceptedByResource(s) => (AcceptedByResource(s))'
    BY <1>1 DEF AcceptedByResource
  <2>2. CASE ~AcceptedByResource(s) /\ (AcceptedByResource(s))'
    BY <1>3, <2>2
  <2>3. CASE AcceptedByResource(s) <=> (AcceptedByResource(s))'
    <3>1. ~FollowsSelection
      BY <1>4, <2>3 DEF Choosing
    <3>2. CASE Keeps("RM")
      BY <1>10, <2>3, <3>2 DEF Keeps, Following, Negotiated
    <3>3. CASE Opens("RM") \/ Agrees("RM")
      <4>1. ~Negotiated("RM") /\ ~IsClosed("RM")
        BY <1>5, <3>3 DEF Opens, Agrees, Accepts, Fresh, Negotiated, IsClosed
      <4>2. state["RM"] \in Before
        BY <1>0, <4>1, OpenIsEither
      <4>3. state["CEM"] = "Connected" /\ ~AcceptedByResource(s)
        BY <1>10, <4>2 DEF Waiting
      <4>4. state'["RM"] = "Connected"
        BY <1>10, <3>3 DEF Opens, Agrees, Negotiated
      <4> QED BY <2>3, <4>3, <4>4
    <3> QED BY <1>1, <1>10, <3>1, <3>2, <3>3 DEF Ends, Negotiated
  <2> QED BY <2>1, <2>2, <2>3
<1>11. ASSUME (Negotiated("RM"))', Negotiated("CEM"), selecting = {} PROVE state["CEM"] = state'["RM"]
  <2>1. ~FollowsSelection
    BY <1>4, <1>11
  <2>2. CASE Keeps("RM")
    BY <1>11, <2>2 DEF Keeps, Following, Negotiated
  <2>3. CASE Opens("RM") \/ Agrees("RM")
    <3>1. ~Negotiated("RM") /\ ~IsClosed("RM")
      BY <1>5, <2>3 DEF Opens, Agrees, Accepts, Fresh, Negotiated, IsClosed
    <3>2. state["RM"] \in Before
      BY <1>0, <3>1, OpenIsEither
    <3>3. state["CEM"] = "Connected"
      BY <1>11, <3>2 DEF Waiting
    <3>4. state'["RM"] = "Connected"
      BY <1>11, <2>3 DEF Opens, Agrees, Negotiated
    <3> QED BY <3>3, <3>4
  <2> QED BY <1>1, <1>11, <2>1, <2>2, <2>3 DEF Ends, Negotiated
<1> QED BY <1>1, <1>2, <1>9, <1>10, <1>11 DEF Following

\* The manager follows when it has its answer.
LEMMA CemFollowing ==
  ASSUME Typed, Numbered, Truthful, Awaiting, Shaking, Choosing, Waiting, Following, Step("CEM"),
         ~OverlapsSelections, "CEM" \notin GivesUp
  PROVE  Waiting' /\ Following'
<1>0. "RM" \in Roles /\ "CEM" \in Roles /\ Peer("RM") = "CEM" /\ Peer("CEM") = "RM"
  BY RolesFacts DEF Peer
<1>1. answered'["RM"] = answered["RM"] /\ state'["RM"] = state["RM"]
  BY <1>0 DEF Step, Moved, Course, CemCourse, Keeps
<1>2. (Negotiated("RM"))' <=> Negotiated("RM")
  BY <1>1 DEF Negotiated
<1>3. \A s : (AcceptedByResource(s))' <=> AcceptedByResource(s)
  BY <1>1 DEF AcceptedByResource
<1>4. CASE selecting' = selecting /\ (Keeps("CEM") \/ Ends("CEM"))
  BY <1>1, <1>2, <1>3, <1>4 DEF Waiting, Following, Keeps, Ends, Before, Negotiated
<1>5. CASE selecting' = selecting /\ (Opens("CEM") \/ Agrees("CEM"))
  <2>1. state["CEM"] \in Before
    <3>1. CASE Opens("CEM")
      BY <3>1 DEF Opens, Before
    <3>2. CASE Agrees("CEM")
      <4>1. PICK m : Accepts("CEM", m) /\ m.kind = "Handshake"
        BY <3>2 DEF Agrees
      <4>2. ~IsClosed("CEM") /\ ~HasAnswered("CEM", m.id) /\ m \in On("CEM")
        BY <4>1 DEF Accepts, Fresh
      <4>3. ~Negotiated("CEM")
        BY <4>1, <4>2 DEF Shaking
      <4> QED BY <1>0, <4>2, <4>3, OpenIsEither
    <3> QED BY <1>5, <3>1, <3>2
  <2>2. selecting = {} /\ state["RM"] \in Before \cup {"Connected", "Closed"}
    BY <2>1 DEF Awaiting, Waiting
  <2>3. state'["CEM"] \in {"Handshaking", "Connected"}
    BY <1>5 DEF Opens, Agrees
  <2>4. (Negotiated("CEM"))' => state'["CEM"] = "Connected"
    BY <2>3 DEF Negotiated
  <2>5. Negotiated("RM") => state["RM"] = "Connected"
    BY <2>2 DEF Negotiated, Before
  <2> QED BY <1>1, <1>2, <1>5, <2>2, <2>4, <2>5 DEF Waiting, Following
<1>6. CASE Chooses
  <2>1. PICK selection \in Selections : selecting' = {[id |-> NextId("CEM"), selection |-> selection]}
    BY <1>6 DEF Chooses
  <2>2. selecting = {} /\ Negotiated("CEM") /\ state'["CEM"] = state["CEM"]
    BY <1>6 DEF Chooses, Keeps
  <2>3. ASSUME NEW s \in selecting' PROVE ~AcceptedByResource(s)
    <3>1. s.id = NextId("CEM") /\ NextId("CEM") \notin Used("CEM") /\ NextId("CEM") # NIL
      BY <1>0, <2>1, NextIsUnused
    <3> SUFFICES ASSUME [id |-> s.id, status |-> "OK"] \in answered["RM"] PROVE FALSE
      BY DEF AcceptedByResource
    <3>2. \A a \in answered["RM"] : a.id = NIL \/ a.id \in Used("CEM")
      BY <1>0 DEF Numbered
    <3>3. [id |-> s.id, status |-> "OK"].id = s.id
      OBVIOUS
    <3> QED BY <3>1, <3>2, <3>3
  <2>4. state["CEM"] \notin Before /\ ((Negotiated("CEM"))' <=> Negotiated("CEM"))
    BY <2>2 DEF Negotiated, Before
  <2>5. selecting' # {}
    BY <2>1
  <2>6. Waiting'
    BY <1>1, <1>3, <2>2, <2>3, <2>4 DEF Waiting
  <2>7. Following'
    BY <1>1, <1>2, <1>3, <2>2, <2>3, <2>4, <2>5 DEF Following
  <2> QED BY <2>6, <2>7
<1>7. ASSUME NEW m, HearsOf(m) PROVE Waiting' /\ Following'
  <2>1. [id |-> m.id, status |-> m.arg] \in answered["RM"] /\ selecting' = {s \in selecting : s.id # m.id}
    BY <1>0, <1>7 DEF HearsOf, Truthful
  <2>2. CASE Ends("CEM")
    BY <2>2 DEF Waiting, Following, Ends, Before, Negotiated
  <2>3. CASE Keeps("CEM")
    <3>1. m.arg # "OK" \/ (\A s \in selecting : s.id # m.id) \/ \E s \in selecting : s.id = m.id /\ m.arg = "OK"
      OBVIOUS
    <3>2. state'["CEM"] = state["CEM"] /\ ((Negotiated("CEM"))' <=> Negotiated("CEM"))
      BY <2>3 DEF Keeps, Negotiated
    <3>3. Waiting'
      BY <1>1, <1>3, <2>1, <3>2 DEF Waiting
    <3>4. ASSUME selecting' = {}, selecting # {}, Negotiated("RM"), Negotiated("CEM")
          PROVE  state["CEM"] = state["RM"]
      <4>1. PICK s \in selecting : s.id = m.id
        BY <2>1, <3>4
      <4>2. CASE AcceptedByResource(s)
        <5>1. [id |-> m.id, status |-> "OK"] \in answered["RM"]
          BY <4>1, <4>2 DEF AcceptedByResource
        <5>2. m.arg = "OK"
          <6> DEFINE a == [id |-> m.id, status |-> "OK"]
                     b == [id |-> m.id, status |-> m.arg]
          <6>1. a = b
            BY <1>0, <2>1, <5>1 DEF Truthful
          <6>2. a.status = b.status
            BY <6>1
          <6> QED BY <6>2
        <5>3. state'["CEM"] = SelectedState(s.selection)
          <6>1. ~Ends("CEM")
            BY <2>3 DEF Ends, Keeps, IsClosed
          <6>2. PICK t \in selecting : state'["CEM"] = SelectedState(t.selection)
            BY <1>7, <4>1, <5>2, <6>1 DEF HearsOf
          <6> QED BY <6>2 DEF Choosing
        <5> QED BY <3>2, <3>4, <4>2, <5>3 DEF Following
      <4>3. CASE ~AcceptedByResource(s)
        BY <3>4, <4>3 DEF Following
      <4> QED BY <4>2, <4>3
    <3>5. Following'
      BY <1>1, <1>2, <1>3, <2>1, <3>2, <3>4 DEF Following
    <3> QED BY <3>3, <3>5
  <2>4. ASSUME NEW s \in selecting, s.id = m.id, m.arg = "OK", state'["CEM"] = SelectedState(s.selection)
        PROVE  Waiting' /\ Following'
    <3>1. AcceptedByResource(s)
      BY <2>1, <2>4 DEF AcceptedByResource
    <3>2. Negotiated("CEM")
      <4>1. state["CEM"] \notin Before /\ ~IsClosed("CEM")
        BY <1>7, <2>4 DEF Awaiting, HearsOf
      <4> QED BY <1>0, <4>1, OpenIsEither
    <3>3. state["RM"] \notin Before
      BY <3>1, <3>2 DEF Waiting
    <3>4. state'["CEM"] \notin Before
      <4>1. s.selection \in Selections
        BY DEF Typed
      <4> QED BY <2>4, <4>1, SelectedIsOpen DEF Before
    <3>5. Waiting'
      BY <1>1, <3>3, <3>4 DEF Waiting
    <3>6. Negotiated("RM") => state["RM"] = SelectedState(s.selection)
      BY <3>1, <3>2 DEF Following
    <3>7. \A t \in selecting' : FALSE
      BY <2>1, <2>4 DEF Choosing
    <3>8. Following'
      BY <1>1, <1>2, <2>4, <3>6, <3>7 DEF Following
    <3> QED BY <3>5, <3>8
  <2>5. CASE ~Ends("CEM") /\ ~Keeps("CEM")
    BY <1>7, <2>4, <2>5 DEF HearsOf
  <2> QED BY <2>2, <2>3, <2>5
<1> QED BY <1>4, <1>5, <1>6, <1>7 DEF Step, Course, CemCourse

\* Where each side is, and what either waits for.
Meeting == Shaking /\ Choosing /\ Waiting /\ Following

LEMMA InitMeeting == Init => Meeting
<1> SUFFICES ASSUME Init PROVE Meeting
  OBVIOUS
<1>1. On("RM") = {} /\ On("CEM") = {} /\ selecting = {}
  BY RolesFacts, EmptyRange DEF Init, On
<1>2. state["RM"] = "Idle" /\ state["CEM"] = "Idle"
  BY RolesFacts DEF Init
<1> QED BY <1>1, <1>2 DEF Meeting, Shaking, Choosing, Waiting, Following, Negotiated, Before

LEMMA NextMeeting ==
  ASSUME ~OverlapsSelections, "CEM" \notin GivesUp, Inv, Inv', Exchange, Meeting, [Next]_vars
  PROVE  Meeting'
<1>1. /\ Typed /\ Typed' /\ Awaiting /\ Numbered /\ Truthful /\ Closing
      /\ Shaking /\ Choosing /\ Waiting /\ Following
  BY DEF Inv, Exchange, Meeting
<1>2. Heeds
  BY <1>1, EverythingHeeds
<1>3. PICK r \in Roles : Step(r)
  BY <1>1, EverythingSteps
<1>4. CASE r = "RM"
  BY <1>1, <1>2, <1>3, <1>4, RmShakes, RmChoosing, RmFollowing DEF Meeting
<1>5. CASE r = "CEM"
  BY <1>1, <1>3, <1>5, CemShakes, CemChoosing, CemFollowing DEF Meeting
<1> QED BY <1>4, <1>5 DEF Roles

LEMMA MeetingIsFollowing == Inv /\ Meeting => FollowsResource
BY RolesFacts DEF Meeting, Following, FollowsResource

(***************************************************************************)
(* The manager follows the resource: with no selection unanswered, two     *)
(* open sessions are in the same state.  The application selects again     *)
(* only with its answer, and waits for it: a manager that overwrites a     *)
(* selection or gives up on its acknowledgement is told nothing of what    *)
(* the resource made of it (CemSession lets a selection be overwritten and *)
(* CemTimeout forgets one).                                                *)
(***************************************************************************)
THEOREM ManagerFollows ==
  ASSUME ~OverlapsSelections, "CEM" \notin GivesUp
  PROVE  Spec => []FollowsResource
<1>1. Inv /\ Inv' /\ Exchange /\ Meeting /\ [Next]_vars => Meeting'
  BY NextMeeting
<1> QED BY <1>1, InitMeeting, MeetingIsFollowing, Invariance, AlwaysExchange, PTL DEF Spec

-----------------------------------------------------------------------------
(***************************************************************************)
(* What is read, and in what order.                                        *)
(***************************************************************************)
\* The i-th message for r will be judged when r reaches it: nothing before it, and nothing
\* read already, has its identifier.
FreshAt(r, i) ==
  /\ Asks(net[r][i]) /\ net[r][i].arg # Oversized /\ ~HasAnswered(r, net[r][i].id)
  /\ \A j \in 1 .. (i - 1) :
       Asks(net[r][j]) /\ net[r][j].arg # Oversized => net[r][j].id # net[r][i].id

LEMMA IndexedIsOn ==
  ASSUME Typed, NEW r \in Roles
  PROVE  /\ \A i \in 1 .. Len(net[r]) : net[r][i] \in On(r)
         /\ \A m \in On(r) : \E i \in 1 .. Len(net[r]) : net[r][i] = m
BY QueueFacts DEF On, Range

\* What is being read is the first of them.
LEMMA ReadingIsFirst ==
  ASSUME Typed, NEW r \in Roles, Reading(r)
  PROVE  /\ 1 \in 1 .. Len(net[r]) /\ Head(net[r]) = net[r][1] /\ FreshAt(r, 1)
         /\ ~IsClosed(r) /\ net[r][1] \in On(r)
<1>1. /\ Len(net[r]) \in Nat \ {0} /\ Head(net[r]) = net[r][1]
  BY QueueFacts DEF Reading
<1>2. ~IsClosed(r) /\ Asks(net[r][1]) /\ net[r][1].arg # Oversized /\ ~HasAnswered(r, net[r][1].id)
  BY <1>1 DEF Reading, Fresh, Asks
<1>3. \A j \in 1 .. (1 - 1) : FALSE
  OBVIOUS
<1> QED BY <1>1, <1>2, <1>3, IndexedIsOn DEF FreshAt

\* A message that stays on its way was as fresh before the step.
LEMMA FreshWas ==
  ASSUME Typed, Typed', NEW r \in Roles, NEW k \in {0, 1}, Shifts(r, k), ~IsClosed(r),
         answered[r] \subseteq answered'[r],
         NEW i \in 1 .. Len(net'[r]), i + k <= Len(net[r]), (FreshAt(r, i))'
  PROVE  FreshAt(r, i + k) /\ net'[r][i] = net[r][i + k] /\ i + k \in 1 .. Len(net[r])
<1>1. Len(net[r]) \in Nat /\ Len(net'[r]) \in Nat
  <2>1. net'[r] \in Seq(Good)
    BY DEF Typed
  <2> QED BY <2>1, QueueFacts, LenProperties
<1>2. net'[r][i] = net[r][i + k]
  BY DEF Shifts
<1>3. /\ Asks(net[r][i + k]) /\ net[r][i + k].arg # Oversized
      /\ \A a \in answered'[r] : a.id # net[r][i + k].id
  BY <1>2 DEF FreshAt, HasAnswered, Asks
<1>4. ~HasAnswered(r, net[r][i + k].id)
  BY <1>3 DEF HasAnswered
<1>5. ASSUME NEW j \in 1 .. (i + k - 1), Asks(net[r][j]), net[r][j].arg # Oversized
      PROVE  net[r][j].id # net[r][i + k].id
  <2>1. CASE k = 1 /\ j = 1
    <3>1. Settled(r)
      BY <2>1 DEF Shifts
    <3> QED BY <1>3, <1>5, <2>1, <3>1 DEF Settled
  <2>2. CASE ~(k = 1 /\ j = 1)
    <3>1. j - k \in 1 .. (i - 1) /\ j - k \in 1 .. Len(net'[r]) /\ (j - k) + k = j /\ j <= Len(net[r])
      BY <1>1, <2>2
    <3>2. net'[r][j - k] = net[r][j]
      BY <3>1 DEF Shifts
    <3>3. net'[r][j - k].id # net'[r][i].id
      BY <1>5, <3>1, <3>2 DEF FreshAt, Asks
    <3> QED BY <1>2, <3>2, <3>3
  <2> QED BY <2>1, <2>2
<1> QED BY <1>1, <1>2, <1>3, <1>4, <1>5 DEF FreshAt

\* A message that was put behind the rest and will be judged was not on its way before.
LEMMA FreshIsNew ==
  ASSUME Typed, Typed', NEW r \in Roles, NEW k \in {0, 1}, Shifts(r, k),
         NEW i \in 1 .. Len(net'[r]), ~(i + k <= Len(net[r])), (FreshAt(r, i))'
  PROVE  k = 0 /\ i > Len(net[r]) /\ net'[r][i] \notin On(r)
<1>1. Len(net[r]) \in Nat /\ Len(net'[r]) \in Nat
  <2>1. net'[r] \in Seq(Good)
    BY DEF Typed
  <2> QED BY <2>1, QueueFacts, LenProperties
<1>2. k = 0
  <2> SUFFICES ASSUME k = 1 PROVE FALSE
    OBVIOUS
  <2>1. Len(net'[r]) = Len(net[r]) - 1
    BY DEF Shifts
  <2> QED BY <1>1, <2>1
<1>3. ASSUME net'[r][i] \in On(r) PROVE FALSE
  <2>1. PICK j \in 1 .. Len(net[r]) : net[r][j] = net'[r][i]
    BY <1>3, IndexedIsOn
  <2>2. j \in 1 .. (i - 1) /\ j \in 1 .. Len(net'[r]) /\ j + 0 = j
    BY <1>1, <1>2
  <2>3. net'[r][j] = net'[r][i]
    BY <1>2, <2>1, <2>2 DEF Shifts
  <2> QED BY <2>2, <2>3 DEF FreshAt, Asks
<1> QED BY <1>1, <1>2, <1>3

\* A message that will be judged and is not read stays so.
LEMMA FreshStays ==
  ASSUME Typed, Typed', NEW r \in Roles, NEW k \in {0, 1}, Shifts(r, k),
         NEW i \in 1 .. Len(net[r]), i > k, up' \/ i - k <= Len(net'[r]), FreshAt(r, i), net[r][i].id # NIL
  PROVE  /\ i - k \in 1 .. Len(net'[r]) /\ net'[r][i - k] = net[r][i]
         /\ (FreshAt(r, i - k))'
<1>1. Len(net[r]) \in Nat /\ Len(net'[r]) \in Nat
  <2>1. net'[r] \in Seq(Good)
    BY DEF Typed
  <2> QED BY <2>1, QueueFacts, LenProperties
<1>2. i - k \in 1 .. Len(net'[r]) /\ (i - k) + k = i
  <2>1. up' => Len(net[r]) <= Len(net'[r]) + k
    BY DEF Shifts
  <2> QED BY <1>1, <2>1
<1>3. net'[r][i - k] = net[r][i]
  <2>1. PICK j \in 1 .. Len(net'[r]) : j = i - k /\ j + k = i /\ i <= Len(net[r])
    BY <1>1, <1>2
  <2>2. j + k <= Len(net[r]) => net'[r][j] = net[r][j + k]
    BY DEF Shifts
  <2> QED BY <2>1, <2>2
<1>4. ASSUME NEW a \in answered'[r], a.id = net[r][i].id PROVE FALSE
  <2>1. a \notin answered[r]
    BY <1>4 DEF FreshAt, HasAnswered
  <2>2. k = 1 /\ Asks(net[r][1]) /\ net[r][1].arg # Oversized /\ a.id = net[r][1].id
    BY <1>4, <2>1 DEF Shifts
  <2>3. 1 \in 1 .. (i - 1)
    BY <2>2
  <2> QED BY <1>4, <2>2, <2>3 DEF FreshAt
<1>5. ASSUME NEW j \in 1 .. (i - k - 1), Asks(net'[r][j]), net'[r][j].arg # Oversized
      PROVE  net'[r][j].id # net[r][i].id
  <2>1. j + k \in 1 .. (i - 1) /\ j \in 1 .. Len(net'[r]) /\ j + k <= Len(net[r])
    BY <1>1, <1>2
  <2>2. net'[r][j] = net[r][j + k]
    BY <2>1 DEF Shifts
  <2> QED BY <1>5, <2>1, <2>2 DEF FreshAt
<1>6. (FreshAt(r, i - k))'
  <2>1. Asks(net[r][i]) /\ net[r][i].arg # Oversized
    BY DEF FreshAt
  <2> QED BY <1>3, <1>4, <1>5, <2>1 DEF FreshAt, HasAnswered, Asks
<1> QED BY <1>2, <1>3, <1>6

-----------------------------------------------------------------------------
(***************************************************************************)
(* What the resource sends, when the manager reads it.                     *)
(***************************************************************************)
\* The row of the table the manager reads by, or will read by once it agrees.
CemPhase == IF Negotiated("CEM") THEN Phase("CEM") ELSE "Connected"

\* The manager will have heard that s was accepted when it reaches its i-th message.
Behind(s, i) == \E j \in 1 .. (i - 1) : net["CEM"][j] = ReceptionStatus(s.id, "OK")

\* What the manager will judge is allowed by the row it will then read by.
InPlace ==
  ~IsClosed("CEM") => \A i \in 1 .. Len(net["CEM"]) : FreshAt("CEM", i) =>
    /\ (\A s \in selecting : ~Behind(s, i)) => Allowed(CemPhase, "RM", net["CEM"][i].kind)
    /\ \A s \in selecting : Behind(s, i) => Allowed(SelectedPhase(s.selection), "RM", net["CEM"][i].kind)

\* Until they have agreed the resource says nothing else, and with a version agreed
\* beforehand there is nothing to agree on.
Early ==
  /\ Negotiation = "Handshake" /\ state["CEM"] \in Before =>
       \A m \in On("CEM") : m.kind \in {"ReceptionStatus", "Handshake", "SessionRequest"}
  /\ \A r \in Roles : state[r] = "Handshaking" => Negotiation = "Handshake"

\* The answer that accepts an awaited selection is on its way.
AckOnTheWay ==
  up /\ ~IsClosed("CEM") =>
    \A s \in selecting : AcceptedByResource(s) => ReceptionStatus(s.id, "OK") \in On("CEM")

LEMMA TableFacts ==
  /\ \A phase, r : Allowed(phase, r, "SessionRequest") <=> r \in Roles
  /\ \A phase, r : Allowed(phase, r, "Handshake") <=> r \in Roles /\ ~Activated(phase)
  /\ \A phase : phase # "Negotiating" => Allowed(phase, "RM", "ResourceManagerDetails")
  /\ ~Activated("Connected") /\ ~Activated("Negotiating")
<1>1. ~IsInstruction("ResourceManagerDetails")
  BY DEF IsInstruction, Instructions, ControlTypes
<1>2. \A phase : phase \in ControlTypes => ~BelongsTo("Handshake", phase)
  BY DEF BelongsTo, DescriptionsAndStatuses, Instructions, ControlTypes
<1>3. \A phase, r : Allowed(phase, r, "SessionRequest") <=> r \in Roles
  BY DEF Allowed, AllowedInPhase, Senders, SharedKinds
<1>4. \A phase, r : Allowed(phase, r, "Handshake") <=> r \in Roles /\ ~Activated(phase)
  BY <1>2 DEF Allowed, AllowedInPhase, Senders, SharedKinds, HandshakeKinds, StandingKinds, Activated
<1>5. \A phase : phase # "Negotiating" => Allowed(phase, "RM", "ResourceManagerDetails")
  BY <1>1 DEF Allowed, AllowedInPhase, Senders, SharedKinds, StandingKinds
<1>6. ~Activated("Connected") /\ ~Activated("Negotiating")
  BY DEF Activated, ControlTypes
<1> QED BY <1>3, <1>4, <1>5, <1>6

LEMMA PhaseFacts ==
  ASSUME Typed
  PROVE  /\ \A selection \in Selections :
              /\ SelectedPhase(SelectedState(selection)) = SelectedPhase(selection)
              /\ SelectedPhase(selection) # "Negotiating"
         /\ \A r \in Roles : Negotiated(r) => Phase(r) = SelectedPhase(state[r]) /\ Phase(r) # "Negotiating"
         /\ SelectedPhase("Connected") = "Connected"
BY DEF SelectedPhase, SelectedState, Selections, ControlTypes, Negotiated, Phase

\* Whether a selection's acceptance is ahead of a message does not change as the queue moves.
LEMMA BehindStays ==
  ASSUME Typed, Awaiting', NEW k \in {0, 1}, Shifts("CEM", k), ~IsClosed("CEM"),
         NEW s \in selecting', NEW i \in 1 .. Len(net'["CEM"]), i + k <= Len(net["CEM"])
  PROVE  (Behind(s, i))' <=> Behind(s, i + k)
<1>1. Len(net["CEM"]) \in Nat /\ i \in Nat
  BY RolesFacts, QueueFacts
<1>2. ASSUME NEW j \in 1 .. (i - 1), net'["CEM"][j] = ReceptionStatus(s.id, "OK") PROVE Behind(s, i + k)
  <2>1. j + k \in 1 .. (i + k - 1) /\ j \in 1 .. Len(net'["CEM"]) /\ j + k <= Len(net["CEM"])
    BY <1>1
  <2>2. net'["CEM"][j] = net["CEM"][j + k]
    BY <2>1 DEF Shifts
  <2> QED BY <1>2, <2>1, <2>2 DEF Behind
<1>3. ASSUME NEW j \in 1 .. (i + k - 1), net["CEM"][j] = ReceptionStatus(s.id, "OK") PROVE (Behind(s, i))'
  <2>1. CASE k = 1 /\ j = 1
    <3>1. Settled("CEM")
      BY <2>1 DEF Shifts
    <3>2. ~Asks(net["CEM"][1]) /\ net["CEM"][1].id = s.id
      BY <1>3, <2>1 DEF ReceptionStatus, Msg, Asks
    <3>3. s.id \notin pending'["CEM"]
      BY <3>1, <3>2 DEF Settled
    <3> QED BY <3>3 DEF Awaiting, AwaitedSelectionIsPending
  <2>2. CASE ~(k = 1 /\ j = 1)
    <3>1. j - k \in 1 .. (i - 1) /\ j - k \in 1 .. Len(net'["CEM"]) /\ (j - k) + k = j /\ j <= Len(net["CEM"])
      BY <1>1, <2>2
    <3>2. net'["CEM"][j - k] = net["CEM"][j]
      BY <3>1 DEF Shifts
    <3> QED BY <1>3, <3>1, <3>2 DEF Behind
  <2> QED BY <2>1, <2>2
<1>4. (Behind(s, i))' => Behind(s, i + k)
  BY <1>2 DEF Behind
<1>5. Behind(s, i + k) => (Behind(s, i))'
  BY <1>3 DEF Behind
<1> QED BY <1>4, <1>5

\* An acceptance on its way is one the resource remembers.
LEMMA BehindIsAccepted ==
  ASSUME Typed, Truthful, NEW s, NEW i \in 1 .. Len(net["CEM"]) + 1, Behind(s, i)
  PROVE  AcceptedByResource(s)
<1>0. "CEM" \in Roles /\ Peer("CEM") = "RM" /\ Len(net["CEM"]) \in Nat
  BY RolesFacts, QueueFacts DEF Peer
<1>1. PICK j \in 1 .. (i - 1) : net["CEM"][j] = ReceptionStatus(s.id, "OK")
  BY DEF Behind
<1>2. j \in 1 .. Len(net["CEM"])
  BY <1>0
<1>3. ReceptionStatus(s.id, "OK") \in On("CEM")
  BY <1>0, <1>1, <1>2, IndexedIsOn
<1>4. ~Asks(ReceptionStatus(s.id, "OK")) /\ ReceptionStatus(s.id, "OK").id = s.id
      /\ ReceptionStatus(s.id, "OK").arg = "OK"
  BY DEF ReceptionStatus, Msg, Asks
<1> QED BY <1>0, <1>3, <1>4 DEF Truthful, AcceptedByResource

\* What the resource has just answered is on its way to the manager.
LEMMA AnswersAreSent ==
  ASSUME Inv, Truthful, [Next]_vars, up'
  PROVE  \A a \in answered'["RM"] \ answered["RM"] : ReceptionStatus(a.id, a.status) \in On("CEM")'
<1>0. Typed /\ "RM" \in Roles /\ "CEM" \in Roles /\ Peer("RM") = "CEM" /\ Peer("CEM") = "RM"
  BY RolesFacts DEF Inv, Peer
<1>1. ASSUME NEW a, NEW out, AnswersFirst("RM", a, out), up' = up
      PROVE  ReceptionStatus(a.id, a.status) \in On("CEM")' /\ answered'["RM"] = answered["RM"] \cup {a}
  <2> DEFINE ack == ReceptionStatus(a.id, a.status)
  <2>1. net["RM"] # <<>> /\ Consume("RM", out) /\ a \in Remembered
    BY <1>1 DEF AnswersFirst
  <2>2. ack \in Good
    <3>1. a.id \in Ids /\ a.status \in Statuses
      BY <2>1 DEF Remembered
    <3> QED BY <3>1, AnswerIsGood
  <2>3. out = <<ack>> \/ \E m : Question("RM", m) /\ out = <<ack>> \o <<m>>
    BY <1>1 DEF AnswersFirst
  <2> HIDE DEF ack
  <2>4. out \in Seq(Good) /\ ack \in Range(out)
    <3>1. CASE out = <<ack>>
      BY <2>2, <3>1, SingleRange, OneOut
    <3>2. ASSUME NEW m, Question("RM", m), out = <<ack>> \o <<m>>
          PROVE  out \in Seq(Good) /\ ack \in Range(out)
      BY <2>2, <3>2, PairRange, TwoOut DEF Question
    <3> QED BY <2>3, <3>1, <3>2
  <2>5. ack \in On("CEM")'
    BY <1>0, <1>1, <2>1, <2>4, ConsumingMoves
  <2>6. answered'["RM"] = answered["RM"] \cup {a}
    BY <1>0, <1>1 DEF AnswersFirst, Typed
  <2> QED BY <2>5, <2>6 DEF ack
<1>2. CASE Turn("RM")
  <2>1. CASE \E a, out : AnswersFirst("RM", a, out)
    <3>1. PICK a, out : AnswersFirst("RM", a, out)
      BY <2>1
    <3>2. ReceptionStatus(a.id, a.status) \in On("CEM")' /\ answered'["RM"] = answered["RM"] \cup {a}
      BY <1>1, <1>2, <3>1 DEF Turn
    <3> QED BY <3>2
  <2>2. CASE answered' = answered
    BY <2>2
  <2> QED BY <1>2, <2>1, <2>2 DEF Turn, AsksNew, TakesFirst, LeavesQueues
<1>3. CASE Turn("CEM")
  <2>1. answered'["RM"] = answered["RM"]
    BY <1>0, <1>3, TurnMoves DEF Moved
  <2> QED BY <2>1
<1>4. CASE UNCHANGED answered
  BY <1>4
<1>5. ASSUME NEW r \in Roles, Either(r) PROVE UNCHANGED answered
  BY <1>5 DEF Either, RequestSession, CloseLocally, TransportClosed, Redeliver
<1> QED BY <1>0, <1>2, <1>3, <1>4, <1>5, RmTurn, CemTurn DEF Next, Ended, Disconnect, vars

LEMMA AckStays ==
  ASSUME Inv, Inv', Numbered, Truthful, AckOnTheWay, [Next]_vars, NEW r \in Roles, Step(r),
         NEW k \in {0, 1}, Shifts("CEM", k), ~OverlapsSelections, "CEM" \notin GivesUp
  PROVE  AckOnTheWay'
<1>0. /\ Typed /\ Typed' /\ Awaiting' /\ "RM" \in Roles /\ "CEM" \in Roles
      /\ Peer("RM") = "CEM" /\ Peer("CEM") = "RM" /\ (r = "RM" \/ r = "CEM")
  BY RolesFacts DEF Inv, Peer, Roles
<1> SUFFICES ASSUME up', ~(IsClosed("CEM"))', NEW s \in selecting', (AcceptedByResource(s))'
             PROVE  ReceptionStatus(s.id, "OK") \in On("CEM")'
  BY DEF AckOnTheWay
<1>1. up /\ ~IsClosed("CEM")
  BY NextIsFinal DEF Step, Final, IsClosed, Roles
<1>2. CASE [id |-> s.id, status |-> "OK"] \notin answered["RM"]
  <2> DEFINE a == [id |-> s.id, status |-> "OK"]
  <2>1. a \in answered'["RM"] \ answered["RM"] /\ a.id = s.id /\ a.status = "OK"
    BY <1>2 DEF AcceptedByResource
  <2>2. ReceptionStatus(a.id, a.status) \in On("CEM")'
    BY <2>1, AnswersAreSent
  <2> QED BY <2>1, <2>2
<1>3. CASE AcceptedByResource(s)
  <2>1. s \in selecting
    <3>1. s.id # NextId("CEM")
      <4>1. [id |-> s.id, status |-> "OK"] \in answered["RM"] /\ [id |-> s.id, status |-> "OK"].id = s.id
        BY <1>3 DEF AcceptedByResource
      <4>2. s.id = NIL \/ s.id \in Used("CEM")
        BY <1>0, <4>1 DEF Numbered
      <4> QED BY <1>0, <4>2, NextIsUnused
    <3> QED BY <1>0, <3>1 DEF Step, Course, RmCourse, CemCourse, Chooses, HearsOf
  <2>2. ReceptionStatus(s.id, "OK") \in On("CEM")
    BY <1>1, <1>3, <2>1 DEF AckOnTheWay
  <2>3. PICK j \in 1 .. Len(net["CEM"]) : net["CEM"][j] = ReceptionStatus(s.id, "OK")
    BY <1>0, <2>2, IndexedIsOn
  <2>4. Len(net["CEM"]) \in Nat /\ Len(net'["CEM"]) \in Nat
    <3>1. net'["CEM"] \in Seq(Good)
      BY <1>0 DEF Typed
    <3> QED BY <1>0, <3>1, QueueFacts, LenProperties
  <2>5. CASE k = 1 /\ j = 1
    <3>1. Settled("CEM")
      BY <2>5 DEF Shifts
    <3>2. ~Asks(net["CEM"][1]) /\ net["CEM"][1].id = s.id
      BY <2>3, <2>5 DEF ReceptionStatus, Msg, Asks
    <3>3. s.id \notin pending'["CEM"]
      BY <1>1, <3>1, <3>2 DEF Settled
    <3> QED BY <1>0, <3>3 DEF Awaiting, AwaitedSelectionIsPending
  <2>6. CASE ~(k = 1 /\ j = 1)
    <3>1. Len(net["CEM"]) <= Len(net'["CEM"]) + k
      BY DEF Shifts
    <3>2. j - k \in 1 .. Len(net'["CEM"]) /\ (j - k) + k = j
      BY <2>4, <2>6, <3>1
    <3>3. net'["CEM"][j - k] = ReceptionStatus(s.id, "OK")
      BY <2>3, <3>2 DEF Shifts
    <3>4. net'["CEM"][j - k] \in On("CEM")'
      <4>1. DOMAIN net'["CEM"] = 1 .. Len(net'["CEM"])
        <5>1. net'["CEM"] \in Seq(Good)
          BY <1>0 DEF Typed
        <5> QED BY <5>1, LenProperties
      <4> QED BY <3>2, <4>1 DEF On, Range
    <3> QED BY <3>3, <3>4
  <2> QED BY <2>5, <2>6
<1> QED BY <1>2, <1>3 DEF AcceptedByResource

LEMMA EarlyStays ==
  ASSUME Typed, Awaiting, Shaking, Shaking', Early, NEW r \in Roles, Step(r)
  PROVE  Early'
<1>0. /\ "RM" \in Roles /\ "CEM" \in Roles /\ Peer("RM") = "CEM" /\ Peer("CEM") = "RM"
      /\ (r = "RM" \/ r = "CEM")
  BY RolesFacts DEF Peer, Roles
<1>1. ASSUME Negotiation = "Handshake", state'["CEM"] \in Before, NEW m \in On("CEM")'
      PROVE  m.kind \in {"ReceptionStatus", "Handshake", "SessionRequest"}
  <2>1. state["CEM"] \in Before
    <3>1. CASE r = "RM"
      BY <1>1, <3>1 DEF Step, Course, RmCourse, Keeps
    <3>2. CASE r = "CEM"
      <4>1. ~(Agrees("CEM") /\ state'["CEM"] = "Connected")
        BY <1>1 DEF Before
      <4> QED BY <1>1, <3>2, <4>1, CemMoves
    <3> QED BY <1>0, <3>1, <3>2
  <2>2. CASE m \in On("CEM")
    BY <1>1, <2>1, <2>2 DEF Early
  <2>3. CASE m \notin On("CEM") /\ Asks(m)
    <3>1. r = "RM" /\ Topic("RM", m)
      BY <1>0, <1>1, <2>3 DEF Step, Moved, AsksAbout
    <3>2. ~Negotiated("RM") /\ ~(Negotiated("RM"))'
      BY <1>1, <2>1 DEF Shaking
    <3> QED BY <3>1, <3>2 DEF Topic
  <2> QED BY <2>2, <2>3 DEF Asks
<1>2. ASSUME NEW q \in Roles, state'[q] = "Handshaking" PROVE Negotiation = "Handshake"
  <2>1. CASE state'[q] = state[q]
    BY <1>2, <2>1 DEF Early
  <2>2. CASE q = "RM" /\ r = "RM" /\ ~Keeps("RM")
    <3>1. FollowsSelection => state'["RM"] # "Handshaking"
      BY <1>0, SelectionIsLate, SelectedIsOpen DEF FollowsSelection
    <3> QED BY <1>2, <2>2, <3>1 DEF Step, Course, RmCourse, Ends, Opens, Agrees
  <2>3. CASE q = "CEM" /\ r = "CEM" /\ ~Keeps("CEM")
    <3>1. \A s \in selecting : SelectedState(s.selection) # "Handshaking"
      BY SelectedIsOpen DEF Typed
    <3> QED BY <1>2, <2>3, <3>1 DEF Step, Course, CemCourse, Ends, Opens, Agrees, Chooses, HearsOf
  <2> QED BY <1>0, <2>1, <2>2, <2>3 DEF Keeps, Step, Course, RmCourse, CemCourse, Roles
<1> QED BY <1>1, <1>2 DEF Early

\* The resource says what the manager's row will allow.
LEMMA RmStaysInPlace ==
  ASSUME Typed, Typed', Truthful', Awaiting, Awaiting', Shaking, Choosing, Waiting, Following',
         AckOnTheWay, InPlace, Step("RM"), NEW k \in {0, 1}, Shifts("CEM", k)
  PROVE  InPlace'
<1>0. "RM" \in Roles /\ "CEM" \in Roles /\ Peer("RM") = "CEM" /\ Peer("CEM") = "RM"
  BY RolesFacts DEF Peer
<1>1. /\ Keeps("CEM") /\ selecting' = selecting /\ answered'["CEM"] = answered["CEM"]
  BY <1>0 DEF Step, Course, RmCourse, Moved
<1>2. ((Negotiated("CEM"))' <=> Negotiated("CEM")) /\ ((IsClosed("CEM"))' <=> IsClosed("CEM"))
  BY <1>1 DEF Keeps, Negotiated, IsClosed
<1>3. CemPhase' = CemPhase
  BY <1>1, <1>2 DEF CemPhase, Phase, Keeps
<1>4. Len(net["CEM"]) \in Nat /\ Len(net'["CEM"]) \in Nat /\ net'["CEM"] \in Seq(Good)
      /\ DOMAIN net'["CEM"] = 1 .. Len(net'["CEM"])
  <2>1. net'["CEM"] \in Seq(Good)
    BY <1>0 DEF Typed
  <2> QED BY <1>0, <2>1, QueueFacts, LenProperties
<1> SUFFICES ASSUME ~IsClosed("CEM"), NEW i \in 1 .. Len(net'["CEM"]), (FreshAt("CEM", i))'
             PROVE  /\ (\A s \in selecting : ~(Behind(s, i))') => Allowed(CemPhase, "RM", net'["CEM"][i].kind)
                    /\ \A s \in selecting :
                         (Behind(s, i))' => Allowed(SelectedPhase(s.selection), "RM", net'["CEM"][i].kind)
  BY <1>1, <1>2, <1>3 DEF InPlace
<1>5. CASE i + k <= Len(net["CEM"])
  <2>1. FreshAt("CEM", i + k) /\ net'["CEM"][i] = net["CEM"][i + k] /\ i + k \in 1 .. Len(net["CEM"])
    BY <1>0, <1>1, <1>5, FreshWas
  <2>2. \A s \in selecting : (Behind(s, i))' <=> Behind(s, i + k)
    BY <1>1, <1>5, BehindStays
  <2> QED BY <2>1, <2>2 DEF InPlace
<1>6. CASE ~(i + k <= Len(net["CEM"]))
  <2> DEFINE m == net'["CEM"][i]
  <2>1. k = 0 /\ i > Len(net["CEM"]) /\ m \notin On("CEM")
    BY <1>0, <1>6, FreshIsNew
  <2>2. m \in On("CEM")' /\ Asks(m)
    BY <1>4 DEF On, Range, FreshAt, Asks
  <2>3. Topic("RM", m)
    BY <1>0, <2>1, <2>2 DEF Step, AsksAbout
  <2>4. up
    <3>1. Len(net'["CEM"]) > Len(net["CEM"])
      BY <1>4, <2>1
    <3> QED BY <3>1 DEF Shifts
  <2>5. state["CEM"] \in Before \/ Negotiated("CEM")
    BY <1>0, OpenIsEither
  <2>6. state["CEM"] \in Before => selecting = {} /\ ~Negotiated("CEM") /\ CemPhase = "Connected"
    BY <1>0, OpenIsEither DEF Awaiting, CemPhase
  <2>7. CemPhase # "Negotiating" /\ \A s \in selecting : SelectedPhase(s.selection) # "Negotiating"
    <3>1. \A s \in selecting : s.selection \in Selections
      BY DEF Typed
    <3> QED BY <1>0, <3>1, PhaseFacts DEF CemPhase
  <2> SUFFICES /\ (\A s \in selecting : ~(Behind(s, i))') => Allowed(CemPhase, "RM", m.kind)
               /\ \A s \in selecting : (Behind(s, i))' => Allowed(SelectedPhase(s.selection), "RM", m.kind)
    OBVIOUS
  <2>8. CASE m.kind = "SessionRequest"
    BY <1>0, <2>8, TableFacts
  <2>9. CASE m.kind = "Handshake" /\ Opens("RM") /\ Negotiation = "Handshake"
    <3>1. ~Negotiated("CEM")
      BY <2>9 DEF Opens, Shaking
    <3> QED BY <1>0, <2>5, <2>6, <2>9, <3>1, TableFacts
  <2>10. CASE m.kind = "ResourceManagerDetails"
    BY <2>7, <2>10, TableFacts
  <2>11. CASE /\ Negotiated("RM") /\ Keeps("RM") /\ Allowed(Phase("RM"), "RM", m.kind)
              /\ answered' = answered
    <3>1. (Negotiated("RM"))' /\ state'["RM"] = state["RM"] /\ state'["CEM"] = state["CEM"]
      BY <1>1, <2>11 DEF Keeps, Negotiated
    <3>2. Phase("RM") = SelectedPhase(state["RM"])
      BY <1>0, <2>11, PhaseFacts
    <3>3. CASE state["CEM"] \in Before
      <4>1. state["RM"] = "Connected"
        BY <2>11, <3>3 DEF Waiting, Negotiated, Before
      <4> QED BY <2>6, <2>11, <3>2, <3>3, <4>1, PhaseFacts
    <3>4. CASE Negotiated("CEM")
      <4>1. CemPhase = SelectedPhase(state["CEM"])
        BY <1>0, <3>4, PhaseFacts DEF CemPhase
      <4>2. /\ selecting = {} => state["CEM"] = state["RM"]
            /\ \A s \in selecting :
                 state["RM"] = IF AcceptedByResource(s) THEN SelectedState(s.selection) ELSE state["CEM"]
        BY <1>1, <1>2, <2>11, <3>1, <3>4 DEF Following, AcceptedByResource
      <4>3. ASSUME NEW s \in selecting PROVE (Behind(s, i))' <=> AcceptedByResource(s)
        <5>1. ASSUME (Behind(s, i))' PROVE AcceptedByResource(s)
          <6>1. i \in 1 .. Len(net'["CEM"]) + 1
            BY <1>4
          <6>2. (AcceptedByResource(s))'
            <7>1. PICK j \in 1 .. (i - 1) : net'["CEM"][j] = ReceptionStatus(s.id, "OK")
              BY <5>1 DEF Behind
            <7>2. j \in 1 .. Len(net'["CEM"])
              BY <1>4
            <7>3. ReceptionStatus(s.id, "OK") \in On("CEM")'
              BY <1>4, <7>1, <7>2 DEF On, Range
            <7>4. ~Asks(ReceptionStatus(s.id, "OK")) /\ ReceptionStatus(s.id, "OK").id = s.id
                  /\ ReceptionStatus(s.id, "OK").arg = "OK"
              BY DEF ReceptionStatus, Msg, Asks
            <7> QED BY <1>0, <7>3, <7>4 DEF Truthful, AcceptedByResource
          <6> QED BY <2>11, <6>2 DEF AcceptedByResource
        <5>2. ASSUME AcceptedByResource(s) PROVE (Behind(s, i))'
          <6>1. ReceptionStatus(s.id, "OK") \in On("CEM")
            BY <2>4, <5>2 DEF AckOnTheWay
          <6>2. PICK j \in 1 .. Len(net["CEM"]) : net["CEM"][j] = ReceptionStatus(s.id, "OK")
            BY <1>0, <6>1, IndexedIsOn
          <6>3. j \in 1 .. (i - 1) /\ j \in 1 .. Len(net'["CEM"]) /\ j + k <= Len(net["CEM"]) /\ j + k = j
            BY <1>4, <2>1
          <6>4. net'["CEM"][j] = net["CEM"][j]
            BY <6>3 DEF Shifts
          <6> QED BY <6>2, <6>3, <6>4 DEF Behind
        <5> QED BY <5>1, <5>2
      <4>4. ASSUME NEW s \in selecting, (Behind(s, i))' PROVE Allowed(SelectedPhase(s.selection), "RM", m.kind)
        <5>1. state["RM"] = SelectedState(s.selection) /\ s.selection \in Selections
          BY <4>2, <4>3, <4>4 DEF Typed
        <5>2. Phase("RM") = SelectedPhase(s.selection)
          BY <3>2, <5>1, PhaseFacts
        <5> QED BY <2>11, <5>2
      <4>5. ASSUME \A s \in selecting : ~(Behind(s, i))' PROVE Allowed(CemPhase, "RM", m.kind)
        <5>1. state["RM"] = state["CEM"]
          BY <4>2, <4>3, <4>5
        <5> QED BY <2>11, <3>2, <4>1, <5>1
      <4> QED BY <4>4, <4>5
    <3> QED BY <2>5, <3>3, <3>4
  <2> QED BY <2>3, <2>8, <2>9, <2>10, <2>11 DEF Topic
<1> QED BY <1>5, <1>6

\* The manager reads on as the row it reads by changes.
LEMMA CemStaysInPlace ==
  ASSUME Typed, Typed', Numbered, Truthful, Awaiting, Awaiting', Shaking, Choosing, InPlace, Step("CEM"),
         NEW q \in {0, 1}, Shifts("CEM", q), ~OverlapsSelections, "CEM" \notin GivesUp
  PROVE  InPlace'
<1>0. "RM" \in Roles /\ "CEM" \in Roles /\ Peer("RM") = "CEM" /\ Peer("CEM") = "RM"
  BY RolesFacts DEF Peer
<1>1. Keeps("RM") /\ On("CEM")' \subseteq On("CEM") /\ answered["CEM"] \subseteq answered'["CEM"]
  BY <1>0 DEF Step, Course, CemCourse, Moved
<1>2. Len(net["CEM"]) \in Nat /\ Len(net'["CEM"]) \in Nat /\ DOMAIN net'["CEM"] = 1 .. Len(net'["CEM"])
  <2>1. net'["CEM"] \in Seq(Good)
    BY <1>0 DEF Typed
  <2> QED BY <1>0, <2>1, QueueFacts, LenProperties
<1>3. ASSUME NEW i \in 1 .. Len(net'["CEM"]), (FreshAt("CEM", i))', ~IsClosed("CEM"),
             NEW k \in {0, 1}, Shifts("CEM", k)
      PROVE  /\ i + k <= Len(net["CEM"]) /\ i + k \in 1 .. Len(net["CEM"])
             /\ net'["CEM"][i] = net["CEM"][i + k]
             /\ (\A s \in selecting : ~Behind(s, i + k)) => Allowed(CemPhase, "RM", net'["CEM"][i].kind)
             /\ \A s \in selecting :
                  Behind(s, i + k) => Allowed(SelectedPhase(s.selection), "RM", net'["CEM"][i].kind)
  <2>1. net'["CEM"][i] \in On("CEM")
    BY <1>1, <1>2 DEF On, Range
  <2>2. i + k <= Len(net["CEM"])
    BY <1>0, <1>3, <2>1, FreshIsNew
  <2>3. FreshAt("CEM", i + k) /\ net'["CEM"][i] = net["CEM"][i + k] /\ i + k \in 1 .. Len(net["CEM"])
    BY <1>0, <1>1, <1>3, <2>2, FreshWas
  <2> QED BY <1>3, <2>2, <2>3 DEF InPlace
<1> SUFFICES ASSUME ~(IsClosed("CEM"))', NEW i \in 1 .. Len(net'["CEM"]), (FreshAt("CEM", i))'
             PROVE  /\ (\A s \in selecting' : ~(Behind(s, i))') => Allowed(CemPhase', "RM", net'["CEM"][i].kind)
                    /\ \A s \in selecting' :
                         (Behind(s, i))' => Allowed(SelectedPhase(s.selection), "RM", net'["CEM"][i].kind)
  BY DEF InPlace
<1>4. ~IsClosed("CEM")
  <2>1. Keeps("CEM") \/ Ends("CEM") \/ ~IsClosed("CEM")
    BY <1>0, StateMoves
  <2> QED BY <2>1 DEF Keeps, Ends, IsClosed
<1>5. ~Ends("CEM")
  BY DEF Ends, IsClosed
<1>6. Keeps("CEM") => CemPhase' = CemPhase
  BY DEF Keeps, CemPhase, Phase, Negotiated
<1>7. CASE selecting' = selecting /\ CemPhase' = CemPhase
  <2>1. \A s \in selecting : (Behind(s, i))' <=> Behind(s, i + q)
    BY <1>3, <1>4, <1>7, BehindStays
  <2> QED BY <1>3, <1>4, <1>7, <2>1
<1>8. CASE selecting' = selecting /\ (Opens("CEM") \/ Agrees("CEM"))
  <2>1. state["CEM"] \in Before
    <3>1. CASE Opens("CEM")
      BY <3>1 DEF Opens, Before
    <3>2. CASE Agrees("CEM")
      <4>1. PICK m : Accepts("CEM", m) /\ m.kind = "Handshake"
        BY <3>2 DEF Agrees
      <4>2. ~HasAnswered("CEM", m.id) /\ m \in On("CEM")
        BY <4>1 DEF Accepts, Fresh
      <4>3. ~Negotiated("CEM")
        BY <4>1, <4>2 DEF Shaking
      <4> QED BY <1>0, <1>4, <4>3, OpenIsEither
    <3> QED BY <1>8, <3>1, <3>2
  <2>2. CemPhase = "Connected"
    BY <1>0, <2>1, OpenIsEither DEF CemPhase
  <2>3. state'["CEM"] \in {"Handshaking", "Connected"}
    BY <1>8 DEF Opens, Agrees
  <2>4. CemPhase' = "Connected"
    BY <2>3 DEF CemPhase, Phase, Negotiated, SelectedPhase, ControlTypes
  <2> QED BY <1>7, <1>8, <2>2, <2>4
<1>9. CASE Chooses
  <2>1. selecting = {} /\ Keeps("CEM") /\ \A s \in selecting' : s.id = NextId("CEM")
    BY <1>9 DEF Chooses
  <2>2. ASSUME NEW s \in selecting', (Behind(s, i))' PROVE FALSE
    <3>1. PICK j \in 1 .. (i - 1) : net'["CEM"][j] = ReceptionStatus(s.id, "OK")
      BY <2>2 DEF Behind
    <3>2. j \in 1 .. Len(net'["CEM"])
      BY <1>2
    <3>3. ReceptionStatus(s.id, "OK") \in On("CEM")
      BY <1>1, <1>2, <3>1, <3>2 DEF On, Range
    <3>4. ~Asks(ReceptionStatus(s.id, "OK")) /\ ReceptionStatus(s.id, "OK").id = s.id
          /\ ReceptionStatus(s.id, "OK").arg = "OK"
      BY DEF ReceptionStatus, Msg, Asks
    <3>5. [id |-> s.id, status |-> "OK"] \in answered["RM"] /\ [id |-> s.id, status |-> "OK"].id = s.id
      BY <1>0, <3>3, <3>4 DEF Truthful
    <3>6. s.id = NIL \/ s.id \in Used("CEM")
      BY <1>0, <3>5 DEF Numbered
    <3> QED BY <1>0, <2>1, <3>6, NextIsUnused
  <2> QED BY <1>3, <1>4, <1>6, <2>1, <2>2
<1>10. ASSUME NEW h, HearsOf(h)
       PROVE  /\ (\A s \in selecting' : ~(Behind(s, i))') => Allowed(CemPhase', "RM", net'["CEM"][i].kind)
              /\ \A s \in selecting' :
                   (Behind(s, i))' => Allowed(SelectedPhase(s.selection), "RM", net'["CEM"][i].kind)
  <2>1. /\ h \in On("CEM") /\ ~Asks(h) /\ h = net["CEM"][1] /\ Shifts("CEM", 1)
        /\ selecting' = {s \in selecting : s.id # h.id}
    BY <1>0, <1>10, QueueFacts DEF HearsOf
  <2>2. CASE \A s \in selecting : s.id # h.id
    <3>1. selecting' = selecting /\ Keeps("CEM")
      BY <1>5, <1>10, <2>1, <2>2 DEF HearsOf
    <3> QED BY <1>6, <1>7, <3>1
  <2>3. ASSUME NEW s \in selecting, s.id = h.id
        PROVE  Allowed(CemPhase', "RM", net'["CEM"][i].kind)
    <3>0. s.selection \in Selections /\ \A t \in selecting : t = s
      BY DEF Typed, Choosing
    <3>1. CASE h.arg # "OK" /\ Keeps("CEM")
      <4>1. ~AcceptedByResource(s)
        <5> DEFINE a == [id |-> s.id, status |-> "OK"]
                   b == [id |-> h.id, status |-> h.arg]
        <5>1. b \in answered["RM"] /\ a.id = b.id /\ a.status # b.status
          BY <1>0, <2>1, <2>3, <3>1 DEF Truthful
        <5>2. a \notin answered["RM"]
          BY <1>0, <5>1 DEF Truthful
        <5> QED BY <5>2 DEF AcceptedByResource
      <4>2. i + 1 \in 1 .. Len(net["CEM"]) + 1
        BY <1>2, <1>3, <1>4, <2>1
      <4>3. ~Behind(s, i + 1)
        BY <4>1, <4>2, BehindIsAccepted
      <4> QED BY <1>3, <1>4, <1>6, <2>1, <3>0, <3>1, <4>3
    <3>2. CASE h.arg = "OK" /\ state'["CEM"] = SelectedState(s.selection)
      <4>1. h = ReceptionStatus(s.id, "OK")
        <5>1. h \in [kind : Kinds, id : Ids, arg : Args]
          BY <1>0, <2>1, OnIsGood DEF Good, Messages
        <5> QED BY <2>1, <2>3, <3>2, <5>1 DEF Asks, ReceptionStatus, Msg
      <4>2. Behind(s, i + 1)
        <5>1. 1 \in 1 .. ((i + 1) - 1)
          BY <1>2
        <5>2. net["CEM"][1] = ReceptionStatus(s.id, "OK")
          BY <2>1, <4>1
        <5> QED BY <5>1, <5>2 DEF Behind
      <4>3. Allowed(SelectedPhase(s.selection), "RM", net'["CEM"][i].kind)
        BY <1>3, <1>4, <2>1, <4>2
      <4>4. CemPhase' = SelectedPhase(s.selection)
        <5>1. (Negotiated("CEM"))'
          BY <3>0, <3>2, SelectedIsOpen DEF Negotiated
        <5>2. (Phase("CEM"))' = SelectedPhase(state'["CEM"])
          BY <5>1 DEF Negotiated, Phase
        <5> QED BY <3>0, <3>2, <5>1, <5>2, PhaseFacts DEF CemPhase
      <4> QED BY <4>3, <4>4
    <3>3. (h.arg # "OK" /\ Keeps("CEM")) \/ (h.arg = "OK" /\ state'["CEM"] = SelectedState(s.selection))
      BY <1>5, <1>10, <2>3, <3>0 DEF HearsOf
    <3> QED BY <3>1, <3>2, <3>3
  <2>4. ASSUME NEW s \in selecting, s.id = h.id PROVE selecting' = {}
    BY <2>1, <2>4 DEF Choosing
  <2> QED BY <2>2, <2>3, <2>4
<1>11. \/ selecting' = selecting /\ Keeps("CEM")
       \/ selecting' = selecting /\ (Opens("CEM") \/ Agrees("CEM"))
       \/ Chooses \/ \E h : HearsOf(h)
  BY <1>5 DEF Step, Course, CemCourse
<1> QED BY <1>6, <1>7, <1>8, <1>9, <1>10, <1>11

\* What the resource says is read where it belongs.
Publishing == InPlace /\ Early /\ AckOnTheWay

LEMMA InitPublishing == Init => Publishing
<1> SUFFICES ASSUME Init PROVE Publishing
  OBVIOUS
<1>1. net["CEM"] = <<>> /\ On("CEM") = {} /\ selecting = {}
  BY RolesFacts, EmptyRange DEF Init, On
<1>2. \A i \in 1 .. Len(net["CEM"]) : FALSE
  BY <1>1
<1>3. \A r \in Roles : state[r] = "Idle"
  BY DEF Init
<1> QED BY <1>1, <1>2, <1>3 DEF Publishing, InPlace, Early, AckOnTheWay

LEMMA NextPublishing ==
  ASSUME ~OverlapsSelections, "CEM" \notin GivesUp, Inv, Inv', Exchange, Exchange', Meeting,
         Publishing, [Next]_vars
  PROVE  Meeting' /\ Publishing'
<1>1. Meeting'
  BY NextMeeting
<1>2. /\ Typed /\ Typed' /\ Awaiting /\ Awaiting' /\ Numbered /\ Truthful /\ Truthful'
      /\ Shaking /\ Shaking' /\ Choosing /\ Waiting /\ Following' /\ InPlace /\ Early /\ AckOnTheWay
  BY <1>1 DEF Inv, Exchange, Meeting, Publishing
<1>3. PICK r \in Roles : Step(r)
  BY <1>2, EverythingSteps
<1>4. PICK k \in {0, 1} : Shifts("CEM", k)
  BY <1>2, RolesFacts, EverythingShifts
<1>5. Early' /\ AckOnTheWay'
  BY <1>2, <1>3, <1>4, EarlyStays, AckStays
<1>6. CASE r = "RM"
  BY <1>1, <1>2, <1>3, <1>4, <1>5, <1>6, RmStaysInPlace DEF Publishing
<1>7. CASE r = "CEM"
  BY <1>1, <1>2, <1>3, <1>4, <1>5, <1>7, CemStaysInPlace DEF Publishing
<1> QED BY <1>6, <1>7 DEF Roles

LEMMA PublishingIsInPlace == Inv /\ Exchange /\ Publishing => PublicationsInPlace
<1> SUFFICES ASSUME Inv, Exchange, Publishing, Reading("CEM"),
                    Negotiation = "Handshake" \/ state["CEM"] # "Idle"
             PROVE  Allowed(Phase("CEM"), Peer("CEM"), Head(net["CEM"]).kind)
  BY DEF PublicationsInPlace, OutOfPlace
<1>0. Peer("CEM") = "RM"
  BY DEF Peer
<1>1. Typed /\ InPlace /\ Early
  BY DEF Inv, Publishing
<1>2. /\ 1 \in 1 .. Len(net["CEM"]) /\ Head(net["CEM"]) = net["CEM"][1] /\ FreshAt("CEM", 1)
      /\ ~IsClosed("CEM") /\ net["CEM"][1] \in On("CEM")
  BY <1>1, RolesFacts, ReadingIsFirst
<1>3. CASE Negotiated("CEM")
  <2>1. \A s \in selecting : ~Behind(s, 1)
    BY DEF Behind
  <2>2. Allowed(CemPhase, "RM", net["CEM"][1].kind)
    BY <1>1, <1>2, <2>1 DEF InPlace
  <2> QED BY <1>0, <1>2, <1>3, <2>2 DEF CemPhase
<1>4. CASE ~Negotiated("CEM")
  <2>1. state["CEM"] \in Before
    BY <1>1, <1>2, <1>4, RolesFacts, OpenIsEither
  <2>2. Negotiation = "Handshake"
    BY <1>1, <2>1, RolesFacts DEF Early, Before
  <2>3. net["CEM"][1].kind \in {"Handshake", "SessionRequest"}
    BY <1>1, <1>2, <2>1, <2>2 DEF Early, FreshAt, Asks
  <2>4. Phase("CEM") = "Negotiating"
    BY <2>1 DEF Phase, Before
  <2> QED BY <1>0, <1>2, <2>3, <2>4, TableFacts, RolesFacts
<1> QED BY <1>3, <1>4

(***************************************************************************)
(* What the resource may send, the manager may read: whatever the resource *)
(* sent at whatever moment of a selection, the manager is past the answer  *)
(* that allowed it when it judges it.  As for ManagerFollows, the manager  *)
(* selects again only with its answer and waits for it.                    *)
(***************************************************************************)
THEOREM NothingOutOfPlace ==
  ASSUME ~OverlapsSelections, "CEM" \notin GivesUp
  PROVE  Spec => []PublicationsInPlace
<1>1. /\ Inv /\ Inv' /\ Exchange /\ Exchange' /\ Meeting /\ Publishing /\ [Next]_vars
         => Meeting' /\ Publishing'
  BY NextPublishing
<1> QED BY <1>1, InitMeeting, InitPublishing, PublishingIsInPlace, Invariance, AlwaysExchange, PTL DEF Spec

-----------------------------------------------------------------------------
(***************************************************************************)
(* What the manager sends, when the resource reads it.                     *)
(***************************************************************************)
\* An instruction or a revocation sent while no selection was unanswered.
Plain(m) == m.kind \in CemKinds /\ m.arg # Racing

Spoken ==
  \A m \in On("RM") :
    m.kind \in CemKinds \cup {"ReceptionStatus", "SessionRequest", "Handshake",
                              "HandshakeResponse", "SelectControlType"}

\* The manager's handshake is read before its choice.
HandshakeFirst ==
  ~IsClosed("RM") => \A i \in 1 .. Len(net["RM"]) :
    FreshAt("RM", i) /\ net["RM"][i].kind = "Handshake" =>
      /\ ~Negotiated("RM")
      /\ \A j \in 1 .. (i - 1) : net["RM"][j].kind # "HandshakeResponse"

\* An instruction is allowed by the row the resource reads by, which no selection ahead of
\* it will change.
InstructionsInPlace ==
  ~IsClosed("RM") =>
    /\ \A m \in On("RM") : Plain(m) => Negotiated("RM")
    /\ \A i \in 1 .. Len(net["RM"]) : FreshAt("RM", i) /\ Plain(net["RM"][i]) =>
         /\ Allowed(Phase("RM"), "CEM", net["RM"][i].kind)
         /\ \A j \in 1 .. (i - 1) : FreshAt("RM", j) => net["RM"][j].kind # "SelectControlType"

\* The choice of a version that the resource will read at place j.
ChoiceAt(j) == FreshAt("RM", j) /\ net["RM"][j].kind = "HandshakeResponse"

\* Until the resource has the manager's choice, whatever needs one is behind it.
ChoiceFirst ==
  Negotiation = "Handshake" /\ state["RM"] \in Before =>
    /\ \A i \in 1 .. Len(net["RM"]) :
         /\ FreshAt("RM", i)
         /\ net["RM"][i].kind \notin {"SessionRequest", "Handshake", "HandshakeResponse"}
         => \E j \in 1 .. (i - 1) : ChoiceAt(j)
    /\ up /\ Negotiated("CEM") => \E j \in 1 .. Len(net["RM"]) : ChoiceAt(j)

\* What a manager says past the handshake and the selections belongs to a control type.
LEMMA ManagersTable ==
  ASSUME NEW kind \in CemKinds, NEW phase, Allowed(phase, "CEM", kind)
  PROVE  Activated(phase)
<1>1. kind \in Kinds /\ kind \notin CemProcessed
      /\ kind \notin {"HandshakeResponse", "SelectControlType", "ReceptionStatus"}
  BY CemAssumption
<1>2. "CEM" \in Senders(kind) /\ AllowedInPhase(phase, kind)
  BY DEF Allowed
<1>3. ~IsInstruction("PowerMeasurement") /\ ~IsInstruction("PowerForecast")
  BY DEF IsInstruction, Instructions, ControlTypes
<1>4. kind \notin {"PowerMeasurement", "PowerForecast"}
  BY <1>2, <1>3 DEF Senders, SharedKinds
<1> QED BY <1>1, <1>2, <1>4 DEF AllowedInPhase, HandshakeKinds, StandingKinds, CemProcessed

\* The resource passes the handshake once, by agreeing.
LEMMA RmMoves ==
  ASSUME Typed, Shaking, NEW r \in Roles, Step(r)
  PROVE  /\ state'["RM"] \in Before => state["RM"] \in Before
         /\ \/ (Negotiated("RM"))' => Negotiated("RM")
            \/ Opens("RM") /\ Negotiation # "Handshake"
            \/ Agrees("RM") /\ ~Negotiated("RM") /\ r = "RM"
         /\ ~(IsClosed("RM"))' => ~IsClosed("RM")
<1>1. CASE Keeps("RM")
  BY <1>1 DEF Keeps, Negotiated, IsClosed
<1>2. CASE Ends("RM")
  BY <1>2 DEF Ends, Negotiated, IsClosed, Before
<1>3. CASE Opens("RM")
  BY <1>3 DEF Opens, Negotiated, IsClosed, Before
<1>4. CASE Agrees("RM") /\ r = "RM"
  <2>1. PICK m : Accepts("RM", m) /\ m.kind = "HandshakeResponse"
    BY <1>4 DEF Agrees
  <2>2. ~HasAnswered("RM", m.id) /\ m \in On("RM") /\ ~IsClosed("RM")
    BY <2>1 DEF Accepts, Fresh
  <2>3. ~Negotiated("RM")
    BY <2>1, <2>2 DEF Shaking
  <2> QED BY <1>4, <2>2, <2>3, RolesFacts, OpenIsEither DEF Agrees, Before
<1>5. CASE FollowsSelection
  <2>1. PICK m : Accepts("RM", m) /\ m.kind = "SelectControlType" /\ state'["RM"] = SelectedState(m.arg)
    BY <1>5 DEF FollowsSelection
  <2>2. Negotiated("RM") /\ m.arg \in Selections
    BY <2>1, RolesFacts, SelectionIsLate
  <2> QED BY <2>1, <2>2, SelectedIsOpen DEF Negotiated, Before, IsClosed
<1> QED BY <1>1, <1>2, <1>3, <1>4, <1>5 DEF Step, Course, RmCourse, CemCourse, Roles

LEMMA SpokenStays ==
  ASSUME Typed, Spoken, NEW r \in Roles, Step(r)
  PROVE  Spoken'
<1> SUFFICES ASSUME NEW m \in On("RM")', m \notin On("RM"), Asks(m)
             PROVE  m.kind \in CemKinds \cup {"ReceptionStatus", "SessionRequest", "Handshake",
                                              "HandshakeResponse", "SelectControlType"}
  BY DEF Spoken, Asks
<1>1. r = "CEM" /\ Peer("CEM") = "RM"
  BY DEF Step, Moved, Roles, Peer
<1>2. Topic("CEM", m)
  BY <1>1 DEF Step, AsksAbout
<1> QED BY <1>2 DEF Topic

\* What the resource will read after a step it would have read before, one place further
\* back at most, or the manager has just put it behind the rest.
StillAhead(i, k) ==
  /\ i + k \in 1 .. Len(net["RM"]) /\ FreshAt("RM", i + k) /\ net'["RM"][i] = net["RM"][i + k]
  /\ \A j \in 1 .. (i - 1) : /\ j + k \in 1 .. ((i + k) - 1) /\ net'["RM"][j] = net["RM"][j + k]
                             /\ (FreshAt("RM", j))' => FreshAt("RM", j + k)

JustSaid(i, k) ==
  /\ k = 0 /\ i > Len(net["RM"]) /\ up
  /\ net'["RM"][i] \in On("RM")' /\ net'["RM"][i] \notin On("RM") /\ Topic("CEM", net'["RM"][i])

LEMMA WhatIsRead ==
  ASSUME Typed, Typed', NEW r \in Roles, Step(r), NEW k \in {0, 1}, Shifts("RM", k), ~IsClosed("RM"),
         NEW i \in 1 .. Len(net'["RM"]), (FreshAt("RM", i))'
  PROVE  StillAhead(i, k) \/ (JustSaid(i, k) /\ r = "CEM")
<1>0. "RM" \in Roles /\ Peer("CEM") = "RM" /\ Peer("RM") = "CEM" /\ (r = "RM" \/ r = "CEM")
  BY RolesFacts DEF Peer, Roles
<1>1. answered["RM"] \subseteq answered'["RM"]
  BY <1>0 DEF Step, Moved
<1>2. Len(net["RM"]) \in Nat /\ Len(net'["RM"]) \in Nat /\ DOMAIN net'["RM"] = 1 .. Len(net'["RM"])
  <2>1. net'["RM"] \in Seq(Good)
    BY <1>0 DEF Typed
  <2> QED BY <1>0, <2>1, QueueFacts, LenProperties
<1>3. CASE i + k <= Len(net["RM"])
  <2>1. FreshAt("RM", i + k) /\ net'["RM"][i] = net["RM"][i + k] /\ i + k \in 1 .. Len(net["RM"])
    BY <1>0, <1>1, <1>3, FreshWas
  <2>2. ASSUME NEW j \in 1 .. (i - 1)
        PROVE  /\ j + k \in 1 .. ((i + k) - 1) /\ net'["RM"][j] = net["RM"][j + k]
               /\ (FreshAt("RM", j))' => FreshAt("RM", j + k)
    <3>1. j + k \in 1 .. ((i + k) - 1) /\ j \in 1 .. Len(net'["RM"]) /\ j + k <= Len(net["RM"])
      BY <1>2, <1>3
    <3>2. net'["RM"][j] = net["RM"][j + k]
      BY <3>1 DEF Shifts
    <3> QED BY <1>0, <1>1, <3>1, <3>2, FreshWas
  <2> QED BY <2>1, <2>2 DEF StillAhead
<1>4. CASE ~(i + k <= Len(net["RM"]))
  <2>1. k = 0 /\ i > Len(net["RM"]) /\ net'["RM"][i] \notin On("RM")
    BY <1>0, <1>4, FreshIsNew
  <2>2. net'["RM"][i] \in On("RM")' /\ Asks(net'["RM"][i])
    BY <1>2 DEF On, Range, FreshAt, Asks
  <2>3. Len(net'["RM"]) > Len(net["RM"])
    BY <1>2, <2>1
  <2>4. r = "CEM"
    BY <1>0, <2>1, <2>2 DEF Step, Moved
  <2> QED BY <1>0, <2>1, <2>2, <2>3, <2>4 DEF JustSaid, Shifts, Step, AsksAbout
<1> QED BY <1>3, <1>4

LEMMA HandshakeStaysFirst ==
  ASSUME Typed, Typed', Shaking, HandshakeFirst, NEW r \in Roles, Step(r), NEW k \in {0, 1}, Shifts("RM", k)
  PROVE  HandshakeFirst'
<1>0. "RM" \in Roles /\ Peer("CEM") = "RM"
  BY RolesFacts DEF Peer
<1> SUFFICES ASSUME ~(IsClosed("RM"))', NEW i \in 1 .. Len(net'["RM"]), (FreshAt("RM", i))',
                    net'["RM"][i].kind = "Handshake"
             PROVE  /\ ~(Negotiated("RM"))'
                    /\ \A j \in 1 .. (i - 1) : net'["RM"][j].kind # "HandshakeResponse"
  BY DEF HandshakeFirst
<1>1. ~IsClosed("RM")
  BY RmMoves
<1>2. Len(net["RM"]) \in Nat /\ Len(net'["RM"]) \in Nat /\ DOMAIN net'["RM"] = 1 .. Len(net'["RM"])
      /\ net'["RM"] \in Seq(Good)
  <2>1. net'["RM"] \in Seq(Good)
    BY <1>0 DEF Typed
  <2> QED BY <1>0, <2>1, QueueFacts, LenProperties
<1>3. CASE StillAhead(i, k)
  <2>1. /\ ~Negotiated("RM")
        /\ \A j \in 1 .. ((i + k) - 1) : net["RM"][j].kind # "HandshakeResponse"
    BY <1>1, <1>3 DEF StillAhead, HandshakeFirst
  <2>2. \A j \in 1 .. (i - 1) : net'["RM"][j].kind # "HandshakeResponse"
    BY <1>3, <2>1 DEF StillAhead
  <2>3. ~Agrees("RM")
    <3> SUFFICES ASSUME NEW m, Accepts("RM", m), m.kind = "HandshakeResponse" PROVE FALSE
      BY DEF Agrees
    <3>1. net["RM"][1].kind = "HandshakeResponse"
      BY <1>0, QueueFacts DEF Accepts
    <3>2. i + k # 1
      BY <1>3, <3>1 DEF StillAhead
    <3>3. 1 \in 1 .. ((i + k) - 1)
      BY <1>2, <1>3, <3>2 DEF StillAhead
    <3> QED BY <2>1, <3>1, <3>3
  <2>4. Negotiation = "Handshake"
    <3>1. net'["RM"][i] \in Good
      BY <1>2
    <3> QED BY <3>1 DEF Good, HandshakeKinds
  <2> QED BY <2>1, <2>2, <2>3, <2>4, RmMoves
<1>4. CASE JustSaid(i, k) /\ r = "CEM"
  <2>1. Opens("CEM") /\ Negotiation = "Handshake"
    <3>1. "Handshake" \notin CemKinds
      BY CemAssumption DEF CemProcessed
    <3> QED BY <1>4, <3>1 DEF JustSaid, Topic
  <2>2. state["CEM"] \in Before /\ state'["CEM"] = "Handshaking"
    BY <2>1 DEF Opens, Before
  <2>3. ~Negotiated("RM") /\ \A m \in On("RM") : m.kind # "HandshakeResponse"
    BY <2>1, <2>2 DEF Shaking
  <2>4. ~(Negotiated("RM"))'
    BY <1>4, <2>3 DEF Step, Course, CemCourse, Keeps, Negotiated
  <2>5. ASSUME NEW j \in 1 .. (i - 1), net'["RM"][j].kind = "HandshakeResponse" PROVE FALSE
    <3>1. net'["RM"][j] \in On("RM")'
      <4>1. j \in 1 .. Len(net'["RM"])
        BY <1>2
      <4> QED BY <1>2, <4>1 DEF On, Range
    <3>2. Topic("CEM", net'["RM"][j])
      BY <1>0, <1>4, <2>3, <2>5, <3>1 DEF Step, AsksAbout, Asks
    <3>3. Agrees("CEM")
      BY <2>5, <3>2 DEF Topic, SpecialKinds
    <3> QED BY <2>2, <3>3 DEF Agrees
  <2> QED BY <2>4, <2>5
<1> QED BY <1>1, <1>3, <1>4, WhatIsRead

LEMMA AgreesOnce ==
  ASSUME Typed, Shaking, Agrees("RM")
  PROVE  ~Negotiated("RM")
<1>1. PICK m : Accepts("RM", m) /\ m.kind = "HandshakeResponse"
  BY DEF Agrees
<1>2. ~HasAnswered("RM", m.id) /\ m \in On("RM")
  BY <1>1 DEF Accepts, Fresh
<1> QED BY <1>1, <1>2 DEF Shaking

\* What is accepted is what was first to be read.
LEMMA AcceptsFirst ==
  ASSUME Typed, NEW m, Accepts("RM", m)
  PROVE  FreshAt("RM", 1) /\ net["RM"][1] = m /\ 1 \in 1 .. Len(net["RM"])
<1>1. Reading("RM")
  BY DEF Accepts, Reading
<1> QED BY <1>1, RolesFacts, ReadingIsFirst DEF Accepts

\* When the manager sends a plain instruction, the resource is where the manager is.
LEMMA PlainIsAgreed ==
  ASSUME Typed, Waiting, Following, ~IsClosed("RM"), NEW m, Plain(m), Topic("CEM", m), Step("CEM")
  PROVE  /\ selecting = {} /\ selecting' = {} /\ answered' = answered
         /\ Negotiated("RM") /\ state'["RM"] = state["RM"] /\ Allowed(Phase("RM"), "CEM", m.kind)
<1>1. m.kind \in CemKinds /\ m.kind \notin SpecialKinds /\ m.arg # Racing
  BY CemAssumption DEF Plain, SpecialKinds, CemProcessed
<1>2. /\ Negotiated("CEM") /\ selecting' = selecting /\ Allowed(Phase("CEM"), "CEM", m.kind)
      /\ answered' = answered /\ selecting = {}
  BY <1>1 DEF Topic, SpecialKinds
<1>3. state'["RM"] = state["RM"]
  BY DEF Step, Course, CemCourse, Keeps
<1>4. state["CEM"] # "Connected"
  <2>1. Activated(Phase("CEM"))
    BY <1>1, <1>2, ManagersTable
  <2> QED BY <1>2, <2>1, RolesFacts, PhaseFacts, TableFacts
<1>5. Negotiated("RM")
  <2>1. state["RM"] \notin Before
    BY <1>2, <1>4 DEF Waiting
  <2> QED BY <2>1, RolesFacts, OpenIsEither
<1>6. state["RM"] = state["CEM"]
  BY <1>2, <1>5 DEF Following
<1>7. Phase("RM") = Phase("CEM")
  BY <1>6 DEF Phase
<1> QED BY <1>2, <1>3, <1>5, <1>7

LEMMA InstructionsStayInPlace ==
  ASSUME Typed, Typed', Shaking, Choosing, Waiting, Following, InstructionsInPlace,
         NEW r \in Roles, Step(r), NEW k \in {0, 1}, Shifts("RM", k)
  PROVE  InstructionsInPlace'
<1>0. "RM" \in Roles /\ Peer("CEM") = "RM" /\ (r = "RM" \/ r = "CEM")
  BY RolesFacts DEF Peer, Roles
<1> SUFFICES ASSUME ~(IsClosed("RM"))'
             PROVE  /\ \A m \in On("RM")' : Plain(m) => (Negotiated("RM"))'
                    /\ \A i \in 1 .. Len(net'["RM"]) : (FreshAt("RM", i))' /\ Plain(net'["RM"][i]) =>
                         /\ Allowed((Phase("RM"))', "CEM", net'["RM"][i].kind)
                         /\ \A j \in 1 .. (i - 1) :
                              (FreshAt("RM", j))' => net'["RM"][j].kind # "SelectControlType"
  BY DEF InstructionsInPlace, Plain
<1>1. ~IsClosed("RM")
  BY RmMoves
<1>2. ASSUME NEW m \in On("RM")', Plain(m) PROVE (Negotiated("RM"))'
  <2>1. Negotiated("RM")
    <3>1. CASE m \in On("RM")
      BY <1>1, <1>2, <3>1 DEF InstructionsInPlace
    <3>2. CASE m \notin On("RM")
      <4>1. Asks(m)
        BY <1>2, CemAssumption DEF Plain, Asks
      <4>2. r = "CEM" /\ Topic("CEM", m)
        BY <1>0, <1>2, <3>2, <4>1 DEF Step, Moved, AsksAbout
      <4> QED BY <1>1, <1>2, <4>2, PlainIsAgreed
    <3> QED BY <3>1, <3>2
  <2>2. state["RM"] \notin Before
    BY <2>1 DEF Negotiated, Before
  <2> QED BY <2>2, RmMoves DEF Negotiated, Before, IsClosed
<1>3. Len(net["RM"]) \in Nat /\ Len(net'["RM"]) \in Nat
  <2>1. net'["RM"] \in Seq(Good)
    BY <1>0 DEF Typed
  <2> QED BY <1>0, <2>1, QueueFacts, LenProperties
<1>4. ASSUME NEW i \in 1 .. Len(net'["RM"]), (FreshAt("RM", i))', Plain(net'["RM"][i])
      PROVE  /\ Allowed((Phase("RM"))', "CEM", net'["RM"][i].kind)
             /\ \A j \in 1 .. (i - 1) : (FreshAt("RM", j))' => net'["RM"][j].kind # "SelectControlType"
  <2>1. CASE StillAhead(i, k)
    <3>1. /\ i + k \in 1 .. Len(net["RM"]) /\ FreshAt("RM", i + k) /\ Plain(net["RM"][i + k])
          /\ net["RM"][i + k].kind = net'["RM"][i].kind
      BY <1>4, <2>1 DEF StillAhead
    <3>2. /\ Allowed(Phase("RM"), "CEM", net'["RM"][i].kind)
          /\ \A j \in 1 .. ((i + k) - 1) : FreshAt("RM", j) => net["RM"][j].kind # "SelectControlType"
      BY <1>1, <3>1 DEF InstructionsInPlace
    <3>3. Negotiated("RM")
      BY <1>0, <1>1, <3>1, IndexedIsOn DEF InstructionsInPlace
    <3>4. ~FollowsSelection
      <4> SUFFICES ASSUME NEW m, Accepts("RM", m), m.kind = "SelectControlType" PROVE FALSE
        BY DEF FollowsSelection
      <4>1. FreshAt("RM", 1) /\ net["RM"][1].kind = "SelectControlType"
        BY AcceptsFirst
      <4>2. i + k # 1
        BY <3>1, <4>1, CemAssumption DEF Plain
      <4>3. 1 \in 1 .. ((i + k) - 1)
        BY <1>3, <3>1, <4>2
      <4> QED BY <3>2, <4>1, <4>3
    <3>5. state'["RM"] = state["RM"]
      BY <1>0, <3>3, <3>4, AgreesOnce
         DEF Step, Course, RmCourse, CemCourse, Keeps, Ends, Opens, Negotiated, IsClosed
    <3>6. (Phase("RM"))' = Phase("RM")
      BY <3>5 DEF Phase
    <3> QED BY <2>1, <3>2, <3>6 DEF StillAhead
  <2>2. CASE JustSaid(i, k) /\ r = "CEM"
    <3>1. /\ selecting = {} /\ selecting' = {} /\ state'["RM"] = state["RM"]
          /\ Allowed(Phase("RM"), "CEM", net'["RM"][i].kind)
      BY <1>1, <1>4, <2>2, PlainIsAgreed DEF JustSaid
    <3>2. (Phase("RM"))' = Phase("RM")
      BY <3>1 DEF Phase
    <3>3. ASSUME NEW j \in 1 .. (i - 1), (FreshAt("RM", j))', net'["RM"][j].kind = "SelectControlType"
          PROVE  FALSE
      <4>1. j \in 1 .. Len(net'["RM"])
        BY <1>3
      <4>2. CASE StillAhead(j, k)
        <5>1. /\ net["RM"][j + k] \in On("RM") /\ net["RM"][j + k].kind = "SelectControlType"
              /\ ~HasAnswered("RM", net["RM"][j + k].id)
          BY <1>0, <3>3, <4>2, IndexedIsOn DEF StillAhead, FreshAt
        <5> QED BY <3>1, <5>1 DEF Choosing
      <4>3. CASE JustSaid(j, k)
        <5>1. selecting' # {}
          BY <3>3, <4>3 DEF JustSaid, Topic, SpecialKinds
        <5> QED BY <3>1, <5>1
      <4> QED BY <1>1, <3>3, <4>1, <4>2, <4>3, WhatIsRead
    <3> QED BY <3>1, <3>2, <3>3
  <2> QED BY <1>1, <1>4, <2>1, <2>2, WhatIsRead
<1> QED BY <1>2, <1>4

\* A resource that nobody may make refuse the manager's choice leaves the handshake with it.
LEMMA ChoiceIsJudged ==
  ASSUME Inv, Truthful, [Next]_vars, answered'["RM"] # answered["RM"],
         NEW m, m = Head(net["RM"]), m.kind = "HandshakeResponse", m.arg # Oversized, Valid("RM", m),
         PolicyAnswers["RM"] = {}, "HandshakeResponse" \notin ContentKinds
  PROVE  state'["RM"] \notin Before
<1>0. Typed /\ "RM" \in Roles /\ "CEM" \in Roles /\ Peer("CEM") = "RM"
  BY RolesFacts DEF Inv, Peer
<1>1. CASE UNCHANGED answered
  BY <1>1
<1>2. CASE Cem
  BY <1>0, <1>2, CemTurn, TurnMoves DEF Moved
<1>3. ASSUME NEW r \in Roles, Either(r) PROVE UNCHANGED answered
  BY <1>3 DEF Either, RequestSession, CloseLocally, TransportClosed, Redeliver
<1>4. CASE RmReceive
  <2>1. CASE \/ Ignore("RM", m) \/ AnswerDuplicate("RM", m) \/ Unmatched("RM", m) \/ RmReceptionStatus(m)
             \/ AnswerUnreadable("RM", m) \/ RefuseInvalid("RM", m) \/ RefuseByPolicy("RM", m)
    BY <2>1 DEF Ignore, AnswerDuplicate, Unmatched, RmReceptionStatus, AnswerUnreadable, RefuseInvalid,
                RefuseByPolicy
  <2>2. CASE AcceptSessionRequest("RM", m) \/ AcceptOther("RM", m, RmProcessed) \/ RmAcceptSelection(m)
    BY <2>2 DEF AcceptSessionRequest, AcceptOther, RmAcceptSelection, RmProcessed
  <2>3. CASE RmAcceptHandshakeResponse(m)
    BY <1>0, <2>3 DEF RmAcceptHandshakeResponse, Close, Before, Typed
  <2> QED BY <1>4, <2>1, <2>2, <2>3 DEF RmReceive
<1>5. CASE RmOpen \/ RmTimeout \/ Publish \/ AnnounceDetails
  BY <1>5 DEF RmOpen, RmTimeout, Publish, AnnounceDetails
<1> QED BY <1>1, <1>2, <1>3, <1>4, <1>5 DEF Next, Ended, Rm, Disconnect, vars

LEMMA ChoiceIsRead ==
  ASSUME Inv, Truthful, [Next]_vars, state["RM"] \in Before, ChoiceAt(1), Shifts("RM", 1),
         PolicyAnswers["RM"] = {}, "HandshakeResponse" \notin ContentKinds
  PROVE  state'["RM"] \notin Before
<1> DEFINE m == net["RM"][1]
<1>0. Typed /\ "RM" \in Roles /\ Peer("RM") = "CEM"
  BY RolesFacts DEF Inv, Peer
<1>1. m = Head(net["RM"])
  BY <1>0, QueueFacts DEF Shifts
<1>2. m.kind = "HandshakeResponse" /\ m.arg # Oversized /\ ~HasAnswered("RM", m.id)
  BY DEF ChoiceAt, FreshAt
<1>3. \E a \in answered'["RM"] : a.id = m.id
  <2>1. Settled("RM") /\ ~IsClosed("RM")
    BY DEF Shifts, Before, IsClosed
  <2> QED BY <1>2, <2>1 DEF Settled, Asks
<1>4. answered'["RM"] # answered["RM"]
  BY <1>2, <1>3 DEF HasAnswered
<1>5. Valid("RM", m)
  <2>1. Phase("RM") = "Negotiating"
    BY DEF Phase, Before
  <2>2. Allowed("Negotiating", "CEM", "HandshakeResponse")
    BY TableFacts DEF Allowed, AllowedInPhase, HandshakeKinds, Senders, SharedKinds
  <2> QED BY <1>0, <1>2, <2>1, <2>2 DEF Valid, OutOfPlace, NotOffered
<1> HIDE DEF m
<1> QED BY <1>1, <1>2, <1>4, <1>5, ChoiceIsJudged

\* A manager that agrees tells the resource.
LEMMA AgreementIsSent ==
  ASSUME Inv, Truthful, [Next]_vars, state["CEM"] \in Before, state'["CEM"] = "Connected",
         Negotiation = "Handshake", up
  PROVE  \E a, m \in Good : /\ ~Asks(a) /\ net'["RM"] = net["RM"] \o (<<a>> \o <<m>>)
                            /\ m.kind = "HandshakeResponse" /\ m.id = NextId("CEM") /\ m.arg # Oversized
                            /\ answered'["RM"] = answered["RM"]
<1>0. Typed /\ Awaiting /\ "RM" \in Roles /\ "CEM" \in Roles /\ Peer("CEM") = "RM" /\ Peer("RM") = "CEM"
  BY RolesFacts DEF Inv, Peer
<1>1. ~Keeps("CEM") /\ ~Ends("CEM")
  BY DEF Keeps, Ends, Before
<1>2. ~UNCHANGED state
  BY DEF Before
<1>3. ~Rm
  BY <1>0, <1>1, RmTakesCourse DEF RmCourse
<1>4. ASSUME NEW r \in Roles, Either(r) PROVE FALSE
  BY <1>0, <1>1, <1>4, EitherTakesCourse DEF Roles
<1>5. CemReceive
  <2>1. ~CemOpen
    BY <1>0 DEF CemOpen, Typed
  <2> QED BY <1>2, <1>3, <1>4, <2>1
       DEF Next, Cem, CemTimeout, SelectControlType, Instruct, Disconnect, Ended, vars
<1> DEFINE h == Head(net["CEM"])
<1>6. net["CEM"] # <<>>
  BY <1>5 DEF CemReceive
<1>7. h \in Good
  BY <1>0, <1>6, HeadIsGood
<1> HIDE DEF h
<1>8. CemAcceptHandshake(h) \/ CemReceptionStatus(h) \/ CemAcceptDetails(h)
  <2>1. ~(\/ Ignore("CEM", h) \/ AnswerUnreadable("CEM", h) \/ AnswerDuplicate("CEM", h)
          \/ RefuseInvalid("CEM", h) \/ RefuseByPolicy("CEM", h) \/ Unmatched("CEM", h)
          \/ AcceptSessionRequest("CEM", h) \/ AcceptOther("CEM", h, CemProcessed))
    BY <1>0, <1>1, <1>6, SharedCourse DEF h
  <2> QED BY <1>5, <2>1 DEF CemReceive, h
<1>9. ~CemReceptionStatus(h)
  <2>1. selecting = {}
    BY <1>0 DEF Awaiting
  <2> QED BY <1>0, <1>2, <2>1 DEF CemReceptionStatus, Close, Typed
<1>10. ~CemAcceptDetails(h)
  BY <1>2 DEF CemAcceptDetails
<1>11. /\ h.kind = "Handshake" /\ WireProfile(Chosen) # NoProfile
       /\ Acknowledge("CEM", h, <<Msg("HandshakeResponse", NextId("CEM"), Chosen)>>)
  BY <1>0, <1>8, <1>9, <1>10 DEF CemAcceptHandshake, Close, Typed
<1> DEFINE a == ReceptionStatus(h.id, "OK")
           m == Msg("HandshakeResponse", NextId("CEM"), Chosen)
<1>12. m \in Good
  BY <1>0, <1>6, <1>11, ChoiceIsGood DEF h
<1>13. a \in Good /\ ~Asks(a)
  <2>1. h.id \in Ids
    BY <1>7 DEF Good, Messages
  <2> QED BY <2>1, AnswerIsGood DEF Statuses, ReceptionStatus, Msg, Asks
<1>14. m.kind = "HandshakeResponse" /\ m.id = NextId("CEM") /\ m.arg # Oversized
  BY <1>11 DEF Msg, WireProfile, NoProfile, Oversized
<1>15. Consume("CEM", <<a>> \o <<m>>) /\ answered'["RM"] = answered["RM"]
  BY <1>0, <1>11 DEF Acknowledge, Remember, Typed
<1> HIDE DEF a, m
<1>16. net'["RM"] = net["RM"] \o (<<a>> \o <<m>>)
  BY <1>0, <1>15 DEF Consume, Emitted, Typed
<1> QED BY <1>12, <1>13, <1>14, <1>15, <1>16

\* Nothing the resource does to the manager's choice but reading it takes it away.
LEMMA ChoiceStaysAhead ==
  ASSUME Inv, Inv', Numbered, Truthful, [Next]_vars, NEW k \in {0, 1}, Shifts("RM", k),
         state["RM"] \in Before, state'["RM"] \in Before,
         PolicyAnswers["RM"] = {}, "HandshakeResponse" \notin ContentKinds,
         NEW j \in 1 .. Len(net["RM"]), ChoiceAt(j), up' \/ j - k <= Len(net'["RM"])
  PROVE  j - k \in 1 .. Len(net'["RM"]) /\ (ChoiceAt(j - k))'
<1>0. Typed /\ Typed' /\ "RM" \in Roles /\ "CEM" \in Roles /\ Peer("RM") = "CEM"
  BY RolesFacts DEF Inv, Peer
<1>1. FreshAt("RM", j) /\ net["RM"][j].kind = "HandshakeResponse"
  BY DEF ChoiceAt
<1>2. j > k
  <2> SUFFICES ASSUME j = 1, k = 1 PROVE FALSE
    OBVIOUS
  <2> QED BY ChoiceIsRead
<1>3. net["RM"][j].id # NIL
  <2>1. net["RM"][j].id \in Used("CEM")
    BY <1>0, <1>1, IndexedIsOn DEF Numbered, FreshAt
  <2> QED BY <2>1 DEF Used, NIL
<1>4. j - k \in 1 .. Len(net'["RM"]) /\ net'["RM"][j - k] = net["RM"][j] /\ (FreshAt("RM", j - k))'
  BY <1>0, <1>1, <1>2, <1>3, FreshStays
<1> QED BY <1>1, <1>4 DEF ChoiceAt

\* The choice that has just been made will be read.
LEMMA ChoiceIsAhead ==
  ASSUME Inv, Numbered, Truthful, [Next]_vars, state["CEM"] \in Before, state'["CEM"] = "Connected",
         Negotiation = "Handshake", up
  PROVE  \E j \in 1 .. Len(net'["RM"]) : (ChoiceAt(j))'
<1>0. Typed /\ "RM" \in Roles /\ "CEM" \in Roles /\ Peer("RM") = "CEM"
  BY RolesFacts DEF Inv, Peer
<1>1. PICK a \in Good, m \in Good :
        /\ ~Asks(a) /\ net'["RM"] = net["RM"] \o (<<a>> \o <<m>>)
        /\ m.kind = "HandshakeResponse" /\ m.id = NextId("CEM") /\ m.arg # Oversized
        /\ answered'["RM"] = answered["RM"]
  BY AgreementIsSent
<1>2. PICK n \in Nat : n = Len(net["RM"]) /\ net["RM"] \in Seq(Good)
  BY <1>0, QueueFacts
<1>3. /\ Len(net'["RM"]) = n + 2 /\ net'["RM"][n + 1] = a /\ net'["RM"][n + 2] = m
      /\ \A j \in 1 .. n : net'["RM"][j] = net["RM"][j]
  <2> DEFINE out == <<a>> \o <<m>>
  <2>1. out \in Seq(Good)
    BY TwoOut
  <2>2. Len(out) = 2 /\ out[1] = a /\ out[2] = m
    OBVIOUS
  <2>3. net'["RM"] = net["RM"] \o out
    BY <1>1
  <2> HIDE DEF out
  <2>4. /\ Len(net["RM"] \o out) = n + 2
        /\ \A j \in 1 .. (n + 2) : (net["RM"] \o out)[j] = IF j <= n THEN net["RM"][j] ELSE out[j - n]
    <3>1. /\ Len(net["RM"] \o out) = Len(net["RM"]) + Len(out)
          /\ \A j \in 1 .. Len(net["RM"]) + Len(out) :
               (net["RM"] \o out)[j] = IF j <= Len(net["RM"]) THEN net["RM"][j] ELSE out[j - Len(net["RM"])]
      BY <1>2, <2>1, ConcatProperties, Zenon
    <3> QED BY <1>2, <2>2, <3>1
  <2>5. n + 1 \in 1 .. (n + 2) /\ n + 2 \in 1 .. (n + 2) /\ ~(n + 1 <= n) /\ ~(n + 2 <= n)
        /\ (n + 1) - n = 1 /\ (n + 2) - n = 2 /\ \A j \in 1 .. n : j \in 1 .. (n + 2) /\ j <= n
    OBVIOUS
  <2>6. (net["RM"] \o out)[n + 1] = a /\ (net["RM"] \o out)[n + 2] = m
    BY <2>2, <2>4, <2>5
  <2>7. \A j \in 1 .. n : (net["RM"] \o out)[j] = net["RM"][j]
    BY <2>4, <2>5
  <2> QED BY <2>3, <2>4, <2>6, <2>7
<1>4. m.id \notin Used("CEM") /\ m.id # NIL
  BY <1>0, <1>1, NextIsUnused
<1>5. ASSUME NEW b \in answered'["RM"], b.id = m.id PROVE FALSE
  <2>1. b = [id |-> NIL, status |-> "INVALID_DATA"] \/ b.id \in Used("CEM")
    BY <1>0, <1>1, <1>5 DEF Numbered
  <2>2. [id |-> NIL, status |-> "INVALID_DATA"].id = NIL
    OBVIOUS
  <2> QED BY <1>4, <1>5, <2>1, <2>2
<1>6. ASSUME NEW j \in 1 .. ((n + 2) - 1), Asks(net'["RM"][j]) PROVE net'["RM"][j].id # m.id
  <2>1. CASE j = n + 1
    BY <1>1, <1>3, <1>6, <2>1
  <2>2. CASE j # n + 1
    <3>1. j \in 1 .. n
      BY <1>2, <2>2
    <3>2. net'["RM"][j] = net["RM"][j] /\ net["RM"][j] \in On("RM")
      BY <1>0, <1>2, <1>3, <3>1, IndexedIsOn
    <3>3. net'["RM"][j].id \in Used("CEM")
      BY <1>0, <1>6, <3>2 DEF Numbered
    <3> QED BY <1>4, <3>3
  <2> QED BY <2>1, <2>2
<1>7. (ChoiceAt(n + 2))'
  <2>1. Asks(m)
    BY <1>1 DEF Asks
  <2> QED BY <1>1, <1>3, <1>5, <1>6, <2>1 DEF ChoiceAt, FreshAt, HasAnswered, Asks
<1>8. n + 2 \in 1 .. Len(net'["RM"])
  BY <1>2, <1>3
<1> QED BY <1>7, <1>8

LEMMA ChoiceStaysFirst ==
  ASSUME Inv, Inv', Numbered, Truthful, Shaking, ChoiceFirst, [Next]_vars,
         NEW r \in Roles, Step(r), NEW k \in {0, 1}, Shifts("RM", k),
         Negotiation = "Handshake" => PolicyAnswers["RM"] = {} /\ "HandshakeResponse" \notin ContentKinds
  PROVE  ChoiceFirst'
<1>0. /\ Typed /\ Typed' /\ Awaiting /\ "RM" \in Roles /\ "CEM" \in Roles /\ Peer("CEM") = "RM"
      /\ (r = "RM" \/ r = "CEM")
  BY RolesFacts DEF Inv, Peer, Roles
<1> SUFFICES ASSUME Negotiation = "Handshake", state'["RM"] \in Before
             PROVE  /\ \A i \in 1 .. Len(net'["RM"]) :
                         /\ (FreshAt("RM", i))'
                         /\ net'["RM"][i].kind \notin {"SessionRequest", "Handshake", "HandshakeResponse"}
                         => \E j \in 1 .. (i - 1) : (ChoiceAt(j))'
                    /\ up' /\ (Negotiated("CEM"))' => \E j \in 1 .. Len(net'["RM"]) : (ChoiceAt(j))'
  BY DEF ChoiceFirst
<1>1. state["RM"] \in Before /\ ~IsClosed("RM")
  BY <1>0, RmMoves DEF Before, IsClosed
<1>2. Len(net["RM"]) \in Nat /\ Len(net'["RM"]) \in Nat
  <2>1. net'["RM"] \in Seq(Good)
    BY <1>0 DEF Typed
  <2> QED BY <1>0, <2>1, QueueFacts, LenProperties
<1>3. ASSUME up', (Negotiated("CEM"))' PROVE \E j \in 1 .. Len(net'["RM"]) : (ChoiceAt(j))'
  <2>1. up
    BY <1>3 DEF Step
  <2>2. CASE Negotiated("CEM")
    <3>1. PICK j \in 1 .. Len(net["RM"]) : ChoiceAt(j)
      BY <1>1, <2>1, <2>2 DEF ChoiceFirst
    <3> QED BY <1>1, <1>3, <3>1, ChoiceStaysAhead
  <2>3. CASE ~Negotiated("CEM")
    <3>1. r = "CEM"
      BY <1>0, <1>3, <2>3 DEF Step, Course, RmCourse, Keeps, Negotiated
    <3>2. Agrees("CEM") /\ state'["CEM"] = "Connected"
      BY <1>0, <1>3, <2>3, <3>1, CemMoves
    <3>3. state["CEM"] \in Before
      <4>1. ~IsClosed("CEM")
        BY <3>2 DEF Agrees, Accepts, Fresh
      <4> QED BY <1>0, <2>3, <4>1, OpenIsEither
    <3> QED BY <2>1, <3>2, <3>3, ChoiceIsAhead
  <2> QED BY <2>2, <2>3
<1>4. ASSUME NEW i \in 1 .. Len(net'["RM"]), (FreshAt("RM", i))',
             net'["RM"][i].kind \notin {"SessionRequest", "Handshake", "HandshakeResponse"}
      PROVE  \E j \in 1 .. (i - 1) : (ChoiceAt(j))'
  <2>1. CASE StillAhead(i, k)
    <3>1. PICK j \in 1 .. ((i + k) - 1) : ChoiceAt(j)
      BY <1>1, <1>4, <2>1 DEF StillAhead, ChoiceFirst
    <3>2. j \in 1 .. Len(net["RM"]) /\ j - k <= Len(net'["RM"]) /\ j - k <= i - 1
      BY <1>2, <2>1, <3>1 DEF StillAhead
    <3>3. j - k \in 1 .. Len(net'["RM"]) /\ (ChoiceAt(j - k))'
      BY <1>1, <3>1, <3>2, ChoiceStaysAhead
    <3>4. j - k \in 1 .. (i - 1)
      BY <1>2, <3>2, <3>3
    <3> QED BY <3>3, <3>4
  <2>2. CASE JustSaid(i, k)
    <3>1. Negotiated("CEM")
      <4>1. Topic("CEM", net'["RM"][i])
        BY <2>2 DEF JustSaid
      <4> QED BY <1>4, <4>1 DEF Topic, Chooses
    <3>2. PICK j \in 1 .. Len(net["RM"]) : ChoiceAt(j)
      BY <1>1, <2>2, <3>1 DEF JustSaid, ChoiceFirst
    <3>3. j - k <= Len(net'["RM"]) /\ j - k = j /\ j \in 1 .. (i - 1)
      BY <1>2, <2>2 DEF JustSaid
    <3>4. (ChoiceAt(j - k))'
      BY <1>1, <3>2, <3>3, ChoiceStaysAhead
    <3> QED BY <3>3, <3>4
  <2> QED BY <1>0, <1>1, <1>4, <2>1, <2>2, WhatIsRead
<1> QED BY <1>3, <1>4

\* What the manager says is read where it belongs.
Instructing == Spoken /\ HandshakeFirst /\ InstructionsInPlace /\ ChoiceFirst

LEMMA InitInstructing == Init => Instructing
<1> SUFFICES ASSUME Init PROVE Instructing
  OBVIOUS
<1>1. net["RM"] = <<>> /\ On("RM") = {}
  BY RolesFacts, EmptyRange DEF Init, On
<1>2. \A i \in 1 .. Len(net["RM"]) : FALSE
  BY <1>1
<1>3. ~Negotiated("CEM")
  BY RolesFacts DEF Init, Negotiated
<1> QED BY <1>1, <1>2, <1>3
    DEF Instructing, Spoken, HandshakeFirst, InstructionsInPlace, ChoiceFirst

LEMMA NextInstructing ==
  ASSUME Inv, Inv', Exchange, Meeting, Instructing, [Next]_vars,
         Negotiation = "Handshake" => PolicyAnswers["RM"] = {} /\ "HandshakeResponse" \notin ContentKinds
  PROVE  Instructing'
<1>1. /\ Typed /\ Typed' /\ Numbered /\ Truthful /\ Shaking /\ Choosing /\ Waiting /\ Following
      /\ Spoken /\ HandshakeFirst /\ InstructionsInPlace /\ ChoiceFirst
  BY DEF Inv, Exchange, Meeting, Instructing
<1>2. PICK r \in Roles : Step(r)
  BY <1>1, EverythingSteps
<1>3. PICK k \in {0, 1} : Shifts("RM", k)
  BY <1>1, RolesFacts, EverythingShifts
<1>4. Spoken'
  BY <1>1, <1>2, SpokenStays
<1>5. HandshakeFirst'
  BY <1>1, <1>2, <1>3, HandshakeStaysFirst
<1>6. InstructionsInPlace'
  BY <1>1, <1>2, <1>3, InstructionsStayInPlace
<1>7. ChoiceFirst'
  BY <1>1, <1>2, <1>3, ChoiceStaysFirst
<1> QED BY <1>4, <1>5, <1>6, <1>7 DEF Instructing

LEMMA InstructingIsInPlace ==
  Inv /\ Meeting /\ Publishing /\ Instructing => OnlyRacingInstructionsOutOfPlace
<1> SUFFICES ASSUME Inv, Meeting, Publishing, Instructing, Reading("RM"),
                    Negotiation = "Handshake" \/ state["RM"] # "Idle",
                    ~Allowed(Phase("RM"), Peer("RM"), Head(net["RM"]).kind),
                    Head(net["RM"]).arg # Racing
             PROVE  FALSE
  BY DEF OnlyRacingInstructionsOutOfPlace, OutOfPlace
<1>0. /\ Typed /\ Shaking /\ Early /\ Spoken /\ HandshakeFirst /\ InstructionsInPlace /\ ChoiceFirst
      /\ Peer("RM") = "CEM" /\ "RM" \in Roles /\ "CEM" \in Roles
  BY RolesFacts DEF Inv, Meeting, Publishing, Instructing, Peer
<1>1. PICK m : m = net["RM"][1]
  OBVIOUS
<1>2. /\ 1 \in 1 .. Len(net["RM"]) /\ Head(net["RM"]) = m /\ FreshAt("RM", 1)
      /\ ~IsClosed("RM") /\ m \in On("RM") /\ ~HasAnswered("RM", m.id) /\ Asks(m)
  BY <1>0, <1>1, ReadingIsFirst DEF FreshAt
<1>3. ~Allowed(Phase("RM"), "CEM", m.kind) /\ m.arg # Racing
  BY <1>0, <1>2
<1>4. ~Negotiated("RM") => Phase("RM") = "Negotiating" /\ state["RM"] \in Before
  BY <1>0, <1>2, OpenIsEither DEF Phase, Before
<1>5. m.kind # "SessionRequest"
  BY <1>0, <1>3, TableFacts
<1>6. m.kind # "Handshake"
  <2> SUFFICES ASSUME m.kind = "Handshake" PROVE FALSE
    OBVIOUS
  <2>1. ~Negotiated("RM")
    BY <1>0, <1>1, <1>2 DEF HandshakeFirst
  <2> QED BY <1>0, <1>3, <1>4, <2>1, TableFacts
<1>7. m.kind # "HandshakeResponse"
  <2> SUFFICES ASSUME m.kind = "HandshakeResponse" PROVE FALSE
    OBVIOUS
  <2>1. ~Negotiated("RM")
    BY <1>0, <1>2 DEF Shaking
  <2> QED BY <1>3, <1>4, <2>1, TableFacts DEF Allowed, AllowedInPhase, HandshakeKinds, Senders, SharedKinds
<1>8. m.kind # "SelectControlType"
  <2> SUFFICES ASSUME m.kind = "SelectControlType" PROVE FALSE
    OBVIOUS
  <2>1. Phase("RM") = "Negotiating"
    BY <1>3 DEF Allowed, AllowedInPhase, Senders, SharedKinds, StandingKinds
  <2>2. state["RM"] \in Before
    BY <1>0, <1>4, <2>1, PhaseFacts
  <2>3. Negotiation = "Handshake"
    BY <1>0, <2>2 DEF Early, Before
  <2>4. \E j \in 1 .. (1 - 1) : ChoiceAt(j)
    BY <1>0, <1>1, <1>2, <2>2, <2>3 DEF ChoiceFirst
  <2> QED BY <2>4
<1>9. m.kind \in CemKinds => FALSE
  BY <1>0, <1>1, <1>2, <1>3 DEF InstructionsInPlace, Plain
<1> QED BY <1>0, <1>2, <1>5, <1>6, <1>7, <1>8, <1>9 DEF Spoken, Asks

(***************************************************************************)
(* The other direction has one race and no other: only an instruction or a *)
(* revocation sent while a selection was unanswered can be out of place    *)
(* when the resource judges it.  The manager selects again only with its   *)
(* answer and waits for it.  Where there is a handshake, nothing makes the *)
(* resource refuse the manager's choice: a resource that does stays in the *)
(* handshake, and the selection the manager sends next is out of place.    *)
(***************************************************************************)
THEOREM OnlyRacingInstructions ==
  ASSUME ~OverlapsSelections, "CEM" \notin GivesUp,
         Negotiation = "Handshake" => PolicyAnswers["RM"] = {} /\ "HandshakeResponse" \notin ContentKinds
  PROVE  Spec => []OnlyRacingInstructionsOutOfPlace
<1>1. /\ Inv /\ Inv' /\ Exchange /\ Exchange' /\ Meeting /\ Publishing /\ Instructing /\ [Next]_vars
         => Meeting' /\ Publishing' /\ Instructing'
  BY NextPublishing, NextInstructing
<1> QED BY <1>1, InitMeeting, InitPublishing, InitInstructing, InstructingIsInPlace, Invariance,
           AlwaysExchange, PTL DEF Spec
=============================================================================
