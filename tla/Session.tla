------------------------------ MODULE Session ------------------------------
(***************************************************************************)
(* One S2 session: a Resource Manager's engine and a Customer Energy       *)
(* Manager's, each driven by its application and its driver (io.rs), over  *)
(* one connection.                                                         *)
(***************************************************************************)
EXTENDS RmSession, CemSession

Init ==
  /\ state = [r \in Roles |-> "Idle"]
  /\ reason = [r \in Roles |-> "Open"]
  /\ version = [r \in Roles |-> NoVersion]
  /\ details = [r \in Roles |-> NoDetails]
  /\ minted = [r \in Roles |-> 0]
  /\ pending = [r \in Roles |-> {}]
  /\ answered = [r \in Roles |-> {}]
  /\ selecting = {}
  /\ net = [r \in Roles |-> <<>>]
  /\ up = TRUE
  /\ copies = 0

Rm == RmOpen \/ RmReceive \/ RmTimeout \/ Publish \/ AnnounceDetails

Cem == CemOpen \/ CemReceive \/ CemTimeout \/ SelectControlType \/ Instruct

Either(r) == RequestSession(r) \/ CloseLocally(r) \/ TransportClosed(r) \/ Redeliver(r)

\* Both sessions are over and nothing is left to read.
Ended == (\A r \in Roles : IsClosed(r) /\ net[r] = <<>>) /\ UNCHANGED vars

Next == Rm \/ Cem \/ Disconnect \/ (\E r \in Roles : Either(r)) \/ Ended

Spec == Init /\ [][Next]_vars

(***************************************************************************)
(* Fairness.  An application opens the session it built.  A driver flushes *)
(* and waits for the next frame or deadline in every step, so while the    *)
(* connection holds what arrives is handled, deadlines fire, and that the  *)
(* peer closed the connection is noticed.  A transport that fails ends the *)
(* step with an error instead, and the session is not told: what happens   *)
(* to it then is its application's to decide, and nothing is assumed of    *)
(* it.  Nothing obliges an application to send, or a connection to fail.   *)
(***************************************************************************)
Fairness ==
  /\ WF_vars(RmOpen) /\ WF_vars(CemOpen)
  /\ WF_vars(up /\ RmReceive) /\ WF_vars(up /\ CemReceive)
  /\ WF_vars(up /\ RmTimeout) /\ WF_vars(up /\ CemTimeout)
  /\ \A r \in Roles : WF_vars(up /\ TransportClosed(r))

FairSpec == Spec /\ Fairness

-----------------------------------------------------------------------------
TypeOK ==
  /\ state \in [Roles -> States]
  /\ reason \in [Roles -> Reasons]
  /\ version \in [Roles -> Versions \cup {NoVersion}]
  /\ details \in [Roles -> Details \cup {NoDetails}]
  /\ minted \in [Roles -> Nat]
  /\ pending \in [Roles -> SUBSET Ids]
  /\ answered \in [Roles -> SUBSET [id : Ids, status : Statuses]]
  /\ selecting \in SUBSET [id : Ids, selection : Selections]
  /\ net \in [Roles -> Seq(Messages)]
  /\ up \in BOOLEAN
  /\ copies \in Nat

Negotiated(r) == state[r] \notin {"Idle", "Handshaking", "Closed"}

\* The engine is about to judge a message for the first time.
Reading(r) == net[r] # <<>> /\ Fresh(r, Head(net[r]))

(***************************************************************************)
(* Version agreement.  Two sessions past the handshake use the same        *)
(* version, both offered it, the crate speaks it, and what either sends    *)
(* exists in the profile the other reads it against: no frame is refused   *)
(* because the two sides read it against different schemas, and the RM     *)
(* never closes over the CEM's choice.                                     *)
(***************************************************************************)
VersionAgreement ==
  /\ \A r \in Roles : Negotiated(r) => WireProfile(version[r]) # NoProfile
  /\ (\A r \in Roles : Negotiated(r)) => version["RM"] = version["CEM"]
  /\ \A r \in Roles : reason[r] # "UnsupportedVersion"
  /\ \A r \in Roles : net[r] # <<>> => ExistsIn(Head(net[r]).kind, Profile(r))

(***************************************************************************)
(* The manager follows the resource.  With no selection unanswered, both   *)
(* sides of an open session are in the same state, so the manager never    *)
(* instructs under a control type the resource is not in.  It rests on the *)
(* acknowledgement being queued before anything the new state allows, on   *)
(* duplicates not being processed again, and on the manager selecting      *)
(* again only once it has its answer.                                      *)
(***************************************************************************)
FollowsResource ==
  selecting = {} /\ (\A r \in Roles : Negotiated(r)) => state["CEM"] = state["RM"]

(***************************************************************************)
(* What the resource may send, the manager may read: by the time the       *)
(* manager reaches a message it has passed the acknowledgement of the      *)
(* selection that allowed it, so nothing of the resource's is refused as   *)
(* out of place, whatever it raced with.  (A manager that was handed a     *)
(* version but not opened yet refuses what a resource already sends.)      *)
(***************************************************************************)
PublicationsInPlace ==
  Reading("CEM") /\ (Negotiation = "Handshake" \/ state["CEM"] # "Idle")
    => ~OutOfPlace("CEM", Head(net["CEM"]))

(***************************************************************************)
(* The other direction has one race and no other: the resource follows a   *)
(* deselection before the manager hears of it, so only an instruction or a *)
(* revocation sent while a selection was unanswered can be out of place.   *)
(***************************************************************************)
OnlyRacingInstructionsOutOfPlace ==
  Reading("RM") /\ (Negotiation = "Handshake" \/ state["RM"] # "Idle")
    => (OutOfPlace("RM", Head(net["RM"])) => Head(net["RM"]).arg = Racing)

(***************************************************************************)
(* No acknowledgement is forgotten: while both sides are open and the      *)
(* connection holds, whatever one of them still waits for is on its way to *)
(* the other, or the answer is on its way back.                            *)
(***************************************************************************)
NoForgottenAck ==
  \A r \in Roles :
    up /\ ~IsClosed(r) /\ ~IsClosed(Peer(r)) =>
      \A id \in pending[r] :
        \/ \E i \in DOMAIN net[Peer(r)] :
             net[Peer(r)][i].id = id /\ net[Peer(r)][i].kind # "ReceptionStatus"
        \/ \E i \in DOMAIN net[r] :
             net[r][i].id = id /\ net[r][i].kind = "ReceptionStatus"

(***************************************************************************)
(* The manager never waits for an answer that cannot come: the selection   *)
(* it waits for is one its ledger still waits for, so a refusal, a timeout *)
(* or an acceptance always ends the wait.                                  *)
(***************************************************************************)
AwaitedSelectionIsPending == \A s \in selecting : s.id \in pending["CEM"]

(***************************************************************************)
(* A reason names what happened at the other side: only a peer that asked  *)
(* to end the session is said to have, a permanent error was answered by   *)
(* the peer's policy, and a transport that closed had failed or had been   *)
(* closed by the peer.                                                     *)
(***************************************************************************)
ReasonsAreTrue ==
  \A r \in Roles :
    /\ reason[r] = "PeerRequested" => reason[Peer(r)] = "LocallyRequested"
    /\ reason[r] = "PermanentError" =>
         \E a \in answered[Peer(r)] : a.status = "PERMANENT_ERROR"
    /\ reason[r] = "TransportClosed" => ~up \/ IsClosed(Peer(r))
    /\ reason[r] = "ProtocolError" =>
         /\ OutOfOrder[r] = "Close"
         /\ \E a \in answered[r] : a.status = "INVALID_CONTENT"

(***************************************************************************)
(* Closed is final and silent: a session that is over keeps the reason it  *)
(* closed for first, and queues nothing more for its peer.                 *)
(***************************************************************************)
ClosedIsFinal ==
  [][\A r \in Roles : IsClosed(r) =>
       /\ state'[r] = "Closed"
       /\ reason'[r] = reason[r]
       /\ (copies' = copies) => Len(net'[Peer(r)]) <= Len(net[Peer(r)])]_vars

(***************************************************************************)
(* Over a connection that holds, a version is agreed or the session        *)
(* closes: neither side stays in the handshake, which no timer ends.       *)
(***************************************************************************)
HandshakeEnds == \A r \in Roles : <>(Negotiated(r) \/ IsClosed(r) \/ ~up)

(***************************************************************************)
(* When one side closes, by its own decision, at the peer's request or     *)
(* over an error, the other closes, unless the connection fails meanwhile: *)
(* the end of the stream is all that tells it.                             *)
(***************************************************************************)
ClosePropagates == \A r \in Roles : IsClosed(r) ~> (IsClosed(Peer(r)) \/ ~up)

(***************************************************************************)
(* Over a connection that holds no message is waited for for ever, also    *)
(* one whose frame the peer could not read and whose answer names nothing. *)
(***************************************************************************)
EverySendEnds ==
  \A r \in Roles : \A n \in 1 .. MaxMinted[r] :
    (<<r, n>> \in pending[r]) ~> (<<r, n>> \notin pending[r] \/ IsClosed(r) \/ ~up)
=============================================================================
