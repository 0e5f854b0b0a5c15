---------------------------- MODULE SessionCore ----------------------------
(***************************************************************************)
(* What the two session engines share (session/core.rs, and the parts of   *)
(* session/rm.rs and session/cem.rs that are the same in both): the state  *)
(* of a session, the acknowledgement of what arrives, the record of what   *)
(* was sent, closing, and the connection that carries messages between a   *)
(* Resource Manager and a Customer Energy Manager.                         *)
(*                                                                         *)
(* Every variable but `up', `selecting' and `copies' is indexed by role.   *)
(* net[r] is everything on its way to r: the peer's outbox and the socket  *)
(* behind it, which the driver (io.rs) empties in order, also after the    *)
(* session closed.                                                         *)
(***************************************************************************)
EXTENDS StateTable, Sequences, Naturals

CONSTANTS
  Negotiation,    \* "Handshake", or "PreNegotiated" as S2 Connect does
  Offered,        \* the RM's protocol versions, a set
  Supported,      \* the CEM's protocol versions, most preferred first
  Details,        \* names of the resource descriptions the RM may announce
  InitialDetails, \* the one it is configured with
  Available,      \* Available[d]: the selections description d offers
  OutOfOrder,     \* OutOfOrder[r]: "Report" or "Close"
  PolicyAnswers,  \* PolicyAnswers[r]: what r's InboundPolicy may answer with
  ContentKinds,   \* kinds whose content the receiver's validation may refuse
  Frames,         \* sizes of what the applications send: subset of {NoArg, Oversized}
  GivesUp,        \* roles whose acknowledgement deadline may pass before the answer
  MaxMinted,      \* bound: MaxMinted[r] messages r's application may send
  MaxCopies       \* bound: copies a retrying proxy may deliver

NoVersion == "NoVersion"
Versions == Offered \cup {Supported[i] : i \in DOMAIN Supported}

NoDetails == "NoDetails"
NoArg == "NoArg"

\* A frame over the receiver's size cap, which no engine checks before sending.
Oversized == "Oversized"

\* An instruction sent while a selection is unanswered: history, no code reads it.
Racing == "Racing"

Statuses == {"OK", "INVALID_DATA", "INVALID_MESSAGE", "INVALID_CONTENT",
             "TEMPORARY_ERROR", "PERMANENT_ERROR"}

SessionRequests == {"RECONNECT", "TERMINATE"}

ASSUME ConfigAssumption ==
  /\ Negotiation \in {"Handshake", "PreNegotiated"}
  /\ Supported \in Seq(Versions)
  /\ Supported # <<>>
  /\ Negotiation = "PreNegotiated" => WireProfile(Supported[1]) # NoProfile
  /\ NoVersion \notin Versions
  /\ NoDetails \notin Details /\ Oversized \notin Details
  /\ InitialDetails \in Details
  /\ Available \in [Details -> SUBSET Selections]
  /\ OutOfOrder \in [Roles -> {"Report", "Close"}]
  /\ PolicyAnswers \in [Roles -> SUBSET {"TEMPORARY_ERROR", "PERMANENT_ERROR"}]
  /\ ContentKinds \in SUBSET Kinds
  /\ Frames \subseteq {NoArg, Oversized}
  /\ GivesUp \subseteq Roles
  /\ MaxMinted \in [Roles -> Nat]
  /\ MaxCopies \in Nat

VARIABLES
  state,      \* where each session has got to
  reason,     \* why it closed
  version,    \* the protocol version it negotiated
  details,    \* the resource description it knows
  minted,     \* how many identifiers it minted
  pending,    \* identifiers sent and not yet acknowledged
  answered,   \* how it answered what it received
  selecting,  \* the selection the CEM waits for, as a set of at most one
  net,        \* what is on its way to each role
  up,         \* whether the connection carries messages
  copies      \* how many copies the proxy delivered

vars == <<state, reason, version, details, minted, pending, answered,
          selecting, net, up, copies>>

(***************************************************************************)
(* Identifiers are minted per role, so they never collide; NIL stands for  *)
(* the identifier of a frame that cannot be read at all.                   *)
(***************************************************************************)
NIL == <<"NIL", 0>>
Ids == (Roles \cup {"NIL"}) \X Nat

Args == Selections \cup Versions \cup Details \cup Statuses \cup SessionRequests
          \cup {NoArg, Oversized, Racing}

\* A ReceptionStatus has no identifier of its own: id is its subject's.
Messages == [kind : Kinds, id : Ids, arg : Args]

Msg(kind, id, arg) == [kind |-> kind, id |-> id, arg |-> arg]
ReceptionStatus(subject, status) == Msg("ReceptionStatus", subject, status)

States == {"Idle", "Handshaking", "Connected", "NOT_CONTROLABLE", "Closed"}
            \cup ControlTypes

Reasons == {"Open", "Local", "PeerRequested", "LocallyRequested", "TransportClosed",
            "UnsupportedVersion", "NoCommonVersion", "PermanentError", "ProtocolError"}

IsClosed(r) == state[r] = "Closed"

\* The state a selection leads to.
SelectedState(selection) ==
  IF selection = "NO_SELECTION" THEN "Connected" ELSE selection

Phase(r) ==
  IF state[r] \in {"Idle", "Handshaking"} THEN "Negotiating" ELSE SelectedPhase(state[r])

\* The profile messages are read against; V1_0_0 until one is negotiated.
Profile(r) == IF version[r] = NoVersion THEN "V1_0_0" ELSE WireProfile(version[r])

-----------------------------------------------------------------------------
(***************************************************************************)
(* The queues.  Nothing is added to a connection that is down.             *)
(***************************************************************************)
Emitted(queues, r, out) ==
  [queues EXCEPT ![Peer(r)] = IF up THEN @ \o out ELSE @]

Emit(r, out) == net' = Emitted(net, r, out)

\* Take the first message for r and send `out' in the same handler.
Consume(r, out) == net' = Emitted([net EXCEPT ![r] = Tail(@)], r, out)

\* The identifier of the next message r mints.
NextId(r) == <<r, minted[r] + 1>>

\* Put one message in the ledger, under the identifier just minted for it.
Transmit(r) ==
  /\ minted' = [minted EXCEPT ![r] = @ + 1]
  /\ pending' = [pending EXCEPT ![r] = @ \cup {NextId(r)}]

Close(r, why) ==
  /\ state' = [state EXCEPT ![r] = "Closed"]
  /\ reason' = [reason EXCEPT ![r] = why]

\* Mutant of HasAnswered: the answered window is never consulted.
HasAnsweredNever(r, id) == FALSE

HasAnswered(r, id) == \E a \in answered[r] : a.id = id

Remember(r, id, status) ==
  answered' = [answered EXCEPT ![r] = @ \cup {[id |-> id, status |-> status]}]

-----------------------------------------------------------------------------
(***************************************************************************)
(* Receiving.  What becomes of a frame nobody reads, an unreadable one, a  *)
(* duplicate, a refusal and an unmatched acknowledgement is the same in    *)
(* both engines; what an accepted message and a matched acknowledgement    *)
(* do is in RmSession and CemSession.  m is the first message of net[r].   *)
(***************************************************************************)

\* A frame that arrives after the session is over is neither read nor answered.
Ignore(r, m) ==
  /\ IsClosed(r)
  /\ Consume(r, <<>>)
  /\ UNCHANGED <<state, reason, version, details, minted, pending, answered,
                 selecting, up, copies>>

\* A frame over the size cap: its message_id was not read, so the answer names NIL.
AnswerUnreadable(r, m) ==
  /\ ~IsClosed(r)
  /\ m.arg = Oversized
  /\ Consume(r, <<ReceptionStatus(NIL, "INVALID_DATA")>>)
  /\ Remember(r, NIL, "INVALID_DATA")
  /\ UNCHANGED <<state, reason, version, details, minted, pending, selecting, up, copies>>

\* A duplicate is answered again with the same status and not processed twice.
AnswerDuplicate(r, m) ==
  /\ ~IsClosed(r)
  /\ m.kind # "ReceptionStatus"
  /\ m.arg # Oversized
  /\ \E a \in answered[r] : a.id = m.id /\ Consume(r, <<ReceptionStatus(m.id, a.status)>>)
  /\ UNCHANGED <<state, reason, version, details, minted, pending, answered,
                 selecting, up, copies>>

\* A message the engine reads for the first time.
Fresh(r, m) ==
  /\ ~IsClosed(r)
  /\ m.kind # "ReceptionStatus"
  /\ m.arg # Oversized
  /\ ~HasAnswered(r, m.id)

OutOfPlace(r, m) == ~Allowed(Phase(r), Peer(r), m.kind)

\* A selection the resource, as r knows it, does not offer.
NotOffered(r, kind, arg) ==
  /\ kind = "SelectControlType"
  /\ details[r] # NoDetails
  /\ arg # "NO_SELECTION"
  /\ arg \notin Available[details[r]]

Valid(r, m) == ~OutOfPlace(r, m) /\ ~NotOffered(r, m.kind, m.arg)

\* Validation found an error.  An order violation also closes a strict session.
RefuseInvalid(r, m) ==
  /\ Fresh(r, m)
  /\ ~Valid(r, m) \/ m.kind \in ContentKinds
  /\ Consume(r, <<ReceptionStatus(m.id, "INVALID_CONTENT")>>)
  /\ Remember(r, m.id, "INVALID_CONTENT")
  /\ IF OutOfPlace(r, m) /\ OutOfOrder[r] = "Close"
       THEN Close(r, "ProtocolError")
       ELSE UNCHANGED <<state, reason>>
  /\ UNCHANGED <<version, details, minted, pending, selecting, up, copies>>

\* Mutant of RefuseByPolicy: the refusal is recorded and never sent.
RefuseByPolicySilently(r, m) ==
  /\ Fresh(r, m)
  /\ Valid(r, m)
  /\ \E status \in PolicyAnswers[r] : Remember(r, m.id, status)
  /\ Consume(r, <<>>)
  /\ UNCHANGED <<state, reason, version, details, minted, pending, selecting, up, copies>>

\* The application's InboundPolicy refused a valid message.
RefuseByPolicy(r, m) ==
  /\ Fresh(r, m)
  /\ Valid(r, m)
  /\ \E status \in PolicyAnswers[r] :
       /\ Consume(r, <<ReceptionStatus(m.id, status)>>)
       /\ Remember(r, m.id, status)
  /\ UNCHANGED <<state, reason, version, details, minted, pending, selecting, up, copies>>

\* A valid message nobody refused is acknowledged first and processed second:
\* `replies' are what processing it sends, behind the acknowledgement.
Acknowledge(r, m, replies) ==
  /\ Fresh(r, m)
  /\ Valid(r, m)
  /\ Consume(r, <<ReceptionStatus(m.id, "OK")>> \o replies)
  /\ Remember(r, m.id, "OK")

\* The peer asked to end or restart the session.
AcceptSessionRequest(r, m) ==
  /\ m.kind = "SessionRequest"
  /\ Acknowledge(r, m, <<>>)
  /\ Close(r, "PeerRequested")
  /\ UNCHANGED <<version, details, minted, pending, selecting, up, copies>>

\* Everything else that is accepted changes only the registry and the events.
AcceptOther(r, m, processed) ==
  /\ m.kind \notin processed
  /\ Acknowledge(r, m, <<>>)
  /\ UNCHANGED <<state, reason, version, details, minted, pending, selecting, up, copies>>

\* An acknowledgement of something never sent, or given up on.
Unmatched(r, m) ==
  /\ ~IsClosed(r)
  /\ m.kind = "ReceptionStatus"
  /\ m.id \notin pending[r]
  /\ Consume(r, <<>>)
  /\ UNCHANGED <<state, reason, version, details, minted, pending, answered,
                 selecting, up, copies>>

\* An acknowledgement of something outstanding.
Matched(r, m) ==
  /\ ~IsClosed(r)
  /\ m.kind = "ReceptionStatus"
  /\ m.id \in pending[r]
  /\ Consume(r, <<>>)
  /\ pending' = [pending EXCEPT ![r] = @ \ {m.id}]

-----------------------------------------------------------------------------
(***************************************************************************)
(* What the application asks for.  The state table and the outbound        *)
(* validation refuse at the call site, so a refused call changes nothing.  *)
(***************************************************************************)
Sendable(r, kind, arg) ==
  /\ ~IsClosed(r)
  /\ ExistsIn(kind, Profile(r))
  /\ Allowed(Phase(r), r, kind)
  /\ ~NotOffered(r, kind, arg)

Send(r, kind, arg) ==
  /\ minted[r] < MaxMinted[r]
  /\ Sendable(r, kind, arg)
  /\ Emit(r, <<Msg(kind, NextId(r), arg)>>)
  /\ Transmit(r)

\* Ask the peer to end or restart the session, and stop using it.
RequestSession(r) ==
  /\ \E request \in SessionRequests : Send(r, "SessionRequest", request)
  /\ Close(r, "LocallyRequested")
  /\ UNCHANGED <<version, details, answered, selecting, up, copies>>

\* Mutant of CloseLocally: closing is not idempotent.
CloseLocallyAgain(r) ==
  /\ Close(r, "Local")
  /\ UNCHANGED <<version, details, minted, pending, answered, selecting, net, up, copies>>

\* End the session locally: nothing is said to the peer.
CloseLocally(r) ==
  /\ ~IsClosed(r)
  /\ Close(r, "Local")
  /\ UNCHANGED <<version, details, minted, pending, answered, selecting, net, up, copies>>

-----------------------------------------------------------------------------
(***************************************************************************)
(* The connection.  It delivers in order; it may fail and lose the end of  *)
(* either stream, and a retrying proxy may deliver a copy of a message     *)
(* behind what is already on the way.                                      *)
(***************************************************************************)
Disconnect ==
  /\ up
  /\ up' = FALSE
  /\ \E toRm \in 0 .. Len(net["RM"]), toCem \in 0 .. Len(net["CEM"]) :
       net' = [r \in Roles |-> SubSeq(net[r], 1, IF r = "RM" THEN toRm ELSE toCem)]
  /\ UNCHANGED <<state, reason, version, details, minted, pending, answered,
                 selecting, copies>>

Redeliver(r) ==
  /\ up
  /\ copies < MaxCopies
  /\ \E i \in DOMAIN net[r] : net' = [net EXCEPT ![r] = Append(@, net[r][i])]
  /\ copies' = copies + 1
  /\ UNCHANGED <<state, reason, version, details, minted, pending, answered,
                 selecting, up>>

\* Mutant of TransportClosed: an orderly close by the peer goes unnoticed.
TransportClosedOnFailureOnly(r) ==
  /\ ~IsClosed(r)
  /\ net[r] = <<>>
  /\ ~up
  /\ Close(r, "TransportClosed")
  /\ UNCHANGED <<version, details, minted, pending, answered, selecting, net, up, copies>>

\* The end of the stream: the peer's driver closed the connection after flushing what
\* its closed session had queued, of which the driver tells the session; or the
\* connection failed, of which only the application can.
TransportClosed(r) ==
  /\ ~IsClosed(r)
  /\ net[r] = <<>>
  /\ ~up \/ IsClosed(Peer(r))
  /\ Close(r, "TransportClosed")
  /\ UNCHANGED <<version, details, minted, pending, answered, selecting, net, up, copies>>
=============================================================================
