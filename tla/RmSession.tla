----------------------------- MODULE RmSession -----------------------------
(***************************************************************************)
(* The Resource Manager's engine (session/rm.rs): it speaks first, answers *)
(* the manager's selections, and publishes what the state table allows.    *)
(***************************************************************************)
EXTENDS SessionCore

CONSTANT RmKinds   \* kinds the resource's application sends

RmProcessed == {"HandshakeResponse", "SelectControlType", "SessionRequest"}

ASSUME RmAssumption ==
  RmKinds \subseteq Kinds \ (RmProcessed \cup
                              {"Handshake", "ResourceManagerDetails", "ReceptionStatus"})

\* Mutant of DetailsMessage: the registry's details are sent before it has any.
DetailsMessageFromRegistry(id) == Msg("ResourceManagerDetails", id, details["RM"])

DetailsMessage(id) == Msg("ResourceManagerDetails", id, InitialDetails)

\* The handshake, or with a version already agreed the resource's details.
RmOpen ==
  /\ state["RM"] = "Idle"
  /\ IF Negotiation = "Handshake"
       THEN /\ state' = [state EXCEPT !["RM"] = "Handshaking"]
            /\ Emit("RM", <<Msg("Handshake", NextId("RM"), NoArg)>>)
            /\ UNCHANGED <<version, details>>
       ELSE /\ state' = [state EXCEPT !["RM"] = "Connected"]
            /\ version' = [version EXCEPT !["RM"] = Supported[1]]
            /\ details' = [details EXCEPT !["RM"] = InitialDetails]
            /\ Emit("RM", <<DetailsMessage(NextId("RM"))>>)
  /\ Transmit("RM")
  /\ UNCHANGED <<reason, answered, selecting, up, copies>>

\* Mutant of RmAcceptHandshakeResponse: the session is not marked connected.
RmAcceptHandshakeResponseInPlace(m) ==
  /\ m.kind = "HandshakeResponse"
  /\ Acknowledge("RM", m, <<DetailsMessage(NextId("RM"))>>)
  /\ Transmit("RM")
  /\ version' = [version EXCEPT !["RM"] = m.arg]
  /\ details' = [details EXCEPT !["RM"] = InitialDetails]
  /\ UNCHANGED <<state, reason, selecting, up, copies>>

\* The manager chose a version: one that was offered and that this crate speaks
\* connects the session and sends the details, any other closes it.
RmAcceptHandshakeResponse(m) ==
  /\ m.kind = "HandshakeResponse"
  /\ IF m.arg \in Offered /\ WireProfile(m.arg) # NoProfile
       THEN /\ Acknowledge("RM", m, <<DetailsMessage(NextId("RM"))>>)
            /\ Transmit("RM")
            /\ version' = [version EXCEPT !["RM"] = m.arg]
            /\ details' = [details EXCEPT !["RM"] = InitialDetails]
            /\ state' = [state EXCEPT !["RM"] = "Connected"]
            /\ UNCHANGED reason
       ELSE /\ Acknowledge("RM", m, <<>>)
            /\ Close("RM", "UnsupportedVersion")
            /\ UNCHANGED <<version, details, minted, pending>>
  /\ UNCHANGED <<selecting, up, copies>>

\* The resource follows a selection as soon as it has acknowledged it.
RmAcceptSelection(m) ==
  /\ m.kind = "SelectControlType"
  /\ Acknowledge("RM", m, <<>>)
  /\ state' = [state EXCEPT !["RM"] = SelectedState(m.arg)]
  /\ UNCHANGED <<reason, version, details, minted, pending, selecting, up, copies>>

\* A permanent error closes; any other answer only settles the message.
RmReceptionStatus(m) ==
  /\ Matched("RM", m)
  /\ IF m.arg = "PERMANENT_ERROR"
       THEN Close("RM", "PermanentError")
       ELSE UNCHANGED <<state, reason>>
  /\ UNCHANGED <<version, details, minted, answered, selecting, up, copies>>

\* Mutant of RmTimeout: poll_timeout answers None unless a control type is active.
RmTimeoutWhileActive ==
  /\ "RM" \in GivesUp
  /\ state["RM"] \in ControlTypes
  /\ \E late \in SUBSET pending["RM"] :
       late # {} /\ pending' = [pending EXCEPT !["RM"] = @ \ late]
  /\ UNCHANGED <<state, reason, version, details, minted, answered,
                 selecting, net, up, copies>>

\* Acknowledgements whose deadline passed are given up on.  Which ones is left
\* open: the wall clock may be stepped between two sends.  A closed session asks
\* for no timeout.
RmTimeout ==
  /\ "RM" \in GivesUp
  /\ ~IsClosed("RM")
  /\ \E late \in SUBSET pending["RM"] :
       late # {} /\ pending' = [pending EXCEPT !["RM"] = @ \ late]
  /\ UNCHANGED <<state, reason, version, details, minted, answered,
                 selecting, net, up, copies>>

\* The application publishes something, or reports on an instruction.
Publish ==
  /\ \E kind \in RmKinds, size \in Frames : Send("RM", kind, size)
  /\ UNCHANGED <<state, reason, version, details, answered, selecting, up, copies>>

\* The application announces a changed resource.
AnnounceDetails ==
  /\ \E d \in Details \ {details["RM"]} :
       /\ Send("RM", "ResourceManagerDetails", d)
       /\ details' = [details EXCEPT !["RM"] = d]
  /\ UNCHANGED <<state, reason, version, answered, selecting, up, copies>>

RmReceive ==
  /\ net["RM"] # <<>>
  /\ LET m == Head(net["RM"]) IN
       \/ Ignore("RM", m)
       \/ AnswerUnreadable("RM", m)
       \/ AnswerDuplicate("RM", m)
       \/ RefuseInvalid("RM", m)
       \/ RefuseByPolicy("RM", m)
       \/ Unmatched("RM", m)
       \/ AcceptSessionRequest("RM", m)
       \/ RmAcceptHandshakeResponse(m)
       \/ RmAcceptSelection(m)
       \/ AcceptOther("RM", m, RmProcessed)
       \/ RmReceptionStatus(m)
=============================================================================
