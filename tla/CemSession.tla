----------------------------- MODULE CemSession -----------------------------
(***************************************************************************)
(* The Customer Energy Manager's engine (session/cem.rs): it chooses the   *)
(* version and the control type, and instructs the resource.               *)
(***************************************************************************)
EXTENDS SessionCore, SequencesExt

CONSTANTS
  CemKinds,            \* kinds the manager's application sends
  CemSelections,       \* selections it makes
  OverlapsSelections   \* whether it selects again before the last one was answered

CemProcessed == {"Handshake", "ResourceManagerDetails", "SessionRequest"}

ASSUME CemAssumption ==
  /\ CemKinds \subseteq Kinds \ (CemProcessed \cup
                                 {"HandshakeResponse", "SelectControlType", "ReceptionStatus"})
  /\ CemSelections \subseteq Selections
  /\ OverlapsSelections \in BOOLEAN

\* Mutant of Chosen: the manager's favourite, offered or not.
ChosenUnasked == Supported[1]

\* The first of the manager's versions that the resource offers.
Chosen ==
  LET i == SelectInSeq(Supported, LAMBDA v : v \in Offered)
  IN  IF i = 0 THEN NoVersion ELSE Supported[i]

CemOpen ==
  /\ state["CEM"] = "Idle"
  /\ IF Negotiation = "Handshake"
       THEN /\ state' = [state EXCEPT !["CEM"] = "Handshaking"]
            /\ Emit("CEM", <<Msg("Handshake", NextId("CEM"), NoArg)>>)
            /\ Transmit("CEM")
            /\ UNCHANGED version
       ELSE /\ state' = [state EXCEPT !["CEM"] = "Connected"]
            /\ version' = [version EXCEPT !["CEM"] = Supported[1]]
            /\ UNCHANGED <<net, minted, pending>>
  /\ UNCHANGED <<reason, details, answered, selecting, up, copies>>

\* The manager chooses; without a version in common, or with one it cannot
\* speak, it closes.
CemAcceptHandshake(m) ==
  /\ m.kind = "Handshake"
  /\ IF WireProfile(Chosen) # NoProfile
       THEN /\ Acknowledge("CEM", m, <<Msg("HandshakeResponse", NextId("CEM"), Chosen)>>)
            /\ Transmit("CEM")
            /\ version' = [version EXCEPT !["CEM"] = Chosen]
            /\ state' = [state EXCEPT !["CEM"] = "Connected"]
            /\ UNCHANGED reason
       ELSE /\ Acknowledge("CEM", m, <<>>)
            /\ Close("CEM", "NoCommonVersion")
            /\ UNCHANGED <<version, minted, pending>>
  /\ UNCHANGED <<details, selecting, up, copies>>

CemAcceptDetails(m) ==
  /\ m.kind = "ResourceManagerDetails"
  /\ Acknowledge("CEM", m, <<>>)
  /\ details' = [details EXCEPT !["CEM"] = m.arg]
  /\ UNCHANGED <<state, reason, version, minted, pending, selecting, up, copies>>

\* Mutant of CemReceptionStatus: any answer is an acceptance.
CemReceptionStatusAnyAnswer(m) ==
  /\ Matched("CEM", m)
  /\ selecting' = {s \in selecting : s.id # m.id}
  /\ state' = [state EXCEPT !["CEM"] =
       IF \E s \in selecting : s.id = m.id
         THEN SelectedState((CHOOSE s \in selecting : s.id = m.id).selection)
         ELSE @]
  /\ UNCHANGED <<reason, version, details, minted, answered, up, copies>>

\* Mutant of CemReceptionStatus: any refusal disconnects.
CemReceptionStatusDisconnects(m) ==
  /\ Matched("CEM", m)
  /\ m.arg # "OK"
  /\ Close("CEM", "PermanentError")
  /\ UNCHANGED <<selecting, version, details, minted, answered, up, copies>>

(***************************************************************************)
(* The manager follows its own selection when the resource accepts it, and *)
(* forgets it when the resource refuses.                                   *)
(***************************************************************************)
CemReceptionStatus(m) ==
  /\ Matched("CEM", m)
  /\ selecting' = {s \in selecting : s.id # m.id}
  /\ IF m.arg = "PERMANENT_ERROR"
       THEN Close("CEM", "PermanentError")
       ELSE /\ state' =
                 IF m.arg = "OK" /\ \E s \in selecting : s.id = m.id
                   THEN [state EXCEPT !["CEM"] =
                           SelectedState((CHOOSE s \in selecting : s.id = m.id).selection)]
                   ELSE state
            /\ UNCHANGED reason
  /\ UNCHANGED <<version, details, minted, answered, up, copies>>

\* Mutant of CemTimeout: the selection that timed out is still waited for.
CemTimeoutStillWaiting ==
  /\ "CEM" \in GivesUp
  /\ ~IsClosed("CEM")
  /\ \E late \in SUBSET pending["CEM"] :
       late # {} /\ pending' = [pending EXCEPT !["CEM"] = @ \ late]
  /\ UNCHANGED <<state, reason, version, details, minted, answered,
                 selecting, net, up, copies>>

\* A selection that timed out is no longer waited for.
CemTimeout ==
  /\ "CEM" \in GivesUp
  /\ ~IsClosed("CEM")
  /\ \E late \in SUBSET pending["CEM"] :
       /\ late # {}
       /\ pending' = [pending EXCEPT !["CEM"] = @ \ late]
       /\ selecting' = {s \in selecting : s.id \notin late}
  /\ UNCHANGED <<state, reason, version, details, minted, answered, net, up, copies>>

\* Mutant of SelectControlType: active as soon as it is asked for.
SelectControlTypeAtOnce ==
  /\ OverlapsSelections \/ selecting = {}
  /\ \E selection \in CemSelections :
       /\ Send("CEM", "SelectControlType", selection)
       /\ selecting' = {[id |-> NextId("CEM"), selection |-> selection]}
       /\ state' = [state EXCEPT !["CEM"] = SelectedState(selection)]
  /\ UNCHANGED <<reason, version, details, answered, up, copies>>

\* The application selects a control type; an unanswered selection is overwritten.
SelectControlType ==
  /\ OverlapsSelections \/ selecting = {}
  /\ \E selection \in CemSelections :
       /\ Send("CEM", "SelectControlType", selection)
       /\ selecting' = {[id |-> NextId("CEM"), selection |-> selection]}
  /\ UNCHANGED <<state, reason, version, details, answered, up, copies>>

\* The application instructs or revokes.
Instruct ==
  /\ \E kind \in CemKinds :
       Send("CEM", kind, IF selecting = {} THEN NoArg ELSE Racing)
  /\ UNCHANGED <<state, reason, version, details, answered, selecting, up, copies>>

CemReceive ==
  /\ net["CEM"] # <<>>
  /\ LET m == Head(net["CEM"]) IN
       \/ Ignore("CEM", m)
       \/ AnswerUnreadable("CEM", m)
       \/ AnswerDuplicate("CEM", m)
       \/ RefuseInvalid("CEM", m)
       \/ RefuseByPolicy("CEM", m)
       \/ Unmatched("CEM", m)
       \/ AcceptSessionRequest("CEM", m)
       \/ CemAcceptHandshake(m)
       \/ CemAcceptDetails(m)
       \/ AcceptOther("CEM", m, CemProcessed)
       \/ CemReceptionStatus(m)
=============================================================================
