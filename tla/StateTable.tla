----------------------------- MODULE StateTable -----------------------------
(***************************************************************************)
(* The normative table of what may cross a session and when:               *)
(* validate/state.rs, with the facts about message kinds it consults       *)
(* (message.rs).  Both engines read this one table, to judge what they     *)
(* receive and to refuse what the application asks them to send.           *)
(***************************************************************************)

Roles == {"RM", "CEM"}

Peer(role) == IF role = "RM" THEN "CEM" ELSE "RM"

(***************************************************************************)
(* Control types.  Only the five of ControlTypes can be instructed;        *)
(* NOT_CONTROLABLE and NO_SELECTION are legal values of a selection.       *)
(***************************************************************************)
ControlTypes == {"PEBC", "PPBC", "OMBC", "FRBC", "DDBC"}

Selections == ControlTypes \cup {"NOT_CONTROLABLE", "NO_SELECTION"}

(***************************************************************************)
(* Message kinds, grouped the way the table reads them.                    *)
(***************************************************************************)
DescriptionsAndStatuses ==
  [PEBC |-> {"PebcPowerConstraints", "PebcEnergyConstraint"},
   PPBC |-> {"PpbcPowerProfileDefinition", "PpbcPowerProfileStatus"},
   OMBC |-> {"OmbcSystemDescription", "OmbcStatus", "OmbcTimerStatus"},
   FRBC |-> {"FrbcSystemDescription", "FrbcStorageStatus", "FrbcActuatorStatus",
             "FrbcTimerStatus", "FrbcLeakageBehaviour", "FrbcUsageForecast",
             "FrbcFillLevelTargetProfile"},
   DDBC |-> {"DdbcSystemDescription", "DdbcActuatorStatus", "DdbcTimerStatus",
             "DdbcAverageDemandRateForecast", "DdbcPresentDemandStatus"}]

Instructions ==
  [PEBC |-> {"PebcInstruction"},
   PPBC |-> {"PpbcScheduleInstruction", "PpbcStartInterruptionInstruction",
             "PpbcEndInterruptionInstruction"},
   OMBC |-> {"OmbcInstruction"},
   FRBC |-> {"FrbcInstruction"},
   DDBC |-> {"DdbcInstruction"}]

IsInstruction(kind) == \E ct \in ControlTypes : kind \in Instructions[ct]

\* Whether a kind belongs to one control type.
BelongsTo(kind, ct) == kind \in DescriptionsAndStatuses[ct] \cup Instructions[ct]

HandshakeKinds == {"Handshake", "HandshakeResponse"}

\* Kinds either role may send.
SharedKinds == {"SessionRequest", "ReceptionStatus", "Handshake", "RevokeObject"}

\* What may be said whenever a version is agreed, whatever is selected.
StandingKinds ==
  {"ResourceManagerDetails", "PowerMeasurement", "PowerForecast", "SelectControlType"}

Kinds ==
  HandshakeKinds \cup SharedKinds \cup StandingKinds \cup {"InstructionStatusUpdate"}
    \cup UNION {DescriptionsAndStatuses[ct] \cup Instructions[ct] : ct \in ControlTypes}

\* The roles a kind may come from.
Senders(kind) ==
  IF kind \in SharedKinds THEN Roles
  ELSE IF kind \in {"SelectControlType", "HandshakeResponse"} \/ IsInstruction(kind)
       THEN {"CEM"}
       ELSE {"RM"}

(***************************************************************************)
(* Protocol versions and wire profiles.  A version string the crate does   *)
(* not speak selects no profile.                                           *)
(***************************************************************************)
WireProfiles == {"V1_0_0", "V0_0_2Beta"}

NoProfile == "NoProfile"

WireProfile(version) ==
  CASE version = "1.0.0" -> "V1_0_0"
    [] version = "0.0.2-beta" -> "V0_0_2Beta"
    [] OTHER -> NoProfile

ExistsIn(kind, profile) ==
  ~(kind = "DdbcPresentDemandStatus" /\ profile = "V0_0_2Beta")

(***************************************************************************)
(* The phases of the table: before a version is agreed, agreed with        *)
(* nothing to instruct, and one row per active control type.               *)
(***************************************************************************)
Phases == {"Negotiating", "Connected"} \cup ControlTypes

Activated(phase) == phase \in ControlTypes

\* The phase a selection puts a session in.
SelectedPhase(selection) ==
  IF selection \in ControlTypes THEN selection ELSE "Connected"

(***************************************************************************)
(* Whether a kind may cross in a phase, and whether a role may send it.    *)
(***************************************************************************)
AllowedInPhase(phase, kind) ==
  \/ kind \in {"ReceptionStatus", "SessionRequest"}
  \/ kind \in HandshakeKinds /\ ~Activated(phase)
  \/ kind \in StandingKinds /\ phase # "Negotiating"
  \/ kind \in {"InstructionStatusUpdate", "RevokeObject"} /\ Activated(phase)
  \/ Activated(phase) /\ BelongsTo(kind, phase)

Allowed(phase, sender, kind) ==
  sender \in Senders(kind) /\ AllowedInPhase(phase, kind)
=============================================================================
