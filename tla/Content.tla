------------------------------- MODULE Content -------------------------------
(***************************************************************************)
(* What every message must say, whatever its control type: the common      *)
(* messages (types/common.rs) and the report on any message                *)
(* (validate/messages.rs).                                                 *)
(***************************************************************************)
EXTENDS ModeContent, PowerContent

Handshake(role, versions) ==
  [kind |-> "Handshake", message_id |-> "m", role |-> role, supported_protocol_versions |-> versions]

CheckHandshake(m) ==
  IF m.supported_protocol_versions # Absent
    THEN When(m.supported_protocol_versions = <<>>, "ARRAY_BOUNDS")
    ELSE When(m.role = "RM", "ROLE_REQUIRED_FIELD")

ResourceRole(role, commodity) == [role |-> role, commodity |-> commodity]

ResourceManagerDetails(roles, types, measured, forecasts, currency) ==
  [kind |-> "ResourceManagerDetails", message_id |-> "m", roles |-> roles,
   available_control_types |-> types, provides_power_measurement_types |-> measured,
   provides_forecast |-> forecasts, currency |-> currency]

CheckResourceManagerDetails(m) ==
  CheckArray(m.roles, 1, 3) \cup CheckArray(m.available_control_types, 1, 5)
    \cup CheckArray(m.provides_power_measurement_types, 1, 10)
    \cup When(~IsInjective(m.roles), "DUPLICATE_ROLE")
    \cup When("NO_SELECTION" \in Range(m.available_control_types), "NO_SELECTION_OFFERED")
    \cup CheckUniqueQuantities(m.provides_power_measurement_types)

SelectControlType(type) ==
  [kind |-> "SelectControlType", message_id |-> "m", control_type |-> type]

CheckSelectControlType(ctx, m) ==
  When(/\ ctx.details # Absent
       /\ m.control_type # "NO_SELECTION"
       /\ m.control_type \notin Range(ctx.details.available_control_types),
       "CONTROL_TYPE_NOT_OFFERED")

PowerMeasurement(at, values) ==
  [kind |-> "PowerMeasurement", message_id |-> "m", measurement_timestamp |-> at, values |-> values]

CheckPowerMeasurement(ctx, m) ==
  CheckArray(m.values, 1, 10) \cup CheckUniqueQuantities(QuantitiesIn(m.values))
    \cup Over(m.values, LAMBDA v : CheckFinite(v.value))
    \cup CheckObserved(ctx, m.measurement_timestamp)
    \cup When(/\ ctx.details # Absent
              /\ ~(Range(QuantitiesIn(m.values))
                     \subseteq Range(ctx.details.provides_power_measurement_types)),
              "MEASUREMENT_NOT_OFFERED")

PowerForecast(start, elements) ==
  [kind |-> "PowerForecast", message_id |-> "m", start_time |-> start, elements |-> elements]

CheckPowerForecast(ctx, m) ==
  CheckArray(m.elements, 1, 288) \cup CheckScheduled(ctx, m.start_time)
    \cup Over(m.elements, LAMBDA e : CheckForecastValues(e.power_values))
    \cup When(ctx.details # Absent /\ ~ctx.details.provides_forecast, "FORECAST_NOT_OFFERED")

InstructionStatusUpdate(instruction, status, at) ==
  [kind |-> "InstructionStatusUpdate", message_id |-> "m", instruction_id |-> instruction,
   status_type |-> status, timestamp |-> at]

CheckInstructionStatusUpdate(ctx, m) ==
  CheckObserved(ctx, m.timestamp)
    \cup When(ctx.instructions # <<>> /\ ~Has(ctx.instructions, m.instruction_id),
              "UNKNOWN_INSTRUCTION")
    \cup When(/\ Has(ctx.instruction_statuses, m.instruction_id)
              /\ ProgressRank(m.status_type)
                   < ProgressRank(Get(ctx.instruction_statuses, m.instruction_id)),
              "STATUS_REGRESSION")

(***************************************************************************)
(* What can be revoked goes by the name of the message that publishes it;  *)
(* a system description has no identifier of its own and goes by that of   *)
(* the message.                                                            *)
(***************************************************************************)
SystemDescriptions == [FRBC |-> "FrbcSystemDescription", OMBC |-> "OmbcSystemDescription",
                       DDBC |-> "DdbcSystemDescription"]

IsSystemDescription(kind) == kind \in Range(SystemDescriptions)

RevokableKinds ==
  Range(SystemDescriptions)
    \cup {"PebcPowerConstraints", "PebcEnergyConstraint", "PpbcPowerProfileDefinition"}
    \cup UNION {Instructions[ct] : ct \in ControlTypes}

RevokableId(m) == <<m.kind, IF IsSystemDescription(m.kind) THEN m.message_id ELSE m.id>>

Owner(kind) == IF IsInstruction(kind) THEN "CEM" ELSE "RM"

RevokeObject(type, id) ==
  [kind |-> "RevokeObject", message_id |-> "m", object_type |-> type, object_id |-> id]

CheckRevokeObject(ctx, m) ==
  When(ctx.sender # Absent /\ Owner(m.object_type) # ctx.sender, "REVOKE_ROLE_MISMATCH")
    \cup When(ctx.published # <<>> /\ ~Has(ctx.published, <<m.object_type, m.object_id>>),
              "REVOKE_UNKNOWN")

-----------------------------------------------------------------------------
CheckCommon(ctx, m) ==
  CASE m.kind = "Handshake" -> CheckHandshake(m)
    [] m.kind \in {"HandshakeResponse", "SessionRequest", "ReceptionStatus"} -> {}
    [] m.kind = "ResourceManagerDetails" -> CheckResourceManagerDetails(m)
    [] m.kind = "SelectControlType" -> CheckSelectControlType(ctx, m)
    [] m.kind = "PowerMeasurement" -> CheckPowerMeasurement(ctx, m)
    [] m.kind = "PowerForecast" -> CheckPowerForecast(ctx, m)
    [] m.kind = "InstructionStatusUpdate" -> CheckInstructionStatusUpdate(ctx, m)
    [] m.kind = "RevokeObject" -> CheckRevokeObject(ctx, m)

CheckFrbc(ctx, m) ==
  CASE m.kind = "FrbcSystemDescription" -> CheckFrbcSystemDescription(ctx, m)
    [] m.kind = "FrbcStorageStatus" -> CheckFrbcStorageStatus(ctx, m)
    [] m.kind = "FrbcActuatorStatus" -> CheckFrbcActuatorStatus(ctx, m)
    [] m.kind = "FrbcTimerStatus" -> CheckFrbcTimerStatus(ctx, m)
    [] m.kind = "FrbcLeakageBehaviour" -> CheckFrbcLeakageBehaviour(ctx, m)
    [] m.kind = "FrbcUsageForecast" -> CheckFrbcUsageForecast(ctx, m)
    [] m.kind = "FrbcFillLevelTargetProfile" -> CheckFrbcFillLevelTargetProfile(ctx, m)
    [] m.kind = "FrbcInstruction" -> CheckFrbcInstruction(ctx, m)

CheckOmbc(ctx, m) ==
  CASE m.kind = "OmbcSystemDescription" -> CheckOmbcSystemDescription(ctx, m)
    [] m.kind = "OmbcStatus" -> CheckOmbcStatus(ctx, m)
    [] m.kind = "OmbcTimerStatus" -> CheckOmbcTimerStatus(ctx, m)
    [] m.kind = "OmbcInstruction" -> CheckOmbcInstruction(ctx, m)

CheckDdbc(ctx, m) ==
  CASE m.kind = "DdbcSystemDescription" -> CheckDdbcSystemDescription(ctx, m)
    [] m.kind = "DdbcPresentDemandStatus" -> CheckDdbcPresentDemandStatus(m)
    [] m.kind = "DdbcActuatorStatus" -> CheckDdbcActuatorStatus(ctx, m)
    [] m.kind = "DdbcTimerStatus" -> CheckDdbcTimerStatus(ctx, m)
    [] m.kind = "DdbcAverageDemandRateForecast" -> CheckDdbcAverageDemandRateForecast(ctx, m)
    [] m.kind = "DdbcInstruction" -> CheckDdbcInstruction(ctx, m)

CheckPower(ctx, m) ==
  CASE m.kind = "PebcPowerConstraints" -> CheckPebcPowerConstraints(ctx, m)
    [] m.kind = "PebcEnergyConstraint" -> CheckPebcEnergyConstraint(ctx, m)
    [] m.kind = "PebcInstruction" -> CheckPebcInstruction(ctx, m)
    [] m.kind = "PpbcPowerProfileDefinition" -> CheckPpbcPowerProfileDefinition(ctx, m)
    [] m.kind = "PpbcPowerProfileStatus" -> CheckPpbcPowerProfileStatus(ctx, m)
    [] m.kind = "PpbcScheduleInstruction" -> CheckPpbcScheduleInstruction(ctx, m)
    [] m.kind = "PpbcStartInterruptionInstruction" -> CheckPpbcStartInterruptionInstruction(ctx, m)
    [] m.kind = "PpbcEndInterruptionInstruction" -> CheckPpbcEndInterruptionInstruction(ctx, m)

\* What decoding has established of a message by the time it is judged.
Decoded(m) ==
  /\ m.kind = "FrbcSystemDescription" => DecodedFrbc(m)
  /\ m.kind = "OmbcSystemDescription" => IsList(m.operation_modes)
  /\ m.kind = "DdbcSystemDescription" => DecodedDdbc(m)
  /\ m.kind = "FrbcStorageStatus" => IsNumber(m.present_fill_level)
  /\ m.kind \in {"FrbcInstruction", "OmbcInstruction", "DdbcInstruction"} =>
       IsNumber(m.operation_mode_factor)
  /\ m.kind = "PebcEnergyConstraint" => DecodedEnergy(m)
  /\ m.kind = "PebcInstruction" => DecodedEnvelopes(m)
  /\ m.kind = "PpbcPowerProfileDefinition" => DecodedProfile(m)

\* The report on a message.
Judge(ctx, m) ==
  CheckEnvelope(ctx, m.kind, m.message_id)
    \cup (CASE BelongsTo(m.kind, "FRBC") -> CheckFrbc(ctx, m)
            [] BelongsTo(m.kind, "OMBC") -> CheckOmbc(ctx, m)
            [] BelongsTo(m.kind, "DDBC") -> CheckDdbc(ctx, m)
            [] BelongsTo(m.kind, "PEBC") \/ BelongsTo(m.kind, "PPBC") -> CheckPower(ctx, m)
            [] OTHER -> CheckCommon(ctx, m))
=============================================================================
