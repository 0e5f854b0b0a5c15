---------------------------- MODULE ModeContent ----------------------------
(***************************************************************************)
(* The messages of the control types that have operation modes: fill rate  *)
(* (types/frbc.rs), operation mode (ombc.rs) and demand driven (ddbc.rs)   *)
(* based control, and what validate/messages.rs checks of each.  A check   *)
(* yields the rules that fire on message m in the context ctx.             *)
(***************************************************************************)
EXTENDS Rules

(***************************************************************************)
(* What all three describe: modes, and the transitions between them.       *)
(***************************************************************************)
Costs(modes, transitions) ==
  \/ \E i \in DOMAIN modes : modes[i].running_costs # Absent
  \/ \E i \in DOMAIN transitions : transitions[i].transition_costs # Absent

Actuator(id, commodities, modes, transitions, timers) ==
  [id |-> id, supported_commodities |-> commodities, operation_modes |-> modes,
   transitions |-> transitions, timers |-> timers]

CheckActuator(a, rule) ==
  CheckArray(a.operation_modes, 1, 100)
    \cup CheckArray(a.supported_commodities, 1, 4)
    \cup CheckSupportedCommodities(a.supported_commodities)
    \cup CheckUniqueIds(a.operation_modes) \cup CheckUniqueIds(a.timers)
    \cup CheckUniqueIds(a.transitions)
    \cup CheckTransitions(a.transitions, a.operation_modes, a.timers, rule)

CheckStatus(ctx, m, actuator) ==
  CheckFactor(m.operation_mode_factor)
    \cup (IF m.transition_timestamp = Absent THEN {} ELSE CheckObserved(ctx, m.transition_timestamp))
    \cup When(ActiveMode(ctx, actuator) # Absent /\ m.previous_operation_mode_id = Absent,
              "PREVIOUS_MODE_MISSING")

CheckInstruction(ctx, m) ==
  CheckFactor(m.operation_mode_factor) \cup CheckScheduled(ctx, m.execution_time)
    \cup CheckDuplicateInstruction(ctx, m.id)

-----------------------------------------------------------------------------
(***************************************************************************)
(* Fill rate based control.                                                *)
(***************************************************************************)
Storage(range, leakage, target, usage) ==
  [fill_level_range |-> range, provides_leakage_behaviour |-> leakage,
   provides_fill_level_target_profile |-> target, provides_usage_forecast |-> usage]

FrbcElement(levels, rate, ranges, costs) ==
  [fill_level_range |-> levels, fill_rate |-> rate, power_ranges |-> ranges, running_costs |-> costs]

FrbcMode(id, elements, abnormal) ==
  [id |-> id, elements |-> elements, abnormal_condition_only |-> abnormal]

FrbcSystemDescription(id, from, actuators, storage) ==
  [kind |-> "FrbcSystemDescription", message_id |-> id, valid_from |-> from,
   actuators |-> actuators, storage |-> storage]

\* What decoding establishes of the parts that are looked up and reckoned with;
\* IsExact, because the code's numbers take fractions and these do not.
DecodedFrbcElement(e) ==
  /\ IsNumberRange(e.fill_level_range) /\ IsNumberRange(e.fill_rate)
  /\ IsList(e.power_ranges) /\ \A r \in Range(e.power_ranges) : IsNumberRange(r) /\ IsExact(r)

DecodedFrbc(m) ==
  /\ IsList(m.actuators)
  /\ \A a \in Range(m.actuators) :
       /\ IsList(a.operation_modes)
       /\ \A mode \in Range(a.operation_modes) :
            IsList(mode.elements) /\ \A e \in Range(mode.elements) : DecodedFrbcElement(e)

LevelsOf(elements) == [i \in DOMAIN elements |-> elements[i].fill_level_range]

\* Mutant of ElementAt: a band does not hold its upper end.
ElementAtHalfOpen(mode, level) ==
  First(mode.elements,
        LAMBDA e : Within(e.fill_level_range, level) /\ level < e.fill_level_range.end)

\* The element that holds a fill level: the lower one where two bands meet.
ElementAt(mode, level) == First(mode.elements, LAMBDA e : Within(e.fill_level_range, level))

CheckFrbcSystemDescription(ctx, m) ==
  LET CheckElement(a, e) ==
        CheckBand(e.fill_level_range) \cup CheckInterpolated(e.fill_rate)
          \cup CheckPowerRanges(e.power_ranges) \cup CheckRunningCosts(e.running_costs)
          \cup CheckCommodityCoverage(a.supported_commodities, e.power_ranges)
      CheckMode(a, mode) ==
        CheckArray(mode.elements, 1, 100) \cup Over(mode.elements, LAMBDA e : CheckElement(a, e))
          \cup CheckContiguous(LevelsOf(mode.elements), "FRBC_ELEMENTS_CONTIGUOUS")
      Publishes(a) ==
        \/ Costs(<<>>, a.transitions)
        \/ \E i \in DOMAIN a.operation_modes : Costs(a.operation_modes[i].elements, <<>>)
  IN  CheckArray(m.actuators, 1, 10) \cup CheckScheduled(ctx, m.valid_from)
        \cup CheckUniqueIds(m.actuators)
        \cup Over(m.actuators, LAMBDA a : CheckActuator(a, "FRBC_TRANSITION_REFERENCES")
               \cup Over(a.operation_modes, LAMBDA mode : CheckMode(a, mode)))
        \cup CheckBand(m.storage.fill_level_range)
        \cup CheckCurrency(ctx, \E i \in DOMAIN m.actuators : Publishes(m.actuators[i]))

FrbcStorageStatus(level) ==
  [kind |-> "FrbcStorageStatus", message_id |-> "m", present_fill_level |-> level]

CheckFrbcStorageStatus(ctx, m) ==
  CheckFinite(m.present_fill_level)
    \cup When(/\ ctx.frbc # Absent
              /\ IsFinite(m.present_fill_level)
              /\ ~Within(ctx.frbc.storage.fill_level_range, m.present_fill_level),
              "FRBC_FILL_LEVEL_OUT_OF_RANGE")

FrbcActuatorStatus(actuator, mode, factor, previous, at) ==
  [kind |-> "FrbcActuatorStatus", message_id |-> "m", actuator_id |-> actuator,
   active_operation_mode_id |-> mode, operation_mode_factor |-> factor,
   previous_operation_mode_id |-> previous, transition_timestamp |-> at]

CheckFrbcActuatorStatus(ctx, m) ==
  CheckStatus(ctx, m, m.actuator_id)
    \cup (IF ctx.frbc = Absent THEN {}
          ELSE LET a == ById(ctx.frbc.actuators, m.actuator_id)
               IN  IF a = Absent THEN {"FRBC_UNKNOWN_ACTUATOR"}
                   ELSE When(m.active_operation_mode_id \notin Ids(a.operation_modes),
                             "FRBC_UNKNOWN_MODE"))

TimerStatus(kind, actuator, timer, finished) ==
  [kind |-> kind, message_id |-> "m", actuator_id |-> actuator, timer_id |-> timer,
   finished_at |-> finished]

CheckFrbcTimerStatus(ctx, m) ==
  IF ctx.frbc = Absent THEN {}
  ELSE LET a == ById(ctx.frbc.actuators, m.actuator_id)
       IN  IF a = Absent THEN {"FRBC_UNKNOWN_ACTUATOR"}
           ELSE When(m.timer_id \notin Ids(a.timers), "UNKNOWN_TIMER")

LeakageElement(levels, rate) == [fill_level_range |-> levels, leakage_rate |-> rate]

FrbcLeakageBehaviour(from, elements) ==
  [kind |-> "FrbcLeakageBehaviour", message_id |-> "m", valid_from |-> from, elements |-> elements]

NotOffered(ctx, offer) == When(ctx.frbc # Absent /\ ~ctx.frbc.storage[offer], "FRBC_NOT_OFFERED")

CheckFrbcLeakageBehaviour(ctx, m) ==
  CheckArray(m.elements, 1, 288) \cup CheckScheduled(ctx, m.valid_from)
    \cup Over(m.elements, LAMBDA e : CheckBand(e.fill_level_range) \cup CheckFinite(e.leakage_rate))
    \cup CheckContiguous(LevelsOf(m.elements), "FRBC_LEAKAGE_CONTIGUOUS")
    \cup NotOffered(ctx, "provides_leakage_behaviour")

RateElement(duration, bands) == [duration |-> duration, bands |-> bands]

FrbcUsageForecast(start, elements) ==
  [kind |-> "FrbcUsageForecast", message_id |-> "m", start_time |-> start, elements |-> elements]

CheckFrbcUsageForecast(ctx, m) ==
  CheckArray(m.elements, 1, 288) \cup CheckScheduled(ctx, m.start_time)
    \cup Over(m.elements, LAMBDA e : CheckPercentiles(e.bands))
    \cup NotOffered(ctx, "provides_usage_forecast")

TargetElement(duration, levels) == [duration |-> duration, fill_level_range |-> levels]

FrbcFillLevelTargetProfile(start, elements) ==
  [kind |-> "FrbcFillLevelTargetProfile", message_id |-> "m", start_time |-> start,
   elements |-> elements]

\* A target may be a single point, unlike the bands of an operation mode.
CheckFrbcFillLevelTargetProfile(ctx, m) ==
  CheckArray(m.elements, 1, 288) \cup CheckScheduled(ctx, m.start_time)
    \cup Over(m.elements, LAMBDA e : CheckRange(e.fill_level_range))
    \cup NotOffered(ctx, "provides_fill_level_target_profile")

\* An instruction of a control type whose actuators have modes.
ModeInstruction(kind, id, actuator, mode, factor, at, abnormal) ==
  [kind |-> kind, message_id |-> "m", id |-> id, actuator_id |-> actuator, operation_mode |-> mode,
   operation_mode_factor |-> factor, execution_time |-> at, abnormal_condition |-> abnormal]

CheckFrbcInstruction(ctx, m) ==
  CheckInstruction(ctx, m)
    \cup (IF ctx.frbc = Absent THEN {}
          ELSE LET a == ById(ctx.frbc.actuators, m.actuator_id)
                   mode == IF a = Absent THEN Absent ELSE ById(a.operation_modes, m.operation_mode)
               IN  IF a = Absent THEN {"FRBC_UNKNOWN_ACTUATOR"}
                   ELSE IF mode = Absent THEN {"FRBC_UNKNOWN_MODE"}
                   ELSE CheckInstructionContext(ctx, a.id, mode, m.abnormal_condition,
                                                a.transitions))

-----------------------------------------------------------------------------
(***************************************************************************)
(* Operation mode based control: one machine, no actuators.                *)
(***************************************************************************)
OmbcMode(id, ranges, costs, abnormal) ==
  [id |-> id, power_ranges |-> ranges, running_costs |-> costs, abnormal_condition_only |-> abnormal]

OmbcSystemDescription(id, from, modes, transitions, timers) ==
  [kind |-> "OmbcSystemDescription", message_id |-> id, valid_from |-> from,
   operation_modes |-> modes, transitions |-> transitions, timers |-> timers]

CheckOmbcSystemDescription(ctx, m) ==
  CheckArray(m.operation_modes, 1, 100) \cup CheckScheduled(ctx, m.valid_from)
    \cup CheckUniqueIds(m.operation_modes) \cup CheckUniqueIds(m.timers)
    \cup CheckUniqueIds(m.transitions)
    \cup Over(m.operation_modes,
              LAMBDA mode : CheckPowerRanges(mode.power_ranges) \cup CheckRunningCosts(mode.running_costs))
    \cup CheckTransitions(m.transitions, m.operation_modes, m.timers, "OMBC_TRANSITION_REFERENCES")
    \cup CheckCurrency(ctx, Costs(m.operation_modes, m.transitions))

OmbcStatus(mode, factor, previous, at) ==
  [kind |-> "OmbcStatus", message_id |-> "m", active_operation_mode_id |-> mode,
   operation_mode_factor |-> factor, previous_operation_mode_id |-> previous,
   transition_timestamp |-> at]

CheckOmbcStatus(ctx, m) ==
  CheckStatus(ctx, m, Nil)
    \cup When(/\ ctx.ombc # Absent
              /\ m.active_operation_mode_id \notin Ids(ctx.ombc.operation_modes),
              "OMBC_UNKNOWN_MODE")

CheckOmbcTimerStatus(ctx, m) ==
  When(ctx.ombc # Absent /\ m.timer_id \notin Ids(ctx.ombc.timers), "UNKNOWN_TIMER")

CheckOmbcInstruction(ctx, m) ==
  CheckInstruction(ctx, m)
    \cup (IF ctx.ombc = Absent THEN {}
          ELSE LET mode == ById(ctx.ombc.operation_modes, m.operation_mode)
               IN  IF mode = Absent THEN {"OMBC_UNKNOWN_MODE"}
                   ELSE CheckInstructionContext(ctx, Nil, mode, m.abnormal_condition,
                                                ctx.ombc.transitions))

-----------------------------------------------------------------------------
(***************************************************************************)
(* Demand driven based control.                                            *)
(***************************************************************************)
DdbcMode(id, ranges, supply, costs, abnormal) ==
  [id |-> id, power_ranges |-> ranges, supply_range |-> supply, running_costs |-> costs,
   abnormal_condition_only |-> abnormal]

DdbcSystemDescription(id, from, actuators, demand, forecasts) ==
  [kind |-> "DdbcSystemDescription", message_id |-> id, valid_from |-> from,
   actuators |-> actuators, present_demand_rate |-> demand,
   provides_average_demand_rate_forecast |-> forecasts]

DecodedDdbc(m) ==
  /\ IsList(m.actuators)
  /\ \A a \in Range(m.actuators) :
       /\ IsList(a.operation_modes)
       /\ \A mode \in Range(a.operation_modes) : IsNumberRange(mode.supply_range)

\* The demand rate moved out of the description between the two wire profiles.
CarriesDemandRate(profile) == profile = "V0_0_2Beta"

CheckDdbcSystemDescription(ctx, m) ==
  LET CheckMode(a, mode) ==
        CheckPowerRanges(mode.power_ranges) \cup CheckInterpolated(mode.supply_range)
          \cup CheckRunningCosts(mode.running_costs)
          \cup CheckCommodityCoverage(a.supported_commodities, mode.power_ranges)
  IN  CheckArray(m.actuators, 1, 10) \cup CheckScheduled(ctx, m.valid_from)
        \cup CheckUniqueIds(m.actuators)
        \cup (IF m.present_demand_rate = Absent THEN {} ELSE CheckRange(m.present_demand_rate))
        \cup When(CarriesDemandRate(ctx.profile) # (m.present_demand_rate # Absent), "PROFILE_FIELD")
        \cup Over(m.actuators, LAMBDA a : CheckActuator(a, "DDBC_TRANSITION_REFERENCES")
               \cup Over(a.operation_modes, LAMBDA mode : CheckMode(a, mode)))
        \cup CheckCurrency(ctx, \E i \in DOMAIN m.actuators :
                                  Costs(m.actuators[i].operation_modes, m.actuators[i].transitions))

DdbcPresentDemandStatus(rate) ==
  [kind |-> "DdbcPresentDemandStatus", message_id |-> "m", present_demand_rate |-> rate]

CheckDdbcPresentDemandStatus(m) == CheckRange(m.present_demand_rate)

DdbcActuatorStatus(actuator, mode, factor, previous, at) ==
  [FrbcActuatorStatus(actuator, mode, factor, previous, at) EXCEPT !.kind = "DdbcActuatorStatus"]

CheckDdbcActuatorStatus(ctx, m) ==
  CheckStatus(ctx, m, m.actuator_id)
    \cup (IF ctx.ddbc = Absent THEN {}
          ELSE LET a == ById(ctx.ddbc.actuators, m.actuator_id)
               IN  IF a = Absent THEN {"DDBC_UNKNOWN_ACTUATOR"}
                   ELSE When(m.active_operation_mode_id \notin Ids(a.operation_modes),
                             "DDBC_UNKNOWN_MODE"))

CheckDdbcTimerStatus(ctx, m) ==
  IF ctx.ddbc = Absent THEN {}
  ELSE LET a == ById(ctx.ddbc.actuators, m.actuator_id)
       IN  IF a = Absent THEN {"DDBC_UNKNOWN_ACTUATOR"}
           ELSE When(m.timer_id \notin Ids(a.timers), "UNKNOWN_TIMER")

DdbcAverageDemandRateForecast(start, elements) ==
  [kind |-> "DdbcAverageDemandRateForecast", message_id |-> "m", start_time |-> start,
   elements |-> elements]

CheckDdbcAverageDemandRateForecast(ctx, m) ==
  CheckArray(m.elements, 1, 288) \cup CheckScheduled(ctx, m.start_time)
    \cup Over(m.elements, LAMBDA e : CheckPercentiles(e.bands))
    \cup When(ctx.ddbc # Absent /\ ~ctx.ddbc.provides_average_demand_rate_forecast,
              "DDBC_FORECAST_NOT_OFFERED")

CheckDdbcInstruction(ctx, m) ==
  CheckInstruction(ctx, m)
    \cup (IF ctx.ddbc = Absent THEN {}
          ELSE LET a == ById(ctx.ddbc.actuators, m.actuator_id)
                   mode == IF a = Absent THEN Absent ELSE ById(a.operation_modes, m.operation_mode)
               IN  IF a = Absent THEN {"DDBC_UNKNOWN_ACTUATOR"}
                   ELSE IF mode = Absent THEN {"DDBC_UNKNOWN_MODE"}
                   ELSE CheckInstructionContext(ctx, a.id, mode, m.abnormal_condition,
                                                a.transitions))
=============================================================================
