-------------------------------- MODULE Rules --------------------------------
(***************************************************************************)
(* The rule catalogue (validate/rules.rs), what is known when a message is *)
(* judged (Context), and the checks messages share (validate/mod.rs).  A   *)
(* report is the set of rules that fired: the path and the wording of each *)
(* violation are left out, its severity comes from the catalogue.          *)
(***************************************************************************)
EXTENDS Values, Tables, StateTable

CONSTANTS
  Horizon,        \* how far ahead a scheduled instant is plausible, a year in the code
  SkewTolerance   \* how far ahead of the clock one that is past may lie, 30 s by default

\* The sender is not always known.
ASSUME RulesAssumption == Absent \notin Roles /\ SkewTolerance \in Nat

(***************************************************************************)
(* The catalogue.  A rule is a warning where the standard is silent or     *)
(* ambiguous; it needs the session when a message alone cannot break it.   *)
(***************************************************************************)
Warnings ==
  {"DUPLICATE_MESSAGE_ID", "TIMESTAMP_SKEW", "PHASE_EXCLUSIVITY", "PERCENTILE_ORDER",
   "CURRENCY_REQUIRED", "DUPLICATE_ROLE", "NO_SELECTION_OFFERED", "HANDSHAKE_UNDER_CONNECT",
   "COMMODITY_WITHOUT_POWER_RANGE", "DUPLICATE_SUPPORTED_COMMODITY", "PREVIOUS_MODE_MISSING",
   "STATUS_REGRESSION", "BLOCKED_BY_TIMER", "NO_SUCH_TRANSITION", "REVOKE_ROLE_MISMATCH",
   "REVOKE_UNKNOWN", "FRBC_FILL_LEVEL_OUT_OF_RANGE", "PPBC_WINDOW_TOO_SHORT",
   "PPBC_PROGRESS_UNEXPECTED"}

IntrinsicErrors ==
  {"DUPLICATE_ID", "NON_FINITE", "RANGE_ORDER", "RANGE_STRICT_ORDER", "FACTOR_RANGE",
   "ARRAY_BOUNDS", "ROLE_REQUIRED_FIELD", "ONE_VALUE_PER_QUANTITY", "FRBC_ELEMENTS_CONTIGUOUS",
   "FRBC_LEAKAGE_CONTIGUOUS", "FRBC_TRANSITION_REFERENCES", "OMBC_TRANSITION_REFERENCES",
   "DDBC_TRANSITION_REFERENCES", "PEBC_BOTH_LIMITS", "PEBC_VALIDITY_WINDOW",
   "PEBC_ENVELOPE_LIMIT_ORDER", "PEBC_ONE_ENVELOPE_PER_QUANTITY", "PEBC_ENERGY_ORDER",
   "PPBC_WINDOW", "PPBC_PROGRESS", "PPBC_SEQUENCE_NOT_NAMED"}

ContextualErrors ==
  {"PROFILE_FIELD", "MEASUREMENT_NOT_OFFERED", "FORECAST_NOT_OFFERED", "CONTROL_TYPE_NOT_OFFERED",
   "NOT_ALLOWED_IN_STATE", "NOT_ALLOWED_FOR_ROLE", "UNKNOWN_TIMER", "DUPLICATE_INSTRUCTION_ID",
   "UNKNOWN_INSTRUCTION", "ABNORMAL_ONLY", "FRBC_UNKNOWN_ACTUATOR", "FRBC_UNKNOWN_MODE",
   "FRBC_NOT_OFFERED", "PEBC_UNKNOWN_CONSTRAINTS", "PEBC_OUTSIDE_ALLOWED",
   "PPBC_UNKNOWN_SEQUENCE", "PPBC_NOT_INTERRUPTIBLE", "PPBC_STATUS_COVERAGE",
   "OMBC_UNKNOWN_MODE", "DDBC_UNKNOWN_ACTUATOR", "DDBC_UNKNOWN_MODE",
   "DDBC_FORECAST_NOT_OFFERED"}

Errors == IntrinsicErrors \cup ContextualErrors

Severity(rule) == IF rule \in Warnings THEN "Warning" ELSE "Error"

HasErrors(report) == \E rule \in report : Severity(rule) = "Error"

\* The answer a receiver gives; the diagnostic label is its wording.
StatusOf(report) == IF HasErrors(report) THEN "INVALID_CONTENT" ELSE "OK"

When(broken, rule) == IF broken THEN {rule} ELSE {}

Over(s, Check(_)) == UNION {Check(s[i]) : i \in DOMAIN s}

(***************************************************************************)
(* What is known when a message is judged.  A lone message is judged in    *)
(* the empty context.                                                      *)
(***************************************************************************)
EmptyContext ==
  [profile |-> "V1_0_0", sender |-> Absent, phase |-> "Connected", s2_connect |-> FALSE,
   details |-> Absent, frbc |-> Absent, ombc |-> Absent, ddbc |-> Absent,
   pebc_constraints |-> <<>>, ppbc_profiles |-> <<>>,
   instructions |-> <<>>, instruction_statuses |-> <<>>,
   seen_message_ids |-> {}, published |-> <<>>, active_modes |-> <<>>, timers |-> <<>>,
   fill_level |-> Absent, now |-> Absent, skew_tolerance |-> SkewTolerance]

ActiveMode(ctx, actuator) ==
  IF Has(ctx.active_modes, actuator) THEN Get(ctx.active_modes, actuator) ELSE Absent

\* Timers are known per actuator: two actuators may use one identifier.
TimerKey(actuator, timer) == <<actuator, timer>>

\* Whether a timer is known to run; a timer nobody reported on is not.
Runs(ctx, actuator, timer) ==
  /\ Has(ctx.timers, TimerKey(actuator, timer))
  /\ Get(ctx.timers, TimerKey(actuator, timer)) > ctx.now

-----------------------------------------------------------------------------
(***************************************************************************)
(* Shared checks.                                                          *)
(***************************************************************************)
CheckFinite(x) == When(~IsFinite(x), "NON_FINITE")

\* A range whose ends belong to the factors 0 and 1: either may be the larger.
CheckInterpolated(r) == CheckFinite(r.start) \cup CheckFinite(r.end)

CheckRange(r) ==
  CheckInterpolated(r) \cup When(IsFiniteRange(r) /\ r.start > r.end, "RANGE_ORDER")

CheckBand(r) ==
  CheckInterpolated(r) \cup When(IsFiniteRange(r) /\ r.start >= r.end, "RANGE_STRICT_ORDER")

\* Mutant of CheckFactor: only what no factor can be is refused.
CheckFactorFinite(f) == CheckFinite(f)

CheckFactor(f) == CheckFinite(f) \cup When(IsFinite(f) /\ f \notin 0 .. Unit, "FACTOR_RANGE")

\* The schema bounds the length of every array; schema/table.rs has the numbers.
CheckArray(s, min, max) == When(Len(s) \notin min .. max, "ARRAY_BOUNDS")

CheckUniqueQuantities(quantities) ==
  When(~IsInjective(quantities), "ONE_VALUE_PER_QUANTITY")
    \cup When(/\ \E i \in DOMAIN quantities : quantities[i] \in PerPhase
              /\ \E i \in DOMAIN quantities : quantities[i] = Symmetric, "PHASE_EXCLUSIVITY")

QuantitiesIn(s) == [i \in DOMAIN s |-> s[i].quantity]

CheckUniqueIds(s) == When(~IsInjective([i \in DOMAIN s |-> s[i].id]), "DUPLICATE_ID")

\* Bands tile their range: each starts where the one before it ends, to within
\* a tolerance finer than the numbers here.
CheckContiguous(bands, rule) ==
  When(\E i \in 1 .. Len(bands) - 1 :
         /\ IsFiniteRange(bands[i]) /\ IsFiniteRange(bands[i + 1])
         /\ bands[i].end # bands[i + 1].start, rule)

\* Confidence bands run upwards, the missing and the unusable ones skipped.
CheckPercentiles(bands) ==
  LET present == SelectSeq(bands, LAMBDA v : v # Absent)
      usable == SelectSeq(present, IsFinite)
  IN  Over(present, CheckFinite)
        \cup When(\E i \in 1 .. Len(usable) - 1 : usable[i + 1] < usable[i], "PERCENTILE_ORDER")

CheckForecastValues(values) ==
  CheckArray(values, 1, 10) \cup CheckUniqueQuantities(QuantitiesIn(values))
    \cup Over(values, LAMBDA v : CheckPercentiles(v.bands))

CheckPowerRanges(ranges) ==
  CheckArray(ranges, 1, 10) \cup CheckUniqueQuantities(QuantitiesIn(ranges))
    \cup Over(ranges, CheckInterpolated)

\* How far an instant is ahead of the clock, 0 when it is past or no clock is known.
Ahead(ctx, at) == IF ctx.now = Absent \/ at < ctx.now THEN 0 ELSE at - ctx.now

\* What has happened cannot lie ahead of the clock; what is planned may.
CheckObserved(ctx, at) == When(Ahead(ctx, at) > ctx.skew_tolerance, "TIMESTAMP_SKEW")
CheckScheduled(ctx, at) == When(Ahead(ctx, at) > Horizon, "TIMESTAMP_SKEW")

CheckCurrency(ctx, publishesCosts) ==
  When(/\ publishesCosts
       /\ ctx.details # Absent
       /\ ctx.details.currency = Absent, "CURRENCY_REQUIRED")

CheckSupportedCommodities(commodities) ==
  When(~IsInjective(commodities), "DUPLICATE_SUPPORTED_COMMODITY")

CheckCommodityCoverage(supported, ranges) ==
  When(\E i \in DOMAIN supported :
         \A j \in DOMAIN ranges : ranges[j].quantity \notin QuantitiesOf[supported[i]],
       "COMMODITY_WITHOUT_POWER_RANGE")

CheckRunningCosts(costs) == IF costs = Absent THEN {} ELSE CheckInterpolated(costs)

Ids(s) == {s[i].id : i \in DOMAIN s}

\* Transitions name modes and timers of their own description only.
CheckTransitions(transitions, modes, timers, rule) ==
  LET Check(t) ==
        When(\/ {t.from, t.to} \ Ids(modes) # {}
             \/ (Range(t.start_timers) \cup Range(t.blocking_timers)) \ Ids(timers) # {}, rule)
          \cup (IF t.transition_costs = Absent THEN {} ELSE CheckFinite(t.transition_costs))
  IN  Over(transitions, Check)

CheckDuplicateInstruction(ctx, id) == When(Has(ctx.instructions, id), "DUPLICATE_INSTRUCTION_ID")

(***************************************************************************)
(* The part instructions share: is the mode allowed now, is the move to it *)
(* described, allowed and not blocked?  Staying in a mode is no move.      *)
(***************************************************************************)
CheckMove(ctx, t, actuator, abnormal) ==
  When(t.abnormal_condition_only /\ ~abnormal, "ABNORMAL_ONLY")
    \cup When(/\ ctx.now # Absent
              /\ \E timer \in Range(t.blocking_timers) : Runs(ctx, actuator, timer),
              "BLOCKED_BY_TIMER")

CheckInstructionContext(ctx, actuator, mode, abnormal, transitions) ==
  LET active == ActiveMode(ctx, actuator)
      move == Move(transitions, active, mode.id)
  IN  When(mode.abnormal_condition_only /\ ~abnormal, "ABNORMAL_ONLY")
        \cup (IF active \in {Absent, mode.id} THEN {}
              ELSE IF move = Absent THEN {"NO_SUCH_TRANSITION"}
              ELSE CheckMove(ctx, move, actuator, abnormal))

(***************************************************************************)
(* Whatever a message is: may it cross now, and was its identifier new?    *)
(***************************************************************************)
CheckEnvelope(ctx, kind, id) ==
  (IF ctx.sender = Absent \/ Allowed(ctx.phase, ctx.sender, kind) THEN {}
   ELSE IF ctx.sender \in Senders(kind) THEN {"NOT_ALLOWED_IN_STATE"}
   ELSE {"NOT_ALLOWED_FOR_ROLE"})
    \cup When(ctx.s2_connect /\ kind \in HandshakeKinds, "HANDSHAKE_UNDER_CONNECT")
    \cup When(id \in ctx.seen_message_ids, "DUPLICATE_MESSAGE_ID")
=============================================================================
