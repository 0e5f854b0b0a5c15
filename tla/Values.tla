------------------------------- MODULE Values -------------------------------
(***************************************************************************)
(* The values messages are made of (types/common.rs): numbers, ranges of   *)
(* numbers, commodity quantities, forecasts, operation-mode transitions.   *)
(* A number is an integer or NotFinite, the infinities and NaN of an f64;  *)
(* an operation mode factor f stands for f / Unit, and every span a range  *)
(* is given in an instance is a multiple of Unit, so interpolation is      *)
(* exact.  An optional field that is missing is Absent.                    *)
(***************************************************************************)
EXTENDS Integers, SequencesExt

CONSTANTS
  Absent,     \* an optional value that is not there
  NotFinite,  \* a number JSON cannot carry
  Unit        \* the operation mode factor 1

ASSUME ValuesAssumption ==
  /\ Unit \in Nat \ {0}
  /\ NotFinite \notin Int
  /\ Absent \notin Int /\ Absent # NotFinite
  /\ Absent \notin [start : Int, end : Int]

\* The identifier that stands for an actuator where a system has none.
Nil == "nil"

IsFinite(x) == x # NotFinite

(***************************************************************************)
(* Ranges.  The start is the value at factor 0, the end the value at       *)
(* factor 1; where a range is a set of values either end may be the lower. *)
(***************************************************************************)
NumberRange(start, end) == [start |-> start, end |-> end]

IsFiniteRange(r) == IsFinite(r.start) /\ IsFinite(r.end)

\* Ordered(r) is the range from the low end to the high one.
Ordered(r) == IF r.start <= r.end THEN NumberRange(r.start, r.end) ELSE NumberRange(r.end, r.start)

Within(r, x) == IsFinite(x) /\ Ordered(r).start <= x /\ x <= Ordered(r).end

AtFactor(r, f) == r.start + ((r.end - r.start) * f) \div Unit

\* The factor that yields a value, for a range that is not a single point.
FactorOf(r, x) ==
  IF r.start = r.end THEN Absent
  ELSE IF r.start < r.end THEN ((x - r.start) * Unit) \div (r.end - r.start)
  ELSE ((r.start - x) * Unit) \div (r.start - r.end)

\* Whether every factor yields an integer.
IsExact(r) == IsFiniteRange(r) => (r.end - r.start) % Unit = 0

\* What a decoded field holds: a number, a range of them, a list with no gap.
IsNumber(x) == x \in Int \cup {NotFinite}
IsNumberRange(r) == IsNumber(r.start) /\ IsNumber(r.end)
IsList(s) == s \in Seq(Range(s)) /\ Absent \notin Range(s)

(***************************************************************************)
(* Commodities and what is measured of them.                               *)
(***************************************************************************)
PerPhase == {"ELECTRIC.POWER.L1", "ELECTRIC.POWER.L2", "ELECTRIC.POWER.L3"}
Symmetric == "ELECTRIC.POWER.3_PHASE_SYMMETRIC"

QuantitiesOf ==
  [ELECTRICITY |-> PerPhase \cup {Symmetric},
   GAS |-> {"NATURAL_GAS.FLOW_RATE", "HYDROGEN.FLOW_RATE"},
   HEAT |-> {"HEAT.TEMPERATURE", "HEAT.FLOW_RATE", "HEAT.THERMAL_POWER"},
   OIL |-> {"OIL.FLOW_RATE"}]

PowerRange(start, end, quantity) == [start |-> start, end |-> end, quantity |-> quantity]
PowerValue(quantity, value) == [quantity |-> quantity, value |-> value]

\* What is forecast of a quantity: the seven values from the lowest limit up to
\* the highest, the expected one in the middle, any other of them Absent.
ForecastValue(quantity, bands) == [quantity |-> quantity, bands |-> bands]
Expected(value) == <<Absent, Absent, Absent, value, Absent, Absent, Absent>>

ForecastElement(duration, values) == [duration |-> duration, power_values |-> values]

(***************************************************************************)
(* Operation modes are left and entered by transitions, which start timers *)
(* and wait for them.                                                      *)
(***************************************************************************)
Timer(id, duration) == [id |-> id, duration |-> duration]

Transition(id, from, to, starts, blocked, abnormal) ==
  [id |-> id, from |-> from, to |-> to, start_timers |-> starts, blocking_timers |-> blocked,
   transition_costs |-> Absent, transition_duration |-> Absent,
   abnormal_condition_only |-> abnormal]

\* Lookups take the first that matches.  First(s, Test) is Absent when none does.
First(s, Test(_)) ==
  LET i == SelectInSeq(s, Test) IN IF i = 0 THEN Absent ELSE s[i]

ById(s, id) == First(s, LAMBDA e : e.id = id)

Move(transitions, from, to) == First(transitions, LAMBDA t : t.from = from /\ t.to = to)

(***************************************************************************)
(* Instruction progress.                                                   *)
(***************************************************************************)
FinalStatuses == {"SUCCEEDED", "REJECTED", "REVOKED", "ABORTED"}

ProgressRank(status) ==
  CASE status = "NEW" -> 0
    [] status = "ACCEPTED" -> 1
    [] status = "STARTED" -> 2
    [] status \in FinalStatuses -> 3
=============================================================================
