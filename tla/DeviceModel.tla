----------------------------- MODULE DeviceModel -----------------------------
(***************************************************************************)
(* What an instruction would do (model/mod.rs): the mode it resolves to,   *)
(* the power and the rates its factor yields, the limits it sets, the      *)
(* windows its sequences fit; and the explanation of an instruction in the *)
(* context of a session (model/explain.rs).  Labels and notes are wording. *)
(***************************************************************************)
EXTENDS Content

\* Why an instruction cannot be resolved, and why a choice or its starts cannot stand.
ResolveErrors ==
  {"NotDescribed", "UnknownActuator", "UnknownOperationMode", "BadFactor", "FillLevelNotCovered",
   "UnknownSequence"}
ScheduleProblems ==
  {"WrongContainer", "UnknownSequence", "NotSchedulable", "WrongCount", "TooEarly",
   "PauseTooLong", "Overruns"}

ASSUME DeviceModelAssumption ==
  /\ Absent \notin ResolveErrors \cup ScheduleProblems
  /\ Absent \notin [length : Int, average : [start : Int, end : Int]]

IsFactor(f) == IsFinite(f) /\ f \in 0 .. Unit

Interpolate(ranges, factor) ==
  [i \in DOMAIN ranges |-> PowerValue(ranges[i].quantity, AtFactor(ranges[i], factor))]

FactorForPower(ranges, quantity, power) ==
  LET r == First(ranges, LAMBDA x : x.quantity = quantity)
  IN  IF r = Absent THEN Absent ELSE FactorOf(r, power)

(***************************************************************************)
(* Moves between modes.                                                    *)
(***************************************************************************)
\* Mutant of BlockingTimers: a timer of any actuator blocks.
BlockingTimersOfAny(ctx, transitions, from, to, actuator) ==
  LET t == Move(transitions, from, to)
  IN  IF t = Absent THEN {}
      ELSE {id \in Range(t.blocking_timers) :
              \E i \in DOMAIN ctx.timers :
                ctx.timers[i].key[2] = id /\ ctx.timers[i].value > ctx.now}

BlockingTimers(ctx, transitions, from, to, actuator) ==
  LET t == Move(transitions, from, to)
  IN  IF t = Absent THEN {}
      ELSE {id \in Range(t.blocking_timers) :
              \E i \in DOMAIN ctx.timers :
                ctx.timers[i].key = <<actuator, id>> /\ ctx.timers[i].value > ctx.now}

MoveDuration(transitions, from, to) ==
  LET t == Move(transitions, from, to)
  IN  IF t = Absent \/ t.transition_duration = Absent THEN 0 ELSE t.transition_duration

(***************************************************************************)
(* Resolving an instruction against a description, or why it cannot be.    *)
(***************************************************************************)
Unresolved(error) == [error |-> error]

Resolved(mode, power, rate) ==
  [error |-> Absent, mode |-> mode, power |-> power, rate |-> rate,
   abnormal_only |-> mode.abnormal_condition_only]

ResolveFrbc(system, m, level) ==
  LET a == ById(system.actuators, m.actuator_id)
      mode == ById(a.operation_modes, m.operation_mode)
      element == IF level # Absent THEN ElementAt(mode, level)
                 ELSE First(mode.elements, LAMBDA e : TRUE)
      f == m.operation_mode_factor
  IN  IF a = Absent THEN Unresolved("UnknownActuator")
      ELSE IF mode = Absent THEN Unresolved("UnknownOperationMode")
      ELSE IF ~IsFactor(f) THEN Unresolved("BadFactor")
      ELSE IF element # Absent
           THEN Resolved(mode, Interpolate(element.power_ranges, f), AtFactor(element.fill_rate, f))
      ELSE IF level # Absent THEN Unresolved("FillLevelNotCovered")
      ELSE Resolved(mode, <<>>, Absent)

ResolveOmbc(system, m) ==
  LET mode == ById(system.operation_modes, m.operation_mode)
      f == m.operation_mode_factor
  IN  IF mode = Absent THEN Unresolved("UnknownOperationMode")
      ELSE IF ~IsFactor(f) THEN Unresolved("BadFactor")
      ELSE Resolved(mode, Interpolate(mode.power_ranges, f), Absent)

ResolveDdbc(system, m) ==
  LET a == ById(system.actuators, m.actuator_id)
      mode == ById(a.operation_modes, m.operation_mode)
      f == m.operation_mode_factor
  IN  IF a = Absent THEN Unresolved("UnknownActuator")
      ELSE IF mode = Absent THEN Unresolved("UnknownOperationMode")
      ELSE IF ~IsFactor(f) THEN Unresolved("BadFactor")
      ELSE Resolved(mode, Interpolate(mode.power_ranges, f), AtFactor(mode.supply_range, f))

\* The fill level after some seconds in a mode; an uncovered level does not fill.
ProjectFillLevel(mode, factor, from, seconds, leakage, usage) ==
  LET element == ElementAt(mode, from)
      leak == First(leakage, LAMBDA e : Within(e.fill_level_range, from))
      rate == (IF element = Absent THEN 0 ELSE AtFactor(element.fill_rate, factor))
                - (IF leak = Absent THEN 0 ELSE leak.leakage_rate)
                - (IF usage = Absent THEN 0 ELSE usage)
  IN  from + rate * seconds

\* What an actuator can supply, over all its modes.
SupplyRangeOf(actuator) ==
  LET supplied == {Ordered(mode.supply_range) : mode \in Range(actuator.operation_modes)}
  IN  IF supplied = {} THEN NumberRange(0, 0)
      ELSE NumberRange(Min({r.start : r \in supplied}), Max({r.end : r \in supplied}))

(***************************************************************************)
(* Envelopes: the limits an instruction sets at a moment, in force from    *)
(* its execution time, each element until its duration is over.            *)
(***************************************************************************)
\* The element in which a time lies, counted from the start of the first.
Elapsing(elements, offset) ==
  LET ends == [i \in DOMAIN elements |-> Sum([j \in 1 .. i |-> elements[j].duration])]
      i == SelectInSeq(ends, LAMBDA end : offset < end)
  IN  IF i = 0 THEN Absent ELSE elements[i]

LimitsAt(m, quantity, at) ==
  LET e == EnvelopeFor(m, quantity)
      during == Elapsing(e.power_envelope_elements, at - m.execution_time)
  IN  IF e = Absent \/ at < m.execution_time THEN Absent
      ELSE IF during = Absent THEN Absent
      ELSE NumberRange(during.lower_limit, during.upper_limit)

AllLimitsAt(m, at) ==
  {<<e.quantity, LimitsAt(m, e.quantity, at)>> :
     e \in {x \in Range(m.power_envelopes) : LimitsAt(m, x.quantity, at) # Absent}}

EnergyWindow(constraint) ==
  IF constraint.valid_until < constraint.valid_from THEN Absent
  ELSE [length |-> constraint.valid_until - constraint.valid_from,
        average |-> NumberRange(constraint.lower_average_power, constraint.upper_average_power)]

(***************************************************************************)
(* Profiles: a choice names a sequence for every container, in the order   *)
(* of the profile, as pairs of a container and a sequence of it.           *)
(***************************************************************************)
ResolvePpbc(profiles, profile, container, sequence) ==
  LET s == IF Has(profiles, profile) THEN Resolve(Get(profiles, profile), container, sequence)
           ELSE Absent
  IN  IF s = Absent THEN Unresolved("UnknownSequence")
      ELSE [error |-> Absent, sequence |-> s, duration |-> TotalDuration(s.elements)]

SequencePowerAt(sequence, offset) == Elapsing(sequence.elements, offset)

ScheduleError(profile, chosen) ==
  LET containers == profile.power_sequence_containers
  IN  IF [i \in DOMAIN containers |-> containers[i].id] # [i \in DOMAIN chosen |-> chosen[i][1]]
        THEN "WrongContainer"
      ELSE IF \E i \in DOMAIN chosen : Resolve(profile, chosen[i][1], chosen[i][2]) = Absent
        THEN "UnknownSequence"
      ELSE Absent

\* Mutant of Schedule: a sequence may start as late as it alone fits.
ScheduleAlone(profile, chosen) ==
  LET sequences == [i \in DOMAIN chosen |-> Resolve(profile, chosen[i][1], chosen[i][2])]
      lasts == [i \in DOMAIN chosen |-> TotalDuration(sequences[i].elements)]
  IN  [i \in DOMAIN chosen |->
         [earliest_start |-> profile.start_time + Sum(SubSeq(lasts, 1, i - 1)),
          latest_start |-> profile.end_time - lasts[i],
          duration |-> lasts[i], max_pause_before |-> sequences[i].max_pause_before]]

\* When each sequence may start: after those before it, leaving room for itself
\* and for those after it.
Schedule(profile, chosen) ==
  LET sequences == [i \in DOMAIN chosen |-> Resolve(profile, chosen[i][1], chosen[i][2])]
      lasts == [i \in DOMAIN chosen |-> TotalDuration(sequences[i].elements)]
  IN  [i \in DOMAIN chosen |->
         [earliest_start |-> profile.start_time + Sum(SubSeq(lasts, 1, i - 1)),
          latest_start |-> profile.end_time - Sum(SubSeq(lasts, i, Len(lasts))),
          duration |-> lasts[i], max_pause_before |-> sequences[i].max_pause_before]]

IsFeasible(window) == window.earliest_start <= window.latest_start

IsSchedulable(profile, chosen) ==
  /\ ScheduleError(profile, chosen) = Absent
  /\ \A i \in DOMAIN chosen : IsFeasible(Schedule(profile, chosen)[i])

\* The first thing that is wrong with the starts given to a choice.
StartProblem(profile, chosen, starts) ==
  LET windows == Schedule(profile, chosen)
      EndOf(i) == starts[i] + windows[i].duration
      EndBefore(i) == IF i = 1 THEN profile.start_time ELSE EndOf(i - 1)
      Problem(i) ==
        IF starts[i] < EndBefore(i) THEN "TooEarly"
        ELSE IF /\ i > 1 /\ windows[i].max_pause_before # Absent
                /\ starts[i] - EndBefore(i) > windows[i].max_pause_before THEN "PauseTooLong"
        ELSE IF EndOf(i) > profile.end_time THEN "Overruns"
        ELSE Absent
  IN  IF ScheduleError(profile, chosen) # Absent THEN "NotSchedulable"
      ELSE IF Len(starts) # Len(windows) THEN "WrongCount"
      ELSE First([i \in DOMAIN starts |-> Problem(i)], LAMBDA p : p # Absent)

StartsAreFeasible(profile, chosen, starts) == StartProblem(profile, chosen, starts) = Absent

-----------------------------------------------------------------------------
(***************************************************************************)
(* The explanation of an instruction.                                      *)
(***************************************************************************)
Unexplained ==
  [unresolved |-> Absent, power |-> <<>>, rate |-> Absent, limits |-> {}, duration |-> Absent,
   transition_duration |-> 0, blocked_by |-> {}, abnormal_only_misuse |-> FALSE]

\* How long the move takes and what it waits for; staying is no move.
NoteTransition(e, ctx, actuator, to, transitions) ==
  LET active == ActiveMode(ctx, actuator)
  IN  IF active \in {Absent, to} THEN e
      ELSE [e EXCEPT !.transition_duration = MoveDuration(transitions, active, to),
                     !.blocked_by = IF ctx.now = Absent THEN {}
                                    ELSE BlockingTimers(ctx, transitions, active, to, actuator)]

\* A resolution explained: what is used, and whether it was allowed to be.
ExplainMode(r, m, ctx, actuator, transitions) ==
  IF r.error # Absent THEN [Unexplained EXCEPT !.unresolved = r.error]
  ELSE NoteTransition(
         [Unexplained EXCEPT !.power = r.power, !.rate = r.rate,
                             !.abnormal_only_misuse = r.abnormal_only /\ ~m.abnormal_condition],
         ctx, actuator, m.operation_mode, transitions)

ExplainFrbc(ctx, m) ==
  IF ctx.frbc = Absent THEN [Unexplained EXCEPT !.unresolved = "NotDescribed"]
  ELSE LET r == ResolveFrbc(ctx.frbc, m, ctx.fill_level)
       IN  ExplainMode(r, m, ctx, m.actuator_id, ById(ctx.frbc.actuators, m.actuator_id).transitions)

ExplainOmbc(ctx, m) ==
  IF ctx.ombc = Absent THEN [Unexplained EXCEPT !.unresolved = "NotDescribed"]
  ELSE ExplainMode(ResolveOmbc(ctx.ombc, m), m, ctx, Nil, ctx.ombc.transitions)

ExplainDdbc(ctx, m) ==
  IF ctx.ddbc = Absent THEN [Unexplained EXCEPT !.unresolved = "NotDescribed"]
  ELSE LET r == ResolveDdbc(ctx.ddbc, m)
       IN  ExplainMode(r, m, ctx, m.actuator_id, ById(ctx.ddbc.actuators, m.actuator_id).transitions)

\* A sequence that cannot be resolved is noted and given no duration.
NoteSequence(ctx, m) ==
  LET r == ResolvePpbc(ctx.ppbc_profiles, m.power_profile_id, m.sequence_container_id,
                       m.power_sequence_id)
  IN  [Unexplained EXCEPT !.duration = IF r.error = Absent THEN r.duration ELSE 0]

Explain(ctx, m) ==
  CASE m.kind = "FrbcInstruction" -> ExplainFrbc(ctx, m)
    [] m.kind = "OmbcInstruction" -> ExplainOmbc(ctx, m)
    [] m.kind = "DdbcInstruction" -> ExplainDdbc(ctx, m)
    [] m.kind = "PebcInstruction" ->
         [Unexplained EXCEPT !.limits = AllLimitsAt(m, m.execution_time)]
    [] m.kind \in Instructions["PPBC"] -> NoteSequence(ctx, m)

IsActionable(e) == e.unresolved = Absent /\ e.blocked_by = {} /\ ~e.abnormal_only_misuse
=============================================================================
