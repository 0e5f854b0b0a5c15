---------------------------- MODULE PowerContent ----------------------------
(***************************************************************************)
(* The messages of power envelope (types/pebc.rs) and power profile        *)
(* (types/ppbc.rs) based control, and what validate/messages.rs checks of  *)
(* each.                                                                   *)
(***************************************************************************)
EXTENDS Rules

(***************************************************************************)
(* Power envelopes: the resource publishes the limits it can be given, an  *)
(* instruction gives them, per quantity and over time.                     *)
(***************************************************************************)
AllowedLimitRange(quantity, type, boundary, abnormal) ==
  [quantity |-> quantity, limit_type |-> type, range_boundary |-> boundary,
   abnormal_condition_only |-> abnormal]

PebcPowerConstraints(id, from, until, ranges) ==
  [kind |-> "PebcPowerConstraints", message_id |-> "m", id |-> id, valid_from |-> from,
   valid_until |-> until, allowed_limit_ranges |-> ranges]

IsValidAt(c, now) == c.valid_from <= now /\ (c.valid_until = Absent \/ now < c.valid_until)

RangesFor(c, quantity, type) ==
  {r \in Range(c.allowed_limit_ranges) : r.quantity = quantity /\ r.limit_type = type}

CheckPebcPowerConstraints(ctx, m) ==
  LET Limits == {r.limit_type : r \in Range(m.allowed_limit_ranges)}
  IN  CheckArray(m.allowed_limit_ranges, 2, 100) \cup CheckScheduled(ctx, m.valid_from)
        \cup When(m.valid_until # Absent /\ m.valid_until < m.valid_from, "PEBC_VALIDITY_WINDOW")
        \cup Over(m.allowed_limit_ranges, LAMBDA r : CheckRange(r.range_boundary))
        \cup When(Limits # {"UPPER_LIMIT", "LOWER_LIMIT"}, "PEBC_BOTH_LIMITS")

PebcEnergyConstraint(id, from, until, lower, upper) ==
  [kind |-> "PebcEnergyConstraint", message_id |-> "m", id |-> id, valid_from |-> from,
   valid_until |-> until, lower_average_power |-> lower, upper_average_power |-> upper]

CheckPebcEnergyConstraint(ctx, m) ==
  CheckFinite(m.upper_average_power) \cup CheckFinite(m.lower_average_power)
    \cup CheckScheduled(ctx, m.valid_from)
    \cup When(m.valid_until < m.valid_from, "PEBC_VALIDITY_WINDOW")
    \cup When(/\ IsFinite(m.lower_average_power) /\ IsFinite(m.upper_average_power)
              /\ m.lower_average_power > m.upper_average_power, "PEBC_ENERGY_ORDER")

DecodedEnergy(m) ==
  /\ m.valid_from \in Nat /\ m.valid_until \in Nat
  /\ IsNumber(m.lower_average_power) /\ IsNumber(m.upper_average_power)

EnvelopeElement(duration, lower, upper) ==
  [duration |-> duration, lower_limit |-> lower, upper_limit |-> upper]

Envelope(quantity, elements) == [quantity |-> quantity, power_envelope_elements |-> elements]

PebcInstruction(id, constraints, at, abnormal, envelopes) ==
  [kind |-> "PebcInstruction", message_id |-> "m", id |-> id, power_constraints_id |-> constraints,
   execution_time |-> at, abnormal_condition |-> abnormal, power_envelopes |-> envelopes]

DecodedEnvelopes(m) ==
  /\ m.execution_time \in Nat
  /\ IsList(m.power_envelopes)
  /\ \A e \in Range(m.power_envelopes) :
       /\ IsList(e.power_envelope_elements)
       /\ \A x \in Range(e.power_envelope_elements) :
            x.duration \in Nat /\ IsNumber(x.lower_limit) /\ IsNumber(x.upper_limit)

\* The envelope of a quantity, Absent when the instruction leaves it alone.
EnvelopeFor(m, quantity) == First(m.power_envelopes, LAMBDA e : e.quantity = quantity)

\* Mutant of CheckWithinAllowed: a range for emergencies always fits.
CheckWithinAllowedAlways(c, quantity, type, value, abnormal) ==
  When(IsFinite(value) /\ \A r \in RangesFor(c, quantity, type) : ~Within(r.range_boundary, value),
       "PEBC_OUTSIDE_ALLOWED")

\* A limit lies in a range the constraints allow for it; a range kept for
\* abnormal conditions serves an instruction that says it is one.
CheckWithinAllowed(c, quantity, type, value, abnormal) ==
  LET holding == {r \in RangesFor(c, quantity, type) : Within(r.range_boundary, value)}
  IN  IF ~IsFinite(value) \/ \E r \in holding : r.abnormal_condition_only => abnormal THEN {}
      ELSE IF holding # {} THEN {"ABNORMAL_ONLY"}
      ELSE {"PEBC_OUTSIDE_ALLOWED"}

CheckLimits(e) ==
  CheckArray(e.power_envelope_elements, 1, 288)
    \cup Over(e.power_envelope_elements,
              LAMBDA x : CheckFinite(x.lower_limit) \cup CheckFinite(x.upper_limit)
                \cup When(/\ IsFinite(x.lower_limit) /\ IsFinite(x.upper_limit)
                          /\ x.lower_limit > x.upper_limit, "PEBC_ENVELOPE_LIMIT_ORDER"))

CheckEnvelopeIn(c, e, abnormal) ==
  Over(e.power_envelope_elements,
       LAMBDA x : CheckWithinAllowed(c, e.quantity, "UPPER_LIMIT", x.upper_limit, abnormal)
         \cup CheckWithinAllowed(c, e.quantity, "LOWER_LIMIT", x.lower_limit, abnormal))

CheckPebcInstruction(ctx, m) ==
  CheckArray(m.power_envelopes, 1, 10) \cup CheckScheduled(ctx, m.execution_time)
    \cup CheckDuplicateInstruction(ctx, m.id)
    \cup When(~IsInjective(QuantitiesIn(m.power_envelopes)), "PEBC_ONE_ENVELOPE_PER_QUANTITY")
    \cup Over(m.power_envelopes, CheckLimits)
    \cup (IF ~Has(ctx.pebc_constraints, m.power_constraints_id)
          THEN When(ctx.pebc_constraints # <<>>, "PEBC_UNKNOWN_CONSTRAINTS")
          ELSE LET c == Get(ctx.pebc_constraints, m.power_constraints_id)
               IN  When(ctx.now # Absent /\ ~IsValidAt(c, ctx.now), "PEBC_UNKNOWN_CONSTRAINTS")
                     \cup Over(m.power_envelopes,
                               LAMBDA e : CheckEnvelopeIn(c, e, m.abnormal_condition)))

-----------------------------------------------------------------------------
(***************************************************************************)
(* Power profiles: containers that run one after the other, each by one of *)
(* its sequences, between a start and an end.                              *)
(***************************************************************************)
PowerSequence(id, elements, interruptible, pause, abnormal) ==
  [id |-> id, elements |-> elements, is_interruptible |-> interruptible,
   max_pause_before |-> pause, abnormal_condition_only |-> abnormal]

Container(id, sequences) == [id |-> id, power_sequences |-> sequences]

PpbcPowerProfileDefinition(id, start, end, containers) ==
  [kind |-> "PpbcPowerProfileDefinition", message_id |-> "m", id |-> id, start_time |-> start,
   end_time |-> end, power_sequence_containers |-> containers]

DecodedSequence(s) ==
  /\ IsList(s.elements) /\ \A e \in Range(s.elements) : e.duration \in Nat
  /\ s.max_pause_before \in Nat \cup {Absent}

DecodedProfile(m) ==
  /\ m.start_time \in Nat /\ m.end_time \in Nat
  /\ IsList(m.power_sequence_containers)
  /\ \A c \in Range(m.power_sequence_containers) :
       IsList(c.power_sequences) /\ \A s \in Range(c.power_sequences) : DecodedSequence(s)

Sum(durations) ==
  LET upTo[i \in 0 .. Len(durations)] == IF i = 0 THEN 0 ELSE upTo[i - 1] + durations[i]
  IN  upTo[Len(durations)]

\* The code drops a duration that would overflow 64 bits of milliseconds, which
\* the durations here stay far from.
TotalDuration(elements) == Sum([i \in DOMAIN elements |-> elements[i].duration])

\* The sequence a container and a sequence identifier name, Absent when none is.
Resolve(profile, container, sequence) ==
  LET c == ById(profile.power_sequence_containers, container)
  IN  IF c = Absent THEN Absent ELSE ById(c.power_sequences, sequence)

Shortest(container) ==
  Min({TotalDuration(s.elements) : s \in Range(container.power_sequences)})

\* Mutant of WindowTooShort: each container is measured against the whole window.
WindowTooShortEach(containers, window) ==
  \E i \in DOMAIN containers :
    containers[i].power_sequences # <<>> /\ Shortest(containers[i]) > window

\* No container fits alone, or all of them do not fit end to end.
WindowTooShort(containers, window) ==
  \/ \E i \in DOMAIN containers :
       containers[i].power_sequences # <<>> /\ Shortest(containers[i]) > window
  \/ /\ Len(containers) > 1
     /\ \A i \in DOMAIN containers : containers[i].power_sequences # <<>>
     /\ Sum([i \in DOMAIN containers |-> Shortest(containers[i])]) > window

CheckPpbcPowerProfileDefinition(ctx, m) ==
  LET window == IF m.end_time < m.start_time THEN 0 ELSE m.end_time - m.start_time
      CheckSequence(s) ==
        CheckArray(s.elements, 1, 288)
          \cup Over(s.elements, LAMBDA e : CheckForecastValues(e.power_values))
  IN  CheckArray(m.power_sequence_containers, 1, 1000) \cup CheckScheduled(ctx, m.start_time)
        \cup When(m.end_time < m.start_time, "PPBC_WINDOW")
        \cup CheckUniqueIds(m.power_sequence_containers)
        \cup Over(m.power_sequence_containers,
                  LAMBDA c : CheckArray(c.power_sequences, 1, 288) \cup CheckUniqueIds(c.power_sequences)
                    \cup Over(c.power_sequences, CheckSequence))
        \cup When(WindowTooShort(m.power_sequence_containers, window), "PPBC_WINDOW_TOO_SHORT")

SequenceStatuses ==
  {"NOT_SCHEDULED", "SCHEDULED", "EXECUTING", "INTERRUPTED", "FINISHED", "ABORTED"}
HasSelection(status) == status \in SequenceStatuses \ {"NOT_SCHEDULED"}
HasStarted(status) == status \in SequenceStatuses \ {"NOT_SCHEDULED", "SCHEDULED"}

ContainerStatus(profile, container, selected, progress, status) ==
  [power_profile_id |-> profile, sequence_container_id |-> container,
   selected_sequence_id |-> selected, progress |-> progress, status |-> status]

PpbcPowerProfileStatus(statuses) ==
  [kind |-> "PpbcPowerProfileStatus", message_id |-> "m", sequence_container_status |-> statuses]

\* A profile that has any status has one for every container.
Covered(statuses, profile) ==
  LET mine == {s \in Range(statuses) : s.power_profile_id = profile.id}
  IN  mine = {} \/ Ids(profile.power_sequence_containers) \subseteq {s.sequence_container_id : s \in mine}

CheckPpbcPowerProfileStatus(ctx, m) ==
  CheckArray(m.sequence_container_status, 1, 1000)
    \cup Over(m.sequence_container_status,
              LAMBDA s :
                When(HasStarted(s.status) /\ s.progress = Absent, "PPBC_PROGRESS")
                  \cup When(~HasStarted(s.status) /\ s.progress # Absent, "PPBC_PROGRESS_UNEXPECTED")
                  \cup When(HasSelection(s.status) /\ s.selected_sequence_id = Absent,
                            "PPBC_SEQUENCE_NOT_NAMED"))
    \cup When(\E i \in DOMAIN ctx.ppbc_profiles :
                ~Covered(m.sequence_container_status, ctx.ppbc_profiles[i].value),
              "PPBC_STATUS_COVERAGE")

\* The three instructions of the control type say what to do with one sequence.
PpbcInstruction(kind, id, profile, container, sequence, at, abnormal) ==
  [kind |-> kind, message_id |-> "m", id |-> id, power_profile_id |-> profile,
   sequence_container_id |-> container, power_sequence_id |-> sequence,
   execution_time |-> at, abnormal_condition |-> abnormal]

CheckPpbcInstruction(ctx, m, interrupts) ==
  LET known == Has(ctx.ppbc_profiles, m.power_profile_id)
      sequence == IF ~known THEN Absent
                  ELSE Resolve(Get(ctx.ppbc_profiles, m.power_profile_id),
                               m.sequence_container_id, m.power_sequence_id)
  IN  CheckScheduled(ctx, m.execution_time) \cup CheckDuplicateInstruction(ctx, m.id)
        \cup (IF ctx.ppbc_profiles = <<>> THEN {}
              ELSE IF sequence = Absent THEN {"PPBC_UNKNOWN_SEQUENCE"}
              ELSE When(interrupts /\ ~sequence.is_interruptible, "PPBC_NOT_INTERRUPTIBLE"))

CheckPpbcScheduleInstruction(ctx, m) == CheckPpbcInstruction(ctx, m, FALSE)
CheckPpbcStartInterruptionInstruction(ctx, m) == CheckPpbcInstruction(ctx, m, TRUE)
CheckPpbcEndInterruptionInstruction(ctx, m) == CheckPpbcInstruction(ctx, m, TRUE)
=============================================================================
