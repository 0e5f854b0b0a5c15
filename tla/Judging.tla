------------------------------- MODULE Judging -------------------------------
(***************************************************************************)
(* One engine judging what crosses a session against what it remembers of  *)
(* it: Registry::context and Registry::record (session/core.rs) around the *)
(* rules of Content and the arithmetic of DeviceModel.  System             *)
(* descriptions wait, take effect and are revoked as in Registry, which    *)
(* this module extends with the contents and with the other tables.  The   *)
(* engine judges what it sends as it judges what it receives; a message    *)
(* with errors is recorded by neither side, and a message that is          *)
(* acceptable and publishes nothing leaves no trace here.                  *)
(***************************************************************************)
EXTENDS DeviceModel

CONSTANTS
  Messages,        \* what may cross while a control type is active, per control type
  Described,       \* the system descriptions among them: what each announces,
                   \* whenever it says it becomes valid
  InitialDetails,  \* the details of the resource, sent before anything is selected
  Profile,         \* the wire profile of the session
  MaxScheduled,    \* how many descriptions may wait, 16 in the code
  MaxTime          \* bound: the clock

VARIABLES
  now, selected, inForce, scheduled, published, known, latest, revoked,  \* as in Registry
  details,               \* the latest details of the resource
  objects,               \* what may be revoked, every kind of it
  pebc_constraints,      \* power constraints, per identifier
  pebc_energy,           \* energy constraints, per identifier
  ppbc_profiles,         \* power profiles, per identifier
  instructions,          \* identifiers of instructions
  instruction_statuses,  \* the latest status, per instruction
  active_modes,          \* the operation mode, per actuator
  timers,                \* when a timer finishes, per actuator and timer
  fill_level             \* the latest fill level reported

Crossing == Messages[selected]

Descriptions == DOMAIN Described

TypeOfDescription ==
  [d \in Descriptions |-> CHOOSE ct \in DOMAIN SystemDescriptions :
                            SystemDescriptions[ct] = Described[d].kind]

R == INSTANCE Registry WITH Types <- ControlTypes, TypeOf <- TypeOfDescription

\* A table without what is under a key, in the order of the table.
Without(table, key) == R!Among(table, {e \in Range(table) : e.key # key})

\* A description may be published again, to become valid at another time; the
\* demand rate one may carry is not looked up.
Repeats(m, described) ==
  /\ m.kind = described.kind
  /\ m.kind = "OmbcSystemDescription" =>
       /\ m.operation_modes = described.operation_modes
       /\ m.transitions = described.transitions /\ m.timers = described.timers
  /\ m.kind # "OmbcSystemDescription" => m.actuators = described.actuators
  /\ m.kind = "FrbcSystemDescription" => m.storage = described.storage

\* Messages are judged once they are decoded, and a description has one content.
ASSUME JudgingAssumption ==
  /\ MaxScheduled \in Nat /\ MaxTime \in Nat
  /\ R!None \notin Descriptions
  /\ \A d \in Descriptions : IsSystemDescription(Described[d].kind) /\ Decoded(Described[d])
  /\ \A ct \in ControlTypes : \A m \in Messages[ct] :
       /\ Decoded(m)
       /\ IsSystemDescription(m.kind) =>
            /\ m.message_id \in Descriptions /\ Repeats(m, Described[m.message_id])
            /\ m.valid_from \in 0 .. MaxTime

descriptionVars == <<inForce, scheduled, published, known, latest, revoked>>
actuatorVars == <<active_modes, timers>>
objectVars == <<pebc_constraints, pebc_energy, ppbc_profiles>>
instructionVars == <<instructions, instruction_statuses>>
vars == <<now, selected, descriptionVars, details, objects, objectVars, instructionVars,
          actuatorVars, fill_level>>

Effective(ct) ==
  IF inForce[ct] = R!NoAnnouncement THEN Absent ELSE Described[inForce[ct].id]

\* What is known when a message of a sender is judged.  One whose identifier
\* was seen before is answered from the ledger and never gets here.
Context(sender) ==
  [EmptyContext EXCEPT
     !.profile = Profile, !.sender = sender, !.phase = SelectedPhase(selected),
     !.details = details, !.frbc = Effective("FRBC"), !.ombc = Effective("OMBC"),
     !.ddbc = Effective("DDBC"), !.pebc_constraints = pebc_constraints,
     !.ppbc_profiles = ppbc_profiles, !.instructions = instructions,
     !.instruction_statuses = instruction_statuses, !.published = objects,
     !.active_modes = active_modes, !.timers = timers, !.fill_level = fill_level, !.now = now]

Acceptable(m) == \E sender \in Senders(m.kind) : StatusOf(Judge(Context(sender), m)) = "OK"

-----------------------------------------------------------------------------
Init ==
  /\ R!Init
  /\ details = InitialDetails
  /\ objects = <<>>
  /\ pebc_constraints = <<>> /\ pebc_energy = <<>> /\ ppbc_profiles = <<>>
  /\ instructions = <<>> /\ instruction_statuses = <<>>
  /\ active_modes = <<>> /\ timers = <<>>
  /\ fill_level = Absent

\* Mutant of Forget: the timers are kept.
ForgetModes ==
  IF known # {} /\ known' = {}
    THEN active_modes' = <<>> /\ UNCHANGED timers
    ELSE UNCHANGED actuatorVars

\* The tables of modes and timers are emptied with what the registry knows of them.
Forget ==
  IF known # {} /\ known' = {}
    THEN active_modes' = <<>> /\ timers' = <<>>
    ELSE UNCHANGED actuatorVars

Publish(m) == objects' = Upsert(objects, RevokableId(m), RevokableId(m))

RecordDescription(m) ==
  /\ IsSystemDescription(m.kind) /\ Acceptable(m)
  /\ R!Record(m.message_id, m.valid_from)
  /\ Publish(m)
  /\ Forget
  /\ UNCHANGED <<details, objectVars, instructionVars, fill_level>>

\* What a status is about: OMBC has one machine, under the nil identifier.
ActuatorOf(m) == IF m.kind \in {"OmbcStatus", "OmbcTimerStatus"} THEN Nil ELSE m.actuator_id

RecordMode(m) ==
  /\ m.kind \in {"FrbcActuatorStatus", "DdbcActuatorStatus", "OmbcStatus"} /\ Acceptable(m)
  /\ R!Report
  /\ active_modes' = Upsert(active_modes, ActuatorOf(m), m.active_operation_mode_id)
  /\ UNCHANGED <<timers, details, objects, objectVars, instructionVars, fill_level>>

RecordTimer(m) ==
  /\ m.kind \in {"FrbcTimerStatus", "DdbcTimerStatus", "OmbcTimerStatus"} /\ Acceptable(m)
  /\ R!Report
  /\ timers' = Upsert(timers, TimerKey(ActuatorOf(m), m.timer_id), m.finished_at)
  /\ UNCHANGED <<active_modes, details, objects, objectVars, instructionVars, fill_level>>

RecordFillLevel(m) ==
  /\ m.kind = "FrbcStorageStatus" /\ Acceptable(m)
  /\ fill_level' = m.present_fill_level
  /\ UNCHANGED <<now, selected, descriptionVars, details, objects, objectVars, instructionVars,
                 actuatorVars>>

RecordDetails(m) ==
  /\ m.kind = "ResourceManagerDetails" /\ Acceptable(m)
  /\ details' = m
  /\ UNCHANGED <<now, selected, descriptionVars, objects, objectVars, instructionVars,
                 actuatorVars, fill_level>>

RecordConstraints(m) ==
  /\ m.kind = "PebcPowerConstraints" /\ Acceptable(m)
  /\ Publish(m)
  /\ pebc_constraints' = Upsert(pebc_constraints, m.id, m)
  /\ UNCHANGED <<now, selected, descriptionVars, details, pebc_energy, ppbc_profiles,
                 instructionVars, actuatorVars, fill_level>>

RecordEnergy(m) ==
  /\ m.kind = "PebcEnergyConstraint" /\ Acceptable(m)
  /\ Publish(m)
  /\ pebc_energy' = Upsert(pebc_energy, m.id, m)
  /\ UNCHANGED <<now, selected, descriptionVars, details, pebc_constraints, ppbc_profiles,
                 instructionVars, actuatorVars, fill_level>>

RecordProfile(m) ==
  /\ m.kind = "PpbcPowerProfileDefinition" /\ Acceptable(m)
  /\ Publish(m)
  /\ ppbc_profiles' = Upsert(ppbc_profiles, m.id, m)
  /\ UNCHANGED <<now, selected, descriptionVars, details, pebc_constraints, pebc_energy,
                 instructionVars, actuatorVars, fill_level>>

RecordInstruction(m) ==
  /\ IsInstruction(m.kind) /\ Acceptable(m)
  /\ Publish(m)
  /\ instructions' = IF Has(instructions, m.id) THEN instructions
                     ELSE Bounded(Append(instructions, Entry(m.id, m.message_id)))
  /\ UNCHANGED <<now, selected, descriptionVars, details, objectVars, instruction_statuses,
                 actuatorVars, fill_level>>

RecordUpdate(m) ==
  /\ m.kind = "InstructionStatusUpdate" /\ Acceptable(m)
  /\ instruction_statuses' = Upsert(instruction_statuses, m.instruction_id, m.status_type)
  /\ UNCHANGED <<now, selected, descriptionVars, details, objects, objectVars, instructions,
                 actuatorVars, fill_level>>

(***************************************************************************)
(* An object is withdrawn by its kind and its identifier, by either side.  *)
(***************************************************************************)
Withdraw(m) ==
  /\ m.kind = "RevokeObject" /\ Acceptable(m)
  /\ objects' = Without(objects, <<m.object_type, m.object_id>>)

RevokeDescription(m) ==
  /\ Withdraw(m)
  /\ IsSystemDescription(m.object_type)
  /\ IF m.object_id \in Descriptions /\ Described[m.object_id].kind = m.object_type
       THEN R!Revoke(m.object_id)
       ELSE UNCHANGED <<now, selected, descriptionVars>>
  /\ Forget
  /\ UNCHANGED <<details, objectVars, instructionVars, fill_level>>

WithoutOf(table, kind, m) == IF m.object_type = kind THEN Without(table, m.object_id) ELSE table

RevokePublication(m) ==
  /\ Withdraw(m)
  /\ m.object_type \in {"PebcPowerConstraints", "PebcEnergyConstraint", "PpbcPowerProfileDefinition"}
  /\ pebc_constraints' = WithoutOf(pebc_constraints, "PebcPowerConstraints", m)
  /\ pebc_energy' = WithoutOf(pebc_energy, "PebcEnergyConstraint", m)
  /\ ppbc_profiles' = WithoutOf(ppbc_profiles, "PpbcPowerProfileDefinition", m)
  /\ UNCHANGED <<now, selected, descriptionVars, details, instructionVars, actuatorVars, fill_level>>

\* A revoked instruction stays known, so that its status can still be told.
RevokeInstruction(m) ==
  /\ Withdraw(m)
  /\ IsInstruction(m.object_type)
  /\ instruction_statuses' = Upsert(instruction_statuses, m.object_id, "REVOKED")
  /\ UNCHANGED <<now, selected, descriptionVars, details, objectVars, instructions, actuatorVars,
                 fill_level>>

-----------------------------------------------------------------------------
ActivateDue ==
  /\ R!ActivateDue
  /\ Forget
  /\ UNCHANGED <<details, objects, objectVars, instructionVars, fill_level>>

Tick ==
  /\ R!Tick
  /\ UNCHANGED <<details, objects, objectVars, instructionVars, actuatorVars, fill_level>>

Next ==
  \/ \E m \in Crossing :
       \/ RecordDescription(m) \/ RecordMode(m) \/ RecordTimer(m) \/ RecordFillLevel(m)
       \/ RecordDetails(m) \/ RecordConstraints(m) \/ RecordEnergy(m) \/ RecordProfile(m)
       \/ RecordInstruction(m) \/ RecordUpdate(m)
       \/ RevokeDescription(m) \/ RevokePublication(m) \/ RevokeInstruction(m)
  \/ ActivateDue
  \/ Tick

Spec == Init /\ [][Next]_vars
-----------------------------------------------------------------------------
\* Instructions the manager could give now, with their reports and explanations.
Instructible == {m \in Crossing : IsInstruction(m.kind)}
ReportOn(m) == Judge(Context("CEM"), m)
ExplanationOf(m) == Explain(Context("CEM"), m)
Accepts(m) == ~HasErrors(ReportOn(m))
Accepted == {m \in Instructible : Accepts(m)}

(***************************************************************************)
(* The validator and the device model read a description alike: what is    *)
(* accepted can be resolved, unless nothing is described yet or the fill   *)
(* level has left every band of the mode; and what cannot is refused.      *)
(***************************************************************************)
AcceptedResolves ==
  \A m \in Instructible : selected \in DOMAIN SystemDescriptions =>
    LET error == ExplanationOf(m).unresolved IN
      /\ Effective(selected) # Absent /\ Accepts(m) =>
           \/ error = Absent
           \/ /\ error = "FillLevelNotCovered"
              /\ LET mode == ById(ById(Effective("FRBC").actuators, m.actuator_id).operation_modes,
                                  m.operation_mode)
                 IN  fill_level < mode.elements[1].fill_level_range.start
                       \/ fill_level > Last(mode.elements).fill_level_range.end
      /\ error \in {"UnknownActuator", "UnknownOperationMode", "BadFactor"} => ~Accepts(m)

(***************************************************************************)
(* An instruction is reported blocked exactly when its explanation names a *)
(* timer it waits for: one of its own actuator, which has not finished.    *)
(***************************************************************************)
BlockedAsExplained ==
  \A m \in Instructible : selected \in DOMAIN SystemDescriptions =>
    LET e == ExplanationOf(m) IN
      e.unresolved = Absent =>
        /\ "BLOCKED_BY_TIMER" \in ReportOn(m) <=> e.blocked_by # {}
        /\ \A id \in e.blocked_by :
             \E entry \in Range(timers) :
               /\ entry.value > now
               /\ entry.key = <<IF selected = "OMBC" THEN Nil ELSE m.actuator_id, id>>

(***************************************************************************)
(* While a description is in force, every mode and every timer known was   *)
(* declared by it, through replacements, activations and revocations.      *)
(***************************************************************************)
ActuatorsOf(ct) ==
  IF ct = "OMBC"
    THEN LET o == Effective(ct)
         IN  <<[id |-> Nil, operation_modes |-> o.operation_modes, timers |-> o.timers]>>
    ELSE Effective(ct).actuators

KnownIsDescribed ==
  selected \in DOMAIN SystemDescriptions /\ Effective(selected) # Absent =>
    /\ \A entry \in Range(active_modes) :
         \E a \in Range(ActuatorsOf(selected)) :
           a.id = entry.key /\ entry.value \in Ids(a.operation_modes)
    /\ \A entry \in Range(timers) :
         \E a \in Range(ActuatorsOf(selected)) :
           a.id = entry.key[1] /\ entry.key[2] \in Ids(a.timers)

(***************************************************************************)
(* The limits an accepted instruction sets are in force exactly while its  *)
(* envelope lasts, do not cross, and at every moment each lies in a range  *)
(* the constraints it names allow for it, one kept for abnormal conditions *)
(* only if the instruction says it is abnormal.  An energy constraint       *)
(* bounds an average over some window, from below no higher than above.    *)
(***************************************************************************)
EnvelopeAsAllowed ==
  /\ \A entry \in Range(pebc_energy) :
       LET window == EnergyWindow(entry.value)
       IN  window # Absent /\ IsFiniteRange(window.average) /\ window.average.start <= window.average.end
  /\ \A m \in Accepted : selected = "PEBC" /\ Has(pebc_constraints, m.power_constraints_id) =>
       LET c == Get(pebc_constraints, m.power_constraints_id)
           Serves(quantity, type, value) ==
             \E r \in RangesFor(c, quantity, type) :
               /\ Within(r.range_boundary, value)
               /\ r.abnormal_condition_only => m.abnormal_condition
       IN  \A e \in Range(m.power_envelopes) :
             LET end == m.execution_time + TotalDuration(e.power_envelope_elements)
             IN  \A at \in 0 .. end + 1 :
                   LET limits == LimitsAt(m, e.quantity, at) IN
                     /\ limits # Absent <=> at \in m.execution_time .. end - 1
                     /\ limits # Absent =>
                          /\ limits.start <= limits.end
                          /\ Serves(e.quantity, "LOWER_LIMIT", limits.start)
                          /\ Serves(e.quantity, "UPPER_LIMIT", limits.end)

(***************************************************************************)
(* A choice of sequences is schedulable exactly when there are times to    *)
(* start them at, and such times lie in the windows the schedule gives;    *)
(* each window is reached by some of them, at both its ends, whatever the  *)
(* longest pauses are.                                                     *)
(***************************************************************************)
ChoicesOf(profile) ==
  LET containers == profile.power_sequence_containers
  IN  {chosen \in [DOMAIN containers -> UNION {{<<c.id, id>> : id \in Ids(c.power_sequences)} :
                                              c \in Range(containers)}] :
         ScheduleError(profile, chosen) = Absent}

StartsOf(profile, chosen) ==
  {starts \in [DOMAIN chosen -> profile.start_time .. profile.end_time] :
     StartsAreFeasible(profile, chosen, starts)}

Profiles == {entry.value : entry \in Range(ppbc_profiles)}

WindowsAreExact ==
  \A profile \in Profiles : \A chosen \in ChoicesOf(profile) :
    LET windows == Schedule(profile, chosen)
        starts == StartsOf(profile, chosen)
    IN  /\ IsSchedulable(profile, chosen) <=> starts # {}
        /\ \A s \in starts, i \in DOMAIN chosen :
             s[i] \in windows[i].earliest_start .. windows[i].latest_start
        /\ IsSchedulable(profile, chosen) =>
             \A i \in DOMAIN chosen :
               {windows[i].earliest_start, windows[i].latest_start} \subseteq {s[i] : s \in starts}

(***************************************************************************)
(* The warning that a window is too short is true: it comes exactly when   *)
(* no choice of sequences can be scheduled.                                *)
(***************************************************************************)
TooShortMeansUnschedulable ==
  \A profile \in Profiles :
    "PPBC_WINDOW_TOO_SHORT" \in Judge(EmptyContext, profile)
      <=> \A chosen \in ChoicesOf(profile) : ~IsSchedulable(profile, chosen)

(***************************************************************************)
(* What is described, the explanations keep: every fill level between a    *)
(* mode's first band and its last has an element, the power a factor       *)
(* yields is yielded by no other factor, the fill rate of an instruction   *)
(* is the one its fill level is projected with, a demand driven actuator   *)
(* supplies no rate outside its range, and a sequence has power for as     *)
(* long as it is said to take.                                             *)
(***************************************************************************)
BandsCover(mode) ==
  \A level \in mode.elements[1].fill_level_range.start
                 .. Last(mode.elements).fill_level_range.end :
    /\ ElementAt(mode, level) # Absent
    /\ \A r \in Range(ElementAt(mode, level).power_ranges), f \in 0 .. Unit :
         r.start # r.end =>
           FactorForPower(ElementAt(mode, level).power_ranges, r.quantity, AtFactor(r, f)) = f

FillsAsProjected(a, m) ==
  fill_level # Absent /\ ExplanationOf(m).rate # Absent =>
    ProjectFillLevel(ById(a.operation_modes, m.operation_mode), m.operation_mode_factor,
                     fill_level, 1, <<>>, Absent) = fill_level + ExplanationOf(m).rate

ExplainedAsDescribed ==
  /\ Effective("FRBC") # Absent =>
       \A a \in Range(Effective("FRBC").actuators) :
         /\ \A mode \in Range(a.operation_modes) : BandsCover(mode)
         /\ \A m \in Accepted : m.actuator_id = a.id => FillsAsProjected(a, m)
  /\ Effective("DDBC") # Absent =>
       \A m \in Accepted :
         Within(SupplyRangeOf(ById(Effective("DDBC").actuators, m.actuator_id)),
                ExplanationOf(m).rate)
  /\ selected = "PPBC" /\ ppbc_profiles # <<>> =>
       \A m \in Accepted, offset \in 0 .. MaxTime + Horizon + 2 :
         LET sequence == Resolve(Get(ppbc_profiles, m.power_profile_id), m.sequence_container_id,
                                 m.power_sequence_id)
         IN  SequencePowerAt(sequence, offset) # Absent <=> offset < ExplanationOf(m).duration

=============================================================================
