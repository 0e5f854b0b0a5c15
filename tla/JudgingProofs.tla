---------------------------- MODULE JudgingProofs ----------------------------
(***************************************************************************)
(* What holds of an engine that judges what crosses a session, for every   *)
(* set of messages and descriptions, every length of the tables and of the *)
(* queue, and every clock.  The descriptions wait, take effect and are     *)
(* revoked as RegistryProofs has it: an engine's step is a step of         *)
(* Registry, whose invariants it inherits.                                 *)
(***************************************************************************)
EXTENDS Judging, SequenceTheorems, FiniteSetTheorems, WellFoundedInduction, TLAPS

RP == INSTANCE RegistryProofs WITH Types <- ControlTypes, TypeOf <- TypeOfDescription

-----------------------------------------------------------------------------
(* Lookups and tables. *)

\* A lookup that finds something finds an entry that passes the test.
LEMMA ByIdFinds ==
  ASSUME NEW s, IsList(s), NEW id, ById(s, id) # Absent
  PROVE  ById(s, id) \in Range(s) /\ ById(s, id).id = id
<1>1. PICK i \in DOMAIN s : i = SelectInSeq(s, LAMBDA e : e.id = id) /\ s[i].id = id
  BY DEF ById, First, SelectInSeq, Min, IsList
<1>2. i \in Nat /\ i # 0
  BY DEF IsList
<1> QED BY <1>1, <1>2 DEF ById, First, Range

\* Descriptions have the type they are of.
LEMMA TypesAgree ==
  /\ TypeOfDescription \in [Descriptions -> ControlTypes]
  /\ \A d \in Descriptions : /\ TypeOfDescription[d] \in DOMAIN SystemDescriptions
                             /\ SystemDescriptions[TypeOfDescription[d]] = Described[d].kind
<1>1. ASSUME NEW d \in Descriptions
      PROVE  \E ct \in DOMAIN SystemDescriptions : SystemDescriptions[ct] = Described[d].kind
  BY JudgingAssumption DEF IsSystemDescription, Range
<1>2. DOMAIN SystemDescriptions \subseteq ControlTypes
  BY DEF SystemDescriptions, ControlTypes
<1> QED BY <1>1, <1>2 DEF TypeOfDescription

LEMMA RegistryHolds ==
  /\ TypeOfDescription \in [Descriptions -> ControlTypes]
  /\ MaxScheduled \in Nat /\ MaxTime \in Nat
  /\ RP!None \notin Descriptions
BY TypesAgree, JudgingAssumption DEF R!None, RP!None

\* A table holds entries, each under a key of its own.
IsTable(table) ==
  /\ table \in Seq(Range(table))
  /\ \A e \in Range(table) : e = Entry(e.key, e.value)
  /\ \A i, j \in DOMAIN table : table[i].key = table[j].key => i = j

LEMMA PlaceFinds ==
  ASSUME NEW table, IsTable(table), NEW key, Has(table, key)
  PROVE  Place(table, key) \in DOMAIN table /\ table[Place(table, key)].key = key
<1> DEFINE places == {i \in 1 .. Len(table) : table[i].key = key}
<1>1. places # {} /\ places \subseteq Nat /\ DOMAIN table = 1 .. Len(table)
  BY DEF Has, Keys, IsTable
<1>2. Place(table, key) = Min(places)
  BY <1>1 DEF Place, SelectInSeq
<1>3. \E m \in places : \A x \in places : m <= x
  BY <1>1, RegistryHolds, RP!LeastOf
<1>4. Min(places) \in places
  BY <1>3 DEF Min
<1> QED BY <1>1, <1>2, <1>4

LEMMA EmptyIsTable == IsTable(<<>>) /\ Range(<<>>) = {}
BY EmptySeq DEF IsTable, Range

\* What is under a key after an update is what was put there.
LEMMA ReplacingHolds ==
  ASSUME NEW table, IsTable(table), NEW key, NEW value, Has(table, key)
  PROVE  /\ IsTable(Upsert(table, key, value))
         /\ \A e \in Range(Upsert(table, key, value)) : e \in Range(table) \/ e = Entry(key, value)
<1> DEFINE p == Place(table, key)
           new == [table EXCEPT ![p].value = value]
           S == Range(table) \cup {Entry(key, value)}
<1>1. p \in 1 .. Len(table) /\ table[p].key = key /\ DOMAIN table = 1 .. Len(table) /\ Len(table) \in Nat
  BY PlaceFinds DEF IsTable
<1>2. [table[p] EXCEPT !.value = value] = Entry(key, value)
  <2>1. table[p] = Entry(table[p].key, table[p].value)
    BY <1>1 DEF IsTable, Range
  <2> QED BY <1>1, <2>1 DEF Entry
<1>3. new = [table EXCEPT ![p] = Entry(key, value)]
  BY <1>2
<1>4. Upsert(table, key, value) = new
  BY DEF Upsert
<1> HIDE DEF p, new
<1>5. table \in Seq(S)
  BY SeqMonotonic DEF IsTable
<1>6. /\ new \in Seq(S) /\ Len(new) = Len(table)
      /\ \A j \in 1 .. Len(table) : new[j] = IF j = p THEN Entry(key, value) ELSE table[j]
  BY <1>1, <1>3, <1>5, ExceptSeq
<1>7. DOMAIN new = 1 .. Len(table)
  BY <1>6, LenProperties
<1>8. \A e \in Range(new) : e \in Range(table) \/ e = Entry(key, value)
  BY <1>1, <1>6, <1>7 DEF Range
<1>9. new \in Seq(Range(new))
  BY <1>6, SeqOfRange
<1>10. \A e \in Range(new) : e = Entry(e.key, e.value)
  BY <1>8 DEF IsTable, Entry
<1>11. \A j \in 1 .. Len(table) : new[j].key = table[j].key
  BY <1>1, <1>6 DEF Entry
<1>12. \A i, j \in DOMAIN new : new[i].key = new[j].key => i = j
  BY <1>1, <1>7, <1>11 DEF IsTable
<1> QED BY <1>4, <1>8, <1>9, <1>10, <1>12 DEF IsTable

LEMMA JoiningHolds ==
  ASSUME NEW table, IsTable(table), NEW key, NEW value, ~Has(table, key)
  PROVE  /\ IsTable(Append(table, Entry(key, value)))
         /\ Range(Append(table, Entry(key, value))) = Range(table) \cup {Entry(key, value)}
<1> DEFINE e == Entry(key, value)
           S == Range(table) \cup {e}
           new == Append(table, e)
<1>1. table \in Seq(S) /\ e \in S
  BY SeqMonotonic DEF IsTable
<1> HIDE DEF S
<1>2. new \in Seq(S) /\ Range(new) = Range(table) \cup {e}
  <2>1. Range(table) = RP!Range(table) /\ Range(new) = RP!Range(new)
    BY DEF Range, RP!Range
  <2> QED BY <1>1, <2>1, RegistryHolds, RP!AppendElements
<1>3. /\ Len(new) = Len(table) + 1 /\ new[Len(table) + 1] = e
      /\ \A k \in 1 .. Len(table) : new[k] = table[k]
  BY <1>1, AppendProperties
<1>4. DOMAIN new = 1 .. Len(table) + 1 /\ DOMAIN table = 1 .. Len(table) /\ Len(table) \in Nat
  BY <1>1, <1>2, <1>3, LenProperties
<1>5. \A i \in DOMAIN table : table[i].key # key
  BY DEF Has, Keys
<1>6. e.key = key
  BY DEF Entry
<1>7. \A i, j \in DOMAIN new : new[i].key = new[j].key => i = j
  <2> SUFFICES ASSUME NEW i \in DOMAIN new, NEW j \in DOMAIN new, new[i].key = new[j].key, i # j
               PROVE  FALSE
    OBVIOUS
  <2> HIDE DEF new, e
  <2>1. CASE i \in DOMAIN table /\ j \in DOMAIN table
    BY <1>3, <1>4, <2>1 DEF IsTable
  <2>2. CASE i = Len(table) + 1
    <3>1. j \in DOMAIN table
      BY <1>4, <2>2
    <3> QED BY <1>3, <1>4, <1>5, <1>6, <2>2, <3>1
  <2>3. CASE j = Len(table) + 1
    <3>1. i \in DOMAIN table
      BY <1>4, <2>3
    <3> QED BY <1>3, <1>4, <1>5, <1>6, <2>3, <3>1
  <2> QED BY <1>4, <2>1, <2>2, <2>3
<1>8. new \in Seq(Range(new))
  BY <1>2, SeqOfRange
<1>9. \A x \in Range(new) : x = Entry(x.key, x.value)
  BY <1>2 DEF IsTable, Entry
<1> QED BY <1>2, <1>7, <1>8, <1>9 DEF IsTable

LEMMA BoundedHolds ==
  ASSUME NEW table, IsTable(table)
  PROVE  IsTable(Bounded(table)) /\ Range(Bounded(table)) \subseteq Range(table)
<1>1. CASE ~(Len(table) > MaxTracked)
  BY <1>1 DEF Bounded
<1>2. CASE Len(table) > MaxTracked
  <2> DEFINE new == Tail(table)
  <2>1. table # <<>>
    BY <1>2, TablesAssumption, EmptySeq
  <2>2. table \in Seq(Range(table))
    BY DEF IsTable
  <2>3. /\ new \in Seq(Range(table)) /\ Len(new) = Len(table) - 1
        /\ \A i \in 1 .. Len(new) : new[i] = table[i + 1]
    BY <2>1, <2>2, HeadTailProperties
  <2>4. DOMAIN new = 1 .. Len(new) /\ DOMAIN table = 1 .. Len(table) /\ Len(table) \in Nat
    BY <2>2, <2>3, LenProperties
  <2>5. Bounded(table) = new
    BY <1>2 DEF Bounded
  <2> HIDE DEF new
  <2>6. \A i \in DOMAIN new : i + 1 \in DOMAIN table /\ new[i] = table[i + 1] /\ i \in Nat
    BY <2>3, <2>4
  <2>7. Range(new) \subseteq Range(table)
    BY <2>6 DEF Range
  <2>8. \A i, j \in DOMAIN new : new[i].key = new[j].key => i = j
    BY <2>6 DEF IsTable
  <2>9. new \in Seq(Range(new))
    BY <2>3, SeqOfRange
  <2> QED BY <2>5, <2>7, <2>8, <2>9 DEF IsTable
<1> QED BY <1>1, <1>2

LEMMA UpsertHolds ==
  ASSUME NEW table, IsTable(table), NEW key, NEW value
  PROVE  /\ IsTable(Upsert(table, key, value))
         /\ \A e \in Range(Upsert(table, key, value)) : e \in Range(table) \/ e = Entry(key, value)
<1>1. CASE Has(table, key)
  BY <1>1, ReplacingHolds
<1>2. CASE ~Has(table, key)
  <2>1. Upsert(table, key, value) = Bounded(Append(table, Entry(key, value)))
    BY <1>2 DEF Upsert
  <2> QED BY <1>2, <2>1, JoiningHolds, BoundedHolds
<1> QED BY <1>1, <1>2
-----------------------------------------------------------------------------
(* An engine's step is a step of Registry. *)

LEMMA SameQueues ==
  /\ R!None = RP!None /\ R!NoAnnouncement = RP!NoAnnouncement
  /\ \A d, from : R!Announcement(d, from) = RP!Announcement(d, from)
  /\ \A queue, kept : R!Among(queue, kept) = RP!Among(queue, kept)
  /\ \A d : R!Slot(d) = RP!Slot(d)
  /\ \A queue : R!Furthest(queue) = RP!Furthest(queue)
BY DEF R!None, RP!None, R!NoAnnouncement, RP!NoAnnouncement, R!Announcement, RP!Announcement,
       R!Among, RP!Among, R!Slot, RP!Slot, R!SelectInSeq, RP!SelectInSeq, R!Min, RP!Min,
       R!Furthest, RP!Furthest

LEMMA SameScheduling == \A a : R!Scheduling(a) = RP!Scheduling(a)
BY SameQueues DEF R!Scheduling, RP!Scheduling, R!ReplaceAt, RP!ReplaceAt, R!RemoveAt, RP!RemoveAt

LEMMA SameApply == \A effective : R!Apply(effective) <=> RP!Apply(effective)
BY SameQueues DEF R!Apply, RP!Apply, R!Applied, RP!Applied, R!TypeOfAnnouncement,
                  RP!TypeOfAnnouncement, R!Last, RP!Last, R!Range, RP!Range

LEMMA SameSteps ==
  /\ R!Init <=> RP!Init
  /\ \A d, from : R!Record(d, from) <=> RP!Record(d, from)
  /\ \A d : R!Revoke(d) <=> RP!Revoke(d)
  /\ R!ActivateDue <=> RP!ActivateDue
  /\ R!Report <=> RP!Report
  /\ R!Tick <=> RP!Tick
<1>1. R!Init <=> RP!Init
  BY SameQueues DEF R!Init, RP!Init
<1>2. \A d, from : R!Record(d, from) <=> RP!Record(d, from)
  BY SameQueues, SameScheduling, SameApply DEF R!Record, RP!Record
<1>3. \A d : R!Revoke(d) <=> RP!Revoke(d)
  BY SameQueues DEF R!Revoke, RP!Revoke, R!Range, RP!Range
<1>4. R!ActivateDue <=> RP!ActivateDue
  BY SameQueues, SameApply DEF R!ActivateDue, RP!ActivateDue, R!Due, RP!Due, R!Range, RP!Range
<1>5. (R!Report <=> RP!Report) /\ (R!Tick <=> RP!Tick)
  BY DEF R!Report, RP!Report, R!Tick, RP!Tick
<1> QED BY <1>1, <1>2, <1>3, <1>4, <1>5
-----------------------------------------------------------------------------
(* What is in force was of the active control type, and was accepted. *)

\* A mode whose bands are in order and leave no gap.
Tiled(elements) ==
  /\ elements # <<>>
  /\ \A e \in Range(elements) :
       /\ IsFiniteRange(e.fill_level_range) /\ e.fill_level_range.start < e.fill_level_range.end
       /\ IsFiniteRange(e.fill_rate)
       /\ \A r \in Range(e.power_ranges) : IsFiniteRange(r)
       /\ \A i, j \in DOMAIN e.power_ranges :
            e.power_ranges[i].quantity = e.power_ranges[j].quantity => i = j
  /\ \A i \in 1 .. Len(elements) - 1 :
       elements[i].fill_level_range.end = elements[i + 1].fill_level_range.start

\* What the checks leave of a description, as far as lookups depend on it.
Vetted(d) ==
  /\ d.kind = "FrbcSystemDescription" =>
       /\ \A i, j \in DOMAIN d.actuators : d.actuators[i].id = d.actuators[j].id => i = j
       /\ \A a \in Range(d.actuators) : \A mode \in Range(a.operation_modes) : Tiled(mode.elements)
  /\ d.kind = "DdbcSystemDescription" =>
       \A a \in Range(d.actuators) : \A mode \in Range(a.operation_modes) :
         IsFiniteRange(mode.supply_range)

Usable == {d \in Descriptions : TypeOfDescription[d] = selected /\ Vetted(Described[d])}

InForceUsable ==
  /\ RP!Typed /\ selected \in ControlTypes
  /\ \A t \in ControlTypes : inForce[t] # RP!NoAnnouncement => t = selected /\ inForce[t].id \in Usable
  /\ \A a \in Range(scheduled) : a.id \in Usable

LEMMA AmongHolds ==
  ASSUME NEW queue \in Seq(RP!Announced), NEW kept
  PROVE  /\ RP!Among(queue, kept) \in Seq(RP!Announced)
         /\ Range(RP!Among(queue, kept)) = Range(queue) \cap kept
<1>1. \A f : RP!Range(f) = Range(f)
  BY DEF RP!Range, Range
<1> QED BY <1>1, RegistryHolds, RP!AmongElements

\* What is made effective takes the place of its own type.
LEMMA AppliedIsOfType ==
  ASSUME NEW effective \in Seq(RP!Announced), NEW t \in ControlTypes
  PROVE  \/ RP!Applied(effective, t) = inForce[t]
         \/ /\ RP!Applied(effective, t) \in Range(effective)
            /\ TypeOfDescription[RP!Applied(effective, t).id] = t
<1> DEFINE mine == RP!Among(effective, {a \in Range(effective) : TypeOfDescription[a.id] = t})
<1>1. \A f : RP!Range(f) = Range(f)
  BY DEF RP!Range, Range
<1>2. RP!Applied(effective, t) = IF mine = <<>> THEN inForce[t] ELSE RP!Last(mine)
  BY <1>1 DEF RP!Applied, RP!TypeOfAnnouncement
<1>3. /\ mine \in Seq(RP!Announced)
      /\ Range(mine) = Range(effective) \cap {a \in Range(effective) : TypeOfDescription[a.id] = t}
  BY AmongHolds
<1> HIDE DEF mine
<1>4. CASE mine # <<>>
  <2>1. Len(mine) \in DOMAIN mine
    BY <1>3, <1>4, EmptySeq, LenProperties
  <2>2. RP!Last(mine) \in Range(mine)
    BY <2>1 DEF RP!Last, Range
  <2> QED BY <1>2, <1>3, <1>4, <2>2
<1> QED BY <1>2, <1>4

LEMMA RecordUsable ==
  ASSUME InForceUsable, NEW d \in Descriptions, NEW from \in 0 .. MaxTime, Vetted(Described[d]),
         RP!Record(d, from)
  PROVE  InForceUsable' /\ selected' = selected /\ (inForce' = inForce \/ known' = {})
<1> DEFINE a == RP!Announcement(d, from)
<1>1. RP!Typed'
  BY RegistryHolds, RP!StepIsTyped DEF RP!Next, InForceUsable
<1>2. selected' = selected /\ Usable' = Usable /\ d \in Usable
  BY DEF RP!Record, Usable
<1>3. a \in RP!Announced /\ a.id = d
  BY RegistryHolds DEF RP!Announcement, RP!Announced
<1>4. \A f : RP!Range(f) = Range(f)
  BY DEF RP!Range, Range
<1>5. CASE from > now
  <2>1. scheduled' = RP!Scheduling(a) /\ RP!Apply(<<>>)
    BY <1>5 DEF RP!Record
  <2>2. Range(scheduled') \subseteq Range(scheduled) \cup {a}
    BY <1>3, <1>4, <2>1, RegistryHolds, RP!SchedulingHolds DEF InForceUsable, RP!Typed
  <2>3. <<>> \in Seq(RP!Announced) /\ Range(<<>>) = {}
    BY EmptySeq DEF Range
  <2>4. \A t \in ControlTypes : inForce'[t] = inForce[t]
    BY <2>1, <2>3, AppliedIsOfType DEF RP!Apply
  <2>5. inForce' = inForce
    BY <1>1, <2>4 DEF InForceUsable, RP!Typed
  <2> QED BY <1>1, <1>2, <1>3, <2>2, <2>5 DEF InForceUsable, RP!NoAnnouncement, RP!None
<1>6. CASE ~(from > now)
  <2>1. scheduled' = scheduled /\ RP!Apply(<<a>>)
    BY <1>6 DEF RP!Record
  <2>2. <<a>> \in Seq(RP!Announced) /\ Range(<<a>>) = {a} /\ <<a>> # <<>>
    BY <1>3 DEF Range
  <2>3. \A t \in ControlTypes :
          inForce'[t] = inForce[t] \/ (inForce'[t] = a /\ TypeOfDescription[d] = t)
    <3>1. \A t \in ControlTypes : inForce'[t] = RP!Applied(<<a>>, t)
      BY <2>1 DEF RP!Apply
    <3> HIDE DEF a
    <3>2. \A t \in ControlTypes :
            \/ RP!Applied(<<a>>, t) = inForce[t]
            \/ RP!Applied(<<a>>, t) = a /\ TypeOfDescription[a.id] = t
      BY <2>2, AppliedIsOfType
    <3> QED BY <1>3, <3>1, <3>2
  <2>4. known' = {}
    BY <2>1, <2>2 DEF RP!Apply
  <2> QED BY <1>1, <1>2, <1>3, <2>1, <2>3, <2>4 DEF InForceUsable, RP!NoAnnouncement, RP!None, Usable
<1> QED BY <1>5, <1>6

LEMMA ActivateUsable ==
  ASSUME InForceUsable, RP!ActivateDue
  PROVE  InForceUsable' /\ selected' = selected /\ (inForce' = inForce \/ known' = {})
<1> DEFINE due == RP!Among(scheduled, RP!Due)
<1>1. RP!Typed'
  BY RegistryHolds, RP!StepIsTyped DEF RP!Next, InForceUsable
<1>2. selected' = selected /\ Usable' = Usable
  BY DEF RP!ActivateDue, Usable
<1>3. /\ due \in Seq(RP!Announced) /\ Range(due) \subseteq Range(scheduled)
      /\ Range(scheduled') \subseteq Range(scheduled)
  BY AmongHolds DEF InForceUsable, RP!Typed, RP!ActivateDue
<1>4. RP!Apply(due)
  BY DEF RP!ActivateDue
<1> HIDE DEF due
<1>5. \A t \in ControlTypes :
        \/ inForce'[t] = inForce[t]
        \/ inForce'[t] \in Range(due) /\ TypeOfDescription[inForce'[t].id] = t
  BY <1>3, <1>4, AppliedIsOfType DEF RP!Apply
<1>6. inForce' = inForce \/ known' = {}
  <2>1. CASE due # <<>>
    BY <1>4, <2>1 DEF RP!Apply
  <2>2. CASE due = <<>>
    <3>1. Range(due) = {}
      BY <2>2 DEF Range
    <3> QED BY <1>1, <1>5, <3>1 DEF InForceUsable, RP!Typed
  <2> QED BY <2>1, <2>2
<1> QED BY <1>1, <1>2, <1>3, <1>5, <1>6 DEF InForceUsable, RP!NoAnnouncement, RP!None, Usable

LEMMA RevokeUsable ==
  ASSUME InForceUsable, NEW d \in Descriptions, RP!Revoke(d)
  PROVE  InForceUsable' /\ selected' = selected /\ (inForce' = inForce \/ known' = {})
<1>1. RP!Typed'
  BY RegistryHolds, RP!StepIsTyped DEF RP!Next, InForceUsable
<1>2. selected' = selected /\ Usable' = Usable
  BY DEF RP!Revoke, Usable
<1>3. Range(scheduled') \subseteq Range(scheduled)
  BY AmongHolds DEF InForceUsable, RP!Typed, RP!Revoke
<1>4. inForce' = inForce \/ known' = {}
  BY DEF RP!Revoke
<1>5. \A t \in ControlTypes : inForce'[t] = inForce[t] \/ inForce'[t] = RP!NoAnnouncement
  BY DEF RP!Revoke, InForceUsable, RP!Typed
<1>6. \A t \in ControlTypes : inForce'[t] # RP!NoAnnouncement => t = selected /\ inForce'[t].id \in Usable
  BY <1>5 DEF InForceUsable
<1>7. RP!NoAnnouncement' = RP!NoAnnouncement
  BY DEF RP!NoAnnouncement, RP!None
<1> QED BY <1>1, <1>2, <1>3, <1>4, <1>6, <1>7 DEF InForceUsable

LEMMA QuietUsable ==
  ASSUME InForceUsable, RP!Report \/ RP!Tick \/ UNCHANGED RP!vars
  PROVE  InForceUsable' /\ UNCHANGED <<selected, inForce>>
<1>1. RP!Typed'
  BY RegistryHolds, RP!StepIsTyped DEF RP!Next, InForceUsable
<1>2. UNCHANGED <<selected, inForce, scheduled>> /\ Usable' = Usable
  BY DEF RP!Report, RP!Tick, RP!vars, Usable
<1> QED BY <1>1, <1>2 DEF InForceUsable, RP!NoAnnouncement, RP!None
-----------------------------------------------------------------------------
(* What a message without errors has passed. *)

LEMMA CleanReports ==
  ASSUME NEW report, ~HasErrors(report) \/ StatusOf(report) = "OK"
  PROVE  report \subseteq Warnings
BY DEF HasErrors, StatusOf, Severity

LEMMA ContextIs ==
  ASSUME NEW sender
  PROVE  LET ctx == Context(sender) IN
           /\ ctx.sender = sender /\ ctx.phase = SelectedPhase(selected)
           /\ ctx.frbc = Effective("FRBC") /\ ctx.ombc = Effective("OMBC")
           /\ ctx.ddbc = Effective("DDBC") /\ ctx.pebc_constraints = pebc_constraints
           /\ ctx.ppbc_profiles = ppbc_profiles /\ ctx.active_modes = active_modes
           /\ ctx.timers = timers /\ ctx.fill_level = fill_level /\ ctx.now = now
BY DEF Context, EmptyContext

LEMMA AcceptableMeans ==
  ASSUME NEW m, Acceptable(m)
  PROVE  \E sender \in Senders(m.kind) : Judge(Context(sender), m) \subseteq Warnings
BY CleanReports DEF Acceptable

LEMMA JudgesOwn ==
  ASSUME NEW ctx, NEW m
  PROVE  /\ m.kind = "FrbcSystemDescription" => CheckFrbcSystemDescription(ctx, m) \subseteq Judge(ctx, m)
         /\ m.kind = "DdbcSystemDescription" => CheckDdbcSystemDescription(ctx, m) \subseteq Judge(ctx, m)
         /\ m.kind = "FrbcActuatorStatus" => CheckFrbcActuatorStatus(ctx, m) \subseteq Judge(ctx, m)
         /\ m.kind = "DdbcActuatorStatus" => CheckDdbcActuatorStatus(ctx, m) \subseteq Judge(ctx, m)
         /\ m.kind = "OmbcStatus" => CheckOmbcStatus(ctx, m) \subseteq Judge(ctx, m)
         /\ m.kind = "FrbcTimerStatus" => CheckFrbcTimerStatus(ctx, m) \subseteq Judge(ctx, m)
         /\ m.kind = "DdbcTimerStatus" => CheckDdbcTimerStatus(ctx, m) \subseteq Judge(ctx, m)
         /\ m.kind = "OmbcTimerStatus" => CheckOmbcTimerStatus(ctx, m) \subseteq Judge(ctx, m)
         /\ m.kind = "FrbcStorageStatus" => CheckFrbcStorageStatus(ctx, m) \subseteq Judge(ctx, m)
         /\ m.kind = "PebcPowerConstraints" => CheckPebcPowerConstraints(ctx, m) \subseteq Judge(ctx, m)
         /\ m.kind = "PebcEnergyConstraint" => CheckPebcEnergyConstraint(ctx, m) \subseteq Judge(ctx, m)
         /\ m.kind = "PpbcPowerProfileDefinition" =>
              CheckPpbcPowerProfileDefinition(ctx, m) \subseteq Judge(ctx, m)
         /\ m.kind = "FrbcInstruction" => CheckFrbcInstruction(ctx, m) \subseteq Judge(ctx, m)
         /\ m.kind = "OmbcInstruction" => CheckOmbcInstruction(ctx, m) \subseteq Judge(ctx, m)
         /\ m.kind = "DdbcInstruction" => CheckDdbcInstruction(ctx, m) \subseteq Judge(ctx, m)
         /\ m.kind = "PebcInstruction" => CheckPebcInstruction(ctx, m) \subseteq Judge(ctx, m)
BY DEF Judge, BelongsTo, DescriptionsAndStatuses, Instructions, CheckFrbc, CheckOmbc, CheckDdbc, CheckPower

\* A message of one control type without errors crosses while that type is active.
LEMMA InPlace ==
  ASSUME selected \in ControlTypes, NEW m, NEW sender \in Roles,
         Judge(Context(sender), m) \subseteq Warnings,
         NEW ct \in ControlTypes, BelongsTo(m.kind, ct)
  PROVE  selected = ct
<1> DEFINE ctx == Context(sender)
<1>1. ctx.sender = sender /\ ctx.phase = SelectedPhase(selected) /\ sender # Absent
  BY ContextIs, RulesAssumption
<1>2. CheckEnvelope(ctx, m.kind, m.message_id) \subseteq Warnings
  BY DEF Judge
<1> HIDE DEF ctx
<1>3. Allowed(ctx.phase, ctx.sender, m.kind)
  BY <1>1, <1>2 DEF CheckEnvelope, Warnings
<1>4. AllowedInPhase(selected, m.kind)
  BY <1>1, <1>3 DEF Allowed, SelectedPhase
<1>5. BelongsTo(m.kind, selected)
  BY <1>4 DEF AllowedInPhase, BelongsTo, ControlTypes, DescriptionsAndStatuses, Instructions,
              HandshakeKinds, StandingKinds
<1> QED BY <1>5 DEF BelongsTo, ControlTypes, DescriptionsAndStatuses, Instructions

LEMMA BandIsClean ==
  ASSUME NEW r, CheckBand(r) \subseteq Warnings
  PROVE  IsFiniteRange(r) /\ ~(r.start >= r.end)
BY DEF CheckBand, CheckInterpolated, CheckFinite, When, Warnings, IsFiniteRange

LEMMA InterpolatedIsClean ==
  ASSUME NEW r, CheckInterpolated(r) \subseteq Warnings
  PROVE  IsFiniteRange(r)
BY DEF CheckInterpolated, CheckFinite, When, Warnings, IsFiniteRange

LEMMA PowerRangesAreClean ==
  ASSUME NEW ranges, CheckPowerRanges(ranges) \subseteq Warnings
  PROVE  /\ \A r \in Range(ranges) : IsFiniteRange(r)
         /\ \A i, j \in DOMAIN ranges : ranges[i].quantity = ranges[j].quantity => i = j
<1>1. \A i \in DOMAIN ranges : CheckInterpolated(ranges[i]) \subseteq Warnings
  BY DEF CheckPowerRanges, Over
<1>2. CheckUniqueQuantities(QuantitiesIn(ranges)) \subseteq Warnings
  BY DEF CheckPowerRanges
<1>3. IsInjective(QuantitiesIn(ranges))
  BY <1>2 DEF CheckUniqueQuantities, When, Warnings
<1> QED BY <1>1, <1>3, InterpolatedIsClean DEF Range, IsInjective, QuantitiesIn

LEMMA ElementsAreTiled ==
  ASSUME NEW elements, IsList(elements), \A e \in Range(elements) : DecodedFrbcElement(e),
         CheckArray(elements, 1, 100) \subseteq Warnings,
         CheckContiguous(LevelsOf(elements), "FRBC_ELEMENTS_CONTIGUOUS") \subseteq Warnings,
         \A k \in DOMAIN elements : /\ CheckBand(elements[k].fill_level_range) \subseteq Warnings
                                    /\ CheckInterpolated(elements[k].fill_rate) \subseteq Warnings
                                    /\ CheckPowerRanges(elements[k].power_ranges) \subseteq Warnings
  PROVE  Tiled(elements)
<1>1. elements # <<>> /\ Len(elements) \in Nat /\ DOMAIN elements = 1 .. Len(elements)
  <2>1. Len(elements) \in 1 .. 100
    BY DEF CheckArray, When, Warnings
  <2>2. DOMAIN elements = 1 .. Len(elements)
    BY DEF IsList
  <2> QED BY <2>1, <2>2, EmptySeq
<1>2. \A e \in Range(elements) :
        /\ IsFiniteRange(e.fill_level_range) /\ e.fill_level_range.start < e.fill_level_range.end
        /\ IsFiniteRange(e.fill_rate)
        /\ \A r \in Range(e.power_ranges) : IsFiniteRange(r)
        /\ \A i, j \in DOMAIN e.power_ranges :
             e.power_ranges[i].quantity = e.power_ranges[j].quantity => i = j
  <2> SUFFICES ASSUME NEW k \in DOMAIN elements
               PROVE  LET e == elements[k] IN
                        /\ IsFiniteRange(e.fill_level_range) /\ e.fill_level_range.start < e.fill_level_range.end
                        /\ IsFiniteRange(e.fill_rate)
                        /\ \A r \in Range(e.power_ranges) : IsFiniteRange(r)
                        /\ \A i, j \in DOMAIN e.power_ranges :
                             e.power_ranges[i].quantity = e.power_ranges[j].quantity => i = j
    BY DEF Range
  <2> DEFINE r == elements[k].fill_level_range
  <2>1. IsFiniteRange(r) /\ ~(r.start >= r.end)
    BY BandIsClean
  <2>2. r.start \in Int /\ r.end \in Int
    <3>1. DecodedFrbcElement(elements[k])
      BY DEF Range
    <3> QED BY <2>1, <3>1 DEF DecodedFrbcElement, IsNumberRange, IsNumber, IsFiniteRange, IsFinite
  <2>3. r.start < r.end
    BY <2>1, <2>2
  <2>4. IsFiniteRange(elements[k].fill_rate)
    BY InterpolatedIsClean
  <2> HIDE DEF r
  <2>5. /\ \A x \in Range(elements[k].power_ranges) : IsFiniteRange(x)
        /\ \A i, j \in DOMAIN elements[k].power_ranges :
             elements[k].power_ranges[i].quantity = elements[k].power_ranges[j].quantity => i = j
    BY PowerRangesAreClean
  <2> QED BY <2>1, <2>3, <2>4, <2>5 DEF r
<1>3. \A i \in 1 .. Len(elements) - 1 :
        elements[i].fill_level_range.end = elements[i + 1].fill_level_range.start
  <2> SUFFICES ASSUME NEW i \in 1 .. Len(elements) - 1
               PROVE  elements[i].fill_level_range.end = elements[i + 1].fill_level_range.start
    OBVIOUS
  <2> DEFINE levels == LevelsOf(elements)
  <2>1. i \in DOMAIN elements /\ i + 1 \in DOMAIN elements
    BY <1>1
  <2>2. /\ levels[i] = elements[i].fill_level_range /\ levels[i + 1] = elements[i + 1].fill_level_range
        /\ Len(levels) = Len(elements)
    BY <1>1, <2>1 DEF LevelsOf
  <2>3. IsFiniteRange(levels[i]) /\ IsFiniteRange(levels[i + 1])
    BY <1>2, <2>1, <2>2 DEF Range
  <2> HIDE DEF levels
  <2>4. CheckContiguous(levels, "FRBC_ELEMENTS_CONTIGUOUS") \subseteq Warnings
    BY DEF levels
  <2>5. levels[i].end = levels[i + 1].start
    BY <2>2, <2>3, <2>4 DEF CheckContiguous, When, Warnings
  <2> QED BY <2>2, <2>5
<1> QED BY <1>1, <1>2, <1>3 DEF Tiled

LEMMA FrbcIsVetted ==
  ASSUME NEW m, DecodedFrbc(m), NEW ctx, CheckFrbcSystemDescription(ctx, m) \subseteq Warnings,
         NEW a \in Range(m.actuators), NEW mode \in Range(a.operation_modes)
  PROVE  Tiled(mode.elements)
<1>1. PICK i \in DOMAIN m.actuators : a = m.actuators[i]
  BY DEF Range
<1>2. PICK j \in DOMAIN a.operation_modes : mode = a.operation_modes[j]
  BY DEF Range
<1> DEFINE Publishes(x) ==
             \/ Costs(<<>>, x.transitions)
             \/ \E k \in DOMAIN x.operation_modes : Costs(x.operation_modes[k].elements, <<>>)
           CheckElement(x, e) ==
             CheckBand(e.fill_level_range) \cup CheckInterpolated(e.fill_rate)
               \cup CheckPowerRanges(e.power_ranges) \cup CheckRunningCosts(e.running_costs)
               \cup CheckCommodityCoverage(x.supported_commodities, e.power_ranges)
           CheckMode(x, y) ==
             CheckArray(y.elements, 1, 100) \cup Over(y.elements, LAMBDA e : CheckElement(x, e))
               \cup CheckContiguous(LevelsOf(y.elements), "FRBC_ELEMENTS_CONTIGUOUS")
           CheckOne(x) == CheckActuator(x, "FRBC_TRANSITION_REFERENCES")
                            \cup Over(x.operation_modes, LAMBDA y : CheckMode(x, y))
<1>3. Over(m.actuators, CheckOne) \subseteq Warnings
  BY DEF CheckFrbcSystemDescription
<1> HIDE DEF CheckMode
<1>4. Over(a.operation_modes, LAMBDA y : CheckMode(a, y)) \subseteq Warnings
  BY <1>1, <1>3 DEF Over
<1>5. CheckMode(a, mode) \subseteq Warnings
  BY <1>2, <1>4 DEF Over
<1> HIDE DEF CheckElement
<1>6. /\ CheckArray(mode.elements, 1, 100) \subseteq Warnings
      /\ CheckContiguous(LevelsOf(mode.elements), "FRBC_ELEMENTS_CONTIGUOUS") \subseteq Warnings
      /\ \A k \in DOMAIN mode.elements : CheckElement(a, mode.elements[k]) \subseteq Warnings
  BY <1>5 DEF CheckMode, Over
<1>7. IsList(mode.elements) /\ \A e \in Range(mode.elements) : DecodedFrbcElement(e)
  BY DEF DecodedFrbc
<1> QED BY <1>6, <1>7, ElementsAreTiled DEF CheckElement

LEMMA DdbcIsVetted ==
  ASSUME NEW m, NEW ctx, CheckDdbcSystemDescription(ctx, m) \subseteq Warnings,
         NEW a \in Range(m.actuators), NEW mode \in Range(a.operation_modes)
  PROVE  IsFiniteRange(mode.supply_range)
<1>1. PICK i \in DOMAIN m.actuators : a = m.actuators[i]
  BY DEF Range
<1>2. PICK j \in DOMAIN a.operation_modes : mode = a.operation_modes[j]
  BY DEF Range
<1> DEFINE CheckMode(x, y) ==
             CheckPowerRanges(y.power_ranges) \cup CheckInterpolated(y.supply_range)
               \cup CheckRunningCosts(y.running_costs)
               \cup CheckCommodityCoverage(x.supported_commodities, y.power_ranges)
           CheckOne(x) == CheckActuator(x, "DDBC_TRANSITION_REFERENCES")
                            \cup Over(x.operation_modes, LAMBDA y : CheckMode(x, y))
<1>3. Over(m.actuators, CheckOne) \subseteq Warnings
  BY DEF CheckDdbcSystemDescription
<1> HIDE DEF CheckMode
<1>4. Over(a.operation_modes, LAMBDA y : CheckMode(a, y)) \subseteq Warnings
  BY <1>1, <1>3 DEF Over
<1>5. CheckMode(a, mode) \subseteq Warnings
  BY <1>2, <1>4 DEF Over
<1>6. CheckInterpolated(mode.supply_range) \subseteq Warnings
  BY <1>5 DEF CheckMode
<1> QED BY <1>6, InterpolatedIsClean

\* An accepted description is vetted, and so is the one it repeats.
LEMMA AcceptedIsVetted ==
  ASSUME selected \in ControlTypes, NEW m \in Crossing, IsSystemDescription(m.kind), Acceptable(m)
  PROVE  /\ m.message_id \in Descriptions /\ m.valid_from \in 0 .. MaxTime
         /\ Vetted(Described[m.message_id])
<1> DEFINE d == Described[m.message_id]
<1>1. Decoded(m) /\ m.message_id \in Descriptions /\ m.valid_from \in 0 .. MaxTime /\ Repeats(m, d)
  BY JudgingAssumption DEF Crossing
<1>2. PICK sender \in Senders(m.kind) : Judge(Context(sender), m) \subseteq Warnings
  BY AcceptableMeans
<1> DEFINE ctx == Context(sender)
<1> HIDE DEF ctx
<1>3. Judge(ctx, m) \subseteq Warnings
  BY <1>2 DEF ctx
<1>4. m.kind = d.kind
  BY <1>1 DEF Repeats
<1>5. ASSUME d.kind = "FrbcSystemDescription", NEW a \in Range(d.actuators),
             NEW mode \in Range(a.operation_modes)
      PROVE  Tiled(mode.elements)
  <2>1. m.actuators = d.actuators /\ DecodedFrbc(m)
    BY <1>1, <1>4, <1>5 DEF Repeats, Decoded
  <2>2. CheckFrbcSystemDescription(ctx, m) \subseteq Warnings
    BY <1>3, <1>4, <1>5, JudgesOwn
  <2> QED BY <2>1, <2>2, FrbcIsVetted, <1>5
<1>6. ASSUME d.kind = "DdbcSystemDescription", NEW a \in Range(d.actuators),
             NEW mode \in Range(a.operation_modes)
      PROVE  IsFiniteRange(mode.supply_range)
  <2>1. m.actuators = d.actuators
    BY <1>1, <1>4, <1>6 DEF Repeats
  <2>2. CheckDdbcSystemDescription(ctx, m) \subseteq Warnings
    BY <1>3, <1>4, <1>6, JudgesOwn
  <2> QED BY <2>1, <2>2, DdbcIsVetted, <1>6
<1>7. ASSUME d.kind = "FrbcSystemDescription"
      PROVE  \A i, j \in DOMAIN d.actuators : d.actuators[i].id = d.actuators[j].id => i = j
  <2>1. m.actuators = d.actuators
    BY <1>1, <1>4, <1>7 DEF Repeats
  <2>2. CheckFrbcSystemDescription(ctx, m) \subseteq Warnings
    BY <1>3, <1>4, <1>7, JudgesOwn
  <2>3. CheckUniqueIds(m.actuators) \subseteq Warnings
    BY <2>2 DEF CheckFrbcSystemDescription
  <2> QED BY <2>1, <2>3 DEF CheckUniqueIds, When, Warnings, IsInjective
<1> QED BY <1>1, <1>5, <1>6, <1>7 DEF Vetted
-----------------------------------------------------------------------------
(* The engine's steps, as far as descriptions and tables are concerned. *)

ReportsOn(m) == RecordMode(m) \/ RecordTimer(m)

LEMMA RecordingStep ==
  ASSUME InForceUsable, NEW m \in Crossing, RecordDescription(m)
  PROVE  /\ InForceUsable' /\ selected' = selected /\ (inForce' = inForce \/ known' = {})
         /\ RP!Next
<1>1. /\ m.message_id \in Descriptions /\ m.valid_from \in 0 .. MaxTime
      /\ Vetted(Described[m.message_id])
  BY AcceptedIsVetted DEF RecordDescription, InForceUsable
<1>2. RP!Record(m.message_id, m.valid_from)
  BY SameSteps DEF RecordDescription
<1> QED BY <1>1, <1>2, RecordUsable DEF RP!Next

LEMMA RevokingStep ==
  ASSUME InForceUsable, NEW m, RevokeDescription(m)
  PROVE  /\ InForceUsable' /\ selected' = selected /\ (inForce' = inForce \/ known' = {})
         /\ [RP!Next]_RP!vars
<1>1. CASE m.object_id \in Descriptions /\ Described[m.object_id].kind = m.object_type
  <2>1. RP!Revoke(m.object_id)
    BY <1>1, SameSteps DEF RevokeDescription
  <2> QED BY <1>1, <2>1, RevokeUsable DEF RP!Next
<1>2. CASE ~(m.object_id \in Descriptions /\ Described[m.object_id].kind = m.object_type)
  <2>1. UNCHANGED RP!vars
    BY <1>2 DEF RevokeDescription, descriptionVars, RP!vars
  <2> QED BY <2>1, QuietUsable
<1> QED BY <1>1, <1>2

\* Whatever happens, the queue, what is in force and what may be revoked change
\* as Registry says; the tables of modes and timers grow by a report and are
\* emptied with what was known.
LEMMA EveryStep ==
  ASSUME InForceUsable, [Next]_vars
  PROVE  /\ InForceUsable' /\ selected' = selected /\ (inForce' = inForce \/ known' = {})
         /\ [RP!Next]_RP!vars
         /\ \/ Forget
            \/ \E m \in Crossing : ReportsOn(m) /\ UNCHANGED <<selected, inForce>> /\ known' # {}
<1>1. ASSUME NEW m \in Crossing, RecordDescription(m)
      PROVE  /\ InForceUsable' /\ selected' = selected /\ (inForce' = inForce \/ known' = {})
             /\ RP!Next /\ Forget
  BY <1>1, RecordingStep DEF RecordDescription
<1>2. ASSUME NEW m \in Crossing, RevokeDescription(m)
      PROVE  /\ InForceUsable' /\ selected' = selected /\ (inForce' = inForce \/ known' = {})
             /\ [RP!Next]_RP!vars /\ Forget
  BY <1>2, RevokingStep DEF RevokeDescription
<1>3. ASSUME ActivateDue
      PROVE  /\ InForceUsable' /\ selected' = selected /\ (inForce' = inForce \/ known' = {})
             /\ RP!Next /\ Forget
  BY <1>3, SameSteps, ActivateUsable DEF ActivateDue, RP!Next
<1>4. ASSUME Tick
      PROVE  InForceUsable' /\ UNCHANGED <<selected, inForce>> /\ RP!Next /\ Forget
  <2>1. RP!Tick
    BY <1>4, SameSteps DEF Tick
  <2>2. Forget
    BY <1>4, <2>1 DEF Tick, RP!Tick, Forget
  <2> QED BY <2>1, <2>2, QuietUsable DEF RP!Next
<1>5. ASSUME NEW m \in Crossing, ReportsOn(m)
      PROVE  InForceUsable' /\ UNCHANGED <<selected, inForce>> /\ RP!Next /\ known' # {}
  <2>1. RP!Report
    BY <1>5, SameSteps DEF ReportsOn, RecordMode, RecordTimer
  <2>2. known' # {}
    BY <2>1 DEF RP!Report
  <2> QED BY <2>1, <2>2, QuietUsable DEF RP!Next
<1>6. ASSUME UNCHANGED <<now, selected, descriptionVars, actuatorVars>>
      PROVE  InForceUsable' /\ UNCHANGED <<selected, inForce>> /\ UNCHANGED RP!vars /\ Forget
  <2>1. UNCHANGED RP!vars
    BY <1>6 DEF descriptionVars, RP!vars
  <2>2. Forget
    BY <1>6 DEF Forget, descriptionVars
  <2> QED BY <2>1, <2>2, QuietUsable DEF descriptionVars, RP!vars
<1>7. ASSUME NEW m \in Crossing,
             \/ RecordFillLevel(m) \/ RecordDetails(m) \/ RecordConstraints(m) \/ RecordEnergy(m)
             \/ RecordProfile(m) \/ RecordInstruction(m) \/ RecordUpdate(m)
             \/ RevokePublication(m) \/ RevokeInstruction(m)
      PROVE  UNCHANGED <<now, selected, descriptionVars, actuatorVars>>
  BY <1>7 DEF RecordFillLevel, RecordDetails, RecordConstraints, RecordEnergy, RecordProfile,
              RecordInstruction, RecordUpdate, RevokePublication, RevokeInstruction
<1>8. CASE UNCHANGED vars
  <2>1. UNCHANGED <<now, selected, descriptionVars, actuatorVars>>
    BY <1>8 DEF vars
  <2> QED BY <1>6, <2>1
<1>9. CASE Next
  <2>1. ASSUME NEW m \in Crossing,
               \/ RecordDescription(m) \/ RecordMode(m) \/ RecordTimer(m) \/ RecordFillLevel(m)
               \/ RecordDetails(m) \/ RecordConstraints(m) \/ RecordEnergy(m) \/ RecordProfile(m)
               \/ RecordInstruction(m) \/ RecordUpdate(m)
               \/ RevokeDescription(m) \/ RevokePublication(m) \/ RevokeInstruction(m)
        PROVE  /\ InForceUsable' /\ selected' = selected /\ (inForce' = inForce \/ known' = {})
               /\ [RP!Next]_RP!vars
               /\ \/ Forget
                  \/ \E x \in Crossing : ReportsOn(x) /\ UNCHANGED <<selected, inForce>> /\ known' # {}
    BY <1>1, <1>2, <1>5, <1>6, <1>7, <2>1 DEF ReportsOn
  <2> QED BY <1>3, <1>4, <1>9, <2>1 DEF Next
<1> QED BY <1>8, <1>9

LEMMA InitIsUsable == Init => InForceUsable /\ RP!Init
<1> SUFFICES ASSUME Init PROVE InForceUsable /\ RP!Init
  OBVIOUS
<1>1. RP!Init
  BY SameSteps DEF Init
<1>2. RP!Typed
  BY <1>1, RegistryHolds, RP!InitIsTyped
<1>3. Range(<<>>) = {}
  BY DEF Range
<1> QED BY <1>1, <1>2, <1>3 DEF InForceUsable, RP!Init

LEMMA AlwaysUsable == Spec => []InForceUsable
<1>1. Init => InForceUsable
  BY InitIsUsable
<1>2. InForceUsable /\ [Next]_vars => InForceUsable'
  BY EveryStep
<1> QED BY <1>1, <1>2, PTL DEF Spec

\* An engine that judges contents treats descriptions as Registry does, so that
\* what was revoked stays gone here too, and a replacement survives.
THEOREM DescriptionsFollowRegistry == Spec => R!Spec
<1>1. Init => R!Init
  BY SameSteps, InitIsUsable
<1>2. R!Next <=> RP!Next
  BY SameSteps DEF R!Next, RP!Next, R!Select, RP!Select
<1>3. InForceUsable /\ [Next]_vars => [R!Next]_(R!vars)
  <2>1. UNCHANGED RP!vars => UNCHANGED R!vars
    BY DEF R!vars, RP!vars
  <2>2. InForceUsable /\ [Next]_vars => RP!Next \/ UNCHANGED RP!vars
    BY EveryStep
  <2> QED BY <1>2, <2>1, <2>2
<1> QED BY <1>1, <1>3, AlwaysUsable, PTL DEF Spec, R!Spec

\* Whatever an engine is told and in whatever order: a description that was
\* revoked is not in force, not waiting, and not revocable again (apply, revoke
\* and activate_due in session/core.rs).
THEOREM RevokedHereStaysGone == Spec => []R!RevokedStaysGone
<1>1. RP!RevokedStaysGone => R!RevokedStaysGone
  BY SameQueues DEF RP!RevokedStaysGone, R!RevokedStaysGone, RP!Waiting, R!Waiting
<1>2. RP!Spec => []RP!RevokedStaysGone
  BY RegistryHolds, RP!RevocationHolds
<1>3. Init => RP!Init
  BY InitIsUsable
<1>4. InForceUsable /\ [Next]_vars => [RP!Next]_(RP!vars)
  BY EveryStep
<1> QED BY <1>1, <1>2, <1>3, <1>4, AlwaysUsable, PTL DEF Spec, RP!Spec
-----------------------------------------------------------------------------
(* What is known was described. *)

LEMMA EffectiveIs ==
  ASSUME InForceUsable, NEW ct \in ControlTypes, Effective(ct) # Absent
  PROVE  /\ ct = selected /\ ct \in DOMAIN SystemDescriptions
         /\ Effective(ct).kind = SystemDescriptions[ct]
         /\ Decoded(Effective(ct)) /\ Vetted(Effective(ct))
<1>1. inForce[ct] # RP!NoAnnouncement /\ Effective(ct) = Described[inForce[ct].id]
  BY SameQueues DEF Effective
<1>2. ct = selected /\ inForce[ct].id \in Usable
  BY <1>1 DEF InForceUsable
<1>3. inForce[ct].id \in Descriptions /\ TypeOfDescription[inForce[ct].id] = ct
      /\ Vetted(Described[inForce[ct].id])
  BY <1>2 DEF Usable
<1> QED BY <1>1, <1>2, <1>3, TypesAgree, JudgingAssumption

\* An accepted status names a mode, or a timer, of an actuator that is described.
LEMMA ModeIsDescribed ==
  ASSUME InForceUsable, NEW m, RecordMode(m), Effective(selected) # Absent
  PROVE  \E a \in Range(ActuatorsOf(selected)) :
           a.id = ActuatorOf(m) /\ m.active_operation_mode_id \in Ids(a.operation_modes)
<1>1. PICK sender \in Senders(m.kind) : Judge(Context(sender), m) \subseteq Warnings
  BY AcceptableMeans DEF RecordMode
<1>2. sender \in Roles
  BY DEF Senders, Roles
<1> DEFINE ctx == Context(sender)
<1>3. /\ ctx.frbc = Effective("FRBC") /\ ctx.ombc = Effective("OMBC") /\ ctx.ddbc = Effective("DDBC")
  BY ContextIs
<1>4. \A ct \in ControlTypes : BelongsTo(m.kind, ct) => selected = ct
  BY <1>1, <1>2, InPlace DEF InForceUsable
<1>5. selected \in ControlTypes
  BY DEF InForceUsable
<1> DEFINE d == Effective(selected)
<1>6. Decoded(d) /\ d.kind = SystemDescriptions[selected]
  BY <1>5, EffectiveIs
<1> HIDE DEF ctx, d
<1>7. Judge(ctx, m) \subseteq Warnings
  BY <1>1 DEF ctx
<1>8. CASE m.kind = "FrbcActuatorStatus"
  <2>1. selected = "FRBC" /\ ctx.frbc = d
    BY <1>3, <1>4, <1>8 DEF BelongsTo, DescriptionsAndStatuses, ControlTypes, d
  <2>2. CheckFrbcActuatorStatus(ctx, m) \subseteq Warnings
    BY <1>7, <1>8, JudgesOwn
  <2> DEFINE a == ById(d.actuators, m.actuator_id)
  <2>3. a # Absent /\ m.active_operation_mode_id \in Ids(a.operation_modes)
    BY <2>1, <2>2 DEF CheckFrbcActuatorStatus, When, Warnings, d
  <2>4. IsList(d.actuators)
    BY <1>6, <2>1 DEF SystemDescriptions, Decoded, DecodedFrbc
  <2>5. a \in Range(d.actuators) /\ a.id = m.actuator_id
    BY <2>3, <2>4, ByIdFinds
  <2>6. ActuatorsOf(selected) = d.actuators /\ ActuatorOf(m) = m.actuator_id
    BY <1>8, <2>1 DEF ActuatorsOf, ActuatorOf, d
  <2> QED BY <2>3, <2>5, <2>6
<1>9. CASE m.kind = "DdbcActuatorStatus"
  <2>1. selected = "DDBC" /\ ctx.ddbc = d
    BY <1>3, <1>4, <1>9 DEF BelongsTo, DescriptionsAndStatuses, ControlTypes, d
  <2>2. CheckDdbcActuatorStatus(ctx, m) \subseteq Warnings
    BY <1>7, <1>9, JudgesOwn
  <2> DEFINE a == ById(d.actuators, m.actuator_id)
  <2>3. a # Absent /\ m.active_operation_mode_id \in Ids(a.operation_modes)
    BY <2>1, <2>2 DEF CheckDdbcActuatorStatus, When, Warnings, d
  <2>4. IsList(d.actuators)
    BY <1>6, <2>1 DEF SystemDescriptions, Decoded, DecodedDdbc
  <2>5. a \in Range(d.actuators) /\ a.id = m.actuator_id
    BY <2>3, <2>4, ByIdFinds
  <2>6. ActuatorsOf(selected) = d.actuators /\ ActuatorOf(m) = m.actuator_id
    BY <1>9, <2>1 DEF ActuatorsOf, ActuatorOf, d
  <2> QED BY <2>3, <2>5, <2>6
<1>10. CASE m.kind = "OmbcStatus"
  <2>1. selected = "OMBC" /\ ctx.ombc = d
    BY <1>3, <1>4, <1>10 DEF BelongsTo, DescriptionsAndStatuses, ControlTypes, d
  <2>2. CheckOmbcStatus(ctx, m) \subseteq Warnings
    BY <1>7, <1>10, JudgesOwn
  <2>3. m.active_operation_mode_id \in Ids(d.operation_modes)
    BY <2>1, <2>2 DEF CheckOmbcStatus, When, Warnings, d
  <2> DEFINE a == [id |-> Nil, operation_modes |-> d.operation_modes, timers |-> d.timers]
  <2>4. ActuatorsOf(selected) = <<a>> /\ ActuatorOf(m) = Nil
    BY <1>10, <2>1 DEF ActuatorsOf, ActuatorOf, d
  <2>5. a \in Range(<<a>>)
    BY DEF Range
  <2>6. a.id = Nil /\ a.operation_modes = d.operation_modes
    OBVIOUS
  <2> HIDE DEF a
  <2> QED BY <2>3, <2>4, <2>5, <2>6
<1> QED BY <1>8, <1>9, <1>10 DEF RecordMode

LEMMA TimerIsDescribed ==
  ASSUME InForceUsable, NEW m, RecordTimer(m), Effective(selected) # Absent
  PROVE  \E a \in Range(ActuatorsOf(selected)) : a.id = ActuatorOf(m) /\ m.timer_id \in Ids(a.timers)
<1>1. PICK sender \in Senders(m.kind) : Judge(Context(sender), m) \subseteq Warnings
  BY AcceptableMeans DEF RecordTimer
<1>2. sender \in Roles
  BY DEF Senders, Roles
<1> DEFINE ctx == Context(sender)
<1>3. /\ ctx.frbc = Effective("FRBC") /\ ctx.ombc = Effective("OMBC") /\ ctx.ddbc = Effective("DDBC")
  BY ContextIs
<1>4. \A ct \in ControlTypes : BelongsTo(m.kind, ct) => selected = ct
  BY <1>1, <1>2, InPlace DEF InForceUsable
<1>5. selected \in ControlTypes
  BY DEF InForceUsable
<1> DEFINE d == Effective(selected)
<1>6. Decoded(d) /\ d.kind = SystemDescriptions[selected]
  BY <1>5, EffectiveIs
<1> HIDE DEF ctx, d
<1>7. Judge(ctx, m) \subseteq Warnings
  BY <1>1 DEF ctx
<1>8. CASE m.kind = "FrbcTimerStatus"
  <2>1. selected = "FRBC" /\ ctx.frbc = d
    BY <1>3, <1>4, <1>8 DEF BelongsTo, DescriptionsAndStatuses, ControlTypes, d
  <2>2. CheckFrbcTimerStatus(ctx, m) \subseteq Warnings
    BY <1>7, <1>8, JudgesOwn
  <2> DEFINE a == ById(d.actuators, m.actuator_id)
  <2>3. a # Absent /\ m.timer_id \in Ids(a.timers)
    BY <2>1, <2>2 DEF CheckFrbcTimerStatus, When, Warnings, d
  <2>4. IsList(d.actuators)
    BY <1>6, <2>1 DEF SystemDescriptions, Decoded, DecodedFrbc
  <2>5. a \in Range(d.actuators) /\ a.id = m.actuator_id
    BY <2>3, <2>4, ByIdFinds
  <2>6. ActuatorsOf(selected) = d.actuators /\ ActuatorOf(m) = m.actuator_id
    BY <1>8, <2>1 DEF ActuatorsOf, ActuatorOf, d
  <2> QED BY <2>3, <2>5, <2>6
<1>9. CASE m.kind = "DdbcTimerStatus"
  <2>1. selected = "DDBC" /\ ctx.ddbc = d
    BY <1>3, <1>4, <1>9 DEF BelongsTo, DescriptionsAndStatuses, ControlTypes, d
  <2>2. CheckDdbcTimerStatus(ctx, m) \subseteq Warnings
    BY <1>7, <1>9, JudgesOwn
  <2> DEFINE a == ById(d.actuators, m.actuator_id)
  <2>3. a # Absent /\ m.timer_id \in Ids(a.timers)
    BY <2>1, <2>2 DEF CheckDdbcTimerStatus, When, Warnings, d
  <2>4. IsList(d.actuators)
    BY <1>6, <2>1 DEF SystemDescriptions, Decoded, DecodedDdbc
  <2>5. a \in Range(d.actuators) /\ a.id = m.actuator_id
    BY <2>3, <2>4, ByIdFinds
  <2>6. ActuatorsOf(selected) = d.actuators /\ ActuatorOf(m) = m.actuator_id
    BY <1>9, <2>1 DEF ActuatorsOf, ActuatorOf, d
  <2> QED BY <2>3, <2>5, <2>6
<1>10. CASE m.kind = "OmbcTimerStatus"
  <2>1. selected = "OMBC" /\ ctx.ombc = d
    BY <1>3, <1>4, <1>10 DEF BelongsTo, DescriptionsAndStatuses, ControlTypes, d
  <2>2. CheckOmbcTimerStatus(ctx, m) \subseteq Warnings
    BY <1>7, <1>10, JudgesOwn
  <2>3. m.timer_id \in Ids(d.timers)
    BY <2>1, <2>2 DEF CheckOmbcTimerStatus, When, Warnings, d
  <2> DEFINE a == [id |-> Nil, operation_modes |-> d.operation_modes, timers |-> d.timers]
  <2>4. ActuatorsOf(selected) = <<a>> /\ ActuatorOf(m) = Nil
    BY <1>10, <2>1 DEF ActuatorsOf, ActuatorOf, d
  <2>5. a \in Range(<<a>>)
    BY DEF Range
  <2>6. a.id = Nil /\ a.timers = d.timers
    OBVIOUS
  <2> HIDE DEF a
  <2> QED BY <2>3, <2>4, <2>5, <2>6
<1> QED BY <1>8, <1>9, <1>10 DEF RecordTimer

\* The tables of modes and timers, empty while nothing is known.
TablesHold ==
  /\ IsTable(active_modes) /\ IsTable(timers)
  /\ known = {} => active_modes = <<>> /\ timers = <<>>

LEMMA ForgetKeeps ==
  ASSUME InForceUsable, TablesHold, KnownIsDescribed, Forget, selected' = selected,
         inForce' = inForce \/ known' = {}
  PROVE  TablesHold' /\ KnownIsDescribed'
<1>1. CASE active_modes' = <<>> /\ timers' = <<>>
  BY <1>1, EmptyIsTable DEF TablesHold, KnownIsDescribed
<1>2. CASE UNCHANGED <<active_modes, timers>> /\ ~(active_modes' = <<>> /\ timers' = <<>>)
  <2>1. known # {} /\ known' # {} /\ inForce' = inForce
    BY <1>2 DEF TablesHold, Forget
  <2>2. \A ct \in ControlTypes : Effective(ct)' = Effective(ct)
    BY <2>1 DEF Effective
  <2>3. Effective(selected)' = Effective(selected) /\ ActuatorsOf(selected)' = ActuatorsOf(selected)
    BY <2>1, <2>2 DEF ActuatorsOf, Effective
  <2> QED BY <1>2, <2>1, <2>3 DEF TablesHold, KnownIsDescribed
<1> QED BY <1>1, <1>2 DEF Forget, actuatorVars, TablesHold

LEMMA ReportKeeps ==
  ASSUME InForceUsable, TablesHold, KnownIsDescribed, NEW m \in Crossing, ReportsOn(m),
         UNCHANGED <<selected, inForce>>, known' # {}
  PROVE  TablesHold' /\ KnownIsDescribed'
<1>1. Effective(selected)' = Effective(selected) /\ ActuatorsOf(selected)' = ActuatorsOf(selected)
  BY DEF ActuatorsOf, Effective
<1>2. CASE RecordMode(m)
  <2> DEFINE k == ActuatorOf(m)
             v == m.active_operation_mode_id
  <2>1. active_modes' = Upsert(active_modes, k, v) /\ timers' = timers
    BY <1>2 DEF RecordMode
  <2> HIDE DEF k, v
  <2>2. /\ IsTable(active_modes')
        /\ \A e \in Range(active_modes') : e \in Range(active_modes) \/ e = Entry(k, v)
    BY <2>1, UpsertHolds DEF TablesHold
  <2>3. selected \in DOMAIN SystemDescriptions /\ Effective(selected) # Absent =>
          \E a \in Range(ActuatorsOf(selected)) : a.id = k /\ v \in Ids(a.operation_modes)
    BY <1>2, ModeIsDescribed DEF k, v
  <2>4. Entry(k, v).key = k /\ Entry(k, v).value = v
    BY DEF Entry
  <2> QED BY <1>1, <2>1, <2>2, <2>3, <2>4 DEF TablesHold, KnownIsDescribed
<1>3. CASE RecordTimer(m)
  <2> DEFINE k == TimerKey(ActuatorOf(m), m.timer_id)
             v == m.finished_at
  <2>1. timers' = Upsert(timers, k, v) /\ active_modes' = active_modes
    BY <1>3 DEF RecordTimer
  <2>2. k[1] = ActuatorOf(m) /\ k[2] = m.timer_id
    BY DEF TimerKey
  <2> HIDE DEF k, v
  <2>3. /\ IsTable(timers')
        /\ \A e \in Range(timers') : e \in Range(timers) \/ e = Entry(k, v)
    BY <2>1, UpsertHolds DEF TablesHold
  <2>4. selected \in DOMAIN SystemDescriptions /\ Effective(selected) # Absent =>
          \E a \in Range(ActuatorsOf(selected)) : a.id = k[1] /\ k[2] \in Ids(a.timers)
    BY <1>3, <2>2, TimerIsDescribed
  <2>5. Entry(k, v).key = k
    BY DEF Entry
  <2> QED BY <1>1, <2>1, <2>3, <2>4, <2>5 DEF TablesHold, KnownIsDescribed
<1> QED BY <1>2, <1>3 DEF ReportsOn

LEMMA AlwaysKnown == Spec => [](TablesHold /\ KnownIsDescribed)
<1>1. Init => TablesHold /\ KnownIsDescribed
  BY EmptyIsTable DEF Init, TablesHold, KnownIsDescribed
<1>2. InForceUsable /\ TablesHold /\ KnownIsDescribed /\ [Next]_vars => TablesHold' /\ KnownIsDescribed'
  BY EveryStep, ForgetKeeps, ReportKeeps
<1> QED BY <1>1, <1>2, AlwaysUsable, PTL DEF Spec

\* While a description is in force, every mode and every timer the engine knows
\* (Registry::active_modes and timers) was declared by it, however descriptions
\* are replaced, fall due and are revoked and whatever the reports said before.
THEOREM KnownWasDescribed == Spec => []KnownIsDescribed
BY AlwaysKnown, PTL
-----------------------------------------------------------------------------
(* An instruction is blocked as its explanation says. *)

LEMMA EveryInstructionKind ==
  ASSUME NEW kind, IsInstruction(kind)
  PROVE  kind \in {"FrbcInstruction", "OmbcInstruction", "DdbcInstruction", "PebcInstruction",
                   "PpbcScheduleInstruction", "PpbcStartInterruptionInstruction",
                   "PpbcEndInterruptionInstruction"}
BY DEF IsInstruction, Instructions, ControlTypes

\* The report on an instruction is the one on its envelope and its own.
LEMMA ReportOnInstruction ==
  ASSUME NEW ctx, NEW m
  PROVE  /\ m.kind = "FrbcInstruction" =>
              Judge(ctx, m) = CheckEnvelope(ctx, m.kind, m.message_id) \cup CheckFrbcInstruction(ctx, m)
         /\ m.kind = "OmbcInstruction" =>
              Judge(ctx, m) = CheckEnvelope(ctx, m.kind, m.message_id) \cup CheckOmbcInstruction(ctx, m)
         /\ m.kind = "DdbcInstruction" =>
              Judge(ctx, m) = CheckEnvelope(ctx, m.kind, m.message_id) \cup CheckDdbcInstruction(ctx, m)
         /\ m.kind = "PebcInstruction" =>
              Judge(ctx, m) = CheckEnvelope(ctx, m.kind, m.message_id) \cup CheckPebcInstruction(ctx, m)
         /\ m.kind = "PpbcScheduleInstruction" =>
              Judge(ctx, m) = CheckEnvelope(ctx, m.kind, m.message_id) \cup CheckPpbcInstruction(ctx, m, FALSE)
         /\ m.kind \in {"PpbcStartInterruptionInstruction", "PpbcEndInterruptionInstruction"} =>
              Judge(ctx, m) = CheckEnvelope(ctx, m.kind, m.message_id) \cup CheckPpbcInstruction(ctx, m, TRUE)
BY DEF Judge, BelongsTo, DescriptionsAndStatuses, Instructions, CheckFrbc, CheckOmbc, CheckDdbc, CheckPower,
       CheckPpbcScheduleInstruction, CheckPpbcStartInterruptionInstruction, CheckPpbcEndInterruptionInstruction

LEMMA ErrorsAreNamed ==
  /\ \A error \in ResolveErrors \cup ScheduleProblems : error # Absent
  /\ {"NotDescribed", "UnknownActuator", "UnknownOperationMode", "BadFactor", "FillLevelNotCovered",
      "UnknownSequence"} \subseteq ResolveErrors
  /\ {"WrongContainer", "UnknownSequence", "NotSchedulable", "WrongCount", "TooEarly",
      "PauseTooLong", "Overruns"} \subseteq ScheduleProblems
BY DeviceModelAssumption DEF ResolveErrors, ScheduleProblems

LEMMA ExplainedModeIs ==
  ASSUME NEW r, NEW m, NEW ctx, NEW actuator, NEW transitions
  PROVE  LET e == ExplainMode(r, m, ctx, actuator, transitions)
             active == ActiveMode(ctx, actuator)
         IN  /\ e.unresolved = r.error
             /\ r.error = Absent =>
                  /\ e.rate = r.rate
                  /\ e.blocked_by = IF active \in {Absent, m.operation_mode} \/ ctx.now = Absent THEN {}
                                    ELSE BlockingTimers(ctx, transitions, active, m.operation_mode,
                                                        actuator)
BY DEF ExplainMode, NoteTransition, Unexplained

\* A timer runs when some entry says so: there is one entry for it.
LEMMA RunsIs ==
  ASSUME NEW ctx, IsTable(ctx.timers), NEW actuator, NEW timer
  PROVE  Runs(ctx, actuator, timer) <=>
           \E i \in DOMAIN ctx.timers :
             ctx.timers[i].key = <<actuator, timer>> /\ ctx.timers[i].value > ctx.now
<1> DEFINE key == <<actuator, timer>>
<1>1. TimerKey(actuator, timer) = key
  BY DEF TimerKey
<1> HIDE DEF key
<1>2. CASE Has(ctx.timers, key)
  <2>1. /\ Place(ctx.timers, key) \in DOMAIN ctx.timers
        /\ ctx.timers[Place(ctx.timers, key)].key = key
    BY <1>2, PlaceFinds
  <2>2. \A i \in DOMAIN ctx.timers : ctx.timers[i].key = key => i = Place(ctx.timers, key)
    BY <2>1 DEF IsTable
  <2>3. Runs(ctx, actuator, timer) <=> ctx.timers[Place(ctx.timers, key)].value > ctx.now
    BY <1>1, <1>2 DEF Runs, Get
  <2>4. \A i \in DOMAIN ctx.timers :
          ctx.timers[i].key = key /\ ctx.timers[i].value > ctx.now => Runs(ctx, actuator, timer)
    BY <2>2, <2>3
  <2>5. Runs(ctx, actuator, timer) =>
          \E i \in DOMAIN ctx.timers : ctx.timers[i].key = key /\ ctx.timers[i].value > ctx.now
    BY <2>1, <2>3
  <2> QED BY <2>4, <2>5 DEF key
<1>3. CASE ~Has(ctx.timers, key)
  BY <1>1, <1>3 DEF Runs, Has, Keys, key
<1> QED BY <1>2, <1>3

\* The check of a move and the explanation of it look at the same timers.
LEMMA BlockedAlike ==
  ASSUME NEW ctx, IsTable(ctx.timers), ctx.now # Absent, NEW actuator, NEW mode, NEW abnormal,
         NEW transitions
  PROVE  LET active == ActiveMode(ctx, actuator)
             blocked == IF active \in {Absent, mode.id} \/ ctx.now = Absent THEN {}
                        ELSE BlockingTimers(ctx, transitions, active, mode.id, actuator)
         IN  "BLOCKED_BY_TIMER" \in CheckInstructionContext(ctx, actuator, mode, abnormal, transitions)
               <=> blocked # {}
<1> DEFINE active == ActiveMode(ctx, actuator)
           move == Move(transitions, active, mode.id)
<1> HIDE DEF active, move
<1>1. \A timer : Runs(ctx, actuator, timer) <=>
        \E i \in DOMAIN ctx.timers :
          ctx.timers[i].key = <<actuator, timer>> /\ ctx.timers[i].value > ctx.now
  BY RunsIs
<1>2. BlockingTimers(ctx, transitions, active, mode.id, actuator) =
        IF move = Absent THEN {} ELSE {id \in Range(move.blocking_timers) : Runs(ctx, actuator, id)}
  BY <1>1 DEF BlockingTimers, move
<1>3. "BLOCKED_BY_TIMER" \in CheckInstructionContext(ctx, actuator, mode, abnormal, transitions) <=>
        /\ active \notin {Absent, mode.id} /\ move # Absent
        /\ \E timer \in Range(move.blocking_timers) : Runs(ctx, actuator, timer)
  BY DEF CheckInstructionContext, CheckMove, When, active, move
<1> QED BY <1>2, <1>3 DEF active

\* Nothing else reports a timer.
LEMMA OthersDoNotBlock ==
  ASSUME NEW ctx, NEW m
  PROVE  /\ "BLOCKED_BY_TIMER" \notin CheckEnvelope(ctx, m.kind, m.message_id)
         /\ "BLOCKED_BY_TIMER" \notin CheckInstruction(ctx, m)
         /\ "BLOCKED_BY_TIMER" \notin CheckPebcInstruction(ctx, m)
         /\ \A interrupts : "BLOCKED_BY_TIMER" \notin CheckPpbcInstruction(ctx, m, interrupts)
<1>1. "BLOCKED_BY_TIMER" \notin CheckEnvelope(ctx, m.kind, m.message_id)
  BY DEF CheckEnvelope, When
<1>2. "BLOCKED_BY_TIMER" \notin CheckInstruction(ctx, m)
  BY DEF CheckInstruction, CheckFactor, CheckFinite, CheckScheduled, CheckDuplicateInstruction, When
<1>3. "BLOCKED_BY_TIMER" \notin CheckPebcInstruction(ctx, m)
  <2>1. \A s, a, b : "BLOCKED_BY_TIMER" \notin CheckArray(s, a, b)
    BY DEF CheckArray, When
  <2>2. \A e : "BLOCKED_BY_TIMER" \notin CheckLimits(e)
    BY <2>1 DEF CheckLimits, Over, CheckFinite, When
  <2>3. \A c, e, abnormal : "BLOCKED_BY_TIMER" \notin CheckEnvelopeIn(c, e, abnormal)
    BY DEF CheckEnvelopeIn, Over, CheckWithinAllowed
  <2>4. "BLOCKED_BY_TIMER" \notin Over(m.power_envelopes, CheckLimits)
    BY <2>2 DEF Over
  <2> DEFINE c == Get(ctx.pebc_constraints, m.power_constraints_id)
             within == Over(m.power_envelopes, LAMBDA e : CheckEnvelopeIn(c, e, m.abnormal_condition))
             limits == Over(m.power_envelopes, CheckLimits)
  <2>5. "BLOCKED_BY_TIMER" \notin within /\ "BLOCKED_BY_TIMER" \notin limits
    <3>1. "BLOCKED_BY_TIMER" \notin within
      BY <2>3 DEF Over
    <3>2. "BLOCKED_BY_TIMER" \notin limits
      BY <2>4
    <3> QED BY <3>1, <3>2
  <2>6. CheckPebcInstruction(ctx, m) =
          CheckArray(m.power_envelopes, 1, 10) \cup CheckScheduled(ctx, m.execution_time)
            \cup CheckDuplicateInstruction(ctx, m.id)
            \cup When(~IsInjective(QuantitiesIn(m.power_envelopes)), "PEBC_ONE_ENVELOPE_PER_QUANTITY")
            \cup limits
            \cup (IF ~Has(ctx.pebc_constraints, m.power_constraints_id)
                  THEN When(ctx.pebc_constraints # <<>>, "PEBC_UNKNOWN_CONSTRAINTS")
                  ELSE When(ctx.now # Absent /\ ~IsValidAt(c, ctx.now), "PEBC_UNKNOWN_CONSTRAINTS")
                         \cup within)
    BY DEF CheckPebcInstruction
  <2> HIDE DEF within, limits
  <2> QED BY <2>1, <2>5, <2>6 DEF CheckScheduled, CheckDuplicateInstruction, When
<1>4. \A interrupts : "BLOCKED_BY_TIMER" \notin CheckPpbcInstruction(ctx, m, interrupts)
  BY DEF CheckPpbcInstruction, CheckScheduled, CheckDuplicateInstruction, When
<1> QED BY <1>1, <1>2, <1>3, <1>4

\* A description of another control type is not in force.
LEMMA OnlyOwnDescription ==
  ASSUME InForceUsable, NEW ct \in ControlTypes, ct # selected
  PROVE  Effective(ct) = Absent
BY EffectiveIs

LEMMA ClockIsKnown == InForceUsable => now \in Nat /\ now # Absent
BY ValuesAssumption DEF InForceUsable, RP!Typed

\* What blocks, and what is explained, of one instruction.
LEMMA InstructionBlockedAlike ==
  ASSUME InForceUsable, TablesHold, NEW m, IsInstruction(m.kind), ExplanationOf(m).unresolved = Absent
  PROVE  /\ "BLOCKED_BY_TIMER" \in ReportOn(m) <=> ExplanationOf(m).blocked_by # {}
         /\ \A id \in ExplanationOf(m).blocked_by :
              \E entry \in Range(timers) :
                /\ entry.value > now
                /\ entry.key = <<IF selected = "OMBC" THEN Nil ELSE m.actuator_id, id>>
<1> DEFINE ctx == Context("CEM")
<1>1. /\ ctx.frbc = Effective("FRBC") /\ ctx.ombc = Effective("OMBC") /\ ctx.ddbc = Effective("DDBC")
      /\ ctx.timers = timers /\ ctx.now = now /\ IsTable(ctx.timers) /\ ctx.now # Absent
  BY ContextIs, ClockIsKnown DEF TablesHold
<1>2. /\ "FRBC" \in ControlTypes /\ "OMBC" \in ControlTypes /\ "DDBC" \in ControlTypes
  BY DEF ControlTypes
<1>3. ExplanationOf(m) = Explain(ctx, m) /\ ReportOn(m) = Judge(ctx, m)
  BY DEF ExplanationOf, ReportOn
<1> HIDE DEF ctx
<1>4. \A actuator, transitions, active, to :
        \A id \in BlockingTimers(ctx, transitions, active, to, actuator) :
          \E entry \in Range(timers) : entry.value > now /\ entry.key = <<actuator, id>>
  BY <1>1 DEF BlockingTimers, Range
<1>5. Unexplained.unresolved = Absent /\ Unexplained.blocked_by = {}
  BY DEF Unexplained
<1>6. CASE m.kind = "FrbcInstruction"
  <2>1. Explain(ctx, m) = ExplainFrbc(ctx, m)
    BY <1>6 DEF Explain, Instructions
  <2>2. ctx.frbc # Absent
    BY <1>3, <2>1, ErrorsAreNamed DEF ExplainFrbc, Unexplained
  <2>3. selected = "FRBC"
    BY <1>1, <1>2, <2>2, OnlyOwnDescription
  <2>4. IsList(ctx.frbc.actuators)
    BY <1>1, <1>2, <2>2, EffectiveIs DEF SystemDescriptions, Decoded, DecodedFrbc
  <2> DEFINE a == ById(ctx.frbc.actuators, m.actuator_id)
             mode == ById(a.operation_modes, m.operation_mode)
             r == ResolveFrbc(ctx.frbc, m, ctx.fill_level)
             e == ExplainMode(r, m, ctx, m.actuator_id, a.transitions)
  <2>5. Explain(ctx, m) = e
    BY <2>1, <2>2 DEF ExplainFrbc
  <2>6. r.error = Absent
    BY <1>3, <2>5, ExplainedModeIs
  <2>7. a # Absent /\ mode # Absent
    BY <2>6, ErrorsAreNamed DEF ResolveFrbc, Unresolved
  <2>8. a \in Range(ctx.frbc.actuators) /\ a.id = m.actuator_id
    BY <2>4, <2>7, ByIdFinds
  <2>9. IsList(a.operation_modes)
    BY <1>1, <1>2, <2>2, <2>8, EffectiveIs DEF SystemDescriptions, Decoded, DecodedFrbc
  <2>10. mode.id = m.operation_mode
    BY <2>7, <2>9, ByIdFinds
  <2>11. CheckFrbcInstruction(ctx, m) =
           CheckInstruction(ctx, m)
             \cup CheckInstructionContext(ctx, a.id, mode, m.abnormal_condition, a.transitions)
    BY <2>2, <2>7 DEF CheckFrbcInstruction
  <2>12. e.blocked_by =
           IF ActiveMode(ctx, m.actuator_id) \in {Absent, m.operation_mode} \/ ctx.now = Absent THEN {}
           ELSE BlockingTimers(ctx, a.transitions, ActiveMode(ctx, m.actuator_id), m.operation_mode,
                               m.actuator_id)
    BY <2>6, ExplainedModeIs
  <2> HIDE DEF a, mode, r, e
  <2>13. "BLOCKED_BY_TIMER" \in CheckInstructionContext(ctx, a.id, mode, m.abnormal_condition, a.transitions)
           <=> e.blocked_by # {}
    BY <1>1, <2>8, <2>10, <2>12, BlockedAlike
  <2>14. "BLOCKED_BY_TIMER" \in Judge(ctx, m) <=> e.blocked_by # {}
    <3>1. Judge(ctx, m) = CheckEnvelope(ctx, m.kind, m.message_id) \cup CheckFrbcInstruction(ctx, m)
      BY <1>6, ReportOnInstruction
    <3> QED BY <2>11, <2>13, <3>1, OthersDoNotBlock
  <2>15. \A id \in e.blocked_by :
           \E entry \in Range(timers) : entry.value > now /\ entry.key = <<m.actuator_id, id>>
    BY <1>4, <2>12
  <2> QED BY <1>3, <2>3, <2>5, <2>14, <2>15
<1>7. CASE m.kind = "DdbcInstruction"
  <2>1. Explain(ctx, m) = ExplainDdbc(ctx, m)
    BY <1>7 DEF Explain, Instructions
  <2>2. ctx.ddbc # Absent
    BY <1>3, <2>1, ErrorsAreNamed DEF ExplainDdbc, Unexplained
  <2>3. selected = "DDBC"
    BY <1>1, <1>2, <2>2, OnlyOwnDescription
  <2>4. IsList(ctx.ddbc.actuators)
    BY <1>1, <1>2, <2>2, EffectiveIs DEF SystemDescriptions, Decoded, DecodedDdbc
  <2> DEFINE a == ById(ctx.ddbc.actuators, m.actuator_id)
             mode == ById(a.operation_modes, m.operation_mode)
             r == ResolveDdbc(ctx.ddbc, m)
             e == ExplainMode(r, m, ctx, m.actuator_id, a.transitions)
  <2>5. Explain(ctx, m) = e
    BY <2>1, <2>2 DEF ExplainDdbc
  <2>6. r.error = Absent
    BY <1>3, <2>5, ExplainedModeIs
  <2>7. a # Absent /\ mode # Absent
    BY <2>6, ErrorsAreNamed DEF ResolveDdbc, Unresolved
  <2>8. a \in Range(ctx.ddbc.actuators) /\ a.id = m.actuator_id
    BY <2>4, <2>7, ByIdFinds
  <2>9. IsList(a.operation_modes)
    BY <1>1, <1>2, <2>2, <2>8, EffectiveIs DEF SystemDescriptions, Decoded, DecodedDdbc
  <2>10. mode.id = m.operation_mode
    BY <2>7, <2>9, ByIdFinds
  <2>11. CheckDdbcInstruction(ctx, m) =
           CheckInstruction(ctx, m)
             \cup CheckInstructionContext(ctx, a.id, mode, m.abnormal_condition, a.transitions)
    BY <2>2, <2>7 DEF CheckDdbcInstruction
  <2>12. e.blocked_by =
           IF ActiveMode(ctx, m.actuator_id) \in {Absent, m.operation_mode} \/ ctx.now = Absent THEN {}
           ELSE BlockingTimers(ctx, a.transitions, ActiveMode(ctx, m.actuator_id), m.operation_mode,
                               m.actuator_id)
    BY <2>6, ExplainedModeIs
  <2> HIDE DEF a, mode, r, e
  <2>13. "BLOCKED_BY_TIMER" \in CheckInstructionContext(ctx, a.id, mode, m.abnormal_condition, a.transitions)
           <=> e.blocked_by # {}
    BY <1>1, <2>8, <2>10, <2>12, BlockedAlike
  <2>14. "BLOCKED_BY_TIMER" \in Judge(ctx, m) <=> e.blocked_by # {}
    <3>1. Judge(ctx, m) = CheckEnvelope(ctx, m.kind, m.message_id) \cup CheckDdbcInstruction(ctx, m)
      BY <1>7, ReportOnInstruction
    <3> QED BY <2>11, <2>13, <3>1, OthersDoNotBlock
  <2>15. \A id \in e.blocked_by :
           \E entry \in Range(timers) : entry.value > now /\ entry.key = <<m.actuator_id, id>>
    BY <1>4, <2>12
  <2> QED BY <1>3, <2>3, <2>5, <2>14, <2>15
<1>8. CASE m.kind = "OmbcInstruction"
  <2>1. Explain(ctx, m) = ExplainOmbc(ctx, m)
    BY <1>8 DEF Explain, Instructions
  <2>2. ctx.ombc # Absent
    BY <1>3, <2>1, ErrorsAreNamed DEF ExplainOmbc, Unexplained
  <2>3. selected = "OMBC"
    BY <1>1, <1>2, <2>2, OnlyOwnDescription
  <2>4. IsList(ctx.ombc.operation_modes)
    BY <1>1, <1>2, <2>2, EffectiveIs DEF SystemDescriptions, Decoded
  <2> DEFINE mode == ById(ctx.ombc.operation_modes, m.operation_mode)
             r == ResolveOmbc(ctx.ombc, m)
             e == ExplainMode(r, m, ctx, Nil, ctx.ombc.transitions)
  <2>5. Explain(ctx, m) = e
    BY <2>1, <2>2 DEF ExplainOmbc
  <2>6. r.error = Absent
    BY <1>3, <2>5, ExplainedModeIs
  <2>7. mode # Absent
    BY <2>6, ErrorsAreNamed DEF ResolveOmbc, Unresolved
  <2>8. mode.id = m.operation_mode
    BY <2>4, <2>7, ByIdFinds
  <2>9. CheckOmbcInstruction(ctx, m) =
          CheckInstruction(ctx, m)
            \cup CheckInstructionContext(ctx, Nil, mode, m.abnormal_condition, ctx.ombc.transitions)
    BY <2>2, <2>7 DEF CheckOmbcInstruction
  <2>10. e.blocked_by =
           IF ActiveMode(ctx, Nil) \in {Absent, m.operation_mode} \/ ctx.now = Absent THEN {}
           ELSE BlockingTimers(ctx, ctx.ombc.transitions, ActiveMode(ctx, Nil), m.operation_mode, Nil)
    BY <2>6, ExplainedModeIs
  <2> HIDE DEF mode, r, e
  <2>11. "BLOCKED_BY_TIMER" \in CheckInstructionContext(ctx, Nil, mode, m.abnormal_condition,
                                                        ctx.ombc.transitions)
           <=> e.blocked_by # {}
    BY <1>1, <2>8, <2>10, BlockedAlike
  <2>12. "BLOCKED_BY_TIMER" \in Judge(ctx, m) <=> e.blocked_by # {}
    <3>1. Judge(ctx, m) = CheckEnvelope(ctx, m.kind, m.message_id) \cup CheckOmbcInstruction(ctx, m)
      BY <1>8, ReportOnInstruction
    <3> QED BY <2>9, <2>11, <3>1, OthersDoNotBlock
  <2>13. \A id \in e.blocked_by :
           \E entry \in Range(timers) : entry.value > now /\ entry.key = <<Nil, id>>
    BY <1>4, <2>10
  <2> QED BY <1>3, <2>3, <2>5, <2>12, <2>13
<1>9. CASE m.kind = "PebcInstruction"
  <2>1. Explain(ctx, m).blocked_by = {}
    BY <1>9 DEF Explain, Unexplained, Instructions
  <2>2. "BLOCKED_BY_TIMER" \notin Judge(ctx, m)
    <3>1. Judge(ctx, m) = CheckEnvelope(ctx, m.kind, m.message_id) \cup CheckPebcInstruction(ctx, m)
      BY <1>9, ReportOnInstruction
    <3> QED BY <3>1, OthersDoNotBlock
  <2> QED BY <1>3, <2>1, <2>2
<1>10. CASE m.kind \in {"PpbcScheduleInstruction", "PpbcStartInterruptionInstruction",
                        "PpbcEndInterruptionInstruction"}
  <2>1. Explain(ctx, m).blocked_by = {}
    BY <1>10 DEF Explain, Unexplained, NoteSequence, Instructions
  <2>2. "BLOCKED_BY_TIMER" \notin Judge(ctx, m)
    <3>1. \E interrupts \in BOOLEAN :
            Judge(ctx, m) = CheckEnvelope(ctx, m.kind, m.message_id)
                              \cup CheckPpbcInstruction(ctx, m, interrupts)
      BY <1>10, ReportOnInstruction
    <3> QED BY <3>1, OthersDoNotBlock
  <2> QED BY <1>3, <2>1, <2>2
<1> QED BY <1>6, <1>7, <1>8, <1>9, <1>10, EveryInstructionKind

\* The validator (check_transition in validate/mod.rs) and the explanation
\* (blocking_timers in model/mod.rs) agree on what holds an instruction up, in
\* every state a session reaches.
THEOREM BlockedIsExplained == Spec => []BlockedAsExplained
<1>1. InForceUsable /\ TablesHold => BlockedAsExplained
  BY InstructionBlockedAlike DEF BlockedAsExplained, Instructible
<1> QED BY <1>1, AlwaysUsable, AlwaysKnown, PTL

-----------------------------------------------------------------------------
(* What is accepted resolves. *)

LEMMA MinOf ==
  ASSUME NEW S \in SUBSET Nat, S # {}
  PROVE  Min(S) \in S /\ \A x \in S : Min(S) <= x
<1>1. \E m \in S : \A x \in S : m <= x
  BY RegistryHolds, RP!LeastOf
<1> QED BY <1>1 DEF Min

\* The numbers of an element that was decoded and accepted.
LEMMA TiledAreIntegers ==
  ASSUME NEW elements, IsList(elements), \A e \in Range(elements) : DecodedFrbcElement(e),
         Tiled(elements)
  PROVE  /\ Len(elements) \in Nat \ {0} /\ DOMAIN elements = 1 .. Len(elements)
         /\ \A i \in DOMAIN elements :
              /\ elements[i].fill_level_range.start \in Int /\ elements[i].fill_level_range.end \in Int
              /\ elements[i].fill_rate.start \in Int /\ elements[i].fill_rate.end \in Int
              /\ elements[i].fill_level_range.start < elements[i].fill_level_range.end
<1>1. Len(elements) \in Nat /\ DOMAIN elements = 1 .. Len(elements) /\ elements # <<>>
  BY DEF IsList, Tiled
<1>2. Len(elements) # 0
  BY <1>1, EmptySeq DEF IsList
<1> SUFFICES ASSUME NEW i \in DOMAIN elements
             PROVE  /\ elements[i].fill_level_range.start \in Int /\ elements[i].fill_level_range.end \in Int
                    /\ elements[i].fill_rate.start \in Int /\ elements[i].fill_rate.end \in Int
                    /\ elements[i].fill_level_range.start < elements[i].fill_level_range.end
  BY <1>1, <1>2
<1>3. elements[i] \in Range(elements)
  BY DEF Range
<1> QED BY <1>3 DEF Tiled, DecodedFrbcElement, IsNumberRange, IsNumber, IsFiniteRange, IsFinite

\* No level between the first band and the last is without an element.
LEMMA TiledCovers ==
  ASSUME NEW mode, IsList(mode.elements),
         \A e \in Range(mode.elements) : DecodedFrbcElement(e),
         Tiled(mode.elements), NEW level \in Int,
         mode.elements[1].fill_level_range.start <= level,
         level <= Last(mode.elements).fill_level_range.end
  PROVE  ElementAt(mode, level) # Absent
<1> DEFINE s == mode.elements
           S == {i \in 1 .. Len(s) : level <= s[i].fill_level_range.end}
           I == {i \in 1 .. Len(s) : Within(s[i].fill_level_range, level)}
<1>1. /\ Len(s) \in Nat \ {0} /\ DOMAIN s = 1 .. Len(s)
      /\ \A i \in DOMAIN s :
           /\ s[i].fill_level_range.start \in Int /\ s[i].fill_level_range.end \in Int
           /\ s[i].fill_level_range.start < s[i].fill_level_range.end
  BY TiledAreIntegers
<1>2. \A i \in 1 .. Len(s) - 1 : s[i].fill_level_range.end = s[i + 1].fill_level_range.start
  BY DEF Tiled
<1>3. level <= s[Len(s)].fill_level_range.end /\ s[1].fill_level_range.start <= level
  BY DEF Last
<1>4. Absent \notin Range(s)
  BY DEF IsList
<1>5. ElementAt(mode, level) = IF I # {} THEN s[Min(I)] ELSE Absent
  <2>1. I # {} => Min(I) # 0
    <3>1. I \in SUBSET Nat /\ 0 \notin I
      BY <1>1
    <3> HIDE DEF I
    <3> QED BY <3>1, MinOf
  <2> QED BY <2>1 DEF ElementAt, First, SelectInSeq
<1> HIDE DEF s
<1>6. Len(s) \in S /\ S \in SUBSET Nat
  BY <1>1, <1>3
<1> DEFINE i == Min(S)
<1> HIDE DEF S
<1>7. i \in S /\ \A x \in S : i <= x
  BY <1>6, MinOf
<1>8. i \in 1 .. Len(s) /\ level <= s[i].fill_level_range.end
  BY <1>7 DEF S
<1> HIDE DEF i
<1>9. s[i].fill_level_range.start <= level
  <2>1. CASE i = 1
    BY <1>3, <2>1
  <2>2. CASE i # 1
    <3>1. i - 1 \in 1 .. Len(s) - 1 /\ i - 1 \in DOMAIN s /\ ~(i <= i - 1)
      BY <1>1, <1>8, <2>2
    <3>2. ~(level <= s[i - 1].fill_level_range.end)
      BY <1>1, <1>7, <3>1 DEF S
    <3>3. s[i - 1].fill_level_range.end = s[i].fill_level_range.start
      <4>1. (i - 1) + 1 = i
        BY <1>8
      <4> QED BY <1>2, <3>1, <4>1
    <3> QED BY <1>1, <3>1, <3>2, <3>3
  <2> QED BY <2>1, <2>2
<1>10. Within(s[i].fill_level_range, level)
  <2> DEFINE r == s[i].fill_level_range
  <2>1. r.start <= level /\ level <= r.end /\ r.start < r.end /\ r.start \in Int /\ r.end \in Int
    BY <1>1, <1>8, <1>9
  <2> HIDE DEF r
  <2>2. Ordered(r) = NumberRange(r.start, r.end)
    BY <2>1 DEF Ordered
  <2>3. Within(r, level)
    BY <2>1, <2>2, ValuesAssumption DEF Within, IsFinite, NumberRange
  <2> QED BY <2>3 DEF r
<1>11. I # {} /\ I \in SUBSET Nat
  BY <1>1, <1>8, <1>10
<1> HIDE DEF I
<1>12. Min(I) \in I
  BY <1>11, MinOf
<1>13. s[Min(I)] \in Range(s)
  BY <1>1, <1>12 DEF I, Range
<1> QED BY <1>4, <1>5, <1>11, <1>13

\* Whether an accepted fill level is an integer.
FillLevelHolds == fill_level \in Int \cup {Absent}

LEMMA FillLevelStays ==
  ASSUME InForceUsable, FillLevelHolds, [Next]_vars
  PROVE  FillLevelHolds'
<1>1. ASSUME NEW m \in Crossing, RecordFillLevel(m)
      PROVE  FillLevelHolds'
  <2>1. Decoded(m) /\ m.kind = "FrbcStorageStatus" /\ fill_level' = m.present_fill_level
    BY <1>1, JudgingAssumption DEF Crossing, InForceUsable, RecordFillLevel
  <2>2. PICK sender \in Senders(m.kind) : Judge(Context(sender), m) \subseteq Warnings
    BY <1>1, AcceptableMeans DEF RecordFillLevel
  <2>3. CheckFrbcStorageStatus(Context(sender), m) \subseteq Warnings
    BY <2>1, <2>2, JudgesOwn
  <2>4. IsFinite(m.present_fill_level)
    BY <2>3 DEF CheckFrbcStorageStatus, CheckFinite, When, Warnings
  <2> QED BY <2>1, <2>4 DEF Decoded, IsNumber, IsFinite, FillLevelHolds
<1>2. CASE UNCHANGED fill_level
  BY <1>2 DEF FillLevelHolds
<1>3. CASE UNCHANGED vars
  BY <1>2, <1>3 DEF vars
<1>4. CASE ActivateDue \/ Tick
  BY <1>2, <1>4 DEF ActivateDue, Tick
<1>5. ASSUME NEW m \in Crossing,
             \/ RecordDescription(m) \/ RecordMode(m) \/ RecordTimer(m)
             \/ RecordDetails(m) \/ RecordConstraints(m) \/ RecordEnergy(m) \/ RecordProfile(m)
             \/ RecordInstruction(m) \/ RecordUpdate(m)
             \/ RevokeDescription(m) \/ RevokePublication(m) \/ RevokeInstruction(m)
      PROVE  UNCHANGED fill_level
  BY <1>5 DEF RecordDescription, RecordMode, RecordTimer, RecordDetails, RecordConstraints, RecordEnergy,
              RecordProfile, RecordInstruction, RecordUpdate, RevokeDescription, RevokePublication,
              RevokeInstruction
<1> QED BY <1>1, <1>2, <1>3, <1>4, <1>5 DEF Next

LEMMA AlwaysFilled == Spec => []FillLevelHolds
<1>1. Init => FillLevelHolds
  BY DEF Init, FillLevelHolds
<1>2. InForceUsable /\ FillLevelHolds /\ [Next]_vars => FillLevelHolds'
  BY FillLevelStays
<1> QED BY <1>1, <1>2, AlwaysUsable, PTL DEF Spec

\* What an instruction without errors, for a description in force, names.
LEMMA CleanInstruction ==
  ASSUME NEW ctx, NEW m, Judge(ctx, m) \subseteq Warnings
  PROVE  /\ m.kind = "FrbcInstruction" /\ ctx.frbc # Absent =>
              /\ ById(ctx.frbc.actuators, m.actuator_id) # Absent
              /\ ById(ById(ctx.frbc.actuators, m.actuator_id).operation_modes, m.operation_mode) # Absent
         /\ m.kind = "DdbcInstruction" /\ ctx.ddbc # Absent =>
              /\ ById(ctx.ddbc.actuators, m.actuator_id) # Absent
              /\ ById(ById(ctx.ddbc.actuators, m.actuator_id).operation_modes, m.operation_mode) # Absent
         /\ m.kind = "OmbcInstruction" /\ ctx.ombc # Absent =>
              ById(ctx.ombc.operation_modes, m.operation_mode) # Absent
         /\ m.kind \in {"FrbcInstruction", "DdbcInstruction", "OmbcInstruction"} =>
              IsFactor(m.operation_mode_factor)
<1>1. ASSUME m.kind = "FrbcInstruction"
      PROVE  CheckFrbcInstruction(ctx, m) \subseteq Warnings
  BY <1>1, JudgesOwn
<1>2. ASSUME m.kind = "DdbcInstruction"
      PROVE  CheckDdbcInstruction(ctx, m) \subseteq Warnings
  BY <1>2, JudgesOwn
<1>3. ASSUME m.kind = "OmbcInstruction"
      PROVE  CheckOmbcInstruction(ctx, m) \subseteq Warnings
  BY <1>3, JudgesOwn
<1>4. ASSUME m.kind = "FrbcInstruction", ctx.frbc # Absent
      PROVE  /\ ById(ctx.frbc.actuators, m.actuator_id) # Absent
             /\ ById(ById(ctx.frbc.actuators, m.actuator_id).operation_modes, m.operation_mode) # Absent
  <2> DEFINE a == ById(ctx.frbc.actuators, m.actuator_id)
             mode == ById(a.operation_modes, m.operation_mode)
  <2>1. /\ a = Absent => "FRBC_UNKNOWN_ACTUATOR" \in CheckFrbcInstruction(ctx, m)
        /\ a # Absent /\ mode = Absent => "FRBC_UNKNOWN_MODE" \in CheckFrbcInstruction(ctx, m)
    BY <1>4 DEF CheckFrbcInstruction
  <2> QED BY <1>1, <1>4, <2>1 DEF Warnings
<1>5. ASSUME m.kind = "DdbcInstruction", ctx.ddbc # Absent
      PROVE  /\ ById(ctx.ddbc.actuators, m.actuator_id) # Absent
             /\ ById(ById(ctx.ddbc.actuators, m.actuator_id).operation_modes, m.operation_mode) # Absent
  <2> DEFINE a == ById(ctx.ddbc.actuators, m.actuator_id)
             mode == ById(a.operation_modes, m.operation_mode)
  <2>1. /\ a = Absent => "DDBC_UNKNOWN_ACTUATOR" \in CheckDdbcInstruction(ctx, m)
        /\ a # Absent /\ mode = Absent => "DDBC_UNKNOWN_MODE" \in CheckDdbcInstruction(ctx, m)
    BY <1>5 DEF CheckDdbcInstruction
  <2> QED BY <1>2, <1>5, <2>1 DEF Warnings
<1>6. ASSUME m.kind = "OmbcInstruction", ctx.ombc # Absent
      PROVE  ById(ctx.ombc.operation_modes, m.operation_mode) # Absent
  <2>1. ById(ctx.ombc.operation_modes, m.operation_mode) = Absent =>
          "OMBC_UNKNOWN_MODE" \in CheckOmbcInstruction(ctx, m)
    BY <1>6 DEF CheckOmbcInstruction
  <2> QED BY <1>3, <1>6, <2>1 DEF Warnings
<1>7. ASSUME m.kind \in {"FrbcInstruction", "DdbcInstruction", "OmbcInstruction"}
      PROVE  IsFactor(m.operation_mode_factor)
  <2>1. /\ CheckInstruction(ctx, m) \subseteq CheckFrbcInstruction(ctx, m)
        /\ CheckInstruction(ctx, m) \subseteq CheckDdbcInstruction(ctx, m)
        /\ CheckInstruction(ctx, m) \subseteq CheckOmbcInstruction(ctx, m)
    BY DEF CheckFrbcInstruction, CheckDdbcInstruction, CheckOmbcInstruction
  <2>2. CheckInstruction(ctx, m) \subseteq Warnings
    BY <1>1, <1>2, <1>3, <1>7, <2>1
  <2>3. CheckFactor(m.operation_mode_factor) \subseteq Warnings
    BY <2>2 DEF CheckInstruction
  <2> QED BY <2>3 DEF CheckFactor, CheckFinite, When, Warnings, IsFactor
<1> QED BY <1>4, <1>5, <1>6, <1>7

\* An accepted instruction of a mode is one of the active control type.
LEMMA AcceptedInPlace ==
  ASSUME InForceUsable, NEW m, Accepts(m), NEW ct \in ControlTypes, BelongsTo(m.kind, ct)
  PROVE  selected = ct
<1>1. Judge(Context("CEM"), m) \subseteq Warnings /\ "CEM" \in Roles
  BY CleanReports DEF Accepts, ReportOn, Roles
<1> QED BY <1>1, InPlace DEF InForceUsable

LEMMA InstructionResolves ==
  ASSUME InForceUsable, FillLevelHolds, NEW m, IsInstruction(m.kind),
         selected \in DOMAIN SystemDescriptions
  PROVE  LET error == ExplanationOf(m).unresolved IN
           /\ Effective(selected) # Absent /\ Accepts(m) =>
                \/ error = Absent
                \/ /\ error = "FillLevelNotCovered"
                   /\ LET mode == ById(ById(Effective("FRBC").actuators, m.actuator_id).operation_modes,
                                       m.operation_mode)
                      IN  fill_level < mode.elements[1].fill_level_range.start
                            \/ fill_level > Last(mode.elements).fill_level_range.end
           /\ error \in {"UnknownActuator", "UnknownOperationMode", "BadFactor"} => ~Accepts(m)
<1> DEFINE ctx == Context("CEM")
           error == ExplanationOf(m).unresolved
<1>1. /\ ctx.frbc = Effective("FRBC") /\ ctx.ombc = Effective("OMBC") /\ ctx.ddbc = Effective("DDBC")
      /\ ctx.fill_level = fill_level
  BY ContextIs
<1>2. /\ "FRBC" \in ControlTypes /\ "OMBC" \in ControlTypes /\ "DDBC" \in ControlTypes
      /\ "PEBC" \in ControlTypes /\ "PPBC" \in ControlTypes
  BY DEF ControlTypes
<1>3. ExplanationOf(m) = Explain(ctx, m)
  BY DEF ExplanationOf
<1>4. Accepts(m) => Judge(ctx, m) \subseteq Warnings
  BY CleanReports DEF Accepts, ReportOn
<1> HIDE DEF ctx
<1>5. Unexplained.unresolved = Absent
  BY DEF Unexplained
<1>6. Absent \notin {"NotDescribed", "UnknownActuator", "UnknownOperationMode", "BadFactor",
                     "FillLevelNotCovered"}
  BY ErrorsAreNamed
<1>7. CASE m.kind = "FrbcInstruction"
  <2>1. Explain(ctx, m) = ExplainFrbc(ctx, m) /\ BelongsTo(m.kind, "FRBC")
    BY <1>7 DEF Explain, Instructions, BelongsTo
  <2>2. CASE ctx.frbc = Absent
    <3>1. error = "NotDescribed"
      BY <1>3, <2>1, <2>2 DEF ExplainFrbc, Unexplained
    <3>2. Accepts(m) => selected = "FRBC"
      BY <1>2, <2>1, AcceptedInPlace
    <3> QED BY <1>1, <2>2, <3>1, <3>2
  <2>3. CASE ctx.frbc # Absent
    <3> DEFINE a == ById(ctx.frbc.actuators, m.actuator_id)
               mode == ById(a.operation_modes, m.operation_mode)
               r == ResolveFrbc(ctx.frbc, m, ctx.fill_level)
    <3>1. error = r.error
      BY <1>3, <2>1, <2>3, ExplainedModeIs DEF ExplainFrbc
    <3>2. Accepts(m) => a # Absent /\ mode # Absent /\ IsFactor(m.operation_mode_factor)
      BY <1>4, <1>7, <2>3, CleanInstruction
    <3>3. Accepts(m) => r.error = Absent \/ (r.error = "FillLevelNotCovered" /\ ctx.fill_level # Absent
                                               /\ ElementAt(mode, ctx.fill_level) = Absent)
      BY <3>2 DEF ResolveFrbc, Unresolved, Resolved
    <3>4. ASSUME Accepts(m), ctx.fill_level # Absent, ElementAt(mode, ctx.fill_level) = Absent
          PROVE  fill_level < mode.elements[1].fill_level_range.start
                   \/ fill_level > Last(mode.elements).fill_level_range.end
      <4>1. Decoded(ctx.frbc) /\ Vetted(ctx.frbc) /\ ctx.frbc.kind = "FrbcSystemDescription"
        BY <1>1, <1>2, <2>3, EffectiveIs DEF SystemDescriptions
      <4>2. DecodedFrbc(ctx.frbc)
        BY <4>1 DEF Decoded
      <4>3. a \in Range(ctx.frbc.actuators) /\ IsList(a.operation_modes)
        BY <3>2, <3>4, <4>2, ByIdFinds DEF DecodedFrbc
      <4>4. mode \in Range(a.operation_modes)
        BY <3>2, <3>4, <4>3, ByIdFinds
      <4>5. /\ IsList(mode.elements) /\ \A e \in Range(mode.elements) : DecodedFrbcElement(e)
            /\ Tiled(mode.elements)
        BY <4>1, <4>2, <4>3, <4>4 DEF DecodedFrbc, Vetted
      <4> HIDE DEF mode
      <4>6. fill_level \in Int
        BY <1>1, <3>4 DEF FillLevelHolds
      <4>7. ~(mode.elements[1].fill_level_range.start <= fill_level
                /\ fill_level <= Last(mode.elements).fill_level_range.end)
        BY <1>1, <3>4, <4>5, <4>6, TiledCovers
      <4>8. /\ mode.elements[1].fill_level_range.start \in Int
            /\ Last(mode.elements).fill_level_range.end \in Int
        BY <4>5, TiledAreIntegers DEF Last
      <4> QED BY <4>6, <4>7, <4>8
    <3> QED BY <1>1, <1>6, <3>1, <3>3, <3>4
  <2> QED BY <2>2, <2>3
<1>8. CASE m.kind = "DdbcInstruction"
  <2>1. Explain(ctx, m) = ExplainDdbc(ctx, m) /\ BelongsTo(m.kind, "DDBC")
    BY <1>8 DEF Explain, Instructions, BelongsTo
  <2>2. CASE ctx.ddbc = Absent
    <3>1. error = "NotDescribed"
      BY <1>3, <2>1, <2>2 DEF ExplainDdbc, Unexplained
    <3>2. Accepts(m) => selected = "DDBC"
      BY <1>2, <2>1, AcceptedInPlace
    <3> QED BY <1>1, <2>2, <3>1, <3>2
  <2>3. CASE ctx.ddbc # Absent
    <3> DEFINE a == ById(ctx.ddbc.actuators, m.actuator_id)
               mode == ById(a.operation_modes, m.operation_mode)
               r == ResolveDdbc(ctx.ddbc, m)
    <3>1. error = r.error
      BY <1>3, <2>1, <2>3, ExplainedModeIs DEF ExplainDdbc
    <3>2. Accepts(m) => a # Absent /\ mode # Absent /\ IsFactor(m.operation_mode_factor)
      BY <1>4, <1>8, <2>3, CleanInstruction
    <3>3. Accepts(m) => r.error = Absent
      BY <3>2 DEF ResolveDdbc, Resolved
    <3> QED BY <1>6, <3>1, <3>3
  <2> QED BY <2>2, <2>3
<1>9. CASE m.kind = "OmbcInstruction"
  <2>1. Explain(ctx, m) = ExplainOmbc(ctx, m) /\ BelongsTo(m.kind, "OMBC")
    BY <1>9 DEF Explain, Instructions, BelongsTo
  <2>2. CASE ctx.ombc = Absent
    <3>1. error = "NotDescribed"
      BY <1>3, <2>1, <2>2 DEF ExplainOmbc, Unexplained
    <3>2. Accepts(m) => selected = "OMBC"
      BY <1>2, <2>1, AcceptedInPlace
    <3> QED BY <1>1, <2>2, <3>1, <3>2
  <2>3. CASE ctx.ombc # Absent
    <3> DEFINE mode == ById(ctx.ombc.operation_modes, m.operation_mode)
               r == ResolveOmbc(ctx.ombc, m)
    <3>1. error = r.error
      BY <1>3, <2>1, <2>3, ExplainedModeIs DEF ExplainOmbc
    <3>2. Accepts(m) => mode # Absent /\ IsFactor(m.operation_mode_factor)
      BY <1>4, <1>9, <2>3, CleanInstruction
    <3>3. Accepts(m) => r.error = Absent
      BY <3>2 DEF ResolveOmbc, Resolved
    <3> QED BY <1>6, <3>1, <3>3
  <2> QED BY <2>2, <2>3
<1>10. CASE m.kind \in {"PebcInstruction", "PpbcScheduleInstruction",
                        "PpbcStartInterruptionInstruction", "PpbcEndInterruptionInstruction"}
  <2>1. error = Absent
    BY <1>3, <1>10 DEF Explain, Unexplained, NoteSequence, Instructions
  <2> QED BY <1>6, <2>1
<1> QED BY <1>7, <1>8, <1>9, <1>10, EveryInstructionKind

\* The validator and the device model read a description alike (the rules of
\* validate/messages.rs on an instruction, resolve in model/mod.rs).
THEOREM AcceptedIsResolved == Spec => []AcceptedResolves
<1>1. InForceUsable /\ FillLevelHolds => AcceptedResolves
  BY InstructionResolves DEF AcceptedResolves, Instructible
<1> QED BY <1>1, AlwaysUsable, AlwaysFilled, PTL

-----------------------------------------------------------------------------
(* Sums of durations. *)

LEMMA StepBelow ==
  ASSUME NEW n \in Nat, NEW m \in 1 .. n
  PROVE  m \in Nat /\ m - 1 \in 0 .. n /\ m \in 0 .. n /\ ~(m <= m - 1)
OBVIOUS

\* What Sum computes of the first durations.
SumsUpTo(s, g, n) == g = [i \in 0 .. n |-> IF i = 0 THEN 0 ELSE g[i - 1] + s[i]]

LEMMA SumsExist ==
  ASSUME NEW s \in Seq(Nat), NEW n \in 0 .. Len(s)
  PROVE  \E g \in [0 .. n -> Nat] : SumsUpTo(s, g, n)
<1> DEFINE Bad == {m \in 0 .. Len(s) : ~\E g \in [0 .. m -> Nat] : SumsUpTo(s, g, m)}
<1> SUFFICES ASSUME Bad # {} PROVE FALSE
  OBVIOUS
<1>1. PICK m \in Bad : \A x \in Bad : m <= x
  <2>1. Bad \subseteq Nat
    OBVIOUS
  <2> QED BY <2>1, RegistryHolds, RP!LeastOf
<1>2. CASE m = 0
  <2> DEFINE g == [i \in 0 .. 0 |-> 0]
  <2>1. g \in [0 .. 0 -> Nat] /\ SumsUpTo(s, g, 0)
    BY DEF SumsUpTo
  <2> QED BY <1>1, <1>2, <2>1
<1>3. CASE m # 0
  <2>1. m \in 1 .. Len(s) /\ m - 1 \in 0 .. Len(s) /\ m - 1 \notin Bad
    <3>1. m \in 0 .. Len(s)
      BY <1>1
    <3> HIDE DEF Bad
    <3>2. m \in 1 .. Len(s)
      BY <1>3, <3>1
    <3>3. Len(s) \in Nat
      OBVIOUS
    <3>4. m - 1 \in 0 .. Len(s) /\ ~(m <= m - 1)
      BY <3>2, <3>3, StepBelow
    <3> QED BY <1>1, <3>2, <3>4
  <2>2. PICK g \in [0 .. m - 1 -> Nat] : SumsUpTo(s, g, m - 1)
    BY <2>1
  <2>3. s[m] \in Nat /\ m - 1 \in 0 .. m - 1 /\ g[m - 1] \in Nat
    BY <2>1
  <2> DEFINE h == [i \in 0 .. m |-> IF i = m THEN g[m - 1] + s[m] ELSE g[i]]
  <2>4. \A i \in 0 .. m : i # m => i \in 0 .. m - 1 /\ (i # 0 => i - 1 \in 0 .. m - 1 /\ i - 1 # m)
    BY <2>1
  <2>5. h \in [0 .. m -> Nat]
    BY <2>3, <2>4
  <2>6. \A i \in 0 .. m - 1 : g[i] = IF i = 0 THEN 0 ELSE g[i - 1] + s[i]
    BY <2>2 DEF SumsUpTo
  <2>7. m - 1 \in 0 .. m /\ h[m - 1] = g[m - 1]
    BY <2>1
  <2>8. \A i \in 0 .. m : h[i] = IF i = 0 THEN 0 ELSE h[i - 1] + s[i]
    <3> SUFFICES ASSUME NEW i \in 0 .. m PROVE h[i] = IF i = 0 THEN 0 ELSE h[i - 1] + s[i]
      OBVIOUS
    <3>1. CASE i = m
      BY <1>3, <2>7, <3>1
    <3>2. CASE i # m
      <4>1. h[i] = g[i] /\ (i # 0 => i - 1 \in 0 .. m /\ h[i - 1] = g[i - 1])
        BY <2>1, <2>4, <3>2
      <4> QED BY <2>4, <2>6, <3>2, <4>1
    <3> QED BY <3>1, <3>2
  <2>9. SumsUpTo(s, h, m)
    <3> HIDE DEF h
    <3> QED BY <2>5, <2>8 DEF SumsUpTo
  <2> QED BY <1>1, <2>5, <2>9
<1> QED BY <1>2, <1>3

\* Whatever counts the durations one by one arrives at the sum of them.
LEMMA SumIs ==
  ASSUME NEW s \in Seq(Nat), NEW h, h[0] = 0, \A i \in 1 .. Len(s) : h[i] = h[i - 1] + s[i]
  PROVE  Sum(s) = h[Len(s)] /\ Sum(s) \in Nat
<1> DEFINE n == Len(s)
           g == CHOOSE f : SumsUpTo(s, f, n)
           Bad == {i \in 0 .. n : h[i] # g[i]}
<1>1. n \in Nat /\ n \in 0 .. n
  OBVIOUS
<1>2. SumsUpTo(s, g, n)
  BY <1>1, SumsExist
<1>3. Sum(s) = g[n]
  BY DEF Sum, SumsUpTo
<1>4. g[n] \in Nat
  <2>1. PICK f \in [0 .. n -> Nat] : SumsUpTo(s, f, n)
    BY <1>1, SumsExist
  <2> DEFINE Off == {i \in 0 .. n : f[i] # g[i]}
  <2> HIDE DEF g, n
  <2>2. Off = {}
    <3> SUFFICES ASSUME Off # {} PROVE FALSE
      OBVIOUS
    <3>1. PICK i \in Off : \A x \in Off : i <= x
      <4>1. Off \subseteq Nat
        OBVIOUS
      <4> QED BY <4>1, RegistryHolds, RP!LeastOf
    <3>2. /\ \A j \in 0 .. n : f[j] = IF j = 0 THEN 0 ELSE f[j - 1] + s[j]
          /\ \A j \in 0 .. n : g[j] = IF j = 0 THEN 0 ELSE g[j - 1] + s[j]
      BY <1>2, <2>1 DEF SumsUpTo
    <3>3. i # 0
      BY <3>1, <3>2
    <3>4. i - 1 \in 0 .. n /\ i - 1 \notin Off
      BY <1>1, <3>1, <3>3
    <3> QED BY <3>1, <3>2, <3>3, <3>4
  <2> QED BY <1>1, <2>2
<1> HIDE DEF g, n
<1>5. Bad = {}
  <2> SUFFICES ASSUME Bad # {} PROVE FALSE
    OBVIOUS
  <2>1. PICK i \in Bad : \A x \in Bad : i <= x
    <3>1. Bad \subseteq Nat
      OBVIOUS
    <3> QED BY <3>1, RegistryHolds, RP!LeastOf
  <2>2. \A j \in 0 .. n : g[j] = IF j = 0 THEN 0 ELSE g[j - 1] + s[j]
    BY <1>2 DEF SumsUpTo
  <2>3. i # 0
    BY <2>1, <2>2
  <2>4. i - 1 \in 0 .. n /\ i - 1 \notin Bad /\ i \in 1 .. n
    BY <1>1, <2>1, <2>3
  <2> QED BY <2>1, <2>2, <2>3, <2>4 DEF n
<1> QED BY <1>1, <1>3, <1>4, <1>5 DEF n

\* Running sums: one for every duration, and none is less than the one before it.
Running(s, g) ==
  /\ g \in [0 .. Len(s) -> Nat] /\ g[0] = 0
  /\ \A i \in 1 .. Len(s) : g[i] = g[i - 1] + s[i]

LEMMA RunningSums == ASSUME NEW s \in Seq(Nat) PROVE \E g : Running(s, g)
<1>1. Len(s) \in Nat /\ Len(s) \in 0 .. Len(s)
  OBVIOUS
<1>2. PICK g \in [0 .. Len(s) -> Nat] : SumsUpTo(s, g, Len(s))
  BY <1>1, SumsExist
<1>3. \A i \in 0 .. Len(s) : g[i] = IF i = 0 THEN 0 ELSE g[i - 1] + s[i]
  BY <1>2 DEF SumsUpTo
<1>4. \A i \in 1 .. Len(s) : i \in 0 .. Len(s) /\ i # 0
  BY <1>1
<1> QED BY <1>1, <1>2, <1>3, <1>4 DEF Running

LEMMA RunningGrows ==
  ASSUME NEW s \in Seq(Nat), NEW g, Running(s, g), NEW i \in 0 .. Len(s), NEW j \in i .. Len(s)
  PROVE  g[i] <= g[j]
<1> DEFINE n == Len(s)
           Bad == {k \in 0 .. n : i <= k /\ ~(g[i] <= g[k])}
<1>1. n \in Nat /\ g \in [0 .. n -> Nat] /\ \A k \in 1 .. n : g[k] = g[k - 1] + s[k] /\ s[k] \in Nat
  BY DEF Running
<1> HIDE DEF n
<1>2. i \in 0 .. n /\ j \in 0 .. n /\ i <= j
  BY <1>1 DEF n
<1>3. Bad = {}
  <2> SUFFICES ASSUME Bad # {} PROVE FALSE
    OBVIOUS
  <2>1. PICK k \in Bad : \A x \in Bad : k <= x
    <3>1. Bad \subseteq Nat
      OBVIOUS
    <3> QED BY <3>1, RegistryHolds, RP!LeastOf
  <2>2. k # i
    BY <1>1, <1>2, <2>1
  <2>3. k \in 1 .. n /\ k - 1 \in 0 .. n /\ i <= k - 1 /\ ~(k <= k - 1)
    BY <1>1, <1>2, <2>1, <2>2
  <2>4. g[i] <= g[k - 1]
    BY <2>1, <2>3
  <2>5. g[k] = g[k - 1] + s[k] /\ s[k] \in Nat /\ g[k - 1] \in Nat /\ g[i] \in Nat
    BY <1>1, <1>2, <2>3
  <2> QED BY <2>1, <2>4, <2>5
<1> QED BY <1>2, <1>3

\* The sum of some of the durations, from one to another.
LEMMA SumFromTo ==
  ASSUME NEW s \in Seq(Nat), NEW g, Running(s, g),
         NEW i \in 1 .. Len(s) + 1, NEW j \in 0 .. Len(s), i <= j + 1
  PROVE  Sum(SubSeq(s, i, j)) = g[j] - g[i - 1]
<1> DEFINE t == SubSeq(s, i, j)
           m == j + 1 - i
           h == [k \in 0 .. m |-> g[i - 1 + k] - g[i - 1]]
<1>1. Len(s) \in Nat /\ i \in Nat /\ j \in Nat /\ m \in Nat /\ i - 1 + m = j
  OBVIOUS
<1>2. \A k \in 1 .. Len(s) : s[k] \in Nat
  OBVIOUS
<1>3. t \in Seq(Nat) /\ Len(t) = m /\ \A k \in 1 .. m : t[k] = s[i - 1 + k]
  <2>1. \A k \in i .. j : s[k] \in Nat
    BY <1>1, <1>2
  <2>2. /\ t \in Seq(Nat) /\ Len(t) = IF i <= j THEN j - i + 1 ELSE 0
        /\ \A k \in 1 .. j - i + 1 : t[k] = s[i + k - 1]
    BY <1>1, <2>1, SubSeqProperties
  <2>3. Len(t) = m
    BY <1>1, <2>2
  <2>4. \A k \in 1 .. m : k \in 1 .. j - i + 1 /\ i + k - 1 = i - 1 + k
    BY <1>1
  <2> QED BY <2>2, <2>3, <2>4
<1>4. \A k \in 0 .. m : i - 1 + k \in 0 .. Len(s) /\ (k # 0 => i - 1 + k \in 1 .. Len(s)
                          /\ (i - 1 + k) - 1 = i - 1 + (k - 1) /\ k - 1 \in 0 .. m)
  BY <1>1
<1>5. /\ \A k \in 0 .. Len(s) : g[k] \in Nat
      /\ \A k \in 1 .. Len(s) : g[k] = g[k - 1] + s[k]
  BY DEF Running
<1> HIDE DEF t, m
<1>6. h[0] = 0
  <2>1. 0 \in 0 .. m /\ i - 1 + 0 = i - 1 /\ i - 1 \in 0 .. Len(s)
    BY <1>1
  <2> QED BY <1>5, <2>1
<1>7. \A k \in 1 .. m : h[k] = h[k - 1] + t[k]
  <2> SUFFICES ASSUME NEW k \in 1 .. m PROVE h[k] = h[k - 1] + t[k]
    OBVIOUS
  <2>1. k \in 0 .. m /\ k # 0 /\ k - 1 \in 0 .. m
    BY <1>1
  <2>2. i - 1 + k \in 1 .. Len(s) /\ (i - 1 + k) - 1 = i - 1 + (k - 1) /\ i - 1 + (k - 1) \in 0 .. Len(s)
    BY <1>4, <2>1
  <2>3. g[i - 1 + k] = g[i - 1 + (k - 1)] + s[i - 1 + k]
    BY <1>5, <2>2
  <2>4. /\ g[i - 1 + (k - 1)] \in Nat /\ g[i - 1] \in Nat /\ s[i - 1 + k] \in Nat
    <3>1. i - 1 \in 0 .. Len(s)
      BY <1>1
    <3> QED BY <1>2, <1>5, <2>2, <3>1
  <2>5. h[k] = g[i - 1 + k] - g[i - 1] /\ h[k - 1] = g[i - 1 + (k - 1)] - g[i - 1] /\ t[k] = s[i - 1 + k]
    BY <1>3, <2>1
  <2> HIDE DEF h
  <2> DEFINE x == g[i - 1 + (k - 1)]
             y == g[i - 1]
             z == s[i - 1 + k]
  <2>6. x \in Nat /\ y \in Nat /\ z \in Nat /\ h[k] = (x + z) - y /\ h[k - 1] = x - y /\ t[k] = z
    BY <2>3, <2>4, <2>5
  <2> HIDE DEF x, y, z
  <2> QED BY <2>6
<1>8. h[m] = g[j] - g[i - 1]
  BY <1>1
<1> HIDE DEF h
<1> QED BY <1>3, <1>6, <1>7, <1>8, SumIs DEF t

LEMMA SumOfAll ==
  ASSUME NEW s \in Seq(Nat), NEW g, Running(s, g)
  PROVE  Sum(s) = g[Len(s)] /\ Sum(s) \in Nat
BY SumIs DEF Running

\* Durations none of which is longer take no longer together, and none takes
\* longer than all.
LEMMA SumsCompare ==
  ASSUME NEW s \in Seq(Nat), NEW t \in Seq(Nat), Len(s) = Len(t), \A i \in 1 .. Len(s) : s[i] <= t[i]
  PROVE  Sum(s) <= Sum(t)
<1> DEFINE n == Len(s)
<1>1. PICK g : Running(s, g)
  BY RunningSums
<1>2. PICK h : Running(t, h)
  BY RunningSums
<1> DEFINE Bad == {k \in 0 .. n : ~(g[k] <= h[k])}
<1>3. Bad = {}
  <2> SUFFICES ASSUME Bad # {} PROVE FALSE
    OBVIOUS
  <2>1. PICK k \in Bad : \A x \in Bad : k <= x
    <3>1. Bad \subseteq Nat
      OBVIOUS
    <3> QED BY <3>1, RegistryHolds, RP!LeastOf
  <2>2. k # 0
    BY <1>1, <1>2, <2>1 DEF Running
  <2>3. k \in 1 .. n /\ k - 1 \in 0 .. n /\ ~(k <= k - 1)
    BY <2>1, <2>2
  <2>4. g[k - 1] <= h[k - 1]
    BY <2>1, <2>3
  <2>5. /\ g[k] = g[k - 1] + s[k] /\ h[k] = h[k - 1] + t[k]
        /\ g[k - 1] \in Nat /\ h[k - 1] \in Nat
    BY <1>1, <1>2, <2>3 DEF Running
  <2>6. s[k] \in Nat /\ t[k] \in Nat /\ s[k] <= t[k]
    BY <2>3
  <2> QED BY <2>1, <2>4, <2>5, <2>6
<1>4. n \in 0 .. n
  OBVIOUS
<1>5. g[n] <= h[n]
  BY <1>3, <1>4
<1> QED BY <1>1, <1>2, <1>5, SumOfAll

LEMMA PartOfSum ==
  ASSUME NEW s \in Seq(Nat), NEW i \in 1 .. Len(s)
  PROVE  s[i] <= Sum(s)
<1>1. PICK g : Running(s, g)
  BY RunningSums
<1>2. i \in 0 .. Len(s) /\ Len(s) \in i .. Len(s) /\ i - 1 \in 0 .. Len(s)
  OBVIOUS
<1>3. g[i] <= g[Len(s)]
  BY <1>1, <1>2, RunningGrows
<1>4. s[i] \in Nat /\ Len(s) \in 0 .. Len(s)
  OBVIOUS
<1>5. g[i] = g[i - 1] + s[i] /\ g[i - 1] \in Nat /\ g[Len(s)] \in Nat
  BY <1>1, <1>2, <1>4 DEF Running
<1> QED BY <1>1, <1>3, <1>4, <1>5, SumOfAll

-----------------------------------------------------------------------------
(* What is published and was accepted: energy constraints and profiles. *)

\* Withdrawing an entry leaves a table.
LEMMA WithoutHolds ==
  ASSUME NEW table, IsTable(table), NEW key
  PROVE  IsTable(Without(table, key)) /\ Range(Without(table, key)) \subseteq Range(table)
<1> DEFINE kept == {e \in Range(table) : e.key # key}
           n == Len(table)
<1>1. table \in Seq(Range(table)) /\ n \in Nat /\ DOMAIN table = 1 .. n
  BY DEF IsTable
<1>2. PICK g : RP!Kept(table, kept, g, n) /\ RP!Among(table, kept) = g[n]
  BY <1>1, RegistryHolds, RP!AmongIsKept
<1>3. Without(table, key) = g[n]
  BY <1>2, SameQueues DEF Without
<1>4. \A i \in 0 .. n :
        g[i] = IF i = 0 THEN <<>> ELSE IF table[i] \in kept THEN Append(g[i - 1], table[i]) ELSE g[i - 1]
  BY <1>2 DEF RP!Kept
<1> DEFINE Sound(i) == IsTable(g[i]) /\ \A e \in Range(g[i]) : \E j \in 1 .. i : e = table[j]
           Bad == {i \in 0 .. n : ~Sound(i)}
<1> HIDE DEF n, kept
<1>5. Bad = {}
  <2> SUFFICES ASSUME Bad # {} PROVE FALSE
    OBVIOUS
  <2>1. PICK m \in Bad : \A x \in Bad : m <= x
    <3>1. Bad \subseteq Nat
      OBVIOUS
    <3> HIDE DEF Bad
    <3> QED BY <3>1, RegistryHolds, RP!LeastOf
  <2>2. m # 0
    <3> SUFFICES ASSUME m = 0 PROVE FALSE
      OBVIOUS
    <3>1. g[m] = <<>>
      BY <1>1, <1>4, <2>1
    <3> QED BY <2>1, <3>1, EmptyIsTable
  <2>3. m \in 1 .. n /\ m \in 0 .. n /\ m - 1 \in 0 .. n /\ ~(m <= m - 1)
    BY <1>1, <2>1, <2>2
  <2>4. Sound(m - 1) /\ ~Sound(m)
    BY <2>1, <2>3
  <2>5. \A j \in 1 .. m - 1 : j \in 1 .. m /\ j \in DOMAIN table /\ j # m
    BY <1>1, <2>3
  <2>6. m \in DOMAIN table /\ m \in 1 .. m
    BY <1>1, <2>3
  <2>7. CASE table[m] \in kept
    <3> DEFINE e == table[m]
    <3>1. e \in Range(table) /\ e = Entry(e.key, e.value)
      BY <2>6 DEF IsTable, Range
    <3>2. ~Has(g[m - 1], e.key)
      <4> SUFFICES ASSUME Has(g[m - 1], e.key) PROVE FALSE
        OBVIOUS
      <4>1. PICK x \in Range(g[m - 1]) : x.key = e.key
        BY DEF Has, Keys, Range
      <4>2. PICK j \in 1 .. m - 1 : x = table[j]
        BY <2>4
      <4> QED BY <2>5, <2>6, <4>1, <4>2 DEF IsTable
    <3>3. g[m] = Append(g[m - 1], e)
      BY <1>4, <2>2, <2>3, <2>7
    <3>4. /\ IsTable(Append(g[m - 1], Entry(e.key, e.value)))
          /\ Range(Append(g[m - 1], Entry(e.key, e.value))) = Range(g[m - 1]) \cup {Entry(e.key, e.value)}
      BY <2>4, <3>2, JoiningHolds
    <3>5. IsTable(g[m]) /\ Range(g[m]) = Range(g[m - 1]) \cup {e}
      BY <3>1, <3>3, <3>4
    <3> QED BY <2>4, <2>5, <2>6, <3>5
  <2>8. CASE table[m] \notin kept
    <3>1. g[m] = g[m - 1]
      BY <1>4, <2>2, <2>3, <2>8
    <3> QED BY <2>4, <2>5, <3>1
  <2> QED BY <2>7, <2>8
<1>6. Sound(n)
  <2>1. n \in 0 .. n
    BY <1>1
  <2> HIDE DEF Sound
  <2> QED BY <1>5, <2>1
<1>7. \A j \in 1 .. n : table[j] \in Range(table)
  BY <1>1 DEF Range
<1> QED BY <1>3, <1>6, <1>7

\* An accepted profile: time runs forwards, and every container can be told
\* from the others and offers sequences that can be told apart.
ProfileSound(p) ==
  /\ p.kind = "PpbcPowerProfileDefinition" /\ DecodedProfile(p)
  /\ p.start_time <= p.end_time
  /\ p.power_sequence_containers # <<>>
  /\ \A i, j \in DOMAIN p.power_sequence_containers :
       p.power_sequence_containers[i].id = p.power_sequence_containers[j].id => i = j
  /\ \A c \in Range(p.power_sequence_containers) :
       /\ c.power_sequences # <<>>
       /\ \A i, j \in DOMAIN c.power_sequences : c.power_sequences[i].id = c.power_sequences[j].id => i = j

EnergySound(c) ==
  /\ c.valid_from \in Nat /\ c.valid_until \in Nat /\ c.valid_from <= c.valid_until
  /\ c.lower_average_power \in Int /\ c.upper_average_power \in Int
  /\ c.lower_average_power <= c.upper_average_power

LEMMA UniqueIdsAreClean ==
  ASSUME NEW s, CheckUniqueIds(s) \subseteq Warnings
  PROVE  \A i, j \in DOMAIN s : s[i].id = s[j].id => i = j
<1>1. IsInjective([i \in DOMAIN s |-> s[i].id])
  BY DEF CheckUniqueIds, When, Warnings
<1> QED BY <1>1 DEF IsInjective

LEMMA FilledIsClean ==
  ASSUME NEW s, IsList(s), NEW max \in Nat, CheckArray(s, 1, max) \subseteq Warnings
  PROVE  s # <<>> /\ Len(s) \in Nat \ {0} /\ DOMAIN s = 1 .. Len(s)
<1>1. Len(s) \in 1 .. max
  BY DEF CheckArray, When, Warnings
<1>2. DOMAIN s = 1 .. Len(s)
  BY DEF IsList
<1> QED BY <1>1, <1>2, EmptySeq

LEMMA ProfileIsSound ==
  ASSUME NEW m, m.kind = "PpbcPowerProfileDefinition", DecodedProfile(m), NEW ctx,
         CheckPpbcPowerProfileDefinition(ctx, m) \subseteq Warnings
  PROVE  ProfileSound(m)
<1> DEFINE containers == m.power_sequence_containers
           CheckSequence(s) ==
             CheckArray(s.elements, 1, 288)
               \cup Over(s.elements, LAMBDA e : CheckForecastValues(e.power_values))
           CheckContainer(c) ==
             CheckArray(c.power_sequences, 1, 288) \cup CheckUniqueIds(c.power_sequences)
               \cup Over(c.power_sequences, CheckSequence)
<1>1. /\ CheckArray(containers, 1, 1000) \subseteq Warnings
      /\ CheckUniqueIds(containers) \subseteq Warnings
      /\ When(m.end_time < m.start_time, "PPBC_WINDOW") \subseteq Warnings
      /\ Over(containers, CheckContainer) \subseteq Warnings
  <2> DEFINE window == IF m.end_time < m.start_time THEN 0 ELSE m.end_time - m.start_time
             each == Over(containers, CheckContainer)
  <2>1. CheckPpbcPowerProfileDefinition(ctx, m) =
          CheckArray(containers, 1, 1000) \cup CheckScheduled(ctx, m.start_time)
            \cup When(m.end_time < m.start_time, "PPBC_WINDOW") \cup CheckUniqueIds(containers)
            \cup each \cup When(WindowTooShort(containers, window), "PPBC_WINDOW_TOO_SHORT")
    BY DEF CheckPpbcPowerProfileDefinition
  <2> HIDE DEF each
  <2>2. each \subseteq Warnings
    BY <2>1
  <2>3. /\ CheckArray(containers, 1, 1000) \subseteq Warnings
        /\ CheckUniqueIds(containers) \subseteq Warnings
        /\ When(m.end_time < m.start_time, "PPBC_WINDOW") \subseteq Warnings
    BY <2>1
  <2>4. Over(containers, CheckContainer) \subseteq Warnings
    BY <2>2 DEF each
  <2> HIDE DEF CheckContainer
  <2> QED BY <2>3, <2>4
<1> HIDE DEF CheckSequence
<1>2. \A i \in DOMAIN containers :
        /\ CheckArray(containers[i].power_sequences, 1, 288) \subseteq Warnings
        /\ CheckUniqueIds(containers[i].power_sequences) \subseteq Warnings
  BY <1>1 DEF Over
<1>3. /\ IsList(containers) /\ m.start_time \in Nat /\ m.end_time \in Nat
      /\ \A c \in Range(containers) : IsList(c.power_sequences)
  BY DEF DecodedProfile
<1>4. m.start_time <= m.end_time
  <2>1. ~(m.end_time < m.start_time)
    BY <1>1 DEF When, Warnings
  <2> QED BY <1>3, <2>1
<1> HIDE DEF containers, CheckContainer
<1>5. containers # <<>>
  BY <1>1, <1>3, FilledIsClean
<1>6. \A i, j \in DOMAIN containers : containers[i].id = containers[j].id => i = j
  BY <1>1, UniqueIdsAreClean
<1>7. ASSUME NEW c \in Range(containers)
      PROVE  /\ c.power_sequences # <<>>
             /\ \A i, j \in DOMAIN c.power_sequences :
                  c.power_sequences[i].id = c.power_sequences[j].id => i = j
  <2>1. PICK i \in DOMAIN containers : c = containers[i]
    BY DEF Range
  <2>2. IsList(c.power_sequences)
    BY <1>3
  <2> QED BY <1>2, <2>1, <2>2, FilledIsClean, UniqueIdsAreClean
<1> QED BY <1>4, <1>5, <1>6, <1>7 DEF ProfileSound, containers

LEMMA EnergyIsSound ==
  ASSUME NEW m, DecodedEnergy(m), NEW ctx, CheckPebcEnergyConstraint(ctx, m) \subseteq Warnings
  PROVE  EnergySound(m)
<1>1. IsFinite(m.lower_average_power) /\ IsFinite(m.upper_average_power)
  BY DEF CheckPebcEnergyConstraint, CheckFinite, When, Warnings
<1>2. ~(m.valid_until < m.valid_from) /\ ~(m.lower_average_power > m.upper_average_power)
  BY <1>1 DEF CheckPebcEnergyConstraint, When, Warnings
<1>3. /\ m.valid_from \in Nat /\ m.valid_until \in Nat
      /\ m.lower_average_power \in Int /\ m.upper_average_power \in Int
  BY <1>1 DEF DecodedEnergy, IsNumber, IsFinite
<1> QED BY <1>2, <1>3 DEF EnergySound

PublicationsHold ==
  /\ IsTable(ppbc_profiles) /\ \A entry \in Range(ppbc_profiles) : ProfileSound(entry.value)
  /\ IsTable(pebc_energy) /\ \A entry \in Range(pebc_energy) : EnergySound(entry.value)

LEMMA PublicationsStay ==
  ASSUME InForceUsable, PublicationsHold, [Next]_vars
  PROVE  PublicationsHold'
<1>1. ASSUME NEW m \in Crossing, RecordProfile(m) PROVE PublicationsHold'
  <2>1. /\ Decoded(m) /\ m.kind = "PpbcPowerProfileDefinition"
        /\ ppbc_profiles' = Upsert(ppbc_profiles, m.id, m) /\ pebc_energy' = pebc_energy
    BY <1>1, JudgingAssumption DEF Crossing, InForceUsable, RecordProfile
  <2>2. PICK sender \in Senders(m.kind) : Judge(Context(sender), m) \subseteq Warnings
    BY <1>1, AcceptableMeans DEF RecordProfile
  <2>3. CheckPpbcPowerProfileDefinition(Context(sender), m) \subseteq Warnings
    BY <2>1, <2>2, JudgesOwn
  <2>4. ProfileSound(m)
    BY <2>1, <2>3, ProfileIsSound DEF Decoded
  <2>5. Entry(m.id, m).value = m
    BY DEF Entry
  <2> QED BY <2>1, <2>4, <2>5, UpsertHolds DEF PublicationsHold
<1>2. ASSUME NEW m \in Crossing, RecordEnergy(m) PROVE PublicationsHold'
  <2>1. /\ Decoded(m) /\ m.kind = "PebcEnergyConstraint"
        /\ pebc_energy' = Upsert(pebc_energy, m.id, m) /\ ppbc_profiles' = ppbc_profiles
    BY <1>2, JudgingAssumption DEF Crossing, InForceUsable, RecordEnergy
  <2>2. PICK sender \in Senders(m.kind) : Judge(Context(sender), m) \subseteq Warnings
    BY <1>2, AcceptableMeans DEF RecordEnergy
  <2>3. CheckPebcEnergyConstraint(Context(sender), m) \subseteq Warnings
    BY <2>1, <2>2, JudgesOwn
  <2>4. EnergySound(m)
    BY <2>1, <2>3, EnergyIsSound DEF Decoded
  <2>5. Entry(m.id, m).value = m
    BY DEF Entry
  <2> QED BY <2>1, <2>4, <2>5, UpsertHolds DEF PublicationsHold
<1>3. ASSUME NEW m \in Crossing, RevokePublication(m) PROVE PublicationsHold'
  <2>1. /\ ppbc_profiles' = ppbc_profiles \/ ppbc_profiles' = Without(ppbc_profiles, m.object_id)
        /\ pebc_energy' = pebc_energy \/ pebc_energy' = Without(pebc_energy, m.object_id)
    BY <1>3 DEF RevokePublication, WithoutOf
  <2> QED BY <2>1, WithoutHolds DEF PublicationsHold
<1>4. CASE UNCHANGED <<ppbc_profiles, pebc_energy>>
  BY <1>4 DEF PublicationsHold
<1>5. CASE UNCHANGED vars
  BY <1>4, <1>5 DEF vars, objectVars
<1>6. CASE ActivateDue \/ Tick
  BY <1>4, <1>6 DEF ActivateDue, Tick, objectVars
<1>7. ASSUME NEW m \in Crossing,
             \/ RecordDescription(m) \/ RecordMode(m) \/ RecordTimer(m) \/ RecordFillLevel(m)
             \/ RecordDetails(m) \/ RecordConstraints(m)
             \/ RecordInstruction(m) \/ RecordUpdate(m)
             \/ RevokeDescription(m) \/ RevokeInstruction(m)
      PROVE  UNCHANGED <<ppbc_profiles, pebc_energy>>
  BY <1>7 DEF RecordDescription, RecordMode, RecordTimer, RecordFillLevel, RecordDetails,
              RecordConstraints, RecordInstruction, RecordUpdate, RevokeDescription, RevokeInstruction,
              objectVars
<1> QED BY <1>1, <1>2, <1>3, <1>4, <1>5, <1>6, <1>7 DEF Next

LEMMA AlwaysPublished == Spec => []PublicationsHold
<1>1. Init => PublicationsHold
  BY EmptyIsTable DEF Init, PublicationsHold
<1>2. InForceUsable /\ PublicationsHold /\ [Next]_vars => PublicationsHold'
  BY PublicationsStay
<1> QED BY <1>1, <1>2, AlwaysUsable, PTL DEF Spec

-----------------------------------------------------------------------------
(* The windows of a schedule. *)

LEMMA TotalIsNat ==
  ASSUME NEW elements, IsList(elements), \A e \in Range(elements) : e.duration \in Nat
  PROVE  /\ [i \in DOMAIN elements |-> elements[i].duration] \in Seq(Nat)
         /\ Len([i \in DOMAIN elements |-> elements[i].duration]) = Len(elements)
         /\ TotalDuration(elements) \in Nat
<1> DEFINE s == [i \in DOMAIN elements |-> elements[i].duration]
<1>1. Len(elements) \in Nat /\ DOMAIN elements = 1 .. Len(elements)
  BY DEF IsList
<1>2. \A i \in DOMAIN elements : elements[i].duration \in Nat
  BY DEF Range
<1>3. s \in [1 .. Len(elements) -> Nat]
  BY <1>1, <1>2
<1>4. s \in Seq(Nat) /\ Len(s) = Len(elements)
  BY <1>1, <1>3, LenProperties, IsASeq
<1> HIDE DEF s
<1>5. Sum(s) \in Nat
  BY <1>4, RunningSums, SumOfAll
<1> QED BY <1>4, <1>5 DEF s, TotalDuration

\* A choice names, for every container, one of its sequences.
LEMMA ChoiceIs ==
  ASSUME NEW profile, ProfileSound(profile), NEW chosen \in ChoicesOf(profile)
  PROVE  LET containers == profile.power_sequence_containers IN
           /\ Len(containers) \in Nat \ {0}
           /\ DOMAIN containers = 1 .. Len(containers) /\ DOMAIN chosen = 1 .. Len(containers)
           /\ ScheduleError(profile, chosen) = Absent
           /\ \A i \in 1 .. Len(containers) :
                LET s == Resolve(profile, chosen[i][1], chosen[i][2]) IN
                  s \in Range(containers[i].power_sequences) /\ DecodedSequence(s)
<1> DEFINE containers == profile.power_sequence_containers
<1>1. /\ IsList(containers) /\ containers # <<>>
      /\ \A c \in Range(containers) :
           IsList(c.power_sequences) /\ \A s \in Range(c.power_sequences) : DecodedSequence(s)
      /\ \A i, j \in DOMAIN containers : containers[i].id = containers[j].id => i = j
  BY DEF ProfileSound, DecodedProfile
<1>2. DOMAIN chosen = DOMAIN containers /\ ScheduleError(profile, chosen) = Absent
  BY DEF ChoicesOf
<1>3. /\ [i \in DOMAIN containers |-> containers[i].id] = [i \in DOMAIN chosen |-> chosen[i][1]]
      /\ \A i \in DOMAIN chosen : Resolve(profile, chosen[i][1], chosen[i][2]) # Absent
  BY <1>2, ErrorsAreNamed DEF ScheduleError
<1> HIDE DEF containers
<1>4. Len(containers) \in Nat \ {0} /\ DOMAIN containers = 1 .. Len(containers)
  BY <1>1, EmptySeq DEF IsList
<1>5. \A i \in DOMAIN containers : chosen[i][1] = containers[i].id
  <2> SUFFICES ASSUME NEW i \in DOMAIN containers PROVE chosen[i][1] = containers[i].id
    OBVIOUS
  <2>1. [j \in DOMAIN containers |-> containers[j].id][i] = [j \in DOMAIN chosen |-> chosen[j][1]][i]
    BY <1>3
  <2> QED BY <1>2, <2>1
<1>6. ASSUME NEW i \in 1 .. Len(containers)
      PROVE  LET s == Resolve(profile, chosen[i][1], chosen[i][2]) IN
               s \in Range(containers[i].power_sequences) /\ DecodedSequence(s)
  <2> DEFINE c == ById(containers, chosen[i][1])
             s == Resolve(profile, chosen[i][1], chosen[i][2])
  <2>1. s # Absent /\ i \in DOMAIN containers
    BY <1>2, <1>3, <1>4
  <2>2. c # Absent /\ s = ById(c.power_sequences, chosen[i][2])
    BY <2>1 DEF Resolve, containers
  <2>3. c \in Range(containers) /\ c.id = chosen[i][1]
    BY <1>1, <2>2, ByIdFinds
  <2>4. c = containers[i]
    <3>1. PICK j \in DOMAIN containers : c = containers[j]
      BY <2>3 DEF Range
    <3> HIDE DEF c
    <3> QED BY <1>1, <1>5, <2>1, <2>3, <3>1
  <2> HIDE DEF c, s
  <2>5. IsList(c.power_sequences) /\ \A x \in Range(c.power_sequences) : DecodedSequence(x)
    BY <1>1, <2>3
  <2>6. s \in Range(c.power_sequences)
    BY <2>1, <2>2, <2>5, ByIdFinds
  <2> QED BY <2>4, <2>5, <2>6 DEF s
<1> QED BY <1>2, <1>4, <1>6 DEF containers

\* How long each chosen sequence takes.
Lasts(profile, chosen) ==
  [i \in DOMAIN chosen |-> TotalDuration(Resolve(profile, chosen[i][1], chosen[i][2]).elements)]

LEMMA LastsAre ==
  ASSUME NEW profile, ProfileSound(profile), NEW chosen \in ChoicesOf(profile)
  PROVE  /\ Lasts(profile, chosen) \in Seq(Nat)
         /\ Len(Lasts(profile, chosen)) = Len(profile.power_sequence_containers)
<1> DEFINE n == Len(profile.power_sequence_containers)
           s == Lasts(profile, chosen)
<1>1. n \in Nat \ {0} /\ DOMAIN chosen = 1 .. n
  BY ChoiceIs
<1>2. \A i \in 1 .. n : DecodedSequence(Resolve(profile, chosen[i][1], chosen[i][2]))
  BY ChoiceIs
<1>3. \A i \in 1 .. n : TotalDuration(Resolve(profile, chosen[i][1], chosen[i][2]).elements) \in Nat
  BY <1>2, TotalIsNat DEF DecodedSequence
<1>4. s \in [1 .. n -> Nat]
  BY <1>1, <1>3 DEF Lasts
<1> HIDE DEF n, s
<1>5. s \in Seq(Nat) /\ Len(s) = n
  BY <1>1, <1>4, LenProperties, IsASeq
<1> QED BY <1>5 DEF n, s

LEMMA WindowsAre ==
  ASSUME NEW profile, ProfileSound(profile), NEW chosen \in ChoicesOf(profile),
         NEW g, Running(Lasts(profile, chosen), g)
  PROVE  LET windows == Schedule(profile, chosen)
             lasts == Lasts(profile, chosen)
             n == Len(lasts)
         IN  /\ n \in Nat \ {0} /\ DOMAIN windows = 1 .. n /\ DOMAIN chosen = 1 .. n /\ Len(windows) = n
             /\ \A i \in 1 .. n :
                  /\ windows[i].earliest_start = profile.start_time + g[i - 1]
                  /\ windows[i].latest_start = profile.end_time - (g[n] - g[i - 1])
                  /\ windows[i].duration = lasts[i]
                  /\ windows[i].max_pause_before \in Nat \cup {Absent}
<1> DEFINE windows == Schedule(profile, chosen)
           lasts == Lasts(profile, chosen)
           n == Len(lasts)
           PauseOf(i) == Resolve(profile, chosen[i][1], chosen[i][2]).max_pause_before
<1>1. n \in Nat \ {0} /\ DOMAIN chosen = 1 .. n /\ lasts \in Seq(Nat)
  BY ChoiceIs, LastsAre
<1>2. \A i \in 1 .. n : PauseOf(i) \in Nat \cup {Absent}
  BY ChoiceIs, LastsAre DEF DecodedSequence
<1>3. windows = [i \in DOMAIN chosen |->
                   [earliest_start |-> profile.start_time + Sum(SubSeq(lasts, 1, i - 1)),
                    latest_start |-> profile.end_time - Sum(SubSeq(lasts, i, Len(lasts))),
                    duration |-> lasts[i], max_pause_before |-> PauseOf(i)]]
  BY DEF Schedule, Lasts
<1> HIDE DEF windows, lasts, n, PauseOf
<1>4. DOMAIN windows = 1 .. n /\ Len(windows) = n
  BY <1>1, <1>3
<1>5. ASSUME NEW i \in 1 .. n
      PROVE  Sum(SubSeq(lasts, 1, i - 1)) = g[i - 1] /\ Sum(SubSeq(lasts, i, Len(lasts))) = g[n] - g[i - 1]
  <2>1. /\ n = Len(lasts) /\ 1 \in 1 .. n + 1 /\ i - 1 \in 0 .. n /\ 1 <= (i - 1) + 1
        /\ i \in 1 .. n + 1 /\ n \in 0 .. n /\ i <= n + 1 /\ 1 - 1 = 0
    BY <1>1 DEF n
  <2>2. Running(lasts, g) /\ g[0] = 0 /\ g[i - 1] \in Nat
    BY <2>1 DEF Running, lasts
  <2>3. Sum(SubSeq(lasts, 1, i - 1)) = g[i - 1] - g[0]
    BY <1>1, <2>1, <2>2, SumFromTo
  <2>4. Sum(SubSeq(lasts, i, n)) = g[n] - g[i - 1]
    BY <1>1, <2>1, <2>2, SumFromTo
  <2> QED BY <2>1, <2>2, <2>3, <2>4
<1>6. ASSUME NEW i \in 1 .. n
      PROVE  /\ windows[i].earliest_start = profile.start_time + g[i - 1]
             /\ windows[i].latest_start = profile.end_time - (g[n] - g[i - 1])
             /\ windows[i].duration = lasts[i]
             /\ windows[i].max_pause_before \in Nat \cup {Absent}
  BY <1>1, <1>2, <1>3, <1>5
<1> QED BY <1>1, <1>4, <1>6 DEF windows, lasts, n

\* When times to start at are feasible: each sequence starts after the one
\* before it is over, waits no longer than it may, and ends in time.
LEMMA FeasibleMeans ==
  ASSUME NEW profile, ProfileSound(profile), NEW chosen \in ChoicesOf(profile),
         NEW starts \in [1 .. Len(Lasts(profile, chosen)) -> Int]
  PROVE  LET lasts == Lasts(profile, chosen)
             windows == Schedule(profile, chosen)
             Before(i) == IF i = 1 THEN profile.start_time ELSE starts[i - 1] + lasts[i - 1]
         IN  StartsAreFeasible(profile, chosen, starts) <=>
               \A i \in 1 .. Len(lasts) :
                 /\ starts[i] >= Before(i)
                 /\ ~(/\ i > 1 /\ windows[i].max_pause_before # Absent
                      /\ starts[i] - Before(i) > windows[i].max_pause_before)
                 /\ ~(starts[i] + lasts[i] > profile.end_time)
<1> DEFINE lasts == Lasts(profile, chosen)
           n == Len(lasts)
           windows == Schedule(profile, chosen)
           Before(i) == IF i = 1 THEN profile.start_time ELSE starts[i - 1] + lasts[i - 1]
           Late(i) == /\ i > 1 /\ windows[i].max_pause_before # Absent
                      /\ starts[i] - Before(i) > windows[i].max_pause_before
           Problem(i) == IF starts[i] < Before(i) THEN "TooEarly"
                         ELSE IF Late(i) THEN "PauseTooLong"
                         ELSE IF starts[i] + lasts[i] > profile.end_time THEN "Overruns"
                         ELSE Absent
           problems == [i \in DOMAIN starts |-> Problem(i)]
<1>1. PICK g : Running(lasts, g)
  BY LastsAre, RunningSums
<1>2. /\ n \in Nat \ {0} /\ DOMAIN windows = 1 .. n /\ Len(windows) = n
      /\ \A i \in 1 .. n : windows[i].duration = lasts[i]
  BY <1>1, WindowsAre
<1>3. starts \in Seq(Int) /\ Len(starts) = n /\ DOMAIN starts = 1 .. n
  BY <1>2, LenProperties, IsASeq
<1>4. ScheduleError(profile, chosen) = Absent
  BY ChoiceIs
<1>5. StartProblem(profile, chosen, starts) = First(problems, LAMBDA p : p # Absent)
  <2> DEFINE EndOf(i) == starts[i] + windows[i].duration
             EndBefore(i) == IF i = 1 THEN profile.start_time ELSE EndOf(i - 1)
             Stated(i) ==
               IF starts[i] < EndBefore(i) THEN "TooEarly"
               ELSE IF /\ i > 1 /\ windows[i].max_pause_before # Absent
                       /\ starts[i] - EndBefore(i) > windows[i].max_pause_before THEN "PauseTooLong"
               ELSE IF EndOf(i) > profile.end_time THEN "Overruns"
               ELSE Absent
  <2>1. \A i \in 1 .. n : i = 1 \/ i - 1 \in 1 .. n
    BY <1>2
  <2>2. \A i \in 1 .. n : EndOf(i) = starts[i] + lasts[i] /\ EndBefore(i) = Before(i)
    BY <1>2, <2>1
  <2>3. StartProblem(profile, chosen, starts) = First([i \in DOMAIN starts |-> Stated(i)],
                                                      LAMBDA p : p # Absent)
    BY <1>2, <1>3, <1>4 DEF StartProblem
  <2> HIDE DEF EndOf, EndBefore, windows, lasts, n, Before
  <2>4. \A i \in 1 .. n : Stated(i) = Problem(i)
    BY <2>2
  <2> HIDE DEF Stated, Problem
  <2>5. [i \in DOMAIN starts |-> Stated(i)] = problems
    BY <1>3, <2>4
  <2> QED BY <2>3, <2>5
<1>6. DOMAIN problems = 1 .. n /\ Len(problems) = n
  BY <1>2, <1>3, LenProperties
<1> DEFINE Found == {i \in 1 .. Len(problems) : problems[i] # Absent}
<1>7. First(problems, LAMBDA p : p # Absent) =
        IF (IF Found # {} THEN Min(Found) ELSE 0) = 0 THEN Absent
        ELSE problems[IF Found # {} THEN Min(Found) ELSE 0]
  BY DEF First, SelectInSeq
<1> HIDE DEF problems, windows, lasts, n, Before
<1>8. StartsAreFeasible(profile, chosen, starts) <=> Found = {}
  <2>1. Found \in SUBSET Nat /\ 0 \notin Found
    BY <1>2, <1>6
  <2>2. Found # {} => Min(Found) \in Found
    <3> HIDE DEF Found
    <3> QED BY <2>1, MinOf
  <2>3. Found # {} => problems[Min(Found)] # Absent /\ Min(Found) # 0
    BY <2>1, <2>2
  <2> HIDE DEF Found
  <2> QED BY <1>5, <1>7, <2>3 DEF StartsAreFeasible
<1>9. Found = {} <=> \A i \in 1 .. n : Problem(i) = Absent
  BY <1>3, <1>6 DEF problems
<1>10. \A i \in 1 .. n : Problem(i) = Absent <=>
         /\ ~(starts[i] < Before(i)) /\ ~Late(i) /\ ~(starts[i] + lasts[i] > profile.end_time)
  BY ErrorsAreNamed
<1>11. \A i \in 1 .. n : ~(starts[i] < Before(i)) <=> starts[i] >= Before(i)
  <2>1. profile.start_time \in Nat /\ \A i \in 1 .. n : lasts[i] \in Nat
    BY LastsAre DEF ProfileSound, DecodedProfile, lasts, n
  <2>2. \A i \in 1 .. n : i # 1 => i - 1 \in 1 .. n
    BY <1>2
  <2>3. \A i \in 1 .. n : Before(i) \in Int /\ starts[i] \in Int
    BY <1>3, <2>1, <2>2 DEF Before
  <2> QED BY <2>3
<1> HIDE DEF Problem, Late
<1> QED BY <1>8, <1>9, <1>10, <1>11 DEF lasts, n, windows, Before, Late

LEMMA SchedulableMeans ==
  ASSUME NEW profile, ProfileSound(profile), NEW chosen \in ChoicesOf(profile),
         NEW g, Running(Lasts(profile, chosen), g)
  PROVE  IsSchedulable(profile, chosen) <=>
           profile.start_time + g[Len(Lasts(profile, chosen))] <= profile.end_time
<1> DEFINE n == Len(Lasts(profile, chosen))
           windows == Schedule(profile, chosen)
           S == profile.start_time
           E == profile.end_time
<1>1. /\ n \in Nat \ {0} /\ DOMAIN chosen = 1 .. n
      /\ \A i \in 1 .. n : /\ windows[i].earliest_start = S + g[i - 1]
                           /\ windows[i].latest_start = E - (g[n] - g[i - 1])
  BY WindowsAre
<1>2. S \in Nat /\ E \in Nat
  BY DEF ProfileSound, DecodedProfile
<1>3. \A i \in 0 .. n : g[i] \in Nat
  BY DEF Running
<1>4. ScheduleError(profile, chosen) = Absent
  BY ChoiceIs
<1>5. IsSchedulable(profile, chosen) <=>
        \A i \in 1 .. n : windows[i].earliest_start <= windows[i].latest_start
  BY <1>1, <1>4 DEF IsSchedulable, IsFeasible
<1> HIDE DEF n, windows, S, E
<1>6. ASSUME NEW i \in 1 .. n
      PROVE  windows[i].earliest_start <= windows[i].latest_start <=> S + g[n] <= E
  <2>1. i - 1 \in 0 .. n /\ n \in 0 .. n
    BY <1>1
  <2>2. g[i - 1] \in Nat /\ g[n] \in Nat
    BY <1>3, <2>1
  <2>3. windows[i].earliest_start = S + g[i - 1] /\ windows[i].latest_start = E - (g[n] - g[i - 1])
    BY <1>1
  <2> DEFINE x == g[i - 1]
             y == g[n]
  <2>4. x \in Nat /\ y \in Nat /\ (S + x <= E - (y - x) <=> S + y <= E)
    <3>1. x \in Nat /\ y \in Nat
      BY <2>2
    <3> HIDE DEF x, y
    <3> QED BY <1>2, <3>1
  <2> QED BY <2>3, <2>4
<1>7. 1 \in 1 .. n
  BY <1>1
<1> QED BY <1>5, <1>6, <1>7 DEF n, S, E

\* Sequences end to end, from any moment that leaves room for all of them.
LEMMA EndToEndIsFeasible ==
  ASSUME NEW profile, ProfileSound(profile), NEW chosen \in ChoicesOf(profile),
         NEW g, Running(Lasts(profile, chosen), g), NEW c \in Int,
         profile.start_time <= c, c + g[Len(Lasts(profile, chosen))] <= profile.end_time
  PROVE  [i \in DOMAIN chosen |-> c + g[i - 1]] \in StartsOf(profile, chosen)
<1> DEFINE lasts == Lasts(profile, chosen)
           n == Len(lasts)
           windows == Schedule(profile, chosen)
           starts == [i \in DOMAIN chosen |-> c + g[i - 1]]
           S == profile.start_time
           E == profile.end_time
           Before(i) == IF i = 1 THEN S ELSE starts[i - 1] + lasts[i - 1]
<1>1. /\ n \in Nat \ {0} /\ DOMAIN chosen = 1 .. n
      /\ \A i \in 1 .. n : windows[i].max_pause_before \in Nat \cup {Absent}
  BY WindowsAre
<1>2. S \in Nat /\ E \in Nat
  BY DEF ProfileSound, DecodedProfile
<1>3. /\ \A i \in 0 .. n : g[i] \in Nat
      /\ g[0] = 0 /\ \A i \in 1 .. n : g[i] = g[i - 1] + lasts[i]
  BY DEF Running
<1>4. \A i \in 1 .. n : lasts[i] \in Nat
  BY LastsAre
<1>5. \A i \in 0 .. n : g[i] <= g[n]
  <2>1. \A i \in 0 .. n : n \in i .. Len(lasts)
    BY <1>1
  <2> QED BY <2>1, LastsAre, RunningGrows
<1>6. S <= c /\ c + g[n] <= E
  OBVIOUS
<1> HIDE DEF lasts, n, windows, S, E, Before
<1>7. \A i \in 1 .. n : i - 1 \in 0 .. n /\ i \in 0 .. n /\ (i # 1 => i - 1 \in 1 .. n)
  BY <1>1
<1>8. \A i \in 1 .. n : starts[i] = c + g[i - 1]
  BY <1>1
<1> HIDE DEF starts
<1>9. \A i \in 1 .. n : starts[i] + lasts[i] = c + g[i] /\ starts[i] \in Int /\ S <= starts[i]
  <2> SUFFICES ASSUME NEW i \in 1 .. n
               PROVE  starts[i] + lasts[i] = c + g[i] /\ starts[i] \in Int /\ S <= starts[i]
    OBVIOUS
  <2>1. g[i - 1] \in Nat /\ g[i] = g[i - 1] + lasts[i] /\ lasts[i] \in Nat /\ starts[i] = c + g[i - 1]
    BY <1>3, <1>4, <1>7, <1>8
  <2> QED BY <1>2, <1>6, <2>1
<1>10. \A i \in 1 .. n : ~(starts[i] + lasts[i] > E) /\ starts[i] <= E
  <2> SUFFICES ASSUME NEW i \in 1 .. n PROVE ~(starts[i] + lasts[i] > E) /\ starts[i] <= E
    OBVIOUS
  <2>1. /\ g[i] \in Nat /\ g[i] <= g[n] /\ g[n] \in Nat /\ starts[i] + lasts[i] = c + g[i]
        /\ lasts[i] \in Nat /\ starts[i] \in Int
    <3>1. n \in 0 .. n
      BY <1>1
    <3> QED BY <1>3, <1>4, <1>5, <1>7, <1>9, <3>1
  <2> QED BY <1>2, <1>6, <2>1
<1>11. \A i \in 1 .. n : Before(i) = (IF i = 1 THEN S ELSE starts[i])
  <2> SUFFICES ASSUME NEW i \in 1 .. n, i # 1 PROVE starts[i - 1] + lasts[i - 1] = starts[i]
    BY DEF Before
  <2>1. i - 1 \in 1 .. n
    BY <1>7
  <2>2. starts[i - 1] + lasts[i - 1] = c + g[i - 1] /\ starts[i] = c + g[i - 1]
    BY <1>8, <1>9, <2>1
  <2> QED BY <2>2
<1>12. \A i \in 1 .. n :
         /\ starts[i] >= Before(i)
         /\ ~(/\ i > 1 /\ windows[i].max_pause_before # Absent
              /\ starts[i] - Before(i) > windows[i].max_pause_before)
  <2> SUFFICES ASSUME NEW i \in 1 .. n
               PROVE  /\ starts[i] >= Before(i)
                      /\ ~(/\ i > 1 /\ windows[i].max_pause_before # Absent
                           /\ starts[i] - Before(i) > windows[i].max_pause_before)
    OBVIOUS
  <2>1. starts[i] \in Int /\ S <= starts[i] /\ windows[i].max_pause_before \in Nat \cup {Absent}
    BY <1>1, <1>9
  <2>2. CASE i = 1
    BY <1>2, <1>11, <2>1, <2>2
  <2>3. CASE i # 1
    <3>1. Before(i) = starts[i]
      BY <1>11, <2>3
    <3> QED BY <2>1, <3>1
  <2> QED BY <2>2, <2>3
<1>13. starts \in [1 .. n -> Int] /\ starts \in [DOMAIN chosen -> S .. E]
  <2>1. DOMAIN starts = 1 .. n /\ starts = [i \in 1 .. n |-> starts[i]]
    BY <1>1 DEF starts
  <2>2. \A i \in 1 .. n : starts[i] \in Int /\ starts[i] \in S .. E
    BY <1>2, <1>9, <1>10
  <2> QED BY <1>1, <2>1, <2>2
<1>14. StartsAreFeasible(profile, chosen, starts)
  <2>1. starts \in [1 .. Len(Lasts(profile, chosen)) -> Int]
    BY <1>13 DEF n, lasts
  <2> QED BY <1>10, <1>12, <2>1, FeasibleMeans DEF n, lasts, windows, Before, S, E
<1> QED BY <1>13, <1>14 DEF StartsOf, starts, S, E

\* Of feasible times, each lies in its window, and all of them fit.
LEMMA FeasibleLiesWithin ==
  ASSUME NEW profile, ProfileSound(profile), NEW chosen \in ChoicesOf(profile),
         NEW g, Running(Lasts(profile, chosen), g), NEW starts \in StartsOf(profile, chosen)
  PROVE  /\ profile.start_time + g[Len(Lasts(profile, chosen))] <= profile.end_time
         /\ \A i \in DOMAIN chosen :
              starts[i] \in profile.start_time + g[i - 1]
                              .. profile.end_time - (g[Len(Lasts(profile, chosen))] - g[i - 1])
<1> DEFINE lasts == Lasts(profile, chosen)
           n == Len(lasts)
           windows == Schedule(profile, chosen)
           S == profile.start_time
           E == profile.end_time
           Before(i) == IF i = 1 THEN S ELSE starts[i - 1] + lasts[i - 1]
<1>1. n \in Nat \ {0} /\ DOMAIN chosen = 1 .. n
  BY WindowsAre
<1>2. S \in Nat /\ E \in Nat
  BY DEF ProfileSound, DecodedProfile
<1>3. /\ \A i \in 0 .. n : g[i] \in Nat
      /\ g[0] = 0 /\ \A i \in 1 .. n : g[i] = g[i - 1] + lasts[i]
  BY DEF Running
<1>4. \A i \in 1 .. n : lasts[i] \in Nat
  BY LastsAre
<1>5. starts \in [1 .. n -> Int] /\ StartsAreFeasible(profile, chosen, starts)
  <2>1. starts \in [DOMAIN chosen -> S .. E] /\ StartsAreFeasible(profile, chosen, starts)
    BY DEF StartsOf
  <2>2. S .. E \subseteq Int
    BY <1>2
  <2> QED BY <1>1, <2>1, <2>2
<1>6. \A i \in 1 .. n : starts[i] >= Before(i) /\ ~(starts[i] + lasts[i] > E)
  <2>1. starts \in [1 .. Len(Lasts(profile, chosen)) -> Int]
    BY <1>5
  <2> QED BY <1>5, <2>1, FeasibleMeans
<1> HIDE DEF lasts, n, windows, S, E
<1>7. \A k \in 1 .. n : k - 1 \in 0 .. n /\ k \in 0 .. n /\ starts[k] \in Int /\ lasts[k] \in Nat
                        /\ (k # 1 => k - 1 \in 1 .. n /\ (k - 1) - 1 \in 0 .. n)
  BY <1>1, <1>4, <1>5
<1>8. \A i, k \in 1 .. n : i <= k => starts[k] >= starts[i] + (g[k - 1] - g[i - 1])
  <2> SUFFICES ASSUME NEW i \in 1 .. n
               PROVE  \A k \in 1 .. n : i <= k => starts[k] >= starts[i] + (g[k - 1] - g[i - 1])
    OBVIOUS
  <2> DEFINE Bad == {k \in 1 .. n : i <= k /\ ~(starts[k] >= starts[i] + (g[k - 1] - g[i - 1]))}
  <2> SUFFICES ASSUME Bad # {} PROVE FALSE
    OBVIOUS
  <2>1. PICK k \in Bad : \A x \in Bad : k <= x
    <3>1. Bad \subseteq Nat
      OBVIOUS
    <3> HIDE DEF Bad
    <3> QED BY <3>1, RegistryHolds, RP!LeastOf
  <2>2. k \in 1 .. n /\ i <= k /\ ~(starts[k] >= starts[i] + (g[k - 1] - g[i - 1]))
    BY <2>1
  <2>3. g[i - 1] \in Nat /\ starts[i] \in Int /\ g[k - 1] \in Nat /\ starts[k] \in Int
    BY <1>3, <1>7, <2>2
  <2>4. k # i
    BY <2>2, <2>3
  <2>5. k - 1 \in 1 .. n /\ i <= k - 1 /\ ~(k <= k - 1) /\ k # 1
    BY <1>1, <2>2, <2>4
  <2>6. starts[k - 1] >= starts[i] + (g[(k - 1) - 1] - g[i - 1])
    BY <2>1, <2>5
  <2>7. /\ g[k - 1] = g[(k - 1) - 1] + lasts[k - 1] /\ g[(k - 1) - 1] \in Nat /\ lasts[k - 1] \in Nat
        /\ starts[k - 1] \in Int /\ starts[k] >= starts[k - 1] + lasts[k - 1]
    BY <1>3, <1>6, <1>7, <2>2, <2>5
  <2> HIDE DEF Bad
  <2> QED BY <2>2, <2>3, <2>6, <2>7
<1>9. starts[1] >= S /\ 1 \in 1 .. n /\ n \in 1 .. n
  BY <1>1, <1>6
<1>10. starts[n] + lasts[n] <= E /\ g[n] = g[n - 1] + lasts[n] /\ g[n - 1] \in Nat /\ g[n] \in Nat
  BY <1>2, <1>3, <1>6, <1>7, <1>9
<1>11. ASSUME NEW i \in 1 .. n
       PROVE  S + g[i - 1] <= starts[i] /\ starts[i] <= E - (g[n] - g[i - 1])
  <2>1. g[i - 1] \in Nat /\ starts[i] \in Int /\ starts[1] \in Int /\ starts[n] \in Int /\ lasts[n] \in Nat
    BY <1>3, <1>7, <1>9
  <2>2. starts[i] >= starts[1] + (g[i - 1] - g[1 - 1]) /\ g[1 - 1] = 0
    BY <1>1, <1>3, <1>8, <1>9
  <2>3. starts[n] >= starts[i] + (g[n - 1] - g[i - 1])
    BY <1>1, <1>8, <1>9
  <2> QED BY <1>2, <1>9, <1>10, <2>1, <2>2, <2>3
<1>12. S + g[n] <= E
  <2>1. S + g[1 - 1] <= starts[1] /\ starts[1] <= E - (g[n] - g[1 - 1]) /\ g[1 - 1] = 0 /\ starts[1] \in Int
    BY <1>3, <1>7, <1>9, <1>11
  <2> QED BY <1>2, <1>10, <2>1
<1>13. ASSUME NEW i \in DOMAIN chosen
       PROVE  starts[i] \in S + g[i - 1] .. E - (g[n] - g[i - 1])
  <2>1. i \in 1 .. n
    BY <1>1, <1>13
  <2>2. S + g[i - 1] <= starts[i] /\ starts[i] <= E - (g[n] - g[i - 1])
    BY <1>11, <2>1
  <2>3. g[i - 1] \in Nat /\ starts[i] \in Int
    BY <1>3, <1>7, <2>1
  <2> QED BY <1>2, <1>10, <2>2, <2>3
<1> QED BY <1>12, <1>13 DEF n, lasts, S, E

LEMMA WindowsOf ==
  ASSUME NEW profile, ProfileSound(profile), NEW chosen \in ChoicesOf(profile)
  PROVE  LET windows == Schedule(profile, chosen)
             starts == StartsOf(profile, chosen)
         IN  /\ IsSchedulable(profile, chosen) <=> starts # {}
             /\ \A s \in starts, i \in DOMAIN chosen :
                  s[i] \in windows[i].earliest_start .. windows[i].latest_start
             /\ IsSchedulable(profile, chosen) =>
                  \A i \in DOMAIN chosen :
                    {windows[i].earliest_start, windows[i].latest_start} \subseteq {s[i] : s \in starts}
<1> DEFINE n == Len(Lasts(profile, chosen))
           windows == Schedule(profile, chosen)
           starts == StartsOf(profile, chosen)
           S == profile.start_time
           E == profile.end_time
<1>1. PICK g : Running(Lasts(profile, chosen), g)
  BY LastsAre, RunningSums
<1>2. /\ n \in Nat \ {0} /\ DOMAIN chosen = 1 .. n
      /\ \A i \in 1 .. n : /\ windows[i].earliest_start = S + g[i - 1]
                           /\ windows[i].latest_start = E - (g[n] - g[i - 1])
  BY <1>1, WindowsAre
<1>3. IsSchedulable(profile, chosen) <=> S + g[n] <= E
  BY <1>1, SchedulableMeans
<1>4. /\ \A s \in starts : S + g[n] <= E
      /\ \A s \in starts : \A i \in DOMAIN chosen : s[i] \in S + g[i - 1] .. E - (g[n] - g[i - 1])
  BY <1>1, FeasibleLiesWithin
<1>5. \A c \in Int : S <= c /\ c + g[n] <= E => [i \in DOMAIN chosen |-> c + g[i - 1]] \in starts
  BY <1>1, EndToEndIsFeasible
<1>6. S \in Nat /\ E \in Nat /\ \A i \in 0 .. n : g[i] \in Nat
  BY <1>1 DEF ProfileSound, DecodedProfile, Running
<1>7. g[n] \in Nat
  <2>1. n \in 0 .. n
    BY <1>2
  <2> QED BY <1>6, <2>1
<1> DEFINE early == [i \in DOMAIN chosen |-> S + g[i - 1]]
           late == [i \in DOMAIN chosen |-> (E - g[n]) + g[i - 1]]
<1> HIDE DEF n, windows, starts, S, E
<1>8. S + g[n] <= E => early \in starts /\ late \in starts
  <2>1. S \in Int /\ E - g[n] \in Int /\ (S + g[n] <= E => S <= E - g[n]) /\ (E - g[n]) + g[n] <= E /\ S <= S
    BY <1>6, <1>7
  <2> QED BY <1>5, <2>1
<1>9. IsSchedulable(profile, chosen) <=> starts # {}
  BY <1>3, <1>4, <1>8
<1>10. \A i \in DOMAIN chosen : /\ early[i] = windows[i].earliest_start
                                /\ late[i] = windows[i].latest_start
  <2> SUFFICES ASSUME NEW i \in 1 .. n
               PROVE  early[i] = windows[i].earliest_start /\ late[i] = windows[i].latest_start
    BY <1>2
  <2>1. i - 1 \in 0 .. n
    BY <1>2
  <2>2. g[i - 1] \in Nat
    BY <1>6, <2>1
  <2>3. (E - g[n]) + g[i - 1] = E - (g[n] - g[i - 1])
    BY <1>6, <1>7, <2>2
  <2> QED BY <1>2, <2>3
<1>11. \A s \in starts, i \in DOMAIN chosen :
         s[i] \in windows[i].earliest_start .. windows[i].latest_start
  BY <1>2, <1>4
<1> HIDE DEF early, late
<1>12. IsSchedulable(profile, chosen) =>
         \A i \in DOMAIN chosen :
           {windows[i].earliest_start, windows[i].latest_start} \subseteq {s[i] : s \in starts}
  BY <1>3, <1>8, <1>10
<1> QED BY <1>9, <1>11, <1>12 DEF windows, starts

\* The windows schedule gives for a choice of sequences (model/mod.rs) are those
\* check_starts leaves: no time outside them passes, and both their ends do.
THEOREM WindowsHold == Spec => []WindowsAreExact
<1>1. PublicationsHold => WindowsAreExact
  <2> SUFFICES ASSUME PublicationsHold, NEW profile \in Profiles, NEW chosen \in ChoicesOf(profile)
               PROVE  LET windows == Schedule(profile, chosen)
                          starts == StartsOf(profile, chosen)
                      IN  /\ IsSchedulable(profile, chosen) <=> starts # {}
                          /\ \A s \in starts, i \in DOMAIN chosen :
                               s[i] \in windows[i].earliest_start .. windows[i].latest_start
                          /\ IsSchedulable(profile, chosen) =>
                               \A i \in DOMAIN chosen :
                                 {windows[i].earliest_start, windows[i].latest_start}
                                   \subseteq {s[i] : s \in starts}
    BY DEF WindowsAreExact
  <2>1. ProfileSound(profile)
    BY DEF Profiles, PublicationsHold
  <2> QED BY <2>1, WindowsOf
<1> QED BY <1>1, AlwaysPublished, PTL

-----------------------------------------------------------------------------
(* The warning that a window is too short. *)

LEMMA ByIdReturns ==
  ASSUME NEW s, IsList(s), NEW i \in DOMAIN s, \A j, k \in DOMAIN s : s[j].id = s[k].id => j = k
  PROVE  ById(s, s[i].id) = s[i] /\ s[i] # Absent
<1> DEFINE I == {j \in 1 .. Len(s) : s[j].id = s[i].id}
<1>1. Len(s) \in Nat /\ DOMAIN s = 1 .. Len(s) /\ Absent \notin Range(s)
  BY DEF IsList
<1>2. I = {i} /\ i # 0
  BY <1>1
<1>3. Min({i}) = i
  BY <1>1 DEF Min
<1>4. ById(s, s[i].id) = s[i]
  BY <1>2, <1>3 DEF ById, First, SelectInSeq
<1> QED BY <1>1, <1>4 DEF Range

\* How long the shortest sequence of each container takes.
Shorts(containers) == [i \in DOMAIN containers |-> Shortest(containers[i])]

LEMMA ShortestIs ==
  ASSUME NEW profile, ProfileSound(profile), NEW c \in Range(profile.power_sequence_containers)
  PROVE  /\ Shortest(c) \in Nat
         /\ \E s \in Range(c.power_sequences) : TotalDuration(s.elements) = Shortest(c)
         /\ \A s \in Range(c.power_sequences) : Shortest(c) <= TotalDuration(s.elements)
<1> DEFINE D == {TotalDuration(s.elements) : s \in Range(c.power_sequences)}
<1>1. /\ IsList(c.power_sequences) /\ c.power_sequences # <<>>
      /\ \A s \in Range(c.power_sequences) : DecodedSequence(s)
  BY DEF ProfileSound, DecodedProfile
<1>2. D \in SUBSET Nat
  BY <1>1, TotalIsNat DEF DecodedSequence
<1>3. D # {}
  <2>1. 1 \in DOMAIN c.power_sequences
    BY <1>1, EmptySeq DEF IsList
  <2>2. c.power_sequences[1] \in Range(c.power_sequences)
    BY <2>1 DEF Range
  <2> QED BY <2>2
<1> HIDE DEF D
<1>4. Min(D) \in D /\ \A x \in D : Min(D) <= x
  BY <1>2, <1>3, MinOf
<1>5. Shortest(c) = Min(D)
  BY DEF Shortest, D
<1>6. \A s \in Range(c.power_sequences) : TotalDuration(s.elements) \in D
  BY DEF D
<1>7. \E s \in Range(c.power_sequences) : TotalDuration(s.elements) = Min(D)
  <2> DEFINE x == Min(D)
  <2>1. x \in D
    BY <1>4
  <2> HIDE DEF x
  <2>2. \E s \in Range(c.power_sequences) : TotalDuration(s.elements) = x
    BY <2>1 DEF D
  <2> QED BY <2>2 DEF x
<1> QED BY <1>2, <1>4, <1>5, <1>6, <1>7

LEMMA ShortsAre ==
  ASSUME NEW profile, ProfileSound(profile)
  PROVE  LET containers == profile.power_sequence_containers IN
           /\ Len(containers) \in Nat \ {0} /\ DOMAIN containers = 1 .. Len(containers)
           /\ Shorts(containers) \in Seq(Nat) /\ Len(Shorts(containers)) = Len(containers)
<1> DEFINE containers == profile.power_sequence_containers
           n == Len(containers)
           s == Shorts(containers)
<1>1. IsList(containers) /\ containers # <<>>
  BY DEF ProfileSound, DecodedProfile
<1>2. \A i \in DOMAIN containers : Shortest(containers[i]) \in Nat
  BY ShortestIs DEF Range
<1> HIDE DEF containers
<1>3. n \in Nat \ {0} /\ DOMAIN containers = 1 .. n
  BY <1>1, EmptySeq DEF IsList
<1>4. s \in [1 .. n -> Nat]
  BY <1>2, <1>3 DEF Shorts
<1> HIDE DEF n, s
<1>5. s \in Seq(Nat) /\ Len(s) = n
  BY <1>3, <1>4, LenProperties, IsASeq
<1> QED BY <1>3, <1>5 DEF s, n, containers

\* No choice is shorter than the shortest sequences, which can be chosen.
LEMMA ShortsAreLeast ==
  ASSUME NEW profile, ProfileSound(profile), NEW chosen \in ChoicesOf(profile)
  PROVE  Sum(Shorts(profile.power_sequence_containers)) <= Sum(Lasts(profile, chosen))
<1> DEFINE containers == profile.power_sequence_containers
           n == Len(containers)
           s == Shorts(containers)
           t == Lasts(profile, chosen)
<1>1. s \in Seq(Nat) /\ Len(s) = n /\ t \in Seq(Nat) /\ Len(t) = n /\ DOMAIN containers = 1 .. n
      /\ DOMAIN chosen = 1 .. n
  BY ShortsAre, LastsAre, ChoiceIs
<1>2. ASSUME NEW i \in 1 .. n PROVE s[i] <= t[i]
  <2> DEFINE x == Resolve(profile, chosen[i][1], chosen[i][2])
  <2>1. x \in Range(containers[i].power_sequences)
    BY ChoiceIs
  <2>2. containers[i] \in Range(containers)
    BY <1>1 DEF Range
  <2> HIDE DEF x
  <2>3. Shortest(containers[i]) <= TotalDuration(x.elements)
    BY <2>1, <2>2, ShortestIs
  <2>4. s[i] = Shortest(containers[i]) /\ t[i] = TotalDuration(x.elements)
    BY <1>1 DEF Shorts, Lasts, x
  <2> QED BY <2>3, <2>4
<1> HIDE DEF s, t, n
<1>3. Sum(s) <= Sum(t)
  BY <1>1, <1>2, SumsCompare
<1> QED BY <1>3 DEF s, t

LEMMA ShortestIsAChoice ==
  ASSUME NEW profile, ProfileSound(profile)
  PROVE  \E chosen \in ChoicesOf(profile) :
           Lasts(profile, chosen) = Shorts(profile.power_sequence_containers)
<1> DEFINE containers == profile.power_sequence_containers
           Best(c) == CHOOSE s \in Range(c.power_sequences) : TotalDuration(s.elements) = Shortest(c)
           chosen == [i \in DOMAIN containers |-> <<containers[i].id, Best(containers[i]).id>>]
<1>1. /\ IsList(containers)
      /\ \A c \in Range(containers) : IsList(c.power_sequences)
      /\ \A i, j \in DOMAIN containers : containers[i].id = containers[j].id => i = j
      /\ \A c \in Range(containers) : \A i, j \in DOMAIN c.power_sequences :
           c.power_sequences[i].id = c.power_sequences[j].id => i = j
  BY DEF ProfileSound, DecodedProfile
<1>2. ASSUME NEW c \in Range(containers)
      PROVE  Best(c) \in Range(c.power_sequences) /\ TotalDuration(Best(c).elements) = Shortest(c)
  <2>1. \E s \in Range(c.power_sequences) : TotalDuration(s.elements) = Shortest(c)
    BY ShortestIs
  <2> QED BY <2>1
<1> HIDE DEF Best
<1>3. ASSUME NEW i \in DOMAIN containers
      PROVE  /\ Resolve(profile, containers[i].id, Best(containers[i]).id) = Best(containers[i])
             /\ Best(containers[i]) # Absent
             /\ Best(containers[i]).id \in Ids(containers[i].power_sequences)
  <2> DEFINE c == containers[i]
  <2>1. c \in Range(containers)
    BY DEF Range
  <2>2. ById(containers, c.id) = c /\ c # Absent
    BY <1>1, ByIdReturns
  <2> HIDE DEF c
  <2>3. PICK j \in DOMAIN c.power_sequences : Best(c) = c.power_sequences[j]
    BY <1>2, <2>1 DEF Range
  <2>4. ById(c.power_sequences, Best(c).id) = Best(c) /\ Best(c) # Absent
    BY <1>1, <2>1, <2>3, ByIdReturns
  <2>5. Resolve(profile, c.id, Best(c).id) = Best(c)
    BY <2>2, <2>4 DEF Resolve
  <2> QED BY <2>3, <2>4, <2>5 DEF c, Ids
<1>4. DOMAIN chosen = DOMAIN containers
      /\ \A i \in DOMAIN containers : chosen[i][1] = containers[i].id /\ chosen[i][2] = Best(containers[i]).id
  OBVIOUS
<1>5. chosen \in [DOMAIN containers -> UNION {{<<c.id, id>> : id \in Ids(c.power_sequences)} :
                                              c \in Range(containers)}]
  <2> SUFFICES ASSUME NEW i \in DOMAIN containers
               PROVE  <<containers[i].id, Best(containers[i]).id>>
                        \in UNION {{<<c.id, id>> : id \in Ids(c.power_sequences)} : c \in Range(containers)}
    OBVIOUS
  <2>1. containers[i] \in Range(containers)
    BY DEF Range
  <2> QED BY <1>3, <2>1
<1> HIDE DEF chosen
<1>6. ScheduleError(profile, chosen) = Absent
  <2>1. [i \in DOMAIN containers |-> containers[i].id] = [i \in DOMAIN chosen |-> chosen[i][1]]
    BY <1>4
  <2>2. \A i \in DOMAIN chosen : Resolve(profile, chosen[i][1], chosen[i][2]) # Absent
    BY <1>3, <1>4
  <2> QED BY <2>1, <2>2 DEF ScheduleError
<1>7. chosen \in ChoicesOf(profile)
  BY <1>5, <1>6 DEF ChoicesOf
<1>8. Lasts(profile, chosen) = Shorts(containers)
  <2>1. \A i \in DOMAIN containers :
          TotalDuration(Resolve(profile, chosen[i][1], chosen[i][2]).elements) = Shortest(containers[i])
    <3> SUFFICES ASSUME NEW i \in DOMAIN containers
                 PROVE  TotalDuration(Resolve(profile, chosen[i][1], chosen[i][2]).elements)
                          = Shortest(containers[i])
      OBVIOUS
    <3>1. containers[i] \in Range(containers)
      BY DEF Range
    <3> QED BY <1>2, <1>3, <1>4, <3>1
  <2> QED BY <1>4, <2>1 DEF Lasts, Shorts
<1> QED BY <1>7, <1>8

\* The rule measures the shortest sequences, end to end.
LEMMA TooShortMeans ==
  ASSUME NEW profile, ProfileSound(profile), NEW window \in Nat
  PROVE  WindowTooShort(profile.power_sequence_containers, window)
           <=> Sum(Shorts(profile.power_sequence_containers)) > window
<1> DEFINE containers == profile.power_sequence_containers
           n == Len(containers)
           s == Shorts(containers)
<1>1. n \in Nat \ {0} /\ DOMAIN containers = 1 .. n /\ s \in Seq(Nat) /\ Len(s) = n
  BY ShortsAre
<1>2. \A i \in 1 .. n : containers[i].power_sequences # <<>>
  BY <1>1 DEF ProfileSound, Range
<1>3. \A i \in 1 .. n : s[i] = Shortest(containers[i])
  BY <1>1 DEF Shorts
<1>4. s = [i \in DOMAIN containers |-> Shortest(containers[i])]
  BY DEF Shorts
<1> HIDE DEF containers, n, s
<1>5. WindowTooShort(containers, window) <=>
        (\E i \in 1 .. n : s[i] > window) \/ (n > 1 /\ Sum(s) > window)
  BY <1>1, <1>2, <1>3, <1>4 DEF WindowTooShort, n
<1>6. Sum(s) \in Nat /\ \A i \in 1 .. n : s[i] \in Nat /\ s[i] <= Sum(s)
  BY <1>1, RunningSums, SumOfAll, PartOfSum
<1>7. n = 1 => Sum(s) = s[1]
  <2> SUFFICES ASSUME n = 1 PROVE Sum(s) = s[1]
    OBVIOUS
  <2>1. PICK g : Running(s, g)
    BY <1>1, RunningSums
  <2>2. 1 \in 1 .. n /\ 1 - 1 = 0
    OBVIOUS
  <2>3. g[1] = g[0] + s[1] /\ g[0] = 0
    BY <1>1, <2>1, <2>2 DEF Running
  <2>4. Sum(s) = g[1]
    BY <1>1, <2>1, SumOfAll
  <2> QED BY <1>6, <2>2, <2>3, <2>4
<1>8. 1 \in 1 .. n
  BY <1>1
<1>9. (\E i \in 1 .. n : s[i] > window) => Sum(s) > window
  BY <1>6
<1>10. Sum(s) > window => (\E i \in 1 .. n : s[i] > window) \/ n > 1
  BY <1>1, <1>7, <1>8
<1> QED BY <1>5, <1>9, <1>10 DEF s, containers

\* Nothing else reports that a window is too short.
LEMMA TooShortIsReported ==
  ASSUME NEW profile, ProfileSound(profile), NEW ctx
  PROVE  "PPBC_WINDOW_TOO_SHORT" \in Judge(ctx, profile)
           <=> WindowTooShort(profile.power_sequence_containers, profile.end_time - profile.start_time)
<1> DEFINE rule == "PPBC_WINDOW_TOO_SHORT"
           containers == profile.power_sequence_containers
           CheckSequence(s) ==
             CheckArray(s.elements, 1, 288)
               \cup Over(s.elements, LAMBDA e : CheckForecastValues(e.power_values))
           CheckContainer(c) ==
             CheckArray(c.power_sequences, 1, 288) \cup CheckUniqueIds(c.power_sequences)
               \cup Over(c.power_sequences, CheckSequence)
           each == Over(containers, CheckContainer)
           window == IF profile.end_time < profile.start_time THEN 0
                     ELSE profile.end_time - profile.start_time
<1>1. Judge(ctx, profile) = CheckEnvelope(ctx, profile.kind, profile.message_id)
                              \cup CheckPpbcPowerProfileDefinition(ctx, profile)
  BY DEF Judge, BelongsTo, DescriptionsAndStatuses, Instructions, CheckPower, ProfileSound
<1>2. CheckPpbcPowerProfileDefinition(ctx, profile) =
        CheckArray(containers, 1, 1000) \cup CheckScheduled(ctx, profile.start_time)
          \cup When(profile.end_time < profile.start_time, "PPBC_WINDOW") \cup CheckUniqueIds(containers)
          \cup each \cup When(WindowTooShort(containers, window), rule)
  BY DEF CheckPpbcPowerProfileDefinition
<1>3. rule \notin each
  <2>1. \A s, a, b : rule \notin CheckArray(s, a, b)
    BY DEF CheckArray, When
  <2>2. \A s : rule \notin CheckUniqueIds(s) /\ rule \notin CheckUniqueQuantities(s)
    BY DEF CheckUniqueIds, CheckUniqueQuantities, When
  <2>3. \A bands : rule \notin CheckPercentiles(bands)
    BY DEF CheckPercentiles, Over, CheckFinite, When
  <2>4. \A values : rule \notin CheckForecastValues(values)
    BY <2>1, <2>2, <2>3 DEF CheckForecastValues, Over
  <2>5. \A s : rule \notin CheckSequence(s)
    BY <2>1, <2>4 DEF Over
  <2> HIDE DEF CheckSequence
  <2>6. \A c : rule \notin CheckContainer(c)
    BY <2>1, <2>2, <2>5 DEF Over
  <2> HIDE DEF CheckContainer
  <2> QED BY <2>6 DEF Over
<1>4. rule \notin CheckEnvelope(ctx, profile.kind, profile.message_id)
  BY DEF CheckEnvelope, When
<1>5. /\ rule \notin CheckArray(containers, 1, 1000) /\ rule \notin CheckUniqueIds(containers)
      /\ rule \notin CheckScheduled(ctx, profile.start_time)
      /\ rule \notin When(profile.end_time < profile.start_time, "PPBC_WINDOW")
  BY DEF CheckArray, CheckUniqueIds, CheckScheduled, When
<1>6. window = profile.end_time - profile.start_time
  BY DEF ProfileSound, DecodedProfile
<1> HIDE DEF each, window
<1> QED BY <1>1, <1>2, <1>3, <1>4, <1>5, <1>6 DEF When

\* The warning PPBC_WINDOW_TOO_SHORT (validate/messages.rs) and the windows of
\* the device model agree: it comes exactly when no choice of sequences can be
\* scheduled.
THEOREM TooShortIsTrue == Spec => []TooShortMeansUnschedulable
<1>1. PublicationsHold => TooShortMeansUnschedulable
  <2> SUFFICES ASSUME PublicationsHold, NEW profile \in Profiles
               PROVE  "PPBC_WINDOW_TOO_SHORT" \in Judge(EmptyContext, profile)
                        <=> \A chosen \in ChoicesOf(profile) : ~IsSchedulable(profile, chosen)
    BY DEF TooShortMeansUnschedulable
  <2> DEFINE S == profile.start_time
             E == profile.end_time
             least == Sum(Shorts(profile.power_sequence_containers))
  <2>1. ProfileSound(profile)
    BY DEF Profiles, PublicationsHold
  <2>2. S \in Nat /\ E \in Nat /\ E - S \in Nat
    BY <2>1 DEF ProfileSound, DecodedProfile
  <2>3. "PPBC_WINDOW_TOO_SHORT" \in Judge(EmptyContext, profile) <=> least > E - S
    BY <2>1, <2>2, TooShortIsReported, TooShortMeans
  <2>4. least \in Nat
    BY <2>1, ShortsAre, RunningSums, SumOfAll
  <2>5. ASSUME NEW chosen \in ChoicesOf(profile)
        PROVE  /\ IsSchedulable(profile, chosen) <=> S + Sum(Lasts(profile, chosen)) <= E
               /\ Sum(Lasts(profile, chosen)) \in Nat /\ least <= Sum(Lasts(profile, chosen))
    <3>1. PICK g : Running(Lasts(profile, chosen), g)
      BY <2>1, LastsAre, RunningSums
    <3>2. Sum(Lasts(profile, chosen)) = g[Len(Lasts(profile, chosen))] /\ Sum(Lasts(profile, chosen)) \in Nat
      BY <2>1, <3>1, LastsAre, SumOfAll
    <3> QED BY <2>1, <3>1, <3>2, SchedulableMeans, ShortsAreLeast
  <2>6. PICK best \in ChoicesOf(profile) : Sum(Lasts(profile, best)) = least
    BY <2>1, ShortestIsAChoice
  <2> HIDE DEF S, E, least
  <2>7. ASSUME least > E - S, NEW chosen \in ChoicesOf(profile)
        PROVE  ~IsSchedulable(profile, chosen)
    <3> DEFINE x == Sum(Lasts(profile, chosen))
    <3>1. x \in Nat /\ least <= x /\ (IsSchedulable(profile, chosen) <=> S + x <= E)
      BY <2>5
    <3> HIDE DEF x
    <3> QED BY <2>2, <2>4, <2>7, <3>1
  <2>8. ASSUME ~(least > E - S) PROVE IsSchedulable(profile, best)
    BY <2>2, <2>4, <2>5, <2>6, <2>8
  <2> QED BY <2>3, <2>6, <2>7, <2>8
<1> QED BY <1>1, AlwaysPublished, PTL
-----------------------------------------------------------------------------
(* The limits an instruction sets. *)

\* Elements last one after the other: a time lies in one of them until all are over.
LEMMA ElapsingIs ==
  ASSUME NEW elements, IsList(elements), \A e \in Range(elements) : e.duration \in Nat,
         NEW offset \in Nat
  PROVE  /\ Elapsing(elements, offset) # Absent <=> offset < TotalDuration(elements)
         /\ Elapsing(elements, offset) # Absent => Elapsing(elements, offset) \in Range(elements)
<1> DEFINE s == [i \in DOMAIN elements |-> elements[i].duration]
           n == Len(elements)
           upTo(i) == [j \in 1 .. i |-> elements[j].duration]
           ends == [i \in DOMAIN elements |-> Sum(upTo(i))]
           I == {i \in 1 .. Len(ends) : offset < ends[i]}
           found == SelectInSeq(ends, LAMBDA end : offset < end)
<1>1. n \in Nat /\ DOMAIN elements = 1 .. n /\ Absent \notin Range(elements)
  BY DEF IsList
<1>2. s \in Seq(Nat) /\ Len(s) = n
  BY TotalIsNat
<1>3. PICK g : Running(s, g)
  BY <1>2, RunningSums
<1>4. \A i \in 0 .. n : g[i] \in Nat
  BY <1>2, <1>3 DEF Running
<1>5. TotalDuration(elements) = g[n] /\ g[0] = 0
  BY <1>2, <1>3, SumOfAll DEF TotalDuration, Running
<1>6. \A i \in 1 .. n : SubSeq(s, 1, i) = upTo(i)
  BY <1>1, <1>2
<1> HIDE DEF s, n, upTo
<1>7. \A i \in 1 .. n : i \in 0 .. n /\ 1 \in 1 .. n + 1 /\ 1 <= i + 1 /\ n \in i .. n
  BY <1>1
<1>8. \A i \in 1 .. n : Sum(upTo(i)) = g[i]
  <2> SUFFICES ASSUME NEW i \in 1 .. n PROVE Sum(upTo(i)) = g[i]
    OBVIOUS
  <2>1. Sum(SubSeq(s, 1, i)) = g[i] - g[1 - 1]
    BY <1>2, <1>3, <1>7, SumFromTo
  <2>2. g[i] \in Nat /\ g[1 - 1] = 0
    BY <1>4, <1>5, <1>7
  <2> DEFINE x == Sum(SubSeq(s, 1, i))
  <2>3. x = Sum(upTo(i))
    BY <1>6
  <2> HIDE DEF x
  <2>4. x = g[i]
    BY <2>1, <2>2 DEF x
  <2> QED BY <2>3, <2>4
<1>9. Len(ends) = n /\ \A i \in 1 .. n : ends[i] = g[i]
  <2>1. DOMAIN ends = 1 .. n
    BY <1>1
  <2>2. Len(ends) = n
    BY <1>1, <2>1, LenProperties
  <2> QED BY <1>1, <1>8, <2>2
<1>10. found = IF I # {} THEN Min(I) ELSE 0
  BY DEF SelectInSeq
<1>11. Elapsing(elements, offset) = IF found = 0 THEN Absent ELSE elements[found]
  BY DEF Elapsing, upTo
<1> HIDE DEF ends, found
<1>12. I \in SUBSET (1 .. n) /\ I \in SUBSET Nat /\ \A i \in 1 .. n : i \in I <=> offset < g[i]
  BY <1>1, <1>9
<1> HIDE DEF I
<1>13. I # {} => found \in 1 .. n /\ found # 0
  <2> SUFFICES ASSUME I # {} PROVE found \in 1 .. n /\ found # 0
    OBVIOUS
  <2>1. Min(I) \in I
    BY <1>12, MinOf
  <2>2. found = Min(I)
    BY <1>10
  <2>3. found \in 1 .. n
    BY <1>12, <2>1, <2>2
  <2> QED BY <1>1, <2>3
<1>14. I # {} <=> offset < g[n]
  <2>1. ASSUME NEW i \in I PROVE offset < g[n]
    <3>1. i \in 1 .. n /\ i \in 0 .. n /\ n \in 0 .. n /\ offset < g[i]
      BY <1>1, <1>7, <1>12
    <3>2. g[i] <= g[n]
      BY <1>2, <1>3, <1>7, <3>1, RunningGrows
    <3>3. g[i] \in Nat /\ g[n] \in Nat
      BY <1>4, <3>1
    <3> QED BY <3>1, <3>2, <3>3
  <2>2. ASSUME offset < g[n] PROVE n \in I
    <3>1. n # 0
      BY <1>5, <2>2
    <3> QED BY <1>1, <1>12, <2>2, <3>1
  <2> QED BY <2>1, <2>2
<1>15. I # {} => elements[found] \in Range(elements)
  BY <1>1, <1>13 DEF Range
<1> QED BY <1>1, <1>5, <1>10, <1>11, <1>13, <1>14, <1>15

\* Each quantity has one envelope, which a lookup finds.
LEMMA EnvelopeIsFound ==
  ASSUME NEW m, IsList(m.power_envelopes), IsInjective(QuantitiesIn(m.power_envelopes)),
         NEW e \in Range(m.power_envelopes)
  PROVE  EnvelopeFor(m, e.quantity) = e /\ e # Absent
<1> DEFINE s == m.power_envelopes
<1>1. Len(s) \in Nat /\ DOMAIN s = 1 .. Len(s) /\ Absent \notin Range(s)
  BY DEF IsList
<1>2. PICK i \in DOMAIN s : s[i] = e
  BY DEF Range
<1> DEFINE I == {j \in 1 .. Len(s) : s[j].quantity = e.quantity}
<1>3. \A j, k \in DOMAIN s : s[j].quantity = s[k].quantity => j = k
  BY DEF IsInjective, QuantitiesIn
<1> HIDE DEF s
<1>4. I = {i} /\ i # 0 /\ Min({i}) = i
  BY <1>1, <1>2, <1>3 DEF Min
<1>5. First(s, LAMBDA x : x.quantity = e.quantity) = s[i]
  BY <1>4 DEF First, SelectInSeq
<1> QED BY <1>1, <1>2, <1>5 DEF EnvelopeFor, s, Range

\* What is known of the limits of an instruction without errors.
LEMMA EnvelopesAreClean ==
  ASSUME NEW ctx, NEW m, CheckPebcInstruction(ctx, m) \subseteq Warnings, DecodedEnvelopes(m)
  PROVE  /\ IsInjective(QuantitiesIn(m.power_envelopes))
         /\ \A e \in Range(m.power_envelopes) : \A x \in Range(e.power_envelope_elements) :
              /\ x.lower_limit \in Int /\ x.upper_limit \in Int /\ x.lower_limit <= x.upper_limit
              /\ Has(ctx.pebc_constraints, m.power_constraints_id) =>
                   LET c == Get(ctx.pebc_constraints, m.power_constraints_id) IN
                     /\ CheckWithinAllowed(c, e.quantity, "UPPER_LIMIT", x.upper_limit,
                                           m.abnormal_condition) \subseteq Warnings
                     /\ CheckWithinAllowed(c, e.quantity, "LOWER_LIMIT", x.lower_limit,
                                           m.abnormal_condition) \subseteq Warnings
<1>1. IsInjective(QuantitiesIn(m.power_envelopes))
  <2>1. When(~IsInjective(QuantitiesIn(m.power_envelopes)), "PEBC_ONE_ENVELOPE_PER_QUANTITY")
          \subseteq Warnings
    BY DEF CheckPebcInstruction
  <2> QED BY <2>1 DEF When, Warnings
<1>2. ASSUME NEW e \in Range(m.power_envelopes), NEW y \in Range(e.power_envelope_elements)
      PROVE  y.lower_limit \in Int /\ y.upper_limit \in Int /\ y.lower_limit <= y.upper_limit
  <2>1. CheckLimits(e) \subseteq Warnings
    BY DEF CheckPebcInstruction, Over, Range
  <2> DEFINE Check(x) ==
               CheckFinite(x.lower_limit) \cup CheckFinite(x.upper_limit)
                 \cup When(/\ IsFinite(x.lower_limit) /\ IsFinite(x.upper_limit)
                           /\ x.lower_limit > x.upper_limit, "PEBC_ENVELOPE_LIMIT_ORDER")
  <2> DEFINE s == e.power_envelope_elements
  <2>2. \A i \in DOMAIN s : Check(s[i]) \subseteq CheckLimits(e)
    BY ZenonT(60) DEF CheckLimits, Over
  <2> HIDE DEF Check
  <2>3. Check(y) \subseteq Warnings
    BY <2>1, <2>2 DEF Range
  <2>4. /\ CheckFinite(y.lower_limit) \subseteq Warnings /\ CheckFinite(y.upper_limit) \subseteq Warnings
        /\ When(/\ IsFinite(y.lower_limit) /\ IsFinite(y.upper_limit)
                /\ y.lower_limit > y.upper_limit, "PEBC_ENVELOPE_LIMIT_ORDER") \subseteq Warnings
    BY <2>3 DEF Check
  <2>5. IsFinite(y.lower_limit) /\ IsFinite(y.upper_limit)
    BY <2>4 DEF CheckFinite, When, Warnings
  <2>6. ~(y.lower_limit > y.upper_limit)
    BY <2>4, <2>5 DEF When, Warnings
  <2>7. y.lower_limit \in Int /\ y.upper_limit \in Int
    BY <2>5 DEF DecodedEnvelopes, IsNumber, IsFinite
  <2> QED BY <2>6, <2>7
<1>3. ASSUME NEW e \in Range(m.power_envelopes), NEW y \in Range(e.power_envelope_elements),
             Has(ctx.pebc_constraints, m.power_constraints_id)
      PROVE  LET c == Get(ctx.pebc_constraints, m.power_constraints_id) IN
               /\ CheckWithinAllowed(c, e.quantity, "UPPER_LIMIT", y.upper_limit,
                                     m.abnormal_condition) \subseteq Warnings
               /\ CheckWithinAllowed(c, e.quantity, "LOWER_LIMIT", y.lower_limit,
                                     m.abnormal_condition) \subseteq Warnings
  <2> DEFINE c == Get(ctx.pebc_constraints, m.power_constraints_id)
  <2>1. Over(m.power_envelopes, LAMBDA v : CheckEnvelopeIn(c, v, m.abnormal_condition))
          \subseteq Warnings
    BY <1>3 DEF CheckPebcInstruction
  <2> HIDE DEF c
  <2>2. CheckEnvelopeIn(c, e, m.abnormal_condition) \subseteq Warnings
    BY <2>1 DEF Over, Range
  <2>3. /\ CheckWithinAllowed(c, e.quantity, "UPPER_LIMIT", y.upper_limit, m.abnormal_condition)
             \subseteq Warnings
        /\ CheckWithinAllowed(c, e.quantity, "LOWER_LIMIT", y.lower_limit, m.abnormal_condition)
             \subseteq Warnings
    BY <2>2 DEF CheckEnvelopeIn, Over, Range
  <2> QED BY <2>3 DEF c
<1> QED BY <1>1, <1>2, <1>3

\* A limit that passes lies in a range that serves it.
LEMMA AllowedServes ==
  ASSUME NEW c, NEW quantity, NEW type, NEW value \in Int, NEW abnormal,
         CheckWithinAllowed(c, quantity, type, value, abnormal) \subseteq Warnings
  PROVE  \E r \in RangesFor(c, quantity, type) :
           /\ Within(r.range_boundary, value)
           /\ r.abnormal_condition_only => abnormal
<1>1. IsFinite(value)
  BY ValuesAssumption DEF IsFinite
<1> QED BY <1>1 DEF CheckWithinAllowed, Warnings

\* The limits of an instruction without errors, at any moment.
LimitsHold(m, e, at) ==
  LET limits == LimitsAt(m, e.quantity, at)
      end == m.execution_time + TotalDuration(e.power_envelope_elements)
  IN  /\ limits # Absent <=> at \in m.execution_time .. end - 1
      /\ limits # Absent =>
           \E x \in Range(e.power_envelope_elements) :
             limits = NumberRange(x.lower_limit, x.upper_limit)

LEMMA LimitsAre ==
  ASSUME NEW ctx, NEW m, CheckPebcInstruction(ctx, m) \subseteq Warnings, DecodedEnvelopes(m),
         NEW e \in Range(m.power_envelopes), NEW at \in Nat
  PROVE  LimitsHold(m, e, at)
<1> DEFINE elements == e.power_envelope_elements
           T == m.execution_time
           during == Elapsing(elements, at - T)
           total == TotalDuration(elements)
           limits == LimitsAt(m, e.quantity, at)
<1>1. EnvelopeFor(m, e.quantity) = e /\ e # Absent
  BY EnvelopesAreClean, EnvelopeIsFound DEF DecodedEnvelopes
<1>2. limits = IF at < T \/ during = Absent THEN Absent
               ELSE NumberRange(during.lower_limit, during.upper_limit)
  BY <1>1 DEF LimitsAt
<1>3. /\ T \in Nat /\ IsList(elements) /\ \A x \in Range(elements) : x.duration \in Nat
      /\ \A x \in Range(elements) : x.lower_limit \in Int /\ x.upper_limit \in Int
  BY EnvelopesAreClean DEF DecodedEnvelopes
<1>4. total \in Nat
  BY <1>3, TotalIsNat
<1>5. ASSUME T <= at
      PROVE  /\ during # Absent <=> at - T < total
             /\ during # Absent => during \in Range(elements)
  BY <1>3, <1>5, ElapsingIs
<1>6. \A x \in Range(elements) : NumberRange(x.lower_limit, x.upper_limit) # Absent
  BY <1>3, ValuesAssumption DEF NumberRange
<1> HIDE DEF elements, T, during, total, limits
<1>7. CASE at < T
  <2>1. at \notin T .. (T + total) - 1 /\ limits = Absent
    BY <1>2, <1>3, <1>4, <1>7
  <2> QED BY <2>1 DEF elements, T, total, limits, LimitsHold
<1>8. CASE T <= at
  <2>1. ~(at < T) /\ (at - T < total <=> at \in T .. (T + total) - 1)
    BY <1>3, <1>4, <1>8
  <2>2. limits # Absent <=> during # Absent
    BY <1>2, <1>5, <1>6, <1>8, <2>1
  <2>3. limits # Absent => limits = NumberRange(during.lower_limit, during.upper_limit)
    BY <1>2
  <2>4. limits # Absent =>
          \E x \in Range(elements) : limits = NumberRange(x.lower_limit, x.upper_limit)
    BY <1>5, <1>8, <2>2, <2>3
  <2>5. limits # Absent <=> at \in T .. (T + total) - 1
    BY <1>5, <1>8, <2>1, <2>2
  <2> QED BY <2>4, <2>5 DEF elements, T, total, limits, LimitsHold
<1> QED BY <1>3, <1>7, <1>8

\* The limits an accepted instruction sets (limits_at in model/mod.rs) are in force
\* exactly while its envelope lasts, and lie where its constraints allow
\* (check_within_allowed in validate/messages.rs), in every state of a session.
THEOREM EnvelopesKeepAllowed == Spec => []EnvelopeAsAllowed
<1>1. ASSUME PublicationsHold, NEW entry \in Range(pebc_energy)
      PROVE  LET window == EnergyWindow(entry.value)
             IN  /\ window # Absent /\ IsFiniteRange(window.average)
                 /\ window.average.start <= window.average.end
  <2> DEFINE c == entry.value
             window == EnergyWindow(c)
             average == NumberRange(c.lower_average_power, c.upper_average_power)
  <2>1. EnergySound(c)
    BY <1>1 DEF PublicationsHold
  <2>2. /\ c.lower_average_power \in Int /\ c.upper_average_power \in Int
        /\ c.lower_average_power <= c.upper_average_power
        /\ c.valid_until - c.valid_from \in Int /\ ~(c.valid_until < c.valid_from)
    BY <2>1 DEF EnergySound
  <2>3. window = [length |-> c.valid_until - c.valid_from, average |-> average]
    BY <2>2 DEF EnergyWindow
  <2>4. average \in [start : Int, end : Int]
    BY <2>2 DEF NumberRange
  <2>5. window \in [length : Int, average : [start : Int, end : Int]]
    BY <2>2, <2>3, <2>4
  <2>6. IsFiniteRange(average) /\ average.start <= average.end
    BY <2>2, ValuesAssumption DEF NumberRange, IsFiniteRange, IsFinite
  <2> QED BY <2>3, <2>5, <2>6, DeviceModelAssumption
<1>2. ASSUME InForceUsable, NEW m \in Accepted, selected = "PEBC",
             Has(pebc_constraints, m.power_constraints_id),
             NEW e \in Range(m.power_envelopes), NEW at \in Nat
      PROVE  LET c == Get(pebc_constraints, m.power_constraints_id)
                 end == m.execution_time + TotalDuration(e.power_envelope_elements)
                 limits == LimitsAt(m, e.quantity, at)
                 Serves(quantity, type, value) ==
                   \E r \in RangesFor(c, quantity, type) :
                     /\ Within(r.range_boundary, value)
                     /\ r.abnormal_condition_only => m.abnormal_condition
             IN  /\ limits # Absent <=> at \in m.execution_time .. end - 1
                 /\ limits # Absent =>
                      /\ limits.start <= limits.end
                      /\ Serves(e.quantity, "LOWER_LIMIT", limits.start)
                      /\ Serves(e.quantity, "UPPER_LIMIT", limits.end)
  <2> DEFINE ctx == Context("CEM")
             c == Get(pebc_constraints, m.power_constraints_id)
             limits == LimitsAt(m, e.quantity, at)
  <2>1. m \in Messages["PEBC"] /\ IsInstruction(m.kind) /\ Accepts(m) /\ Decoded(m)
    BY <1>2, JudgingAssumption DEF Accepted, Instructible, Crossing, ControlTypes
  <2>2. m.kind = "PebcInstruction"
    <3>1. PICK ct \in ControlTypes : m.kind \in Instructions[ct]
      BY <2>1 DEF IsInstruction
    <3>2. selected = ct
      BY <1>2, <2>1, <3>1, AcceptedInPlace DEF BelongsTo
    <3> QED BY <1>2, <3>1, <3>2 DEF Instructions
  <2>3. DecodedEnvelopes(m)
    BY <2>1, <2>2 DEF Decoded
  <2>4. ctx.pebc_constraints = pebc_constraints
    BY ContextIs
  <2>5. Judge(ctx, m) \subseteq Warnings
    BY <2>1, CleanReports DEF Accepts, ReportOn
  <2> HIDE DEF ctx
  <2>6. CheckPebcInstruction(ctx, m) \subseteq Warnings
    BY <2>2, <2>5, JudgesOwn
  <2>7. LimitsHold(m, e, at)
    BY <1>2, <2>3, <2>6, LimitsAre
  <2>8. ASSUME NEW x \in Range(e.power_envelope_elements)
        PROVE  /\ x.lower_limit <= x.upper_limit
               /\ \E r \in RangesFor(c, e.quantity, "LOWER_LIMIT") :
                    /\ Within(r.range_boundary, x.lower_limit)
                    /\ r.abnormal_condition_only => m.abnormal_condition
               /\ \E r \in RangesFor(c, e.quantity, "UPPER_LIMIT") :
                    /\ Within(r.range_boundary, x.upper_limit)
                    /\ r.abnormal_condition_only => m.abnormal_condition
    BY <1>2, <2>3, <2>4, <2>6, EnvelopesAreClean, AllowedServes
  <2>9. ASSUME limits # Absent
        PROVE  /\ limits.start <= limits.end
               /\ \E r \in RangesFor(c, e.quantity, "LOWER_LIMIT") :
                    /\ Within(r.range_boundary, limits.start)
                    /\ r.abnormal_condition_only => m.abnormal_condition
               /\ \E r \in RangesFor(c, e.quantity, "UPPER_LIMIT") :
                    /\ Within(r.range_boundary, limits.end)
                    /\ r.abnormal_condition_only => m.abnormal_condition
    <3>1. PICK x \in Range(e.power_envelope_elements) :
                 limits = NumberRange(x.lower_limit, x.upper_limit)
      BY <2>7, <2>9 DEF LimitsHold
    <3> HIDE DEF limits, c
    <3>2. limits.start = x.lower_limit /\ limits.end = x.upper_limit
      BY <3>1 DEF NumberRange
    <3> QED BY <2>8, <3>2
  <2> QED BY <2>7, <2>9 DEF LimitsHold
<1>3. InForceUsable /\ PublicationsHold => EnvelopeAsAllowed
  BY <1>1, <1>2 DEF EnvelopeAsAllowed
<1> QED BY <1>3, AlwaysUsable, AlwaysPublished, PTL
-----------------------------------------------------------------------------
(* What a factor yields. *)

LEMMA DivIs ==
  ASSUME NEW x \in Int, NEW u \in Nat \ {0}
  PROVE  x \div u \in Int /\ u * (x \div u) <= x /\ x < u * (x \div u) + u
OBVIOUS

LEMMA ModIs ==
  ASSUME NEW x \in Int, NEW u \in Nat \ {0}
  PROVE  x = u * (x \div u) + (x % u)
OBVIOUS

LEMMA NoneBetween ==
  ASSUME NEW x \in Int, NEW u \in Nat \ {0}, 0 <= u * x, u * x < u
  PROVE  x = 0
OBVIOUS

LEMMA DivOfMultiple ==
  ASSUME NEW k \in Int, NEW u \in Nat \ {0}
  PROVE  (u * k) \div u = k
<1> DEFINE q == (u * k) \div u
<1>1. q \in Int /\ u * q <= u * k /\ u * k < u * q + u
  BY DivIs
<1> HIDE DEF q
<1>2. u * (k - q) = u * k - u * q
  BY <1>1
<1>3. 0 <= u * (k - q) /\ u * (k - q) < u
  BY <1>1, <1>2
<1>4. k - q = 0
  BY <1>1, <1>3, NoneBetween
<1> QED BY <1>1, <1>4 DEF q

\* A part of a span lies within it, whichever way the span goes.
LEMMA PartLiesWithin ==
  ASSUME NEW d \in Int, NEW u \in Nat \ {0}, NEW f \in 0 .. u
  PROVE  /\ (d * f) \div u \in Int
         /\ 0 <= d => 0 <= (d * f) \div u /\ (d * f) \div u <= d
         /\ d <= 0 => d <= (d * f) \div u /\ (d * f) \div u <= 0
<1> DEFINE q == (d * f) \div u
<1>1. d * f \in Int /\ u \in Int /\ u > 0 /\ f \in Int /\ 0 <= f /\ f <= u
  OBVIOUS
<1>2. q \in Int /\ u * q <= d * f /\ d * f < u * q + u
  BY <1>1, DivIs
<1> HIDE DEF q
<1>3. ASSUME 0 <= d PROVE 0 <= q /\ q <= d
  <2>1. 0 <= d * f
    BY <1>1, <1>3
  <2>2. d * f <= u * d
    BY <1>1, <1>3
  <2>3. ASSUME q < 0 PROVE FALSE
    <3>1. u * q + u <= 0
      BY <1>1, <1>2, <2>3
    <3> QED BY <1>1, <1>2, <2>1, <3>1
  <2>4. ASSUME q > d PROVE FALSE
    <3>1. u * d + u <= u * q
      BY <1>1, <1>2, <2>4
    <3> QED BY <1>1, <1>2, <2>2, <3>1
  <2> QED BY <1>2, <2>3, <2>4
<1>4. ASSUME d <= 0 PROVE d <= q /\ q <= 0
  <2>1. d * f <= 0
    BY <1>1, <1>4
  <2>2. u * d <= d * f
    BY <1>1, <1>4
  <2>3. ASSUME q < d PROVE FALSE
    <3>1. u * q + u <= u * d
      BY <1>1, <1>2, <2>3
    <3> QED BY <1>1, <1>2, <2>2, <3>1
  <2>4. ASSUME q > 0 PROVE FALSE
    <3>1. u <= u * q
      BY <1>1, <1>2, <2>4
    <3> QED BY <1>1, <1>2, <2>1, <3>1
  <2> QED BY <1>2, <2>3, <2>4
<1> QED BY <1>2, <1>3, <1>4 DEF q

\* Where the span is a multiple of the unit, the part gives back what it is a part of.
LEMMA PartGivesBack ==
  ASSUME NEW d \in Int, d # 0, NEW u \in Nat \ {0}, d % u = 0, NEW f \in 0 .. u
  PROVE  /\ d > 0 => (((d * f) \div u) * u) \div d = f
         /\ d < 0 => ((-((d * f) \div u)) * u) \div (-d) = f
<1> DEFINE k == d \div u
           q == (d * f) \div u
<1>1. d = u * k /\ k \in Int
  BY ModIs, DivIs
<1>2. q = k * f
  <2>1. d * f = u * (k * f) /\ k * f \in Int
    <3> HIDE DEF k
    <3> QED BY <1>1
  <2> QED BY <2>1, DivOfMultiple
<1> HIDE DEF q, k
<1>3. q * u = d * f /\ (-q) * u = (-d) * f
  BY <1>1, <1>2
<1>4. ASSUME d > 0 PROVE (q * u) \div d = f
  BY <1>3, <1>4, DivOfMultiple
<1>5. ASSUME d < 0 PROVE ((-q) * u) \div (-d) = f
  <2>1. -d \in Nat \ {0}
    BY <1>5
  <2>2. ((-d) * f) \div (-d) = f
    BY <2>1, DivOfMultiple
  <2> QED BY <1>3, <2>2
<1> QED BY <1>4, <1>5 DEF q

\* The value at a factor lies in the range.
LEMMA AtFactorLiesWithin ==
  ASSUME NEW r, r.start \in Int, r.end \in Int, NEW f \in 0 .. Unit
  PROVE  /\ AtFactor(r, f) \in Int
         /\ Ordered(r).start \in Int /\ Ordered(r).end \in Int
         /\ Ordered(r).start <= AtFactor(r, f) /\ AtFactor(r, f) <= Ordered(r).end
<1> DEFINE d == r.end - r.start
           q == (d * f) \div Unit
<1>1. d \in Int /\ Unit \in Nat \ {0}
  BY ValuesAssumption
<1>2. /\ q \in Int
      /\ 0 <= d => 0 <= q /\ q <= d
      /\ d <= 0 => d <= q /\ q <= 0
  <2> HIDE DEF d
  <2> QED BY <1>1, PartLiesWithin
<1>3. AtFactor(r, f) = r.start + q
  BY DEF AtFactor
<1> HIDE DEF q
<1>4. CASE r.start <= r.end
  BY <1>2, <1>3, <1>4 DEF Ordered, NumberRange
<1>5. CASE ~(r.start <= r.end)
  BY <1>2, <1>3, <1>5 DEF Ordered, NumberRange
<1> QED BY <1>4, <1>5

\* The factor of a value is the one that yields it.
LEMMA FactorGivesBack ==
  ASSUME NEW r, r.start \in Int, r.end \in Int, r.start # r.end, IsExact(r), NEW f \in 0 .. Unit
  PROVE  FactorOf(r, AtFactor(r, f)) = f
<1> DEFINE d == r.end - r.start
           q == (d * f) \div Unit
           x == AtFactor(r, f)
<1>1. d \in Int /\ d # 0 /\ Unit \in Nat \ {0}
  BY ValuesAssumption
<1>2. d % Unit = 0
  BY ValuesAssumption DEF IsExact, IsFiniteRange, IsFinite
<1>3. /\ d > 0 => (q * Unit) \div d = f
      /\ d < 0 => ((-q) * Unit) \div (-d) = f
  <2> HIDE DEF d
  <2> QED BY <1>1, <1>2, PartGivesBack
<1>4. q \in Int
  <2> HIDE DEF d
  <2> QED BY <1>1, PartLiesWithin
<1>5. x = r.start + q
  BY DEF AtFactor
<1> HIDE DEF q, x
<1>6. x - r.start = q /\ r.start - x = -q
  BY <1>4, <1>5
<1>7. CASE r.start < r.end
  <2>1. FactorOf(r, x) = (q * Unit) \div d
    BY <1>6, <1>7 DEF FactorOf
  <2> QED BY <1>3, <1>7, <2>1 DEF x
<1>8. CASE ~(r.start < r.end)
  <2>1. r.start - r.end = -d /\ d < 0
    BY <1>8
  <2>2. FactorOf(r, x) = ((-q) * Unit) \div (-d)
    BY <1>6, <1>8, <2>1 DEF FactorOf
  <2> QED BY <1>3, <2>1, <2>2 DEF x
<1> QED BY <1>7, <1>8

\* Each quantity of an element has one range, which a lookup finds.
LEMMA RangeIsFound ==
  ASSUME NEW ranges, IsList(ranges),
         \A i, j \in DOMAIN ranges : ranges[i].quantity = ranges[j].quantity => i = j,
         NEW r \in Range(ranges), NEW power
  PROVE  FactorForPower(ranges, r.quantity, power) = FactorOf(r, power)
<1>1. Len(ranges) \in Nat /\ DOMAIN ranges = 1 .. Len(ranges) /\ r # Absent
  BY DEF IsList
<1>2. PICK i \in DOMAIN ranges : ranges[i] = r
  BY DEF Range
<1> DEFINE I == {j \in 1 .. Len(ranges) : ranges[j].quantity = r.quantity}
<1>3. I = {i} /\ i # 0 /\ Min({i}) = i
  BY <1>1, <1>2 DEF Min
<1>4. First(ranges, LAMBDA x : x.quantity = r.quantity) = r
  BY <1>2, <1>3 DEF First, SelectInSeq
<1> QED BY <1>1, <1>4 DEF FactorForPower

\* The element at a level is one of the mode's.
LEMMA ElementIsOne ==
  ASSUME NEW mode, IsList(mode.elements), NEW level, ElementAt(mode, level) # Absent
  PROVE  ElementAt(mode, level) \in Range(mode.elements)
<1> DEFINE s == mode.elements
           I == {i \in 1 .. Len(s) : Within(s[i].fill_level_range, level)}
<1>1. Len(s) \in Nat /\ DOMAIN s = 1 .. Len(s)
  BY DEF IsList
<1>2. I # {} /\ ElementAt(mode, level) = s[Min(I)]
  BY DEF ElementAt, First, SelectInSeq
<1>3. I \in SUBSET (1 .. Len(s)) /\ I \in SUBSET Nat
  BY <1>1
<1> HIDE DEF I, s
<1>4. Min(I) \in 1 .. Len(s)
  BY <1>2, <1>3, MinOf
<1>5. s[Min(I)] \in Range(s)
  BY <1>1, <1>4 DEF Range
<1> QED BY <1>2, <1>5 DEF s

\* A mode in force covers every level between its first band and its last, and a
\* factor can be told from the power it yields.
LEMMA TiledBandsCover ==
  ASSUME NEW mode, IsList(mode.elements), \A e \in Range(mode.elements) : DecodedFrbcElement(e),
         Tiled(mode.elements)
  PROVE  BandsCover(mode)
<1> SUFFICES ASSUME NEW level \in mode.elements[1].fill_level_range.start
                                    .. Last(mode.elements).fill_level_range.end
             PROVE  /\ ElementAt(mode, level) # Absent
                    /\ \A r \in Range(ElementAt(mode, level).power_ranges), f \in 0 .. Unit :
                         r.start # r.end =>
                           FactorForPower(ElementAt(mode, level).power_ranges, r.quantity,
                                          AtFactor(r, f)) = f
  BY DEF BandsCover
<1>1. /\ level \in Int /\ mode.elements[1].fill_level_range.start <= level
      /\ level <= Last(mode.elements).fill_level_range.end
  OBVIOUS
<1>2. ElementAt(mode, level) # Absent
  BY <1>1, TiledCovers
<1> DEFINE e == ElementAt(mode, level)
<1>3. e \in Range(mode.elements)
  BY <1>2, ElementIsOne
<1> HIDE DEF e
<1>4. /\ IsList(e.power_ranges)
      /\ \A r \in Range(e.power_ranges) : IsNumberRange(r) /\ IsExact(r) /\ IsFiniteRange(r)
      /\ \A i, j \in DOMAIN e.power_ranges :
           e.power_ranges[i].quantity = e.power_ranges[j].quantity => i = j
  BY <1>3 DEF Tiled, DecodedFrbcElement
<1>5. ASSUME NEW r \in Range(e.power_ranges), NEW f \in 0 .. Unit, r.start # r.end
      PROVE  FactorForPower(e.power_ranges, r.quantity, AtFactor(r, f)) = f
  <2>1. r.start \in Int /\ r.end \in Int /\ IsExact(r)
    BY <1>4 DEF IsNumberRange, IsNumber, IsFiniteRange, IsFinite
  <2>2. FactorForPower(e.power_ranges, r.quantity, AtFactor(r, f)) = FactorOf(r, AtFactor(r, f))
    BY <1>4, RangeIsFound
  <2> QED BY <1>5, <2>1, <2>2, FactorGivesBack
<1> QED BY <1>2, <1>5 DEF e

\* An accepted instruction is one of the active control type.
LEMMA AcceptedIs ==
  ASSUME InForceUsable, NEW m \in Accepted
  PROVE  /\ Judge(Context("CEM"), m) \subseteq Warnings /\ Accepts(m) /\ IsInstruction(m.kind)
         /\ selected = "FRBC" => m.kind = "FrbcInstruction"
         /\ selected = "DDBC" => m.kind = "DdbcInstruction"
         /\ selected = "PPBC" => m.kind \in Instructions["PPBC"]
<1>1. IsInstruction(m.kind) /\ Accepts(m)
  BY DEF Accepted, Instructible
<1>2. Judge(Context("CEM"), m) \subseteq Warnings
  BY <1>1, CleanReports DEF Accepts, ReportOn
<1>3. PICK ct \in ControlTypes : m.kind \in Instructions[ct]
  BY <1>1 DEF IsInstruction
<1>4. selected = ct
  BY <1>1, <1>3, AcceptedInPlace DEF BelongsTo
<1> QED BY <1>1, <1>2, <1>3, <1>4 DEF Instructions

LEMMA ExplainsOwn ==
  ASSUME NEW ctx, NEW m
  PROVE  /\ m.kind = "FrbcInstruction" => Explain(ctx, m) = ExplainFrbc(ctx, m)
         /\ m.kind = "DdbcInstruction" => Explain(ctx, m) = ExplainDdbc(ctx, m)
         /\ m.kind \in Instructions["PPBC"] => Explain(ctx, m) = NoteSequence(ctx, m)
BY DEF Explain, Instructions

\* The fill rate an explanation gives is the one the fill level is projected with.
LEMMA FillsAlike ==
  ASSUME InForceUsable, FillLevelHolds, Effective("FRBC") # Absent,
         NEW a \in Range(Effective("FRBC").actuators), NEW m \in Accepted, m.actuator_id = a.id
  PROVE  FillsAsProjected(a, m)
<1> DEFINE ctx == Context("CEM")
           system == Effective("FRBC")
           mode == ById(a.operation_modes, m.operation_mode)
           f == m.operation_mode_factor
           r == ResolveFrbc(system, m, fill_level)
           element == ElementAt(mode, fill_level)
<1> SUFFICES ASSUME fill_level # Absent, ExplanationOf(m).rate # Absent
             PROVE  ProjectFillLevel(mode, f, fill_level, 1, <<>>, Absent)
                      = fill_level + ExplanationOf(m).rate
  BY DEF FillsAsProjected
<1>1. /\ selected = "FRBC" /\ Decoded(system) /\ Vetted(system)
      /\ system.kind = "FrbcSystemDescription"
  BY EffectiveIs DEF ControlTypes, SystemDescriptions
<1>2. m.kind = "FrbcInstruction"
  BY <1>1, AcceptedIs
<1>3. DecodedFrbc(system)
  BY <1>1 DEF Decoded
<1>4. ById(system.actuators, m.actuator_id) = a
  <2>1. IsList(system.actuators)
    BY <1>3 DEF DecodedFrbc
  <2>2. PICK i \in DOMAIN system.actuators : system.actuators[i] = a
    BY DEF Range
  <2>3. \A i1, j1 \in DOMAIN system.actuators :
          system.actuators[i1].id = system.actuators[j1].id => i1 = j1
    BY <1>1 DEF Vetted
  <2> HIDE DEF system
  <2> QED BY <2>1, <2>2, <2>3, ByIdReturns
<1>5. ctx.frbc = system /\ ctx.fill_level = fill_level
  BY ContextIs
<1>6. /\ ExplanationOf(m).unresolved = r.error
      /\ r.error = Absent => ExplanationOf(m).rate = r.rate
      /\ r.error # Absent => ExplanationOf(m).rate = Absent
  <2> HIDE DEF ctx, system
  <2>1. ExplanationOf(m) = ExplainMode(r, m, ctx, m.actuator_id,
                                       ById(system.actuators, m.actuator_id).transitions)
    <3>1. ExplanationOf(m) = Explain(ctx, m) /\ system # Absent
      BY DEF ExplanationOf, ctx, system
    <3>2. Explain(ctx, m) = ExplainFrbc(ctx, m)
      BY <1>2, ExplainsOwn
    <3> HIDE DEF r
    <3>3. ExplainFrbc(ctx, m) = ExplainMode(r, m, ctx, m.actuator_id,
                                            ById(system.actuators, m.actuator_id).transitions)
      BY <1>5, <3>1 DEF ExplainFrbc, r
    <3> QED BY <3>1, <3>2, <3>3
  <2>2. r.error # Absent => ExplainMode(r, m, ctx, m.actuator_id,
                                        ById(system.actuators, m.actuator_id).transitions).rate = Absent
    <3> HIDE DEF r
    <3> QED BY DEF ExplainMode, Unexplained
  <2> HIDE DEF r
  <2> QED BY <2>1, <2>2, ExplainedModeIs
<1>7. ExplanationOf(m).rate = r.rate /\ r.error = Absent
  BY <1>6
<1>8. /\ a # Absent /\ mode # Absent /\ element # Absent /\ IsFactor(f)
      /\ r.rate = AtFactor(element.fill_rate, f)
  <2>1. r = IF a = Absent THEN Unresolved("UnknownActuator")
            ELSE IF mode = Absent THEN Unresolved("UnknownOperationMode")
            ELSE IF ~IsFactor(f) THEN Unresolved("BadFactor")
            ELSE IF element # Absent
                 THEN Resolved(mode, Interpolate(element.power_ranges, f), AtFactor(element.fill_rate, f))
            ELSE Unresolved("FillLevelNotCovered")
    <3> HIDE DEF system
    <3> QED BY <1>4 DEF ResolveFrbc
  <2> HIDE DEF r, mode, element
  <2> QED BY <1>7, <2>1, ErrorsAreNamed DEF Unresolved, Resolved
<1>9. mode \in Range(a.operation_modes)
  BY <1>3, <1>8, ByIdFinds DEF DecodedFrbc
<1>10. /\ IsList(mode.elements) /\ \A e \in Range(mode.elements) : DecodedFrbcElement(e)
       /\ Tiled(mode.elements)
  BY <1>1, <1>3, <1>9 DEF DecodedFrbc, Vetted
<1>11. element \in Range(mode.elements)
  BY <1>8, <1>10, ElementIsOne
<1>12. element.fill_rate.start \in Int /\ element.fill_rate.end \in Int
  <2> HIDE DEF element, mode
  <2> QED BY <1>10, <1>11, TiledAreIntegers DEF Range
<1>13. AtFactor(element.fill_rate, f) \in Int
  BY <1>8, <1>12, AtFactorLiesWithin DEF IsFactor
<1>14. First(<<>>, LAMBDA e : Within(e.fill_level_range, fill_level)) = Absent
  BY DEF First, SelectInSeq
<1>15. ProjectFillLevel(mode, f, fill_level, 1, <<>>, Absent)
         = fill_level + (AtFactor(element.fill_rate, f) - 0 - 0) * 1
  <2> HIDE DEF mode
  <2> QED BY <1>8, <1>14 DEF ProjectFillLevel
<1>16. fill_level \in Int
  BY DEF FillLevelHolds
<1> DEFINE rate == AtFactor(element.fill_rate, f)
<1>17. ExplanationOf(m).rate = rate /\ rate \in Int
  BY <1>7, <1>8, <1>13
<1>18. ProjectFillLevel(mode, f, fill_level, 1, <<>>, Absent) = fill_level + (rate - 0 - 0) * 1
  BY <1>15
<1> HIDE DEF rate, mode, f
<1> QED BY <1>16, <1>17, <1>18

\* A list of integers has a least one.
LEMMA ListHasLeast ==
  ASSUME NEW n \in Nat \ {0}, NEW s \in [1 .. n -> Int]
  PROVE  \E i \in 1 .. n : \A j \in 1 .. n : s[i] <= s[j]
<1> DEFINE LeastUpTo(m) == \E i \in 1 .. m : \A j \in 1 .. m : s[i] <= s[j]
           Bad == {m \in 1 .. n : ~LeastUpTo(m)}
<1> HIDE DEF LeastUpTo
<1> SUFFICES ASSUME Bad # {} PROVE FALSE
  <2>1. n \in 1 .. n
    OBVIOUS
  <2>2. Bad = {} => LeastUpTo(n)
    BY <2>1
  <2> QED BY <2>2 DEF LeastUpTo
<1>1. PICK m \in Bad : \A x \in Bad : m <= x
  <2>1. Bad \subseteq Nat
    OBVIOUS
  <2> HIDE DEF Bad
  <2> QED BY <2>1, RegistryHolds, RP!LeastOf
<1>2. CASE m = 1
  <2>1. LeastUpTo(1)
    BY DEF LeastUpTo
  <2> QED BY <1>1, <1>2, <2>1
<1>3. CASE m # 1
  <2>1. m \in 1 .. n /\ m - 1 \in 1 .. n /\ ~(m <= m - 1)
    BY <1>1, <1>3
  <2>2. m - 1 \notin Bad
    <3> HIDE DEF Bad
    <3> QED BY <1>1, <2>1
  <2>3. LeastUpTo(m - 1)
    BY <2>1, <2>2
  <2>4. PICK i \in 1 .. m - 1 : \A j \in 1 .. m - 1 : s[i] <= s[j]
    BY <2>3 DEF LeastUpTo
  <2>5. i \in 1 .. n /\ i \in 1 .. m /\ m \in 1 .. m /\ \A j \in 1 .. m : j \in 1 .. n /\ (j = m \/ j \in 1 .. m - 1)
    BY <2>1
  <2>6. \A j \in 1 .. m : s[j] \in Int
    BY <2>5
  <2>7. LeastUpTo(m)
    <3>1. CASE s[i] <= s[m]
      BY <2>4, <2>5, <3>1 DEF LeastUpTo
    <3>2. CASE ~(s[i] <= s[m])
      <4>1. \A j \in 1 .. m : s[m] <= s[j]
        BY <2>4, <2>5, <2>6, <3>2
      <4> QED BY <2>5, <4>1 DEF LeastUpTo
    <3> QED BY <3>1, <3>2
  <2> QED BY <1>1, <2>7
<1> QED BY <1>2, <1>3

LEMMA ListMinAndMax ==
  ASSUME NEW n \in Nat \ {0}, NEW s \in [1 .. n -> Int]
  PROVE  LET S == {s[j] : j \in 1 .. n} IN
           /\ Min(S) \in Int /\ Max(S) \in Int
           /\ \A i \in 1 .. n : Min(S) <= s[i] /\ s[i] <= Max(S)
<1> DEFINE S == {s[j] : j \in 1 .. n}
           t == [i \in 1 .. n |-> -s[i]]
<1>1. \A i \in 1 .. n : s[i] \in S /\ s[i] \in Int
  OBVIOUS
<1>2. PICK i \in 1 .. n : \A j \in 1 .. n : s[i] <= s[j]
  BY ListHasLeast
<1>3. t \in [1 .. n -> Int]
  BY <1>1
<1>4. PICK k \in 1 .. n : \A j \in 1 .. n : t[k] <= t[j]
  BY <1>3, ListHasLeast
<1>5. \A j \in 1 .. n : s[k] >= s[j]
  BY <1>1, <1>4
<1>6. \E x \in S : \A y \in S : x =< y
  BY <1>1, <1>2
<1>7. \E x \in S : \A y \in S : x >= y
  BY <1>1, <1>5
<1> HIDE DEF S
<1>8. Min(S) \in S /\ \A y \in S : Min(S) =< y
  BY <1>6 DEF Min
<1>9. Max(S) \in S /\ \A y \in S : Max(S) >= y
  BY <1>7 DEF Max
<1>10. Min(S) \in Int /\ Max(S) \in Int
  BY <1>8, <1>9 DEF S
<1> QED BY <1>1, <1>8, <1>9, <1>10 DEF S

\* An actuator supplies every rate that one of its modes supplies.
LEMMA SupplyHolds ==
  ASSUME NEW a, IsList(a.operation_modes),
         \A mode \in Range(a.operation_modes) :
           mode.supply_range.start \in Int /\ mode.supply_range.end \in Int,
         NEW mode \in Range(a.operation_modes), NEW x \in Int,
         Ordered(mode.supply_range).start <= x, x <= Ordered(mode.supply_range).end
  PROVE  Within(SupplyRangeOf(a), x)
<1> DEFINE s == a.operation_modes
           n == Len(s)
           low == [i \in 1 .. n |-> Ordered(s[i].supply_range).start]
           high == [i \in 1 .. n |-> Ordered(s[i].supply_range).end]
           supplied == {Ordered(y.supply_range) : y \in Range(s)}
           lows == {r.start : r \in supplied}
           highs == {r.end : r \in supplied}
<1>1. n \in Nat /\ DOMAIN s = 1 .. n
  BY DEF IsList
<1>2. PICK i \in 1 .. n : s[i] = mode
  BY <1>1 DEF Range
<1>3. n \in Nat \ {0}
  BY <1>1, <1>2
<1>4. \A j \in 1 .. n : s[j] \in Range(s)
  BY <1>1 DEF Range
<1>5. \A j \in 1 .. n :
        /\ Ordered(s[j].supply_range).start \in Int /\ Ordered(s[j].supply_range).end \in Int
        /\ Ordered(s[j].supply_range).start <= Ordered(s[j].supply_range).end
  BY <1>4 DEF Ordered, NumberRange
<1>6. low \in [1 .. n -> Int] /\ high \in [1 .. n -> Int]
  BY <1>5
<1>7. lows = {low[j] : j \in 1 .. n} /\ highs = {high[j] : j \in 1 .. n}
  BY <1>1 DEF Range
<1>8. supplied # {}
  BY <1>1, <1>2 DEF Range
<1>9. SupplyRangeOf(a) = NumberRange(Min(lows), Max(highs))
  BY <1>8 DEF SupplyRangeOf
<1>10. /\ Min(lows) \in Int /\ Max(highs) \in Int
       /\ Min(lows) <= low[i] /\ high[i] <= Max(highs)
  <2> HIDE DEF low, high, lows, highs
  <2> QED BY <1>3, <1>6, <1>7, ListMinAndMax
<1>11. low[i] = Ordered(mode.supply_range).start /\ high[i] = Ordered(mode.supply_range).end
  BY <1>2
<1> DEFINE least == Min(lows)
           most == Max(highs)
<1> HIDE DEF low, high, lows, highs, least, most
<1>12. least \in Int /\ most \in Int /\ least <= x /\ x <= most
  <2>1. least <= low[i] /\ high[i] <= most /\ least \in Int /\ most \in Int
    BY <1>10 DEF least, most
  <2>2. low[i] <= x /\ x <= high[i] /\ low[i] \in Int /\ high[i] \in Int
    BY <1>6, <1>11
  <2> QED BY <2>1, <2>2
<1>13. SupplyRangeOf(a) = NumberRange(least, most)
  BY <1>9 DEF least, most
<1>14. Ordered(NumberRange(least, most)) = NumberRange(least, most)
  BY <1>12 DEF Ordered, NumberRange
<1>15. /\ Ordered(SupplyRangeOf(a)).start = least /\ Ordered(SupplyRangeOf(a)).end = most
  BY <1>13, <1>14 DEF NumberRange
<1> QED BY <1>12, <1>15, ValuesAssumption DEF Within, IsFinite

\* A demand driven instruction supplies a rate its actuator can supply.
LEMMA SuppliesWithin ==
  ASSUME InForceUsable, Effective("DDBC") # Absent, NEW m \in Accepted
  PROVE  Within(SupplyRangeOf(ById(Effective("DDBC").actuators, m.actuator_id)),
                ExplanationOf(m).rate)
<1> DEFINE ctx == Context("CEM")
           system == Effective("DDBC")
           a == ById(system.actuators, m.actuator_id)
           mode == ById(a.operation_modes, m.operation_mode)
           f == m.operation_mode_factor
           r == ResolveDdbc(system, m)
<1>1. /\ selected = "DDBC" /\ Decoded(system) /\ Vetted(system)
      /\ system.kind = "DdbcSystemDescription"
  BY EffectiveIs DEF ControlTypes, SystemDescriptions
<1>2. m.kind = "DdbcInstruction" /\ Judge(ctx, m) \subseteq Warnings
  BY <1>1, AcceptedIs
<1>3. ctx.ddbc = system /\ system # Absent
  BY ContextIs
<1>4. ExplanationOf(m) = Explain(ctx, m)
  BY DEF ExplanationOf
<1>5. DecodedDdbc(system)
  BY <1>1 DEF Decoded
<1>6. \A x \in Range(system.actuators) : \A y \in Range(x.operation_modes) : IsFiniteRange(y.supply_range)
  BY <1>1 DEF Vetted
<1> HIDE DEF ctx, system
<1>7. a # Absent /\ mode # Absent /\ IsFactor(f)
  BY <1>2, <1>3, CleanInstruction
<1>8. a \in Range(system.actuators)
  BY <1>5, <1>7, ByIdFinds DEF DecodedDdbc
<1> HIDE DEF a
<1>9. /\ IsList(a.operation_modes)
      /\ \A y \in Range(a.operation_modes) : y.supply_range.start \in Int /\ y.supply_range.end \in Int
  BY <1>5, <1>6, <1>8 DEF DecodedDdbc, IsNumberRange, IsNumber, IsFiniteRange, IsFinite
<1>10. mode \in Range(a.operation_modes)
  BY <1>7, <1>9, ByIdFinds
<1>11. r.error = Absent /\ r.rate = AtFactor(mode.supply_range, f)
  BY <1>7 DEF ResolveDdbc, Resolved, a
<1>12. Explain(ctx, m) = ExplainDdbc(ctx, m)
  BY <1>2, ExplainsOwn
<1> HIDE DEF r
<1>13. ExplainDdbc(ctx, m) = ExplainMode(r, m, ctx, m.actuator_id, a.transitions)
  BY <1>3 DEF ExplainDdbc, r, a
<1>14. ExplanationOf(m).rate = AtFactor(mode.supply_range, f)
  BY <1>4, <1>11, <1>12, <1>13, ExplainedModeIs
<1> HIDE DEF mode
<1>15. Within(SupplyRangeOf(a), AtFactor(mode.supply_range, f))
  <2>1. mode.supply_range.start \in Int /\ mode.supply_range.end \in Int /\ f \in 0 .. Unit
    BY <1>7, <1>9, <1>10 DEF IsFactor
  <2> QED BY <1>9, <1>10, <2>1, AtFactorLiesWithin, SupplyHolds
<1> QED BY <1>14, <1>15 DEF a, system

\* A sequence an accepted instruction names has power for as long as it is said to take.
LEMMA PoweredThroughout ==
  ASSUME InForceUsable, PublicationsHold, selected = "PPBC", ppbc_profiles # <<>>,
         NEW m \in Accepted, NEW offset \in Nat
  PROVE  LET sequence == Resolve(Get(ppbc_profiles, m.power_profile_id), m.sequence_container_id,
                                 m.power_sequence_id)
         IN  SequencePowerAt(sequence, offset) # Absent <=> offset < ExplanationOf(m).duration
<1> DEFINE ctx == Context("CEM")
           profile == Get(ppbc_profiles, m.power_profile_id)
           sequence == Resolve(profile, m.sequence_container_id, m.power_sequence_id)
           c == ById(profile.power_sequence_containers, m.sequence_container_id)
<1>1. m.kind \in Instructions["PPBC"] /\ Judge(ctx, m) \subseteq Warnings
  BY AcceptedIs
<1>2. ctx.ppbc_profiles = ppbc_profiles
  BY ContextIs
<1>3. ExplanationOf(m) = NoteSequence(ctx, m)
  BY <1>1, ExplainsOwn DEF ExplanationOf
<1> HIDE DEF ctx
<1>4. \/ CheckPpbcInstruction(ctx, m, FALSE) \subseteq Warnings
      \/ CheckPpbcInstruction(ctx, m, TRUE) \subseteq Warnings
  <2>1. m.kind \in {"PpbcScheduleInstruction", "PpbcStartInterruptionInstruction",
                    "PpbcEndInterruptionInstruction"}
    BY <1>1 DEF Instructions
  <2>2. CASE m.kind = "PpbcScheduleInstruction"
    <3>1. Judge(ctx, m) = CheckEnvelope(ctx, m.kind, m.message_id) \cup CheckPpbcInstruction(ctx, m, FALSE)
      BY <2>2, ReportOnInstruction
    <3> QED BY <1>1, <3>1
  <2>3. CASE m.kind \in {"PpbcStartInterruptionInstruction", "PpbcEndInterruptionInstruction"}
    <3>1. Judge(ctx, m) = CheckEnvelope(ctx, m.kind, m.message_id) \cup CheckPpbcInstruction(ctx, m, TRUE)
      BY <2>3, ReportOnInstruction
    <3> QED BY <1>1, <3>1
  <2> QED BY <2>1, <2>2, <2>3
<1> HIDE DEF sequence, profile
<1>5. Has(ppbc_profiles, m.power_profile_id) /\ sequence # Absent
  <2> DEFINE found == IF ~Has(ppbc_profiles, m.power_profile_id) THEN Absent ELSE sequence
  <2> SUFFICES ASSUME found = Absent PROVE FALSE
    OBVIOUS
  <2>1. "PPBC_UNKNOWN_SEQUENCE" \notin Warnings
    BY DEF Warnings
  <2>2. \A interrupts : "PPBC_UNKNOWN_SEQUENCE" \in CheckPpbcInstruction(ctx, m, interrupts)
    BY <1>2 DEF CheckPpbcInstruction, sequence, profile
  <2> QED BY <1>4, <2>1, <2>2
<1>6. \E entry \in Range(ppbc_profiles) : profile = entry.value
  BY <1>5, PlaceFinds DEF PublicationsHold, Get, Range, profile
<1>7. DecodedProfile(profile)
  BY <1>6 DEF PublicationsHold, ProfileSound
<1>8. c # Absent /\ sequence = ById(c.power_sequences, m.power_sequence_id)
  BY <1>5 DEF Resolve, sequence
<1>9. c \in Range(profile.power_sequence_containers)
  BY <1>7, <1>8, ByIdFinds DEF DecodedProfile
<1> HIDE DEF c
<1>10. sequence \in Range(c.power_sequences)
  BY <1>5, <1>7, <1>8, <1>9, ByIdFinds DEF DecodedProfile
<1>11. DecodedSequence(sequence)
  BY <1>7, <1>9, <1>10 DEF DecodedProfile
<1>12. ExplanationOf(m).duration = TotalDuration(sequence.elements)
  BY <1>2, <1>3, <1>5 DEF NoteSequence, ResolvePpbc, Unexplained, sequence, profile
<1>13. SequencePowerAt(sequence, offset) # Absent <=> offset < TotalDuration(sequence.elements)
  BY <1>11, ElapsingIs DEF DecodedSequence, SequencePowerAt
<1> QED BY <1>12, <1>13 DEF sequence, profile

\* What model/explain.rs says of an instruction is what the description and
\* model/mod.rs have: every fill level has an element and every power its factor,
\* the rate explained is the one projected with, a demand driven actuator supplies
\* within its range, and a sequence has power for as long as it is said to take.
THEOREM ExplanationsKeepDescriptions == Spec => []ExplainedAsDescribed
<1>1. ASSUME InForceUsable, FillLevelHolds, Effective("FRBC") # Absent,
             NEW a \in Range(Effective("FRBC").actuators)
      PROVE  /\ \A mode \in Range(a.operation_modes) : BandsCover(mode)
             /\ \A m \in Accepted : m.actuator_id = a.id => FillsAsProjected(a, m)
  <2> DEFINE system == Effective("FRBC")
  <2>1. DecodedFrbc(system) /\ Vetted(system) /\ system.kind = "FrbcSystemDescription"
    BY <1>1, EffectiveIs DEF ControlTypes, SystemDescriptions, Decoded
  <2>2. a \in Range(system.actuators)
    BY <1>1
  <2> HIDE DEF system
  <2>3. ASSUME NEW mode \in Range(a.operation_modes)
        PROVE  /\ IsList(mode.elements) /\ \A e \in Range(mode.elements) : DecodedFrbcElement(e)
               /\ Tiled(mode.elements)
    BY <2>1, <2>2 DEF DecodedFrbc, Vetted
  <2>4. \A mode \in Range(a.operation_modes) : BandsCover(mode)
    BY <2>3, TiledBandsCover
  <2>5. \A m \in Accepted : m.actuator_id = a.id => FillsAsProjected(a, m)
    BY <1>1, FillsAlike
  <2> QED BY <2>4, <2>5
<1>2. \A offset \in 0 .. MaxTime + Horizon + 2 : offset \in Nat
  OBVIOUS
<1>3. InForceUsable /\ FillLevelHolds /\ PublicationsHold => ExplainedAsDescribed
  BY <1>1, <1>2, SuppliesWithin, PoweredThroughout DEF ExplainedAsDescribed
<1> QED BY <1>3, AlwaysUsable, AlwaysFilled, AlwaysPublished, PTL
=============================================================================
