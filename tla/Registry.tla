------------------------------ MODULE Registry ------------------------------
(***************************************************************************)
(* What one engine remembers of the descriptions published on a session    *)
(* (Registry in session/core.rs): which description of each control type   *)
(* is in force, which wait for their valid_from, which may be revoked, and *)
(* what is known of the operation modes and timers they declare.  The same *)
(* code runs on both sides: record() sees what is sent and what is         *)
(* received.                                                               *)
(***************************************************************************)
EXTENDS Naturals, SequencesExt

CONSTANTS
  Types,         \* control types whose system description has a valid_from
  Descriptions,  \* identifiers of descriptions: the message_id stands in for one
  TypeOf,        \* TypeOf[d]: the control type description d is for
  MaxScheduled,  \* how many descriptions may wait, 16 in the code
  MaxTime        \* bound: the clock

None == "None"

ASSUME RegistryAssumption ==
  /\ TypeOf \in [Descriptions -> Types]
  /\ MaxScheduled \in Nat
  /\ MaxTime \in Nat
  /\ None \notin Descriptions

VARIABLES
  now,        \* the clock
  selected,   \* the active control type: only its messages are let through
  inForce,    \* the description in force, per type
  scheduled,  \* descriptions that wait, in the order they were announced
  published,  \* identifiers that may be revoked
  known,      \* operation modes and timers reported, with what they were about
  latest,     \* the last announcement of each description: no code reads it
  revoked     \* descriptions revoked and not announced since: no code reads it

vars == <<now, selected, inForce, scheduled, published, known, latest, revoked>>

\* An announcement; the same identifier may be announced again, as a correction.
Announcement(d, from) == [id |-> d, from |-> from]
NoAnnouncement == [id |-> None, from |-> 0]
TypeOfAnnouncement(a) == TypeOf[a.id]

Init ==
  /\ now = 0
  /\ selected \in Types
  /\ inForce = [t \in Types |-> NoAnnouncement]
  /\ scheduled = <<>>
  /\ published = {}
  /\ known = {}
  /\ latest = [d \in Descriptions |-> NoAnnouncement]
  /\ revoked = {}

-----------------------------------------------------------------------------
(***************************************************************************)
(* The queue of descriptions not in force yet.                             *)
(***************************************************************************)
\* Where a description waits, 0 when it does not.
Slot(d) == SelectInSeq(scheduled, LAMBDA a : a.id = d)

\* The last of those furthest from taking effect.
Furthest(queue) ==
  CHOOSE i \in DOMAIN queue :
    \A j \in DOMAIN queue : queue[j].from < queue[i].from \/ (queue[j].from = queue[i].from /\ j <= i)

\* Mutant of Scheduling: the oldest leaves a queue that is too long.
SchedulingDropsOldest(a) ==
  IF Slot(a.id) # 0
    THEN ReplaceAt(scheduled, Slot(a.id), a)
    ELSE LET queue == Append(scheduled, a)
         IN  IF Len(queue) > MaxScheduled THEN Tail(queue) ELSE queue

\* A correction takes the place of what it corrects; anything else joins at the
\* end, and the furthest from taking effect leaves a queue that is too long.
Scheduling(a) ==
  IF Slot(a.id) # 0
    THEN ReplaceAt(scheduled, Slot(a.id), a)
    ELSE LET queue == Append(scheduled, a)
         IN  IF Len(queue) > MaxScheduled THEN RemoveAt(queue, Furthest(queue)) ELSE queue

\* The announcements of a queue that are in kept, in the order of the queue.
Among(queue, kept) ==
  LET upTo[i \in 0 .. Len(queue)] ==
        IF i = 0 THEN <<>>
        ELSE IF queue[i] \in kept THEN Append(upTo[i - 1], queue[i]) ELSE upTo[i - 1]
  IN  upTo[Len(queue)]

Due == {a \in Range(scheduled) : a.from <= now}

(***************************************************************************)
(* Making descriptions effective, one after the other.  Each takes its     *)
(* type's place and empties the tables of operation modes and timers,      *)
(* which all types share.                                                  *)
(***************************************************************************)
Applied(effective, t) ==
  LET mine == Among(effective, {a \in Range(effective) : TypeOfAnnouncement(a) = t})
  IN  IF mine = <<>> THEN inForce[t] ELSE Last(mine)

Apply(effective) ==
  /\ inForce' = [t \in Types |-> Applied(effective, t)]
  /\ known' = IF effective = <<>> THEN known ELSE {}

-----------------------------------------------------------------------------
\* A description is recorded: it waits for its valid_from, or takes effect now.
Record(d, from) ==
  /\ TypeOf[d] = selected
  /\ published' = published \cup {d}
  /\ IF from > now
       THEN scheduled' = Scheduling(Announcement(d, from)) /\ Apply(<<>>)
       ELSE UNCHANGED scheduled /\ Apply(<<Announcement(d, from)>>)
  /\ latest' = [latest EXCEPT ![d] = Announcement(d, from)]
  /\ revoked' = revoked \ {d}
  /\ UNCHANGED <<now, selected>>

\* The engine's deadline: everything due takes effect, in the order announced.
ActivateDue ==
  /\ Due # {}
  /\ scheduled' = Among(scheduled, Range(scheduled) \ Due)
  /\ Apply(Among(scheduled, Due))
  /\ UNCHANGED <<now, selected, published, latest, revoked>>

\* Mutant of Revoke: what waits is left waiting.
RevokeInForceOnly(d) ==
  /\ published' = published \ {d}
  /\ IF inForce[TypeOf[d]].id = d
       THEN inForce' = [inForce EXCEPT ![TypeOf[d]] = NoAnnouncement] /\ known' = {}
       ELSE UNCHANGED <<inForce, known>>
  /\ revoked' = revoked \cup {d}
  /\ UNCHANGED <<now, selected, scheduled, latest>>

\* Mutant of Revoke: whatever is in force is withdrawn.
RevokeByType(d) ==
  /\ published' = published \ {d}
  /\ scheduled' = Among(scheduled, {a \in Range(scheduled) : a.id # d})
  /\ inForce' = [inForce EXCEPT ![TypeOf[d]] = NoAnnouncement]
  /\ known' = {}
  /\ revoked' = revoked \cup {d}
  /\ UNCHANGED <<now, selected, latest>>

\* A description is withdrawn, whether it is in force or still waits; one that
\* replaced it is not touched.
Revoke(d) ==
  /\ published' = published \ {d}
  /\ scheduled' = Among(scheduled, {a \in Range(scheduled) : a.id # d})
  /\ IF inForce[TypeOf[d]].id = d
       THEN inForce' = [inForce EXCEPT ![TypeOf[d]] = NoAnnouncement] /\ known' = {}
       ELSE UNCHANGED <<inForce, known>>
  /\ revoked' = revoked \cup {d}
  /\ UNCHANGED <<now, selected, latest>>

\* An operation mode or a timer is reported, against the description in force.
Report ==
  /\ known' = known \cup {[type |-> selected, about |-> inForce[selected]]}
  /\ UNCHANGED <<now, selected, inForce, scheduled, published, latest, revoked>>

\* The session moves to another control type; the registry is not told.
Select(t) ==
  /\ t # selected
  /\ selected' = t
  /\ UNCHANGED <<now, inForce, scheduled, published, known, latest, revoked>>

Tick ==
  /\ now < MaxTime
  /\ now' = now + 1
  /\ UNCHANGED <<selected, inForce, scheduled, published, known, latest, revoked>>

Next ==
  \/ \E d \in Descriptions, from \in 0 .. MaxTime : Record(d, from)
  \/ ActivateDue
  \/ \E d \in Descriptions : Revoke(d)
  \/ Report
  \/ \E t \in Types : Select(t)
  \/ Tick

Spec == Init /\ [][Next]_vars

-----------------------------------------------------------------------------
Waiting(d) == \E i \in DOMAIN scheduled : scheduled[i].id = d

(***************************************************************************)
(* What was revoked stays gone: no queue and no later deadline brings it   *)
(* back until it is announced again.                                       *)
(***************************************************************************)
RevokedStaysGone ==
  \A d \in revoked : d \notin published /\ ~Waiting(d) /\ inForce[TypeOf[d]].id # d

(***************************************************************************)
(* Revoking a superseded description does not take the one that replaced   *)
(* it, nor what is known about it.                                         *)
(***************************************************************************)
ReplacementSurvivesRevoke ==
  [][\A d \in Descriptions, t \in Types :
       d \in revoked' \ revoked /\ inForce[t].id # d =>
         /\ inForce'[t] = inForce[t]
         /\ (TypeOf[d] = t => \A k \in known : k.type = t => k \in known')]_vars

(***************************************************************************)
(* Eviction sacrifices the distant future: of what waited and what was     *)
(* just announced, whatever a full queue gives up takes effect no sooner   *)
(* than anything it keeps.                                                 *)
(***************************************************************************)
JustAnnounced == {latest'[d] : d \in {e \in Descriptions : latest'[e] # latest[e]}}

EvictionKeepsTheSoonest ==
  [][\A a \in Range(scheduled) \cup JustAnnounced :
       a.from > now /\ a.id \notin revoked' /\ (\A b \in Range(scheduled') : b.id # a.id)
         => \A b \in Range(scheduled') : b.from <= a.from]_vars

(***************************************************************************)
(* "The second announcement is a correction, not a second event": what     *)
(* waits is the last word on its description.                              *)
(***************************************************************************)
QueueHoldsTheCorrection == \A i \in DOMAIN scheduled : scheduled[i] = latest[scheduled[i].id]
=============================================================================
