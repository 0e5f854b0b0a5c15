----------------------------- MODULE AckLedger -----------------------------
(***************************************************************************)
(* One engine's acknowledgement ledger against the clock (AckLedger in     *)
(* session/core.rs): the messages it waits for with their deadlines, and   *)
(* the bounded window of what it answered.  The peer is anybody: it may    *)
(* answer in any order, answer twice, answer what was never sent, deliver  *)
(* a message again, and deliver one damaged.  The clock is the wall clock, *)
(* so an operator may step it back.                                        *)
(***************************************************************************)
EXTENDS Integers, SequencesExt

CONSTANTS
  MaxAnswered,  \* the window: how many answers are remembered, 256 in the code
  AckTimeout,   \* how long an acknowledgement is waited for
  MaxSent,      \* bound: messages sent
  Inbound,      \* bound: identifiers the peer uses
  MaxAnswers,   \* bound: answers given
  MaxTime,      \* bound: the clock
  MaxSteps      \* bound: times the clock is stepped back

ASSUME LedgerAssumption ==
  /\ MaxAnswered \in Nat \ {0}
  /\ AckTimeout \in Nat \ {0}
  /\ MaxSent \in Nat
  /\ MaxAnswers \in Nat
  /\ MaxTime \in Nat
  /\ MaxSteps \in Nat

VARIABLES
  now,        \* the wall clock
  steps,      \* how often it was stepped back
  pending,    \* what is waited for: a set, as every identifier is fresh
  answered,   \* the window: a sequence, oldest first
  events,     \* what the application was told of each message sent
  stats,      \* the counters of Stats that concern the ledger
  processed,  \* how often each inbound message was acted on
  history     \* every identifier answered, in order: no code reads it

vars == <<now, steps, pending, answered, events, stats, processed, history>>

Sent == 1 .. MaxSent

Init ==
  /\ now = 0
  /\ steps = 0
  /\ pending = {}
  /\ answered = <<>>
  /\ events = [id \in Sent |-> {}]
  /\ stats = [sent |-> 0, acked |-> 0, nacked |-> 0, ack_timeouts |-> 0,
              unmatched_acks |-> 0, duplicates |-> 0]
  /\ processed = [id \in Inbound |-> 0]
  /\ history = <<>>

Bump(counter) == stats' = [stats EXCEPT ![counter] = @ + 1]

Tell(ids, event) ==
  events' = [id \in Sent |-> IF id \in ids THEN events[id] \cup {event} ELSE events[id]]

-----------------------------------------------------------------------------
(***************************************************************************)
(* What was sent.                                                          *)
(***************************************************************************)
Deadline == now + AckTimeout

\* Transmit: the identifier is fresh, and its entry joins.
Send ==
  /\ stats.sent < MaxSent
  /\ pending' = pending \cup {[id |-> stats.sent + 1, sent_at |-> now, deadline |-> Deadline]}
  /\ Bump("sent")
  /\ UNCHANGED <<now, steps, answered, events, processed, history>>

\* Whether an entry's deadline has passed.
Due(entry) == entry.deadline <= now

\* Whether a message is in the ledger.
Waiting(id) == \E entry \in pending : entry.id = id

\* An acknowledgement settles the entry it names, once.
Received(id, status) ==
  /\ \E entry \in pending : entry.id = id /\ pending' = pending \ {entry}
  /\ IF status = "OK"
       THEN Bump("acked") /\ Tell({id}, "Accepted")
       ELSE Bump("nacked") /\ Tell({id}, "Refused")
  /\ UNCHANGED <<now, steps, answered, processed, history>>

\* An acknowledgement of something never sent, or already given up on.
Unmatched(id) ==
  /\ ~Waiting(id)
  /\ stats.unmatched_acks < 1
  /\ Bump("unmatched_acks")
  /\ UNCHANGED <<now, steps, pending, answered, events, processed, history>>

\* The earliest deadline outstanding, none when nothing is waited for.
Deadlines == {entry.deadline : entry \in pending}
NextDeadlineBy(t) == \E d \in Deadlines : d <= t

Expired == {entry \in pending : Due(entry)}

\* Mutant of HandleTimeout: what is given up on stays in the ledger.
HandleTimeoutKeeps ==
  /\ NextDeadlineBy(now)
  /\ Tell({entry.id : entry \in Expired}, "TimedOut")
  /\ UNCHANGED <<now, steps, pending, answered, stats, processed, history>>

\* The driver calls at the deadline it was given; everything due is given up on.
HandleTimeout ==
  /\ NextDeadlineBy(now)
  /\ pending' = pending \ Expired
  /\ Tell({entry.id : entry \in Expired}, "TimedOut")
  /\ UNCHANGED <<now, steps, answered, stats, processed, history>>

-----------------------------------------------------------------------------
(***************************************************************************)
(* What was answered.                                                      *)
(***************************************************************************)
\* Mutant of Remembering: the oldest makes room one answer too soon.
RememberingTooFew(id, status) ==
  Append(IF Len(answered) + 1 >= MaxAnswered /\ answered # <<>> THEN Tail(answered) ELSE answered,
         [id |-> id, status |-> status])

\* The window with one more answer: the oldest makes room.
Remembering(id, status) ==
  Append(IF Len(answered) >= MaxAnswered THEN Tail(answered) ELSE answered,
         [id |-> id, status |-> status])

\* Where the latest answer to a message is in the window, 0 when it is forgotten.
PreviousAnswer(id) == SelectLastInSeq(answered, LAMBDA a : a.id = id)

Answer(id, status) ==
  /\ Len(history) < MaxAnswers
  /\ answered' = Remembering(id, status)
  /\ history' = Append(history, id)

\* A message the window does not know is judged, and acted on when accepted.
AnswerFresh(id) ==
  /\ PreviousAnswer(id) = 0
  /\ \/ /\ Answer(id, "OK")
        /\ processed' = [processed EXCEPT ![id] = @ + 1]
     \/ /\ Answer(id, "TEMPORARY_ERROR")
        /\ UNCHANGED processed
  /\ UNCHANGED <<now, steps, pending, events, stats>>

\* A duplicate is given its previous answer, which is remembered once more.
AnswerDuplicate(id) ==
  /\ PreviousAnswer(id) # 0
  /\ Answer(id, answered[PreviousAnswer(id)].status)
  /\ Bump("duplicates")
  /\ UNCHANGED <<now, steps, pending, events, processed>>

\* A damaged frame whose identifier can still be read is answered as damaged,
\* whatever was answered before.
AnswerDamaged(id) ==
  /\ Answer(id, "INVALID_MESSAGE")
  /\ UNCHANGED <<now, steps, pending, events, stats, processed>>

-----------------------------------------------------------------------------
Tick ==
  /\ now < MaxTime
  /\ now' = now + 1
  /\ UNCHANGED <<steps, pending, answered, events, stats, processed, history>>

StepBack ==
  /\ steps < MaxSteps
  /\ now > 0
  /\ now' = now - 1
  /\ steps' = steps + 1
  /\ UNCHANGED <<pending, answered, events, stats, processed, history>>

Sending ==
  \/ Send
  \/ \E id \in Sent : Unmatched(id) \/ \E status \in {"OK", "TEMPORARY_ERROR"} : Received(id, status)
  \/ HandleTimeout

Answering ==
  \E id \in Inbound : AnswerFresh(id) \/ AnswerDuplicate(id) \/ AnswerDamaged(id)

Next == Sending \/ Answering \/ Tick \/ StepBack

Spec == Init /\ [][Next]_vars

-----------------------------------------------------------------------------
(***************************************************************************)
(* Implements SendOutcome: reading what the application was told together  *)
(* with what is still in the ledger, every message gets one outcome, once. *)
(* A second answer, an answer after the deadline, and a deadline after the *)
(* answer say nothing more.                                                *)
(***************************************************************************)
OutcomeOf(id) ==
  IF id > stats.sent THEN "Unsent"
  ELSE IF Waiting(id) THEN "Waiting"
  ELSE IF Cardinality(events[id]) = 1 THEN CHOOSE e \in events[id] : TRUE
  ELSE "Confused"

Promise == INSTANCE SendOutcome
             WITH Ids <- Sent, outcome <- [id \in Sent |-> OutcomeOf(id)]

ImplementsSendOutcome == Promise!Spec

(***************************************************************************)
(* At most once within the window: a message is acted on again only after  *)
(* as many answers as the window holds were given since its own.           *)
(***************************************************************************)
AnswersSince(id) ==
  Len(history) - SelectLastInSeq(history, LAMBDA other : other = id)

Heard(id) == id \in Range(history)

OncePerWindow ==
  [][\A id \in Inbound :
       processed'[id] > processed[id] /\ Heard(id) => AnswersSince(id) >= MaxAnswered]_vars
=============================================================================
