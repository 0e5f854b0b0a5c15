------------------------------- MODULE Driver -------------------------------
(* The loop that pumps a session over a transport: Driver of io.rs.  A step    *)
(* sends what the session has queued, waits for whichever comes first of a     *)
(* frame, the session's deadline and the keep-alive interval, feeds it to the  *)
(* session and sends again.  Every await is a step here: the transport may     *)
(* fail and the wall clock may be set before the next one.                     *)
(* The session is what the trait Session promises (session/mod.rs): a queue of *)
(* messages to send, a set of deadlines, and whether it is closed.  The two    *)
(* clocks are apart: now() is the wall clock, which anything may set; sleep()  *)
(* counts the time that really passes.                                         *)
(* Time passes only while the driver waits: sending takes none, the select     *)
(* takes a branch that is ready before time goes on, and the application is    *)
(* back at step() at once.                                                     *)
EXTENDS Integers, Sequences, FiniteSets, FiniteSetsExt

CONSTANTS
  PING_INTERVAL,   \* with_ping_interval
  AckTimeout,      \* how far ahead a sent message sets its deadline
  Loop,            \* "run" of the driver, or an application's loop over "step"
  MaxTime,         \* bound: the time that passes in a behaviour
  MaxQueued,       \* bound: messages the session queues
  Offsets,         \* bound: by how much the wall clock may be ahead of the time elapsed
  StartTime,       \* ... and is at the start
  MaxSetBack       \* bound: how far the wall clock is set back between two keep-alives

ASSUME DriverAssumption ==
  /\ PING_INTERVAL \in Nat \ {0} /\ AckTimeout \in Nat \ {0} /\ Loop \subseteq {"run", "step"}
  /\ Offsets \subseteq Nat /\ StartTime \in Offsets
  /\ MaxTime \in Nat /\ MaxQueued \in Nat /\ MaxSetBack \in Nat

VARIABLES
  loop,        \* which loop drives the session
  session,     \* [closed, outbox, deadlines]
  connection,  \* the transport: "up", "failed", "ended", "closed"
  inbound,     \* the frames that have arrived and are not received
  sent,        \* the messages the transport took
  at,          \* where the driver is
  hand,        \* the message taken off the session and not sent yet, or 0
  wake,        \* [kind, left]: why the sleep will wake the driver, and when
  last_ping,   \* the wall clock at the last keep-alive
  clock,       \* the wall clock
  elapsed,     \* history: the time that has passed
  queued,      \* history: how many messages the session has queued
  sincePing,   \* history: time since the last keep-alive, or since the first step
  setBack,     \* history: how far the clock was set back since then
  overdue,     \* history: how long a deadline that is due has waited
  setForward   \* history: whether the clock was set forward while the driver sleeps

driver == <<at, hand, wake, last_ping>>
history == <<elapsed, queued, sincePing, setBack, overdue, setForward>>
vars == <<loop, session, connection, inbound, sent, driver, clock, history>>

Never == -1                                  \* no keep-alive sent yet
NoWake == [kind |-> "none", left |-> 0]
\* It flushes before it waits, after it waited, and once more when run() ends.
Flushing == {"before", "after", "last"}
Stopped == {"done", "failed"}
\* A span no keep-alive interval exceeds: Duration::MAX.
Forever == MaxTime + PING_INTERVAL + 1

----------------------------------------------------------------------------
(* The session. *)

\* poll_timeout(): a closed session has no deadline.
PollTimeout == IF session.closed THEN {} ELSE session.deadlines
Due == {d \in PollTimeout : d <= clock}

Queue(n) == [i \in 1 .. n |-> queued + i]
Queues(n) ==
  /\ queued + n <= MaxQueued
  /\ queued' = queued + n

\* A frame is a message to answer, the answer to a message of ours, or the peer's end of
\* the session.
Frames == {"message", "answer", "end"}
HandleText(frame) ==
  \/ /\ frame = "message" /\ Queues(1)
     /\ session' = [session EXCEPT !.outbox = @ \o Queue(1)]
  \/ /\ frame = "answer"
     /\ UNCHANGED queued
     /\ session' = [session EXCEPT !.deadlines = IF @ = {} THEN {} ELSE @ \ {Min(@)}]
  \/ /\ frame = "end" /\ Queues(1)
     /\ session' = [session EXCEPT !.outbox = @ \o Queue(1), !.closed = TRUE]

HandleTimeout == session' = [session EXCEPT !.deadlines = @ \ Due]

----------------------------------------------------------------------------
(* The driver. *)

Init ==
  /\ loop \in Loop
  /\ session = [closed |-> FALSE, outbox |-> <<1>>, deadlines |-> {StartTime + AckTimeout}]
  /\ connection = "up" /\ inbound = <<>> /\ sent = <<>>
  /\ at = "before" /\ hand = 0 /\ wake = NoWake /\ last_ping = Never
  /\ clock = StartTime /\ elapsed = 0 /\ queued = 1
  /\ sincePing = 0 /\ setBack = 0 /\ overdue = 0 /\ setForward = FALSE

\* flush(): poll_transmit() takes a message off the session ...
PollTransmit ==
  /\ at \in Flushing /\ hand = 0 /\ session.outbox # <<>>
  /\ hand' = Head(session.outbox)
  /\ session' = [session EXCEPT !.outbox = Tail(@)]
  /\ UNCHANGED <<loop, connection, inbound, sent, at, wake, last_ping, clock, history>>

\* ... and send_text() gives it to the transport, ...
SendText ==
  /\ hand # 0 /\ at \notin Stopped /\ connection \in {"up", "ended"}
  /\ sent' = Append(sent, hand) /\ hand' = 0
  /\ UNCHANGED <<loop, session, connection, inbound, at, wake, last_ping, clock, history>>

\* ... which may refuse it.
SendFails ==
  /\ hand # 0 /\ at \notin Stopped /\ connection \in {"failed", "ended"}
  /\ at' = "failed"
  /\ UNCHANGED <<loop, session, connection, inbound, sent, hand, wake, last_ping, clock, history>>

Flushed == hand = 0 /\ session.outbox = <<>>

\* Mutant of Close: the session is asked whether it is over before what it queued is sent.
CloseUnflushed ==
  /\ at \in {"before", "last"} /\ hand = 0 /\ session.closed
  /\ at' = "done" /\ connection' = "closed"
  /\ UNCHANGED <<loop, session, inbound, sent, hand, wake, last_ping, clock, history>>

\* step(), when the session is over, and run() after its last flush: close the transport.
Close ==
  /\ at \in {"before", "last"} /\ Flushed /\ session.closed
  /\ at' = "done" /\ connection' = "closed"
  /\ UNCHANGED <<loop, session, inbound, sent, hand, wake, last_ping, clock, history>>

\* wait(): saturating_duration_since
Since(t) == IF clock > t THEN clock - t ELSE 0
Until(t) == IF t > clock THEN t - clock ELSE 0
UntilDeadline == IF PollTimeout = {} THEN Forever ELSE Until(Min(PollTimeout))

\* Mutant of UntilPing: the keep-alive is timed anew in every step.
UntilPingOfStep == PING_INTERVAL
\* The keep-alive is timed from the last one, the first from the first step.
UntilPing ==
  IF last_ping = Never THEN PING_INTERVAL
  ELSE IF Since(last_ping) < PING_INTERVAL THEN PING_INTERVAL - Since(last_ping) ELSE 0

\* Mutant of Soonest: a session with a deadline is woken for that only.
SoonestDeadlineOnly ==
  IF PollTimeout # {} THEN [kind |-> "Timeout", left |-> UntilDeadline]
  ELSE [kind |-> "Ping", left |-> UntilPing]
Soonest ==
  IF UntilDeadline <= UntilPing THEN [kind |-> "Timeout", left |-> UntilDeadline]
  ELSE [kind |-> "Ping", left |-> UntilPing]

Wait ==
  /\ at = "before" /\ Flushed /\ ~session.closed
  /\ at' = "waiting" /\ wake' = Soonest
  /\ last_ping' = IF last_ping = Never THEN clock ELSE last_ping
  /\ setForward' = (setForward /\ Due # {})
  /\ overdue' = IF Due = {} THEN 0 ELSE overdue
  /\ UNCHANGED <<loop, session, connection, inbound, sent, hand, clock, elapsed, queued,
                 sincePing, setBack>>

Woken(state) == at = "waiting" /\ at' = state /\ wake' = NoWake

\* A frame: the session handles it.
ReceiveText ==
  /\ Woken("after") /\ inbound # <<>>
  /\ HandleText(Head(inbound)) /\ inbound' = Tail(inbound)
  /\ UNCHANGED <<loop, connection, sent, hand, last_ping, clock, elapsed, sincePing, setBack,
                 overdue, setForward>>

\* The peer has closed the connection: transport_closed().
ReceiveClose ==
  /\ Woken("after") /\ inbound = <<>> /\ connection = "ended"
  /\ session' = [session EXCEPT !.closed = TRUE]
  /\ UNCHANGED <<loop, connection, inbound, sent, hand, last_ping, clock, history>>

\* The transport has failed: step() returns the error.
ReceiveFails ==
  /\ Woken("failed") /\ inbound = <<>> /\ connection = "failed"
  /\ UNCHANGED <<loop, session, connection, inbound, sent, hand, last_ping, clock, history>>

\* The session's deadline.
DeadlineReached ==
  /\ Woken("after") /\ wake.kind = "Timeout" /\ wake.left = 0
  /\ HandleTimeout
  /\ UNCHANGED <<loop, connection, inbound, sent, hand, last_ping, clock, history>>

\* The keep-alive: remembered, then sent.
Ping ==
  /\ wake.kind = "Ping" /\ wake.left = 0
  /\ last_ping' = clock
  /\ IF connection = "up"
     THEN Woken("after") /\ sincePing' = 0 /\ setBack' = 0
     ELSE Woken("failed") /\ UNCHANGED <<sincePing, setBack>>
  /\ UNCHANGED <<loop, session, connection, inbound, sent, hand, clock, elapsed, queued,
                 overdue, setForward>>

\* The step is over: run() stops when the session is, an application's loop steps again.
Return ==
  /\ at = "after" /\ Flushed
  /\ at' = IF session.closed /\ loop = "run" THEN "last" ELSE "before"
  /\ UNCHANGED <<loop, session, connection, inbound, sent, hand, wake, last_ping, clock, history>>

----------------------------------------------------------------------------
(* The application, in its callback or between two steps. *)

\* It sends a message, ...
Send ==
  /\ at = "before" /\ hand = 0 /\ ~session.closed /\ Queues(1)
  /\ session' = [session EXCEPT !.outbox = @ \o Queue(1), !.deadlines = @ \cup {clock + AckTimeout}]
  /\ UNCHANGED <<loop, connection, inbound, sent, driver, clock, elapsed, sincePing, setBack,
                 overdue, setForward>>

\* ... or closes the session, which queues its last message.
CloseSession ==
  /\ at = "before" /\ hand = 0 /\ ~session.closed /\ Queues(1)
  /\ session' = [session EXCEPT !.outbox = @ \o Queue(1), !.closed = TRUE]
  /\ at' = IF loop = "run" THEN "last" ELSE at
  /\ UNCHANGED <<loop, connection, inbound, sent, hand, wake, last_ping, clock, elapsed,
                 sincePing, setBack, overdue, setForward>>

----------------------------------------------------------------------------
(* The connection and the clocks. *)

FrameArrives ==
  /\ connection = "up" /\ inbound = <<>>
  /\ \E f \in Frames : inbound' = <<f>>
  /\ UNCHANGED <<loop, session, connection, sent, driver, clock, history>>

ConnectionEnds ==
  /\ connection = "up" /\ connection' \in {"failed", "ended"}
  /\ UNCHANGED <<loop, session, inbound, sent, driver, clock, history>>

\* Time passes when the driver sleeps and nothing wakes it.
Tick ==
  /\ at = "waiting" /\ inbound = <<>> /\ connection = "up" /\ wake.left > 0 /\ elapsed < MaxTime
  /\ wake' = [wake EXCEPT !.left = @ - 1]
  /\ clock' = clock + 1 /\ elapsed' = elapsed + 1
  /\ sincePing' = sincePing + 1
  /\ overdue' = IF Due = {} THEN 0 ELSE overdue + 1
  /\ UNCHANGED <<loop, session, connection, inbound, sent, at, hand, last_ping, queued, setBack,
                 setForward>>

\* The wall clock is set, forward or back.
SetClock ==
  /\ at \notin Stopped
  /\ \E o \in Offsets :
       LET back == IF elapsed + o < clock THEN clock - (elapsed + o) ELSE 0 IN
       /\ elapsed + o # clock /\ setBack + back <= MaxSetBack
       /\ clock' = elapsed + o
       /\ setBack' = setBack + back
       /\ setForward' = (setForward \/ back = 0)
  /\ UNCHANGED <<loop, session, connection, inbound, sent, driver, elapsed, queued, sincePing,
                 overdue>>

Next ==
  \/ PollTransmit \/ SendText \/ SendFails \/ Close \/ Wait
  \/ ReceiveText \/ ReceiveClose \/ ReceiveFails \/ DeadlineReached \/ Ping \/ Return
  \/ Send \/ CloseSession
  \/ FrameArrives \/ ConnectionEnds \/ Tick \/ SetClock

Spec == Init /\ [][Next]_vars

----------------------------------------------------------------------------
(* Properties. *)

\* However busy the connection is, a keep-alive is sent at least once an interval: "an
\* implementation must not wait more than 60 seconds between sending ping frames".  A wall
\* clock that is set back delays it by as much.
PingsInTime == at \notin Stopped => sincePing <= PING_INTERVAL + setBack

\* A deadline of the session is handled the moment it is due; when the wall clock is set
\* forward past it while the driver sleeps, by the next keep-alive.
DeadlinesKeepTime == overdue <= IF setForward THEN PING_INTERVAL ELSE 0

\* What the session queued is sent in order, once, and all of it before the driver closes
\* the connection; an error loses the connection at most the message in hand.
LastWordsAreSent ==
  /\ [i \in 1 .. queued |-> i] = sent \o (IF hand = 0 THEN <<>> ELSE <<hand>>) \o session.outbox
  /\ at = "done" => Flushed
=============================================================================
