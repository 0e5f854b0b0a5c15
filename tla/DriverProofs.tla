---------------------------- MODULE DriverProofs ----------------------------
(***************************************************************************)
(* What the driver keeps for every interval, every number of messages and  *)
(* every way the wall clock is set: its keep-alives are in time, and so    *)
(* are the deadlines of the session.                                       *)
(***************************************************************************)
EXTENDS Driver, SequenceTheorems, WellFoundedInduction, TLAPS

Sessions == [closed : BOOLEAN, outbox : Seq(Nat \ {0}), deadlines : SUBSET Nat]
Wakes == [kind : {"none", "Timeout", "Ping"}, left : Nat]

Typed ==
  /\ session \in Sessions
  /\ inbound \in Seq(Frames)
  /\ sent \in Seq(Nat \ {0})
  /\ at \in Flushing \cup Stopped \cup {"waiting"}
  /\ hand \in Nat
  /\ wake \in Wakes
  /\ last_ping \in Nat \cup {Never}
  /\ clock \in Nat /\ elapsed \in Nat /\ queued \in Nat
  /\ sincePing \in Nat /\ setBack \in Nat /\ overdue \in Nat
  /\ setForward \in BOOLEAN

\* The keep-alive: what is left of the sleep is left of the interval, which the driver
\* reads off the wall clock and so misjudges by what the clock was set back.
Pinging ==
  at \notin Stopped =>
    /\ sincePing <= PING_INTERVAL + setBack
    /\ last_ping = Never => at # "waiting" /\ sincePing = 0
    /\ last_ping # Never => sincePing + last_ping <= clock + setBack
    /\ at = "waiting" => sincePing + wake.left <= PING_INTERVAL + setBack

\* The deadlines: the driver never sleeps past one, unless the clock is set forward
\* under it.
Punctual ==
  /\ overdue <= PING_INTERVAL
  /\ ~setForward => overdue = 0
  /\ at = "waiting" =>
       /\ overdue + wake.left <= PING_INTERVAL
       /\ ~setForward => \A d \in PollTimeout : wake.left = 0 \/ clock + wake.left <= d

-----------------------------------------------------------------------------
(***************************************************************************)
(* Records.                                                                *)
(***************************************************************************)

\* What a typed session holds.
LEMMA SessionParts ==
  ASSUME NEW s \in Sessions
  PROVE  /\ s.outbox \in Seq(Nat \ {0})
         /\ s.deadlines \subseteq Nat
         /\ s.closed \in BOOLEAN
BY DEF Sessions

\* The ways a session changes leave it typed.
LEMMA SessionChanges ==
  ASSUME NEW s \in Sessions, NEW outbox \in Seq(Nat \ {0}), NEW deadlines \in SUBSET Nat
  PROVE  /\ [s EXCEPT !.outbox = outbox] \in Sessions
         /\ [s EXCEPT !.deadlines = deadlines] \in Sessions
         /\ [s EXCEPT !.outbox = outbox, !.deadlines = deadlines] \in Sessions
         /\ [s EXCEPT !.outbox = outbox, !.closed = TRUE] \in Sessions
         /\ [s EXCEPT !.closed = TRUE] \in Sessions
<1>1. [s EXCEPT !.outbox = outbox] \in Sessions
  BY DEF Sessions
<1>2. [s EXCEPT !.deadlines = deadlines] \in Sessions
  BY DEF Sessions
<1>3. [s EXCEPT !.outbox = outbox, !.deadlines = deadlines] \in Sessions
  BY DEF Sessions
<1>4. [s EXCEPT !.outbox = outbox, !.closed = TRUE] \in Sessions
  BY DEF Sessions
<1>5. [s EXCEPT !.closed = TRUE] \in Sessions
  BY DEF Sessions
<1> QED BY <1>1, <1>2, <1>3, <1>4, <1>5

\* A sleep that goes on, and one that is over, are typed.
LEMMA WakeChanges ==
  ASSUME NEW w \in Wakes
  PROVE  /\ w.left \in Nat
         /\ NoWake \in Wakes
         /\ w.left > 0 => [w EXCEPT !.left = w.left - 1] \in Wakes
         /\ [w EXCEPT !.left = w.left - 1].left = w.left - 1
<1>1. w.left \in Nat
  BY DEF Wakes
<1>2. NoWake \in Wakes
  BY DEF Wakes, NoWake
<1>3. w.left > 0 => [w EXCEPT !.left = w.left - 1] \in Wakes
  BY <1>1 DEF Wakes
<1>4. [w EXCEPT !.left = w.left - 1].left = w.left - 1
  BY DEF Wakes
<1> QED BY <1>1, <1>2, <1>3, <1>4

-----------------------------------------------------------------------------
(***************************************************************************)
(* The soonest deadline.                                                   *)
(***************************************************************************)

\* A nonempty set of numbers has a least one: the iterator's min() in wait().
LEMMA MinOfNaturals ==
  ASSUME NEW S, S \subseteq Nat, S # {}
  PROVE  Min(S) \in S /\ \A d \in S : Min(S) <= d
<1>1. PICK x \in S : \A y \in S : ~(<<y, x>> \in OpToRel(<, Nat))
  BY NatLessThanWellFounded, WFMin
<1>2. \A y \in S : x <= y
  <2> SUFFICES ASSUME NEW y \in S, y < x PROVE FALSE
    OBVIOUS
  <2>1. <<y, x>> \in Nat \X Nat /\ <<y, x>>[1] < <<y, x>>[2]
    OBVIOUS
  <2>2. <<y, x>> \in OpToRel(<, Nat)
    BY <2>1 DEF OpToRel
  <2> QED BY <1>1, <2>2
<1> QED BY <1>2 DEF Min

\* How long wait() sleeps: never past the keep-alive, and never past a deadline.
LEMMA SleepIsBounded ==
  ASSUME Typed
  PROVE  /\ UntilPing \in 0 .. PING_INTERVAL
         /\ last_ping # Never => UntilPing + Since(last_ping) <= PING_INTERVAL \/ UntilPing = 0
         /\ Soonest \in Wakes /\ Soonest.left \in Nat
         /\ Soonest.left <= UntilPing
         /\ \A d \in PollTimeout : Soonest.left <= Until(d)
<1>1. UntilPing \in 0 .. PING_INTERVAL
  BY DriverAssumption DEF Typed, UntilPing, Since, Never
<1>2. last_ping # Never => UntilPing + Since(last_ping) <= PING_INTERVAL \/ UntilPing = 0
  BY DriverAssumption DEF Typed, UntilPing, Since, Never
<1>3. PollTimeout \subseteq Nat
  BY SessionParts DEF Typed, PollTimeout
<1>4. UntilDeadline \in Nat /\ \A d \in PollTimeout : UntilDeadline <= Until(d)
  <2>1. CASE PollTimeout = {}
    BY <2>1, DriverAssumption DEF UntilDeadline, Forever
  <2>2. CASE PollTimeout # {}
    <3>1. Min(PollTimeout) \in Nat /\ \A d \in PollTimeout : Min(PollTimeout) <= d
      BY <1>3, <2>2, MinOfNaturals
    <3>2. UntilDeadline = Until(Min(PollTimeout))
      BY <2>2 DEF UntilDeadline
    <3>3. ASSUME NEW m \in Nat, \A d \in PollTimeout : m <= d
          PROVE  Until(m) \in Nat /\ \A d \in PollTimeout : Until(m) <= Until(d)
      BY <1>3, <3>3 DEF Until, Typed
    <3> QED BY <3>1, <3>2, <3>3
  <2> QED BY <2>1, <2>2
<1>5. \A d \in PollTimeout : Until(d) \in Nat
  BY <1>3 DEF Until, Typed
<1>6. CASE UntilDeadline <= UntilPing
  <2>1. Soonest = [kind |-> "Timeout", left |-> UntilDeadline]
    BY <1>6 DEF Soonest
  <2>2. Soonest \in Wakes /\ Soonest.left = UntilDeadline
    BY <1>4, <2>1 DEF Wakes
  <2> QED BY <1>1, <1>2, <1>4, <1>6, <2>2
<1>7. CASE ~(UntilDeadline <= UntilPing)
  <2>1. Soonest = [kind |-> "Ping", left |-> UntilPing]
    BY <1>7 DEF Soonest
  <2>2. Soonest \in Wakes /\ Soonest.left = UntilPing
    BY <1>1, DriverAssumption, <2>1 DEF Wakes
  <2> QED BY <1>1, <1>2, <1>4, <1>5, <1>7, <2>2, DriverAssumption
<1> QED BY <1>6, <1>7

-----------------------------------------------------------------------------
(***************************************************************************)
(* Types.                                                                  *)
(***************************************************************************)

\* What the session queues are numbers of messages.
LEMMA QueueIsTyped ==
  ASSUME queued \in Nat, NEW n \in Nat, NEW s \in Seq(Nat \ {0})
  PROVE  s \o Queue(n) \in Seq(Nat \ {0})
<1>1. Queue(n) \in Seq(Nat \ {0})
  BY IsASeq DEF Queue
<1> QED BY <1>1, ConcatProperties

\* handle_text() leaves a session that is typed.
LEMMA HandleTextIsTyped ==
  ASSUME Typed, NEW frame \in Frames, HandleText(frame)
  PROVE  session' \in Sessions /\ queued' \in Nat
<1> DEFINE longer == session.outbox \o Queue(1)
           fewer == IF session.deadlines = {} THEN {}
                    ELSE session.deadlines \ {Min(session.deadlines)}
<1>1. longer \in Seq(Nat \ {0}) /\ fewer \in SUBSET Nat
  BY QueueIsTyped, SessionParts DEF Typed
<1>2. \/ Queues(1) /\ session' = [session EXCEPT !.outbox = longer]
      \/ UNCHANGED queued /\ session' = [session EXCEPT !.deadlines = fewer]
      \/ Queues(1) /\ session' = [session EXCEPT !.outbox = longer, !.closed = TRUE]
  BY DEF HandleText
<1> HIDE DEF longer, fewer
<1>3. session' \in Sessions
  BY <1>1, <1>2, SessionChanges DEF Typed
<1>4. queued' \in Nat
  BY <1>2 DEF Typed, Queues
<1> QED BY <1>3, <1>4

\* What the clock loses is counted; otherwise it is known to have been set forward.
LEMMA SettingTheClock ==
  ASSUME Typed, SetClock
  PROVE  /\ \E to \in Nat, back \in Nat :
              clock' = to /\ setBack' = setBack + back /\ clock <= to + back
         /\ setForward' \in BOOLEAN
         /\ ~setForward' => ~setForward /\ clock' < clock
<1> USE DriverAssumption DEF Typed
<1>1. PICK o \in Offsets :
        LET back == IF elapsed + o < clock THEN clock - (elapsed + o) ELSE 0 IN
        /\ elapsed + o # clock
        /\ clock' = elapsed + o
        /\ setBack' = setBack + back
        /\ setForward' = (setForward \/ back = 0)
  BY DEF SetClock
<1> DEFINE back == IF elapsed + o < clock THEN clock - (elapsed + o) ELSE 0
<1>2. o \in Nat
  OBVIOUS
<1>3. back \in Nat /\ elapsed + o \in Nat /\ clock <= elapsed + o + back
  BY <1>1, <1>2
<1>4. back # 0 => clock' < clock
  BY <1>1, <1>2
<1>5. clock' = elapsed + o /\ setBack' = setBack + back
  BY <1>1
<1>6. setForward' = (setForward \/ back = 0)
  BY <1>1
<1> HIDE DEF back
<1>7. setForward' \in BOOLEAN /\ (~setForward' => ~setForward /\ back # 0)
  BY <1>6
<1> QED BY <1>3, <1>4, <1>5, <1>7

\* Every step leaves everything typed.
LEMMA StepIsTyped ==
  ASSUME Typed, [Next]_vars
  PROVE  Typed'
<1> USE DriverAssumption DEF Typed, Flushing, Stopped, history, driver
<1> DEFINE longer == session.outbox \o Queue(1)
<1>0. longer \in Seq(Nat \ {0}) /\ NoWake \in Wakes
  BY QueueIsTyped, SessionParts, WakeChanges
<1>1. CASE PollTransmit
  <2>1. Head(session.outbox) \in Nat \ {0} /\ Tail(session.outbox) \in Seq(Nat \ {0})
    BY <1>1, HeadTailProperties, SessionParts DEF PollTransmit
  <2>2. session' \in Sessions
    BY <1>1, <2>1, SessionChanges DEF PollTransmit
  <2> QED BY <1>1, <2>1, <2>2 DEF PollTransmit
<1>2. CASE SendText
  <2>1. Append(sent, hand) \in Seq(Nat \ {0})
    BY <1>2, AppendProperties DEF SendText
  <2> QED BY <1>2, <2>1 DEF SendText
<1>3. CASE SendFails
  BY <1>3 DEF SendFails
<1>4. CASE Close
  BY <1>4 DEF Close
<1>5. CASE Wait
  BY <1>5, SleepIsBounded DEF Wait
<1>6. CASE ReceiveText
  <2>1. Head(inbound) \in Frames /\ Tail(inbound) \in Seq(Frames)
    BY <1>6, HeadTailProperties DEF ReceiveText
  <2>2. session' \in Sessions /\ queued' \in Nat
    BY <1>6, <2>1, HandleTextIsTyped DEF ReceiveText
  <2> QED BY <1>0, <1>6, <2>1, <2>2 DEF ReceiveText, Woken
<1>7. CASE ReceiveClose
  <2>1. session' \in Sessions
    BY <1>7, SessionParts, SessionChanges DEF ReceiveClose
  <2> QED BY <1>0, <1>7, <2>1 DEF ReceiveClose, Woken
<1>8. CASE ReceiveFails
  BY <1>0, <1>8 DEF ReceiveFails, Woken
<1>9. CASE DeadlineReached
  <2>1. session' \in Sessions
    BY <1>9, SessionParts, SessionChanges DEF DeadlineReached, HandleTimeout
  <2> QED BY <1>0, <1>9, <2>1 DEF DeadlineReached, Woken
<1>10. CASE Ping
  <2>1. wake' \in Wakes
    BY <1>0, <1>10 DEF Ping, Woken
  <2>2. last_ping' \in Nat
    BY <1>10 DEF Ping
  <2>3. sincePing' \in Nat /\ setBack' \in Nat
    BY <1>10 DEF Ping, Woken
  <2>4. at' \in Stopped \cup Flushing
    BY <1>10 DEF Ping, Woken
  <2> QED BY <1>10, <2>1, <2>2, <2>3, <2>4 DEF Ping
<1>11. CASE Return
  BY <1>11 DEF Return
<1>12. CASE Send
  <2>1. session.deadlines \cup {clock + AckTimeout} \in SUBSET Nat
    BY SessionParts
  <2>2. session' \in Sessions
    BY <1>0, <1>12, <2>1, SessionChanges DEF Send
  <2>3. queued' \in Nat
    BY <1>12, SMTT(30) DEF Send, Queues
  <2>4. UNCHANGED <<inbound, sent, driver, clock, elapsed, sincePing, setBack, overdue, setForward>>
    BY <1>12 DEF Send
  <2> QED BY <2>2, <2>3, <2>4
<1>13. CASE CloseSession
  <2>1. session' \in Sessions
    BY <1>0, <1>13, SessionParts, SessionChanges DEF CloseSession
  <2>2. queued' \in Nat
    BY <1>13, SMTT(30) DEF CloseSession, Queues
  <2>3. at' \in Flushing
    BY <1>13 DEF CloseSession
  <2>4. UNCHANGED <<inbound, sent, hand, wake, last_ping, clock, elapsed, sincePing, setBack,
                    overdue, setForward>>
    BY <1>13 DEF CloseSession
  <2> QED BY <2>1, <2>2, <2>3, <2>4
<1>14. CASE FrameArrives
  <2>1. inbound' \in Seq(Frames)
    <3>1. PICK f \in Frames : inbound' = <<f>>
      BY <1>14 DEF FrameArrives
    <3> QED BY <3>1
  <2> QED BY <1>14, <2>1 DEF FrameArrives
<1>15. CASE ConnectionEnds
  BY <1>15 DEF ConnectionEnds
<1>16. CASE Tick
  <2>1. wake' \in Wakes
    BY <1>16, WakeChanges DEF Tick
  <2>2. clock' = clock + 1 /\ elapsed' = elapsed + 1 /\ sincePing' = sincePing + 1
    BY <1>16, Zenon DEF Tick
  <2>3. overdue' = 0 \/ overdue' = overdue + 1
    BY <1>16, Zenon DEF Tick
  <2>4. clock' \in Nat /\ elapsed' \in Nat /\ sincePing' \in Nat
    BY <2>2
  <2>6. overdue' \in Nat
    BY <2>3
  <2>5. UNCHANGED <<session, inbound, sent, at, hand, last_ping, queued, setBack, setForward>>
    BY <1>16 DEF Tick
  <2> QED BY <2>1, <2>4, <2>5, <2>6
<1>17. CASE SetClock
  BY <1>17, SettingTheClock DEF SetClock
<1>18. CASE UNCHANGED vars
  BY <1>18 DEF vars
<1> QED BY <1>1, <1>2, <1>3, <1>4, <1>5, <1>6, <1>7, <1>8, <1>9, <1>10, <1>11, <1>12, <1>13,
           <1>14, <1>15, <1>16, <1>17, <1>18 DEF Next

-----------------------------------------------------------------------------
(***************************************************************************)
(* Keep-alives and deadlines.                                              *)
(***************************************************************************)

\* No step lets the time since the last keep-alive outgrow the interval.
LEMMA StepPings ==
  ASSUME Typed, Pinging, [Next]_vars
  PROVE  Pinging'
<1> USE DriverAssumption DEF Typed, Pinging, Flushing, Stopped, history, driver, Never
<1>1. CASE PollTransmit \/ SendText \/ FrameArrives \/ ConnectionEnds \/ UNCHANGED vars
  BY <1>1 DEF PollTransmit, SendText, FrameArrives, ConnectionEnds, vars
<1>2. CASE SendFails \/ Close \/ ReceiveFails
  BY <1>2 DEF SendFails, Close, ReceiveFails, Woken
<1>3. CASE Wait
  <2>1. /\ UntilPing \in 0 .. PING_INTERVAL
        /\ last_ping # Never => UntilPing + Since(last_ping) <= PING_INTERVAL \/ UntilPing = 0
        /\ Soonest.left \in Nat /\ Soonest.left <= UntilPing
    BY SleepIsBounded
  <2>2. /\ at = "before" /\ at' = "waiting" /\ wake' = Soonest
        /\ last_ping' = IF last_ping = Never THEN clock ELSE last_ping
        /\ UNCHANGED <<clock, sincePing, setBack>>
    BY <1>3 DEF Wait
  <2> QED BY <2>1, <2>2 DEF Since
<1>4. CASE ReceiveText \/ ReceiveClose \/ DeadlineReached
  BY <1>4 DEF ReceiveText, ReceiveClose, DeadlineReached, Woken
<1>5. CASE Ping
  <2>1. at' # "waiting" /\ last_ping' = clock /\ clock' = clock
    BY <1>5 DEF Ping, Woken
  <2>2. at' \in Stopped \/ (sincePing' = 0 /\ setBack' = 0)
    BY <1>5 DEF Ping, Woken
  <2> QED BY <2>1, <2>2
<1>6. CASE Return \/ Send \/ CloseSession
  BY <1>6 DEF Return, Send, CloseSession
<1>7. CASE Tick
  <2>1. wake.left \in Nat /\ wake.left > 0 /\ wake'.left = wake.left - 1
    BY <1>7, WakeChanges DEF Tick
  <2>2. /\ at = "waiting" /\ clock' = clock + 1 /\ sincePing' = sincePing + 1
        /\ UNCHANGED <<at, last_ping, setBack>>
    BY <1>7 DEF Tick
  <2> QED BY <2>1, <2>2
<1>8. CASE SetClock
  <2>1. PICK to \in Nat, back \in Nat :
          clock' = to /\ setBack' = setBack + back /\ clock <= to + back
    BY <1>8, SettingTheClock
  <2>2. UNCHANGED <<at, last_ping, wake, sincePing>>
    BY <1>8 DEF SetClock
  <2>3. wake.left \in Nat
    BY WakeChanges
  <2> QED BY <2>1, <2>2, <2>3
<1> QED BY <1>1, <1>2, <1>3, <1>4, <1>5, <1>6, <1>7, <1>8 DEF Next

\* No step lets a deadline wait past the sleep that is to end at it.
LEMMA StepIsPunctual ==
  ASSUME Typed, Punctual, [Next]_vars
  PROVE  Punctual'
<1> USE DriverAssumption DEF Typed, Punctual, Flushing, Stopped, history, driver
<1>0. PollTimeout \subseteq Nat
  BY SessionParts DEF PollTimeout
<1>1. CASE PollTransmit \/ SendText \/ SendFails \/ Close \/ Return \/ Send \/ CloseSession
  <2>1. at # "waiting" \/ UNCHANGED <<session, clock, wake>>
    BY <1>1 DEF PollTransmit, SendText, SendFails, Close, Return, Send, CloseSession
  <2>2. at' # "waiting" \/ UNCHANGED at
    BY <1>1 DEF PollTransmit, SendText, SendFails, Close, Return, Send, CloseSession
  <2>3. UNCHANGED <<overdue, setForward>>
    BY <1>1 DEF PollTransmit, SendText, SendFails, Close, Return, Send, CloseSession
  <2> QED BY <2>1, <2>2, <2>3 DEF PollTimeout
<1>2. CASE Wait
  <2>1. \A d \in PollTimeout : d \in Nat /\ (Due = {} => clock < d)
    BY <1>0 DEF Due
  <2>2. Soonest.left \in Nat /\ Soonest.left <= PING_INTERVAL
        /\ \A d \in PollTimeout : Soonest.left <= Until(d)
    BY SleepIsBounded
  <2>3. Due # {} => Soonest.left = 0
    BY <2>1, <2>2 DEF Due, Until
  <2>4. \A d \in PollTimeout : Soonest.left = 0 \/ clock + Soonest.left <= d
    BY <2>1, <2>2 DEF Until
  <2>5. /\ at' = "waiting" /\ wake' = Soonest
        /\ overdue' = IF Due = {} THEN 0 ELSE overdue
        /\ clock' = clock /\ PollTimeout' = PollTimeout
    BY <1>2 DEF Wait, PollTimeout
  <2>6. ~setForward' => ~setForward \/ Due = {}
    BY <1>2 DEF Wait
  <2> QED BY <2>2, <2>3, <2>4, <2>5, <2>6
<1>3. CASE ReceiveText \/ ReceiveClose \/ ReceiveFails \/ DeadlineReached \/ Ping
  BY <1>3 DEF ReceiveText, ReceiveClose, ReceiveFails, DeadlineReached, Ping, Woken
<1>4. CASE FrameArrives \/ ConnectionEnds \/ UNCHANGED vars
  BY <1>4 DEF FrameArrives, ConnectionEnds, vars, PollTimeout
<1>5. CASE Tick
  <2>1. wake.left \in Nat /\ wake.left > 0 /\ wake'.left = wake.left - 1
    BY <1>5, WakeChanges DEF Tick
  <2>2. /\ at = "waiting" /\ clock' = clock + 1 /\ overdue' = IF Due = {} THEN 0 ELSE overdue + 1
        /\ UNCHANGED <<at, setForward>> /\ PollTimeout' = PollTimeout
    BY <1>5 DEF Tick, PollTimeout
  <2>3. ~setForward => Due = {}
    <3> SUFFICES ASSUME ~setForward, NEW d \in PollTimeout PROVE ~(d <= clock)
      BY DEF Due
    <3>1. wake.left = 0 \/ clock + wake.left <= d
      BY <2>2
    <3>2. d \in Nat /\ clock \in Nat
      BY <1>0
    <3> QED BY <2>1, <3>1, <3>2
  <2>4. overdue' <= PING_INTERVAL /\ overdue' + wake'.left <= PING_INTERVAL
    <3>1. overdue \in Nat /\ PING_INTERVAL \in Nat /\ overdue + wake.left <= PING_INTERVAL
      BY <2>2
    <3>2. CASE overdue' = 0
      BY <2>1, <3>1, <3>2
    <3>3. CASE overdue' = overdue + 1
      BY <2>1, <3>1, <3>3
    <3> QED BY <2>2, <3>2, <3>3
  <2>5. ~setForward' => overdue' = 0
    BY <2>2, <2>3
  <2>6. ASSUME ~setForward', NEW d \in PollTimeout' PROVE wake'.left = 0 \/ clock' + wake'.left <= d
    <3>1. d \in Nat /\ clock \in Nat /\ (wake.left = 0 \/ clock + wake.left <= d)
      BY <1>0, <2>2, <2>6
    <3>2. wake.left \in Nat /\ wake'.left = wake.left - 1 /\ clock' = clock + 1 /\ wake.left # 0
      BY <2>1, <2>2
    <3> QED BY <3>1, <3>2, SMTT(30)
  <2> QED BY <2>4, <2>5, <2>6
<1>6. CASE SetClock
  <2>1. clock' \in Nat /\ (~setForward' => ~setForward /\ clock' < clock)
    BY <1>6, SettingTheClock
  <2>2. UNCHANGED <<at, wake, overdue>> /\ PollTimeout' = PollTimeout
    BY <1>6 DEF SetClock, PollTimeout
  <2>3. wake.left \in Nat
    BY WakeChanges
  <2> QED BY <1>0, <2>1, <2>2, <2>3
<1> QED BY <1>1, <1>2, <1>3, <1>4, <1>5, <1>6 DEF Next

\* A driver that has just been started.
LEMMA Starts ==
  ASSUME Init
  PROVE  Typed /\ Pinging /\ Punctual
<1> USE DriverAssumption DEF Init, Flushing, Stopped, Never
<1>1. session \in Sessions
  BY DEF Sessions
<1>2. wake \in Wakes
  BY DEF Wakes, NoWake
<1>3. inbound \in Seq(Frames) /\ sent \in Seq(Nat \ {0})
  OBVIOUS
<1>4. clock \in Nat
  OBVIOUS
<1>5. Typed
  BY <1>1, <1>2, <1>3, <1>4 DEF Typed
<1>6. Pinging
  BY DEF Pinging
<1>7. Punctual
  BY DEF Punctual
<1> QED BY <1>5, <1>6, <1>7

\* For every interval, every timeout of an acknowledgement and every way the wall clock
\* is set: a keep-alive is sent at least once an interval.
THEOREM KeepAlivesInTime == Spec => []PingsInTime
<1>1. Init => Typed /\ Pinging
  BY Starts
<1>2. (Typed /\ Pinging) /\ [Next]_vars => (Typed /\ Pinging)'
  BY StepIsTyped, StepPings
<1>3. Typed /\ Pinging => PingsInTime
  BY DEF Pinging, PingsInTime
<1> QED BY <1>1, <1>2, <1>3, PTL DEF Spec

\* For every set of deadlines: one that is due is handled the moment it is, or by the
\* next keep-alive when the clock was set past it.
THEOREM DeadlinesInTime == Spec => []DeadlinesKeepTime
<1>1. Init => Typed /\ Punctual
  BY Starts
<1>2. (Typed /\ Punctual) /\ [Next]_vars => (Typed /\ Punctual)'
  BY StepIsTyped, StepIsPunctual
<1>3. Typed /\ Punctual => DeadlinesKeepTime
  BY DEF Typed, Punctual, DeadlinesKeepTime
<1> QED BY <1>1, <1>2, <1>3, PTL DEF Spec

-----------------------------------------------------------------------------
(***************************************************************************)
(* What the session queued.                                                *)
(***************************************************************************)

Held == IF hand = 0 THEN <<>> ELSE <<hand>>
Count(n) == [i \in 1 .. n |-> i]

\* Nothing is queued when the driver is done.
Ordered ==
  /\ Count(queued) = (sent \o Held) \o session.outbox
  /\ at = "done" => Flushed

\* Sequences of messages may be joined in any grouping.
LEMMA Regroup ==
  ASSUME NEW a \in Seq(Nat), NEW b \in Seq(Nat), NEW c \in Seq(Nat)
  PROVE  (a \o b) \o c = a \o (b \o c)
BY ConcatAssociative, SMTT(40)

\* What two sequences of messages are joined to.
LEMMA Joined ==
  ASSUME NEW a \in Seq(Nat), NEW b \in Seq(Nat)
  PROVE  /\ a \o b \in Seq(Nat)
         /\ Len(a \o b) = Len(a) + Len(b)
         /\ \A i \in 1 .. Len(a) + Len(b) :
              (a \o b)[i] = IF i <= Len(a) THEN a[i] ELSE b[i - Len(a)]
BY ConcatProperties

\* The next messages a session queues carry on where it left off.
LEMMA CountGoesOn ==
  ASSUME queued \in Nat
  PROVE  Count(queued + 1) = Count(queued) \o Queue(1)
<1>1. Count(queued) \in Seq(Nat) /\ Len(Count(queued)) = queued
  BY IsASeq DEF Count
<1>2. Queue(1) \in Seq(Nat) /\ Len(Queue(1)) = 1 /\ Queue(1)[1] = queued + 1
  BY IsASeq DEF Queue
<1>3. Count(queued + 1) \in Seq(Nat) /\ Len(Count(queued + 1)) = queued + 1
  BY IsASeq DEF Count
<1> DEFINE first == Count(queued)
           next == Queue(1)
           both == first \o next
<1>4. first \in Seq(Nat) /\ Len(first) = queued /\ next \in Seq(Nat) /\ Len(next) = 1
  BY <1>1, <1>2
<1>5. next[1] = queued + 1 /\ \A i \in 1 .. queued : first[i] = i
  BY <1>2 DEF Count
<1> HIDE DEF first, next
<1>10. /\ both \in Seq(Nat) /\ Len(both) = Len(first) + Len(next)
       /\ \A i \in 1 .. Len(first) + Len(next) :
            both[i] = IF i <= Len(first) THEN first[i] ELSE next[i - Len(first)]
  BY <1>4, Joined, ZenonT(30)
<1> HIDE DEF both
<1>7. /\ both \in Seq(Nat) /\ Len(both) = queued + 1
      /\ \A i \in 1 .. queued + 1 : both[i] = IF i <= queued THEN first[i] ELSE next[i - queued]
  BY <1>4, <1>10
<1>8. ASSUME NEW i \in 1 .. queued + 1 PROVE both[i] = i
  <2>1. CASE i \in 1 .. queued
    BY <1>5, <1>7, <2>1
  <2>2. CASE i = queued + 1
    <3>1. i \in 1 .. queued + 1 /\ ~(i <= queued) /\ i - queued = 1
      BY <2>2
    <3>2. both[i] = next[i - queued]
      BY <1>7, <3>1
    <3> QED BY <1>5, <2>2, <3>1, <3>2
  <2>3. i \in 1 .. queued \/ i = queued + 1
    OBVIOUS
  <2> QED BY <2>1, <2>2, <2>3
<1>6. \A i \in 1 .. queued + 1 : Count(queued + 1)[i] = i
  BY DEF Count
<1>9. Count(queued + 1) = both
  BY <1>3, <1>6, <1>7, <1>8, SeqEqual
<1> QED BY <1>9 DEF both, first, next

\* What the session queues joins the end of what is on its way.
LEMMA QueueingKeepsOrder ==
  ASSUME Typed, Ordered, UNCHANGED <<sent, hand>>,
         queued' = queued + 1, session'.outbox = session.outbox \o Queue(1)
  PROVE  Count(queued') = ((sent \o Held) \o session.outbox)'
<1>1. sent \o Held \in Seq(Nat) /\ session.outbox \in Seq(Nat) /\ Queue(1) \in Seq(Nat)
  <2>1. Held \in Seq(Nat) /\ sent \in Seq(Nat) /\ session.outbox \in Seq(Nat)
    BY SessionParts, SeqMonotonic DEF Typed, Held
  <2>2. Queue(1) \in Seq(Nat)
    BY IsASeq DEF Typed, Queue
  <2> QED BY <2>1, <2>2, Joined
<1>2. ((sent \o Held) \o session.outbox) \o Queue(1) = (sent \o Held) \o (session.outbox \o Queue(1))
  BY <1>1, Regroup
<1>3. Count(queued + 1) = Count(queued) \o Queue(1)
  BY CountGoesOn DEF Typed
<1>4. Held' = Held
  BY DEF Held
<1> QED BY <1>2, <1>3, <1>4 DEF Ordered

\* No step loses a message, overtakes one, or sends one twice.
LEMMA StepKeepsOrder ==
  ASSUME Typed, Ordered, [Next]_vars
  PROVE  Ordered'
<1> DEFINE out == session.outbox
<1>0. sent \in Seq(Nat) /\ out \in Seq(Nat) /\ hand \in Nat
  BY SessionParts, SeqMonotonic DEF Typed
<1>1. CASE PollTransmit
  <2>1. Head(out) \in Nat \ {0} /\ Tail(out) \in Seq(Nat) /\ out = <<Head(out)>> \o Tail(out)
    BY <1>1, HeadTailProperties, SessionParts, SeqMonotonic, SMTT(40) DEF Typed, PollTransmit
  <2>2. Held = <<>> /\ Held' = <<Head(out)>> /\ sent' = sent
    BY <1>1, <2>1 DEF PollTransmit, Held
  <2>3. session'.outbox = Tail(out)
    BY <1>1 DEF PollTransmit, Typed, Sessions
  <2>4. (sent \o Held) \o out = sent \o (<<Head(out)>> \o Tail(out))
    BY <1>0, <2>1, <2>2, ConcatEmptySeq
  <2>5. sent \o (<<Head(out)>> \o Tail(out)) = (sent \o <<Head(out)>>) \o Tail(out)
    <3>1. <<Head(out)>> \in Seq(Nat)
      BY <2>1
    <3> QED BY <1>0, <2>1, <3>1, Regroup
  <2>6. at' # "done" /\ queued' = queued
    BY <1>1 DEF PollTransmit, Flushing, history
  <2> HIDE DEF out
  <2> QED BY <2>2, <2>3, <2>4, <2>5, <2>6 DEF Ordered, out
<1>2. CASE SendText
  <2>1. Held = <<hand>> /\ Held' = <<>> /\ sent' = Append(sent, hand) /\ session' = session
    BY <1>2 DEF SendText, Held
  <2>2. sent' = sent \o Held /\ sent' \in Seq(Nat)
    BY <1>0, <2>1, AppendIsConcat, AppendProperties
  <2>3. sent' \o Held' = sent \o Held
    BY <2>1, <2>2, ConcatEmptySeq
  <2>4. at' # "done" /\ queued' = queued
    BY <1>2 DEF SendText, Stopped, history
  <2> QED BY <2>1, <2>3, <2>4 DEF Ordered
<1>3. CASE Close
  BY <1>3 DEF Close, Ordered, Held, Flushed, history
<1>4. CASE ReceiveText
  <2>1. /\ at' # "done" /\ UNCHANGED <<sent, hand>>
        /\ \E frame \in Frames : HandleText(frame)
    BY <1>4, HeadTailProperties DEF ReceiveText, Woken, Typed
  <2>2. CASE Queues(1) /\ session'.outbox = out \o Queue(1)
    <3>1. queued' = queued + 1
      BY <2>2 DEF Queues
    <3> QED BY <2>1, <2>2, <3>1, QueueingKeepsOrder DEF Ordered
  <2>3. CASE UNCHANGED queued /\ session'.outbox = out
    BY <2>1, <2>3 DEF Ordered, Held
  <2> QED BY <2>1, <2>2, <2>3 DEF HandleText, Typed, Sessions
<1>5. CASE Send \/ CloseSession
  <2>1. /\ at' # "done" /\ UNCHANGED <<sent, hand>> /\ queued' = queued + 1
    BY <1>5 DEF Send, CloseSession, Queues, driver
  <2>2. session'.outbox = out \o Queue(1)
    BY <1>5 DEF Send, CloseSession, Typed, Sessions
  <2> QED BY <2>1, <2>2, QueueingKeepsOrder DEF Ordered
<1>6. CASE ReceiveClose \/ DeadlineReached
  <2>1. session'.outbox = out
    BY <1>6 DEF ReceiveClose, DeadlineReached, HandleTimeout, Typed, Sessions
  <2>2. UNCHANGED <<sent, hand, queued>> /\ at' # "done"
    BY <1>6 DEF ReceiveClose, DeadlineReached, Woken, history
  <2> QED BY <2>1, <2>2 DEF Ordered, Held
<1>7. CASE SendFails \/ Wait \/ ReceiveFails \/ Ping \/ Return
  <2>1. UNCHANGED <<session, sent, hand, queued>> /\ at' # "done"
    BY <1>7 DEF SendFails, Wait, ReceiveFails, Ping, Return, Woken, history
  <2> QED BY <2>1 DEF Ordered, Held
<1>8. CASE FrameArrives \/ ConnectionEnds \/ Tick \/ SetClock \/ UNCHANGED vars
  <2>1. UNCHANGED <<session, sent, hand, queued, at>>
    BY <1>8 DEF FrameArrives, ConnectionEnds, Tick, SetClock, vars, driver, history
  <2> QED BY <2>1 DEF Ordered, Held, Flushed
<1> QED BY <1>1, <1>2, <1>3, <1>4, <1>5, <1>6, <1>7, <1>8 DEF Next

\* For every number of messages and every way a connection ends: what the session queued
\* is sent in order and once, all of it when the driver closes, and all but the message in
\* hand and those behind it when it fails.
THEOREM LastWords == Spec => []LastWordsAreSent
<1>1. Init => Typed /\ Ordered
  <2> SUFFICES ASSUME Init PROVE Ordered
    BY Starts
  <2>1. Count(1) = <<1>>
    BY DEF Count
  <2>2. sent = <<>> /\ Held = <<>> /\ session.outbox = <<1>> /\ queued = 1 /\ at # "done"
    BY DEF Init, Held
  <2> QED BY <2>1, <2>2 DEF Ordered
<1>2. (Typed /\ Ordered) /\ [Next]_vars => (Typed /\ Ordered)'
  BY StepIsTyped, StepKeepsOrder
<1>3. Typed /\ Ordered => LastWordsAreSent
  BY DEF Ordered, Count, Held, LastWordsAreSent
<1> QED BY <1>1, <1>2, <1>3, PTL DEF Spec
=============================================================================
