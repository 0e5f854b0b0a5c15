---------------------------- MODULE LedgerProofs ----------------------------
(***************************************************************************)
(* Proofs about AckLedger: a message is acted on at most once as long as   *)
(* its answer is in the window, for every size of the window, every number *)
(* of identifiers and whatever the peer repeats or damages.                *)
(***************************************************************************)
EXTENDS AckLedger, SequenceTheorems, FiniteSetTheorems, WellFoundedInduction, TLAPS

Answers == [id : Inbound, status : {"OK", "TEMPORARY_ERROR", "INVALID_MESSAGE"}]

Typed ==
  /\ answered \in Seq(Answers)
  /\ history \in Seq(Inbound)
  /\ processed \in [Inbound -> Nat]

\* The window shows the end of the history: all of it, or as much as it holds.
Window ==
  /\ Len(answered) <= MaxAnswered /\ Len(answered) <= Len(history)
  /\ Len(answered) < MaxAnswered => Len(answered) = Len(history)
  /\ \A i \in 1 .. Len(answered) : answered[i].id = history[Len(history) - Len(answered) + i]

\* A set of positions has a last one.
LEMMA LastPosition ==
  ASSUME NEW n \in Nat, NEW S, S \subseteq 1 .. n, S # {}
  PROVE  Max(S) \in S
<1> DEFINE T == {n - x : x \in S}
<1>1. T \subseteq Nat /\ T # {}
  <2>1. \A x \in S : n - x \in Nat
    OBVIOUS
  <2>2. T \subseteq Nat
    BY <2>1
  <2>3. PICK x \in S : TRUE
    OBVIOUS
  <2>4. n - x \in T
    BY <2>3
  <2> QED BY <2>2, <2>4
<1>2. PICK m \in T : \A y \in T : ~(<<y, m>> \in OpToRel(<, Nat))
  BY <1>1, NatLessThanWellFounded, WFMin
<1>3. PICK x \in S : m = n - x
  BY <1>2
<1>4. \A y \in S : x >= y
  <2> SUFFICES ASSUME NEW y \in S, y > x PROVE FALSE
    BY <1>3
  <2>1. n - y \in T /\ n - y \in Nat /\ m \in Nat /\ n - y < m
    BY <1>3
  <2>2. <<n - y, m>> \in Nat \X Nat /\ <<n - y, m>>[1] < <<n - y, m>>[2]
    BY <2>1
  <2>3. <<n - y, m>> \in OpToRel(<, Nat)
    BY <2>2 DEF OpToRel
  <2> QED BY <1>2, <2>1, <2>3
<1> QED BY <1>4 DEF Max

\* A message the window does not know is not in it.
LEMMA Forgotten ==
  ASSUME Typed, NEW id \in Inbound, PreviousAnswer(id) = 0
  PROVE  \A i \in 1 .. Len(answered) : answered[i].id # id
<1> DEFINE I == {i \in 1 .. Len(answered) : answered[i].id = id}
<1>1. Len(answered) \in Nat
  BY DEF Typed
<1>2. I # {} => Max(I) \in I
  BY <1>1, LastPosition
<1>3. PreviousAnswer(id) = IF I # {} THEN Max(I) ELSE 0
  BY DEF PreviousAnswer, SelectLastInSeq
<1> HIDE DEF I
<1>4. I = {}
  <2> SUFFICES ASSUME I # {} PROVE FALSE
    OBVIOUS
  <2>1. Max(I) \in 1 .. Len(answered)
    BY <1>2 DEF I
  <2> QED BY <1>1, <1>3, <2>1
<1> QED BY <1>4 DEF I

\* A message heard was answered at some place of the history, the one since which
\* answers are counted.
LEMMA HeardSomewhere ==
  ASSUME Typed, NEW id \in Inbound, Heard(id)
  PROVE  \E i \in 1 .. Len(history) : history[i] = id /\ AnswersSince(id) = Len(history) - i
<1> DEFINE I == {i \in 1 .. Len(history) : history[i] = id}
<1>1. Len(history) \in Nat /\ DOMAIN history = 1 .. Len(history)
  BY DEF Typed
<1>2. I # {}
  BY <1>1 DEF Heard, Range
<1>3. Max(I) \in I
  BY <1>1, <1>2, LastPosition
<1>4. AnswersSince(id) = Len(history) - IF I # {} THEN Max(I) ELSE 0
  BY DEF AnswersSince, SelectLastInSeq
<1> HIDE DEF I
<1>5. AnswersSince(id) = Len(history) - Max(I)
  BY <1>2, <1>4
<1> QED BY <1>3, <1>5 DEF I

\* What the window forgot was answered a window ago.
LEMMA ForgottenLongAgo ==
  ASSUME Typed, Window, NEW id \in Inbound, PreviousAnswer(id) = 0, Heard(id)
  PROVE  AnswersSince(id) >= MaxAnswered
<1>1. PICK i \in 1 .. Len(history) : history[i] = id /\ AnswersSince(id) = Len(history) - i
  BY HeardSomewhere
<1>2. Len(history) \in Nat /\ Len(answered) \in Nat /\ MaxAnswered \in Nat
  BY LedgerAssumption DEF Typed
<1>3. i <= Len(history) - Len(answered)
  <2> SUFFICES ASSUME i > Len(history) - Len(answered) PROVE FALSE
    BY <1>2
  <2> DEFINE k == i - (Len(history) - Len(answered))
  <2>1. k \in 1 .. Len(answered) /\ Len(history) - Len(answered) + k = i
    BY <1>2 DEF Window
  <2>2. answered[k].id = id
    BY <1>1, <2>1 DEF Window
  <2> QED BY <2>1, <2>2, Forgotten
<1> QED BY <1>1, <1>2, <1>3 DEF Window

\* An answer joins the window and the history alike.
LEMMA AnswerIsRemembered ==
  ASSUME Typed, Window, NEW id \in Inbound,
         NEW status \in {"OK", "TEMPORARY_ERROR", "INVALID_MESSAGE"}, Answer(id, status)
  PROVE  answered' \in Seq(Answers) /\ history' \in Seq(Inbound) /\ Window'
<1> DEFINE new == [id |-> id, status |-> status]
           kept == IF Len(answered) >= MaxAnswered THEN Tail(answered) ELSE answered
<1>1. new \in Answers /\ new.id = id
  BY DEF Answers
<1> HIDE DEF new
<1>2. answered' = Append(kept, new) /\ history' = Append(history, id)
  BY DEF Answer, Remembering, new
<1>3. Len(history) \in Nat /\ Len(answered) \in Nat /\ MaxAnswered \in Nat /\ MaxAnswered > 0
  BY LedgerAssumption DEF Typed
<1>4. /\ kept \in Seq(Answers) /\ Len(kept) < MaxAnswered /\ Len(kept) <= Len(history)
      /\ Len(kept) + 1 < MaxAnswered => Len(kept) = Len(history)
      /\ \A i \in 1 .. Len(kept) : kept[i].id = history[Len(history) - Len(kept) + i]
  <2>1. CASE Len(answered) >= MaxAnswered
    <3>1. answered # <<>> /\ answered \in Seq(Answers)
      BY <1>3, <2>1 DEF Typed
    <3>2. /\ kept \in Seq(Answers) /\ Len(kept) = Len(answered) - 1
          /\ \A i \in 1 .. Len(kept) : kept[i] = answered[i + 1]
      BY <2>1, <3>1, HeadTailProperties
    <3> HIDE DEF kept
    <3>3. Len(answered) = MaxAnswered
      BY <1>3, <2>1 DEF Window
    <3>4. ASSUME NEW i \in 1 .. Len(kept)
          PROVE  kept[i].id = history[Len(history) - Len(kept) + i]
      <4>1. i + 1 \in 1 .. Len(answered)
            /\ Len(history) - Len(answered) + (i + 1) = Len(history) - Len(kept) + i
        BY <1>3, <3>2
      <4> QED BY <3>2, <4>1 DEF Window
    <3> QED BY <1>3, <3>2, <3>3, <3>4 DEF Window
  <2>2. CASE Len(answered) < MaxAnswered
    <3>1. kept = answered
      BY <1>3, <2>2
    <3> HIDE DEF kept
    <3> QED BY <1>3, <2>2, <3>1 DEF Typed, Window
  <2>3. Len(answered) >= MaxAnswered \/ Len(answered) < MaxAnswered
    BY <1>3
  <2> HIDE DEF kept
  <2> QED BY <2>1, <2>2, <2>3
<1> HIDE DEF kept
<1>5. /\ answered' \in Seq(Answers) /\ Len(answered') = Len(kept) + 1
      /\ \A i \in 1 .. Len(kept) : answered'[i] = kept[i]
      /\ answered'[Len(kept) + 1] = new
  BY <1>1, <1>2, <1>4, AppendProperties
<1>6. /\ history' \in Seq(Inbound) /\ Len(history') = Len(history) + 1
      /\ \A i \in 1 .. Len(history) : history'[i] = history[i]
      /\ history'[Len(history) + 1] = id
  BY <1>2, AppendProperties DEF Typed
<1>7. Len(kept) \in Nat
  BY <1>4
<1>8. ASSUME NEW i \in 1 .. Len(kept) + 1
      PROVE  answered'[i].id = history'[Len(history') - Len(answered') + i]
  <2>1. Len(history') - Len(answered') + i = Len(history) - Len(kept) + i
    BY <1>3, <1>5, <1>6, <1>7
  <2>2. CASE i \in 1 .. Len(kept)
    <3>1. Len(history) - Len(kept) + i \in 1 .. Len(history)
      BY <1>3, <1>4, <1>7, <2>2
    <3> QED BY <1>4, <1>5, <1>6, <2>1, <2>2, <3>1
  <2>3. CASE i = Len(kept) + 1
    <3>1. Len(history) - Len(kept) + i = Len(history) + 1
      BY <1>3, <1>7, <2>3
    <3> QED BY <1>1, <1>5, <1>6, <2>1, <2>3, <3>1
  <2>4. i \in 1 .. Len(kept) \/ i = Len(kept) + 1
    BY <1>7
  <2> QED BY <2>2, <2>3, <2>4
<1> QED BY <1>3, <1>4, <1>5, <1>6, <1>7, <1>8 DEF Window

\* A message is acted on only when the window does not know it.
LEMMA ActingIsFresh ==
  ASSUME Typed, [Next]_vars
  PROVE  /\ processed' \in [Inbound -> Nat]
         /\ \A id \in Inbound : processed'[id] > processed[id] => PreviousAnswer(id) = 0
<1>1. ASSUME NEW id \in Inbound, AnswerFresh(id)
      PROVE  /\ processed' \in [Inbound -> Nat]
             /\ \A other \in Inbound : processed'[other] > processed[other] => PreviousAnswer(other) = 0
  <2>1. PreviousAnswer(id) = 0 /\ (processed' = processed \/ processed' = [processed EXCEPT ![id] = @ + 1])
    BY <1>1 DEF AnswerFresh
  <2>2. \A other \in Inbound : processed[other] \in Nat
    BY DEF Typed
  <2>3. processed' \in [Inbound -> Nat] /\ \A other \in Inbound \ {id} : processed'[other] = processed[other]
    BY <2>1, <2>2 DEF Typed
  <2> QED BY <2>1, <2>2, <2>3
<1>2. CASE UNCHANGED processed
  BY <1>2 DEF Typed
<1>3. \A id \in Inbound : (AnswerDuplicate(id) \/ AnswerDamaged(id)) => UNCHANGED processed
  BY DEF AnswerDuplicate, AnswerDamaged
<1>4. Sending => UNCHANGED processed
  BY DEF Sending, Send, Unmatched, Received, HandleTimeout
<1>5. Tick \/ StepBack \/ UNCHANGED vars => UNCHANGED processed
  BY DEF Tick, StepBack, vars
<1> QED BY <1>1, <1>2, <1>3, <1>4, <1>5 DEF Next, Answering

LEMMA StepKeepsWindow ==
  ASSUME Typed, Window, [Next]_vars
  PROVE  Typed' /\ Window'
<1>1. ASSUME NEW id \in Inbound, AnswerFresh(id) \/ AnswerDamaged(id) PROVE Typed' /\ Window'
  <2>1. \E status \in {"OK", "TEMPORARY_ERROR", "INVALID_MESSAGE"} : Answer(id, status)
    BY <1>1 DEF AnswerFresh, AnswerDamaged
  <2> QED BY <2>1, AnswerIsRemembered, ActingIsFresh DEF Typed
<1>2. ASSUME NEW id \in Inbound, AnswerDuplicate(id) PROVE Typed' /\ Window'
  <2>1. PreviousAnswer(id) \in 1 .. Len(answered)
    <3> DEFINE I == {i \in 1 .. Len(answered) : answered[i].id = id}
    <3>0. Len(answered) \in Nat
      BY DEF Typed
    <3>1. I # {} => Max(I) \in I
      BY <3>0, LastPosition
    <3>2. PreviousAnswer(id) = IF I # {} THEN Max(I) ELSE 0
      BY DEF PreviousAnswer, SelectLastInSeq
    <3> HIDE DEF I
    <3>3. I # {} /\ PreviousAnswer(id) = Max(I)
      BY <1>2, <3>2 DEF AnswerDuplicate
    <3> QED BY <3>1, <3>3 DEF I
  <2>2. answered[PreviousAnswer(id)] \in Answers
    BY <2>1, ElementOfSeq DEF Typed
  <2>3. answered[PreviousAnswer(id)].status \in {"OK", "TEMPORARY_ERROR", "INVALID_MESSAGE"}
    BY <2>2 DEF Answers
  <2>4. Answer(id, answered[PreviousAnswer(id)].status)
    BY <1>2 DEF AnswerDuplicate
  <2> QED BY <2>3, <2>4, AnswerIsRemembered, ActingIsFresh DEF Typed
<1>3. CASE UNCHANGED <<answered, history>>
  BY <1>3, ActingIsFresh DEF Typed, Window
<1>4. Sending => UNCHANGED <<answered, history>>
  BY DEF Sending, Send, Unmatched, Received, HandleTimeout
<1>5. Tick \/ StepBack \/ UNCHANGED vars => UNCHANGED <<answered, history>>
  BY DEF Tick, StepBack, vars
<1> QED BY <1>1, <1>2, <1>3, <1>4, <1>5 DEF Next, Answering

\* For every size of the window: whatever is delivered again, damaged or answered late,
\* a message heard before is acted on only when as many answers as the window holds were
\* given since its own.
THEOREM OnceWithinTheWindow == Spec => OncePerWindow
<1>1. Init => Typed /\ Window
  <2> SUFFICES ASSUME Init PROVE Typed /\ Window
    OBVIOUS
  <2>1. answered = <<>> /\ history = <<>> /\ processed = [id \in Inbound |-> 0]
    BY DEF Init
  <2>2. MaxAnswered \in Nat
    BY LedgerAssumption
  <2> QED BY <2>1, <2>2 DEF Typed, Window
<1>2. (Typed /\ Window) /\ [Next]_vars => (Typed /\ Window)'
  BY StepKeepsWindow
<1>3. (Typed /\ Window) /\ [Next]_vars
        => [\A id \in Inbound :
              processed'[id] > processed[id] /\ Heard(id) => AnswersSince(id) >= MaxAnswered]_vars
  BY ActingIsFresh, ForgottenLongAgo
<1> QED BY <1>1, <1>2, <1>3, PTL DEF Spec, OncePerWindow

-----------------------------------------------------------------------------
(***************************************************************************)
(* The ledger keeps the promise of SendOutcome.                            *)
(***************************************************************************)
Counters == [sent : Nat, acked : Nat, nacked : Nat, ack_timeouts : Nat,
             unmatched_acks : Nat, duplicates : Nat]

\* What the application was told of a message, and what is still in the ledger, never
\* contradict: nothing before it is settled, one event from then on.
ToldOnce(id) ==
  IF id > stats.sent \/ Waiting(id)
    THEN events[id] = {}
    ELSE \E event \in Promise!Settled : events[id] = {event}

Accounts ==
  /\ stats \in Counters /\ stats.sent <= MaxSent
  /\ \A entry \in pending : entry.id \in 1 .. stats.sent
  /\ \A entry, other \in pending : entry.id = other.id => entry = other
  /\ DOMAIN events = Sent
  /\ \A id \in Sent : ToldOnce(id)

\* What is read off a single event.
LEMMA OnlyEvent ==
  ASSUME NEW event
  PROVE  Cardinality({event}) = 1 /\ (CHOOSE e \in {event} : TRUE) = event
<1>1. Cardinality({event}) = 1
  BY FS_Singleton
<1>2. \A x : x \in {event} <=> x = event
  OBVIOUS
<1> QED BY <1>1, <1>2

\* The outcome of a message nothing was said of is what it was.
LEMMA OutcomeStays ==
  ASSUME Accounts, NEW id \in Sent, Waiting(id)' <=> Waiting(id),
         id > stats'.sent <=> id > stats.sent, events'[id] = events[id]
  PROVE  OutcomeOf(id)' = OutcomeOf(id)
<1>1. CASE id > stats.sent \/ Waiting(id)
  BY <1>1 DEF OutcomeOf
<1>2. CASE ~(id > stats.sent) /\ ~Waiting(id)
  <2>1. PICK event : events[id] = {event}
    BY <1>2 DEF Accounts, ToldOnce
  <2>2. OutcomeOf(id) = CHOOSE e \in {event} : TRUE
    BY <1>2, <2>1, OnlyEvent DEF OutcomeOf
  <2>3. OutcomeOf(id)' = CHOOSE e \in {event} : TRUE
    <3>1. ~(id > stats'.sent) /\ ~Waiting(id)' /\ events'[id] = {event}
      BY <1>2, <2>1
    <3> QED BY <3>1, OnlyEvent DEF OutcomeOf
  <2> QED BY <2>2, <2>3
<1> QED BY <1>1, <1>2

\* Sending opens an account.
LEMMA SendKeepsAccounts ==
  ASSUME Accounts, Send
  PROVE  /\ Accounts'
         /\ Promise!Send(stats.sent + 1) /\ stats.sent + 1 \in Sent
<1> DEFINE entry == [id |-> stats.sent + 1, sent_at |-> now, deadline |-> Deadline]
<1>0. PICK sent, mine : sent = stats.sent /\ mine = stats.sent + 1
  OBVIOUS
<1>1. /\ sent \in Nat /\ sent < MaxSent /\ MaxSent \in Nat /\ mine \in Sent /\ mine = sent + 1
      /\ stats' \in Counters /\ stats'.sent = mine
  BY <1>0, LedgerAssumption DEF Accounts, Send, Bump, Counters, Sent
<1>2. pending' = pending \cup {entry} /\ events' = events /\ entry.id = mine
  BY <1>0 DEF Send
<1>3. \A id \in Sent : id \in Nat /\ (id > mine <=> id > sent /\ id # mine) /\ (id = mine => id > sent)
  BY <1>1 DEF Sent
<1>4. \A id \in Sent : Waiting(id)' <=> (Waiting(id) \/ id = mine)
  BY <1>2 DEF Waiting
<1>5. ~Waiting(mine) /\ \A e \in pending : e.id # mine
  BY <1>0, <1>1 DEF Accounts, Waiting
<1> HIDE DEF entry
<1>6. Accounts'
  <2>1. stats'.sent <= MaxSent
    BY <1>0, <1>1
  <2>2. \A e \in pending' : e.id \in 1 .. stats'.sent
    BY <1>0, <1>1, <1>2 DEF Accounts
  <2>3. \A e, other \in pending' : e.id = other.id => e = other
    BY <1>2, <1>5 DEF Accounts
  <2>4. \A id \in Sent : ToldOnce(id)'
    BY <1>0, <1>1, <1>2, <1>3, <1>4 DEF Accounts, ToldOnce
  <2> QED BY <1>1, <1>2, <2>1, <2>2, <2>3, <2>4 DEF Accounts
<1>7. OutcomeOf(mine) = "Unsent" /\ OutcomeOf(mine)' = "Waiting"
  BY <1>0, <1>1, <1>3, <1>4 DEF OutcomeOf
<1>8. \A id \in Sent : id # mine => OutcomeOf(id)' = OutcomeOf(id)
  BY <1>0, <1>1, <1>2, <1>3, <1>4, OutcomeStays
<1>9. [id \in Sent |-> OutcomeOf(id)]' = [[id \in Sent |-> OutcomeOf(id)] EXCEPT ![mine] = "Waiting"]
  BY <1>7, <1>8
<1> QED BY <1>0, <1>1, <1>6, <1>7, <1>9 DEF Promise!Send

\* What a message's own entry goes with, it is told of, and nothing else is.
LEMMA ReceivedKeepsAccounts ==
  ASSUME Accounts, NEW id \in Sent, NEW status, Received(id, status)
  PROVE  Accounts' /\ Promise!Answered(id)
<1> DEFINE how == IF status = "OK" THEN "Accepted" ELSE "Refused"
<1>1. PICK mine \in pending : mine.id = id /\ pending' = pending \ {mine}
  BY DEF Received
<1>2. Tell({id}, how) /\ (Bump("acked") \/ Bump("nacked")) /\ how \in {"Accepted", "Refused"}
  BY DEF Received
<1> HIDE DEF how
<1>3. stats' \in Counters /\ stats'.sent = stats.sent /\ stats.sent \in Nat
  BY <1>2 DEF Accounts, Bump, Counters
<1>4. Waiting(id) /\ ~Waiting(id)' /\ \A other \in Sent : other # id => (Waiting(other)' <=> Waiting(other))
  BY <1>1 DEF Waiting, Accounts
<1>5. id \in Nat /\ id <= stats.sent
  BY <1>1, <1>3 DEF Accounts
<1>6. events[id] = {}
  BY <1>4 DEF Accounts, ToldOnce
<1>7. /\ DOMAIN events' = Sent /\ events'[id] = {how}
      /\ \A other \in Sent : other # id => events'[other] = events[other]
  BY <1>2, <1>6 DEF Tell
<1>8. Accounts'
  <2>1. \A other \in Sent : ToldOnce(other)'
    <3> SUFFICES ASSUME NEW other \in Sent PROVE ToldOnce(other)'
      OBVIOUS
    <3>1. CASE other = id
      <4>1. how \in Promise!Settled
        BY <1>2 DEF Promise!Settled
      <4>2. ~(other > stats'.sent)
        BY <1>3, <1>5, <3>1
      <4> QED BY <1>4, <1>7, <3>1, <4>1, <4>2 DEF ToldOnce
    <3>2. CASE other # id
      BY <1>3, <1>4, <1>7, <3>2 DEF Accounts, ToldOnce
    <3> QED BY <3>1, <3>2
  <2> QED BY <1>1, <1>3, <1>7, <2>1 DEF Accounts
<1>9. OutcomeOf(id) = "Waiting" /\ OutcomeOf(id)' = how
  <2>1. OutcomeOf(id) = "Waiting"
    BY <1>3, <1>4, <1>5 DEF OutcomeOf
  <2>2. ~(id > stats'.sent) /\ events'[id] = {how}
    BY <1>3, <1>5, <1>7
  <2>3. OutcomeOf(id)' = CHOOSE e \in {how} : TRUE
    BY <1>4, <2>2, OnlyEvent DEF OutcomeOf
  <2> QED BY <2>1, <2>3, OnlyEvent
<1>10. \A other \in Sent : other # id => OutcomeOf(other)' = OutcomeOf(other)
  BY <1>3, <1>4, <1>7, OutcomeStays
<1>11. [other \in Sent |-> OutcomeOf(other)]' = [[other \in Sent |-> OutcomeOf(other)] EXCEPT ![id] = how]
  BY <1>9, <1>10
<1> QED BY <1>2, <1>8, <1>9, <1>11 DEF Promise!Answered

\* A sweep tells of everything due, and of nothing that was settled.
LEMMA SweepKeepsAccounts ==
  ASSUME Accounts, HandleTimeout
  PROVE  Accounts' /\ Promise!GiveUp
<1> DEFINE late == {entry.id : entry \in Expired}
<1>1. /\ pending' = pending \ Expired /\ Tell(late, "TimedOut") /\ stats' = stats
      /\ Expired \subseteq pending
  BY DEF HandleTimeout, Expired
<1>2. \A id \in Sent : (Waiting(id)' <=> Waiting(id) /\ id \notin late) /\ (id \in late => Waiting(id))
  BY <1>1 DEF Waiting, Accounts
<1>3. \A id \in late : id \in Sent /\ id \in Nat /\ id <= stats.sent /\ stats.sent \in Nat
  <2>1. \A entry \in pending : entry.id \in 1 .. stats.sent /\ stats.sent \in Nat /\ stats.sent <= MaxSent
    BY DEF Accounts, Counters
  <2>2. MaxSent \in Nat
    BY LedgerAssumption
  <2> QED BY <1>1, <2>1, <2>2 DEF Sent
<1> HIDE DEF late
<1>4. \A id \in late : events[id] = {}
  BY <1>2, <1>3 DEF Accounts, ToldOnce
<1>5. /\ DOMAIN events' = Sent /\ \A id \in late : events'[id] = {"TimedOut"}
      /\ \A id \in Sent : id \notin late => events'[id] = events[id]
  BY <1>1, <1>3, <1>4 DEF Tell
<1>6. Accounts'
  <2>1. \A id \in Sent : ToldOnce(id)'
    <3> SUFFICES ASSUME NEW id \in Sent PROVE ToldOnce(id)'
      OBVIOUS
    <3>1. CASE id \in late
      <4>1. "TimedOut" \in Promise!Settled
        BY DEF Promise!Settled
      <4>2. ~(id > stats'.sent)
        BY <1>1, <1>3, <3>1
      <4> QED BY <1>2, <1>5, <3>1, <4>1, <4>2 DEF ToldOnce
    <3>2. CASE id \notin late
      BY <1>1, <1>2, <1>5, <3>2 DEF Accounts, ToldOnce
    <3> QED BY <3>1, <3>2
  <2> QED BY <1>1, <1>5, <2>1 DEF Accounts
<1>7. \A id \in late : OutcomeOf(id) = "Waiting" /\ OutcomeOf(id)' = "TimedOut"
  <2> SUFFICES ASSUME NEW id \in late PROVE OutcomeOf(id) = "Waiting" /\ OutcomeOf(id)' = "TimedOut"
    OBVIOUS
  <2>1. ~(id > stats.sent) /\ ~(id > stats'.sent) /\ Waiting(id) /\ ~Waiting(id)' /\ events'[id] = {"TimedOut"}
    BY <1>1, <1>2, <1>3, <1>5
  <2>2. OutcomeOf(id) = "Waiting"
    BY <2>1 DEF OutcomeOf
  <2>3. OutcomeOf(id)' = CHOOSE e \in {"TimedOut"} : TRUE
    BY <2>1, OnlyEvent DEF OutcomeOf
  <2> QED BY <2>2, <2>3, OnlyEvent
<1>8. \A id \in Sent : id \notin late => OutcomeOf(id)' = OutcomeOf(id)
  BY <1>1, <1>2, <1>5, OutcomeStays
<1>9. [id \in Sent |-> OutcomeOf(id)]'
        = [id \in Sent |-> IF id \in late THEN "TimedOut" ELSE [o \in Sent |-> OutcomeOf(o)][id]]
  BY <1>7, <1>8
<1>10. late \in SUBSET {id \in Sent : [o \in Sent |-> OutcomeOf(o)][id] = "Waiting"}
  BY <1>3, <1>7
<1> QED BY <1>6, <1>9, <1>10 DEF Promise!GiveUp

\* Nothing else touches an account.
LEMMA OthersKeepAccounts ==
  ASSUME Accounts, pending' = pending, events' = events,
         stats' = stats \/ Bump("unmatched_acks") \/ Bump("duplicates")
  PROVE  /\ Accounts'
         /\ [id \in Sent |-> OutcomeOf(id)]' = [id \in Sent |-> OutcomeOf(id)]
<1>1. stats' \in Counters /\ stats'.sent = stats.sent
  BY DEF Accounts, Bump, Counters
<1>2. \A id \in Sent : Waiting(id)' <=> Waiting(id)
  BY DEF Waiting
<1>3. \A id \in Sent : ToldOnce(id)'
  BY <1>1, <1>2 DEF Accounts, ToldOnce
<1>4. \A id \in Sent : OutcomeOf(id)' = OutcomeOf(id)
  BY <1>1, <1>2, OutcomeStays
<1> QED BY <1>1, <1>3, <1>4 DEF Accounts

LEMMA StepKeepsAccounts ==
  ASSUME Accounts, [Next]_vars
  PROVE  Accounts' /\ [Promise!Next]_([id \in Sent |-> OutcomeOf(id)])
<1>1. CASE Send
  BY <1>1, SendKeepsAccounts DEF Promise!Next
<1>2. CASE \E id \in Sent, status \in {"OK", "TEMPORARY_ERROR"} : Received(id, status)
  BY <1>2, ReceivedKeepsAccounts DEF Promise!Next
<1>3. CASE HandleTimeout
  BY <1>3, SweepKeepsAccounts DEF Promise!Next
<1>4. CASE UNCHANGED <<pending, events>> /\ (stats' = stats \/ Bump("unmatched_acks") \/ Bump("duplicates"))
  BY <1>4, OthersKeepAccounts
<1>5. ASSUME NEW id \in Sent, Unmatched(id)
      PROVE  UNCHANGED <<pending, events>> /\ (stats' = stats \/ Bump("unmatched_acks") \/ Bump("duplicates"))
  BY <1>5 DEF Unmatched
<1>6. ASSUME NEW id \in Inbound, AnswerFresh(id) \/ AnswerDuplicate(id) \/ AnswerDamaged(id)
      PROVE  UNCHANGED <<pending, events>> /\ (stats' = stats \/ Bump("unmatched_acks") \/ Bump("duplicates"))
  BY <1>6 DEF AnswerFresh, AnswerDuplicate, AnswerDamaged
<1>7. ASSUME Tick \/ StepBack \/ UNCHANGED vars
      PROVE  UNCHANGED <<pending, events>> /\ stats' = stats
  BY <1>7 DEF Tick, StepBack, vars
<1> QED BY <1>1, <1>2, <1>3, <1>4, <1>5, <1>6, <1>7 DEF Next, Sending, Answering

\* Every message sent is settled at most once, and what was said of it stays said: for any
\* number of messages, every order of answers and deadlines, and a clock that is stepped
\* back.
THEOREM EveryMessageOneOutcome == Spec => ImplementsSendOutcome
<1>1. Init => Accounts /\ Promise!Init
  <2> SUFFICES ASSUME Init PROVE Accounts /\ Promise!Init
    OBVIOUS
  <2>1. /\ pending = {} /\ events = [id \in Sent |-> {}] /\ stats \in Counters /\ stats.sent = 0
        /\ MaxSent \in Nat /\ \A id \in Sent : id > stats.sent
    BY LedgerAssumption DEF Init, Counters, Sent
  <2>2. Accounts
    BY <2>1 DEF Accounts, ToldOnce
  <2>3. \A id \in Sent : OutcomeOf(id) = "Unsent"
    BY <2>1 DEF OutcomeOf
  <2> QED BY <2>2, <2>3 DEF Promise!Init
<1>2. Accounts /\ [Next]_vars => Accounts' /\ [Promise!Next]_([id \in Sent |-> OutcomeOf(id)])
  BY StepKeepsAccounts
<1> QED BY <1>1, <1>2, PTL DEF Spec, ImplementsSendOutcome, Promise!Spec
=============================================================================
