--------------------------- MODULE RegistryProofs ---------------------------
(* Proofs about Registry: a revoked description stays gone, revoking one does  *)
(* not touch another, and a full queue gives up what is furthest away, for any *)
(* set of descriptions, any length of the queue and any clock.                 *)
EXTENDS Registry, SequenceTheorems, NaturalsInduction, WellFoundedInduction, TLAPS

-----------------------------------------------------------------------------
(* Numbers. *)

\* A set of numbers has a least one.
LEMMA LeastOf ==
  ASSUME NEW S, S \subseteq Nat, S # {}
  PROVE  \E m \in S : \A x \in S : m <= x
<1>1. PICK m \in S : \A y \in S : ~(<<y, m>> \in OpToRel(<, Nat))
  BY NatLessThanWellFounded, WFMin
<1>2. ASSUME NEW x \in S, x < m PROVE FALSE
  <2>1. <<x, m>> \in Nat \X Nat /\ <<x, m>>[1] < <<x, m>>[2]
    BY <1>2
  <2> QED BY <1>1, <2>1 DEF OpToRel
<1> QED BY <1>2

-----------------------------------------------------------------------------
(* The operators on queues. *)

\* What Among computes of the first announcements of a queue.
Kept(queue, kept, g, n) ==
  g = [i \in 0 .. n |->
         IF i = 0 THEN <<>> ELSE IF queue[i] \in kept THEN Append(g[i - 1], queue[i]) ELSE g[i - 1]]

LEMMA KeptExists ==
  ASSUME NEW A, NEW queue \in Seq(A), NEW kept, NEW n \in 0 .. Len(queue)
  PROVE  \E g : Kept(queue, kept, g, n)
<1> DEFINE Bad == {m \in 0 .. Len(queue) : ~\E g : Kept(queue, kept, g, m)}
<1> SUFFICES ASSUME Bad # {} PROVE FALSE
  OBVIOUS
<1>1. Bad \subseteq Nat
  OBVIOUS
<1>2. PICK m \in Bad : \A x \in Bad : m <= x
  BY <1>1, LeastOf
<1>3. CASE m = 0
  <2> DEFINE g == [i \in 0 .. 0 |-> <<>>]
  <2>1. Kept(queue, kept, g, 0)
    BY DEF Kept
  <2> QED BY <1>3, <2>1
<1>4. CASE m # 0
  <2>1. m - 1 \in 0 .. Len(queue) /\ m - 1 \notin Bad
    BY <1>2, <1>4
  <2>2. PICK g : Kept(queue, kept, g, m - 1)
    BY <2>1
  <2> DEFINE h == [i \in 0 .. m |-> IF i = m THEN IF queue[m] \in kept THEN Append(g[m - 1], queue[m]) ELSE g[m - 1]
                                    ELSE g[i]]
  <2>3. \A i \in 0 .. m : i # m => i \in 0 .. (m - 1) /\ (i # 0 => i - 1 \in 0 .. (m - 1) /\ i - 1 # m)
    BY <1>2, <1>4
  <2>4. \A i \in 0 .. (m - 1) :
          g[i] = IF i = 0 THEN <<>> ELSE IF queue[i] \in kept THEN Append(g[i - 1], queue[i]) ELSE g[i - 1]
    BY <2>2 DEF Kept
  <2>5. m - 1 \in 0 .. m /\ h[m - 1] = g[m - 1]
    BY <1>2, <1>4
  <2>6. \A i \in 0 .. m :
          h[i] = IF i = 0 THEN <<>> ELSE IF queue[i] \in kept THEN Append(h[i - 1], queue[i]) ELSE h[i - 1]
    <3> SUFFICES ASSUME NEW i \in 0 .. m
                 PROVE  h[i] = IF i = 0 THEN <<>>
                               ELSE IF queue[i] \in kept THEN Append(h[i - 1], queue[i]) ELSE h[i - 1]
      OBVIOUS
    <3>1. CASE i = m
      BY <1>4, <2>5, <3>1
    <3>2. CASE i # m
      <4>1. h[i] = g[i] /\ (i # 0 => i - 1 \in 0 .. m /\ h[i - 1] = g[i - 1])
        BY <1>2, <2>3, <3>2
      <4> QED BY <2>3, <2>4, <3>2, <4>1
    <3> QED BY <3>1, <3>2
  <2>7. Kept(queue, kept, h, m)
    <3> HIDE DEF h
    <3>1. h = [i \in 0 .. m |-> h[i]]
      BY DEF h
    <3> QED BY <2>6, <3>1 DEF Kept
  <2> QED BY <2>7
<1> QED BY <1>3, <1>4

LEMMA AmongIsKept ==
  ASSUME NEW A, NEW queue \in Seq(A), NEW kept
  PROVE  \E g : Kept(queue, kept, g, Len(queue)) /\ Among(queue, kept) = g[Len(queue)]
<1> DEFINE f == CHOOSE g : Kept(queue, kept, g, Len(queue))
<1>1. Len(queue) \in 0 .. Len(queue)
  OBVIOUS
<1>2. Kept(queue, kept, f, Len(queue))
  BY <1>1, KeptExists
<1>3. Among(queue, kept) = f[Len(queue)]
  BY DEF Among, Kept
<1> QED BY <1>2, <1>3

\* The announcements it returns are those of the queue that are kept.
LEMMA AmongElements ==
  ASSUME NEW A, NEW queue \in Seq(A), NEW kept
  PROVE  Among(queue, kept) \in Seq(A) /\ Range(Among(queue, kept)) = Range(queue) \cap kept
<1>1. PICK g : Kept(queue, kept, g, Len(queue)) /\ Among(queue, kept) = g[Len(queue)]
  BY AmongIsKept
<1> DEFINE First(n) == {queue[i] : i \in 1 .. n} \cap kept
           Bad == {m \in 0 .. Len(queue) : ~(g[m] \in Seq(A) /\ Range(g[m]) = First(m))}
<1>2. \A i \in 0 .. Len(queue) :
        g[i] = IF i = 0 THEN <<>> ELSE IF queue[i] \in kept THEN Append(g[i - 1], queue[i]) ELSE g[i - 1]
  BY <1>1 DEF Kept
<1>3. Bad = {}
  <2> SUFFICES ASSUME Bad # {} PROVE FALSE
    OBVIOUS
  <2>1. Bad \subseteq Nat
    OBVIOUS
  <2>2. PICK m \in Bad : \A x \in Bad : m <= x
    BY <2>1, LeastOf
  <2>5. m \in Nat /\ 0 <= m /\ m <= Len(queue) /\ ~(g[m] \in Seq(A) /\ Range(g[m]) = First(m))
    BY <2>2
  <2>3. CASE m = 0
    <3>1. g[0] = <<>>
      BY <1>2, <2>2, <2>3
    <3>2. Range(<<>>) = {} /\ <<>> \in Seq(A)
      BY DEF Range
    <3>3. First(0) = {}
      OBVIOUS
    <3> HIDE DEF First
    <3> QED BY <2>3, <2>5, <3>1, <3>2, <3>3
  <2>4. CASE m # 0
    <3>1. m - 1 \in 0 .. Len(queue) /\ m \in 1 .. Len(queue) /\ ~(m <= m - 1)
      BY <2>4, <2>5
    <3>2. g[m - 1] \in Seq(A) /\ Range(g[m - 1]) = First(m - 1)
      BY <2>2, <3>1
    <3>3. {queue[i] : i \in 1 .. m} = {queue[i] : i \in 1 .. (m - 1)} \cup {queue[m]}
      <4>1. 1 .. m = (1 .. (m - 1)) \cup {m}
        BY <3>1
      <4> QED BY <4>1
    <3>4. CASE queue[m] \in kept
      <4>1. g[m] = Append(g[m - 1], queue[m])
        BY <1>2, <2>4, <2>5, <3>4
      <4>2. queue[m] \in A
        BY <3>1
      <4>3. g[m] \in Seq(A) /\ Range(g[m]) = Range(g[m - 1]) \cup {queue[m]}
        <5> DEFINE s == g[m - 1]
        <5> HIDE DEF s
        <5>1. /\ s \in Seq(A) /\ Append(s, queue[m]) \in Seq(A)
              /\ Len(Append(s, queue[m])) = Len(s) + 1
              /\ \A k \in 1 .. Len(s) : Append(s, queue[m])[k] = s[k]
              /\ Append(s, queue[m])[Len(s) + 1] = queue[m]
          BY <3>2, <4>2, AppendProperties DEF s
        <5>2. /\ DOMAIN s = 1 .. Len(s) /\ DOMAIN Append(s, queue[m]) = 1 .. (Len(s) + 1)
              /\ Len(s) \in Nat
          BY <5>1
        <5>3. 1 .. (Len(s) + 1) = (1 .. Len(s)) \cup {Len(s) + 1}
          BY <5>2
        <5>4. Range(Append(s, queue[m])) = Range(s) \cup {queue[m]}
          BY <5>1, <5>2, <5>3 DEF Range
        <5> QED BY <4>1, <5>1, <5>4 DEF s
      <4> QED BY <2>5, <3>2, <3>3, <3>4, <4>3
    <3>5. CASE queue[m] \notin kept
      <4>1. g[m] = g[m - 1]
        BY <1>2, <2>4, <2>5, <3>5
      <4> QED BY <2>5, <3>2, <3>3, <3>5, <4>1
    <3> QED BY <3>4, <3>5
  <2> QED BY <2>3, <2>4
<1>4. g[Len(queue)] \in Seq(A) /\ Range(g[Len(queue)]) = First(Len(queue))
  <2>1. Len(queue) \in 0 .. Len(queue)
    OBVIOUS
  <2> QED BY <1>3, <2>1
<1>5. {queue[i] : i \in 1 .. Len(queue)} = Range(queue)
  BY DEF Range
<1> QED BY <1>1, <1>4, <1>5

\* Adding an announcement, replacing one, and taking one out.
LEMMA AppendElements ==
  ASSUME NEW A, NEW queue \in Seq(A), NEW a \in A
  PROVE  /\ Append(queue, a) \in Seq(A) /\ Append(queue, a) # <<>>
         /\ Range(Append(queue, a)) = Range(queue) \cup {a}
<1>1. /\ Append(queue, a) \in Seq(A) /\ Append(queue, a) # <<>>
      /\ Len(Append(queue, a)) = Len(queue) + 1
      /\ \A k \in 1 .. Len(queue) : Append(queue, a)[k] = queue[k]
      /\ Append(queue, a)[Len(queue) + 1] = a
  BY AppendProperties
<1>2. /\ DOMAIN queue = 1 .. Len(queue) /\ DOMAIN Append(queue, a) = 1 .. (Len(queue) + 1)
      /\ Len(queue) \in Nat
  BY <1>1
<1>3. 1 .. (Len(queue) + 1) = (1 .. Len(queue)) \cup {Len(queue) + 1}
  BY <1>2
<1> QED BY <1>1, <1>2, <1>3 DEF Range

LEMMA ReplaceElements ==
  ASSUME NEW A, NEW queue \in Seq(A), NEW i \in 1 .. Len(queue), NEW a \in A
  PROVE  /\ ReplaceAt(queue, i, a) \in Seq(A)
         /\ \A j \in 1 .. Len(queue) : j \in DOMAIN ReplaceAt(queue, i, a)
         /\ \A j \in DOMAIN ReplaceAt(queue, i, a) : j \in 1 .. Len(queue)
         /\ \A j \in 1 .. Len(queue) : ReplaceAt(queue, i, a)[j] = IF j = i THEN a ELSE queue[j]
BY DEF ReplaceAt

LEMMA RemoveElements ==
  ASSUME NEW A, NEW queue \in Seq(A), NEW i \in 1 .. Len(queue)
  PROVE  /\ RemoveAt(queue, i) \in Seq(A)
         /\ Range(RemoveAt(queue, i)) \subseteq Range(queue)
         /\ \A j \in 1 .. Len(queue) : j # i => queue[j] \in Range(RemoveAt(queue, i))
<1> DEFINE n == Len(queue)
           before == SubSeq(queue, 1, i - 1)
           after == SubSeq(queue, i + 1, n)
<1>1. n \in Nat /\ i \in Nat /\ 1 <= i /\ i <= n /\ DOMAIN queue = 1 .. n
  OBVIOUS
<1>0. \A k \in 1 .. n : queue[k] \in A
  BY ElementOfSeq
<1> HIDE DEF n
<1>2. /\ before \in Seq(A) /\ Len(before) = i - 1 /\ DOMAIN before = 1 .. (i - 1)
      /\ \A k \in 1 .. (i - 1) : before[k] = queue[k]
  <2>1. 1 \in Int /\ i - 1 \in Int /\ \A k \in 1 .. (i - 1) : queue[k] \in A
    BY <1>0, <1>1
  <2>2. /\ before \in Seq(A) /\ Len(before) = IF 1 <= i - 1 THEN (i - 1) - 1 + 1 ELSE 0
        /\ \A k \in 1 .. (i - 1) - 1 + 1 : before[k] = queue[1 + k - 1]
    BY <2>1, SubSeqProperties
  <2>3. Len(before) = i - 1 /\ (i - 1) - 1 + 1 = i - 1 /\ \A k \in 1 .. (i - 1) : 1 + k - 1 = k
    BY <1>1, <2>2
  <2>4. DOMAIN before = 1 .. Len(before)
    BY <2>2, LenProperties
  <2> QED BY <2>2, <2>3, <2>4
<1>3. /\ after \in Seq(A) /\ Len(after) = n - i /\ DOMAIN after = 1 .. (n - i)
      /\ \A k \in 1 .. (n - i) : after[k] = queue[i + k]
  <2>1. i + 1 \in Int /\ n \in Int /\ \A k \in (i + 1) .. n : queue[k] \in A
    BY <1>0, <1>1
  <2>2. /\ after \in Seq(A) /\ Len(after) = IF i + 1 <= n THEN n - (i + 1) + 1 ELSE 0
        /\ \A k \in 1 .. n - (i + 1) + 1 : after[k] = queue[(i + 1) + k - 1]
    BY <2>1, SubSeqProperties
  <2>3. Len(after) = n - i /\ n - (i + 1) + 1 = n - i /\ \A k \in 1 .. (n - i) : (i + 1) + k - 1 = i + k
    BY <1>1, <2>2
  <2>4. DOMAIN after = 1 .. Len(after)
    BY <2>2, LenProperties
  <2> QED BY <2>2, <2>3, <2>4
<1> HIDE DEF before, after
<1>4. RemoveAt(queue, i) = before \o after
  BY DEF RemoveAt, before, after, n
<1>5. before \o after \in Seq(A) /\ Range(before \o after) = Range(before) \cup Range(after)
  BY <1>2, <1>3, ConcatProperties, RangeConcatenation
<1>6. Range(before) = {queue[k] : k \in 1 .. (i - 1)}
  BY <1>2 DEF Range
<1>7. Range(after) = {queue[i + k] : k \in 1 .. (n - i)}
  BY <1>3 DEF Range
<1>8. Range(queue) = {queue[k] : k \in 1 .. n}
  BY <1>1 DEF Range
<1>9. ASSUME NEW j \in 1 .. n, j # i PROVE queue[j] \in Range(before \o after)
  <2>1. CASE j < i
    <3>1. j \in 1 .. (i - 1)
      BY <1>1, <2>1
    <3> QED BY <1>5, <1>6, <3>1
  <2>2. CASE ~(j < i)
    <3>1. j - i \in 1 .. (n - i) /\ i + (j - i) = j
      BY <1>1, <1>9, <2>2
    <3> QED BY <1>5, <1>7, <3>1
  <2> QED BY <2>1, <2>2
<1>10. Range(before \o after) \subseteq Range(queue)
  <2>1. \A k \in 1 .. (i - 1) : k \in 1 .. n
    BY <1>1
  <2>2. \A k \in 1 .. (n - i) : i + k \in 1 .. n
    BY <1>1
  <2> QED BY <1>5, <1>6, <1>7, <1>8, <2>1, <2>2
<1> QED BY <1>4, <1>5, <1>9, <1>10 DEF n

\* Where a description waits.
LEMMA SlotFinds ==
  ASSUME NEW A, scheduled \in Seq(A), NEW d
  PROVE  /\ Slot(d) # 0 => Slot(d) \in 1 .. Len(scheduled) /\ scheduled[Slot(d)].id = d
         /\ Slot(d) = 0 => \A i \in 1 .. Len(scheduled) : scheduled[i].id # d
<1> DEFINE places == {i \in 1 .. Len(scheduled) : scheduled[i].id = d}
<1>1. Slot(d) = IF places # {} THEN Min(places) ELSE 0
  BY DEF Slot, SelectInSeq
<1>2. CASE places # {}
  <2>1. places \subseteq Nat
    OBVIOUS
  <2>2. \E m \in places : \A x \in places : m <= x
    BY <1>2, <2>1, LeastOf
  <2>3. Min(places) \in places
    BY <2>2 DEF Min
  <2> QED BY <1>1, <1>2, <2>3
<1>3. CASE places = {}
  BY <1>1, <1>3
<1> QED BY <1>2, <1>3

\* The last of those furthest away exists in a queue that is not empty.
Later(queue, i, j) == queue[j].from < queue[i].from \/ (queue[j].from = queue[i].from /\ j <= i)

LEMMA OneBefore ==
  ASSUME NEW n \in Nat, NEW m \in 1 .. n, m # 1
  PROVE  m \in Nat /\ m - 1 \in 1 .. n /\ ~(m <= m - 1) /\ \A j \in 1 .. m : j \in 1 .. n
OBVIOUS

LEMMA LaterExtends ==
  ASSUME NEW queue, NEW m \in Nat, \A j \in 1 .. m : queue[j].from \in Nat,
         NEW i \in 1 .. (m - 1), \A j \in 1 .. (m - 1) : Later(queue, i, j)
  PROVE  \E k \in 1 .. m : \A j \in 1 .. m : Later(queue, k, j)
<1>1. i \in 1 .. m /\ m \in 1 .. m /\ \A j \in 1 .. m : j = m \/ j \in 1 .. (m - 1)
  OBVIOUS
<1>2. CASE queue[m].from < queue[i].from
  <2>1. \A j \in 1 .. m : Later(queue, i, j)
    BY <1>1, <1>2 DEF Later
  <2> QED BY <1>1, <2>1
<1>3. CASE ~(queue[m].from < queue[i].from)
  <2>1. ASSUME NEW j \in 1 .. m PROVE Later(queue, m, j)
    <3>1. queue[j].from \in Nat /\ queue[i].from \in Nat /\ queue[m].from \in Nat /\ j <= m
      BY <1>1
    <3>2. j = m \/ queue[j].from <= queue[i].from
      BY <1>1, <3>1 DEF Later
    <3> QED BY <1>3, <3>1, <3>2 DEF Later
  <2> QED BY <1>1, <2>1
<1> QED BY <1>2, <1>3

LEMMA FurthestExists ==
  ASSUME NEW A, A \subseteq [id : Descriptions, from : Nat], NEW queue \in Seq(A), queue # <<>>
  PROVE  /\ Furthest(queue) \in 1 .. Len(queue)
         /\ \A j \in 1 .. Len(queue) : queue[j].from <= queue[Furthest(queue)].from
<1> DEFINE Bad == {m \in 1 .. Len(queue) : ~\E i \in 1 .. m : \A j \in 1 .. m : Later(queue, i, j)}
<1>0. /\ Len(queue) \in Nat /\ Len(queue) \in 1 .. Len(queue) /\ DOMAIN queue = 1 .. Len(queue)
      /\ \A i \in 1 .. Len(queue) : queue[i].from \in Nat
  OBVIOUS
<1>1. Bad = {}
  <2> SUFFICES ASSUME Bad # {} PROVE FALSE
    OBVIOUS
  <2>1. Bad \subseteq Nat
    OBVIOUS
  <2>2. PICK m \in Bad : \A x \in Bad : m <= x
    BY <2>1, LeastOf
  <2>3. m \in 1 .. Len(queue) /\ ~\E i \in 1 .. m : \A j \in 1 .. m : Later(queue, i, j)
    BY <2>2
  <2>4. CASE m = 1
    <3>1. \A j \in 1 .. 1 : Later(queue, 1, j)
      BY DEF Later
    <3> QED BY <2>3, <2>4, <3>1
  <2>5. CASE m # 1
    <3>1. m \in Nat /\ m - 1 \in 1 .. Len(queue) /\ ~(m <= m - 1) /\ \A j \in 1 .. m : j \in 1 .. Len(queue)
      BY <1>0, <2>3, <2>5, OneBefore
    <3>2. PICK i \in 1 .. (m - 1) : \A j \in 1 .. (m - 1) : Later(queue, i, j)
      BY <2>2, <3>1
    <3> QED BY <1>0, <2>3, <3>1, <3>2, LaterExtends
  <2> QED BY <2>4, <2>5
<1>2. \E i \in DOMAIN queue : \A j \in DOMAIN queue : Later(queue, i, j)
  BY <1>0, <1>1
<1>3. Furthest(queue) \in DOMAIN queue /\ \A j \in DOMAIN queue : Later(queue, Furthest(queue), j)
  BY <1>2 DEF Furthest, Later
<1> DEFINE last == Furthest(queue)
<1>4. ASSUME NEW j \in 1 .. Len(queue) PROVE queue[j].from <= queue[last].from
  <2>1. queue[j].from \in Nat /\ queue[last].from \in Nat /\ Later(queue, last, j)
    BY <1>0, <1>3
  <2> HIDE DEF last
  <2> QED BY <2>1 DEF Later
<1> QED BY <1>0, <1>3, <1>4

-----------------------------------------------------------------------------
(* Every variable has its type. *)

Announced == [id : Descriptions, from : Nat]

Typed ==
  /\ now \in Nat /\ scheduled \in Seq(Announced)
  /\ inForce \in [Types -> Announced \cup {NoAnnouncement}]
  /\ latest \in [Descriptions -> Announced \cup {NoAnnouncement}]
  /\ published \subseteq Descriptions /\ revoked \subseteq Descriptions

\* What a queue holds after an announcement: that one, and what it held.
LEMMA SchedulingHolds ==
  ASSUME scheduled \in Seq(Announced), NEW a \in Announced
  PROVE  /\ Scheduling(a) \in Seq(Announced)
         /\ Range(Scheduling(a)) \subseteq Range(scheduled) \cup {a}
<1>1. CASE Slot(a.id) # 0
  <2> DEFINE s == Slot(a.id)
             new == ReplaceAt(scheduled, s, a)
  <2>1. s \in 1 .. Len(scheduled) /\ Scheduling(a) = new
    BY <1>1, SlotFinds DEF Scheduling
  <2> HIDE DEF s
  <2>2. /\ new \in Seq(Announced)
        /\ \A j \in DOMAIN new : j \in 1 .. Len(scheduled)
        /\ \A j \in 1 .. Len(scheduled) : new[j] = IF j = s THEN a ELSE scheduled[j]
    BY <2>1, ReplaceElements
  <2> HIDE DEF new
  <2>3. \A j \in DOMAIN new : new[j] \in Range(scheduled) \cup {a}
    BY <2>2, LenProperties DEF Range
  <2> QED BY <2>1, <2>2, <2>3 DEF Range
<1>2. CASE Slot(a.id) = 0
  <2> DEFINE queue == Append(scheduled, a)
  <2>1. /\ queue \in Seq(Announced) /\ queue # <<>> /\ Range(queue) = Range(scheduled) \cup {a}
    BY AppendElements
  <2>2. Scheduling(a) = IF Len(queue) > MaxScheduled THEN RemoveAt(queue, Furthest(queue)) ELSE queue
    BY <1>2 DEF Scheduling
  <2> HIDE DEF queue
  <2>3. Furthest(queue) \in 1 .. Len(queue)
    BY <2>1, FurthestExists DEF Announced
  <2> QED BY <2>1, <2>2, <2>3, RemoveElements
<1> QED BY <1>1, <1>2

\* What is made effective is of a type, or nothing changes.
LEMMA ApplyTakes ==
  ASSUME Typed, NEW effective \in Seq(Announced), Apply(effective)
  PROVE  /\ inForce' \in [Types -> Announced \cup {NoAnnouncement}]
         /\ \A t \in Types : inForce'[t] = inForce[t] \/ inForce'[t] \in Range(effective)
<1>1. ASSUME NEW t \in Types
      PROVE  /\ Applied(effective, t) \in Announced \cup {NoAnnouncement}
             /\ Applied(effective, t) = inForce[t] \/ Applied(effective, t) \in Range(effective)
  <2> DEFINE mine == Among(effective, {a \in Range(effective) : TypeOfAnnouncement(a) = t})
  <2>1. mine \in Seq(Announced) /\ Range(mine) \subseteq Range(effective)
    BY AmongElements
  <2>2. Applied(effective, t) = IF mine = <<>> THEN inForce[t] ELSE Last(mine)
    BY DEF Applied
  <2> HIDE DEF mine
  <2>3. CASE mine = <<>>
    BY <2>2, <2>3 DEF Typed
  <2>4. CASE mine # <<>>
    <3>1. Len(mine) \in 1 .. Len(mine) /\ DOMAIN mine = 1 .. Len(mine)
      BY <2>1, <2>4, EmptySeq, LenProperties
    <3>2. Last(mine) \in Announced /\ Last(mine) \in Range(mine)
      BY <2>1, <3>1, ElementOfSeq DEF Last, Range
    <3> QED BY <2>1, <2>2, <2>4, <3>2
  <2> QED BY <2>3, <2>4
<1> QED BY <1>1 DEF Apply

LEMMA InitIsTyped == Init => Typed
BY EmptySeq DEF Init, Typed

LEMMA StepIsTyped ==
  ASSUME Typed, [Next]_vars
  PROVE  Typed'
<1>1. ASSUME NEW d \in Descriptions, NEW from \in 0 .. MaxTime, Record(d, from) PROVE Typed'
  <2>1. Announcement(d, from) \in Announced /\ MaxTime \in Nat
    BY RegistryAssumption DEF Announcement, Announced
  <2>2. <<Announcement(d, from)>> \in Seq(Announced) /\ <<>> \in Seq(Announced)
    BY <2>1
  <2>3. inForce' \in [Types -> Announced \cup {NoAnnouncement}]
    BY <1>1, <2>2, ApplyTakes DEF Record
  <2>4. scheduled' \in Seq(Announced)
    BY <1>1, <2>1, SchedulingHolds DEF Record, Typed
  <2>5. /\ latest' = [latest EXCEPT ![d] = Announcement(d, from)]
        /\ published' = published \cup {d} /\ revoked' = revoked \ {d} /\ now' = now
    BY <1>1 DEF Record
  <2> QED BY <2>1, <2>3, <2>4, <2>5 DEF Typed
<1>2. CASE ActivateDue
  <2>1. /\ Among(scheduled, Due) \in Seq(Announced)
        /\ Among(scheduled, Range(scheduled) \ Due) \in Seq(Announced)
    BY AmongElements DEF Typed
  <2> QED BY <1>2, <2>1, ApplyTakes DEF ActivateDue, Typed
<1>3. ASSUME NEW d \in Descriptions, Revoke(d) PROVE Typed'
  <2>1. scheduled' \in Seq(Announced)
    BY <1>3, AmongElements DEF Revoke, Typed
  <2>2. inForce' \in [Types -> Announced \cup {NoAnnouncement}]
    BY <1>3 DEF Revoke, Typed
  <2> QED BY <1>3, <2>1, <2>2 DEF Revoke, Typed
<1>4. CASE Report \/ (\E t \in Types : Select(t)) \/ Tick \/ UNCHANGED vars
  BY <1>4 DEF Report, Select, Tick, vars, Typed
<1> QED BY <1>1, <1>2, <1>3, <1>4 DEF Next

LEMMA AlwaysTyped == Spec => []Typed
BY InitIsTyped, StepIsTyped, PTL DEF Spec

-----------------------------------------------------------------------------
(* What was revoked. *)

LEMMA WaitingMeans ==
  ASSUME NEW d
  PROVE  Waiting(d) <=> \E a \in Range(scheduled) : a.id = d
BY DEF Waiting, Range

LEMMA StepKeepsRevoked ==
  ASSUME Typed, RevokedStaysGone, [Next]_vars
  PROVE  RevokedStaysGone'
<1>1. ASSUME NEW d \in Descriptions, NEW from \in 0 .. MaxTime, Record(d, from) PROVE RevokedStaysGone'
  <2>1. /\ Announcement(d, from) \in Announced /\ Announcement(d, from).id = d
        /\ <<Announcement(d, from)>> \in Seq(Announced) /\ <<>> \in Seq(Announced)
        /\ Range(<<Announcement(d, from)>>) = {Announcement(d, from)} /\ Range(<<>>) = {}
    BY RegistryAssumption DEF Announcement, Announced, Range
  <2>2. Range(scheduled') \subseteq Range(scheduled) \cup {Announcement(d, from)}
    BY <1>1, <2>1, SchedulingHolds DEF Record, Typed
  <2>3. \A t \in Types : inForce'[t] = inForce[t] \/ inForce'[t] = Announcement(d, from)
    BY <1>1, <2>1, ApplyTakes DEF Record
  <2>4. revoked' = revoked \ {d} /\ published' = published \cup {d}
    BY <1>1 DEF Record
  <2>5. ASSUME NEW e \in revoked'
        PROVE  e \notin published' /\ ~Waiting(e)' /\ inForce'[TypeOf[e]].id # e
    <3>1. e \in revoked /\ e # d /\ e \in Descriptions /\ TypeOf[e] \in Types
      BY <2>4, RegistryAssumption DEF Typed
    <3>2. e \notin published /\ (\A a \in Range(scheduled) : a.id # e) /\ inForce[TypeOf[e]].id # e
      BY <3>1, WaitingMeans DEF RevokedStaysGone
    <3>3. Waiting(e)' <=> \E a \in Range(scheduled') : a.id = e
      BY DEF Waiting, Range
    <3> QED BY <2>1, <2>2, <2>3, <2>4, <3>1, <3>2, <3>3
  <2> QED BY <2>5 DEF RevokedStaysGone
<1>2. CASE ActivateDue
  <2>1. /\ Among(scheduled, Due) \in Seq(Announced) /\ Range(Among(scheduled, Due)) \subseteq Range(scheduled)
        /\ Range(scheduled') \subseteq Range(scheduled)
    BY <1>2, AmongElements DEF ActivateDue, Typed
  <2>2. \A t \in Types : inForce'[t] = inForce[t] \/ inForce'[t] \in Range(scheduled)
    BY <1>2, <2>1, ApplyTakes DEF ActivateDue
  <2>3. revoked' = revoked /\ published' = published
    BY <1>2 DEF ActivateDue
  <2>4. ASSUME NEW e \in revoked'
        PROVE  e \notin published' /\ ~Waiting(e)' /\ inForce'[TypeOf[e]].id # e
    <3>1. e \in revoked /\ TypeOf[e] \in Types
      BY <2>3, RegistryAssumption DEF Typed
    <3>2. e \notin published /\ (\A a \in Range(scheduled) : a.id # e) /\ inForce[TypeOf[e]].id # e
      BY <3>1, WaitingMeans DEF RevokedStaysGone
    <3>3. Waiting(e)' <=> \E a \in Range(scheduled') : a.id = e
      BY DEF Waiting, Range
    <3> QED BY <2>1, <2>2, <2>3, <3>1, <3>2, <3>3
  <2> QED BY <2>4 DEF RevokedStaysGone
<1>3. ASSUME NEW d \in Descriptions, Revoke(d) PROVE RevokedStaysGone'
  <2>1. Range(scheduled') = Range(scheduled) \cap {a \in Range(scheduled) : a.id # d}
    BY <1>3, AmongElements DEF Revoke, Typed
  <2>2. revoked' = revoked \cup {d} /\ published' = published \ {d}
    BY <1>3 DEF Revoke
  <2>3. \A t \in Types : \/ inForce'[t] = inForce[t] /\ (t = TypeOf[d] => inForce[t].id # d)
                         \/ inForce'[t] = NoAnnouncement
    BY <1>3, RegistryAssumption DEF Revoke, Typed
  <2>4. ASSUME NEW e \in revoked'
        PROVE  e \notin published' /\ ~Waiting(e)' /\ inForce'[TypeOf[e]].id # e
    <3>1. e \in Descriptions /\ TypeOf[e] \in Types /\ e # None
      BY <2>2, RegistryAssumption DEF Typed
    <3>2. e # d => e \notin published /\ (\A a \in Range(scheduled) : a.id # e) /\ inForce[TypeOf[e]].id # e
      BY <2>2, WaitingMeans DEF RevokedStaysGone
    <3>3. Waiting(e)' <=> \E a \in Range(scheduled') : a.id = e
      BY DEF Waiting, Range
    <3>4. inForce'[TypeOf[e]].id # e
      BY <2>3, <3>1, <3>2 DEF NoAnnouncement
    <3> QED BY <2>1, <2>2, <3>2, <3>3, <3>4
  <2> QED BY <2>4 DEF RevokedStaysGone
<1>4. CASE Report \/ (\E t \in Types : Select(t)) \/ Tick \/ UNCHANGED vars
  BY <1>4 DEF Report, Select, Tick, vars, RevokedStaysGone, Waiting
<1> QED BY <1>1, <1>2, <1>3, <1>4 DEF Next

\* A revoked description is nowhere, whatever was waiting and whatever falls due later,
\* until it is announced again.
THEOREM RevocationHolds == Spec => []RevokedStaysGone
<1>1. Init => RevokedStaysGone
  BY DEF Init, RevokedStaysGone
<1> QED BY <1>1, StepKeepsRevoked, AlwaysTyped, PTL DEF Spec

-----------------------------------------------------------------------------
(* What replaced it. *)

LEMMA OnlyRevokeRevokes ==
  ASSUME Typed, [Next]_vars, NEW d \in revoked' \ revoked
  PROVE  d \in Descriptions /\ Revoke(d)
<1>1. \A e \in Descriptions : Revoke(e) => revoked' = revoked \cup {e}
  BY DEF Revoke
<1>2. revoked' \subseteq revoked \/ \E e \in Descriptions : Revoke(e)
  BY DEF Next, Record, ActivateDue, Report, Select, Tick, vars
<1> QED BY <1>1, <1>2

\* Whatever description is withdrawn, the one in force instead stays in force, with what
\* was reported about it.
THEOREM RevocationSpares == Spec => ReplacementSurvivesRevoke
<1> DEFINE Spared ==
      \A d \in Descriptions, t \in Types :
        d \in revoked' \ revoked /\ inForce[t].id # d =>
          /\ inForce'[t] = inForce[t]
          /\ (TypeOf[d] = t => \A k \in known : k.type = t => k \in known')
<1>1. Typed /\ [Next]_vars => Spared
  <2> SUFFICES ASSUME Typed, [Next]_vars, NEW d \in Descriptions, NEW t \in Types,
                      d \in revoked' \ revoked, inForce[t].id # d
               PROVE  /\ inForce'[t] = inForce[t]
                      /\ (TypeOf[d] = t => \A k \in known : k.type = t => k \in known')
    OBVIOUS
  <2>1. Revoke(d)
    BY OnlyRevokeRevokes
  <2> QED BY <2>1 DEF Revoke, Typed
<1>2. Typed /\ [Next]_vars => [Spared]_vars
  BY <1>1
<1> QED BY <1>2, AlwaysTyped, PTL DEF Spec, ReplacementSurvivesRevoke

-----------------------------------------------------------------------------
(* What a full queue gives up. *)

\* What a queue without the announcement's description gives up for it.
LEMMA SchedulingGivesUp ==
  ASSUME scheduled \in Seq(Announced), NEW a \in Announced,
         NEW b \in Range(scheduled) \cup {a}, \A c \in Range(Scheduling(a)) : c.id # b.id
  PROVE  \A c \in Range(Scheduling(a)) : c.from <= b.from
<1>1. CASE Slot(a.id) # 0
  <2> DEFINE s == Slot(a.id)
             new == ReplaceAt(scheduled, s, a)
  <2>1. s \in 1 .. Len(scheduled) /\ scheduled[s].id = a.id /\ Scheduling(a) = new
    BY <1>1, SlotFinds DEF Scheduling
  <2> HIDE DEF s
  <2>2. /\ new \in Seq(Announced)
        /\ \A j \in 1 .. Len(scheduled) : j \in DOMAIN new
        /\ \A j \in 1 .. Len(scheduled) : new[j] = IF j = s THEN a ELSE scheduled[j]
    BY <2>1, ReplaceElements
  <2> HIDE DEF new
  <2>3. \A j \in 1 .. Len(scheduled) : \E c \in Range(new) : c.id = scheduled[j].id
    BY <2>1, <2>2 DEF Range
  <2>4. \E c \in Range(new) : c.id = b.id
    <3>1. CASE b = a
      BY <2>1, <2>3, <3>1
    <3>2. CASE b \in Range(scheduled)
      BY <2>3, <3>2, LenProperties DEF Range
    <3> QED BY <3>1, <3>2
  <2> QED BY <2>1, <2>4
<1>2. CASE Slot(a.id) = 0
  <2> DEFINE queue == Append(scheduled, a)
  <2>1. /\ queue \in Seq(Announced) /\ queue # <<>> /\ Range(queue) = Range(scheduled) \cup {a}
    BY AppendElements
  <2>2. Scheduling(a) = IF Len(queue) > MaxScheduled THEN RemoveAt(queue, Furthest(queue)) ELSE queue
    BY <1>2 DEF Scheduling
  <2> HIDE DEF queue
  <2> DEFINE f == Furthest(queue)
  <2>3. f \in 1 .. Len(queue) /\ \A j \in 1 .. Len(queue) : queue[j].from <= queue[f].from
    BY <2>1, FurthestExists DEF Announced
  <2> HIDE DEF f
  <2>4. Scheduling(a) # queue
    BY <2>1
  <2>5. Scheduling(a) = RemoveAt(queue, f)
    BY <2>2, <2>4 DEF f
  <2>6. /\ Range(Scheduling(a)) \subseteq Range(queue)
        /\ \A j \in 1 .. Len(queue) : j # f => queue[j] \in Range(Scheduling(a))
    BY <2>1, <2>3, <2>5, RemoveElements
  <2>7. \A c \in Range(queue) : \E j \in 1 .. Len(queue) : c = queue[j]
    BY <2>1, LenProperties DEF Range
  <2>8. b = queue[f]
    BY <2>1, <2>6, <2>7
  <2> QED BY <2>3, <2>6, <2>7, <2>8
<1> QED BY <1>1, <1>2

\* Of what waited and what was just announced, a full queue gives up only what takes effect
\* no sooner than anything it keeps.
THEOREM EvictionIsOfTheFurthest == Spec => EvictionKeepsTheSoonest
<1> DEFINE Kind ==
      \A a \in Range(scheduled) \cup JustAnnounced :
        a.from > now /\ a.id \notin revoked' /\ (\A b \in Range(scheduled') : b.id # a.id)
          => \A b \in Range(scheduled') : b.from <= a.from
<1>1. Typed /\ [Next]_vars => Kind
  <2> SUFFICES ASSUME Typed, [Next]_vars, NEW a \in Range(scheduled) \cup JustAnnounced,
                      a.from > now, a.id \notin revoked', \A b \in Range(scheduled') : b.id # a.id
               PROVE  \A b \in Range(scheduled') : b.from <= a.from
    OBVIOUS
  <2>1. ASSUME NEW d \in Descriptions, NEW from \in 0 .. MaxTime, Record(d, from)
        PROVE  \A b \in Range(scheduled') : b.from <= a.from
    <3>1. Announcement(d, from) \in Announced /\ Announcement(d, from).from = from
      BY RegistryAssumption DEF Announcement, Announced
    <3>2. JustAnnounced \subseteq {Announcement(d, from)}
      BY <2>1 DEF JustAnnounced, Record, Typed
    <3>3. CASE from > now
      BY <2>1, <3>1, <3>2, <3>3, SchedulingGivesUp DEF Record, Typed
    <3>4. CASE ~(from > now)
      <4>1. a \in Range(scheduled) /\ scheduled' = scheduled
        BY <2>1, <3>1, <3>2, <3>4 DEF Record
      <4> QED BY <4>1
    <3> QED BY <3>3, <3>4
  <2>2. CASE ActivateDue
    <3>1. a \in Range(scheduled)
      BY <2>2 DEF ActivateDue, JustAnnounced
    <3>2. a \notin Due
      <4>1. a \in Announced
        BY <3>1, RangeOfSeq DEF Typed
      <4>2. a.from \in Nat /\ now \in Nat
        BY <4>1 DEF Announced, Typed
      <4> QED BY <4>2 DEF Due
    <3>3. a \in Range(scheduled')
      BY <2>2, <3>1, <3>2, AmongElements DEF ActivateDue, Typed
    <3> QED BY <3>3
  <2>3. ASSUME NEW d \in Descriptions, Revoke(d) PROVE \A b \in Range(scheduled') : b.from <= a.from
    <3>1. a \in Range(scheduled) /\ a.id # d
      BY <2>3 DEF Revoke, JustAnnounced
    <3>2. a \in Range(scheduled')
      BY <2>3, <3>1, AmongElements DEF Revoke, Typed
    <3> QED BY <3>2
  <2>4. CASE Report \/ (\E t \in Types : Select(t)) \/ Tick \/ UNCHANGED vars
    <3>1. UNCHANGED <<scheduled, latest>>
      BY <2>4 DEF Report, Select, Tick, vars
    <3>2. a \in Range(scheduled)
      BY <3>1 DEF JustAnnounced
    <3> QED BY <3>1, <3>2
  <2> QED BY <2>1, <2>2, <2>3, <2>4 DEF Next
<1>2. Typed /\ [Next]_vars => [Kind]_vars
  BY <1>1
<1> QED BY <1>2, AlwaysTyped, PTL DEF Spec, EvictionKeepsTheSoonest
=============================================================================
