--------------------------- MODULE TwoLSFQD_proofs ---------------------------
(***************************************************************************)
(* Proofs about TwoLSFQD, for any number of applications and connections,  *)
(* all sizes, credits and thresholds.  The thread that has the mutex is in *)
(* the middle of calls within calls; the invariants say what each call     *)
(* that is not finished relies on, wherever it lies on the stack.          *)
(***************************************************************************)
EXTENDS TwoLSFQD, FiniteSetTheorems, SequenceTheorems, TLAPS

(* A request never needs more credits than a refill gives. *)
Settings ==
  /\ NumApps \in Nat \ {0} /\ Sizes \subseteq Nat
  /\ Full \in [AppIds -> Nat] /\ Initial \in [AppIds -> Nat]
  /\ Infinite \in Nat /\ MaxRequests \in Nat
  /\ \A a \in AppIds : \A size \in Sizes : size <= Full[a]

-----------------------------------------------------------------------------
(* Sequences as stacks and queues *)

LEMMA Push ==
  ASSUME NEW S, NEW s \in Seq(S), NEW x \in S
  PROVE  /\ <<x>> \o s \in Seq(S) /\ <<x>> \o s # <<>>
         /\ Range(<<x>> \o s) = {x} \cup Range(s)
<1>1. <<x>> \in Seq(S) /\ Len(<<x>>) = 1 /\ <<x>>[1] = x
  OBVIOUS
<1>2. Range(<<x>>) = {x}
  <2>1. Range(<<x>>) = {<<x>>[i] : i \in 1 .. 1}
    BY <1>1, RangeEquality
  <2>. QED  BY <1>1, <2>1
<1>3. <<x>> \o s \in Seq(S) /\ Len(<<x>> \o s) = 1 + Len(s)
  BY <1>1, ConcatProperties
<1>4. Range(<<x>> \o s) = {x} \cup Range(s)
  <2> DEFINE t == <<x>>
  <2>1. t \in Seq(S) /\ Range(t) = {x}
    BY <1>1, <1>2
  <2> HIDE DEF t
  <2>2. Range(t \o s) = Range(t) \cup Range(s)
    BY <2>1, RangeConcatenation
  <2>. QED  BY <2>1, <2>2 DEF t
<1>5. x \in Range(<<x>> \o s) /\ Range(<<>>) = {}
  BY <1>4 DEF Range
<1>. QED  BY <1>3, <1>4, <1>5

LEMMA Pop ==
  ASSUME NEW S, NEW s \in Seq(S), s # <<>>
  PROVE  /\ Head(s) \in S /\ Tail(s) \in Seq(S)
         /\ Range(s) = {Head(s)} \cup Range(Tail(s))
<1>1. /\ Head(s) \in S /\ Tail(s) \in Seq(S) /\ Len(Tail(s)) = Len(s) - 1
      /\ \A i \in 1 .. Len(Tail(s)) : Tail(s)[i] = s[i + 1]
      /\ Len(s) \in Nat /\ Len(s) > 0 /\ Head(s) = s[1]
  BY HeadTailProperties
<1>2. Range(s) = {s[i] : i \in 1 .. Len(s)}
  BY RangeEquality
<1>3. Range(Tail(s)) = {Tail(s)[i] : i \in 1 .. Len(Tail(s))}
  BY <1>1, RangeEquality
<1>4. Range(s) \subseteq {Head(s)} \cup Range(Tail(s))
  <2> SUFFICES ASSUME NEW i \in 1 .. Len(s), s[i] # Head(s)
               PROVE  s[i] \in Range(Tail(s))
    BY <1>2
  <2>1. i - 1 \in 1 .. Len(Tail(s)) /\ Tail(s)[i - 1] = s[(i - 1) + 1]
    BY <1>1
  <2>2. (i - 1) + 1 = i
    BY <1>1
  <2>. QED  BY <1>3, <2>1, <2>2
<1>5. {Head(s)} \cup Range(Tail(s)) \subseteq Range(s)
  BY <1>1, <1>2, <1>3
<1>. QED  BY <1>1, <1>4, <1>5

LEMMA Join ==
  ASSUME NEW S, NEW s \in Seq(S), NEW x \in S
  PROVE  /\ Append(s, x) \in Seq(S) /\ Len(Append(s, x)) = Len(s) + 1
         /\ Append(s, x)[Len(s) + 1] = x
         /\ \A i \in 1 .. Len(s) : Append(s, x)[i] = s[i]
         /\ Range(Append(s, x)) = Range(s) \cup {x}
<1>1. /\ Append(s, x) \in Seq(S) /\ Len(Append(s, x)) = Len(s) + 1
      /\ \A i \in 1 .. Len(s) : Append(s, x)[i] = s[i]
      /\ Append(s, x)[Len(s) + 1] = x /\ Len(s) \in Nat
  BY AppendProperties
<1>2. Range(Append(s, x)) = {Append(s, x)[i] : i \in 1 .. Len(s) + 1}
  BY <1>1, RangeEquality
<1>3. Range(s) = {s[i] : i \in 1 .. Len(s)}
  BY RangeEquality
<1>4. 1 .. Len(s) + 1 = 1 .. Len(s) \cup {Len(s) + 1}
  BY <1>1
<1>. QED  BY <1>1, <1>2, <1>3, <1>4

(* A queue without its first n items. *)
LEMMA Cut ==
  ASSUME NEW S, NEW s \in Seq(S), NEW n \in 0 .. Len(s)
  PROVE  LET t == SubSeq(s, n + 1, Len(s))
         IN  /\ t \in Seq(S) /\ Len(t) = Len(s) - n
             /\ \A i \in 1 .. Len(t) : t[i] = s[i + n]
             /\ Range(s) = {s[i] : i \in 1 .. n} \cup Range(t)
<1> DEFINE t == SubSeq(s, n + 1, Len(s))
<1>1. Len(s) \in Nat /\ n \in Nat /\ \A i \in 1 .. Len(s) : s[i] \in S
  BY ElementOfSeq
<1>2. /\ t \in Seq(S) /\ Len(t) = (IF n + 1 <= Len(s) THEN Len(s) - (n + 1) + 1 ELSE 0)
      /\ \A i \in 1 .. Len(s) - (n + 1) + 1 : t[i] = s[n + 1 + i - 1]
  <2>1. n + 1 \in Int /\ Len(s) \in Int /\ \A i \in n + 1 .. Len(s) : s[i] \in S
    BY <1>1
  <2>. QED  BY <2>1, SubSeqProperties
<1> HIDE DEF t
<1>3. Len(t) = Len(s) - n
  BY <1>1, <1>2
<1>4. \A i \in 1 .. Len(t) : t[i] = s[i + n]
  BY <1>1, <1>2, <1>3
<1>5. Range(s) = {s[i] : i \in 1 .. Len(s)} /\ Range(t) = {t[i] : i \in 1 .. Len(t)}
  BY <1>2, RangeEquality
<1>6. Range(s) \subseteq {s[i] : i \in 1 .. n} \cup Range(t)
  <2> SUFFICES ASSUME NEW i \in 1 .. Len(s), i > n
               PROVE  s[i] \in Range(t)
    BY <1>1, <1>5
  <2>1. i - n \in 1 .. Len(t) /\ t[i - n] = s[(i - n) + n]
    BY <1>1, <1>3, <1>4
  <2>. QED  BY <1>1, <1>5, <2>1
<1>7. {s[i] : i \in 1 .. n} \cup Range(t) \subseteq Range(s)
  BY <1>1, <1>3, <1>4, <1>5
<1>. QED  BY <1>2, <1>3, <1>4, <1>6, <1>7 DEF t

-----------------------------------------------------------------------------
(* What is let go in time *)

Frame == {Drain, Serve} \cup {Enqueued(x, f) : x \in Item, f \in BOOLEAN}
                        \cup {Arrived(x) : x \in Item}

Types ==
  /\ creditQueue \in [AppIds -> Seq(Item)]
  /\ credits \in [AppIds -> Nat] /\ turn \in AppIds
  /\ edf \in Seq(Item) /\ late \in 0 .. Len(edf)
  /\ outstanding \in Int /\ threshold \in 0 .. Infinite
  /\ unlocked \subseteq Item
  /\ calls \in Seq(Frame)
  /\ nextId \in 0 .. MaxRequests
  /\ shared \in BOOLEAN /\ corrupted \in BOOLEAN

(* An application has a request and the credits for it only while a call   *)
(* is going to drain the first level; the second level is behind the       *)
(* threshold only while a call is going to serve it.                       *)
Spent  == \A a \in AppIds : HasCredit(a) => Drain \in Range(calls)
Served == edf # <<>> /\ outstanding < threshold => Serve \in Range(calls)

InTime == Types /\ Spent /\ Served

LEMMA DueFacts ==
  ASSUME Settings, Types, NEW q \in Seq(Item), late <= Len(q), NEW busy \in Int
  PROVE  /\ Due(q, busy) \in 0 .. Len(q)
         /\ Due(q, busy) < Len(q) => busy + Due(q, busy) >= threshold
         /\ late = 0 /\ busy >= threshold => Due(q, busy) = 0
<1>1. late \in Nat /\ threshold \in Int /\ Len(q) \in Nat
  BY DEF Types
<1>2. CASE busy + late >= threshold
  BY <1>1, <1>2 DEF Due
<1>3. CASE ~(busy + late >= threshold)
  <2>1. Due(q, busy) = Least(Len(q), threshold - busy) /\ threshold - busy > late
    BY <1>1, <1>3 DEF Due
  <2>. QED  BY <1>1, <2>1 DEF Least
<1>. QED  BY <1>2, <1>3

(* twolsfqd_edf_dequeue_all leaves nothing it could have sent, and if it   *)
(* has refilled the credits it goes on to drain the first level.           *)
LEMMA EdfKeeps ==
  ASSUME Settings, Types, NEW q \in Seq(Item), late <= Len(q), NEW busy \in Int,
         NEW open, open \subseteq Item, NEW c \in [AppIds -> Nat],
         NEW then \in Seq(Frame), EdfDequeueAll(q, busy, open, c, then)
  PROVE  /\ edf' \in Seq(Item) /\ late' \in 0 .. Len(edf')
         /\ outstanding' \in Int /\ unlocked' \subseteq Item
         /\ credits' \in [AppIds -> Nat] /\ calls' \in Seq(Frame)
         /\ edf' # <<>> => outstanding' >= threshold
         /\ Range(calls') = Range(then) \/ Range(calls') = {Drain} \cup Range(then)
         /\ credits' = c \/ Drain \in Range(calls')
<1> DEFINE n == Due(q, busy)
<1>1. /\ edf' = SubSeq(q, n + 1, Len(q)) /\ late' = 0 /\ outstanding' = busy + n
      /\ unlocked' = open \cup {q[i] : i \in 1 .. n}
      /\ credits' = (IF n > 0 /\ Spare(threshold, busy + n) THEN Full ELSE c)
      /\ calls' = (IF n > 0 THEN <<Drain>> \o then ELSE then)
  BY DEF EdfDequeueAll
<1>2. n \in 0 .. Len(q) /\ (n < Len(q) => busy + n >= threshold) /\ Len(q) \in Nat
  <2>1. n \in 0 .. Len(q) /\ (n < Len(q) => busy + n >= threshold)
    BY DueFacts
  <2>. QED  BY <2>1, LenProperties
<1> HIDE DEF n
<1>3. /\ edf' \in Seq(Item) /\ Len(edf') = Len(q) - n
  BY <1>1, <1>2, Cut
<1>4. {q[i] : i \in 1 .. n} \subseteq Item
  <2>1. \A i \in 1 .. Len(q) : q[i] \in Item
    BY ElementOfSeq
  <2>. QED  BY <1>2, <2>1
<1>5. Drain \in Frame
  BY DEF Frame
<1>6. /\ calls' \in Seq(Frame)
      /\ n > 0 => Range(calls') = {Drain} \cup Range(then)
      /\ ~(n > 0) => Range(calls') = Range(then)
  BY <1>1, <1>5, Push
<1>7. credits' \in [AppIds -> Nat]
  BY <1>1 DEF Settings
<1>8. edf' # <<>> => Len(edf') # 0
  BY <1>3, EmptySeq
<1>9. edf' # <<>> => outstanding' >= threshold
  <2>1. edf' # <<>> => n < Len(q)
    BY <1>2, <1>3, <1>8
  <2>. QED  BY <1>1, <1>2, <2>1
<1>10. late' \in 0 .. Len(edf') /\ outstanding' \in Int /\ unlocked' \subseteq Item
  BY <1>1, <1>2, <1>3, <1>4
<1>11. credits' = c \/ Drain \in Range(calls')
  BY <1>1, <1>6
<1>12. Range(calls') = Range(then) \/ Range(calls') = {Drain} \cup Range(then)
  BY <1>6
<1>. QED  BY <1>3, <1>6, <1>7, <1>9, <1>10, <1>11, <1>12

LEMMA SmallStacks ==
  /\ <<>> \in Seq(Frame) /\ Range(<<>>) = {}
  /\ \A f \in Frame : <<f>> \in Seq(Frame) /\ Range(<<f>>) = {f}
  /\ \A f, g \in Frame : <<f, g>> \in Seq(Frame) /\ Range(<<f, g>>) = {f, g}
<1>1. <<>> \in Seq(Frame) /\ Range(<<>>) = {}
  BY DEF Range
<1>2. ASSUME NEW f \in Frame
      PROVE  <<f>> \in Seq(Frame) /\ Range(<<f>>) = {f}
  <2> DEFINE s == <<f>>
  <2>1. s \in Seq(Frame) /\ Len(s) = 1 /\ s[1] = f
    OBVIOUS
  <2> HIDE DEF s
  <2>2. Range(s) = {s[i] : i \in 1 .. Len(s)}
    BY <2>1, RangeEquality
  <2>3. Range(s) = {f}
    BY <2>1, <2>2
  <2>. QED  BY <2>1, <2>3 DEF s
<1>3. ASSUME NEW f \in Frame, NEW g \in Frame
      PROVE  <<f, g>> \in Seq(Frame) /\ Range(<<f, g>>) = {f, g}
  <2> DEFINE s == <<f, g>>
  <2>1. s \in Seq(Frame) /\ Len(s) = 2 /\ s[1] = f /\ s[2] = g
    OBVIOUS
  <2> HIDE DEF s
  <2>2. Range(s) = {s[i] : i \in 1 .. Len(s)}
    BY <2>1, RangeEquality
  <2>3. Range(s) = {f, g}
    BY <2>1, <2>2
  <2>. QED  BY <2>1, <2>3 DEF s
<1>. QED  BY <1>1, <1>2, <1>3

(* The kinds of calls are told apart by op. *)
LEMMA Frames ==
  /\ Drain \in Frame /\ Serve \in Frame /\ Drain # Serve
  /\ \A x \in Item : Arrived(x) \in Frame /\ Arrived(x).op = "arrived"
                      /\ Arrived(x).item = x
  /\ \A x \in Item, f \in BOOLEAN :
       /\ Enqueued(x, f) \in Frame /\ Enqueued(x, f).op = "enqueued"
       /\ Enqueued(x, f).item = x /\ Enqueued(x, f).found = f
  /\ \A f \in Frame :
       /\ f.op = "enqueued" => f \in {Enqueued(x, g) : x \in Item, g \in BOOLEAN}
       /\ f.op = "arrived" => f \in {Arrived(x) : x \in Item}
  /\ Drain.op = "drain" /\ Serve.op = "serve"
<1> DEFINE E == {Enqueued(x, f) : x \in Item, f \in BOOLEAN}
<1> DEFINE A == {Arrived(x) : x \in Item}
<1>a. Frame = {Drain, Serve} \cup E \cup A
  BY DEF Frame
<1>b. \A x \in Item : Arrived(x) \in A
  OBVIOUS
<1>c. \A x \in Item, f \in BOOLEAN : Enqueued(x, f) \in E
  OBVIOUS
<1>1. Drain \in Frame /\ Serve \in Frame
  BY DEF Frame
<1>2. Drain.op = "drain" /\ Serve.op = "serve" /\ Drain # Serve
  BY DEF Drain, Serve
<1>3. ASSUME NEW x \in Item
      PROVE  Arrived(x) \in Frame /\ Arrived(x).op = "arrived" /\ Arrived(x).item = x
  <2>1. Arrived(x) \in Frame
    <3> HIDE DEF E, A
    <3>. QED  BY <1>3, <1>a, <1>b
  <2>. QED  BY <2>1 DEF Arrived
<1>4. ASSUME NEW x \in Item, NEW f \in BOOLEAN
      PROVE  /\ Enqueued(x, f) \in Frame /\ Enqueued(x, f).op = "enqueued"
             /\ Enqueued(x, f).item = x /\ Enqueued(x, f).found = f
  <2>1. Enqueued(x, f) \in Frame
    <3> HIDE DEF E, A
    <3>. QED  BY <1>4, <1>a, <1>c
  <2>2. Enqueued(x, f).op = "enqueued" /\ Enqueued(x, f).item = x
    BY DEF Enqueued
  <2>3. Enqueued(x, f).found = f
    BY Zenon DEF Enqueued
  <2>. QED  BY <2>1, <2>2, <2>3
<1>5. ASSUME NEW f \in Frame
      PROVE  (f.op = "enqueued" => f \in E) /\ (f.op = "arrived" => f \in A)
  <2>1. CASE f \in {Drain, Serve}
    BY <1>2, <2>1
  <2>2. CASE f \in E
    <3>1. PICK x \in Item, g \in BOOLEAN : f = Enqueued(x, g)
      BY <2>2
    <3>2. f.op = "enqueued"
      BY <1>4, <3>1
    <3>. QED  BY <2>2, <3>2
  <2>3. CASE f \in A
    <3>1. PICK x \in Item : f = Arrived(x)
      BY <2>3
    <3>2. f.op = "arrived"
      BY <1>3, <3>1
    <3>. QED  BY <2>3, <3>2
  <2> HIDE DEF E, A
  <2>. QED  BY <1>5, <1>a, <2>1, <2>2, <2>3
<1>. QED  BY <1>1, <1>2, <1>3, <1>4, <1>5

LEMMA InitInTime ==
  ASSUME Settings, Init
  PROVE  InTime
<1>1. /\ credits = Initial /\ turn = 0 /\ edf = <<>> /\ late = 0 /\ outstanding = 0
      /\ threshold = Infinite \div 2 /\ unlocked = {} /\ calls = <<>> /\ nextId = 0
      /\ creditQueue = [a \in AppIds |-> <<>>]
      /\ NumApps \in Nat \ {0} /\ Infinite \in Nat /\ MaxRequests \in Nat
      /\ Initial \in [AppIds -> Nat]
  BY DEF Init, Settings
<1>2. shared \in BOOLEAN /\ corrupted \in BOOLEAN
  BY Zenon DEF Init
<1>3. creditQueue \in [AppIds -> Seq(Item)] /\ edf \in Seq(Item)
  BY <1>1
<1>4. turn \in AppIds /\ threshold \in 0 .. Infinite /\ nextId \in 0 .. MaxRequests
  BY <1>1 DEF AppIds
<1>5. late \in 0 .. Len(edf)
  BY <1>1
<1>6. Types
  BY <1>1, <1>2, <1>3, <1>4, <1>5, SmallStacks DEF Types
<1>7. Spent
  BY <1>1 DEF Spent, HasCredit
<1>8. Served
  BY <1>1 DEF Served
<1>. QED  BY <1>6, <1>7, <1>8 DEF InTime

LEMMA AdmitInTime ==
  ASSUME Settings, InTime, NEW a \in AppIds, Admit(a)
  PROVE  InTime'
<1> DEFINE x == Head(creditQueue[a])
<1> DEFINE q == Append(edf, x)
<1> DEFINE found == \E i \in 1 .. Due(q, outstanding) : q[i].conn = x.conn
<1> DEFINE c == [credits EXCEPT ![a] = @ - x.size]
<1> DEFINE then == <<Enqueued(x, found)>> \o calls
<1>1. /\ calls # <<>> /\ Head(calls) = Drain /\ Chosen(a)
      /\ creditQueue' = [creditQueue EXCEPT ![a] = Tail(@)] /\ turn' = a
      /\ EdfDequeueAll(q, outstanding, unlocked, c, then)
      /\ UNCHANGED <<threshold, nextId, shared, corrupted>>
  BY DEF Admit
<1>2. /\ Types /\ creditQueue \in [AppIds -> Seq(Item)] /\ credits \in [AppIds -> Nat]
      /\ edf \in Seq(Item) /\ late \in 0 .. Len(edf) /\ outstanding \in Int
      /\ unlocked \subseteq Item /\ calls \in Seq(Frame)
  BY DEF InTime, Types
<1>3. creditQueue[a] # <<>> /\ credits[a] >= x.size
  BY <1>1 DEF Chosen, HasCredit
<1>4. x \in Item /\ Tail(creditQueue[a]) \in Seq(Item)
  BY <1>2, <1>3, Pop
<1> HIDE DEF x
<1>5. c \in [AppIds -> Nat]
  <2>1. x.size \in Nat
    BY <1>4 DEF Item, Settings
  <2>. QED  BY <1>2, <1>3, <2>1
<1>6. q \in Seq(Item) /\ late <= Len(q)
  <2>1. q \in Seq(Item) /\ Len(q) = Len(edf) + 1 /\ Len(edf) \in Nat
    BY <1>2, <1>4, Join, LenProperties
  <2>. QED  BY <1>2, <2>1
<1> HIDE DEF q, c
<1>7. then \in Seq(Frame) /\ Range(calls) \subseteq Range(then)
  <2>1. found \in BOOLEAN
    BY Zenon
  <2> HIDE DEF found
  <2>2. Enqueued(x, found) \in Frame
    BY <1>4, <2>1, Frames
  <2>. QED  BY <1>2, <2>2, Push
<1> HIDE DEF then, found
<1>8. /\ edf' \in Seq(Item) /\ late' \in 0 .. Len(edf') /\ outstanding' \in Int
      /\ unlocked' \subseteq Item /\ credits' \in [AppIds -> Nat] /\ calls' \in Seq(Frame)
      /\ edf' # <<>> => outstanding' >= threshold
      /\ Range(then) \subseteq Range(calls')
  <2>1. /\ Types /\ q \in Seq(Item) /\ late <= Len(q) /\ outstanding \in Int
        /\ unlocked \subseteq Item /\ c \in [AppIds -> Nat] /\ then \in Seq(Frame)
        /\ EdfDequeueAll(q, outstanding, unlocked, c, then)
    BY <1>1, <1>2, <1>5, <1>6, <1>7
  <2>. QED  BY <2>1, EdfKeeps
<1>9. Types'
  <2>1. creditQueue' \in [AppIds -> Seq(Item)]
    BY <1>1, <1>2, <1>4 DEF x
  <2>. QED  BY <1>1, <1>2, <1>8, <2>1 DEF Types
<1>10. Spent'
  <2>1. Drain \in Range(calls)
    BY <1>1, <1>2, Pop
  <2>. QED  BY <1>7, <1>8, <2>1 DEF Spent
<1>11. Served'
  <2>1. threshold \in Int
    BY <1>2 DEF Types
  <2>. QED  BY <1>1, <1>8, <2>1 DEF Served
<1>. QED  BY <1>9, <1>10, <1>11 DEF InTime

-----------------------------------------------------------------------------
(* The calls of the thread that has the mutex *)

(* A call that is not to drain or to serve ends. *)
LEMMA Ends ==
  ASSUME Settings, InTime, calls # <<>>, Head(calls) # Drain, Head(calls) # Serve,
         calls' = Tail(calls), turn' \in AppIds, unlocked' \subseteq Item,
         UNCHANGED <<creditQueue, credits, edf, late, outstanding, threshold,
                     nextId, shared, corrupted>>
  PROVE  InTime'
<1>1. Types /\ Spent /\ Served /\ calls \in Seq(Frame)
  BY DEF InTime, Types
<1>2. calls' \in Seq(Frame) /\ Range(calls) = {Head(calls)} \cup Range(calls')
  BY <1>1, Pop
<1>3. Types'
  BY <1>1, <1>2 DEF Types
<1>4. Spent'
  BY <1>1, <1>2 DEF Spent, HasCredit
<1>5. Served'
  BY <1>1, <1>2 DEF Served
<1>. QED  BY <1>3, <1>4, <1>5 DEF InTime

LEMMA EndEnqueueInTime ==
  ASSUME Settings, InTime, EndEnqueue
  PROVE  InTime'
<1>1. Types /\ NumApps \in Nat \ {0} /\ turn \in AppIds /\ unlocked \subseteq Item
  BY DEF InTime, Types, Settings
<1>2. Head(calls) # Drain /\ Head(calls) # Serve
  BY Frames DEF EndEnqueue
<1>3. turn' \in AppIds
  BY <1>1 DEF EndEnqueue, AppIds
<1>. QED  BY <1>1, <1>2, <1>3, Ends DEF EndEnqueue

LEMMA EndArriveInTime ==
  ASSUME Settings, InTime, EndArrive
  PROVE  InTime'
<1>1. Types /\ turn \in AppIds /\ unlocked \subseteq Item /\ calls \in Seq(Frame)
  BY DEF InTime, Types
<1>2. Head(calls) # Drain /\ Head(calls) # Serve
  BY Frames DEF EndArrive
<1>3. Head(calls).item \in Item
  <2>1. Head(calls) \in Frame /\ Head(calls).op = "arrived"
    BY <1>1, Pop DEF EndArrive
  <2>2. PICK x \in Item : Head(calls) = Arrived(x)
    BY <2>1, Frames
  <2>. QED  BY <2>2, Frames
<1>4. unlocked' \subseteq Item
  BY <1>1, <1>3 DEF EndArrive
<1>. QED  BY <1>1, <1>2, <1>4, Ends DEF EndArrive

LEMMA EndDrainInTime ==
  ASSUME Settings, InTime, EndDrain
  PROVE  InTime'
<1>1. Types /\ Served /\ calls \in Seq(Frame)
  BY DEF InTime, Types
<1>2. /\ calls # <<>> /\ Head(calls) = Drain /\ calls' = Tail(calls)
      /\ \A a \in AppIds : ~HasCredit(a)
      /\ UNCHANGED <<creditQueue, credits, turn, edf, late, outstanding, threshold,
                     unlocked, nextId, shared, corrupted>>
  BY DEF EndDrain
<1>3. calls' \in Seq(Frame) /\ Range(calls) = {Drain} \cup Range(calls')
  BY <1>1, <1>2, Pop
<1>4. Types'
  BY <1>1, <1>2, <1>3 DEF Types
<1>5. Spent'
  BY <1>2 DEF Spent, HasCredit
<1>6. Served'
  BY <1>1, <1>2, <1>3, Frames DEF Served
<1>. QED  BY <1>4, <1>5, <1>6 DEF InTime

(* What twolsfqd_edf_dequeue_all on the queue as it is keeps, when the     *)
(* calls that remain lack at most a call to serve the second level.        *)
LEMMA EdfInTime ==
  ASSUME Settings, InTime, NEW busy \in Int, NEW open, open \subseteq Item,
         NEW then \in Seq(Frame), EdfDequeueAll(edf, busy, open, credits, then),
         Range(calls) \subseteq {Serve} \cup Range(then),
         UNCHANGED <<creditQueue, turn, threshold, nextId, shared>>,
         corrupted' \in BOOLEAN
  PROVE  InTime'
<1>1. /\ Types /\ Spent /\ edf \in Seq(Item) /\ late <= Len(edf)
      /\ credits \in [AppIds -> Nat] /\ threshold \in Int
  BY DEF InTime, Types
<1>2. /\ edf' \in Seq(Item) /\ late' \in 0 .. Len(edf') /\ outstanding' \in Int
      /\ unlocked' \subseteq Item /\ credits' \in [AppIds -> Nat] /\ calls' \in Seq(Frame)
      /\ edf' # <<>> => outstanding' >= threshold
      /\ Range(then) \subseteq Range(calls')
      /\ credits' = credits \/ Drain \in Range(calls')
  BY <1>1, EdfKeeps
<1>3. Types'
  BY <1>1, <1>2 DEF Types
<1>4. Spent'
  BY <1>1, <1>2, Frames DEF Spent, HasCredit
<1>5. Served'
  BY <1>1, <1>2 DEF Served
<1>. QED  BY <1>3, <1>4, <1>5 DEF InTime

LEMMA ServeEdfInTime ==
  ASSUME Settings, InTime, ServeEdf
  PROVE  InTime'
<1>1. Types /\ calls \in Seq(Frame) /\ outstanding \in Int /\ unlocked \subseteq Item
  BY DEF InTime, Types
<1>2. /\ calls # <<>> /\ Head(calls) = Serve
      /\ EdfDequeueAll(edf, outstanding, unlocked, credits, Tail(calls))
      /\ UNCHANGED <<creditQueue, turn, threshold, nextId, shared>>
      /\ corrupted' = corrupted
  BY DEF ServeEdf
<1>3. Tail(calls) \in Seq(Frame) /\ Range(calls) = {Serve} \cup Range(Tail(calls))
  BY <1>1, <1>2, Pop
<1>4. corrupted' \in BOOLEAN
  BY <1>1, <1>2 DEF Types
<1>. QED  BY <1>1, <1>2, <1>3, <1>4, EdfInTime

-----------------------------------------------------------------------------
(* What takes the mutex *)

(* With the mutex free, nothing is held back. *)
LEMMA Quiet ==
  ASSUME InTime, calls = <<>>
  PROVE  (edf # <<>> => outstanding >= threshold) /\ \A a \in AppIds : ~HasCredit(a)
<1>1. Range(calls) = {}
  BY SmallStacks
<1>2. Types /\ Spent /\ Served /\ outstanding \in Int /\ threshold \in Int
  BY DEF InTime, Types
<1>3. \A a \in AppIds : ~HasCredit(a)
  BY <1>1, <1>2 DEF Spent
<1>4. edf # <<>> => outstanding >= threshold
  BY <1>1, <1>2 DEF Served
<1>. QED  BY <1>3, <1>4

LEMMA CompleteInTime ==
  ASSUME Settings, InTime, NEW x \in unlocked, Complete(x)
  PROVE  InTime'
<1>1. /\ calls = <<>> /\ outstanding \in Int /\ unlocked \ {x} \subseteq Item
  BY DEF InTime, Types, Complete, MutexFree
<1>2. /\ EdfDequeueAll(edf, outstanding - 1, unlocked \ {x}, credits, <<>>)
      /\ UNCHANGED <<creditQueue, turn, threshold, nextId, shared>>
  BY DEF Complete
<1>3. corrupted' \in BOOLEAN
  BY Zenon DEF Complete
<1>4. <<>> \in Seq(Frame) /\ Range(calls) \subseteq {Serve} \cup Range(<<>>)
  BY <1>1, SmallStacks
<1>5. outstanding - 1 \in Int
  BY <1>1
<1>. QED  BY <1>1, <1>2, <1>3, <1>4, <1>5, EdfInTime

LEMMA ReplenishInTime ==
  ASSUME Settings, InTime, Replenish
  PROVE  InTime'
<1>1. /\ calls = <<>> /\ credits' = Full /\ calls' = <<Drain>>
      /\ UNCHANGED <<creditQueue, turn, edf, late, outstanding, threshold,
                     unlocked, nextId, shared, corrupted>>
  BY DEF Replenish, MutexFree
<1>2. calls' \in Seq(Frame) /\ Range(calls') = {Drain}
  BY <1>1, Frames, SmallStacks
<1>3. Types'
  BY <1>1, <1>2 DEF InTime, Types, Settings
<1>4. Spent'
  BY <1>2 DEF Spent
<1>5. Served'
  BY <1>1, Quiet DEF Served, InTime, Types
<1>. QED  BY <1>3, <1>4, <1>5 DEF InTime

LEMMA WindowInTime ==
  ASSUME Settings, InTime, NEW limit \in 1 .. Infinite, NEW overload \in BOOLEAN,
         Window(limit, overload)
  PROVE  InTime'
<1>1. /\ calls = <<>> /\ threshold' = limit
      /\ credits' = (IF overload /\ Spare(limit, outstanding) THEN Full ELSE credits)
      /\ calls' = (IF overload THEN <<Drain, Serve>> ELSE <<Serve>>)
      /\ UNCHANGED <<creditQueue, turn, edf, late, outstanding,
                     unlocked, nextId, shared, corrupted>>
  BY DEF Window, MutexFree
<1>2. /\ calls' \in Seq(Frame) /\ Serve \in Range(calls')
      /\ overload => Drain \in Range(calls')
  BY <1>1, Frames, SmallStacks
<1>3. Types'
  BY <1>1, <1>2 DEF InTime, Types, Settings
<1>4. Spent'
  BY <1>1, <1>2, Quiet DEF Spent, HasCredit
<1>5. Served'
  BY <1>2 DEF Served
<1>. QED  BY <1>3, <1>4, <1>5 DEF InTime

(* Only the application whose request arrives may now have the credits for *)
(* its first request: a refill means that they are enough for any.         *)
LEMMA ArriveInTime ==
  ASSUME Settings, InTime, NEW a \in AppIds, NEW conn \in Conns, NEW size \in Sizes,
         Arrive(a, conn, size)
  PROVE  InTime'
<1> DEFINE x == [id |-> nextId, app |-> a, conn |-> conn, size |-> size]
<1> DEFINE refill == credits[a] < size /\ Spare(threshold, outstanding)
<1> DEFINE c == IF refill THEN Full ELSE credits
<1>1. /\ calls = <<>> /\ nextId < MaxRequests /\ nextId' = nextId + 1
      /\ creditQueue' = [creditQueue EXCEPT ![a] = Append(@, x)] /\ credits' = c
      /\ calls' = (IF c[a] >= size THEN <<Drain, Arrived(x)>> ELSE <<>>)
      /\ UNCHANGED <<turn, edf, late, outstanding, threshold, unlocked, corrupted>>
  BY DEF Arrive, MutexFree
<1>2. /\ creditQueue \in [AppIds -> Seq(Item)] /\ credits \in [AppIds -> Nat]
      /\ Full \in [AppIds -> Nat] /\ size \in Nat /\ size <= Full[a]
      /\ nextId \in Nat /\ MaxRequests \in Nat
  BY DEF InTime, Types, Settings
<1>3. x \in Item
  BY <1>2 DEF Item
<1>4. x.size = size
  OBVIOUS
<1>5. c \in [AppIds -> Nat] /\ (~(c[a] >= size) => c = credits)
  BY <1>2
<1>6. shared' \in BOOLEAN
  BY Zenon DEF Arrive
<1> HIDE DEF x, c
<1>7. /\ calls' \in Seq(Frame)
      /\ c[a] >= size => Drain \in Range(calls')
  BY <1>1, <1>3, Frames, SmallStacks
<1>8. creditQueue[a] \in Seq(Item) /\ creditQueue'[a] = Append(creditQueue[a], x)
  BY <1>1, <1>2
<1>9. Types'
  <2>1. creditQueue' \in [AppIds -> Seq(Item)]
    BY <1>1, <1>2, <1>3
  <2>2. nextId' \in 0 .. MaxRequests
    BY <1>1, <1>2
  <2>. QED  BY <1>1, <1>5, <1>6, <1>7, <2>1, <2>2 DEF InTime, Types
<1>10. Spent'
  <2> SUFFICES ASSUME NEW b \in AppIds, HasCredit(b)', ~(c[a] >= size)
               PROVE  FALSE
    BY <1>7 DEF Spent
  <2>1. credits' = credits /\ ~(credits[a] >= size) /\ ~HasCredit(b)
    BY <1>1, <1>5, Quiet
  <2>2. CASE b # a
    BY <1>1, <1>2, <2>1, <2>2 DEF HasCredit
  <2>3. CASE b = a
    <3>1. credits[a] >= Head(Append(creditQueue[a], x)).size
      BY <1>8, <2>1, <2>3 DEF HasCredit
    <3>2. CASE creditQueue[a] = <<>>
      <4>1. Head(Append(creditQueue[a], x)) = x
        BY <1>3, <3>2
      <4>. QED  BY <1>4, <2>1, <3>1, <4>1
    <3>3. CASE creditQueue[a] # <<>>
      <4>1. Head(Append(creditQueue[a], x)) = Head(creditQueue[a])
        BY <1>3, <1>8, <3>3
      <4>. QED  BY <2>1, <2>3, <3>1, <3>3, <4>1 DEF HasCredit
    <3>. QED  BY <3>2, <3>3
  <2>. QED  BY <2>2, <2>3
<1>11. Served'
  BY <1>1, Quiet DEF Served, InTime, Types
<1>. QED  BY <1>9, <1>10, <1>11 DEF InTime

LEMMA PassInTime ==
  ASSUME Settings, InTime, Pass
  PROVE  InTime'
<1>1. /\ late < Len(edf) /\ late' = late + 1
      /\ UNCHANGED <<creditQueue, credits, turn, edf, outstanding, threshold,
                     unlocked, calls, nextId, shared, corrupted>>
  BY DEF Pass
<1>2. late' \in 0 .. Len(edf)
  <2>1. late \in Nat /\ Len(edf) \in Nat
    BY DEF InTime, Types
  <2>. QED  BY <1>1, <2>1
<1>3. Types'
  BY <1>1, <1>2 DEF InTime, Types
<1>. QED  BY <1>1, <1>3 DEF InTime, Spent, Served, HasCredit

-----------------------------------------------------------------------------
(* The theorem *)

LEMMA StepInTime ==
  ASSUME Settings, InTime, [Next]_vars
  PROVE  InTime'
<1>1. ASSUME NEW a \in AppIds, Admit(a)
      PROVE  InTime'
  BY <1>1, AdmitInTime
<1>2. CASE EndEnqueue
  BY <1>2, EndEnqueueInTime
<1>3. CASE EndDrain
  BY <1>3, EndDrainInTime
<1>4. CASE EndArrive
  BY <1>4, EndArriveInTime
<1>5. CASE ServeEdf
  BY <1>5, ServeEdfInTime
<1>6. ASSUME NEW a \in AppIds, NEW conn \in Conns, NEW size \in Sizes,
             Arrive(a, conn, size)
      PROVE  InTime'
  BY <1>6, ArriveInTime
<1>7. ASSUME NEW x \in unlocked, Complete(x)
      PROVE  InTime'
  BY <1>7, CompleteInTime
<1>8. CASE Replenish
  BY <1>8, ReplenishInTime
<1>9. ASSUME NEW limit \in 1 .. Infinite, NEW overload \in BOOLEAN,
             Window(limit, overload)
      PROVE  InTime'
  BY <1>9, WindowInTime
<1>10. CASE Pass
  BY <1>10, PassInTime
<1>11. CASE UNCHANGED vars
  BY <1>11 DEF vars, InTime, Types, Spent, Served, HasCredit
<1>. QED  BY <1>1, <1>2, <1>3, <1>4, <1>5, <1>6, <1>7, <1>8, <1>9, <1>10, <1>11
          DEF Next, Work

(* Whenever the mutex is free, the server is busy up to the threshold      *)
(* unless the second level is empty, and no application has the credits    *)
(* for its next request: what twolsfqd_edf_dequeue_all,                    *)
(* twolsfqd_dequeue_all and their callers leave undone is done by a call   *)
(* further up, however the calls nest (scheduler_2LSFQD.c).                *)
THEOREM HeldBackInTime ==
  ASSUME Settings
  PROVE  Spec => []NothingHeldBack
<1>1. Init => InTime
  BY InitInTime
<1>2. InTime /\ [Next]_vars => InTime'
  BY StepInTime
<1>3. InTime => NothingHeldBack
  BY Quiet DEF NothingHeldBack, MutexFree
<1>. QED  BY <1>1, <1>2, <1>3, PTL DEF Spec

-----------------------------------------------------------------------------
(* Types: every id in use has been given out *)

Ids == 0 .. MaxRequests - 1

Numbered(s) == \A x \in Range(s) : x.id \in Ids
Pending(s) == \A f \in Range(s) : f.op = "enqueued" => f.item.id \in Ids

InIds ==
  /\ \A a \in AppIds : Numbered(creditQueue[a])
  /\ Numbered(edf) /\ Pending(calls) /\ dispatched \subseteq Ids

LEMMA EdfInIds ==
  ASSUME Settings, Types, NEW q \in Seq(Item), late <= Len(q), NEW busy \in Int,
         NEW open, NEW c, NEW then \in Seq(Frame), EdfDequeueAll(q, busy, open, c, then),
         Numbered(q), Pending(then), dispatched \subseteq Ids
  PROVE  Numbered(edf') /\ Pending(calls') /\ dispatched' \subseteq Ids
<1> DEFINE n == Due(q, busy)
           go == {q[i] : i \in 1 .. n}
<1>1. /\ edf' = SubSeq(q, n + 1, Len(q))
      /\ dispatched' = dispatched \cup {x.id : x \in go}
      /\ calls' = (IF n > 0 THEN <<Drain>> \o then ELSE then)
  BY DEF EdfDequeueAll
<1>2. n \in 0 .. Len(q)
  BY DueFacts
<1> HIDE DEF n
<1>3. Range(q) = go \cup Range(edf')
  BY <1>1, <1>2, Cut
<1> HIDE DEF go
<1>4. Numbered(edf') /\ \A x \in go : x.id \in Ids
  BY <1>3 DEF Numbered
<1>5. dispatched' \subseteq Ids
  BY <1>1, <1>4
<1>6. Pending(calls')
  <2>1. Drain \in Frame /\ Drain.op # "enqueued"
    BY Frames
  <2>2. Range(<<Drain>> \o then) = {Drain} \cup Range(then)
    BY <2>1, Push
  <2>. QED  BY <1>1, <2>1, <2>2 DEF Pending
<1>. QED  BY <1>4, <1>5, <1>6

LEMMA AdmitInIds ==
  ASSUME Settings, Types, InIds, NEW a \in AppIds, Admit(a)
  PROVE  InIds'
<1> DEFINE x == Head(creditQueue[a])
           q == Append(edf, x)
           found == \E i \in 1 .. Due(q, outstanding) : q[i].conn = x.conn
           c == [credits EXCEPT ![a] = @ - x.size]
           then == <<Enqueued(x, found)>> \o calls
<1>1. /\ Chosen(a) /\ creditQueue' = [creditQueue EXCEPT ![a] = Tail(@)]
      /\ EdfDequeueAll(q, outstanding, unlocked, c, then)
  BY DEF Admit
<1>2. /\ creditQueue \in [AppIds -> Seq(Item)] /\ edf \in Seq(Item)
      /\ late \in 0 .. Len(edf) /\ outstanding \in Int /\ calls \in Seq(Frame)
  BY DEF Types
<1>3. creditQueue[a] # <<>>
  BY <1>1 DEF Chosen, HasCredit
<1>4. /\ x \in Item /\ Tail(creditQueue[a]) \in Seq(Item)
      /\ Range(creditQueue[a]) = {x} \cup Range(Tail(creditQueue[a]))
  BY <1>2, <1>3, Pop
<1> HIDE DEF x
<1>5. x.id \in Ids /\ Numbered(Tail(creditQueue[a]))
  BY <1>4 DEF InIds, Numbered
<1>6. q \in Seq(Item) /\ late <= Len(q) /\ Range(q) = Range(edf) \cup {x}
  <2>1. /\ q \in Seq(Item) /\ Len(q) = Len(edf) + 1 /\ Len(edf) \in Nat
        /\ Range(q) = Range(edf) \cup {x}
    BY <1>2, <1>4, Join, LenProperties
  <2>. QED  BY <1>2, <2>1
<1>7. Numbered(q)
  BY <1>5, <1>6 DEF InIds, Numbered
<1> HIDE DEF q, c
<1>8. then \in Seq(Frame) /\ Pending(then)
  <2>1. found \in BOOLEAN
    BY Zenon
  <2> HIDE DEF found
  <2>2. Enqueued(x, found) \in Frame /\ Enqueued(x, found).item = x
    BY <1>4, <2>1, Frames
  <2>3. then \in Seq(Frame) /\ Range(then) = {Enqueued(x, found)} \cup Range(calls)
    BY <1>2, <2>2, Push
  <2> HIDE DEF then
  <2>. QED  BY <1>5, <2>2, <2>3 DEF InIds, Pending
<1> HIDE DEF then
<1>9. Numbered(edf') /\ Pending(calls') /\ dispatched' \subseteq Ids
  BY <1>1, <1>2, <1>6, <1>7, <1>8, EdfInIds DEF InIds
<1>10. \A b \in AppIds : Numbered(creditQueue'[b])
  BY <1>1, <1>2, <1>5 DEF InIds
<1>. QED  BY <1>9, <1>10 DEF InIds

(* A call ends. *)
LEMMA EndInIds ==
  ASSUME Types, InIds, calls # <<>>, calls' = Tail(calls),
         UNCHANGED <<creditQueue, edf>>,
         dispatched' \subseteq dispatched \/ (Head(calls).op = "enqueued"
                         /\ dispatched' \subseteq dispatched \cup {Head(calls).item.id})
  PROVE  InIds'
<1>1. calls \in Seq(Frame) /\ Range(calls) = {Head(calls)} \cup Range(calls')
  BY Pop DEF Types
<1>2. Pending(calls')
  BY <1>1 DEF InIds, Pending
<1>3. dispatched' \subseteq Ids
  BY <1>1 DEF InIds, Pending
<1>. QED  BY <1>2, <1>3 DEF InIds

LEMMA ServeInIds ==
  ASSUME Settings, Types, InIds, ServeEdf
  PROVE  InIds'
<1>1. /\ calls # <<>> /\ EdfDequeueAll(edf, outstanding, unlocked, credits, Tail(calls))
      /\ creditQueue' = creditQueue
  BY DEF ServeEdf
<1>2. edf \in Seq(Item) /\ late <= Len(edf) /\ outstanding \in Int /\ calls \in Seq(Frame)
  BY DEF Types
<1>3. Tail(calls) \in Seq(Frame) /\ Range(calls) = {Head(calls)} \cup Range(Tail(calls))
  BY <1>1, <1>2, Pop
<1>4. Pending(Tail(calls))
  BY <1>3 DEF InIds, Pending
<1>5. Numbered(edf') /\ Pending(calls') /\ dispatched' \subseteq Ids
  BY <1>1, <1>2, <1>3, <1>4, EdfInIds DEF InIds
<1>. QED  BY <1>1, <1>5 DEF InIds

LEMMA CompleteInIds ==
  ASSUME Settings, Types, InIds, NEW x \in unlocked, Complete(x)
  PROVE  InIds'
<1>1. /\ EdfDequeueAll(edf, outstanding - 1, unlocked \ {x}, credits, <<>>)
      /\ creditQueue' = creditQueue
  BY DEF Complete
<1>2. /\ edf \in Seq(Item) /\ late <= Len(edf) /\ outstanding - 1 \in Int
      /\ <<>> \in Seq(Frame) /\ Range(<<>>) = {}
  BY SmallStacks DEF Types
<1>3. Pending(<<>>)
  BY <1>2 DEF Pending
<1>4. Numbered(edf') /\ Pending(calls') /\ dispatched' \subseteq Ids
  BY <1>1, <1>2, <1>3, EdfInIds DEF InIds
<1>. QED  BY <1>1, <1>4 DEF InIds

LEMMA ArriveInIds ==
  ASSUME Settings, Types, InIds, NEW a \in AppIds, NEW conn \in Conns, NEW size \in Sizes,
         Arrive(a, conn, size)
  PROVE  InIds'
<1> DEFINE x == [id |-> nextId, app |-> a, conn |-> conn, size |-> size]
<1>1. /\ nextId < MaxRequests /\ creditQueue' = [creditQueue EXCEPT ![a] = Append(@, x)]
      /\ calls' = <<Drain, Arrived(x)>> \/ calls' = <<>>
      /\ edf' = edf /\ dispatched' = dispatched
  BY DEF Arrive
<1>2. /\ creditQueue \in [AppIds -> Seq(Item)] /\ nextId \in 0 .. MaxRequests
      /\ MaxRequests \in Nat
  BY DEF Types, Settings
<1>3. x \in Item /\ x.id \in Ids
  BY <1>1, <1>2 DEF Item, Settings, Ids
<1> HIDE DEF x
<1>4. Range(Append(creditQueue[a], x)) = Range(creditQueue[a]) \cup {x}
  BY <1>2, <1>3, Join
<1>5. Numbered(Append(creditQueue[a], x))
  BY <1>3, <1>4 DEF InIds, Numbered
<1>6. \A b \in AppIds : Numbered(creditQueue'[b])
  BY <1>1, <1>2, <1>5 DEF InIds
<1>7. Pending(calls')
  <2>1. /\ Drain \in Frame /\ Arrived(x) \in Frame
        /\ Drain.op # "enqueued" /\ Arrived(x).op # "enqueued"
    BY <1>3, Frames
  <2>2. /\ Range(<<Drain, Arrived(x)>>) = {Drain, Arrived(x)}
        /\ Range(<<>>) = {}
    BY <2>1, SmallStacks
  <2>. QED  BY <1>1, <2>1, <2>2 DEF Pending
<1>. QED  BY <1>1, <1>6, <1>7 DEF InIds

(* The threads that refill and set the threshold. *)
LEMMA ThreadInIds ==
  ASSUME InIds, UNCHANGED <<creditQueue, edf, dispatched>>,
         calls' \in {<<Drain>>, <<Serve>>, <<Drain, Serve>>}
  PROVE  InIds'
<1>1. /\ Drain \in Frame /\ Serve \in Frame
      /\ Drain.op # "enqueued" /\ Serve.op # "enqueued"
  BY Frames
<1>2. /\ Range(<<Drain>>) = {Drain} /\ Range(<<Serve>>) = {Serve}
      /\ Range(<<Drain, Serve>>) = {Drain, Serve}
  BY <1>1, SmallStacks
<1>3. Pending(calls')
  BY <1>1, <1>2 DEF Pending
<1>. QED  BY <1>3 DEF InIds

LEMMA StepInIds ==
  ASSUME Settings, Types, InIds, [Next]_vars
  PROVE  InIds'
<1>1. ASSUME NEW a \in AppIds, Admit(a)
      PROVE  InIds'
  BY <1>1, AdmitInIds
<1>2. CASE EndEnqueue
  BY <1>2, EndInIds DEF EndEnqueue
<1>3. CASE EndDrain
  BY <1>3, EndInIds DEF EndDrain
<1>4. CASE EndArrive
  BY <1>4, EndInIds DEF EndArrive
<1>5. CASE ServeEdf
  BY <1>5, ServeInIds
<1>6. ASSUME NEW a \in AppIds, NEW conn \in Conns, NEW size \in Sizes,
             Arrive(a, conn, size)
      PROVE  InIds'
  BY <1>6, ArriveInIds
<1>7. ASSUME NEW x \in unlocked, Complete(x)
      PROVE  InIds'
  BY <1>7, CompleteInIds
<1>8. CASE Replenish
  BY <1>8, ThreadInIds DEF Replenish
<1>9. ASSUME NEW limit \in 1 .. Infinite, NEW overload \in BOOLEAN,
             Window(limit, overload)
      PROVE  InIds'
  <2>1. /\ calls' \in {<<Drain>>, <<Serve>>, <<Drain, Serve>>}
        /\ UNCHANGED <<creditQueue, edf, dispatched>>
    BY <1>9 DEF Window
  <2>. QED  BY <2>1, ThreadInIds
<1>10. CASE Pass
  BY <1>10 DEF Pass, InIds
<1>11. CASE UNCHANGED vars
  BY <1>11 DEF vars, InIds
<1>. QED  BY <1>1, <1>2, <1>3, <1>4, <1>5, <1>6, <1>7, <1>8, <1>9, <1>10, <1>11
          DEF Next, Work

(* Every variable of the plug-in keeps its type, whichever thread has the  *)
(* mutex and however its calls nest.                                       *)
THEOREM Typing ==
  ASSUME Settings
  PROVE  Spec => []TypeOK
<1>1. Init => InIds
  <2> SUFFICES ASSUME Init PROVE InIds
    OBVIOUS
  <2>1. /\ \A a \in AppIds : creditQueue[a] = <<>>
        /\ edf = <<>> /\ calls = <<>> /\ dispatched = {}
    BY DEF Init
  <2>2. Range(<<>>) = {}
    BY SmallStacks
  <2>. QED  BY <2>1, <2>2 DEF InIds, Numbered, Pending
<1>2. InTime /\ InIds /\ [Next]_vars => (InTime /\ InIds)'
  BY StepInTime, StepInIds DEF InTime
<1>3. ASSUME InTime, InIds PROVE TypeOK
  <2>1. /\ creditQueue \in [AppIds -> Seq(Item)]
        /\ credits \in [AppIds -> Nat] /\ turn \in AppIds
        /\ edf \in Seq(Item) /\ late \in 0 .. Len(edf)
        /\ outstanding \in Int /\ threshold \in 0 .. Infinite
        /\ unlocked \subseteq Item /\ calls \in Seq(Frame)
        /\ nextId \in 0 .. MaxRequests
    BY <1>3 DEF InTime, Types
  <2>2. shared \in BOOLEAN /\ corrupted \in BOOLEAN
    BY <1>3 DEF InTime, Types
  <2>3. \A s \in Seq(Item) : Range(s) \subseteq Item
    BY RangeEquality, ElementOfSeq
  <2>4. \A f \in Frame : f.op \in {"drain", "enqueued", "arrived", "serve"}
    <3> SUFFICES ASSUME NEW f \in Frame
                 PROVE  f.op \in {"drain", "enqueued", "arrived", "serve"}
      OBVIOUS
    <3>1. CASE f = Drain \/ f = Serve
      BY <3>1, Frames
    <3>2. ASSUME NEW x \in Item, NEW g \in BOOLEAN, f = Enqueued(x, g)
          PROVE  f.op = "enqueued"
      BY <3>2 DEF Enqueued
    <3>3. ASSUME NEW x \in Item, f = Arrived(x) PROVE f.op = "arrived"
      BY <3>3, Frames
    <3>. QED  BY <3>1, <3>2, <3>3 DEF Frame
  <2>5. \A i \in DOMAIN calls : calls[i].op \in {"drain", "enqueued", "arrived", "serve"}
    BY <2>1, <2>4, ElementOfSeq
  <2>6. dispatched \subseteq 0 .. MaxRequests - 1
    BY <1>3 DEF InIds, Ids
  <2>7. {shared, corrupted} \subseteq BOOLEAN
    BY Zenon, <2>2
  <2>. QED  BY <2>1, <2>3, <2>5, <2>6, <2>7 DEF TypeOK
<1>. QED  BY <1>1, <1>2, <1>3, InitInTime, PTL DEF Spec

-----------------------------------------------------------------------------
(* What is let go is counted *)

OnceEach(s) == \A i, j \in 1 .. Len(s) : s[i] = s[j] => i = j

LEMMA PopOnce ==
  ASSUME NEW S, NEW s \in Seq(S), s # <<>>, OnceEach(s)
  PROVE  OnceEach(Tail(s)) /\ Head(s) \notin Range(Tail(s))
<1>1. /\ Tail(s) \in Seq(S) /\ Len(Tail(s)) = Len(s) - 1
      /\ \A i \in 1 .. Len(Tail(s)) : Tail(s)[i] = s[i + 1]
      /\ Len(s) \in Nat /\ Len(s) > 0 /\ Head(s) = s[1]
  BY HeadTailProperties
<1>2. Range(Tail(s)) = {Tail(s)[i] : i \in 1 .. Len(Tail(s))}
  BY <1>1, RangeEquality
<1>3. \A i \in 1 .. Len(Tail(s)) : i \in Nat /\ i + 1 \in 1 .. Len(s) /\ i + 1 # 1
  BY <1>1
<1>4. OnceEach(Tail(s))
  BY <1>1, <1>3 DEF OnceEach
<1>5. Head(s) \notin Range(Tail(s))
  BY <1>1, <1>2, <1>3 DEF OnceEach
<1>. QED  BY <1>4, <1>5

LEMMA JoinOnce ==
  ASSUME NEW S, NEW s \in Seq(S), NEW x \in S, x \notin Range(s), OnceEach(s)
  PROVE  OnceEach(Append(s, x))
<1>1. /\ Len(Append(s, x)) = Len(s) + 1 /\ Len(s) \in Nat
      /\ Append(s, x)[Len(s) + 1] = x
      /\ \A i \in 1 .. Len(s) : Append(s, x)[i] = s[i] /\ s[i] # x
  <2>1. \A i \in 1 .. Len(s) : s[i] \in Range(s)
    BY RangeEquality
  <2>. QED  BY <2>1, Join, LenProperties
<1>2. 1 .. Len(s) + 1 = 1 .. Len(s) \cup {Len(s) + 1}
  BY <1>1
<1>. QED  BY <1>1, <1>2 DEF OnceEach

LEMMA CutOnce ==
  ASSUME NEW S, NEW s \in Seq(S), NEW n \in 0 .. Len(s), OnceEach(s)
  PROVE  LET t == SubSeq(s, n + 1, Len(s))
         IN  OnceEach(t) /\ Range(t) \cap {s[i] : i \in 1 .. n} = {}
<1> DEFINE t == SubSeq(s, n + 1, Len(s))
<1>1. /\ t \in Seq(S) /\ Len(t) = Len(s) - n
      /\ \A i \in 1 .. Len(t) : t[i] = s[i + n]
  BY Cut
<1>2. Len(s) \in Nat /\ n \in Nat
  BY LenProperties
<1> HIDE DEF t
<1>3. Range(t) = {t[i] : i \in 1 .. Len(t)}
  BY <1>1, RangeEquality
<1>4. \A i \in 1 .. Len(t) : i \in Nat /\ i + n \in 1 .. Len(s) /\ i + n > n
  BY <1>1, <1>2
<1>5. OnceEach(t)
  BY <1>1, <1>2, <1>4 DEF OnceEach
<1>6. \A i \in 1 .. n : i \in 1 .. Len(s) /\ i <= n
  BY <1>2
<1>7. \A i \in 1 .. Len(t), j \in 1 .. n : t[i] # s[j]
  <2> SUFFICES ASSUME NEW i \in 1 .. Len(t), NEW j \in 1 .. n, t[i] = s[j]
               PROVE  FALSE
    OBVIOUS
  <2>1. i + n = j
    BY <1>1, <1>4, <1>6 DEF OnceEach
  <2>. QED  BY <1>2, <1>4, <1>6, <2>1
<1>8. Range(t) \cap {s[i] : i \in 1 .. n} = {}
  BY <1>3, <1>7
<1>. QED  BY <1>5, <1>8 DEF t

LEMMA FirstCounted ==
  ASSUME NEW S, NEW s \in Seq(S), NEW n \in 0 .. Len(s), OnceEach(s)
  PROVE  IsFiniteSet({s[i] : i \in 1 .. n}) /\ Cardinality({s[i] : i \in 1 .. n}) = n
<1> DEFINE go == {s[i] : i \in 1 .. n}
<1> DEFINE f == [i \in 1 .. n |-> s[i]]
<1>1. Len(s) \in Nat /\ n \in Nat /\ 1 .. n \subseteq 1 .. Len(s)
  BY LenProperties
<1>2. f \in [1 .. n -> go] /\ \A t \in go : \E i \in 1 .. n : f[i] = t
  OBVIOUS
<1>3. \A i, j \in 1 .. n : f[i] = f[j] => i = j
  BY <1>1 DEF OnceEach
<1>4. IsFiniteSet(1 .. n) /\ Cardinality(1 .. n) = n
  BY <1>1, FS_Interval
<1> HIDE DEF go, f
<1>5. ExistsBijection(1 .. n, go)
  BY <1>2, <1>3 DEF Bijection, Injection, Surjection, IsInjective, ExistsBijection
<1>6. IsFiniteSet(go) /\ Cardinality(go) = n
  BY <1>4, <1>5, FS_Bijection
<1>. QED  BY <1>6 DEF go

Live == Waiting \cup unlocked

(* Every item is in one place. *)
Apart ==
  /\ \A a \in AppIds : /\ OnceEach(creditQueue[a])
                        /\ \A y \in Range(creditQueue[a]) : y.app = a
                        /\ Range(creditQueue[a]) \cap (Range(edf) \cup unlocked) = {}
  /\ OnceEach(edf) /\ Range(edf) \cap unlocked = {}

Counted == IsFiniteSet(unlocked) /\ outstanding = Cardinality(unlocked)

(* An item is dispatched when it has been let go, and it can be found by   *)
(* its connection as well as by its id.                                    *)
Named ==
  /\ dispatched \subseteq 0 .. nextId - 1
  /\ \A y \in Live : y.id \in 0 .. nextId - 1 /\ (y.id \in dispatched <=> y \in unlocked)
  /\ \A y, z \in Live : y.id = z.id \/ y.conn = z.conn => y = z

(* What a call that is not finished is going to write is still true then:  *)
(* while the answer "not sent" is on the stack, no call above it sends     *)
(* anything.                                                               *)
Answers ==
  \A f \in Range(calls) :
    /\ f.op = "enqueued" =>
         IF f.found THEN f.item.id \in dispatched
         ELSE f.item \in Range(edf) /\ outstanding >= threshold /\ late = 0
    /\ f.op = "arrived" => f.item \in Live

Facts == Apart /\ Counted /\ Named /\ Answers /\ ~corrupted

Exact == ~shared => Facts

LivePlaces ==
  /\ \A y \in Live : \/ \E a \in AppIds : y \in Range(creditQueue[a])
                     \/ y \in Range(edf) \/ y \in unlocked
  /\ \A a \in AppIds : Range(creditQueue[a]) \subseteq Live
  /\ Range(edf) \subseteq Live /\ unlocked \subseteq Live

LEMMA LiveItems == LivePlaces /\ LivePlaces'
<1>1. \A y \in Live : \/ \E a \in AppIds : y \in Range(creditQueue[a])
                     \/ y \in Range(edf) \/ y \in unlocked
  BY DEF Live, Waiting
<1>2. \A a \in AppIds : Range(creditQueue[a]) \subseteq Live
  BY DEF Live, Waiting
<1>3. Range(edf) \subseteq Live /\ unlocked \subseteq Live
  BY DEF Live, Waiting
<1>4. \A y \in Live' : \/ \E a \in AppIds : y \in Range(creditQueue'[a])
                      \/ y \in Range(edf') \/ y \in unlocked'
  BY DEF Live, Waiting
<1>5. \A a \in AppIds : Range(creditQueue'[a]) \subseteq Live'
  BY DEF Live, Waiting
<1>6. Range(edf') \subseteq Live' /\ unlocked' \subseteq Live'
  BY DEF Live, Waiting
<1>. QED  BY <1>1, <1>2, <1>3, <1>4, <1>5, <1>6 DEF LivePlaces

(* What twolsfqd_edf_dequeue_all sends goes from the queue to the open     *)
(* requests, and is counted.                                               *)
LEMMA Sends ==
  ASSUME Settings, Types, NEW q \in Seq(Item), late <= Len(q), NEW busy \in Int,
         NEW open, open \subseteq Item, NEW c, NEW then,
         EdfDequeueAll(q, busy, open, c, then), OnceEach(q), Range(q) \cap open = {},
         IsFiniteSet(open), busy = Cardinality(open)
  PROVE  /\ OnceEach(edf') /\ Range(edf') \cap unlocked' = {}
         /\ Range(edf') \cup unlocked' = Range(q) \cup open /\ open \subseteq unlocked'
         /\ IsFiniteSet(unlocked') /\ outstanding' = Cardinality(unlocked')
         /\ dispatched' = dispatched \cup {x.id : x \in unlocked' \ open}
         /\ late' = 0
         /\ unlocked' \ open = {q[i] : i \in 1 .. Due(q, busy)}
         /\ late = 0 /\ busy >= threshold => outstanding' = busy /\ unlocked' = open
<1> DEFINE n == Due(q, busy)
<1> DEFINE go == {q[i] : i \in 1 .. n}
<1>1. /\ edf' = SubSeq(q, n + 1, Len(q)) /\ late' = 0 /\ outstanding' = busy + n
      /\ unlocked' = open \cup go
      /\ dispatched' = dispatched \cup {x.id : x \in go}
  BY DEF EdfDequeueAll
<1>2. n \in 0 .. Len(q) /\ (late = 0 /\ busy >= threshold => n = 0)
  BY DueFacts
<1> HIDE DEF n
<1>3. OnceEach(edf') /\ Range(edf') \cap go = {} /\ Range(q) = go \cup Range(edf')
  BY <1>1, <1>2, Cut, CutOnce
<1>4. IsFiniteSet(go) /\ Cardinality(go) = n
  BY <1>2, FirstCounted
<1>5. n = 0 => go = {}
  OBVIOUS
<1> HIDE DEF go
<1>6. unlocked' \ open = go /\ open \cap go = {}
  BY <1>1, <1>3
<1>7. IsFiniteSet(unlocked') /\ outstanding' = Cardinality(unlocked')
  <2>1. /\ IsFiniteSet(open \cup go)
        /\ Cardinality(open \cup go) = Cardinality(open) + Cardinality(go) - Cardinality({})
    BY <1>4, <1>6, FS_Union
  <2>2. Cardinality({}) = 0 /\ n \in Nat
    BY <1>2, FS_EmptySet
  <2>. QED  BY <1>1, <1>4, <2>1, <2>2
<1>8. dispatched' = dispatched \cup {x.id : x \in unlocked' \ open}
  BY <1>1, <1>6
<1>9. late = 0 /\ busy >= threshold => outstanding' = busy /\ unlocked' = open
  BY <1>1, <1>2, <1>5
<1>10. /\ Range(edf') \cap unlocked' = {} /\ open \subseteq unlocked'
       /\ Range(edf') \cup unlocked' = Range(q) \cup open
  BY <1>1, <1>3
<1>11. unlocked' \ open = {q[i] : i \in 1 .. Due(q, busy)}
  BY <1>6 DEF go, n
<1>. QED  BY <1>1, <1>3, <1>7, <1>8, <1>9, <1>10, <1>11

(* Sending items keeps dispatched in step with the items let go.           *)
LEMMA StaysNamed ==
  ASSUME Named, NEW open, open \subseteq unlocked,
         Live' \subseteq Live, unlocked' \subseteq Live', open \subseteq unlocked',
         \A y \in unlocked \ open : y \notin Live',
         dispatched' = dispatched \cup {x.id : x \in unlocked' \ open}, nextId' = nextId
  PROVE  Named'
<1>1. \A y \in Live' : y.id \in 0 .. nextId - 1
  BY DEF Named
<1>2. dispatched' \subseteq 0 .. nextId - 1
  <2>1. dispatched \subseteq 0 .. nextId - 1
    BY DEF Named
  <2> SUFFICES ASSUME NEW i \in dispatched', i \notin dispatched
               PROVE  i \in 0 .. nextId - 1
    BY <2>1
  <2>2. PICK x \in unlocked' \ open : x.id = i
    OBVIOUS
  <2>. QED  BY <1>1, <2>2
<1>3. ASSUME NEW y \in Live'
      PROVE  y.id \in dispatched' <=> y \in unlocked'
  <2>1. y \in Live /\ (y.id \in dispatched <=> y \in open)
    BY <1>3 DEF Named
  <2>2. ASSUME y.id \in dispatched' PROVE y \in unlocked'
    <3>1. CASE y.id \in dispatched
      BY <2>1, <3>1
    <3>2. CASE y.id \notin dispatched
      <4>1. PICK x \in unlocked' \ open : x.id = y.id
        BY <2>2, <3>2
      <4>2. x = y
        BY <2>1, <4>1 DEF Named
      <4>. QED  BY <4>1, <4>2
    <3>. QED  BY <3>1, <3>2
  <2>3. ASSUME y \in unlocked' PROVE y.id \in dispatched'
    <3>1. CASE y \in open
      BY <2>1, <3>1
    <3>2. CASE y \notin open
      BY <2>3, <3>2
    <3>. QED  BY <3>1, <3>2
  <2>. QED  BY <2>2, <2>3
<1>4. \A y, z \in Live' : y.id = z.id \/ y.conn = z.conn => y = z
  BY DEF Named
<1>. QED  BY <1>1, <1>2, <1>3, <1>4 DEF Named

LEMMA Untouched ==
  ASSUME Facts, ~corrupted',
         UNCHANGED <<creditQueue, edf, outstanding, dispatched, unlocked, nextId>>,
         \A f \in Range(calls') : \/ f \in {Drain, Serve}
                                  \/ f \in Range(calls) /\ late' = late /\ threshold' = threshold
  PROVE  Facts'
<1>1. Apart /\ Counted /\ Named /\ Answers
  BY DEF Facts
<1>2. Live' = Live
  BY DEF Live, Waiting
<1>3. Apart'
  BY <1>1 DEF Apart, OnceEach
<1>4. Counted'
  BY <1>1 DEF Counted
<1>5. Named'
  BY <1>1, <1>2 DEF Named
<1>6. Answers'
  <2> SUFFICES ASSUME NEW f \in Range(calls')
               PROVE  /\ f.op = "enqueued" =>
                           IF f.found THEN f.item.id \in dispatched'
                           ELSE f.item \in Range(edf') /\ outstanding' >= threshold' /\ late' = 0
                      /\ f.op = "arrived" => f.item \in Live'
    BY DEF Answers
  <2>1. CASE f \in {Drain, Serve}
    BY <2>1, Frames
  <2>2. CASE f \in Range(calls) /\ late' = late /\ threshold' = threshold
    BY <1>1, <1>2, <2>2 DEF Answers
  <2>. QED  BY <2>1, <2>2
<1>. QED  BY <1>3, <1>4, <1>5, <1>6 DEF Facts

LEMMA EndEnqueueFacts ==
  ASSUME Settings, InTime, Facts, EndEnqueue
  PROVE  Facts'
<1> DEFINE f == Head(calls)
<1>1. /\ calls # <<>> /\ f.op = "enqueued" /\ calls' = Tail(calls)
      /\ dispatched' = (IF f.found THEN dispatched \cup {f.item.id}
                                   ELSE dispatched \ {f.item.id})
      /\ UNCHANGED <<creditQueue, credits, edf, late, outstanding, threshold,
                     unlocked, nextId, shared, corrupted>>
  BY DEF EndEnqueue
<1>2. calls \in Seq(Frame) /\ Range(calls) = {f} \cup Range(calls')
  BY <1>1, Pop DEF InTime, Types
<1> HIDE DEF f
<1>3. IF f.found THEN f.item.id \in dispatched ELSE f.item \in Range(edf)
  BY <1>1, <1>2 DEF Facts, Answers
<1>4. dispatched' = dispatched
  <2>1. CASE f.found
    BY <1>1, <1>3, <2>1
  <2>2. CASE ~f.found
    <3>1. f.item \in Live /\ f.item \notin unlocked
      BY <1>3, <2>2, LiveItems DEF LivePlaces, Facts, Apart
    <3>2. f.item.id \notin dispatched
      BY <3>1 DEF Facts, Named
    <3>. QED  BY <1>1, <2>2, <3>2
  <2>. QED  BY <2>1, <2>2
<1>5. ~corrupted'
  BY <1>1 DEF Facts
<1>. QED  BY <1>1, <1>2, <1>4, <1>5, Untouched

LEMMA EndDrainFacts ==
  ASSUME Settings, InTime, Facts, EndDrain
  PROVE  Facts'
<1>1. calls # <<>> /\ calls' = Tail(calls)
  BY DEF EndDrain
<1>2. Range(calls') \subseteq Range(calls)
  BY <1>1, Pop DEF InTime, Types
<1>3. /\ UNCHANGED <<creditQueue, edf, late, outstanding, threshold,
                     dispatched, unlocked, nextId>>
      /\ ~corrupted'
  BY DEF EndDrain, Facts
<1>. QED  BY <1>2, <1>3, Untouched

LEMMA EndArriveFacts ==
  ASSUME Settings, InTime, Facts, EndArrive
  PROVE  Facts'
<1> DEFINE f == Head(calls)
<1>1. /\ calls # <<>> /\ f.op = "arrived" /\ calls' = Tail(calls)
      /\ unlocked' = (IF f.item.id \in dispatched THEN unlocked \cup {f.item}
                                                 ELSE unlocked \ {f.item})
      /\ UNCHANGED <<creditQueue, edf, late, outstanding, threshold,
                     dispatched, nextId, corrupted>>
  BY DEF EndArrive
<1>2. Range(calls) = {f} \cup Range(calls')
  BY <1>1, Pop DEF InTime, Types
<1> HIDE DEF f
<1>3. f.item \in Live
  BY <1>1, <1>2 DEF Facts, Answers
<1>4. f.item.id \in dispatched <=> f.item \in unlocked
  BY <1>3 DEF Facts, Named
<1>5. unlocked' = unlocked
  BY <1>1, <1>4
<1>6. ~corrupted'
  BY <1>1 DEF Facts
<1>. QED  BY <1>1, <1>2, <1>5, <1>6, Untouched

LEMMA EdfFacts ==
  ASSUME Settings, InTime, Facts, NEW busy \in Int, NEW open, open \subseteq unlocked,
         IsFiniteSet(open), busy = Cardinality(open), NEW then \in Seq(Frame),
         EdfDequeueAll(edf, busy, open, credits, then),
         Range(then) \subseteq Range(calls),
         calls = <<>> \/ (open = unlocked /\ busy = outstanding),
         UNCHANGED <<creditQueue, threshold, nextId>>, ~corrupted'
  PROVE  Facts'
<1>1. /\ Types /\ edf \in Seq(Item) /\ late <= Len(edf) /\ open \subseteq Item
      /\ credits \in [AppIds -> Nat]
  BY DEF InTime, Types
<1>2. Apart /\ Counted /\ Named /\ Answers /\ LivePlaces /\ LivePlaces'
  BY LiveItems DEF Facts
<1>3. OnceEach(edf) /\ Range(edf) \cap open = {}
  BY <1>2 DEF Apart
<1>4. /\ OnceEach(edf') /\ Range(edf') \cap unlocked' = {}
      /\ Range(edf') \cup unlocked' = Range(edf) \cup open /\ open \subseteq unlocked'
      /\ IsFiniteSet(unlocked') /\ outstanding' = Cardinality(unlocked')
      /\ dispatched' = dispatched \cup {x.id : x \in unlocked' \ open}
      /\ late' = 0
      /\ late = 0 /\ busy >= threshold => outstanding' = busy /\ unlocked' = open
  BY <1>1, <1>3, Sends
<1>5. Range(calls') \subseteq {Drain} \cup Range(then)
  BY <1>1, EdfKeeps
<1>6. /\ Live' \subseteq Live /\ unlocked' \subseteq Live'
      /\ \A y \in unlocked \ open : y \notin Live'
  BY <1>2, <1>4 DEF LivePlaces, Apart
<1>7. open = unlocked => Live \subseteq Live'
  BY <1>2, <1>4 DEF LivePlaces
<1>8. Apart'
  BY <1>2, <1>4 DEF Apart
<1>9. Counted'
  BY <1>4 DEF Counted
<1>10. Named'
  BY <1>2, <1>4, <1>6, StaysNamed
<1>11. Answers'
  <2> SUFFICES ASSUME NEW f \in Range(calls'), f # Drain
               PROVE  /\ f.op = "enqueued" =>
                           IF f.found THEN f.item.id \in dispatched'
                           ELSE f.item \in Range(edf') /\ outstanding' >= threshold' /\ late' = 0
                      /\ f.op = "arrived" => f.item \in Live'
    BY Frames DEF Answers
  <2>1. f \in Range(calls) /\ calls # <<>>
    BY <1>5, SmallStacks
  <2>2. open = unlocked /\ busy = outstanding
    BY <2>1
  <2>3. /\ f.op = "enqueued" =>
             IF f.found THEN f.item.id \in dispatched
             ELSE f.item \in Range(edf) /\ outstanding >= threshold /\ late = 0
        /\ f.op = "arrived" => f.item \in Live
    BY <1>2, <2>1 DEF Answers
  <2>. QED  BY <1>2, <1>4, <1>7, <2>2, <2>3 DEF Apart
<1>. QED  BY <1>8, <1>9, <1>10, <1>11 DEF Facts

LEMMA ServeEdfFacts ==
  ASSUME Settings, InTime, Facts, ServeEdf
  PROVE  Facts'
<1>1. /\ calls # <<>> /\ EdfDequeueAll(edf, outstanding, unlocked, credits, Tail(calls))
      /\ UNCHANGED <<creditQueue, threshold, nextId>> /\ ~corrupted'
  BY DEF ServeEdf, Facts
<1>2. Tail(calls) \in Seq(Frame) /\ Range(Tail(calls)) \subseteq Range(calls)
  BY <1>1, Pop DEF InTime, Types
<1>3. IsFiniteSet(unlocked) /\ outstanding = Cardinality(unlocked) /\ outstanding \in Int
  BY DEF Facts, Counted, InTime, Types
<1>. QED  BY <1>1, <1>2, <1>3, EdfFacts

LEMMA CompleteFacts ==
  ASSUME Settings, InTime, Facts, NEW x \in unlocked, Complete(x)
  PROVE  Facts'
<1>1. /\ calls = <<>>
      /\ EdfDequeueAll(edf, outstanding - 1, unlocked \ {x}, credits, <<>>)
      /\ UNCHANGED <<creditQueue, threshold, nextId>>
  BY DEF Complete, MutexFree
<1>2. IsFiniteSet(unlocked) /\ outstanding = Cardinality(unlocked) /\ outstanding \in Int
  BY DEF Facts, Counted, InTime, Types
<1>3. IsFiniteSet(unlocked \ {x}) /\ Cardinality(unlocked \ {x}) = outstanding - 1
  BY <1>2, FS_RemoveElement
<1>4. ~corrupted'
  <2>1. corrupted' = \E i \in DOMAIN edf : edf[i] = x
    BY Zenon DEF Complete
  <2>2. x \notin Range(edf)
    BY DEF Facts, Apart
  <2>. QED  BY <2>1, <2>2 DEF Range
<1>5. <<>> \in Seq(Frame) /\ Range(<<>>) \subseteq Range(calls)
  BY SmallStacks
<1>6. outstanding - 1 \in Int /\ unlocked \ {x} \subseteq unlocked
  BY <1>2
<1>. QED  BY <1>1, <1>3, <1>4, <1>5, <1>6, EdfFacts

LEMMA OtherFacts ==
  ASSUME Facts, UNCHANGED <<creditQueue, edf, outstanding, dispatched, unlocked, nextId, corrupted>>,
         \A f \in Range(calls') : f \in {Drain, Serve}
  PROVE  Facts'
<1>1. /\ creditQueue' = creditQueue /\ edf' = edf /\ outstanding' = outstanding
      /\ dispatched' = dispatched /\ unlocked' = unlocked /\ nextId' = nextId
      /\ ~corrupted'
  BY DEF Facts
<1>. QED  BY <1>1, Untouched

LEMMA AdmitFacts ==
  ASSUME Settings, InTime, Facts, NEW a \in AppIds, Admit(a)
  PROVE  Facts'
<1> DEFINE x == Head(creditQueue[a])
<1> DEFINE q == Append(edf, x)
<1> DEFINE found == \E i \in 1 .. Due(q, outstanding) : q[i].conn = x.conn
<1> DEFINE c == [credits EXCEPT ![a] = @ - x.size]
<1> DEFINE then == <<Enqueued(x, found)>> \o calls
<1>1. /\ calls # <<>> /\ Chosen(a) /\ creditQueue' = [creditQueue EXCEPT ![a] = Tail(@)]
      /\ EdfDequeueAll(q, outstanding, unlocked, c, then)
      /\ UNCHANGED <<threshold, nextId, shared, corrupted>>
  BY DEF Admit
<1>2. /\ Types /\ creditQueue \in [AppIds -> Seq(Item)] /\ credits \in [AppIds -> Nat]
      /\ edf \in Seq(Item) /\ late \in 0 .. Len(edf) /\ outstanding \in Int
      /\ unlocked \subseteq Item /\ calls \in Seq(Frame)
  BY DEF InTime, Types
<1>3. Apart /\ Counted /\ Named /\ Answers /\ LivePlaces /\ LivePlaces' /\ ~corrupted'
  BY <1>1, LiveItems DEF Facts
<1>4. creditQueue[a] # <<>> /\ credits[a] >= x.size
  BY <1>1 DEF Chosen, HasCredit
<1>5. /\ x \in Item /\ Tail(creditQueue[a]) \in Seq(Item)
      /\ Range(creditQueue[a]) = {x} \cup Range(Tail(creditQueue[a]))
  BY <1>2, <1>4, Pop
<1>6. OnceEach(Tail(creditQueue[a])) /\ x \notin Range(Tail(creditQueue[a]))
  BY <1>2, <1>3, <1>4, PopOnce DEF Apart
<1> HIDE DEF x
<1>7. c \in [AppIds -> Nat]
  <2>1. x.size \in Nat
    BY <1>5 DEF Item, Settings
  <2>. QED  BY <1>2, <1>4, <2>1
<1>8. /\ q \in Seq(Item) /\ late <= Len(q) /\ Len(q) \in Nat /\ Len(q) > 0
      /\ q[Len(q)] = x /\ Range(q) = Range(edf) \cup {x}
  <2>1. /\ q \in Seq(Item) /\ Len(q) = Len(edf) + 1 /\ Len(edf) \in Nat
        /\ q[Len(edf) + 1] = x /\ Range(q) = Range(edf) \cup {x}
    BY <1>2, <1>5, Join, LenProperties
  <2>. QED  BY <1>2, <2>1
<1>9. x \notin Range(edf) /\ x \notin unlocked
  BY <1>3, <1>5 DEF Apart
<1>10. OnceEach(q) /\ Range(q) \cap unlocked = {}
  <2>1. OnceEach(q)
    BY <1>2, <1>3, <1>5, <1>9, JoinOnce DEF Apart
  <2>. QED  BY <1>3, <1>8, <1>9, <2>1 DEF Apart
<1> HIDE DEF q, c
<1>11. then \in Seq(Frame) /\ Range(then) = {Enqueued(x, found)} \cup Range(calls)
  <2>1. found \in BOOLEAN
    BY Zenon
  <2> HIDE DEF found
  <2>2. Enqueued(x, found) \in Frame
    BY <1>5, <2>1, Frames
  <2>. QED  BY <1>2, <2>2, Push
<1>12. /\ Enqueued(x, found).item = x /\ Enqueued(x, found).op = "enqueued"
       /\ Enqueued(x, found).found = found
  <2>1. found \in BOOLEAN
    BY Zenon
  <2> HIDE DEF found
  <2>. QED  BY <1>5, <2>1, Frames
<1> HIDE DEF then
<1>13. IsFiniteSet(unlocked) /\ outstanding = Cardinality(unlocked)
  BY <1>3 DEF Counted
<1>14. /\ OnceEach(edf') /\ Range(edf') \cap unlocked' = {}
       /\ Range(edf') \cup unlocked' = Range(q) \cup unlocked /\ unlocked \subseteq unlocked'
       /\ IsFiniteSet(unlocked') /\ outstanding' = Cardinality(unlocked')
       /\ dispatched' = dispatched \cup {y.id : y \in unlocked' \ unlocked}
       /\ late' = 0
       /\ unlocked' \ unlocked = {q[i] : i \in 1 .. Due(q, outstanding)}
       /\ late = 0 /\ outstanding >= threshold =>
            outstanding' = outstanding /\ unlocked' = unlocked
  <2>1. /\ Types /\ q \in Seq(Item) /\ late <= Len(q) /\ outstanding \in Int
        /\ unlocked \subseteq Item /\ EdfDequeueAll(q, outstanding, unlocked, c, then)
        /\ OnceEach(q) /\ Range(q) \cap unlocked = {}
        /\ IsFiniteSet(unlocked) /\ outstanding = Cardinality(unlocked)
    BY <1>1, <1>2, <1>8, <1>10, <1>13
  <2> HIDE DEF found
  <2>. QED  BY <2>1, Sends
<1>15. /\ Range(calls') \subseteq {Drain} \cup Range(then)
       /\ edf' # <<>> => outstanding' >= threshold
  BY <1>1, <1>2, <1>7, <1>8, <1>11, EdfKeeps
<1>16. /\ creditQueue'[a] = Tail(creditQueue[a])
       /\ \A b \in AppIds : b # a => creditQueue'[b] = creditQueue[b]
  BY <1>1, <1>2
<1>17. Live' = Live
  <2>1. Live' \subseteq Live
    <3> SUFFICES ASSUME NEW y \in Live'
                 PROVE  y \in Live
      OBVIOUS
    <3>1. CASE y \in Range(edf') \cup unlocked'
      BY <1>3, <1>5, <1>8, <1>14, <3>1 DEF LivePlaces
    <3>2. ASSUME NEW b \in AppIds, y \in Range(creditQueue'[b])
          PROVE  y \in Live
      BY <1>3, <1>5, <1>16, <3>2 DEF LivePlaces
    <3>. QED  BY <1>3, <3>1, <3>2 DEF LivePlaces
  <2>2. Live \subseteq Live'
    <3> SUFFICES ASSUME NEW y \in Live
                 PROVE  y \in Live'
      OBVIOUS
    <3>1. CASE y \in Range(edf) \cup unlocked \cup {x}
      BY <1>3, <1>8, <1>14, <3>1 DEF LivePlaces
    <3>2. ASSUME NEW b \in AppIds, y \in Range(creditQueue[b]), y # x
          PROVE  y \in Live'
      BY <1>3, <1>5, <1>16, <3>2 DEF LivePlaces
    <3>. QED  BY <1>3, <3>1, <3>2 DEF LivePlaces
  <2>. QED  BY <2>1, <2>2
<1>18. Apart'
  <2> SUFFICES ASSUME NEW b \in AppIds
               PROVE  /\ OnceEach(creditQueue'[b])
                      /\ \A y \in Range(creditQueue'[b]) : y.app = b
                      /\ Range(creditQueue'[b]) \cap (Range(edf') \cup unlocked') = {}
    BY <1>14 DEF Apart
  <2>1. /\ OnceEach(creditQueue'[b])
        /\ Range(creditQueue'[b]) \subseteq Range(creditQueue[b])
    BY <1>3, <1>5, <1>6, <1>16 DEF Apart
  <2>2. x \notin Range(creditQueue'[b])
    <3>1. CASE b = a
      BY <1>6, <1>16, <3>1
    <3>2. CASE b # a
      BY <1>3, <1>5, <2>1, <3>2 DEF Apart
    <3>. QED  BY <3>1, <3>2
  <2>3. Range(creditQueue'[b]) \cap (Range(edf) \cup {x} \cup unlocked) = {}
    BY <1>3, <2>1, <2>2 DEF Apart
  <2>4. \A y \in Range(creditQueue'[b]) : y.app = b
    BY <1>3, <2>1 DEF Apart
  <2>. QED  BY <1>8, <1>14, <2>1, <2>3, <2>4
<1>19. Counted'
  BY <1>14 DEF Counted
<1>20. Named'
  <2>1. unlocked' \subseteq Live'
    BY <1>3 DEF LivePlaces
  <2>. QED  BY <1>1, <1>3, <1>14, <1>17, <2>1, StaysNamed
<1>21. found => x.id \in dispatched'
  <2> SUFFICES ASSUME NEW i \in 1 .. Due(q, outstanding), q[i].conn = x.conn
               PROVE  x.id \in dispatched'
    OBVIOUS
  <2>1. q[i] \in unlocked' \ unlocked
    BY <1>14
  <2>2. q[i] \in Live /\ x \in Live
    BY <1>3, <1>5, <1>17, <2>1 DEF LivePlaces
  <2>3. q[i] = x
    BY <1>3, <2>2 DEF Named
  <2>. QED  BY <1>14, <2>1, <2>3
<1>22. ~found => x \in Range(edf') /\ outstanding' >= threshold
  <2> SUFFICES ASSUME ~found
               PROVE  x \in Range(edf') /\ outstanding' >= threshold
    OBVIOUS
  <2>1. x \notin unlocked' \ unlocked
    BY <1>14
  <2>2. x \in Range(edf')
    BY <1>8, <1>9, <1>14, <2>1
  <2>3. edf' # <<>>
    BY <2>2, SmallStacks
  <2>. QED  BY <1>15, <2>2, <2>3
<1>23. Answers'
  <2> HIDE DEF found
  <2> SUFFICES ASSUME NEW f \in Range(calls'), f # Drain
               PROVE  /\ f.op = "enqueued" =>
                           IF f.found THEN f.item.id \in dispatched'
                           ELSE f.item \in Range(edf') /\ outstanding' >= threshold' /\ late' = 0
                      /\ f.op = "arrived" => f.item \in Live'
    BY Frames DEF Answers
  <2>1. CASE f = Enqueued(x, found)
    BY <1>1, <1>12, <1>14, <1>21, <1>22, <2>1
  <2>2. CASE f \in Range(calls)
    <3>1. /\ f.op = "enqueued" =>
               IF f.found THEN f.item.id \in dispatched
               ELSE f.item \in Range(edf) /\ outstanding >= threshold /\ late = 0
          /\ f.op = "arrived" => f.item \in Live
      BY <1>3, <2>2 DEF Answers
    <3>. QED  BY <1>1, <1>3, <1>8, <1>14, <1>17, <3>1 DEF Apart
  <2>. QED  BY <1>11, <1>15, <2>1, <2>2
<1>. QED  BY <1>3, <1>18, <1>19, <1>20, <1>23 DEF Facts

(* A request that arrives is new, and so is its connection.                *)
LEMMA ArriveFacts ==
  ASSUME Settings, InTime, Facts, ~shared', NEW a \in AppIds, NEW conn \in Conns,
         NEW size \in Sizes, Arrive(a, conn, size)
  PROVE  Facts'
<1> DEFINE x == [id |-> nextId, app |-> a, conn |-> conn, size |-> size]
<1> DEFINE refill == credits[a] < size /\ Spare(threshold, outstanding)
<1> DEFINE c == IF refill THEN Full ELSE credits
<1>1. /\ calls = <<>> /\ nextId < MaxRequests /\ nextId' = nextId + 1
      /\ creditQueue' = [creditQueue EXCEPT ![a] = Append(@, x)]
      /\ calls' = (IF c[a] >= size THEN <<Drain, Arrived(x)>> ELSE <<>>)
      /\ UNCHANGED <<edf, late, outstanding, threshold, dispatched, unlocked, corrupted>>
  BY DEF Arrive, MutexFree
<1>2. \A y \in Live : y.conn # conn
  BY DEF Arrive, Live
<1>3. /\ creditQueue \in [AppIds -> Seq(Item)] /\ size \in Nat
      /\ nextId \in Nat /\ MaxRequests \in Nat
  BY DEF InTime, Types, Settings
<1>4. Apart /\ Counted /\ Named /\ LivePlaces /\ LivePlaces' /\ ~corrupted'
  BY <1>1, LiveItems DEF Facts
<1>5. x \in Item /\ x.id = nextId /\ x.app = a /\ x.conn = conn
  BY <1>3 DEF Item
<1>6. x \notin Live
  BY <1>3, <1>4, <1>5 DEF Named
<1> HIDE DEF x, c
<1>7. Range(calls') \subseteq {Drain, Arrived(x)}
  BY <1>1, <1>5, Frames, SmallStacks
<1>8. /\ creditQueue[a] \in Seq(Item) /\ creditQueue'[a] = Append(creditQueue[a], x)
      /\ \A b \in AppIds : b # a => creditQueue'[b] = creditQueue[b]
  BY <1>1, <1>3
<1>9. Range(creditQueue'[a]) = Range(creditQueue[a]) \cup {x}
  BY <1>5, <1>8, Join
<1>10. OnceEach(creditQueue'[a])
  <2>1. OnceEach(creditQueue[a]) /\ x \notin Range(creditQueue[a])
    BY <1>4, <1>6 DEF Apart, LivePlaces
  <2>. QED  BY <1>5, <1>8, <2>1, JoinOnce
<1>11. Live' = Live \cup {x}
  <2>1. \A y \in Live' : y \in Live \cup {x}
    BY <1>1, <1>4, <1>8, <1>9 DEF LivePlaces
  <2>2. \A y \in Live : y \in Live'
    BY <1>1, <1>4, <1>8, <1>9 DEF LivePlaces
  <2>3. x \in Live'
    BY <1>4, <1>9 DEF LivePlaces
  <2>. QED  BY <2>1, <2>2, <2>3
<1>12. Apart'
  <2> SUFFICES ASSUME NEW b \in AppIds
               PROVE  /\ OnceEach(creditQueue'[b])
                      /\ \A y \in Range(creditQueue'[b]) : y.app = b
                      /\ Range(creditQueue'[b]) \cap (Range(edf) \cup unlocked) = {}
    BY <1>1, <1>4 DEF Apart
  <2>1. CASE b = a
    BY <1>4, <1>5, <1>6, <1>9, <1>10, <2>1 DEF Apart, LivePlaces
  <2>2. CASE b # a
    BY <1>4, <1>8, <2>2 DEF Apart
  <2>. QED  BY <2>1, <2>2
<1>13. Counted'
  BY <1>1, <1>4 DEF Counted
<1>14. Named'
  <2>1. dispatched' \subseteq 0 .. nextId' - 1 /\ x.id \notin dispatched'
    BY <1>1, <1>3, <1>4, <1>5 DEF Named
  <2>2. x \notin unlocked'
    BY <1>1, <1>4, <1>6 DEF LivePlaces
  <2>3. \A y \in Live' : y.id \in 0 .. nextId' - 1
    BY <1>1, <1>3, <1>4, <1>5, <1>11 DEF Named
  <2>4. \A y \in Live' : y.id \in dispatched' <=> y \in unlocked'
    BY <1>1, <1>4, <1>11, <2>1, <2>2 DEF Named
  <2>5. \A y \in Live : y.id # x.id /\ y.conn # x.conn
    BY <1>2, <1>3, <1>4, <1>5 DEF Named
  <2>6. \A y, z \in Live' : y.id = z.id \/ y.conn = z.conn => y = z
    BY <1>4, <1>11, <2>5 DEF Named
  <2>. QED  BY <2>1, <2>3, <2>4, <2>6 DEF Named
<1>15. Answers'
  <2>1. x \in Live' /\ Arrived(x).op = "arrived" /\ Arrived(x).item = x
    BY <1>5, <1>11, Frames
  <2>. QED  BY <1>7, <2>1, Frames DEF Answers
<1>. QED  BY <1>4, <1>12, <1>13, <1>14, <1>15 DEF Facts

LEMMA ReplenishFacts ==
  ASSUME Settings, InTime, Facts, Replenish
  PROVE  Facts'
<1>1. \A f \in Range(calls') : f \in {Drain, Serve}
  BY Frames, SmallStacks DEF Replenish
<1>2. UNCHANGED <<creditQueue, edf, outstanding, dispatched, unlocked, nextId, corrupted>>
  BY DEF Replenish
<1>. QED  BY <1>1, <1>2, OtherFacts

LEMMA WindowFacts ==
  ASSUME Settings, InTime, Facts, NEW limit \in 1 .. Infinite, NEW overload \in BOOLEAN,
         Window(limit, overload)
  PROVE  Facts'
<1>1. calls' = (IF overload THEN <<Drain, Serve>> ELSE <<Serve>>)
  BY DEF Window
<1>2. \A f \in Range(calls') : f \in {Drain, Serve}
  BY <1>1, Frames, SmallStacks
<1>3. UNCHANGED <<creditQueue, edf, outstanding, dispatched, unlocked, nextId, corrupted>>
  BY DEF Window
<1>. QED  BY <1>2, <1>3, OtherFacts

LEMMA PassFacts ==
  ASSUME Settings, InTime, Facts, Pass
  PROVE  Facts'
<1>1. \A f \in Range(calls') : f \in {Drain, Serve}
  BY SmallStacks DEF Pass, MutexFree
<1>2. UNCHANGED <<creditQueue, edf, outstanding, dispatched, unlocked, nextId, corrupted>>
  BY DEF Pass
<1>. QED  BY <1>1, <1>2, OtherFacts

LEMMA InitExact ==
  ASSUME Settings, Init
  PROVE  Exact
<1>1. /\ edf = <<>> /\ outstanding = 0 /\ unlocked = {} /\ calls = <<>> /\ nextId = 0
      /\ creditQueue = [a \in AppIds |-> <<>>] /\ dispatched = {} /\ ~corrupted
  BY DEF Init
<1>2. Live = {}
  BY <1>1, LiveItems, SmallStacks DEF LivePlaces
<1>3. Apart
  BY <1>1, SmallStacks DEF Apart, OnceEach
<1>4. Counted
  BY <1>1, FS_EmptySet DEF Counted
<1>5. Named
  BY <1>1, <1>2 DEF Named
<1>6. Answers
  BY <1>1, SmallStacks DEF Answers
<1>. QED  BY <1>1, <1>3, <1>4, <1>5, <1>6 DEF Exact, Facts

LEMMA StepExact ==
  ASSUME Settings, InTime, Exact, [Next]_vars
  PROVE  Exact'
<1>1. ASSUME NEW a \in AppIds, NEW conn \in Conns, NEW size \in Sizes,
             Arrive(a, conn, size)
      PROVE  Exact'
  <2>1. ~shared' => ~shared
    BY <1>1 DEF Arrive
  <2>. QED  BY <1>1, <2>1, ArriveFacts DEF Exact
<1>2. ASSUME NEW a \in AppIds, Admit(a)
      PROVE  Exact'
  <2>1. shared' = shared
    BY <1>2 DEF Admit
  <2>. QED  BY <1>2, <2>1, AdmitFacts DEF Exact
<1>3. CASE EndEnqueue
  <2>1. shared' = shared
    BY <1>3 DEF EndEnqueue
  <2>. QED  BY <1>3, <2>1, EndEnqueueFacts DEF Exact
<1>4. CASE EndDrain
  <2>1. shared' = shared
    BY <1>4 DEF EndDrain
  <2>. QED  BY <1>4, <2>1, EndDrainFacts DEF Exact
<1>5. CASE EndArrive
  <2>1. shared' = shared
    BY <1>5 DEF EndArrive
  <2>. QED  BY <1>5, <2>1, EndArriveFacts DEF Exact
<1>6. CASE ServeEdf
  <2>1. shared' = shared
    BY <1>6 DEF ServeEdf
  <2>. QED  BY <1>6, <2>1, ServeEdfFacts DEF Exact
<1>7. ASSUME NEW x \in unlocked, Complete(x)
      PROVE  Exact'
  <2>1. shared' = shared
    BY <1>7 DEF Complete
  <2>. QED  BY <1>7, <2>1, CompleteFacts DEF Exact
<1>8. CASE Replenish
  <2>1. shared' = shared
    BY <1>8 DEF Replenish
  <2>. QED  BY <1>8, <2>1, ReplenishFacts DEF Exact
<1>9. ASSUME NEW limit \in 1 .. Infinite, NEW overload \in BOOLEAN,
             Window(limit, overload)
      PROVE  Exact'
  <2>1. shared' = shared
    BY <1>9 DEF Window
  <2>. QED  BY <1>9, <2>1, WindowFacts DEF Exact
<1>10. CASE Pass
  <2>1. shared' = shared
    BY <1>10 DEF Pass
  <2>. QED  BY <1>10, <2>1, PassFacts DEF Exact
<1>11. CASE UNCHANGED vars
  <2>1. shared' = shared
    BY <1>11 DEF vars
  <2>2. ASSUME Facts PROVE Facts'
    <3>1. /\ ~corrupted' /\ late' = late /\ threshold' = threshold /\ calls' = calls
          /\ UNCHANGED <<creditQueue, edf, outstanding, dispatched, unlocked, nextId>>
      BY <1>11, <2>2 DEF vars, Facts
    <3>. QED  BY <2>2, <3>1, Untouched
  <2>. QED  BY <2>1, <2>2 DEF Exact
<1>. QED  BY <1>1, <1>2, <1>3, <1>4, <1>5, <1>6, <1>7, <1>8, <1>9, <1>10, <1>11
          DEF Next, Work

(* With clients that have one request at a time, the length of the         *)
(* server's queue is the number of requests let go and not answered, and   *)
(* no item of an answered request stays in the queue                       *)
(* (scheduler_2LSFQD.c:731 finds the answer by connection).                *)
THEOREM CountedWhenLetGo ==
  ASSUME Settings
  PROVE  Spec => []LetGoCounted
<1>1. Init => InTime /\ Exact
  BY InitInTime, InitExact
<1>2. InTime /\ Exact /\ [Next]_vars => (InTime /\ Exact)'
  BY StepInTime, StepExact
<1>3. InTime /\ Exact => LetGoCounted
  <2> SUFFICES ASSUME InTime, Facts
               PROVE  LetGoCounted
    BY DEF Exact, LetGoCounted
  <2>1. Waiting \cap unlocked = {}
    BY DEF Facts, Apart, Waiting
  <2>. QED  BY <2>1 DEF LetGoCounted, Facts, Counted
<1>. QED  BY <1>1, <1>2, <1>3, PTL DEF Spec

=============================================================================
