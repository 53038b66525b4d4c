---------------------------- MODULE Proxy_proofs ----------------------------
(***************************************************************************)
(* Proofs about Proxy and the scheduler it drives, for all connections,    *)
(* applications, tags, transfer sizes and depths, with clients that        *)
(* disconnect.                                                             *)
(*                                                                         *)
(* First, what follows from the promise of module Dispatcher, and that     *)
(* every step of the message loop uses the scheduler through its           *)
(* interface, so that the promise holds in the proxy, whether answers come *)
(* in pieces or not.  Then an inductive invariant IInv of the loop: what   *)
(* the states on the lists of a connection are, seen from how far the      *)
(* peers are with the call of their tag (MsgOK, AllThere), how they stand  *)
(* to the two pointers (Ranked, Pointed, SentInOrder), and which items of  *)
(* the scheduler they have (Booked).  Under Scope, every step keeps it;    *)
(* it implies the safety properties of Proxy.                              *)
(***************************************************************************)
EXTENDS Proxy, FiniteSetTheorems, WellFoundedInduction, TLAPS

(* Every request has its own id, smaller than those still to come. *)
Known ==
  /\ waiting \subseteq Sched!Request /\ serving \subseteq Sched!Request /\ arrived \in Nat
  /\ \A r \in waiting \cup serving : r.id < arrived
  /\ \A r, s \in waiting \cup serving : r.id = s.id => r = s
  /\ waiting \cap serving = {}

(* No more slots are used than there are, and all when something waits. *)
SlotsUsed ==
  /\ IsFiniteSet(serving) /\ Cardinality(serving) <= Depth
  /\ waiting # {} => Cardinality(serving) = Depth

(* Nothing that waits is older than what its application has at the server. *)
OwnOrder == \A r \in serving, s \in waiting : r.app = s.app => r.id < s.id

(* The three together. *)
Inv == Known /\ SlotsUsed /\ OwnOrder

(* Initially nothing has come. *)
LEMMA InitInv ==
  ASSUME Depth \in Nat, Sched!Init
  PROVE  Inv
<1>1. waiting = {} /\ serving = {} /\ arrived = 0
  BY DEF Sched!Init
<1>2. IsFiniteSet(serving) /\ Cardinality(serving) = 0
  BY <1>1, FS_EmptySet
<1>. QED  BY <1>1, <1>2 DEF Inv, Known, SlotsUsed, OwnOrder

(* The cardinality Dispatcher counts with is that of the library. *)
LEMMA SameCardinality ==
  ASSUME NEW S PROVE Sched!Cardinality(S) = Cardinality(S)
BY DEF Sched!Cardinality, Cardinality, Sched!IsFiniteSet, IsFiniteSet

(* A request is released as it comes. *)
LEMMA ReleaseInv ==
  ASSUME Depth \in Nat, Inv, NEW a \in Apps, Sched!Release(a)
  PROVE  Inv'
<1> DEFINE r == [id |-> arrived, app |-> a]
<1>1. /\ Cardinality(serving) < Depth /\ serving' = serving \cup {r}
      /\ arrived' = arrived + 1 /\ waiting' = waiting
  BY SameCardinality DEF Sched!Release
<1>2. Known /\ SlotsUsed /\ arrived \in Nat
  BY DEF Inv, Known
<1>3. r \in Sched!Request /\ r.id = arrived
  BY <1>2 DEF Sched!Request
<1>4. IsFiniteSet(serving) /\ Cardinality(serving) \in Nat
  BY <1>2, FS_CardinalityType DEF SlotsUsed
<1>5. waiting = {}
  BY <1>1, <1>2, <1>4 DEF SlotsUsed
<1> HIDE DEF r
<1>6. IsFiniteSet(serving') /\ Cardinality(serving') <= Cardinality(serving) + 1
  BY <1>1, <1>4, FS_AddElement
<1>7. Cardinality(serving') \in Nat
  BY <1>6, FS_CardinalityType
<1>8. Known'
  <2>1. \A s \in waiting' \cup serving' : s = r \/ (s \in waiting \cup serving /\ s.id \in Nat)
    BY <1>1, <1>2 DEF Known, Sched!Request
  <2>. QED  BY <1>1, <1>2, <1>3, <1>5, <2>1 DEF Known
<1>9. SlotsUsed'
  BY <1>1, <1>4, <1>5, <1>6, <1>7 DEF SlotsUsed
<1>10. OwnOrder'
  BY <1>1, <1>5 DEF OwnOrder
<1>. QED  BY <1>8, <1>9, <1>10 DEF Inv

(* A request is held back. *)
LEMMA HoldInv ==
  ASSUME Depth \in Nat, Inv, NEW a \in Apps, Sched!Hold(a)
  PROVE  Inv'
<1> DEFINE r == [id |-> arrived, app |-> a]
<1>1. /\ Cardinality(serving) = Depth /\ waiting' = waiting \cup {r}
      /\ arrived' = arrived + 1 /\ serving' = serving
  BY SameCardinality DEF Sched!Hold
<1>2. Known /\ SlotsUsed /\ OwnOrder /\ arrived \in Nat
  BY DEF Inv, Known
<1>3. r \in Sched!Request /\ r.id = arrived
  BY <1>2 DEF Sched!Request
<1> HIDE DEF r
<1>4. \A s \in waiting' \cup serving' : s = r \/ (s \in waiting \cup serving /\ s.id \in Nat)
  BY <1>1, <1>2 DEF Known, Sched!Request
<1>5. Known'
  BY <1>1, <1>2, <1>3, <1>4 DEF Known
<1>6. SlotsUsed'
  BY <1>1, <1>2 DEF SlotsUsed
<1>7. OwnOrder'
  BY <1>1, <1>2, <1>3 DEF OwnOrder, Known
<1>. QED  BY <1>5, <1>6, <1>7 DEF Inv

(* A completion passes its slot on. *)
LEMMA HandOverInv ==
  ASSUME Depth \in Nat, Inv, NEW r \in serving, Sched!HandOver(r)
  PROVE  Inv'
<1>1. PICK next \in waiting :
        /\ Sched!OldestOfApp(next) /\ waiting' = waiting \ {next}
        /\ serving' = (serving \ {r}) \cup {next}
  BY DEF Sched!HandOver
<1>2. Known /\ SlotsUsed /\ OwnOrder /\ arrived' = arrived /\ arrived \in Nat
  BY DEF Inv, Known, Sched!HandOver
<1>3. Known'
  BY <1>1, <1>2 DEF Known
<1>4. SlotsUsed'
  <2> DEFINE rest == serving \ {r}
  <2>1. IsFiniteSet(rest) /\ Cardinality(rest) = Depth - 1
    BY <1>1, <1>2, FS_RemoveElement DEF SlotsUsed
  <2>2. next \notin rest /\ serving' = rest \cup {next}
    BY <1>1, <1>2 DEF Known
  <2> HIDE DEF rest
  <2>3. IsFiniteSet(serving') /\ Cardinality(serving') = Depth - 1 + 1
    BY <2>1, <2>2, FS_AddElement
  <2>. QED  BY <2>3 DEF SlotsUsed
<1>5. OwnOrder'
  <2> SUFFICES ASSUME NEW t \in serving', NEW s \in waiting', t.app = s.app
               PROVE  t.id < s.id
    BY DEF OwnOrder
  <2>1. CASE t = next
    <3>1. next.id <= s.id
      BY <1>1, <2>1 DEF Sched!OldestOfApp
    <3>2. next.id # s.id /\ next.id \in Nat /\ s.id \in Nat
      BY <1>1, <1>2 DEF Known, Sched!Request
    <3>. QED  BY <2>1, <3>1, <3>2
  <2>2. CASE t # next
    BY <1>1, <1>2, <2>2 DEF OwnOrder
  <2>. QED  BY <2>1, <2>2
<1>. QED  BY <1>3, <1>4, <1>5 DEF Inv

(* A completion frees its slot. *)
LEMMA FreeInv ==
  ASSUME Depth \in Nat, Inv, NEW r \in serving, Sched!Free(r)
  PROVE  Inv'
<1>1. /\ waiting = {} /\ serving' = serving \ {r}
      /\ waiting' = waiting /\ arrived' = arrived
  BY DEF Sched!Free
<1>2. Known /\ SlotsUsed
  BY DEF Inv
<1>3. Known'
  BY <1>1, <1>2 DEF Known
<1>4. SlotsUsed'
  <2>1. IsFiniteSet(serving') /\ Cardinality(serving') = Cardinality(serving) - 1
    BY <1>1, <1>2, FS_RemoveElement DEF SlotsUsed
  <2>2. Cardinality(serving) \in Nat
    BY <1>2, FS_CardinalityType DEF SlotsUsed
  <2>. QED  BY <1>1, <1>2, <2>1, <2>2 DEF SlotsUsed
<1>5. OwnOrder'
  BY <1>1 DEF OwnOrder
<1>. QED  BY <1>3, <1>4, <1>5 DEF Inv

(* What Dispatcher promises keeps the three. *)
LEMMA Invariance ==
  ASSUME Depth \in Nat
  PROVE  Sched!Spec => []Inv
<1>1. Sched!Init => Inv
  BY InitInv
<1>2. Inv /\ [Sched!Next]_(Sched!vars) => Inv'
  <2> SUFFICES ASSUME Inv, [Sched!Next]_(Sched!vars)
               PROVE  Inv'
    OBVIOUS
  <2>1. ASSUME NEW a \in Apps, Sched!Release(a)
        PROVE  Inv'
    BY <2>1, ReleaseInv
  <2>2. ASSUME NEW a \in Apps, Sched!Hold(a)
        PROVE  Inv'
    BY <2>2, HoldInv
  <2>3. ASSUME NEW r \in serving, Sched!HandOver(r)
        PROVE  Inv'
    BY <2>3, HandOverInv
  <2>4. ASSUME NEW r \in serving, Sched!Free(r)
        PROVE  Inv'
    BY <2>4, FreeInv
  <2>5. CASE UNCHANGED Sched!vars
    BY <2>5 DEF Sched!vars, Inv, Known, SlotsUsed, OwnOrder
  <2>. QED  BY <2>1, <2>2, <2>3, <2>4, <2>5 DEF Sched!Next
<1>. QED  BY <1>1, <1>2, PTL DEF Sched!Spec

-----------------------------------------------------------------------------
(* The message loop uses the interface *)

(* A completion calls the scheduler for a request it serves. *)
LEMMA CompleteUses ==
  ASSUME NEW c, NEW t, NEW lists, Complete(c, t, lists)
  PROVE  (\E r \in serving : Sched!HandOver(r) \/ Sched!Free(r)) \/ UNCHANGED scheduler
BY DEF Complete

(* So does the last data message of a read. *)
LEMMA FlowReadUses ==
  ASSUME NEW c, NEW name, NEW lists, FlowRead(c, name, lists)
  PROVE  (\E r \in serving : Sched!HandOver(r) \/ Sched!Free(r)) \/ UNCHANGED scheduler
BY CompleteUses DEF FlowRead

(* Whatever is read, the scheduler is called as it expects. *)
LEMMA ReceiveUses ==
  ASSUME NEW c, Receive(c)
  PROVE  (\E r \in serving : Sched!HandOver(r) \/ Sched!Free(r)) \/ UNCHANGED scheduler
<1>1. ASSUME NEW t, NEW units, RecvClientFlow(c, t, units)
      PROVE  UNCHANGED scheduler
  BY <1>1 DEF RecvClientFlow
<1>2. ASSUME NEW t, NEW units, RecvServerFlow(c, t, units)
      PROVE  (\E r \in serving : Sched!HandOver(r) \/ Sched!Free(r)) \/ UNCHANGED scheduler
  BY <1>2, FlowReadUses DEF RecvServerFlow
<1>3. ASSUME NEW t, NEW whole, RecvAnswer(c, t, whole)
      PROVE  (\E r \in serving : Sched!HandOver(r) \/ Sched!Free(r)) \/ UNCHANGED scheduler
  BY <1>3, CompleteUses DEF RecvAnswer
<1>4. ASSUME NEW t, NEW whole, RecvWriteCompletion(c, t, whole)
      PROVE  (\E r \in serving : Sched!HandOver(r) \/ Sched!Free(r)) \/ UNCHANGED scheduler
  BY <1>4, CompleteUses DEF RecvWriteCompletion
<1>5. CASE RecvClientRest(c)
  BY <1>5 DEF RecvClientRest
<1>6. CASE RecvServerRest(c)
  BY <1>6, FlowReadUses DEF RecvServerRest
<1>. QED  BY <1>1, <1>2, <1>3, <1>4, <1>5, <1>6 DEF Receive

(* Only connections of the model are in the pool. *)
Pool == open \subseteq Conns

(* Every step of the loop is a step of the scheduler or leaves it alone. *)
LEMMA StepUses ==
  ASSUME Pool, [Next]_vars
  PROVE  [Sched!Next]_(Sched!vars) /\ Pool'
<1>1. AppOf \in [Conns -> Apps]
  BY ProxyAssumption
<1>2. ASSUME NEW c \in open, Receive(c)
      PROVE  [Sched!Next]_(Sched!vars) /\ Pool'
  <2>1. [Sched!Next]_(Sched!vars)
    BY <1>2, ReceiveUses DEF Sched!Next, Sched!vars, scheduler
  <2>2. ASSUME NEW t, NEW units, RecvClientFlow(c, t, units) \/ RecvServerFlow(c, t, units)
        PROVE  open' = open
    <3>1. CASE RecvClientFlow(c, t, units)
      BY <3>1 DEF RecvClientFlow
    <3>2. CASE RecvServerFlow(c, t, units)
      BY <3>2 DEF RecvServerFlow
    <3>. QED  BY <2>2, <3>1, <3>2
  <2>3. ASSUME NEW t, NEW whole, RecvAnswer(c, t, whole) \/ RecvWriteCompletion(c, t, whole)
        PROVE  open' = open
    <3>1. CASE RecvAnswer(c, t, whole)
      BY <3>1 DEF RecvAnswer
    <3>2. CASE RecvWriteCompletion(c, t, whole)
      BY <3>2 DEF RecvWriteCompletion
    <3>. QED  BY <2>3, <3>1, <3>2
  <2>4. ASSUME RecvClientRest(c)
        PROVE  open' = open
    BY <2>4 DEF RecvClientRest
  <2>5. ASSUME RecvServerRest(c)
        PROVE  open' = open
    BY <2>5 DEF RecvServerRest
  <2>6. open' = open
    BY <1>2, <2>2, <2>3, <2>4, <2>5 DEF Receive
  <2>. QED  BY <2>1, <2>6 DEF Pool
<1>3. ASSUME NEW c \in open, NEW w \in Way, Send(w, c)
      PROVE  [Sched!Next]_(Sched!vars) /\ Pool'
  BY <1>3 DEF Send, Pool, SendPart, scheduler, Sched!vars
<1>4. CASE PrepareEvents
  BY <1>4 DEF PrepareEvents, Pool, scheduler, Sched!vars
<1>5. ASSUME NEW c \in open, NEW t \in Tags, NEW kind \in Kinds, NEW share \in Shares,
             RecvRequest(c, t, kind, share)
      PROVE  [Sched!Next]_(Sched!vars) /\ Pool'
  <2>1. AppOf[c] \in Apps /\ open' = open
    BY <1>1, <1>5 DEF Pool, RecvRequest
  <2>2. Sched!Release(AppOf[c]) \/ Sched!Hold(AppOf[c]) \/ UNCHANGED scheduler
    BY <1>5 DEF RecvRequest
  <2>. QED  BY <2>1, <2>2 DEF Pool, Sched!Next, Sched!vars, scheduler
<1>6. ASSUME NEW c \in open, Close(c)
      PROVE  [Sched!Next]_(Sched!vars) /\ Pool'
  BY <1>6 DEF Close, Pool, scheduler, Sched!vars
<1>7. CASE UNCHANGED vars
  BY <1>7 DEF vars, Pool, scheduler, Sched!vars
<1>. QED  BY <1>2, <1>3, <1>4, <1>5, <1>6, <1>7 DEF Next, Progress, Client

(* What a request state, a name of one and a call may be. *)
StateType ==
  [tag : Tags, rank : Nat, op : AllKinds \cup {"flow", "completion"},
   size : Nat, tail : Nat, head : Nat, locked : BOOLEAN, final : BOOLEAN,
   item : Int, got : Nat]
NameType == {Nil} \cup (Tags \X Nat)
CallType ==
  [kind : AllKinds \cup {"none"}, begun : Nat, landed : Nat, share : Nat,
   stage : {"none", "asked", "served", "replied", "granted", "over"}]

(* The first answer to call k is the only one. *)
OneAnswer(k) ==
  k.kind \in {"meta", "other", "small"} \/ (k.kind = "read" /\ k.share = 0)

(* How far call k can be. *)
CallOK(k) ==
  \/ k = NoCall
  \/ /\ k.kind \in Kinds /\ k.stage # "none"
     /\ k.landed <= k.begun /\ k.begun <= k.share
     /\ k.stage = "granted" => k.kind = "write"
     /\ k.stage = "replied" => ~OneAnswer(k)
     /\ k.kind = "read" =>
          CASE k.stage = "over"    -> k.begun = k.share
            [] k.stage = "replied" -> k.begun < k.share
            [] OTHER               -> k.begun = 0
     /\ k.kind = "write" =>
          CASE k.stage = "over"    -> k.landed = k.share
            [] k.stage = "granted" -> TRUE
            [] OTHER               -> k.begun = 0
     /\ k.kind \notin {"read", "write"} => k.share = 0

(* A data message of call k; r names the message being read. *)
FlowOK(m, k) ==
  /\ m.op = "flow" /\ m.size = FlowUnits /\ m.tail > 0
  /\ m.head = m.size <=> m.rank <= k.landed

(* A message from the client, of call k. *)
UpOK(m, k) ==
  /\ ~m.final /\ m.item >= -1
  /\ IF m.rank = 0
     THEN /\ m.op = k.kind /\ m.size = 1 /\ m.tail = 1
          /\ m.head = 0 <=> k.stage = "asked"
          /\ m.got = IF k.kind = "read" THEN k.begun ELSE 0
          /\ m.item >= 0 <=> Scheduled(k.kind)
          /\ m.locked => m.head = 0 /\ m.item >= 0
     ELSE /\ k.kind = "write" /\ m.rank <= k.begun /\ FlowOK(m, k)
          /\ m.item = -1 /\ ~m.locked

(* A message from the server, of call k, while r is being read. *)
DownOK(m, k, r) ==
  /\ m.item = -1 /\ ~m.locked
  /\ IF m.rank = 0
     THEN /\ m.op = k.kind /\ m.tail = m.size
          /\ m.size = IF k.stage \in {"asked", "served"} THEN 0 ELSE 1
          /\ m.final <=> m.size = 1 /\ OneAnswer(k)
     ELSE \/ /\ k.kind = "read" /\ FlowOK(m, k)
             /\ m.rank <= k.begun \/ (r = Name(m) /\ k.stage = "replied")
             /\ m.final <=> m.rank = k.share /\ m.tail = m.size
          \/ /\ k.kind = "write" /\ k.stage = "over"
             /\ m.rank = 1 /\ m.op = "completion" /\ m.size = 1 /\ m.tail = 1
             /\ m.final

(* Message m on way w, while r is being read and d is being sent. *)
MsgOK(w, m, k, r, d) ==
  /\ k # NoCall
  /\ m.head <= m.tail /\ m.tail <= m.size
  /\ m.tail < m.size <=> r = Name(m)
  /\ 0 < m.head /\ m.head < m.size => d = Name(m)
  /\ d = Name(m) => m.head < m.size /\ ~m.locked
  /\ r = Name(m) => m.rank = IF w = "up" THEN k.begun ELSE k.begun + 1
  /\ IF w = "up" THEN UpOK(m, k) ELSE DownOK(m, k, r)

(* The rank of the last message of call k that has been read in full (down) *)
(* or has been begun (up). *)
Top(w, k) ==
  CASE w = "up" /\ k.kind = "write" -> k.begun
    [] w = "down" /\ k.kind = "read" -> k.begun
    [] w = "down" /\ k.kind = "write" /\ k.stage = "over" -> 1
    [] OTHER -> 0

(* A list has a state of this name; a message has begun to leave. *)
Has(s, name) == \E i \in DOMAIN s : Name(s[i]) = name
Begun(m, d) == m.head > 0 \/ d = Name(m)

(* One list with its pointers. *)
Ranked(s) ==
  \A i, j \in DOMAIN s : i < j /\ s[i].tag = s[j].tag => s[i].rank < s[j].rank
(* Every message fits its call; every rank up to the top one is there; the *)
(* pointers are names of states; what has begun follows what has gone.     *)
MsgsOK(w, s, k, r, d) == \A i \in DOMAIN s : MsgOK(w, s[i], k[s[i].tag], r, d)
AllThere(w, s, k) ==
  \A t \in Tags : k[t] # NoCall =>
    \A n \in Nat : n <= Top(w, k[t]) => Has(s, <<t, n>>)
Pointed(s, r, d) == (r # Nil => Has(s, r)) /\ (d # Nil => Has(s, d))
SentInOrder(s, d) ==
  \A i, j \in DOMAIN s :
    i < j /\ s[i].tag = s[j].tag /\ Begun(s[j], d) => s[i].head = s[i].size

Side(w, s, k, r, d) ==
  /\ Ranked(s) /\ MsgsOK(w, s, k, r, d) /\ AllThere(w, s, k)
  /\ Pointed(s, r, d) /\ SentInOrder(s, d)

(* The client sides U of all connections and their calls k, with what the   *)
(* scheduler has: W waiting, S serving, n arrived; o is the pool.           *)
ItemsKnown(U, k, W, S, n) ==
  \A c \in Conns : \A i \in DOMAIN U[c] : U[c][i].item >= 0 =>
    /\ U[c][i].item < n
    /\ U[c][i].locked => Item(U[c][i], c) \in W
    /\ ~U[c][i].locked /\ k[c][U[c][i].tag].stage # "over" => Item(U[c][i], c) \in S
ItemsUnique(U) ==
  \A c, d \in Conns : \A i \in DOMAIN U[c], j \in DOMAIN U[d] :
    U[c][i].item >= 0 /\ U[c][i].item = U[d][j].item => c = d /\ i = j
WaitersKnown(U, W) ==
  \A q \in W : \E c \in Conns : \E i \in DOMAIN U[c] :
    U[c][i].locked /\ Item(U[c][i], c) = q
ServedKnown(U, k, S) ==
  \A q \in S : \E c \in Conns : \E i \in DOMAIN U[c] :
    /\ ~U[c][i].locked /\ k[c][U[c][i].tag].stage # "over"
    /\ Item(U[c][i], c) = q
Booked(U, k, W, S, n, o) ==
  /\ ItemsKnown(U, k, W, S, n) /\ ItemsUnique(U)
  /\ o = Conns => WaitersKnown(U, W) /\ ServedKnown(U, k, S)

(* The kinds of the state functions. *)
Typed ==
  /\ list \in [Way -> [Conns -> Seq(StateType)]]
  /\ recv \in [Way -> [Conns -> NameType]] /\ send \in [Way -> [Conns -> NameType]]
  /\ call \in [Conns -> [Tags -> CallType]]
  /\ incomplete = [c \in Conns |-> FALSE] /\ open \subseteq Conns /\ fault \in BOOLEAN

(* The invariants of the calls, of all lists, and of the scheduler's       *)
(* requests.                                                               *)
CallsOK == \A c \in Conns, t \in Tags : CallOK(call[c][t])
SidesOK == \A w \in Way, c \in Conns : Side(w, list[w][c], call[c], recv[w][c], send[w][c])
BookedOK == Booked(list.up, call, waiting, serving, arrived, open)

(* The inductive invariant. *)
IInv ==
  /\ Typed /\ CallsOK /\ SidesOK /\ BookedOK /\ NoFault
  /\ \A c \in Conns \ open, t \in Tags : call[c][t] = NoCall
  /\ arrived <= MaxRequests
-----------------------------------------------------------------------------
(* The operators on lists *)

(* A set of naturals that is not empty has a least element. *)
LEMMA LeastNatural ==
  ASSUME NEW S \in SUBSET Nat, S # {}
  PROVE  \E m \in S : \A n \in S : m <= n
<1> DEFINE Less == {p \in Nat \X Nat : p[1] < p[2]}
<1>1. IsWellFoundedOn(Less, Nat)
  BY NatLessThanWellFounded DEF OpToRel
<1>2. PICK m \in S : \A n \in S : <<n, m>> \notin Less
  <2> HIDE DEF Less
  <2>. QED  BY <1>1, WFMin
<1>3. \A n \in S : n \in Nat
  OBVIOUS
<1>4. \A n \in S : ~(n < m)
  BY <1>2, <1>3
<1>. QED  BY <1>3, <1>4

(* The elements of a sequence over R are in R. *)
LEMMA ElementOfSeq ==
  ASSUME NEW R, NEW s \in Seq(R), NEW i \in DOMAIN s
  PROVE  s[i] \in R
OBVIOUS

(* A set with 0 that is closed under successor has every natural. *)
LEMMA Induction ==
  ASSUME NEW S, 0 \in S, \A n \in Nat : n \in S => n + 1 \in S
  PROVE  Nat \subseteq S
<1> SUFFICES ASSUME Nat \ S # {}
             PROVE  FALSE
  OBVIOUS
<1>1. PICK m \in Nat \ S : \A n \in Nat \ S : m <= n
  BY LeastNatural
<1>2. m - 1 \in Nat /\ m - 1 \in S
  BY <1>1
<1>. QED  BY <1>1, <1>2

(* The n-th position of a set of positions is there, and is the n-th. *)
LEMMA NthPosition ==
  ASSUME NEW L \in Nat, NEW kept, \A i \in kept : i \in 1 .. L, NEW n \in 1 .. Cardinality(kept)
  PROVE  /\ Nth(n, kept) \in kept
         /\ Cardinality({j \in kept : j <= Nth(n, kept)}) = n
<1> DEFINE Below(k) == {j \in kept : j <= k}
           Found(k) == \A q \in 1 .. Cardinality(Below(k)) :
                         \E i \in kept : Cardinality(Below(i)) = q
<1>0. \A i \in kept : i \in Nat /\ 1 <= i /\ i <= L
  OBVIOUS
<1>1. \A k \in Nat : IsFiniteSet(Below(k)) /\ Cardinality(Below(k)) \in Nat
  <2>1. IsFiniteSet(1 .. L)
    BY FS_Interval
  <2>2. \A k \in Nat : Below(k) \in SUBSET (1 .. L)
    OBVIOUS
  <2> HIDE DEF Below
  <2>. QED  BY <2>1, <2>2, FS_Subset, FS_CardinalityType
<1>2. Found(0)
  <2>1. Below(0) = {}
    BY <1>0
  <2>2. Cardinality(Below(0)) = 0
    BY <2>1, FS_EmptySet
  <2> HIDE DEF Below
  <2>. QED  BY <2>2
<1>3. \A k \in Nat : Found(k) => Found(k + 1)
  <2> SUFFICES ASSUME NEW k \in Nat, Found(k), NEW q \in 1 .. Cardinality(Below(k + 1))
               PROVE  \E i \in kept : Cardinality(Below(i)) = q
    OBVIOUS
  <2>1. CASE k + 1 \notin kept
    <3>1. Below(k + 1) = Below(k)
      BY <2>1, <1>0
    <3>. QED  BY <3>1
  <2>2. CASE k + 1 \in kept
    <3>1. Below(k + 1) = Below(k) \cup {k + 1} /\ k + 1 \notin Below(k)
      BY <2>2, <1>0
    <3>2. Cardinality(Below(k + 1)) = Cardinality(Below(k)) + 1
      <4> HIDE DEF Below
      <4>. QED  BY <1>1, <3>1, FS_AddElement
    <3>3. q \in 1 .. Cardinality(Below(k)) \/ q = Cardinality(Below(k + 1))
      <4> HIDE DEF Below
      <4>. QED  BY <1>1, <3>2
    <3>. QED  BY <2>2, <3>3
  <2>. QED  BY <2>1, <2>2
<1>4. Found(L)
  <2> DEFINE S == {k \in Nat : Found(k)}
  <2> HIDE DEF Found
  <2>1. 0 \in S /\ \A k \in Nat : k \in S => k + 1 \in S
    BY <1>2, <1>3
  <2> HIDE DEF S
  <2>2. Nat \subseteq S
    BY <2>1, Induction
  <2>. QED  BY <2>2 DEF S
<1>5. Below(L) = kept
  BY <1>0
<1>6. \E i \in kept : Cardinality(Below(i)) = n
  BY <1>4, <1>5
<1>. QED  BY <1>6 DEF Nth

(* A greater position has more positions up to it. *)
LEMMA SmallerFirst ==
  ASSUME NEW L \in Nat, NEW kept, \A i \in kept : i \in 1 .. L, NEW i \in kept, NEW j \in kept, i < j
  PROVE  Cardinality({n \in kept : n <= i}) < Cardinality({n \in kept : n <= j})
<1> DEFINE A == {n \in kept : n <= i}
           B == {n \in kept : n <= j}
<1>0. \A n \in kept : n \in Nat
  OBVIOUS
<1>3. \A n \in kept : n <= i => n <= j
  BY <1>0
<1>1. A \subseteq B /\ j \in B /\ j \notin A
  BY <1>0, <1>3
<1>2. IsFiniteSet(B)
  <2>1. IsFiniteSet(1 .. L) /\ B \in SUBSET (1 .. L)
    BY FS_Interval
  <2> HIDE DEF B
  <2>. QED  BY <2>1, FS_Subset
<1> HIDE DEF A, B
<1>4. IsFiniteSet(A) /\ Cardinality(A) <= Cardinality(B) /\ Cardinality(A) # Cardinality(B)
  BY <1>1, <1>2, FS_Subset
<1>. QED  BY <1>2, <1>4, FS_CardinalityType DEF A, B

(* Counted from the front, the positions kept are in their order, and all  *)
(* of them are counted.                                                    *)
LEMMA Positions ==
  ASSUME NEW L \in Nat, NEW kept, \A i \in kept : i \in 1 .. L
  PROVE  /\ Cardinality(kept) \in Nat
         /\ \A n \in 1 .. Cardinality(kept) : Nth(n, kept) \in kept
         /\ \A m, n \in 1 .. Cardinality(kept) : m < n => Nth(m, kept) < Nth(n, kept)
         /\ \A i \in kept : \E n \in 1 .. Cardinality(kept) : Nth(n, kept) = i
<1> DEFINE Below(i) == {j \in kept : j <= i}
           p(n) == Nth(n, kept)
<1>1. IsFiniteSet(kept) /\ Cardinality(kept) \in Nat
  <2>1. IsFiniteSet(1 .. L) /\ kept \in SUBSET (1 .. L)
    BY FS_Interval
  <2>2. IsFiniteSet(kept)
    BY <2>1, FS_Subset
  <2>. QED  BY <2>2, FS_CardinalityType
<1>2. \A n \in 1 .. Cardinality(kept) : p(n) \in kept /\ Cardinality(Below(p(n))) = n
  BY NthPosition
<1>3. \A i, j \in kept : i < j => Cardinality(Below(i)) < Cardinality(Below(j))
  BY SmallerFirst
<1>4. \A i, j \in kept : i < j \/ i = j \/ j < i
  OBVIOUS
<1>5. \A i \in kept : Cardinality(Below(i)) \in 1 .. Cardinality(kept)
  <2> SUFFICES ASSUME NEW i \in kept
               PROVE  Cardinality(Below(i)) \in 1 .. Cardinality(kept)
    OBVIOUS
  <2>1. Below(i) \in SUBSET kept /\ i \in Below(i)
    OBVIOUS
  <2> HIDE DEF Below
  <2>2. IsFiniteSet(Below(i)) /\ Cardinality(Below(i)) <= Cardinality(kept)
    BY <1>1, <2>1, FS_Subset
  <2>3. Cardinality(Below(i)) \in Nat /\ Cardinality(Below(i)) # 0
    BY <2>2, <2>1, FS_EmptySet, FS_CardinalityType
  <2>. QED  BY <1>1, <2>2, <2>3
<1> HIDE DEF Below, p
<1>6. \A m, n \in 1 .. Cardinality(kept) : m < n => p(m) < p(n)
  <2> SUFFICES ASSUME NEW m \in 1 .. Cardinality(kept), NEW n \in 1 .. Cardinality(kept),
                      m < n, ~(p(m) < p(n))
               PROVE  FALSE
    OBVIOUS
  <2>1. Cardinality(Below(p(m))) = m /\ Cardinality(Below(p(n))) = n
    BY <1>2
  <2>2. p(m) = p(n) \/ Cardinality(Below(p(n))) < Cardinality(Below(p(m)))
    BY <1>2, <1>3, <1>4
  <2>. QED  BY <2>1, <2>2
<1>7. \A i \in kept : \E n \in 1 .. Cardinality(kept) : p(n) = i
  <2> SUFFICES ASSUME NEW i \in kept
               PROVE  p(Cardinality(Below(i))) = i
    BY <1>5
  <2>1. /\ p(Cardinality(Below(i))) \in kept
        /\ Cardinality(Below(p(Cardinality(Below(i))))) = Cardinality(Below(i))
    BY <1>2, <1>5
  <2>2. Cardinality(Below(i)) \in Nat
    BY <1>5
  <2>3. ~(Cardinality(Below(i)) < Cardinality(Below(i)))
    BY <2>2
  <2>. QED  BY <2>1, <2>3, <1>3, <1>4
<1>. QED  BY <1>1, <1>2, <1>6, <1>7 DEF p

(* Without(t, s) has the request states of the other tags, in their order. *)
LEMMA WithoutTag ==
  ASSUME NEW t, NEW R, NEW s \in Seq(R)
  PROVE  /\ Without(t, s) \in Seq(R)
         /\ \E p \in [DOMAIN Without(t, s) -> DOMAIN s] :
              /\ \A n \in DOMAIN Without(t, s) : Without(t, s)[n] = s[p[n]] /\ s[p[n]].tag # t
              /\ \A m, n \in DOMAIN Without(t, s) : m < n => p[m] < p[n]
              /\ \A i \in DOMAIN s : s[i].tag # t =>
                   \E n \in DOMAIN Without(t, s) : p[n] = i
<1> DEFINE kept == {i \in DOMAIN s : s[i].tag # t}
           size == Cardinality(kept)
           p == [n \in 1 .. size |-> Nth(n, kept)]
<1>1. Len(s) \in Nat /\ (\A i \in kept : i \in 1 .. Len(s)) /\ DOMAIN s = 1 .. Len(s)
  OBVIOUS
<1>2. Without(t, s) = [n \in 1 .. size |-> s[Nth(n, kept)]]
  BY DEF Without
<1>3. \A i : i \in kept <=> i \in DOMAIN s /\ s[i].tag # t
  OBVIOUS
<1> HIDE DEF kept
<1>4. /\ size \in Nat
      /\ \A n \in 1 .. size : Nth(n, kept) \in kept
      /\ \A m, n \in 1 .. size : m < n => Nth(m, kept) < Nth(n, kept)
      /\ \A i \in kept : \E n \in 1 .. size : Nth(n, kept) = i
  BY <1>1, Positions
<1>5. \A n \in 1 .. size : s[Nth(n, kept)] \in R
  BY <1>3, <1>4, ElementOfSeq
<1>6. [n \in 1 .. size |-> s[Nth(n, kept)]] \in [1 .. size -> R]
  BY <1>5
<1> HIDE DEF size
<1>7. Without(t, s) \in Seq(R)
  BY <1>2, <1>4, <1>6
<1>8. DOMAIN Without(t, s) = 1 .. size /\ \A n \in 1 .. size : Without(t, s)[n] = s[p[n]]
  BY <1>2
<1>9. p \in [1 .. size -> DOMAIN s]
  BY <1>3, <1>4
<1>10. \A m, n \in 1 .. size : m < n => p[m] < p[n]
  BY <1>4
<1>11. \A n \in 1 .. size : s[p[n]].tag # t
  BY <1>3, <1>4
<1>12. \A i \in DOMAIN s : s[i].tag # t => \E n \in 1 .. size : p[n] = i
  BY <1>3, <1>4
<1>13. p \in [DOMAIN Without(t, s) -> DOMAIN s]
  BY <1>8, <1>9
<1> HIDE DEF p
<1>14. /\ \A n \in DOMAIN Without(t, s) : Without(t, s)[n] = s[p[n]] /\ s[p[n]].tag # t
       /\ \A m, n \in DOMAIN Without(t, s) : m < n => p[m] < p[n]
       /\ \A i \in DOMAIN s : s[i].tag # t => \E n \in DOMAIN Without(t, s) : p[n] = i
  BY <1>8, <1>10, <1>11, <1>12
<1>. QED  BY <1>7, <1>13, <1>14
(* Min is the least element. *)
LEMMA LeastIsMin ==
  ASSUME NEW S, \A n \in S : n \in Nat, S # {}
  PROVE  Min(S) \in S /\ \A n \in S : Min(S) <= n
<1>1. \E m \in S : \A n \in S : m <= n
  BY LeastNatural
<1>. QED  BY <1>1 DEF Min

(* The first request state that can be sent. *)
LEMMA FirstSendable ==
  ASSUME NEW R, NEW s \in Seq(R), NEW i, i = SelectInSeq(s, Sendable)
  PROVE  \/ i = 0 /\ \A j \in DOMAIN s : ~Sendable(s[j])
         \/ /\ i \in DOMAIN s /\ Sendable(s[i])
            /\ \A j \in DOMAIN s : j < i => ~Sendable(s[j])
<1> DEFINE I == {j \in 1 .. Len(s) : Sendable(s[j])}
<1>1. DOMAIN s = 1 .. Len(s) /\ Len(s) \in Nat
  OBVIOUS
<1>2. i = IF I # {} THEN Min(I) ELSE 0
  BY DEF SelectInSeq
<1>3. CASE I = {}
  BY <1>1, <1>2, <1>3
<1>4. CASE I # {}
  <2>1. \A n \in I : n \in Nat
    BY <1>1
  <2> HIDE DEF I
  <2>2. i \in I /\ \A n \in I : i <= n
    BY <1>2, <1>4, <2>1, LeastIsMin
  <2>3. i \in DOMAIN s /\ Sendable(s[i])
    BY <1>1, <2>2 DEF I
  <2>4. \A j \in DOMAIN s : j < i => j \notin I
    BY <2>1, <2>2
  <2>. QED  BY <1>1, <2>3, <2>4 DEF I
<1>. QED  BY <1>3, <1>4

(* update_socket_current_send keeps what it has or takes a sendable state. *)
LEMMA SendChoice ==
  ASSUME NEW R, NEW s \in Seq(R), NEW d
  PROVE  \/ UpdateSend(d, s) = d
         \/ /\ d = Nil
            /\ \E i \in DOMAIN s :
                 /\ UpdateSend(d, s) = Name(s[i]) /\ Sendable(s[i])
                 /\ \A j \in DOMAIN s : j < i => ~Sendable(s[j])
<1> DEFINE i == SelectInSeq(s, Sendable)
<1>1. UpdateSend(d, s) = IF d # Nil \/ i = 0 THEN d ELSE Name(s[i])
  BY DEF UpdateSend
<1>2. \/ i = 0
      \/ /\ i \in DOMAIN s /\ Sendable(s[i])
         /\ \A j \in DOMAIN s : j < i => ~Sendable(s[j])
  BY FirstSendable
<1>3. i = 0 \/ i # 0
  OBVIOUS
<1> HIDE DEF i
<1>. QED  BY <1>1, <1>2, <1>3

(* Request states have names of their own, and are found by them. *)
LEMMA NamesDiffer ==
  ASSUME NEW s \in Seq(StateType), Ranked(s), NEW i \in DOMAIN s, NEW j \in DOMAIN s,
         Name(s[i]) = Name(s[j])
  PROVE  i = j
<1>1. s[i].tag = s[j].tag /\ s[i].rank = s[j].rank
  BY DEF Name
<1>2. s[i] \in StateType
  BY ElementOfSeq
<1>3. s[i].rank \in Nat /\ ~(s[i].rank < s[i].rank)
  BY <1>2 DEF StateType
<1>4. i \in Int /\ j \in Int
  OBVIOUS
<1>5. ~(i < j) /\ ~(j < i)
  BY <1>1, <1>3 DEF Ranked
<1>. QED  BY <1>4, <1>5

(* At finds the state of a name. *)
LEMMA Found ==
  ASSUME NEW s \in Seq(StateType), Ranked(s), NEW name, NEW i \in DOMAIN s, Name(s[i]) = name
  PROVE  At(name, s) = i
<1> DEFINE I == {j \in 1 .. Len(s) : Name(s[j]) = name}
<1>1. I = {i}
  BY NamesDiffer
<1>2. At(name, s) = IF I # {} THEN Min(I) ELSE 0
  BY DEF At, SelectInSeq
<1> HIDE DEF I
<1>3. At(name, s) = Min({i})
  BY <1>1, <1>2
<1>4. i \in Nat
  OBVIOUS
<1>5. Min({i}) \in {i}
  BY <1>4, LeastIsMin
<1>. QED  BY <1>3, <1>5

(* find_request finds the state of rank 0, the first of its tag. *)
LEMMA RequestFound ==
  ASSUME NEW s \in Seq(StateType), Ranked(s), NEW t, NEW i \in DOMAIN s,
         Name(s[i]) = <<t, 0>>
  PROVE  FindRequest(t, s) = i
<1> DEFINE I == {j \in 1 .. Len(s) : s[j].tag = t}
<1>1. i \in I /\ \A j \in I : j \in Nat
  BY DEF Name
<1>2. \A j \in I : s[j].rank \in Nat
  <2>1. \A j \in I : s[j] \in StateType
    BY ElementOfSeq
  <2>. QED  BY <2>1 DEF StateType
<1>3. \A j \in I : ~(j < i)
  BY <1>2 DEF Ranked, Name
<1>4. FindRequest(t, s) = IF I # {} THEN Min(I) ELSE 0
  BY DEF FindRequest, SelectInSeq
<1> HIDE DEF I
<1>5. Min(I) \in I /\ \A j \in I : Min(I) <= j
  BY <1>1, LeastIsMin
<1>. QED  BY <1>1, <1>3, <1>4, <1>5
-----------------------------------------------------------------------------
(* One list *)

(* No state is named Nil. *)
LEMMA NoName == \A m : Name(m) # Nil
BY DEF Name, Nil

(* What update_socket_current_send chooses fits the list.                  *)
LEMMA SideRefresh ==
  ASSUME NEW w \in Way, NEW s \in Seq(StateType), NEW k \in [Tags -> CallType],
         \A t \in Tags : CallOK(k[t]),
         NEW r, NEW d \in NameType, Side(w, s, k, r, d)
  PROVE  Side(w, s, k, r, UpdateSend(d, s)) /\ UpdateSend(d, s) \in NameType
<1>1. CASE UpdateSend(d, s) = d
  BY <1>1
<1>2. ASSUME NEW i \in DOMAIN s, UpdateSend(d, s) = Name(s[i]), d = Nil, Sendable(s[i]),
             \A j \in DOMAIN s : j < i => ~Sendable(s[j])
      PROVE  Side(w, s, k, r, UpdateSend(d, s)) /\ UpdateSend(d, s) \in NameType
  <2> DEFINE new == Name(s[i])
  <2>1. \A j \in DOMAIN s : s[j] \in StateType
    BY ElementOfSeq
  <2>2. /\ Ranked(s) /\ MsgsOK(w, s, k, r, d) /\ AllThere(w, s, k)
        /\ Pointed(s, r, d) /\ SentInOrder(s, d)
    BY DEF Side
  <2>3. \A j \in DOMAIN s : Name(s[j]) = new => j = i
    BY <2>2, NamesDiffer
  <2>4. MsgsOK(w, s, k, r, new)
    <3> SUFFICES ASSUME NEW j \in DOMAIN s
                 PROVE  MsgOK(w, s[j], k[s[j].tag], r, new)
      BY DEF MsgsOK
    <3>1. MsgOK(w, s[j], k[s[j].tag], r, d) /\ s[j] \in StateType
      BY <2>1, <2>2 DEF MsgsOK
    <3>2. ~(0 < s[j].head /\ s[j].head < s[j].size)
      BY <3>1, <1>2, NoName DEF MsgOK
    <3>3. new = Name(s[j]) => s[j].head < s[j].size /\ ~s[j].locked
      <4> SUFFICES ASSUME new = Name(s[j])
                   PROVE  s[j].head < s[j].size /\ ~s[j].locked
        OBVIOUS
      <4>1. Sendable(s[j])
        BY <2>3, <1>2
      <4>2. /\ s[j].head \in Nat /\ s[j].tail \in Nat /\ s[j].size \in Nat
            /\ s[j].head <= s[j].tail /\ s[j].tail <= s[j].size
        BY <3>1 DEF MsgOK, StateType
      <4>. QED  BY <4>1, <4>2 DEF Sendable
    <3> HIDE DEF new
    <3>. QED  BY <3>1, <3>2, <3>3 DEF MsgOK
  <2>5. Pointed(s, r, new)
    BY <2>2 DEF Pointed, Has
  <2>6. SentInOrder(s, new)
    <3> SUFFICES ASSUME NEW j \in DOMAIN s, j < i, s[j].tag = s[i].tag
                 PROVE  s[j].head = s[j].size
      BY <2>2, <2>3, <1>2, NoName DEF SentInOrder, Begun
    <3> DEFINE m == s[j]
               n == s[i]
               q == k[n.tag]
    <3>1. /\ MsgOK(w, m, q, r, d) /\ MsgOK(w, n, q, r, d)
          /\ m \in StateType /\ n \in StateType /\ ~Sendable(m) /\ m.rank < n.rank
      BY <2>1, <2>2, <1>2 DEF MsgsOK, Ranked
    <3>2. q \in CallType /\ CallOK(q)
      BY <3>1 DEF StateType
    <3>3. r # Name(n) \/ r # Name(m)
      BY <2>3
    <3> HIDE DEF m, n, q
    <3>4. /\ m.rank \in Nat /\ n.rank \in Nat /\ m.head \in Nat /\ m.tail \in Nat /\ m.size \in Nat
          /\ m.locked \in BOOLEAN /\ q.begun \in Nat /\ m.head <= m.tail /\ m.tail <= m.size
      BY <3>1, <3>2 DEF StateType, CallType, MsgOK
    <3>5. n.rank # 0
      BY <3>1, <3>4
    <3>6. ~m.locked
      <4> SUFFICES ASSUME m.locked PROVE FALSE
        OBVIOUS
      <4>1. w = "up" /\ UpOK(m, q) /\ UpOK(n, q)
        BY <3>1 DEF MsgOK, DownOK, Way
      <4>2. q.stage = "asked" /\ q.kind = "write" /\ n.rank <= q.begun
        BY <4>1, <3>5 DEF UpOK
      <4>3. q.begun = 0
        BY <4>2, <3>2 DEF CallOK, NoCall
      <4>. QED  BY <4>2, <4>3, <3>4, <3>5
    <3>7. m.tail = m.head
      BY <3>1, <3>6 DEF Sendable
    <3>8. m.tail = m.size
      <4> SUFFICES ASSUME m.tail < m.size PROVE FALSE
        BY <3>4
      <4>1. r = Name(m) /\ m.rank = IF w = "up" THEN q.begun ELSE q.begun + 1
        BY <3>1 DEF MsgOK
      <4>2. CASE w = "up"
        <5>1. n.rank <= q.begun
          BY <3>1, <4>2, <3>5 DEF MsgOK, UpOK
        <5>. QED  BY <5>1, <4>1, <4>2, <3>1, <3>4
      <4>3. CASE w = "down"
        <5>1. m.rank = q.begun + 1 /\ DownOK(n, q, r)
          BY <4>1, <4>3, <3>1 DEF MsgOK
        <5>2. n.rank <= q.begun \/ n.rank = 1
          BY <5>1, <3>3, <4>1, <3>5 DEF DownOK
        <5>. QED  BY <5>1, <5>2, <3>1, <3>4
      <4>. QED  BY <4>2, <4>3 DEF Way
    <3>. QED  BY <3>7, <3>8 DEF m
  <2>7. Name(s[i]) \in NameType
    BY <2>1 DEF Name, NameType, StateType
  <2>. QED  BY <1>2, <2>2, <2>4, <2>5, <2>6, <2>7 DEF Side
<1>. QED  BY <1>1, <1>2, SendChoice

(* Request states and the call change, the names do not.                   *)
LEMMA SideChange ==
  ASSUME NEW w \in Way, NEW s, NEW s2, NEW k, NEW k2, NEW r, NEW r2, NEW d, NEW d2,
         Side(w, s, k, r, d),
         DOMAIN s2 = DOMAIN s,
         \A i \in DOMAIN s : s2[i].tag = s[i].tag /\ s2[i].rank = s[i].rank,
         MsgsOK(w, s2, k2, r2, d2), SentInOrder(s2, d2),
         r2 # Nil => Has(s, r2), d2 # Nil => Has(s, d2),
         \A t \in Tags : k2[t] # NoCall => k[t] # NoCall,
         \A t \in Tags : k2[t] # NoCall => \A n \in Nat : n <= Top(w, k2[t]) =>
           n <= Top(w, k[t]) \/ Has(s, <<t, n>>)
  PROVE  Side(w, s2, k2, r2, d2)
<1>1. /\ Ranked(s) /\ AllThere(w, s, k)
  BY DEF Side
<1>2. \A i \in DOMAIN s : Name(s2[i]) = Name(s[i])
  BY DEF Name
<1>3. \A name : Has(s, name) => Has(s2, name)
  BY <1>2 DEF Has
<1>4. Ranked(s2)
  BY <1>1 DEF Ranked
<1>5. AllThere(w, s2, k2)
  BY <1>1, <1>3 DEF AllThere
<1>. QED  BY <1>3, <1>4, <1>5 DEF Side, Pointed

(* A message is added at the end of the list.                              *)
LEMMA SideAppend ==
  ASSUME NEW w \in Way, NEW s \in Seq(StateType), NEW m \in StateType,
         NEW k, NEW k2, NEW r, NEW r2, NEW d,
         Side(w, s, k, r, d),
         MsgsOK(w, s, k2, r2, d), MsgOK(w, m, k2[m.tag], r2, d), m.head = 0,
         \A i \in DOMAIN s : s[i].tag = m.tag => s[i].rank < m.rank,
         r2 \in {Nil, r, Name(m)},
         \A t \in Tags : k2[t] # NoCall => \A n \in Nat : n <= Top(w, k2[t]) =>
           Has(s, <<t, n>>) \/ <<t, n>> = Name(m)
  PROVE  Side(w, Append(s, m), k2, r2, d) /\ Append(s, m) \in Seq(StateType)
<1> DEFINE s2 == Append(s, m)
           e == Len(s) + 1
<1>1. /\ Ranked(s) /\ AllThere(w, s, k) /\ Pointed(s, r, d) /\ SentInOrder(s, d)
  BY DEF Side
<1>2. /\ s2 \in Seq(StateType) /\ DOMAIN s2 = DOMAIN s \cup {e} /\ s2[e] = m
      /\ \A i \in DOMAIN s : s2[i] = s[i] /\ i < e /\ i \in Nat
      /\ e \notin DOMAIN s /\ e \in Nat
  OBVIOUS
<1> HIDE DEF s2, e
<1>3. \A i, j \in DOMAIN s2 : i < j => i \in DOMAIN s
  BY <1>2
<1>4. Ranked(s2)
  BY <1>1, <1>2, <1>3 DEF Ranked
<1>5. MsgsOK(w, s2, k2, r2, d)
  BY <1>2 DEF MsgsOK
<1>6. \A name : Has(s, name) => Has(s2, name)
  BY <1>2 DEF Has
<1>7. Has(s2, Name(m))
  BY <1>2 DEF Has
<1>8. AllThere(w, s2, k2)
  BY <1>6, <1>7 DEF AllThere
<1>9. Pointed(s2, r2, d)
  BY <1>1, <1>6, <1>7 DEF Pointed
<1>10. ~Begun(m, d)
  <2> SUFFICES ASSUME d = Name(m) PROVE FALSE
    BY DEF Begun
  <2>1. PICK i \in DOMAIN s : Name(s[i]) = Name(m)
    BY <1>1, NoName DEF Pointed, Has
  <2>2. s[i].tag = m.tag /\ s[i].rank = m.rank /\ m.rank \in Nat
    BY <2>1 DEF Name, StateType
  <2>. QED  BY <2>2
<1>11. SentInOrder(s2, d)
  BY <1>1, <1>2, <1>3, <1>10 DEF SentInOrder
<1>. QED  BY <1>2, <1>4, <1>5, <1>8, <1>9, <1>11 DEF Side, s2

(* The request states of a tag are freed; if one of them was being sent,   *)
(* nothing is now.                                                         *)
LEMMA SideForget ==
  ASSUME NEW w \in Way, NEW s \in Seq(StateType), NEW k, NEW k2, NEW t \in Tags,
         NEW r, NEW d, NEW d2, Side(w, s, k, r, d),
         k2[t] = NoCall, \A u \in Tags : u # t => k2[u] = k[u],
         \A n : r # <<t, n>> /\ d2 # <<t, n>>,
         d2 = d \/ (d2 = Nil /\ \E n : d = <<t, n>>)
  PROVE  Side(w, Without(t, s), k2, r, d2) /\ Without(t, s) \in Seq(StateType)
<1> DEFINE s2 == Without(t, s)
<1>1. s2 \in Seq(StateType)
  BY WithoutTag
<1>2. PICK p \in [DOMAIN s2 -> DOMAIN s] :
              /\ \A n \in DOMAIN s2 : s2[n] = s[p[n]] /\ s[p[n]].tag # t
              /\ \A m, n \in DOMAIN s2 : m < n => p[m] < p[n]
              /\ \A i \in DOMAIN s : s[i].tag # t => \E n \in DOMAIN s2 : p[n] = i
  BY WithoutTag
<1> HIDE DEF s2
<1>3. /\ Ranked(s) /\ AllThere(w, s, k) /\ Pointed(s, r, d) /\ SentInOrder(s, d)
      /\ MsgsOK(w, s, k, r, d)
  BY DEF Side
<1>4. \A n \in DOMAIN s2 : p[n] \in DOMAIN s /\ s2[n] \in StateType
  BY <1>1, <1>2, ElementOfSeq
<1>5. Ranked(s2)
  BY <1>2, <1>3, <1>4 DEF Ranked
<1>11. \A n \in DOMAIN s2 : d2 = Name(s2[n]) <=> d = Name(s2[n])
  BY <1>2, NoName DEF Name
<1>6. MsgsOK(w, s2, k2, r, d2)
  <2> SUFFICES ASSUME NEW n \in DOMAIN s2
               PROVE  MsgOK(w, s2[n], k2[s2[n].tag], r, d2)
    BY DEF MsgsOK
  <2>1. s2[n].tag \in Tags /\ s2[n].tag # t
    BY <1>2, <1>4 DEF StateType
  <2>2. MsgOK(w, s2[n], k2[s2[n].tag], r, d)
    BY <1>2, <1>3, <1>4, <2>1 DEF MsgsOK
  <2>. QED  BY <1>11, <2>2 DEF MsgOK
<1>7. \A name : Has(s, name) => Has(s2, name) \/ \E n : name = <<t, n>>
  <2> SUFFICES ASSUME NEW i \in DOMAIN s, s[i].tag # t
               PROVE  Has(s2, Name(s[i]))
    BY DEF Has, Name
  <2>1. PICK n \in DOMAIN s2 : p[n] = i
    BY <1>2
  <2>. QED  BY <1>2, <2>1 DEF Has
<1>8. AllThere(w, s2, k2)
  <2> SUFFICES ASSUME NEW u \in Tags, k2[u] # NoCall, NEW n \in Nat, n <= Top(w, k2[u])
               PROVE  Has(s2, <<u, n>>)
    BY DEF AllThere
  <2>1. u # t /\ k2[u] = k[u]
    OBVIOUS
  <2>2. Has(s, <<u, n>>)
    BY <1>3, <2>1 DEF AllThere
  <2>3. \A x : <<u, n>> # <<t, x>>
    BY <2>1
  <2>. QED  BY <1>7, <2>2, <2>3
<1>9. Pointed(s2, r, d2)
  BY <1>3, <1>7 DEF Pointed
<1>10. SentInOrder(s2, d2)
  BY <1>2, <1>3, <1>4, <1>11 DEF SentInOrder, Begun
<1>. QED  BY <1>1, <1>5, <1>6, <1>8, <1>9, <1>10 DEF Side, s2

(* Locked request states are unlocked.                                     *)
LEMMA SideUnlock ==
  ASSUME NEW w \in Way, NEW s \in Seq(StateType), NEW s2, NEW k, NEW r, NEW d,
         Side(w, s, k, r, d),
         DOMAIN s2 = DOMAIN s,
         \A i \in DOMAIN s : s2[i] = s[i] \/ s2[i] = [s[i] EXCEPT !.locked = FALSE]
  PROVE  Side(w, s2, k, r, d)
<1>1. \A i \in DOMAIN s : s[i] \in StateType
  BY ElementOfSeq
<1>2. \A i \in DOMAIN s : /\ s2[i].tag = s[i].tag /\ s2[i].rank = s[i].rank
                          /\ s2[i].head = s[i].head /\ s2[i].size = s[i].size
                          /\ s2[i].tail = s[i].tail /\ s2[i].op = s[i].op
                          /\ s2[i].final = s[i].final /\ s2[i].item = s[i].item
                          /\ s2[i].got = s[i].got /\ s2[i].locked \in {s[i].locked, FALSE}
  BY <1>1 DEF StateType
<1>3. MsgsOK(w, s, k, r, d) /\ SentInOrder(s, d) /\ Pointed(s, r, d)
  BY DEF Side
<1>4. MsgsOK(w, s2, k, r, d)
  <2> SUFFICES ASSUME NEW i \in DOMAIN s
               PROVE  MsgOK(w, s2[i], k[s2[i].tag], r, d)
    BY DEF MsgsOK
  <2> DEFINE m == s[i]
             n == s2[i]
  <2>1. MsgOK(w, m, k[n.tag], r, d)
    BY <1>2, <1>3 DEF MsgsOK
  <2>2. /\ n.tag = m.tag /\ n.rank = m.rank /\ n.head = m.head /\ n.size = m.size
        /\ n.tail = m.tail /\ n.op = m.op /\ (n.final <=> m.final) /\ n.item = m.item
        /\ n.got = m.got /\ (n.locked => m.locked)
    BY <1>2
  <2> DEFINE q == k[n.tag]
  <2> HIDE DEF m, n, q
  <2>3. Name(n) = Name(m)
    BY <2>2 DEF Name
  <2>4. UpOK(m, q) => UpOK(n, q)
    BY <2>2 DEF UpOK, FlowOK
  <2>5. DownOK(m, q, r) => DownOK(n, q, r)
    BY <2>2, <2>3 DEF DownOK, FlowOK
  <2>6. MsgOK(w, n, q, r, d)
    BY <2>1, <2>2, <2>3, <2>4, <2>5 DEF MsgOK, q
  <2>. QED  BY <2>6 DEF n, q
<1>5. SentInOrder(s2, d)
  BY <1>2, <1>3 DEF SentInOrder, Begun, Name
<1>6. /\ r # Nil => Has(s, r)
      /\ d # Nil => Has(s, d)
  BY <1>3 DEF Pointed
<1>7. /\ \A i \in DOMAIN s : s2[i].tag = s[i].tag /\ s2[i].rank = s[i].rank
      /\ \A t \in Tags : k[t] # NoCall => \A n \in Nat : n <= Top(w, k[t]) =>
           n <= Top(w, k[t]) \/ Has(s, <<t, n>>)
  BY <1>2
<1>. QED  BY <1>4, <1>5, <1>6, <1>7, SideChange
-----------------------------------------------------------------------------
(* The requests the scheduler knows *)

(* The scheduler's records. *)
Records(W, S) ==
  /\ \A q \in W \cup S : q \in Sched!Request
  /\ \A q, r \in W \cup S : q.id = r.id => q = r
  /\ W \cap S = {}

(* The item of a request state is the id of the scheduler's record. *)
LEMMA RecordOfItem ==
  ASSUME NEW m, NEW c, NEW q, Item(m, c) = q
  PROVE  m.item = q.id
BY DEF Item

(* Nothing changes that concerns the scheduler. *)
LEMMA BookedSame ==
  ASSUME NEW U, NEW U2, NEW k, NEW k2, NEW W, NEW S, NEW n, NEW o,
         Booked(U, k, W, S, n, o), Records(W, S),
         \A c \in Conns : \A i \in DOMAIN U2[c] : U2[c][i].item >= 0 =>
           i \in DOMAIN U[c] /\ U2[c][i].item = U[c][i].item,
         \A c \in Conns : \A i \in DOMAIN U[c] : U[c][i].item >= 0 =>
           /\ i \in DOMAIN U2[c] /\ U2[c][i].item = U[c][i].item
           /\ U2[c][i].tag = U[c][i].tag /\ (U2[c][i].locked <=> U[c][i].locked)
           /\ k2[c][U[c][i].tag].stage = "over" <=> k[c][U[c][i].tag].stage = "over"
  PROVE  Booked(U2, k2, W, S, n, o)
<1>1. ItemsKnown(U2, k2, W, S, n)
  BY DEF Booked, ItemsKnown, Item
<1>2. ItemsUnique(U2)
  BY DEF Booked, ItemsUnique
<1>3. \A q \in W \cup S : q.id >= 0
  BY DEF Records, Sched!Request
<1>4. WaitersKnown(U, W) => WaitersKnown(U2, W)
  <2> SUFFICES ASSUME NEW q \in W, NEW c \in Conns, NEW i \in DOMAIN U[c],
                      U[c][i].locked, Item(U[c][i], c) = q
               PROVE  i \in DOMAIN U2[c] /\ U2[c][i].locked /\ Item(U2[c][i], c) = q
    BY DEF WaitersKnown
  <2>. QED  BY <1>3, RecordOfItem DEF Item
<1>5. ServedKnown(U, k, S) => ServedKnown(U2, k2, S)
  <2> SUFFICES ASSUME NEW q \in S, NEW c \in Conns, NEW i \in DOMAIN U[c],
                      ~U[c][i].locked, k[c][U[c][i].tag].stage # "over",
                      Item(U[c][i], c) = q
               PROVE  /\ i \in DOMAIN U2[c] /\ ~U2[c][i].locked /\ Item(U2[c][i], c) = q
                      /\ k2[c][U2[c][i].tag].stage # "over"
    BY DEF ServedKnown
  <2>. QED  BY <1>3, RecordOfItem DEF Item
<1>. QED  BY <1>1, <1>2, <1>4, <1>5 DEF Booked

(* U2 has one more request state than U, at position e of connection c.    *)
Added(U2, U, c, e) ==
  /\ \A d \in Conns : d # c => U2[d] = U[d]
  /\ \A i \in DOMAIN U2[c] : i = e \/ (i \in DOMAIN U[c] /\ U2[c][i] = U[c][i])
  /\ \A i \in DOMAIN U[c] : i \in DOMAIN U2[c] /\ i # e /\ U2[c][i] = U[c][i]
  /\ e \in DOMAIN U2[c]

(* The calls that have request states in U are as far as they were.        *)
SameProgress(U, k2, k) ==
  \A d \in Conns : \A i \in DOMAIN U[d] :
    /\ U[d][i].item \in Int
    /\ k2[d][U[d][i].tag].stage = "over" <=> k[d][U[d][i].tag].stage = "over"

(* A request comes with the next item, released or held back.              *)
LEMMA BookedNew ==
  ASSUME NEW U, NEW U2, NEW k, NEW k2, NEW W, NEW W2, NEW S, NEW S2, NEW n \in Nat, NEW o,
         NEW c \in Conns, NEW e, NEW r,
         Booked(U, k, W, S, n, o), Records(W, S), Added(U2, U, c, e), SameProgress(U, k2, k),
         U2[c][e].item = n, Item(U2[c][e], c) = r, k2[c][U2[c][e].tag].stage = "asked",
         \/ U2[c][e].locked /\ W2 = W \cup {r} /\ S2 = S
         \/ ~U2[c][e].locked /\ W2 = W /\ S2 = S \cup {r}
  PROVE  Booked(U2, k2, W2, S2, n + 1, o)
<1>0. /\ \A d \in Conns : d # c => U2[d] = U[d]
      /\ \A i \in DOMAIN U2[c] : i = e \/ (i \in DOMAIN U[c] /\ U2[c][i] = U[c][i])
      /\ \A i \in DOMAIN U[c] : i \in DOMAIN U2[c] /\ i # e /\ U2[c][i] = U[c][i]
      /\ e \in DOMAIN U2[c]
  BY DEF Added
<1>9. \A d \in Conns : \A i \in DOMAIN U[d] :
        /\ U[d][i].item \in Int
        /\ k2[d][U[d][i].tag].stage = "over" <=> k[d][U[d][i].tag].stage = "over"
  BY DEF SameProgress
<1>1. \A d \in Conns : \A i \in DOMAIN U2[d] :
        (d = c /\ i = e) \/ (i \in DOMAIN U[d] /\ U2[d][i] = U[d][i])
  BY <1>0
<1>2. \A d \in Conns : \A i \in DOMAIN U[d] :
        i \in DOMAIN U2[d] /\ U2[d][i] = U[d][i]
  BY <1>0
<1>3. W \subseteq W2 /\ S \subseteq S2
  OBVIOUS
<1>4. ItemsKnown(U2, k2, W2, S2, n + 1)
  <2> SUFFICES ASSUME NEW d \in Conns, NEW i \in DOMAIN U2[d], U2[d][i].item >= 0
               PROVE  /\ U2[d][i].item < n + 1
                      /\ U2[d][i].locked => Item(U2[d][i], d) \in W2
                      /\ ~U2[d][i].locked /\ k2[d][U2[d][i].tag].stage # "over"
                           => Item(U2[d][i], d) \in S2
    BY DEF ItemsKnown
  <2>1. CASE d = c /\ i = e
    BY <1>0, <2>1
  <2>2. CASE i \in DOMAIN U[d] /\ U2[d][i] = U[d][i]
    <3>1. /\ U[d][i].item < n
          /\ U[d][i].locked => Item(U[d][i], d) \in W
          /\ ~U[d][i].locked /\ k[d][U[d][i].tag].stage # "over" => Item(U[d][i], d) \in S
      BY <2>2 DEF Booked, ItemsKnown
    <3>2. U[d][i].item < n + 1
      BY <3>1, <2>2, <1>9
    <3>. QED  BY <2>2, <3>1, <3>2, <1>3, <1>9
  <2>. QED  BY <1>1, <2>1, <2>2
<1>5. \A d \in Conns : \A i \in DOMAIN U[d] : U[d][i].item # n
  BY <1>9 DEF Booked, ItemsKnown
<1>6. ItemsUnique(U2)
  BY <1>1, <1>5 DEF Booked, ItemsUnique
<1>7. WaitersKnown(U, W) => WaitersKnown(U2, W2)
  <2> SUFFICES ASSUME WaitersKnown(U, W), NEW q \in W2
               PROVE  \E d \in Conns : \E i \in DOMAIN U2[d] :
                        U2[d][i].locked /\ Item(U2[d][i], d) = q
    BY DEF WaitersKnown
  <2>1. CASE q \in W
    BY <2>1, <1>2 DEF WaitersKnown
  <2>2. CASE q \notin W
    BY <1>0, <2>2
  <2>. QED  BY <2>1, <2>2
<1>8. ServedKnown(U, k, S) => ServedKnown(U2, k2, S2)
  <2> SUFFICES ASSUME ServedKnown(U, k, S), NEW q \in S2
               PROVE  \E d \in Conns : \E i \in DOMAIN U2[d] :
                        /\ ~U2[d][i].locked /\ k2[d][U2[d][i].tag].stage # "over"
                        /\ Item(U2[d][i], d) = q
    BY DEF ServedKnown
  <2>1. CASE q \in S
    <3>0. PICK d \in Conns : \E i \in DOMAIN U[d] :
            /\ ~U[d][i].locked /\ k[d][U[d][i].tag].stage # "over"
            /\ Item(U[d][i], d) = q
      BY <2>1 DEF ServedKnown
    <3>1. PICK i \in DOMAIN U[d] :
            /\ ~U[d][i].locked /\ k[d][U[d][i].tag].stage # "over"
            /\ Item(U[d][i], d) = q
      BY <3>0
    <3>. QED  BY <3>1, <1>2, <1>9
  <2>2. CASE q \notin S
    BY <1>0, <2>2
  <2>. QED  BY <2>1, <2>2
<1>. QED  BY <1>4, <1>6, <1>7, <1>8 DEF Booked

(* The server has answered the request at position i of connection c.      *)
LEMMA BookedFree ==
  ASSUME NEW U, NEW k, NEW k2, NEW S, NEW n, NEW o,
         NEW c \in Conns, NEW i \in DOMAIN U[c],
         Booked(U, k, {}, S, n, o), Records({}, S), U[c][i].item >= 0,
         k2[c][U[c][i].tag].stage = "over",
         \A j \in DOMAIN U[c] :
           U[c][j].item >= 0 /\ U[c][j].tag = U[c][i].tag => j = i,
         \A d \in Conns : \A j \in DOMAIN U[d] : (d # c \/ U[d][j].tag # U[c][i].tag) =>
           (k2[d][U[d][j].tag].stage = "over" <=> k[d][U[d][j].tag].stage = "over")
  PROVE  Booked(U, k2, {}, S \ {Item(U[c][i], c)}, n, o)
<1> DEFINE r == Item(U[c][i], c)
<1>1. r.id = U[c][i].item
  BY DEF Item
<1>2. \A q \in S : q.id >= 0
  BY DEF Records, Sched!Request
<1>3. ItemsKnown(U, k2, {}, S \ {r}, n)
  <2> SUFFICES ASSUME NEW d \in Conns, NEW j \in DOMAIN U[d], U[d][j].item >= 0
               PROVE  /\ U[d][j].item < n
                      /\ U[d][j].locked => Item(U[d][j], d) \in {}
                      /\ ~U[d][j].locked /\ k2[d][U[d][j].tag].stage # "over"
                           => Item(U[d][j], d) \in S \ {r}
    BY DEF ItemsKnown
  <2>1. CASE d = c /\ j = i
    BY <2>1 DEF Booked, ItemsKnown
  <2>2. CASE ~(d = c /\ j = i)
    <3>1. Item(U[d][j], d) # r
      BY <2>2, <1>1, RecordOfItem DEF Booked, ItemsUnique
    <3>2. d # c \/ U[d][j].tag # U[c][i].tag
      BY <2>2
    <3>. QED  BY <3>1, <3>2 DEF Booked, ItemsKnown
  <2>. QED  BY <2>1, <2>2
<1>4. ServedKnown(U, k, S) => ServedKnown(U, k2, S \ {r})
  <2> SUFFICES ASSUME NEW q \in S \ {r}, NEW d \in Conns, NEW j \in DOMAIN U[d],
                      ~U[d][j].locked, k[d][U[d][j].tag].stage # "over",
                      Item(U[d][j], d) = q
               PROVE  k2[d][U[d][j].tag].stage # "over"
    BY DEF ServedKnown
  <2>1. U[d][j].item >= 0
    BY <1>2, RecordOfItem
  <2>. QED  BY <2>1
<1>. QED  BY <1>3, <1>4 DEF Booked, WaitersKnown

(* Its slot goes to a waiting request, which is unlocked.                  *)
LEMMA BookedHandOver ==
  ASSUME NEW U, NEW U2, NEW k, NEW k2, NEW W, NEW S, NEW n, NEW o,
         NEW c \in Conns, NEW i \in DOMAIN U[c], NEW next \in W,
         Booked(U, k, W, S, n, o), Records(W, S),
         U[c][i].item >= 0, ~U[c][i].locked, Item(U[c][i], c) \in S,
         k2[c][U[c][i].tag].stage = "over",
         \A d \in Conns : \A j \in DOMAIN U[d] :
           U[d][j].locked => ~(d = c /\ U[d][j].tag = U[c][i].tag)
                             /\ k[d][U[d][j].tag].stage # "over",
         \A j \in DOMAIN U[c] :
           U[c][j].item >= 0 /\ U[c][j].tag = U[c][i].tag => j = i,
         \A d \in Conns : \A j \in DOMAIN U[d] : (d # c \/ U[d][j].tag # U[c][i].tag) =>
           (k2[d][U[d][j].tag].stage = "over" <=> k[d][U[d][j].tag].stage = "over"),
         \A d \in Conns : DOMAIN U2[d] = DOMAIN U[d],
         \A d \in Conns : \A j \in DOMAIN U[d] :
           /\ U2[d][j].item = U[d][j].item /\ U2[d][j].tag = U[d][j].tag
           /\ U2[d][j].locked <=> U[d][j].locked /\ U[d][j].item # next.id
  PROVE  Booked(U2, k2, W \ {next}, (S \ {Item(U[c][i], c)}) \cup {next}, n, o)
<1> DEFINE r == Item(U[c][i], c)
           W2 == W \ {next}
           S2 == (S \ {r}) \cup {next}
<1>1. r.id = U[c][i].item /\ r \in S
  BY DEF Item
<1>2. \A q \in W \cup S : q.id >= 0
  BY DEF Records, Sched!Request
<1>3. next \notin S /\ \A q \in W \cup S : q.id = next.id => q = next
  BY DEF Records
<1>4. \A d \in Conns : \A j \in DOMAIN U[d] : Item(U2[d][j], d) = Item(U[d][j], d)
  BY DEF Item
<1>5. ItemsKnown(U, k, W, S, n) /\ ItemsUnique(U)
  BY DEF Booked
<1>6. ItemsKnown(U2, k2, W2, S2, n)
  <2> SUFFICES ASSUME NEW d \in Conns, NEW j \in DOMAIN U[d], U[d][j].item >= 0
               PROVE  /\ U[d][j].item < n
                      /\ U2[d][j].locked => Item(U[d][j], d) \in W2
                      /\ ~U2[d][j].locked /\ k2[d][U[d][j].tag].stage # "over"
                           => Item(U[d][j], d) \in S2
    BY <1>4 DEF ItemsKnown
  <2>1. U[d][j].item < n
    BY <1>5 DEF ItemsKnown
  <2>2. Item(U[d][j], d).id = U[d][j].item
    BY DEF Item
  <2>3. ASSUME U2[d][j].locked
        PROVE  Item(U[d][j], d) \in W2
    <3>1. Item(U[d][j], d) \in W /\ U[d][j].item # next.id
      BY <2>3, <1>5 DEF ItemsKnown
    <3>. QED  BY <3>1, <2>2
  <2>4. ASSUME ~U2[d][j].locked, k2[d][U[d][j].tag].stage # "over", U[d][j].locked
        PROVE  Item(U[d][j], d) \in S2
    <3>1. Item(U[d][j], d) \in W /\ U[d][j].item = next.id
      BY <2>4, <1>5 DEF ItemsKnown
    <3>. QED  BY <3>1, <2>2, <1>3
  <2>5. ASSUME k2[d][U[d][j].tag].stage # "over", ~U[d][j].locked
        PROVE  Item(U[d][j], d) \in S2
    <3>1. ~(d = c /\ j = i)
      BY <2>5
    <3>2. Item(U[d][j], d) # r
      BY <3>1, <1>1, <2>2, <1>5 DEF ItemsUnique
    <3>3. d # c \/ U[d][j].tag # U[c][i].tag
      BY <3>1
    <3>4. k[d][U[d][j].tag].stage # "over"
      BY <3>3, <2>5
    <3>. QED  BY <3>2, <3>4, <2>5, <1>5 DEF ItemsKnown
  <2>. QED  BY <2>1, <2>3, <2>4, <2>5
<1>7. ItemsUnique(U2)
  BY <1>5 DEF ItemsUnique
<1>8. WaitersKnown(U, W) => WaitersKnown(U2, W2)
  <2> SUFFICES ASSUME NEW q \in W2, NEW d \in Conns, NEW j \in DOMAIN U[d],
                      U[d][j].locked, Item(U[d][j], d) = q
               PROVE  U2[d][j].locked /\ Item(U2[d][j], d) = q
    BY DEF WaitersKnown
  <2>1. U[d][j].item = q.id /\ q.id # next.id
    BY <1>3, RecordOfItem
  <2>. QED  BY <2>1, <1>4
<1>9. WaitersKnown(U, W) /\ ServedKnown(U, k, S) => ServedKnown(U2, k2, S2)
  <2> SUFFICES ASSUME WaitersKnown(U, W), ServedKnown(U, k, S), NEW q \in S2
               PROVE  \E d \in Conns : \E j \in DOMAIN U2[d] :
                        /\ ~U2[d][j].locked /\ k2[d][U2[d][j].tag].stage # "over"
                        /\ Item(U2[d][j], d) = q
    BY DEF ServedKnown
  <2>1. CASE q = next
    <3>0. PICK d \in Conns : \E j \in DOMAIN U[d] : U[d][j].locked /\ Item(U[d][j], d) = next
      BY DEF WaitersKnown
    <3>1. PICK j \in DOMAIN U[d] : U[d][j].locked /\ Item(U[d][j], d) = next
      BY <3>0
    <3>2. U[d][j].item = next.id
      BY <3>1, RecordOfItem
    <3>3. ~U2[d][j].locked /\ k2[d][U2[d][j].tag].stage # "over"
      BY <3>1, <3>2
    <3>. QED  BY <3>1, <3>3, <1>4, <2>1
  <2>2. CASE q \in S \ {r}
    <3>0. PICK d \in Conns : \E j \in DOMAIN U[d] :
            /\ ~U[d][j].locked /\ k[d][U[d][j].tag].stage # "over"
            /\ Item(U[d][j], d) = q
      BY <2>2 DEF ServedKnown
    <3>1. PICK j \in DOMAIN U[d] :
            /\ ~U[d][j].locked /\ k[d][U[d][j].tag].stage # "over"
            /\ Item(U[d][j], d) = q
      BY <3>0
    <3>2. U[d][j].item >= 0
      BY <1>2, <2>2, <3>1, RecordOfItem
    <3>3. ~(d = c /\ U[d][j].tag = U[c][i].tag)
      BY <3>1, <3>2, <2>2
    <3>. QED  BY <3>1, <3>3, <1>4
  <2>. QED  BY <2>1, <2>2
<1>. QED  BY <1>6, <1>7, <1>8, <1>9 DEF Booked

(* The request states of tag t of connection c are freed: none of them is  *)
(* locked, and the server has answered the request.                        *)
Freed(U2, U, k2, k, c, t) ==
  /\ \A d \in Conns : d # c => U2[d] = U[d]
  /\ U2[c] = Without(t, U[c])
  /\ \A i \in DOMAIN U[c] : U[c][i].tag = t => ~U[c][i].locked /\ k[c][t].stage = "over"
  /\ \A d \in Conns : \A i \in DOMAIN U[d] : (d # c \/ U[d][i].tag # t) =>
       k2[d][U[d][i].tag] = k[d][U[d][i].tag]

(* What is freed concerns no request that the scheduler knows. *)
LEMMA BookedForget ==
  ASSUME NEW U, NEW U2, NEW k, NEW k2, NEW W, NEW S, NEW n, NEW o,
         NEW c \in Conns, NEW t,
         Booked(U, k, W, S, n, o), Records(W, S), U[c] \in Seq(StateType),
         Freed(U2, U, k2, k, c, t)
  PROVE  Booked(U2, k2, W, S, n, o)
<1>20. /\ \A d \in Conns : d # c => U2[d] = U[d]
       /\ U2[c] = Without(t, U[c])
       /\ \A i \in DOMAIN U[c] : U[c][i].tag = t => ~U[c][i].locked /\ k[c][t].stage = "over"
       /\ \A d \in Conns : \A i \in DOMAIN U[d] : (d # c \/ U[d][i].tag # t) =>
            k2[d][U[d][i].tag] = k[d][U[d][i].tag]
  BY DEF Freed
<1> USE <1>20
<1> DEFINE s == U[c]
           s2 == Without(t, s)
<1>0. PICK p \in [DOMAIN s2 -> DOMAIN s] :
              /\ \A m \in DOMAIN s2 : s2[m] = s[p[m]] /\ s[p[m]].tag # t
              /\ \A m, q \in DOMAIN s2 : m < q => p[m] < p[q]
              /\ \A i \in DOMAIN s : s[i].tag # t => \E m \in DOMAIN s2 : p[m] = i
  <2>1. s \in Seq(StateType)
    OBVIOUS
  <2> HIDE DEF s
  <2>. QED  BY ONLY <2>1, WithoutTag
<1>1. /\ p \in [DOMAIN U2[c] -> DOMAIN U[c]]
      /\ \A m \in DOMAIN U2[c] : U2[c][m] = U[c][p[m]] /\ U[c][p[m]].tag # t
      /\ \A m, q \in DOMAIN U2[c] : m < q => p[m] < p[q]
      /\ \A i \in DOMAIN U[c] : U[c][i].tag # t => \E m \in DOMAIN U2[c] : p[m] = i
  <2>1. U2[c] = s2
    OBVIOUS
  <2> HIDE DEF s2
  <2>. QED  BY <2>1, <1>0
<1>2. U2[c] \in Seq(StateType)
  BY WithoutTag
<1>3. \A m \in DOMAIN U2[c] : m \in Int /\ p[m] \in DOMAIN U[c] /\ p[m] \in Int
  BY <1>1, <1>2
<1>4. \A m, q \in DOMAIN U2[c] : p[m] = p[q] => m = q
  BY <1>1, <1>3
<1>5. \A q \in W \cup S : q.id >= 0
  BY DEF Records, Sched!Request
<1>6. ItemsKnown(U2, k2, W, S, n)
  <2> SUFFICES ASSUME NEW d \in Conns, NEW i \in DOMAIN U2[d], U2[d][i].item >= 0
               PROVE  /\ U2[d][i].item < n
                      /\ U2[d][i].locked => Item(U2[d][i], d) \in W
                      /\ ~U2[d][i].locked /\ k2[d][U2[d][i].tag].stage # "over"
                           => Item(U2[d][i], d) \in S
    BY DEF ItemsKnown
  <2>1. CASE d # c
    BY <2>1 DEF Booked, ItemsKnown
  <2>2. CASE d = c
    <3>1. p[i] \in DOMAIN U[c] /\ U2[d][i] = U[c][p[i]] /\ U[c][p[i]].tag # t
      BY <2>2, <1>1, <1>3
    <3>2. k2[d][U2[d][i].tag] = k[c][U[c][p[i]].tag]
      BY <2>2, <3>1
    <3>3. ItemsKnown(U, k, W, S, n)
      BY DEF Booked
    <3>4. U[c][p[i]].item >= 0
      BY <3>1
    <3>. QED  BY <2>2, <3>1, <3>2, <3>3, <3>4 DEF ItemsKnown
  <2>. QED  BY <2>1, <2>2
<1>7. ItemsUnique(U2)
  <2> DEFINE P(d, i) == IF d = c THEN p[i] ELSE i
  <2>1. \A d \in Conns : \A i \in DOMAIN U2[d] :
          P(d, i) \in DOMAIN U[d] /\ U2[d][i] = U[d][P(d, i)]
    BY <1>1, <1>3
  <2>2. \A d \in Conns : \A i, j \in DOMAIN U2[d] : P(d, i) = P(d, j) => i = j
    BY <1>4
  <2> HIDE DEF P
  <2>. QED  BY <2>1, <2>2 DEF Booked, ItemsUnique
<1>8. \A d \in Conns : \A i \in DOMAIN U[d] : (d # c \/ U[d][i].tag # t) =>
        \E j \in DOMAIN U2[d] : U2[d][j] = U[d][i]
  BY <1>1, <1>3
<1>9. WaitersKnown(U, W) => WaitersKnown(U2, W)
  <2> SUFFICES ASSUME WaitersKnown(U, W), NEW q \in W
               PROVE  \E d \in Conns : \E i \in DOMAIN U2[d] :
                        U2[d][i].locked /\ Item(U2[d][i], d) = q
    BY DEF WaitersKnown
  <2>0. PICK d \in Conns : \E i \in DOMAIN U[d] : U[d][i].locked /\ Item(U[d][i], d) = q
    BY DEF WaitersKnown
  <2>1. PICK i \in DOMAIN U[d] : U[d][i].locked /\ Item(U[d][i], d) = q
    BY <2>0
  <2>2. PICK j \in DOMAIN U2[d] : U2[d][j] = U[d][i]
    BY <2>1, <1>8
  <2>. QED  BY <2>1, <2>2
<1>10. ServedKnown(U, k, S) => ServedKnown(U2, k2, S)
  <2> SUFFICES ASSUME ServedKnown(U, k, S), NEW q \in S
               PROVE  \E d \in Conns : \E i \in DOMAIN U2[d] :
                        /\ ~U2[d][i].locked /\ k2[d][U2[d][i].tag].stage # "over"
                        /\ Item(U2[d][i], d) = q
    BY DEF ServedKnown
  <2>0. PICK d \in Conns : \E i \in DOMAIN U[d] :
          /\ ~U[d][i].locked /\ k[d][U[d][i].tag].stage # "over"
          /\ Item(U[d][i], d) = q
    BY DEF ServedKnown
  <2>1. PICK i \in DOMAIN U[d] :
          /\ ~U[d][i].locked /\ k[d][U[d][i].tag].stage # "over"
          /\ Item(U[d][i], d) = q
    BY <2>0
  <2>2. d # c \/ U[d][i].tag # t
    BY <2>1, <1>5, RecordOfItem
  <2>3. PICK j \in DOMAIN U2[d] : U2[d][j] = U[d][i]
    BY <2>2, <1>8
  <2>. QED  BY <2>1, <2>2, <2>3
<1>. QED  BY <1>6, <1>7, <1>9, <1>10 DEF Booked

(* The lists of connection c are freed, and it leaves the pool.            *)
Emptied(U2, U, k2, k, c) ==
  /\ \A d \in Conns : d # c => U2[d] = U[d] /\ k2[d] = k[d]
  /\ U2[c] = <<>>

(* What a connection leaves behind concerns no other. *)
LEMMA BookedClose ==
  ASSUME NEW U, NEW U2, NEW k, NEW k2, NEW W, NEW S, NEW n, NEW o, NEW o2,
         NEW c \in Conns, Booked(U, k, W, S, n, o), o2 # Conns,
         Emptied(U2, U, k2, k, c)
  PROVE  Booked(U2, k2, W, S, n, o2)
<1>1. ItemsKnown(U, k, W, S, n) /\ ItemsUnique(U)
  BY DEF Booked
<1>2. \A d \in Conns : \A i \in DOMAIN U2[d] :
        d # c /\ i \in DOMAIN U[d] /\ U2[d][i] = U[d][i] /\ k2[d] = k[d]
  BY DEF Emptied
<1>3. ItemsKnown(U2, k2, W, S, n)
  BY <1>1, <1>2 DEF ItemsKnown
<1>4. ItemsUnique(U2)
  BY <1>1, <1>2 DEF ItemsUnique
<1>. QED  BY <1>3, <1>4 DEF Booked
-----------------------------------------------------------------------------
(* What a step does to all lists *)

(* The kind of list. *)
Lists == [Way -> [Conns -> Seq(StateType)]]

(* Some of the locked request states of s are unlocked in s2.              *)
Unlocked(s2, s) ==
  /\ DOMAIN s2 = DOMAIN s
  /\ \A i \in DOMAIN s : s2[i] = s[i] \/ s2[i] = [s[i] EXCEPT !.locked = FALSE]

(* Unlocking changes locked alone. *)
LEMMA UnlockedType ==
  ASSUME NEW s \in Seq(StateType), NEW ids,
         NEW s2, s2 = [i \in DOMAIN s |-> IF s[i].item \in ids
                                          THEN [s[i] EXCEPT !.locked = FALSE] ELSE s[i]]
  PROVE  /\ s2 \in Seq(StateType) /\ Unlocked(s2, s)
         /\ \A i \in DOMAIN s :
              /\ s2[i].item = s[i].item /\ s2[i].tag = s[i].tag
              /\ s2[i].locked <=> s[i].locked /\ s[i].item \notin ids
<1>1. \A i \in DOMAIN s : s[i] \in StateType
  BY ElementOfSeq
<1>2. \A i \in DOMAIN s : s2[i] \in StateType
  BY <1>1 DEF StateType
<1>3. s2 \in Seq(StateType)
  <2>1. DOMAIN s2 = 1 .. Len(s) /\ Len(s) \in Nat /\ s2 = [i \in 1 .. Len(s) |-> s2[i]]
    OBVIOUS
  <2>2. \A i \in 1 .. Len(s) : s2[i] \in StateType
    BY <1>2
  <2>3. s2 \in [1 .. Len(s) -> StateType]
    BY <2>1, <2>2
  <2>. QED  BY ONLY <2>1, <2>3
<1>4. Unlocked(s2, s)
  BY DEF Unlocked
<1>5. \A i \in DOMAIN s :
              /\ s2[i].item = s[i].item /\ s2[i].tag = s[i].tag
              /\ s2[i].locked <=> s[i].locked /\ s[i].item \notin ids
  BY <1>1 DEF StateType
<1>. QED  BY <1>3, <1>4, <1>5

(* Unlock unlocks the items it names on every connection. *)
LEMMA UnlockEffect ==
  ASSUME NEW lists \in Lists, NEW ids
  PROVE  LET new == Unlock(lists, ids)
         IN  /\ new \in Lists /\ new.down = lists.down
             /\ \A d \in Conns : /\ new.up[d] \in Seq(StateType) /\ Unlocked(new.up[d], lists.up[d])
                  /\ \A i \in DOMAIN lists.up[d] :
                       /\ new.up[d][i].item = lists.up[d][i].item
                       /\ new.up[d][i].tag = lists.up[d][i].tag
                       /\ new.up[d][i].locked <=>
                            lists.up[d][i].locked /\ lists.up[d][i].item \notin ids
<1> DEFINE new == Unlock(lists, ids)
           U2 == [d \in Conns |-> [i \in DOMAIN lists.up[d] |->
                    IF lists.up[d][i].item \in ids THEN [lists.up[d][i] EXCEPT !.locked = FALSE]
                                                   ELSE lists.up[d][i]]]
<1>1. new = [lists EXCEPT !.up = U2]
  BY DEF Unlock
<1>2. lists.up \in [Conns -> Seq(StateType)] /\ lists.down \in [Conns -> Seq(StateType)]
  BY DEF Lists, Way
<1>3. \A d \in Conns :
        /\ U2[d] \in Seq(StateType) /\ Unlocked(U2[d], lists.up[d])
        /\ \A i \in DOMAIN lists.up[d] :
             /\ U2[d][i].item = lists.up[d][i].item
             /\ U2[d][i].tag = lists.up[d][i].tag
             /\ U2[d][i].locked <=> lists.up[d][i].locked /\ lists.up[d][i].item \notin ids
  <2> TAKE d \in Conns
  <2> DEFINE s == lists.up[d]
             s2 == [i \in DOMAIN s |-> IF s[i].item \in ids
                                       THEN [s[i] EXCEPT !.locked = FALSE] ELSE s[i]]
  <2>1. s \in Seq(StateType)
    BY <1>2
  <2>2. U2[d] = s2
    OBVIOUS
  <2>3. \A s3 : s3 = s2 =>
          /\ s3 \in Seq(StateType) /\ Unlocked(s3, s)
          /\ \A i \in DOMAIN s :
               /\ s3[i].item = s[i].item /\ s3[i].tag = s[i].tag
               /\ s3[i].locked <=> s[i].locked /\ s[i].item \notin ids
    <3> HIDE DEF s
    <3>. QED  BY <2>1, UnlockedType
  <2> HIDE DEF U2, s2
  <2>. QED  BY <2>2, <2>3
<1>4. U2 \in [Conns -> Seq(StateType)]
  <2>1. U2 = [d \in Conns |-> U2[d]]
    OBVIOUS
  <2> HIDE DEF U2
  <2>. QED  BY <2>1, <1>3
<1> HIDE DEF U2
<1>5. new \in Lists /\ new.down = lists.down /\ new.up = U2
  BY <1>1, <1>4 DEF Lists, Way
<1>. QED  BY <1>5, <1>3

(* Connection c now has the lists U and D; the others have what they had.  *)
Replaced(lists, c, U, D) ==
  /\ lists \in Lists /\ lists.up[c] = U /\ lists.down[c] = D
  /\ \A d \in Conns : d # c => lists.up[d] = list.up[d] /\ lists.down[d] = list.down[d]

(* A list of a connection with the calls and the pointers that go with it. *)
GoodSide(w, s, k, r, d) ==
  /\ s \in Seq(StateType) /\ k \in [Tags -> CallType] /\ \A t \in Tags : CallOK(k[t])
  /\ r \in NameType /\ d \in NameType /\ Side(w, s, k, r, d)

(* What a step that reads a message of connection c establishes.           *)
ReadBy(c, U, D, x, v) ==
  /\ GoodSide("up", U, x, recv'.up[c], send.up[c])
  /\ GoodSide("down", D, x, recv'.down[c], send.down[c])
  /\ call' = [call EXCEPT ![c] = x]
  /\ recv' \in [Way -> [Conns -> NameType]]
  /\ \A w \in Way, d \in Conns : d # c => recv'[w][d] = recv[w][d]
  /\ Refresh(v, c)
  /\ incomplete' = incomplete /\ open' = open

(* A step of one connection leaves the others as they were, but for locks. *)
LEMMA Frame ==
  ASSUME Typed, CallsOK, SidesOK, NEW c \in Conns, NEW lists, NEW U, NEW D, NEW x, NEW v \in Way,
         Replaced(lists, c, U, D), NEW ids, list' = lists \/ list' = Unlock(lists, ids),
         ReadBy(c, U, D, x, v), fault' \in BOOLEAN
  PROVE  Typed' /\ CallsOK' /\ SidesOK'
<1>0. /\ Side("up", U, x, recv'.up[c], send.up[c])
      /\ Side("down", D, x, recv'.down[c], send.down[c])
      /\ call' = [call EXCEPT ![c] = x]
      /\ recv' \in [Way -> [Conns -> NameType]]
      /\ \A w \in Way, d \in Conns : d # c => recv'[w][d] = recv[w][d]
      /\ Refresh(v, c)
      /\ incomplete' = incomplete /\ open' = open
      /\ x \in [Tags -> CallType] /\ \A t \in Tags : CallOK(x[t])
  BY DEF ReadBy, GoodSide
<1>1. /\ list' \in Lists /\ list'.down = lists.down
      /\ \A d \in Conns : list'.up[d] \in Seq(StateType) /\ Unlocked(list'.up[d], lists.up[d])
  <2>1. lists \in Lists
    BY DEF Replaced
  <2>2. CASE list' = lists
    BY <2>1, <2>2 DEF Unlocked, Lists, Way
  <2>3. CASE list' = Unlock(lists, ids)
    BY <2>1, <2>3, UnlockEffect
  <2>. QED  BY <2>2, <2>3
<1>2. call' \in [Conns -> [Tags -> CallType]] /\ CallsOK'
  BY <1>0 DEF Typed, CallsOK
<1>3. send' = [send EXCEPT ![v][c] = UpdateSend(@, list'[v][c])]
  BY <1>0 DEF Refresh
<1>4. send \in [Way -> [Conns -> NameType]] /\ "up" \in Way /\ "down" \in Way
  BY DEF Typed, Way
<1>5. \A w \in Way, d \in Conns :
        send'[w][d] = IF w = v /\ d = c THEN UpdateSend(send[w][d], list'[w][d]) ELSE send[w][d]
  BY <1>3, <1>4
<1>6. \A w \in Way, d \in Conns : Side(w, list'[w][d], call'[d], recv'[w][d], send[w][d])
  <2> TAKE w \in Way, d \in Conns
  <2>1. /\ lists.up[d] \in Seq(StateType)
        /\ d # c => lists.up[d] = list.up[d] /\ lists.down[d] = list.down[d]
    BY DEF Replaced, Lists, Way
  <2>2. call'[d] = IF d = c THEN x ELSE call[d]
    BY <1>0 DEF Typed
  <2>3. Side("down", list'.down[d], call'[d], recv'.down[d], send.down[d])
    <3>1. CASE d = c
      BY <3>1, <2>2, <1>0, <1>1 DEF Replaced
    <3>2. CASE d # c
      BY <3>2, <2>1, <2>2, <1>0, <1>1, <1>4 DEF SidesOK
    <3>. QED  BY <3>1, <3>2
  <2>4. Side("up", lists.up[d], call'[d], recv'.up[d], send.up[d])
    <3>1. CASE d = c
      BY <3>1, <2>2, <1>0 DEF Replaced
    <3>2. CASE d # c
      BY <3>2, <2>1, <2>2, <1>0, <1>4 DEF SidesOK
    <3>. QED  BY <3>1, <3>2
  <2>5. Side("up", list'.up[d], call'[d], recv'.up[d], send.up[d])
    BY <1>1, <1>4, <2>1, <2>4, SideUnlock DEF Unlocked
  <2>. QED  BY <2>3, <2>5 DEF Way
<1>7. \A w \in Way, d \in Conns :
        /\ list'[w][d] \in Seq(StateType) /\ call'[d] \in [Tags -> CallType]
        /\ send[w][d] \in NameType /\ \A t \in Tags : CallOK(call'[d][t])
  BY <1>1, <1>2, <1>4 DEF Lists, CallsOK
<1>8. \A w \in Way, d \in Conns :
        Side(w, list'[w][d], call'[d], recv'[w][d], send'[w][d]) /\ send'[w][d] \in NameType
  <2> TAKE w \in Way, d \in Conns
  <2>1. CASE w = v /\ d = c
    <3>1. send'[w][d] = UpdateSend(send[w][d], list'[w][d])
      BY <2>1, <1>5
    <3>2. /\ list'[w][d] \in Seq(StateType) /\ call'[d] \in [Tags -> CallType]
          /\ send[w][d] \in NameType /\ \A t \in Tags : CallOK(call'[d][t])
          /\ Side(w, list'[w][d], call'[d], recv'[w][d], send[w][d])
      BY <1>6, <1>7
    <3>3. /\ Side(w, list'[w][d], call'[d], recv'[w][d], UpdateSend(send[w][d], list'[w][d]))
          /\ UpdateSend(send[w][d], list'[w][d]) \in NameType
      BY <3>2, SideRefresh
    <3>. QED  BY <3>1, <3>3
  <2>2. CASE ~(w = v /\ d = c)
    BY <2>2, <1>5, <1>6, <1>7
  <2>. QED  BY <2>1, <2>2
<1>9. send' \in [Way -> [Conns -> NameType]]
  <2>1. UpdateSend(send[v][c], list'[v][c]) \in NameType
    BY <1>5, <1>8
  <2>. QED  BY <1>3, <1>4, <2>1
<1>10. SidesOK'
  BY <1>8 DEF SidesOK
<1>. QED  BY <1>0, <1>1, <1>2, <1>9, <1>10 DEF Typed, Lists

(* What the scheduler is about is the same in U2 and U.                    *)
SameItems(U2, U) ==
  \A d \in Conns :
    /\ DOMAIN U2[d] = DOMAIN U[d]
    /\ \A j \in DOMAIN U2[d] :
         /\ U2[d][j].item = U[d][j].item /\ U2[d][j].tag = U[d][j].tag
         /\ U2[d][j].locked <=> U[d][j].locked

(* Only a request that has not been sent is locked.                        *)
LockedAsked(U, k) ==
  \A d \in Conns : \A j \in DOMAIN U[d] :
    U[d][j].locked => k[d][U[d][j].tag].stage = "asked"

(* A completion, with lists that differ from the old ones in nothing that  *)
(* the scheduler is about.                                                 *)
LEMMA CompleteStep ==
  ASSUME Known, BookedOK, NEW c \in Conns, NEW t \in Tags, NEW lists \in Lists,
         NEW i \in DOMAIN lists.up[c], FindRequest(t, lists.up[c]) = i,
         lists.up[c][i].tag = t, lists.up[c][i].item >= 0, ~lists.up[c][i].locked,
         call[c][t].stage # "over", call'[c][t].stage = "over",
         SameItems(lists.up, list.up),
         \A d \in Conns : \A u \in Tags : d # c \/ u # t => call'[d][u] = call[d][u],
         LockedAsked(lists.up, call), call[c][t].stage # "asked",
         \A j \in DOMAIN lists.up[c] :
           lists.up[c][j].item >= 0 /\ lists.up[c][j].tag = t => j = i,
         Complete(c, t, lists), open' = open
  PROVE  /\ BookedOK'
         /\ arrived' = arrived
         /\ list' = lists \/ \E ids : list' = Unlock(lists, ids)
         /\ fault' \in BOOLEAN /\ (open = Conns => ~fault')
<1> DEFINE r == Item(lists.up[c][i], c)
           granted == {q.id : q \in serving' \ serving}
<1>1. Records(waiting, serving)
  BY DEF Known, Records
<1>2. Booked(lists.up, call, waiting, serving, arrived, open)
  <2> DEFINE U == list.up
             U2 == lists.up
  <2>1. /\ \A d \in Conns : \A j \in DOMAIN U2[d] : U2[d][j].item >= 0 =>
             j \in DOMAIN U[d] /\ U2[d][j].item = U[d][j].item
        /\ \A d \in Conns : \A j \in DOMAIN U[d] : U[d][j].item >= 0 =>
             /\ j \in DOMAIN U2[d] /\ U2[d][j].item = U[d][j].item
             /\ U2[d][j].tag = U[d][j].tag /\ (U2[d][j].locked <=> U[d][j].locked)
             /\ call[d][U[d][j].tag].stage = "over" <=> call[d][U[d][j].tag].stage = "over"
    BY DEF SameItems
  <2>2. Booked(U, call, waiting, serving, arrived, open)
    BY DEF BookedOK
  <2> HIDE DEF U, U2
  <2>3. Booked(U2, call, waiting, serving, arrived, open)
    BY <1>1, <2>1, <2>2, BookedSame
  <2>. QED  BY <2>3 DEF U2
<1>3. r \in serving
  BY <1>2 DEF Booked, ItemsKnown
<1>4. /\ Sched!HandOver(r) \/ Sched!Free(r)
      /\ list' = Unlock(lists, granted)
      /\ fault' = \E id \in granted : ~Expected(lists, id)
  BY <1>3 DEF Complete
<1>5. \A d \in Conns : \A j \in DOMAIN lists.up[d] : lists.up[d][j].tag \in Tags
  <2>1. \A d \in Conns : \A j \in DOMAIN lists.up[d] : lists.up[d][j] \in StateType
    BY ElementOfSeq DEF Lists, Way
  <2>. QED  BY <2>1 DEF StateType
<1>6. \A d \in Conns : \A j \in DOMAIN lists.up[d] : (d # c \/ lists.up[d][j].tag # t) =>
        (call'[d][lists.up[d][j].tag].stage = "over" <=> call[d][lists.up[d][j].tag].stage = "over")
  BY <1>5
<1>7. \A d \in Conns : /\ DOMAIN list'.up[d] = DOMAIN lists.up[d]
                       /\ \A j \in DOMAIN lists.up[d] :
                            /\ list'.up[d][j].item = lists.up[d][j].item
                            /\ list'.up[d][j].tag = lists.up[d][j].tag
                            /\ list'.up[d][j].locked <=>
                                 lists.up[d][j].locked /\ lists.up[d][j].item \notin granted
  <2> HIDE DEF granted
  <2>1. list' = Unlock(lists, granted)
    BY <1>4
  <2>2. LET new == Unlock(lists, granted)
        IN \A d \in Conns :
             /\ Unlocked(new.up[d], lists.up[d])
             /\ \A j \in DOMAIN lists.up[d] :
                  /\ new.up[d][j].item = lists.up[d][j].item
                  /\ new.up[d][j].tag = lists.up[d][j].tag
                  /\ new.up[d][j].locked <=>
                       lists.up[d][j].locked /\ lists.up[d][j].item \notin granted
    BY UnlockEffect
  <2>. QED  BY <2>1, <2>2 DEF Unlocked
<1>8. fault' \in BOOLEAN
  BY <1>4
<1>9. CASE Sched!Free(r)
  <2>1. waiting = {} /\ waiting' = {} /\ serving' = serving \ {r} /\ arrived' = arrived
    BY <1>9 DEF Sched!Free
  <2>2. granted = {}
    BY <2>1
  <2>3. Booked(lists.up, call', {}, serving \ {r}, arrived, open)
    <3> DEFINE U == lists.up
    <3>1. Booked(U, call, {}, serving, arrived, open) /\ Records({}, serving)
      BY <1>1, <1>2, <2>1
    <3>2. /\ i \in DOMAIN U[c] /\ U[c][i].item >= 0 /\ call'[c][U[c][i].tag].stage = "over"
          /\ \A j \in DOMAIN U[c] :
               U[c][j].item >= 0 /\ U[c][j].tag = U[c][i].tag => j = i
          /\ \A d \in Conns : \A j \in DOMAIN U[d] : (d # c \/ U[d][j].tag # U[c][i].tag) =>
               (call'[d][U[d][j].tag].stage = "over" <=> call[d][U[d][j].tag].stage = "over")
      BY <1>6
    <3>3. r = Item(U[c][i], c)
      OBVIOUS
    <3> HIDE DEF U, r
    <3>4. Booked(U, call', {}, serving \ {Item(U[c][i], c)}, arrived, open)
      BY ONLY <3>1, <3>2, BookedFree, c \in Conns
    <3>. QED  BY <3>3, <3>4 DEF U
  <2>4. Records({}, serving \ {r})
    BY <1>1 DEF Records
  <2>5. Booked(list'.up, call', {}, serving \ {r}, arrived, open)
    <3>1. \A d \in Conns : \A j \in DOMAIN list'.up[d] : list'.up[d][j].item >= 0 =>
            j \in DOMAIN lists.up[d] /\ list'.up[d][j].item = lists.up[d][j].item
      <4> HIDE DEF granted
      <4>. QED  BY <1>7
    <3>2. \A d \in Conns : \A j \in DOMAIN lists.up[d] : lists.up[d][j].item >= 0 =>
           /\ j \in DOMAIN list'.up[d] /\ list'.up[d][j].item = lists.up[d][j].item
           /\ list'.up[d][j].tag = lists.up[d][j].tag
           /\ (list'.up[d][j].locked <=> lists.up[d][j].locked)
           /\ call'[d][lists.up[d][j].tag].stage = "over"
                <=> call'[d][lists.up[d][j].tag].stage = "over"
      <4> HIDE DEF granted
      <4>. QED  BY <1>7, <2>2
    <3> HIDE DEF r
    <3>. QED  BY <2>3, <2>4, <3>1, <3>2, BookedSame
  <2>6. ~fault'
    BY <1>4, <2>2
  <2>. QED  BY <1>4, <1>8, <2>1, <2>5, <2>6 DEF BookedOK
<1>10. CASE Sched!HandOver(r)
  <2>1. PICK next \in waiting :
          /\ waiting' = waiting \ {next} /\ serving' = (serving \ {r}) \cup {next}
    BY <1>10 DEF Sched!HandOver
  <2>2. arrived' = arrived
    BY <1>10 DEF Sched!HandOver
  <2>3. granted = {next.id}
    BY <2>1, <1>1 DEF Records
  <2>4. Booked(list'.up, call', waiting \ {next}, (serving \ {r}) \cup {next}, arrived, open)
    <3>1. \A d \in Conns : DOMAIN list'.up[d] = DOMAIN lists.up[d]
      <4> HIDE DEF granted
      <4>. QED  BY <1>7
    <3>2. \A d \in Conns : \A j \in DOMAIN lists.up[d] :
            /\ list'.up[d][j].item = lists.up[d][j].item
            /\ list'.up[d][j].tag = lists.up[d][j].tag
            /\ list'.up[d][j].locked <=> lists.up[d][j].locked /\ lists.up[d][j].item # next.id
      <4> HIDE DEF granted
      <4>. QED  BY <1>7, <2>3
    <3> DEFINE U == lists.up
               U2 == list'.up
    <3>3. Booked(U, call, waiting, serving, arrived, open) /\ Records(waiting, serving)
      BY <1>1, <1>2
    <3>4. /\ i \in DOMAIN U[c] /\ U[c][i].item >= 0 /\ ~U[c][i].locked
          /\ Item(U[c][i], c) \in serving /\ call'[c][U[c][i].tag].stage = "over"
          /\ \A d \in Conns : \A j \in DOMAIN U[d] :
               U[d][j].locked => ~(d = c /\ U[d][j].tag = U[c][i].tag)
                                 /\ call[d][U[d][j].tag].stage # "over"
          /\ \A j \in DOMAIN U[c] :
               U[c][j].item >= 0 /\ U[c][j].tag = U[c][i].tag => j = i
      BY <1>3 DEF LockedAsked
    <3>5. /\ \A d \in Conns : \A j \in DOMAIN U[d] : (d # c \/ U[d][j].tag # U[c][i].tag) =>
               (call'[d][U[d][j].tag].stage = "over" <=> call[d][U[d][j].tag].stage = "over")
          /\ \A d \in Conns : DOMAIN U2[d] = DOMAIN U[d]
          /\ \A d \in Conns : \A j \in DOMAIN U[d] :
               /\ U2[d][j].item = U[d][j].item /\ U2[d][j].tag = U[d][j].tag
               /\ U2[d][j].locked <=> U[d][j].locked /\ U[d][j].item # next.id
      BY <1>6, <3>1, <3>2
    <3>6. r = Item(U[c][i], c)
      OBVIOUS
    <3> HIDE DEF U, U2, r
    <3>7. Booked(U2, call', waiting \ {next}, (serving \ {Item(U[c][i], c)}) \cup {next}, arrived, open)
      BY ONLY <3>3, <3>4, <3>5, BookedHandOver, c \in Conns, next \in waiting, SMTT(60)
    <3>. QED  BY <3>6, <3>7 DEF U2
  <2>5. open = Conns => ~fault'
    <3> SUFFICES ASSUME open = Conns
                 PROVE  Expected(lists, next.id)
      BY <1>4, <2>3
    <3>1. PICK d \in Conns : \E j \in DOMAIN lists.up[d] :
            lists.up[d][j].locked /\ Item(lists.up[d][j], d) = next
      BY <1>2 DEF Booked, WaitersKnown
    <3>2. PICK j \in DOMAIN lists.up[d] :
            lists.up[d][j].locked /\ Item(lists.up[d][j], d) = next
      BY <3>1
    <3>3. lists.up[d][j].item = next.id
      BY <3>2, RecordOfItem
    <3>. QED  BY <3>2, <3>3 DEF Expected
  <2>. QED  BY <1>4, <1>8, <2>1, <2>2, <2>4, <2>5 DEF BookedOK
<1>. QED  BY <1>4, <1>9, <1>10
-----------------------------------------------------------------------------
(* What a message that is read does to the two lists of its connection     *)

(* The assumptions on the constants, one by one. *)
LEMMA ConstantTypes ==
  /\ AppOf \in [Conns -> Apps] /\ Kinds \subseteq AllKinds /\ Shares \subseteq Nat
  /\ FlowUnits \in Nat /\ FlowUnits > 0 /\ Depth \in Nat /\ Depth > 0
  /\ MaxRequests \in Nat
BY ProxyAssumption

(* The message at a position of a good list.                               *)
LEMMA GoodMessage ==
  ASSUME NEW w \in Way, NEW s, NEW k, NEW r, NEW d, GoodSide(w, s, k, r, d),
         NEW i \in DOMAIN s
  PROVE  /\ s[i] \in StateType /\ s[i].tag \in Tags
         /\ k[s[i].tag] \in CallType /\ CallOK(k[s[i].tag])
         /\ MsgOK(w, s[i], k[s[i].tag], r, d)
<1>1. s[i] \in StateType
  BY ElementOfSeq DEF GoodSide
<1>2. s[i].tag \in Tags
  BY <1>1 DEF StateType
<1>. QED  BY <1>1, <1>2 DEF GoodSide, Side, MsgsOK

(* Two states of one name are one state. *)
LEMMA SameName ==
  ASSUME NEW w, NEW s, NEW k, NEW r, NEW d, GoodSide(w, s, k, r, d),
         NEW i \in DOMAIN s, NEW j \in DOMAIN s, Name(s[i]) = Name(s[j])
  PROVE  i = j
BY NamesDiffer DEF GoodSide, Side

(* A call that is under way has its first message on both sides.           *)
LEMMA FirstMessage ==
  ASSUME NEW w \in Way, NEW s, NEW k, NEW r, NEW d, GoodSide(w, s, k, r, d),
         NEW t \in Tags, k[t] # NoCall
  PROVE  \E i \in DOMAIN s : /\ Name(s[i]) = <<t, 0>> /\ s[i].tag = t /\ s[i].rank = 0
                             /\ FindRequest(t, s) = i
<1>1. k[t] \in CallType
  BY DEF GoodSide
<1>2. Top(w, k[t]) \in Nat
  BY <1>1 DEF Top, CallType
<1>3. 0 \in Nat /\ 0 <= Top(w, k[t])
  BY <1>2
<1>4. Has(s, <<t, 0>>)
  BY <1>3 DEF GoodSide, Side, AllThere
<1>5. PICK i \in DOMAIN s : Name(s[i]) = <<t, 0>>
  BY <1>4 DEF Has
<1>6. FindRequest(t, s) = i
  BY <1>5, RequestFound DEF GoodSide, Side
<1>. QED  BY <1>5, <1>6 DEF Name

(* A tag that is not in use occurs nowhere.                                *)
LEMMA NoMessage ==
  ASSUME NEW w \in Way, NEW s, NEW k, NEW r, NEW d, GoodSide(w, s, k, r, d),
         NEW t \in Tags, k[t] = NoCall
  PROVE  /\ \A i \in DOMAIN s : s[i].tag # t
         /\ \A n : r # <<t, n>> /\ d # <<t, n>>
<1>1. \A i \in DOMAIN s : s[i].tag # t
  BY GoodMessage DEF MsgOK
<1>2. \A name : Has(s, name) => \A n : name # <<t, n>>
  BY <1>1 DEF Has, Name
<1>3. \A n : <<t, n>> # Nil
  BY DEF Nil
<1>. QED  BY <1>1, <1>2, <1>3 DEF GoodSide, Side, Pointed

(* The call of tag t changes, and no request state does.                   *)
LEMMA SideCall ==
  ASSUME NEW w \in Way, NEW s, NEW k, NEW r, NEW d, GoodSide(w, s, k, r, d),
         NEW t \in Tags, NEW x \in CallType, CallOK(x), k[t] # NoCall,
         \A m \in StateType : m.tag = t /\ MsgOK(w, m, k[t], r, d) => MsgOK(w, m, x, r, d),
         Top(w, x) = Top(w, k[t])
  PROVE  GoodSide(w, s, [k EXCEPT ![t] = x], r, d)
<1> DEFINE k2 == [k EXCEPT ![t] = x]
<1>1. /\ k2 \in [Tags -> CallType] /\ (\A u \in Tags : CallOK(k2[u]))
      /\ \A u \in Tags : k2[u] = IF u = t THEN x ELSE k[u]
  BY DEF GoodSide
<1> HIDE DEF k2
<1>2. MsgsOK(w, s, k2, r, d)
  <2> SUFFICES ASSUME NEW i \in DOMAIN s
               PROVE  MsgOK(w, s[i], k2[s[i].tag], r, d)
    BY DEF MsgsOK
  <2>1. s[i] \in StateType /\ s[i].tag \in Tags /\ MsgOK(w, s[i], k[s[i].tag], r, d)
    BY GoodMessage
  <2>. QED  BY <1>1, <2>1
<1>3. AllThere(w, s, k2)
  <2>1. AllThere(w, s, k)
    BY DEF GoodSide, Side
  <2>. QED  BY <1>1, <2>1 DEF AllThere
<1>. QED  BY <1>1, <1>2, <1>3 DEF GoodSide, Side, k2

(* A request state of a new tag.                                           *)
LEMMA NewState ==
  ASSUME NEW w \in Way, NEW s, NEW k, NEW r, NEW d, GoodSide(w, s, k, r, d),
         NEW t \in Tags, k[t] = NoCall, NEW kind \in Kinds, NEW share \in Nat,
         NEW m \in StateType, m.tag = t, m.rank = 0, m.head = 0, m.op = kind, ~m.final, m.got = 0,
         IF w = "up" THEN /\ m.size = 1 /\ m.tail = 1 /\ m.item >= -1
                          /\ (m.item >= 0 <=> Scheduled(kind))
                          /\ m.locked => m.item >= 0
                     ELSE m.size = 0 /\ m.tail = 0 /\ m.item = -1 /\ ~m.locked
  PROVE  GoodSide(w, Append(s, m), [k EXCEPT ![t] = Call(kind, share)], r, d)
<1> DEFINE x == Call(kind, share)
           k2 == [k EXCEPT ![t] = x]
<1>1. /\ x \in CallType /\ x.kind = kind /\ x.stage = "asked" /\ x.begun = 0 /\ x.landed = 0
      /\ x # NoCall /\ kind \in AllKinds /\ x.share \in Nat
      /\ kind \notin {"read", "write"} => x.share = 0
  <2>1. kind \in AllKinds /\ kind # "none"
    BY ConstantTypes DEF AllKinds
  <2>. QED  BY <2>1 DEF Call, CallType, NoCall
<1>2. CallOK(x)
  <2> HIDE DEF x
  <2>. QED  BY <1>1 DEF CallOK
<1> HIDE DEF x
<1>3. /\ k2 \in [Tags -> CallType] /\ (\A u \in Tags : CallOK(k2[u]))
      /\ \A u \in Tags : k2[u] = IF u = t THEN x ELSE k[u]
  BY <1>1, <1>2 DEF GoodSide
<1> HIDE DEF k2
<1>4. (\A i \in DOMAIN s : s[i].tag # t) /\ r # Name(m) /\ d # Name(m)
  BY NoMessage DEF Name
<1>5. MsgsOK(w, s, k2, r, d)
  <2> SUFFICES ASSUME NEW i \in DOMAIN s
               PROVE  MsgOK(w, s[i], k2[s[i].tag], r, d)
    BY DEF MsgsOK
  <2>1. s[i].tag \in Tags /\ MsgOK(w, s[i], k[s[i].tag], r, d)
    BY GoodMessage
  <2>. QED  BY <1>3, <1>4, <2>1
<1>6. MsgOK(w, m, k2[m.tag], r, d)
  <2>1. MsgOK(w, m, x, r, d)
    <3>1. UpOK(m, x) \/ w = "down"
      BY <1>1 DEF UpOK, Way
    <3>2. DownOK(m, x, r) \/ w = "up"
      BY <1>1 DEF DownOK, Way
    <3>. QED  BY <1>1, <1>4, <3>1, <3>2 DEF MsgOK, Way
  <2>. QED  BY <2>1, <1>3
<1>7. \A u \in Tags : k2[u] # NoCall => \A n \in Nat : n <= Top(w, k2[u]) =>
           Has(s, <<u, n>>) \/ <<u, n>> = Name(m)
  <2> SUFFICES ASSUME NEW u \in Tags, k2[u] # NoCall, NEW n \in Nat, n <= Top(w, k2[u])
               PROVE  Has(s, <<u, n>>) \/ <<u, n>> = Name(m)
    OBVIOUS
  <2>1. CASE u # t
    BY <2>1, <1>3 DEF GoodSide, Side, AllThere
  <2>2. CASE u = t
    <3>1. k2[u] = x /\ Top(w, x) = 0
      BY <2>2, <1>1, <1>3 DEF Top
    <3>2. n = 0
      BY <3>1
    <3>. QED  BY <2>2, <3>2 DEF Name
  <2>. QED  BY <2>1, <2>2
<1>8. Side(w, s, k, r, d) /\ s \in Seq(StateType) /\ r \in NameType /\ d \in NameType
  BY DEF GoodSide
<1>9. Side(w, Append(s, m), k2, r, d) /\ Append(s, m) \in Seq(StateType)
  BY <1>4, <1>5, <1>6, <1>7, <1>8, SideAppend
<1>. QED  BY <1>3, <1>8, <1>9 DEF GoodSide, k2, x

(* A later message of a call that is under way.                            *)
LEMMA NextState ==
  ASSUME NEW w \in Way, NEW s, NEW k, NEW r2, NEW d, GoodSide(w, s, k, Nil, d),
         NEW t \in Tags, NEW x \in CallType, CallOK(x), x # NoCall,
         NEW m \in StateType, m.tag = t, m.head = 0, r2 \in {Nil, Name(m)},
         \A n \in StateType : n.tag = t /\ MsgOK(w, n, k[t], Nil, d) =>
           n.rank < m.rank /\ MsgOK(w, n, x, r2, d),
         MsgOK(w, m, x, r2, d),
         Top(w, x) = Top(w, k[t]) \/ (Top(w, x) = m.rank /\ Top(w, k[t]) = m.rank - 1),
         k[t] # NoCall
  PROVE  GoodSide(w, Append(s, m), [k EXCEPT ![t] = x], r2, d)
<1> DEFINE k2 == [k EXCEPT ![t] = x]
<1>1. /\ k2 \in [Tags -> CallType] /\ (\A u \in Tags : CallOK(k2[u]))
      /\ \A u \in Tags : k2[u] = IF u = t THEN x ELSE k[u]
  BY DEF GoodSide
<1> HIDE DEF k2
<1>2. \A i \in DOMAIN s : /\ s[i] \in StateType /\ s[i].tag \in Tags
                          /\ MsgOK(w, s[i], k[s[i].tag], Nil, d)
  BY GoodMessage
<1>3. \A i \in DOMAIN s : s[i].tag # t => r2 # Name(s[i])
  BY NoName DEF Name
<1>4. MsgsOK(w, s, k2, r2, d)
  <2> SUFFICES ASSUME NEW i \in DOMAIN s
               PROVE  MsgOK(w, s[i], k2[s[i].tag], r2, d)
    BY DEF MsgsOK
  <2>1. CASE s[i].tag = t
    BY <2>1, <1>1, <1>2
  <2>2. CASE s[i].tag # t
    <3>1. k2[s[i].tag] = k[s[i].tag]
      BY <2>2, <1>1, <1>2
    <3>2. MsgOK(w, s[i], k[s[i].tag], Nil, d) /\ r2 # Name(s[i]) /\ Nil # Name(s[i])
      BY <2>2, <1>2, <1>3, NoName
    <3>. QED  BY <3>1, <3>2 DEF MsgOK, DownOK
  <2>. QED  BY <2>1, <2>2
<1>5. \A i \in DOMAIN s : s[i].tag = m.tag => s[i].rank < m.rank
  BY <1>2
<1>6. \A u \in Tags : k2[u] # NoCall => \A n \in Nat : n <= Top(w, k2[u]) =>
           Has(s, <<u, n>>) \/ <<u, n>> = Name(m)
  <2> SUFFICES ASSUME NEW u \in Tags, k2[u] # NoCall, NEW n \in Nat, n <= Top(w, k2[u])
               PROVE  Has(s, <<u, n>>) \/ <<u, n>> = Name(m)
    OBVIOUS
  <2>0. AllThere(w, s, k)
    BY DEF GoodSide, Side
  <2>1. CASE u # t
    BY <2>0, <2>1, <1>1 DEF AllThere
  <2>2. CASE u = t
    <3>1. k2[u] = x /\ m.rank \in Nat
      BY <2>2, <1>1 DEF StateType
    <3>2. CASE n <= Top(w, k[t])
      BY <2>0, <2>2, <3>2 DEF AllThere
    <3>3. CASE ~(n <= Top(w, k[t]))
      <4>1. Top(w, x) = m.rank /\ Top(w, k[t]) = m.rank - 1
        BY <3>1, <3>3
      <4>2. n = m.rank
        BY <3>1, <3>3, <4>1
      <4>. QED  BY <2>2, <4>2 DEF Name
    <3>. QED  BY <3>2, <3>3
  <2>. QED  BY <2>1, <2>2
<1>7. k2[m.tag] = x
  BY <1>1
<1>8. Side(w, s, k, Nil, d) /\ s \in Seq(StateType) /\ d \in NameType
  BY DEF GoodSide
<1>9. Side(w, Append(s, m), k2, r2, d) /\ Append(s, m) \in Seq(StateType)
  BY <1>4, <1>5, <1>6, <1>7, <1>8, SideAppend
<1>10. r2 \in NameType
  BY DEF NameType, Name, StateType
<1>. QED  BY <1>1, <1>8, <1>9, <1>10 DEF GoodSide, k2

(* The message at position i changes, with its call.                       *)
LEMMA ChangedState ==
  ASSUME NEW w \in Way, NEW s, NEW k, NEW r, NEW r2, NEW d, NEW d2, GoodSide(w, s, k, r, d),
         NEW i \in DOMAIN s, NEW m \in StateType, m.tag = s[i].tag, m.rank = s[i].rank,
         NEW x \in CallType, CallOK(x), k[m.tag] # NoCall,
         r2 \in {Nil, r}, d2 \in {Nil, d},
         r2 = Nil => (r = Nil \/ r = Name(m)), d2 = Nil => (d = Nil \/ d = Name(m)),
         MsgOK(w, m, x, r2, d2),
         \A n \in StateType :
           n.tag = m.tag /\ n.rank # m.rank /\ MsgOK(w, n, k[m.tag], r, d)
             => MsgOK(w, n, x, r2, d2),
         \A j \in DOMAIN s : j < i /\ s[j].tag = m.tag /\ Begun(m, d2)
           => s[j].head = s[j].size,
         \A j \in DOMAIN s : i < j /\ s[j].tag = m.tag /\ Begun(s[j], d2)
           => m.head = m.size,
         Top(w, x) = Top(w, k[m.tag]) \/ (Top(w, x) = m.rank /\ Top(w, k[m.tag]) = m.rank - 1)
  PROVE  GoodSide(w, [s EXCEPT ![i] = m], [k EXCEPT ![m.tag] = x], r2, d2)
<1> DEFINE k2 == [k EXCEPT ![m.tag] = x]
           s2 == [s EXCEPT ![i] = m]
           t == m.tag
<1>1. /\ k2 \in [Tags -> CallType] /\ (\A u \in Tags : CallOK(k2[u]))
      /\ \A u \in Tags : k2[u] = IF u = t THEN x ELSE k[u]
  BY DEF GoodSide
<1>2. /\ s2 \in Seq(StateType) /\ DOMAIN s2 = DOMAIN s /\ s2[i] = m
      /\ \A j \in DOMAIN s : j # i => s2[j] = s[j]
  BY DEF GoodSide
<1>0. t \in Tags /\ m.rank \in Nat
  BY DEF StateType
<1> HIDE DEF k2, s2
<1>3. \A j \in DOMAIN s : /\ s[j] \in StateType /\ s[j].tag \in Tags
                          /\ MsgOK(w, s[j], k[s[j].tag], r, d)
  BY GoodMessage
<1>4. \A j \in DOMAIN s : j # i => s[j].tag # t \/ s[j].rank # m.rank
  BY SameName DEF Name
<1>5. \A j \in DOMAIN s : s[j].tag # t =>
        /\ r2 = Name(s[j]) <=> r = Name(s[j])
        /\ d2 = Name(s[j]) <=> d = Name(s[j])
  BY NoName DEF Name
<1>6. MsgsOK(w, s2, k2, r2, d2)
  <2> SUFFICES ASSUME NEW j \in DOMAIN s
               PROVE  MsgOK(w, s2[j], k2[s2[j].tag], r2, d2)
    BY <1>2 DEF MsgsOK
  <2>1. CASE j = i
    BY <2>1, <1>0, <1>1, <1>2
  <2>2. CASE j # i /\ s[j].tag = t
    BY <2>2, <1>1, <1>2, <1>3, <1>4
  <2>3. CASE j # i /\ s[j].tag # t
    <3>1. k2[s2[j].tag] = k[s[j].tag] /\ s2[j] = s[j]
      BY <2>3, <1>1, <1>2, <1>3
    <3>2. /\ MsgOK(w, s[j], k[s[j].tag], r, d)
          /\ r2 = Name(s[j]) <=> r = Name(s[j])
          /\ d2 = Name(s[j]) <=> d = Name(s[j])
      BY <2>3, <1>3, <1>5
    <3>. QED  BY <3>1, <3>2 DEF MsgOK, DownOK
  <2>. QED  BY <2>1, <2>2, <2>3
<1>7. SentInOrder(s2, d2)
  <2> SUFFICES ASSUME NEW a \in DOMAIN s, NEW b \in DOMAIN s, a < b, s2[a].tag = s2[b].tag,
                      Begun(s2[b], d2)
               PROVE  s2[a].head = s2[a].size
    BY <1>2 DEF SentInOrder
  <2>1. s[a].tag = s[b].tag /\ a # b
    <3>1. a \in Int /\ b \in Int
      BY DEF GoodSide
    <3>. QED  BY <1>2, <3>1
  <2>2. CASE a = i
    BY <1>2, <2>1, <2>2
  <2>3. CASE b = i
    BY <1>2, <2>1, <2>3
  <2>4. CASE a # i /\ b # i
    <3>1. Begun(s[b], d)
      BY <1>2, <2>4, NoName DEF Begun
    <3>. QED  BY <1>2, <2>1, <2>4, <3>1 DEF GoodSide, Side, SentInOrder
  <2>. QED  BY <2>2, <2>3, <2>4
<1>8. (r2 # Nil => Has(s, r2)) /\ (d2 # Nil => Has(s, d2))
  BY DEF GoodSide, Side, Pointed
<1>9. \A u \in Tags : k2[u] # NoCall => k[u] # NoCall
  BY <1>1
<1>10. \A u \in Tags : k2[u] # NoCall => \A n \in Nat : n <= Top(w, k2[u]) =>
           n <= Top(w, k[u]) \/ Has(s, <<u, n>>)
  <2> SUFFICES ASSUME NEW n \in Nat, n <= Top(w, x)
               PROVE  n <= Top(w, k[t]) \/ Has(s, <<t, n>>)
    BY <1>1
  <2>1. CASE n = m.rank
    BY <2>1 DEF Has, Name
  <2>2. CASE n # m.rank
    BY <1>0, <2>2
  <2>. QED  BY <2>1, <2>2
<1>11. \A j \in DOMAIN s : s2[j].tag = s[j].tag /\ s2[j].rank = s[j].rank
  BY <1>2
<1>12. Side(w, s, k, r, d) /\ r2 \in NameType /\ d2 \in NameType
  BY DEF GoodSide, NameType
<1>13. Side(w, s2, k2, r2, d2)
  BY <1>2, <1>6, <1>7, <1>8, <1>9, <1>10, <1>11, <1>12, SideChange
<1>. QED  BY <1>1, <1>2, <1>12, <1>13 DEF GoodSide, k2, s2
-----------------------------------------------------------------------------
(* The steps that read a message *)

(* Answers are there in one piece, and no metadata request occurs that the *)
(* scheduler has not accepted.                                             *)
Scope == Whole = {TRUE} /\ (AcceptMeta \/ "meta" \notin Kinds)

(* What IInv says of one connection. *)
LEMMA Connection ==
  ASSUME IInv, NEW c \in Conns
  PROVE  /\ GoodSide("up", list.up[c], call[c], recv.up[c], send.up[c])
         /\ GoodSide("down", list.down[c], call[c], recv.down[c], send.down[c])
         /\ list \in Lists /\ "up" \in Way /\ "down" \in Way
         /\ recv \in [Way -> [Conns -> NameType]]
         /\ call \in [Conns -> [Tags -> CallType]] /\ call[c] \in [Tags -> CallType]
         /\ \A t \in Tags : call[c][t] \in CallType /\ CallOK(call[c][t])
BY DEF IInv, Typed, CallsOK, SidesOK, GoodSide, Lists, Way

(* A step that reads a message keeps IInv, if it keeps it where it reads. *)
LEMMA Kept ==
  ASSUME IInv, NEW c \in open, NEW lists, NEW U, NEW D, NEW x, NEW v \in Way,
         Replaced(lists, c, U, D), NEW ids, list' = lists \/ list' = Unlock(lists, ids),
         ReadBy(c, U, D, x, v), BookedOK', arrived' <= MaxRequests,
         fault' \in BOOLEAN, open = Conns => ~fault'
  PROVE  IInv'
<1>1. Typed /\ CallsOK /\ SidesOK /\ c \in Conns
  BY DEF IInv, Typed
<1>2. call' = [call EXCEPT ![c] = x] /\ open' = open
  BY DEF ReadBy
<1>3. Typed' /\ CallsOK' /\ SidesOK'
  BY <1>1, Frame
<1>4. \A d \in Conns \ open', t \in Tags : call'[d][t] = NoCall
  BY <1>1, <1>2 DEF IInv, Typed
<1>5. NoFault'
  BY <1>2 DEF NoFault, Undisturbed
<1>. QED  BY <1>3, <1>4, <1>5 DEF IInv

(* The request states of connection c that have an item keep it, and their *)
(* calls are as far as they were.                                          *)
QuietItems(c, U, x) ==
  /\ \A i \in DOMAIN U : U[i].item >= 0 =>
       i \in DOMAIN list.up[c] /\ U[i].item = list.up[c][i].item
  /\ \A i \in DOMAIN list.up[c] : list.up[c][i].item >= 0 =>
       /\ i \in DOMAIN U /\ U[i].item = list.up[c][i].item
       /\ U[i].tag = list.up[c][i].tag /\ (U[i].locked <=> list.up[c][i].locked)
       /\ x[U[i].tag].stage = "over" <=> call[c][U[i].tag].stage = "over"

(* What the scheduler has still fits a connection whose request states are *)
(* as QuietItems says.                                                     *)
LEMMA QuietBooked ==
  ASSUME IInv, Known, NEW c \in open, NEW U, NEW x,
         list'.up[c] = U, \A d \in Conns : d # c => list'.up[d] = list.up[d],
         call' = [call EXCEPT ![c] = x], open' = open, UNCHANGED scheduler,
         QuietItems(c, U, x)
  PROVE  BookedOK' /\ arrived' <= MaxRequests
<1>1. /\ BookedOK /\ call \in [Conns -> [Tags -> CallType]] /\ c \in Conns
      /\ arrived' = arrived /\ waiting' = waiting /\ serving' = serving
      /\ arrived <= MaxRequests
  BY DEF IInv, Typed, scheduler
<1>2. Records(waiting, serving)
  BY DEF Known, Records
<1>3. \A d \in Conns : list'.up[d] = IF d = c THEN U ELSE list.up[d]
  OBVIOUS
<1>4. \A d \in Conns : call'[d] = IF d = c THEN x ELSE call[d]
  BY <1>1
<1>5. /\ \A d \in Conns : \A i \in DOMAIN list'.up[d] : list'.up[d][i].item >= 0 =>
           i \in DOMAIN list.up[d] /\ list'.up[d][i].item = list.up[d][i].item
      /\ \A d \in Conns : \A i \in DOMAIN list.up[d] : list.up[d][i].item >= 0 =>
           /\ i \in DOMAIN list'.up[d] /\ list'.up[d][i].item = list.up[d][i].item
           /\ list'.up[d][i].tag = list.up[d][i].tag
           /\ (list'.up[d][i].locked <=> list.up[d][i].locked)
           /\ call'[d][list.up[d][i].tag].stage = "over"
                <=> call[d][list.up[d][i].tag].stage = "over"
  BY <1>3, <1>4 DEF QuietItems
<1>6. BookedOK'
  <2> DEFINE U1 == list.up
             U2 == list'.up
             k2 == call'
  <2>1. /\ \A d \in Conns : \A i \in DOMAIN U2[d] : U2[d][i].item >= 0 =>
             i \in DOMAIN U1[d] /\ U2[d][i].item = U1[d][i].item
        /\ \A d \in Conns : \A i \in DOMAIN U1[d] : U1[d][i].item >= 0 =>
             /\ i \in DOMAIN U2[d] /\ U2[d][i].item = U1[d][i].item
             /\ U2[d][i].tag = U1[d][i].tag /\ (U2[d][i].locked <=> U1[d][i].locked)
             /\ k2[d][U1[d][i].tag].stage = "over" <=> call[d][U1[d][i].tag].stage = "over"
    BY <1>5
  <2>2. Booked(U1, call, waiting, serving, arrived, open)
    BY <1>1 DEF BookedOK
  <2> HIDE DEF U1, U2, k2
  <2>3. Booked(U2, k2, waiting, serving, arrived, open)
    BY <1>2, <2>1, <2>2, BookedSame
  <2>. QED  BY <1>1, <2>3 DEF BookedOK, U2, k2
<1>. QED  BY <1>1, <1>6

(* A step that the scheduler has nothing to do with.                       *)
LEMMA QuietStep ==
  ASSUME IInv, Known, NEW c \in open, NEW U, NEW D, NEW x, NEW v \in Way,
         Replaced(list', c, U, D), ReadBy(c, U, D, x, v), fault' = FALSE, UNCHANGED scheduler,
         QuietItems(c, U, x)
  PROVE  IInv'
<1>1. /\ open' = open /\ call' = [call EXCEPT ![c] = x] /\ list'.up[c] = U
      /\ \A d \in Conns : d # c => list'.up[d] = list.up[d]
  BY DEF ReadBy, Replaced
<1>2. BookedOK' /\ arrived' <= MaxRequests
  BY <1>1, QuietBooked
<1>3. fault' \in BOOLEAN /\ (list' = list' \/ list' = Unlock(list', {}))
  OBVIOUS
<1>. QED  BY <1>2, <1>3, Kept

(* List s2 names the same request states as s, with their items and locks. *)
SameStates(s2, s) ==
  /\ DOMAIN s2 = DOMAIN s
  /\ \A i \in DOMAIN s :
       /\ s2[i].item = s[i].item /\ s2[i].tag = s[i].tag /\ s2[i].rank = s[i].rank
       /\ s2[i].locked <=> s[i].locked

(* A step that completes a scheduled request.                              *)
LEMMA CompletingStep ==
  ASSUME IInv, Known, NEW c \in open, NEW t \in Tags,
         NEW lists, NEW U, NEW D, NEW x, NEW v \in Way,
         Replaced(lists, c, U, D), ReadBy(c, U, D, x, v), Complete(c, t, lists),
         Scheduled(call[c][t].kind), call[c][t].stage \notin {"none", "asked", "over"},
         x[t].stage = "over", \A u \in Tags : u # t => x[u] = call[c][u],
         SameStates(U, list.up[c])
  PROVE  IInv'
<1>1. c \in Conns
  BY DEF IInv, Typed
<1>2. /\ GoodSide("up", list.up[c], call[c], recv.up[c], send.up[c]) /\ list \in Lists
      /\ "up" \in Way /\ \A d \in Conns : call[d] \in [Tags -> CallType]
      /\ call \in [Conns -> [Tags -> CallType]]
  BY <1>1, Connection
<1>3. call[c][t] # NoCall
  BY DEF NoCall
<1>4. PICK i \in DOMAIN list.up[c] :
         /\ Name(list.up[c][i]) = <<t, 0>>
         /\ list.up[c][i].tag = t /\ list.up[c][i].rank = 0
  BY <1>2, <1>3, FirstMessage
<1>5. list.up[c][i].item >= 0 /\ ~list.up[c][i].locked
  <2>1. UpOK(list.up[c][i], call[c][t]) /\ list.up[c][i] \in StateType
    BY <1>2, <1>4, GoodMessage DEF MsgOK
  <2>. QED  BY <1>4, <2>1 DEF UpOK, StateType
<1>6. FindRequest(t, U) = i
  <2>1. U \in Seq(StateType) /\ Ranked(U)
    BY DEF ReadBy, GoodSide, Side
  <2>2. Name(U[i]) = <<t, 0>>
    BY <1>4 DEF Name, SameStates
  <2>. QED  BY <1>4, <2>1, <2>2, RequestFound DEF SameStates
<1>7. /\ lists \in Lists /\ lists.up[c] = U
      /\ \A d \in Conns : d # c => lists.up[d] = list.up[d]
  BY DEF Replaced
<1>8. \A d \in Conns : \A j \in DOMAIN list.up[d] :
        /\ list.up[d][j].locked => call[d][list.up[d][j].tag].stage = "asked"
        /\ list.up[d][j].item >= 0 => list.up[d][j].rank = 0
  <2> SUFFICES ASSUME NEW d \in Conns, NEW j \in DOMAIN list.up[d]
               PROVE  /\ list.up[d][j].locked => call[d][list.up[d][j].tag].stage = "asked"
                      /\ list.up[d][j].item >= 0 => list.up[d][j].rank = 0
    OBVIOUS
  <2>1. GoodSide("up", list.up[d], call[d], recv.up[d], send.up[d])
    BY Connection
  <2>2. UpOK(list.up[d][j], call[d][list.up[d][j].tag])
    BY <1>2, <2>1, GoodMessage DEF MsgOK
  <2>. QED  BY <2>2 DEF UpOK
<1>9. \A j \in DOMAIN list.up[c] :
        list.up[c][j].item >= 0 /\ list.up[c][j].tag = t => j = i
  <2> SUFFICES ASSUME NEW j \in DOMAIN list.up[c],
                      list.up[c][j].item >= 0, list.up[c][j].tag = t
               PROVE  j = i
    OBVIOUS
  <2>1. Name(list.up[c][j]) = Name(list.up[c][i])
    BY <1>1, <1>4, <1>8 DEF Name
  <2>. QED  BY <1>2, <2>1, SameName
<1>10. /\ call' = [call EXCEPT ![c] = x] /\ open' = open
  BY DEF ReadBy
<1>11. \A d \in Conns : \A u \in Tags :
         call'[d][u] = IF d = c THEN x[u] ELSE call[d][u]
  BY <1>2, <1>10
<1>12. SameItems(lists.up, list.up)
  BY <1>7 DEF SameItems, SameStates
<1>13. /\ i \in DOMAIN lists.up[c] /\ FindRequest(t, lists.up[c]) = i
       /\ lists.up[c][i].tag = t /\ lists.up[c][i].item >= 0 /\ ~lists.up[c][i].locked
  BY <1>4, <1>5, <1>6, <1>7 DEF SameStates
<1>14. /\ LockedAsked(lists.up, call)
       /\ \A j \in DOMAIN lists.up[c] :
           lists.up[c][j].item >= 0 /\ lists.up[c][j].tag = t => j = i
  BY <1>1, <1>8, <1>9, <1>12 DEF SameItems, LockedAsked
<1>15. /\ call[c][t].stage # "over" /\ call[c][t].stage # "asked"
       /\ call'[c][t].stage = "over"
       /\ \A d \in Conns : \A u \in Tags : d # c \/ u # t => call'[d][u] = call[d][u]
  BY <1>1, <1>11
<1>16. BookedOK /\ arrived <= MaxRequests
  BY DEF IInv
<1>17. /\ BookedOK' /\ arrived' = arrived
       /\ list' = lists \/ \E ids : list' = Unlock(lists, ids)
       /\ fault' \in BOOLEAN /\ (open = Conns => ~fault')
  BY <1>1, <1>7, <1>10, <1>12, <1>13, <1>14, <1>15, <1>16, CompleteStep
<1>18. PICK ids : list' = lists \/ list' = Unlock(lists, ids)
  BY <1>17
<1>. QED  BY <1>16, <1>17, <1>18, Kept
-----------------------------------------------------------------------------
(* The actions that read a message *)

(* Replacing the two lists of a connection, from lists that did so before. *)
LEMMA Replacing ==
  ASSUME NEW lists, NEW c \in Conns, NEW U0, NEW D0, Replaced(lists, c, U0, D0),
         NEW U \in Seq(StateType), NEW D \in Seq(StateType), NEW new,
         new = [lists EXCEPT !.up[c] = U, !.down[c] = D]
  PROVE  Replaced(new, c, U, D)
<1>0. /\ lists \in Lists /\ lists.up[c] = U0 /\ lists.down[c] = D0
      /\ \A d \in Conns : d # c => lists.up[d] = list.up[d] /\ lists.down[d] = list.down[d]
  BY DEF Replaced
<1>1. /\ DOMAIN lists = Way /\ "up" \in Way /\ "down" \in Way /\ "up" # "down"
      /\ \A w \in Way : lists[w] \in [Conns -> Seq(StateType)]
  BY <1>0 DEF Lists, Way
<1>2. \A w \in Way : DOMAIN lists[w] = Conns
  BY <1>1
<1>3. /\ new.up = [lists.up EXCEPT ![c] = U] /\ new.down = [lists.down EXCEPT ![c] = D]
      /\ DOMAIN new = Way /\ new = [w \in Way |-> new[w]]
  BY <1>1
<1>4. new.up \in [Conns -> Seq(StateType)] /\ new.down \in [Conns -> Seq(StateType)]
  BY <1>1, <1>3
<1>5. new \in Lists
  BY <1>3, <1>4 DEF Lists, Way
<1>. QED  BY <1>0, <1>1, <1>2, <1>3, <1>5 DEF Replaced

(* The client's list alone. *)
LEMMA ReplacingUp ==
  ASSUME NEW lists, NEW c \in Conns, NEW U0, NEW D, Replaced(lists, c, U0, D),
         NEW U \in Seq(StateType), NEW new, new = [lists EXCEPT !.up[c] = U]
  PROVE  Replaced(new, c, U, D)
<1>0. /\ lists \in Lists /\ lists.up[c] = U0 /\ lists.down[c] = D
      /\ \A d \in Conns : d # c => lists.up[d] = list.up[d] /\ lists.down[d] = list.down[d]
  BY DEF Replaced
<1>1. /\ lists \in [Way -> [Conns -> Seq(StateType)]] /\ "up" \in Way /\ "down" \in Way
      /\ lists.up \in [Conns -> Seq(StateType)]
  BY <1>0 DEF Lists, Way
<1> DEFINE u == [lists.up EXCEPT ![c] = U]
<1>2. u \in [Conns -> Seq(StateType)] /\ u[c] = U /\ \A d \in Conns : d # c => u[d] = lists.up[d]
  BY <1>1
<1>3. new = [lists EXCEPT !["up"] = u]
  OBVIOUS
<1> HIDE DEF u
<1>4. new \in Lists /\ new.up = u /\ new.down = lists.down
  BY <1>1, <1>2, <1>3 DEF Lists
<1>. QED  BY <1>0, <1>2, <1>4 DEF Replaced

(* The server's list alone. *)
LEMMA ReplacingDown ==
  ASSUME NEW lists, NEW c \in Conns, NEW U, NEW D0, Replaced(lists, c, U, D0),
         NEW D \in Seq(StateType), NEW new, new = [lists EXCEPT !.down[c] = D]
  PROVE  Replaced(new, c, U, D)
<1>0. /\ lists \in Lists /\ lists.up[c] = U /\ lists.down[c] = D0
      /\ \A d \in Conns : d # c => lists.up[d] = list.up[d] /\ lists.down[d] = list.down[d]
  BY DEF Replaced
<1>1. /\ lists \in [Way -> [Conns -> Seq(StateType)]] /\ "up" \in Way /\ "down" \in Way
      /\ lists.down \in [Conns -> Seq(StateType)]
  BY <1>0 DEF Lists, Way
<1> DEFINE u == [lists.down EXCEPT ![c] = D]
<1>2. u \in [Conns -> Seq(StateType)] /\ u[c] = D /\ \A d \in Conns : d # c => u[d] = lists.down[d]
  BY <1>1
<1>3. new = [lists EXCEPT !["down"] = u]
  OBVIOUS
<1> HIDE DEF u
<1>4. new \in Lists /\ new.down = u /\ new.up = lists.up
  BY <1>1, <1>2, <1>3 DEF Lists
<1>. QED  BY <1>0, <1>2, <1>4 DEF Replaced

(* Lists that are as they were. *)
LEMMA NotReplaced ==
  ASSUME list \in Lists, NEW c \in Conns
  PROVE  Replaced(list, c, list.up[c], list.down[c])
BY DEF Replaced

(* A new state without an item concerns no request of the scheduler. *)
LEMMA QuietAppend ==
  ASSUME NEW c, NEW x, list.up[c] \in Seq(StateType), NEW m \in StateType, m.item = -1,
         \A i \in DOMAIN list.up[c] : list.up[c][i].item >= 0 =>
           (x[list.up[c][i].tag].stage = "over" <=> call[c][list.up[c][i].tag].stage = "over")
  PROVE  QuietItems(c, Append(list.up[c], m), x)
<1> DEFINE s == list.up[c]
           U == Append(s, m)
<1>1. /\ \A i \in DOMAIN s : i \in DOMAIN U /\ U[i] = s[i]
      /\ \A i \in DOMAIN U : i \in DOMAIN s \/ U[i] = m
  OBVIOUS
<1> HIDE DEF U
<1>. QED  BY <1>1 DEF QuietItems, U

(* Nor do states that keep their items. *)
LEMMA QuietSame ==
  ASSUME NEW c, NEW x, NEW U, SameStates(U, list.up[c]),
         \A i \in DOMAIN list.up[c] : list.up[c][i].item >= 0 =>
           (x[list.up[c][i].tag].stage = "over" <=> call[c][list.up[c][i].tag].stage = "over")
  PROVE  QuietItems(c, U, x)
BY DEF SameStates, QuietItems

(* The two request states a request brings.                                *)
LEMMA RequestLists ==
  ASSUME IInv, NEW c \in open, NEW t \in Tags, NEW kind \in Kinds, NEW share \in Shares,
         call[c][t] = NoCall, call' = [call EXCEPT ![c][t] = Call(kind, share)],
         NEW m \in StateType, m.tag = t, m.rank = 0, m.head = 0, m.op = kind, ~m.final, m.got = 0,
         m.size = 1, m.tail = 1, m.item >= -1,
         m.item >= 0 <=> Scheduled(kind), m.locked => m.item >= 0,
         list' = [list EXCEPT !.up[c] = Append(@, m), !.down[c] = Append(@, State(t, 0, kind, 0))],
         Refresh("up", c), UNCHANGED <<recv, incomplete, open>>
  PROVE  LET U == Append(list.up[c], m)
             D == Append(list.down[c], State(t, 0, kind, 0))
         IN  /\ Replaced(list', c, U, D)
             /\ ReadBy(c, U, D, [call[c] EXCEPT ![t] = Call(kind, share)], "up")
<1> DEFINE n == State(t, 0, kind, 0)
           x == [call[c] EXCEPT ![t] = Call(kind, share)]
           U == Append(list.up[c], m)
           D == Append(list.down[c], n)
<1>1. c \in Conns /\ share \in Nat /\ kind \in AllKinds
  BY ConstantTypes DEF IInv, Typed
<1>2. /\ GoodSide("up", list.up[c], call[c], recv.up[c], send.up[c])
      /\ GoodSide("down", list.down[c], call[c], recv.down[c], send.down[c])
      /\ list \in Lists /\ "up" \in Way /\ "down" \in Way
      /\ recv \in [Way -> [Conns -> NameType]]
      /\ call \in [Conns -> [Tags -> CallType]]
  BY <1>1, Connection
<1>3. /\ n \in StateType /\ n.tag = t /\ n.rank = 0 /\ n.head = 0 /\ n.op = kind /\ ~n.final
      /\ n.got = 0 /\ n.size = 0 /\ n.tail = 0 /\ n.item = -1 /\ ~n.locked
  BY <1>1 DEF State, StateType
<1> HIDE DEF n
<1>4. GoodSide("up", U, x, recv.up[c], send.up[c])
  BY <1>1, <1>2, NewState
<1>5. GoodSide("down", D, x, recv.down[c], send.down[c])
  BY <1>1, <1>2, <1>3, NewState
<1>6. U \in Seq(StateType) /\ D \in Seq(StateType)
  BY <1>4, <1>5 DEF GoodSide
<1>7. list' = [list EXCEPT !.up[c] = U, !.down[c] = D]
  BY <1>2 DEF n, Lists, Way
<1>8. call' = [call EXCEPT ![c] = x]
  BY <1>2
<1> HIDE DEF U, D, x
<1>0. Replaced(list, c, list.up[c], list.down[c])
  BY <1>1, <1>2, NotReplaced
<1>9. Replaced(list', c, U, D)
  BY ONLY <1>0, <1>1, <1>6, <1>7, Replacing
<1>10. ReadBy(c, U, D, x, "up")
  BY <1>2, <1>4, <1>5, <1>8 DEF ReadBy
<1>. QED  BY <1>9, <1>10 DEF n, U, D, x

(* check_request reads a request: it is new, released or locked. *)
LEMMA RequestStep ==
  ASSUME IInv, Known, NEW c \in open, NEW t \in Tags, NEW kind \in Kinds, NEW share \in Shares,
         RecvRequest(c, t, kind, share)
  PROVE  IInv'
<1> DEFINE rs == [State(t, 0, kind, 1) EXCEPT !.tail = 1]
           n == State(t, 0, kind, 0)
           x == [call[c] EXCEPT ![t] = Call(kind, share)]
           D == Append(list.down[c], n)
           Put(m) == [list EXCEPT !.up[c] = Append(@, m), !.down[c] = Append(@, n)]
<1>1. /\ c \in Conns /\ kind \in AllKinds /\ arrived \in Nat /\ arrived <= MaxRequests
      /\ MaxRequests \in Nat /\ BookedOK
  BY ConstantTypes DEF IInv, Typed, Known
<1>2. /\ GoodSide("up", list.up[c], call[c], recv.up[c], send.up[c])
      /\ GoodSide("down", list.down[c], call[c], recv.down[c], send.down[c])
      /\ list \in Lists /\ "up" \in Way /\ "down" \in Way
      /\ call \in [Conns -> [Tags -> CallType]]
      /\ \A d \in Conns : list.up[d] \in Seq(StateType)
  BY <1>1, Connection DEF Lists
<1>3. /\ call[c][t] = NoCall /\ call' = [call EXCEPT ![c][t] = Call(kind, share)]
      /\ fault' = InUse(t, list.down[c]) /\ Refresh("up", c)
      /\ UNCHANGED <<recv, incomplete, open>>
  BY DEF RecvRequest
<1>4. \/ /\ Scheduled(kind) /\ arrived < MaxRequests /\ Sched!Release(AppOf[c])
         /\ list' = Put([rs EXCEPT !.item = arrived])
      \/ /\ Scheduled(kind) /\ arrived < MaxRequests /\ Sched!Hold(AppOf[c])
         /\ list' = Put([rs EXCEPT !.item = arrived, !.locked = TRUE])
      \/ ~Scheduled(kind) /\ list' = Put(rs) /\ UNCHANGED scheduler
  BY DEF RecvRequest
<1>5. fault' = FALSE /\ (\A i \in DOMAIN list.up[c] : list.up[c][i].tag # t)
  <2>1. \A w \in Way : \A i \in DOMAIN list[w][c] : list[w][c][i].tag # t
    BY <1>2, <1>3, NoMessage DEF Way
  <2>. QED  BY <1>2, <1>3, <2>1 DEF InUse
<1> DEFINE new == State(t, 0, kind, 1)
<1>6. /\ new \in StateType /\ new.tag = t /\ new.rank = 0 /\ new.head = 0 /\ new.op = kind
      /\ ~new.final /\ new.got = 0 /\ new.size = 1 /\ new.item = -1 /\ ~new.locked
  BY <1>1 DEF State, StateType
<1>0. rs = [new EXCEPT !.tail = 1]
  OBVIOUS
<1> HIDE DEF rs, new
<1>15. /\ rs \in StateType /\ rs.tag = t /\ rs.rank = 0 /\ rs.head = 0 /\ rs.op = kind
       /\ ~rs.final /\ rs.got = 0 /\ rs.size = 1 /\ rs.tail = 1 /\ rs.item = -1 /\ ~rs.locked
  BY <1>0, <1>6 DEF StateType
<1>7. Records(waiting, serving)
  BY DEF Known, Records
<1>8. x[t].stage = "asked" /\ call' = [call EXCEPT ![c] = x]
      /\ \A d \in Conns : \A u \in Tags : d # c \/ u # t => call'[d][u] = call[d][u]
  BY <1>1, <1>2, <1>3 DEF Call
<1>9. call'[c][t].stage = "asked" /\ call[c][t].stage # "over"
  BY <1>1, <1>2, <1>3, <1>8 DEF NoCall
<1>10. \A d \in Conns : \A i \in DOMAIN list.up[d] :
         /\ list.up[d][i] \in StateType /\ list.up[d][i].item \in Int
         /\ call'[d][list.up[d][i].tag].stage = "over"
              <=> call[d][list.up[d][i].tag].stage = "over"
  <2> SUFFICES ASSUME NEW d \in Conns, NEW i \in DOMAIN list.up[d]
               PROVE  /\ list.up[d][i] \in StateType /\ list.up[d][i].item \in Int
                      /\ call'[d][list.up[d][i].tag].stage = "over"
                           <=> call[d][list.up[d][i].tag].stage = "over"
    OBVIOUS
  <2>1. list.up[d][i] \in StateType
    BY <1>2, ElementOfSeq
  <2>. QED  BY <2>1, <1>5, <1>8 DEF StateType
<1> HIDE DEF n, x
<1>11. ASSUME Scheduled(kind), arrived < MaxRequests, NEW m \in StateType,
              m.item = arrived, m.tag = t, m.rank = 0, m.head = 0, m.op = kind, ~m.final,
              m.got = 0, m.size = 1, m.tail = 1,
              list' = Put(m), arrived' = arrived + 1,
              LET r == [id |-> arrived, app |-> AppOf[c]]
              IN  \/ m.locked /\ waiting' = waiting \cup {r} /\ serving' = serving
                  \/ ~m.locked /\ waiting' = waiting /\ serving' = serving \cup {r}
       PROVE  IInv'
  <2> DEFINE U == Append(list.up[c], m)
             e == Len(list.up[c]) + 1
             r == [id |-> arrived, app |-> AppOf[c]]
             L == list.up
             L2 == list'.up
  <2>1. Replaced(list', c, U, D) /\ ReadBy(c, U, D, x, "up")
    <3>1. m.item >= -1 /\ (m.item >= 0 <=> Scheduled(kind)) /\ (m.locked => m.item >= 0)
      BY <1>1, <1>11
    <3>2. list' = [list EXCEPT !.up[c] = Append(@, m), !.down[c] = Append(@, State(t, 0, kind, 0))]
      BY <1>11 DEF n
    <3>. QED  BY <1>3, <1>11, <3>1, <3>2, RequestLists DEF n, x
  <2>2. /\ \A d \in Conns : d # c => L2[d] = L[d]
        /\ \A i \in DOMAIN L2[c] : i = e \/ (i \in DOMAIN L[c] /\ L2[c][i] = L[c][i])
        /\ \A i \in DOMAIN L[c] : i \in DOMAIN L2[c] /\ i # e /\ L2[c][i] = L[c][i]
        /\ e \in DOMAIN L2[c] /\ L2[c][e] = m
    BY <1>1, <1>2, <2>1 DEF Replaced
  <2>3. Item(m, c) = r
    BY <1>11 DEF Item
  <2> HIDE DEF e, r
  <2> DEFINE k2 == call'
             W2 == waiting'
             S2 == serving'
  <2>4. Added(L2, L, c, e) /\ SameProgress(L, k2, call)
    BY <1>10, <2>2 DEF Added, SameProgress
  <2>5. /\ L2[c][e].item = arrived /\ Item(L2[c][e], c) = r
        /\ k2[c][L2[c][e].tag].stage = "asked"
        /\ \/ L2[c][e].locked /\ W2 = waiting \cup {r} /\ S2 = serving
           \/ ~L2[c][e].locked /\ W2 = waiting /\ S2 = serving \cup {r}
    BY <1>9, <1>11, <2>2, <2>3 DEF r
  <2>6. /\ Booked(L, call, waiting, serving, arrived, open) /\ Records(waiting, serving)
        /\ c \in Conns /\ arrived \in Nat
    BY <1>1, <1>7 DEF BookedOK
  <2> HIDE DEF L, L2, k2, W2, S2
  <2>7. Booked(L2, k2, W2, S2, arrived + 1, open)
    BY ONLY <2>4, <2>5, <2>6, BookedNew
  <2>8. BookedOK' /\ arrived' <= MaxRequests
    BY <2>7, <1>1, <1>3, <1>11 DEF BookedOK, k2, W2, S2, L2
  <2>. QED  BY <2>1, <2>8, <1>2, <1>5, Kept
<1>12. CASE /\ Scheduled(kind) /\ arrived < MaxRequests /\ Sched!Release(AppOf[c])
            /\ list' = Put([rs EXCEPT !.item = arrived])
  <2> DEFINE m == [rs EXCEPT !.item = arrived]
  <2>1. /\ m \in StateType /\ m.item = arrived /\ m.tag = t /\ m.rank = 0 /\ m.head = 0
        /\ m.op = kind /\ ~m.final /\ m.got = 0 /\ m.size = 1 /\ m.tail = 1 /\ ~m.locked
    BY <1>1, <1>15 DEF StateType
  <2> HIDE DEF m
  <2>2. /\ waiting' = waiting /\ serving' = serving \cup {[id |-> arrived, app |-> AppOf[c]]}
        /\ arrived' = arrived + 1 /\ list' = Put(m)
    BY <1>6, <1>12 DEF Sched!Release, m
  <2>. QED  BY <1>11, <1>12, <2>1, <2>2
<1>13. CASE /\ Scheduled(kind) /\ arrived < MaxRequests /\ Sched!Hold(AppOf[c])
            /\ list' = Put([rs EXCEPT !.item = arrived, !.locked = TRUE])
  <2> DEFINE m == [rs EXCEPT !.item = arrived, !.locked = TRUE]
  <2>1. /\ m \in StateType /\ m.item = arrived /\ m.tag = t /\ m.rank = 0 /\ m.head = 0
        /\ m.op = kind /\ ~m.final /\ m.got = 0 /\ m.size = 1 /\ m.tail = 1 /\ m.locked
    <3> DEFINE m1 == [rs EXCEPT !.item = arrived]
    <3>1. /\ m1 \in StateType /\ m1.item = arrived /\ m1.tag = t /\ m1.rank = 0 /\ m1.head = 0
          /\ m1.op = kind /\ ~m1.final /\ m1.got = 0 /\ m1.size = 1 /\ m1.tail = 1
      BY <1>1, <1>15 DEF StateType
    <3>2. m = [m1 EXCEPT !.locked = TRUE]
      OBVIOUS
    <3> HIDE DEF m1, m
    <3>. QED  BY <3>1, <3>2 DEF StateType
  <2> HIDE DEF m
  <2>2. /\ waiting' = waiting \cup {[id |-> arrived, app |-> AppOf[c]]} /\ serving' = serving
        /\ arrived' = arrived + 1 /\ list' = Put(m)
    BY <1>6, <1>13 DEF Sched!Hold, m
  <2>. QED  BY <1>11, <1>13, <2>1, <2>2
<1>14. CASE ~Scheduled(kind) /\ list' = Put(rs) /\ UNCHANGED scheduler
  <2> DEFINE U == Append(list.up[c], rs)
  <2>1. /\ rs \in StateType /\ rs.tag = t /\ rs.rank = 0 /\ rs.head = 0 /\ rs.op = kind
        /\ ~rs.final /\ rs.got = 0 /\ rs.size = 1 /\ rs.tail = 1 /\ ~rs.locked
        /\ ~(rs.item >= 0) /\ rs.item >= -1
    BY <1>15
  <2>2. Replaced(list', c, U, D) /\ ReadBy(c, U, D, x, "up")
    BY <1>3, <1>14, <2>1, RequestLists DEF n, x
  <2>3. /\ \A i \in DOMAIN list.up[c] : i \in DOMAIN U /\ U[i] = list.up[c][i]
        /\ \A i \in DOMAIN U : i \in DOMAIN list.up[c] \/ U[i] = rs
    <3>1. list.up[c] \in Seq(StateType)
      BY <1>1, <1>2
    <3>. QED  BY ONLY <3>1 DEF U
  <2> HIDE DEF U, D
  <2>4. QuietItems(c, U, x)
    <3>1. call'[c] = x
      BY <1>1, <1>2, <1>8
    <3>. QED  BY <1>1, <1>10, <2>1, <2>3, <3>1 DEF QuietItems
  <2>6. "up" \in Way /\ fault' = FALSE /\ UNCHANGED scheduler
    BY <1>2, <1>5, <1>14
  <2> HIDE DEF D
  <2>. QED  BY ONLY IInv, Known, c \in open, <2>2, <2>4, <2>6, QuietStep
<1>. QED  BY <1>4, <1>12, <1>13, <1>14

(* A call with one field changed.                                          *)
LEMMA CallBegun ==
  ASSUME NEW k \in CallType, NEW n \in Nat,
         NEW y, y = [k EXCEPT !.begun = n]
  PROVE  /\ y \in CallType /\ y.begun = n
         /\ y.kind = k.kind /\ y.stage = k.stage /\ y.landed = k.landed /\ y.share = k.share
BY DEF CallType

(* A call of which more has landed. *)
LEMMA CallLanded ==
  ASSUME NEW k \in CallType, NEW n \in Nat,
         NEW y, y = [k EXCEPT !.landed = n]
  PROVE  /\ y \in CallType /\ y.landed = n
         /\ y.kind = k.kind /\ y.stage = k.stage /\ y.begun = k.begun /\ y.share = k.share
BY DEF CallType

(* A call at another stage. *)
LEMMA CallStage ==
  ASSUME NEW k \in CallType, NEW s \in {"none", "asked", "served", "replied", "granted", "over"},
         NEW y, y = [k EXCEPT !.stage = s]
  PROVE  /\ y \in CallType /\ y.stage = s
         /\ y.kind = k.kind /\ y.begun = k.begun /\ y.landed = k.landed /\ y.share = k.share
BY DEF CallType

(* check_request reads the beginning of a data message. *)
LEMMA ClientFlowStep ==
  ASSUME IInv, Known, NEW c \in open, NEW t \in Tags, NEW units \in 1 .. FlowUnits,
         RecvClientFlow(c, t, units)
  PROVE  IInv'
<1> DEFINE K == call[c]
           y == [K[t] EXCEPT !.begun = @ + 1]
           x == [K EXCEPT ![t] = y]
           new == State(t, K[t].begun + 1, "flow", FlowUnits)
           m == [new EXCEPT !.tail = units]
           U == Append(list.up[c], m)
           D == list.down[c]
           r2 == IF units = FlowUnits THEN Nil ELSE Name(m)
<1>1. /\ c \in Conns /\ FlowUnits \in Nat /\ FlowUnits > 0
  BY ConstantTypes DEF IInv, Typed
<1>2. /\ GoodSide("up", list.up[c], K, recv.up[c], send.up[c])
      /\ GoodSide("down", D, K, recv.down[c], send.down[c])
      /\ list \in Lists /\ "up" \in Way /\ "down" \in Way
      /\ recv \in [Way -> [Conns -> NameType]]
      /\ call \in [Conns -> [Tags -> CallType]] /\ K \in [Tags -> CallType] /\ K = call[c]
      /\ K[t] \in CallType /\ CallOK(K[t]) /\ list.up[c] \in Seq(StateType)
  BY <1>1, Connection DEF Lists
<1>3. /\ recv.up[c] = Nil /\ K[t].kind = "write" /\ K[t].stage = "granted" /\ K[t].begun < K[t].share
      /\ call' = [call EXCEPT ![c][t].begun = @ + 1] /\ fault' = ~InUse(t, list.down[c])
      /\ list' = [list EXCEPT !.up[c] = U] /\ recv' = [recv EXCEPT !.up[c] = r2]
      /\ Refresh("up", c) /\ UNCHANGED <<incomplete, open, scheduler>>
  BY DEF RecvClientFlow
<1>4. /\ K[t].begun \in Nat /\ K[t].share \in Nat /\ K[t].landed \in Nat /\ K[t].landed <= K[t].begun
      /\ K[t] # NoCall
  BY <1>2, <1>3 DEF CallType, CallOK, NoCall
<1> HIDE DEF K
<1>5. /\ y \in CallType /\ y.kind = "write" /\ y.stage = "granted" /\ y.begun = K[t].begun + 1
      /\ y.share = K[t].share /\ y.landed = K[t].landed
  <2>1. K[t].begun + 1 \in Nat /\ K[t] \in CallType /\ y = [K[t] EXCEPT !.begun = K[t].begun + 1]
    BY <1>2, <1>4
  <2> HIDE DEF y
  <2>. QED  BY <1>3, <2>1, CallBegun
<1>6. call' = [call EXCEPT ![c] = x]
  BY <1>3 DEF K
<1>7. /\ new \in StateType /\ new.tag = t /\ new.rank = K[t].begun + 1 /\ new.op = "flow"
      /\ new.size = FlowUnits /\ new.head = 0 /\ ~new.locked /\ ~new.final /\ new.item = -1
  BY <1>1, <1>4 DEF State, StateType
<1>8. units \in Nat /\ units > 0 /\ units <= FlowUnits /\ m = [new EXCEPT !.tail = units]
  BY <1>1
<1>9. fault' = FALSE
  <2>1. \E i \in DOMAIN list.down[c] : list.down[c][i].tag = t
    BY <1>2, <1>4, FirstMessage
  <2>. QED  BY <1>3, <2>1 DEF InUse
<1>10. recv' \in [Way -> [Conns -> NameType]] /\ recv'.up[c] = r2 /\ recv'.down[c] = recv.down[c]
       /\ \A w \in Way, d \in Conns : d # c => recv'[w][d] = recv[w][d]
  <2>1. r2 \in NameType
    BY <1>2, <1>4 DEF NameType, Name, State
  <2> HIDE DEF r2
  <2>. QED  BY <1>1, <1>2, <1>3, <2>1 DEF Way
<1>11. r2 \in {Nil, Name(m)} /\ (m.tail < m.size <=> r2 = Name(m))
  BY <1>7, <1>8, NoName DEF StateType
<1> HIDE DEF y, new, r2
<1>12. /\ m \in StateType /\ m.tag = t /\ m.rank = K[t].begun + 1 /\ m.op = "flow" /\ m.tail = units
       /\ m.size = FlowUnits /\ m.head = 0 /\ ~m.locked /\ ~m.final /\ m.item = -1
  BY <1>7, <1>8 DEF StateType
<1> HIDE DEF m
<1>13. CallOK(y)
  BY <1>2, <1>3, <1>4, <1>5 DEF CallOK, CallType, NoCall, OneAnswer
<1>14. MsgOK("up", m, y, r2, send.up[c])
  <2>1. UpOK(m, y)
    BY <1>4, <1>5, <1>8, <1>12, <1>1 DEF UpOK, FlowOK
  <2>2. y # NoCall
    BY <1>5 DEF NoCall
  <2>. QED  BY <1>4, <1>5, <1>8, <1>11, <1>12, <2>1, <2>2, <1>1 DEF MsgOK
<1>15. ASSUME NEW n \in StateType, n.tag = t, MsgOK("up", n, K[t], Nil, send.up[c])
       PROVE  n.rank < m.rank /\ MsgOK("up", n, y, r2, send.up[c])
  <2>1. UpOK(n, K[t]) /\ n.rank \in Nat
    BY <1>15 DEF MsgOK, StateType
  <2>2. n.rank <= K[t].begun
    BY <1>4, <2>1 DEF UpOK
  <2>3. n.rank < m.rank
    BY <1>4, <1>12, <2>1, <2>2
  <2>4. r2 # Name(n) /\ Nil # Name(n)
    BY <1>4, <1>11, <1>12, <2>1, <2>2, NoName DEF Name
  <2>5. UpOK(n, y)
    BY <1>3, <1>4, <1>5, <2>1 DEF UpOK, FlowOK
  <2>6. y # NoCall
    BY <1>5 DEF NoCall
  <2>. QED  BY <1>15, <2>3, <2>4, <2>5, <2>6 DEF MsgOK
<1>16. Top("up", y) = m.rank /\ Top("up", K[t]) = m.rank - 1
  BY <1>3, <1>4, <1>5, <1>12 DEF Top
<1>17. GoodSide("up", U, x, r2, send.up[c])
  <2> DEFINE s == list.up[c]
             d == send.up[c]
  <2>1. GoodSide("up", s, K, Nil, d) /\ "up" \in Way /\ t \in Tags
    BY <1>2, <1>3
  <2>2. /\ y \in CallType /\ CallOK(y) /\ y # NoCall /\ m \in StateType /\ m.tag = t /\ m.head = 0
        /\ r2 \in {Nil, Name(m)} /\ K[t] # NoCall
    BY <1>4, <1>5, <1>11, <1>12, <1>13 DEF NoCall
  <2>3. /\ MsgOK("up", m, y, r2, d)
        /\ \A n \in StateType : n.tag = t /\ MsgOK("up", n, K[t], Nil, d) =>
             n.rank < m.rank /\ MsgOK("up", n, y, r2, d)
    BY <1>14, <1>15
  <2> HIDE DEF s, d
  <2>4. GoodSide("up", Append(s, m), [K EXCEPT ![t] = y], r2, d)
    BY ONLY <1>16, <2>1, <2>2, <2>3, NextState
  <2>. QED  BY <2>4 DEF s, d, x
<1>18. GoodSide("down", D, x, recv.down[c], send.down[c])
  <2>1. ASSUME NEW n \in StateType, n.tag = t, MsgOK("down", n, K[t], recv.down[c], send.down[c])
        PROVE  MsgOK("down", n, y, recv.down[c], send.down[c])
    <3>1. DownOK(n, K[t], recv.down[c]) /\ n.size \in Nat /\ n.tail \in Nat
      BY <2>1 DEF MsgOK, StateType
    <3>2. n.tail = n.size
      BY <1>3, <3>1 DEF DownOK
    <3>3. recv.down[c] # Name(n)
      BY <2>1, <3>1, <3>2 DEF MsgOK
    <3>4. DownOK(n, y, recv.down[c])
      BY <1>3, <1>4, <1>5, <3>1 DEF DownOK, FlowOK, OneAnswer
    <3>5. y # NoCall
      BY <1>5 DEF NoCall
    <3>. QED  BY <2>1, <3>3, <3>4, <3>5 DEF MsgOK
  <2>2. Top("down", y) = Top("down", K[t])
    BY <1>3, <1>5 DEF Top
  <2>. QED  BY <1>2, <1>4, <1>5, <1>13, <2>1, <2>2, SideCall DEF x
<1>19. Replaced(list', c, U, D)
  <2>1. U \in Seq(StateType) /\ D \in Seq(StateType)
    BY <1>17, <1>18 DEF GoodSide
  <2>2. Replaced(list, c, list.up[c], D)
    BY <1>1, <1>2, NotReplaced
  <2>. QED  BY <1>1, <1>3, <2>1, <2>2, ReplacingUp
<1>20. ReadBy(c, U, D, x, "up")
  BY <1>3, <1>6, <1>10, <1>17, <1>18 DEF ReadBy
<1>21. QuietItems(c, U, x)
  <2>1. \A u \in Tags : x[u].stage = "over" <=> call[c][u].stage = "over"
    BY <1>2, <1>3, <1>5 DEF x
  <2>0. \A i \in DOMAIN list.up[c] : list.up[c][i] \in StateType
    BY <1>2, ElementOfSeq
  <2>2. \A i \in DOMAIN list.up[c] : list.up[c][i].tag \in Tags
    BY <2>0 DEF StateType
  <2>. QED  BY <1>2, <1>12, <2>1, <2>2, QuietAppend
<1>. QED  BY <1>2, <1>3, <1>9, <1>19, <1>20, <1>21, QuietStep

(* The message at position i changes, but not how much of it is sent.      *)
LEMMA StateRead ==
  ASSUME NEW w \in Way, NEW s, NEW k, NEW r, NEW r2, NEW d, GoodSide(w, s, k, r, d),
         NEW i \in DOMAIN s, NEW m \in StateType, m.tag = s[i].tag, m.rank = s[i].rank,
         m.head = s[i].head, m.size = s[i].size,
         NEW x \in CallType, CallOK(x), r2 \in {Nil, r}, r2 = Nil => (r = Nil \/ r = Name(m)),
         MsgOK(w, m, x, r2, d),
         \A n \in StateType :
           n.tag = m.tag /\ n.rank # m.rank /\ MsgOK(w, n, k[m.tag], r, d)
             => MsgOK(w, n, x, r2, d),
         Top(w, x) = Top(w, k[m.tag]) \/ (Top(w, x) = m.rank /\ Top(w, k[m.tag]) = m.rank - 1)
  PROVE  GoodSide(w, [s EXCEPT ![i] = m], [k EXCEPT ![m.tag] = x], r2, d)
<1>1. SentInOrder(s, d) /\ Name(m) = Name(s[i]) /\ (Begun(m, d) <=> Begun(s[i], d))
  BY DEF GoodSide, Side, Name, Begun
<1>2. /\ \A j \in DOMAIN s : j < i /\ s[j].tag = m.tag /\ Begun(m, d) => s[j].head = s[j].size
      /\ \A j \in DOMAIN s : i < j /\ s[j].tag = m.tag /\ Begun(s[j], d) => m.head = m.size
  BY <1>1 DEF SentInOrder
<1>3. k[m.tag] # NoCall
  BY GoodMessage DEF MsgOK
<1>4. d \in {Nil, d} /\ (d = Nil => d = Nil \/ d = Name(m))
  OBVIOUS
<1>. QED  BY <1>2, <1>3, <1>4, ChangedState

(* The rest of a client's message is read. *)
LEMMA ClientRestStep ==
  ASSUME IInv, Known, fault = FALSE, NEW c \in open, RecvClientRest(c)
  PROVE  IInv'
<1> DEFINE K == call[c]
           s == list.up[c]
           D == list.down[c]
           r == recv.up[c]
           d == send.up[c]
<1>1. /\ c \in Conns /\ FlowUnits \in Nat /\ FlowUnits > 0 /\ fault \in BOOLEAN
  BY ConstantTypes DEF IInv, Typed
<1>2. /\ GoodSide("up", s, K, r, d)
      /\ GoodSide("down", D, K, recv.down[c], send.down[c])
      /\ list \in Lists /\ "up" \in Way /\ "down" \in Way
      /\ recv \in [Way -> [Conns -> NameType]]
      /\ call \in [Conns -> [Tags -> CallType]] /\ K \in [Tags -> CallType] /\ K = call[c]
      /\ s \in Seq(StateType)
  BY <1>1, Connection DEF Lists
<1>3. /\ r # Nil /\ list' = [list EXCEPT !.up[c][At(r, s)].tail = FlowUnits]
      /\ recv' = [recv EXCEPT !.up[c] = Nil]
      /\ Refresh("up", c) /\ UNCHANGED <<incomplete, open, fault, scheduler, call>>
  BY DEF RecvClientRest
<1>4. PICK i \in DOMAIN s : Name(s[i]) = r
  BY <1>2, <1>3 DEF GoodSide, Side, Pointed, Has
<1>5. At(r, s) = i
  BY <1>2, <1>4, Found DEF GoodSide, Side
<1> DEFINE m == [s[i] EXCEPT !.tail = FlowUnits]
           U == [s EXCEPT ![i] = m]
<1>6. list' = [list EXCEPT !.up[c] = U]
  BY <1>3, <1>5
<1> HIDE DEF K, s, r, d
<1>7. /\ s[i] \in StateType /\ s[i].tag \in Tags /\ K[s[i].tag] \in CallType
      /\ CallOK(K[s[i].tag]) /\ MsgOK("up", s[i], K[s[i].tag], r, d)
  BY <1>2, GoodMessage
<1>8. m \in StateType /\ m.tail = FlowUnits /\ m.tag = s[i].tag /\ m.rank = s[i].rank
      /\ m.head = s[i].head /\ m.size = s[i].size /\ m.op = s[i].op /\ m.item = s[i].item
      /\ (m.final <=> s[i].final) /\ (m.locked <=> s[i].locked) /\ m.got = s[i].got
  BY <1>1, <1>7 DEF StateType
<1> HIDE DEF m
<1>9. s[i].tail < s[i].size /\ UpOK(s[i], K[s[i].tag]) /\ s[i].rank # 0
      /\ s[i].size = FlowUnits /\ FlowOK(s[i], K[s[i].tag]) /\ s[i].item = -1
  <2>1. s[i].tail < s[i].size /\ UpOK(s[i], K[s[i].tag])
    BY <1>4, <1>7 DEF MsgOK
  <2>2. s[i].rank # 0
    BY <2>1 DEF UpOK
  <2>. QED  BY <2>1, <2>2 DEF UpOK, FlowOK
<1>10. Name(m) = Name(s[i])
  BY <1>8 DEF Name
<1>11. MsgOK("up", m, K[m.tag], Nil, d)
  <2>1. UpOK(m, K[m.tag])
    BY <1>1, <1>8, <1>9 DEF UpOK, FlowOK
  <2>2. /\ K[m.tag] # NoCall /\ m.head <= m.tail /\ m.tail <= m.size
        /\ 0 < m.head /\ m.head < m.size => d = Name(m)
        /\ d = Name(m) => m.head < m.size /\ ~m.locked
    BY <1>1, <1>7, <1>8, <1>9, <1>10 DEF MsgOK, StateType
  <2>3. Nil # Name(m) /\ ~(m.tail < m.size)
    BY <1>1, <1>8, <1>9, NoName
  <2>. QED  BY <2>1, <2>2, <2>3 DEF MsgOK
<1>12. ASSUME NEW n \in StateType, n.tag = m.tag, n.rank # m.rank, MsgOK("up", n, K[m.tag], r, d)
       PROVE  MsgOK("up", n, K[m.tag], Nil, d)
  <2>1. r # Name(n) /\ Nil # Name(n)
    BY <1>4, <1>8, <1>12, NoName DEF Name
  <2>. QED  BY <1>12, <2>1 DEF MsgOK
<1>13. GoodSide("up", U, K, Nil, d)
  <2>1. GoodSide("up", U, [K EXCEPT ![m.tag] = K[m.tag]], Nil, d)
    <3>1. /\ m.tag = s[i].tag /\ K[m.tag] \in CallType /\ CallOK(K[m.tag])
          /\ Nil \in {Nil, r} /\ (Nil = Nil => r = Nil \/ r = Name(m))
      BY <1>4, <1>7, <1>8, <1>10
    <3>2. /\ GoodSide("up", s, K, r, d) /\ "up" \in Way /\ i \in DOMAIN s /\ m \in StateType
          /\ m.rank = s[i].rank /\ m.head = s[i].head /\ m.size = s[i].size
      BY <1>2, <1>4, <1>8
    <3>3. \A n \in StateType :
           n.tag = m.tag /\ n.rank # m.rank /\ MsgOK("up", n, K[m.tag], r, d)
             => MsgOK("up", n, K[m.tag], Nil, d)
      BY <1>12
    <3>. QED  BY ONLY <3>1, <3>2, <3>3, <1>11, StateRead
  <2>2. [K EXCEPT ![m.tag] = K[m.tag]] = K
    BY <1>2
  <2>. QED  BY <2>1, <2>2
<1>14. Replaced(list', c, U, D)
  <2>1. U \in Seq(StateType)
    BY <1>13 DEF GoodSide
  <2>2. Replaced(list, c, s, D)
    BY <1>1, <1>2, NotReplaced DEF s
  <2>. QED  BY <1>1, <1>6, <2>1, <2>2, ReplacingUp
<1>15. ReadBy(c, U, D, K, "up")
  <2>1. recv' \in [Way -> [Conns -> NameType]] /\ recv'.up[c] = Nil /\ recv'.down[c] = recv.down[c]
        /\ \A w \in Way, e \in Conns : e # c => recv'[w][e] = recv[w][e]
    BY <1>1, <1>2, <1>3 DEF NameType, Way
  <2>2. call' = [call EXCEPT ![c] = K]
    BY <1>2, <1>3
  <2>. QED  BY <1>2, <1>3, <1>13, <2>1, <2>2 DEF ReadBy, d
<1>16. QuietItems(c, U, K)
  <2>1. SameStates(U, s)
    BY <1>2, <1>8 DEF SameStates
  <2>. QED  BY <2>1, <1>2, QuietSame DEF s
<1>17. fault' = FALSE
  BY <1>3
<1>. QED  BY <1>2, <1>3, <1>14, <1>15, <1>16, <1>17, QuietStep

(* check_response reads the completion of a write. *)
LEMMA CompletionStep ==
  ASSUME IInv, Known, NEW c \in open, NEW t \in Tags, RecvWriteCompletion(c, t, TRUE)
  PROVE  IInv'
<1> DEFINE K == call[c]
           U == list.up[c]
           s == list.down[c]
           d == send.down[c]
           y == [K[t] EXCEPT !.stage = "over"]
           x == [K EXCEPT ![t] = y]
           new == State(t, 1, "completion", 1)
           m == [new EXCEPT !.tail = 1, !.final = TRUE]
           D == Append(s, m)
           lists == [list EXCEPT !.down[c] = D]
<1>1. c \in Conns
  BY DEF IInv, Typed
<1>2. /\ GoodSide("up", U, K, recv.up[c], send.up[c])
      /\ GoodSide("down", s, K, recv.down[c], d)
      /\ list \in Lists /\ "up" \in Way /\ "down" \in Way
      /\ recv \in [Way -> [Conns -> NameType]]
      /\ call \in [Conns -> [Tags -> CallType]] /\ K \in [Tags -> CallType] /\ K = call[c]
      /\ K[t] \in CallType /\ CallOK(K[t]) /\ incomplete = [e \in Conns |-> FALSE]
  BY <1>1, Connection DEF IInv, Typed
<1>3. /\ recv.down[c] = Nil /\ K[t].kind = "write" /\ K[t].stage \in {"replied", "granted"}
      /\ K[t].landed = K[t].share
      /\ call' = [call EXCEPT ![c][t].stage = "over"]
      /\ recv' = [recv EXCEPT !.down[c] = Nil] /\ incomplete' = [incomplete EXCEPT ![c] = FALSE]
      /\ Complete(c, t, lists) /\ Refresh("down", c) /\ open' = open
  BY DEF RecvWriteCompletion
<1>4. /\ K[t].begun \in Nat /\ K[t].share \in Nat /\ K[t].landed \in Nat
      /\ K[t].landed <= K[t].begun /\ K[t].begun <= K[t].share /\ K[t] # NoCall
  BY <1>2, <1>3 DEF CallType, CallOK, NoCall
<1>5. call' = [call EXCEPT ![c] = x]
  BY <1>3
<1> HIDE DEF K, U, s, d
<1>6. /\ y \in CallType /\ y.kind = "write" /\ y.stage = "over" /\ y.begun = K[t].begun
      /\ y.share = K[t].share /\ y.landed = K[t].landed
  <2> HIDE DEF y
  <2>. QED  BY <1>2, <1>3, CallStage DEF y
<1>7. /\ new \in StateType /\ new.tag = t /\ new.rank = 1 /\ new.op = "completion"
      /\ new.size = 1 /\ new.head = 0 /\ ~new.locked /\ new.item = -1
  BY DEF State, StateType
<1>8. recv' = recv /\ recv'.down[c] = Nil /\ recv'.up[c] = recv.up[c] /\ incomplete' = incomplete
  BY <1>1, <1>2, <1>3 DEF Way
<1> HIDE DEF y, new
<1>9. /\ m \in StateType /\ m.tag = t /\ m.rank = 1 /\ m.op = "completion" /\ m.size = 1
      /\ m.tail = 1 /\ m.head = 0 /\ ~m.locked /\ m.final /\ m.item = -1
  BY <1>7 DEF StateType
<1> HIDE DEF m
<1>10. CallOK(y) /\ y # NoCall
  BY <1>2, <1>3, <1>4, <1>6 DEF CallOK, CallType, NoCall, OneAnswer
<1>11. MsgOK("down", m, y, Nil, d)
  <2>1. DownOK(m, y, Nil)
    BY <1>6, <1>9 DEF DownOK
  <2>. QED  BY <1>9, <1>10, <2>1, NoName DEF MsgOK
<1>12. ASSUME NEW n \in StateType, n.tag = t, MsgOK("down", n, K[t], Nil, d)
       PROVE  n.rank < m.rank /\ MsgOK("down", n, y, Nil, d)
  <2>1. DownOK(n, K[t], Nil) /\ Nil # Name(n)
    BY <1>12, NoName DEF MsgOK
  <2>2. n.rank = 0
    BY <1>3, <2>1 DEF DownOK
  <2>3. DownOK(n, y, Nil)
    BY <1>3, <1>6, <2>1, <2>2 DEF DownOK, OneAnswer
  <2>. QED  BY <1>9, <1>10, <1>12, <2>1, <2>2, <2>3 DEF MsgOK
<1>13. Top("down", y) = m.rank /\ Top("down", K[t]) = m.rank - 1
  BY <1>3, <1>6, <1>9 DEF Top
<1>14. GoodSide("down", D, x, Nil, d)
  <2>1. GoodSide("down", s, K, Nil, d) /\ "down" \in Way /\ t \in Tags
    BY <1>2, <1>3
  <2>2. /\ y \in CallType /\ CallOK(y) /\ y # NoCall /\ m \in StateType /\ m.tag = t /\ m.head = 0
        /\ Nil \in {Nil, Name(m)} /\ K[t] # NoCall
    BY <1>4, <1>6, <1>9, <1>10
  <2>3. /\ MsgOK("down", m, y, Nil, d)
        /\ \A n \in StateType : n.tag = t /\ MsgOK("down", n, K[t], Nil, d) =>
             n.rank < m.rank /\ MsgOK("down", n, y, Nil, d)
    BY <1>11, <1>12
  <2>. QED  BY ONLY <1>13, <2>1, <2>2, <2>3, NextState
<1>15. GoodSide("up", U, x, recv.up[c], send.up[c])
  <2>1. ASSUME NEW n \in StateType, n.tag = t, MsgOK("up", n, K[t], recv.up[c], send.up[c])
        PROVE  MsgOK("up", n, y, recv.up[c], send.up[c])
    <3>1. UpOK(n, y)
      BY <1>3, <1>6, <2>1 DEF MsgOK, UpOK, FlowOK
    <3>. QED  BY <1>6, <1>10, <2>1, <3>1 DEF MsgOK
  <2>2. Top("up", y) = Top("up", K[t])
    BY <1>3, <1>6 DEF Top
  <2>. QED  BY <1>2, <1>4, <1>6, <1>10, <2>1, <2>2, SideCall
<1>16. Replaced(lists, c, U, D)
  <2>1. D \in Seq(StateType)
    BY <1>14 DEF GoodSide
  <2>2. Replaced(list, c, U, s)
    BY <1>1, <1>2, NotReplaced DEF U, s
  <2> HIDE DEF D
  <2>. QED  BY <1>1, <2>1, <2>2, ReplacingDown
<1>17. ReadBy(c, U, D, x, "down")
  BY <1>2, <1>3, <1>5, <1>8, <1>14, <1>15 DEF ReadBy, d
<1>18. /\ x[t].stage = "over" /\ \A u \in Tags : u # t => x[u] = call[c][u]
       /\ SameStates(U, list.up[c]) /\ Scheduled(call[c][t].kind)
       /\ call[c][t].stage \notin {"none", "asked", "over"}
  BY <1>2, <1>3, <1>6 DEF SameStates, Scheduled, U, K
<1> HIDE DEF D, x, lists
<1>. QED  BY <1>2, <1>3, <1>16, <1>17, <1>18, CompletingStep

(* check_response reads the first answer. *)
LEMMA AnswerStep ==
  ASSUME Scope, IInv, Known, fault = FALSE, NEW c \in open, NEW t \in Tags, RecvAnswer(c, t, TRUE)
  PROVE  IInv'
<1> DEFINE K == call[c]
           U == list.up[c]
           s == list.down[c]
           d == send.down[c]
           i == FindRequest(t, s)
           last == OneAnswer(K[t])
           stage == IF last THEN "over" ELSE "replied"
           y == [K[t] EXCEPT !.stage = stage]
           x == [K EXCEPT ![t] = y]
           m == [s[i] EXCEPT !.size = 1, !.tail = 1, !.final = last]
           D == [s EXCEPT ![i] = m]
           lists == [list EXCEPT !.down[c] = D]
<1>1. c \in Conns
  BY DEF IInv, Typed
<1>2. /\ GoodSide("up", U, K, recv.up[c], send.up[c])
      /\ GoodSide("down", s, K, recv.down[c], d)
      /\ list \in Lists /\ "up" \in Way /\ "down" \in Way
      /\ recv \in [Way -> [Conns -> NameType]]
      /\ call \in [Conns -> [Tags -> CallType]] /\ K \in [Tags -> CallType] /\ K = call[c]
      /\ K[t] \in CallType /\ CallOK(K[t]) /\ incomplete = [e \in Conns |-> FALSE]
  BY <1>1, Connection DEF IInv, Typed
<1>3. /\ recv.down[c] = Nil /\ K[t].stage = "served" /\ i # 0 /\ s[i].size = 0
      /\ call' = [call EXCEPT ![c][t].stage = stage]
      /\ recv' = [recv EXCEPT !.down[c] = Nil] /\ incomplete' = [incomplete EXCEPT ![c] = FALSE]
      /\ IF last /\ K[t].kind # "other" THEN Complete(c, t, lists)
                                        ELSE list' = lists /\ UNCHANGED <<fault, scheduler>>
      /\ Refresh("down", c) /\ open' = open
  BY DEF RecvAnswer, OneAnswer
<1>4. /\ K[t].begun \in Nat /\ K[t].share \in Nat /\ K[t].landed \in Nat
      /\ K[t].landed <= K[t].begun /\ K[t].begun <= K[t].share /\ K[t] # NoCall
      /\ K[t].kind \in Kinds /\ K[t].kind \in AllKinds
  BY <1>2, <1>3, ConstantTypes DEF CallType, CallOK, NoCall
<1>5. call' = [call EXCEPT ![c] = x]
  BY <1>3
<1>6. recv' = recv /\ recv'.down[c] = Nil /\ recv'.up[c] = recv.up[c] /\ incomplete' = incomplete
  BY <1>1, <1>2, <1>3 DEF Way
<1>7. i \in DOMAIN s /\ s[i].tag = t /\ s[i].rank = 0
  BY <1>2, <1>4, FirstMessage
<1>0. last \in BOOLEAN
  BY DEF OneAnswer
<1> HIDE DEF K, U, s, d, i, last
<1>8. /\ y \in CallType /\ y.kind = K[t].kind /\ y.stage = stage /\ y.begun = K[t].begun
      /\ y.share = K[t].share /\ y.landed = K[t].landed
  <2> HIDE DEF y
  <2>1. stage \in {"none", "asked", "served", "replied", "granted", "over"}
    OBVIOUS
  <2> HIDE DEF stage
  <2>. QED  BY <1>2, <2>1, CallStage DEF y
<1> HIDE DEF y
<1>9. s[i] \in StateType /\ MsgOK("down", s[i], K[t], Nil, d)
  BY <1>2, <1>3, <1>7, GoodMessage
<1>10. /\ m \in StateType /\ m.tag = t /\ m.rank = 0 /\ m.op = s[i].op /\ m.size = 1
       /\ m.tail = 1 /\ m.head = s[i].head /\ (m.locked <=> s[i].locked) /\ (m.final <=> last)
       /\ m.item = s[i].item
  BY <1>0, <1>7, <1>9 DEF StateType
<1> HIDE DEF m
<1>11. /\ m.head = 0 /\ d # Name(m) /\ d # Name(s[i]) /\ Name(m) = Name(s[i])
       /\ DownOK(s[i], K[t], Nil)
  BY <1>3, <1>7, <1>9, <1>10 DEF MsgOK, StateType, Name
<1>12. CallOK(y) /\ y # NoCall /\ (OneAnswer(y) <=> last)
  <2>1. OneAnswer(y) <=> last
    BY <1>8 DEF OneAnswer, last
  <2>2. y # NoCall
    BY <1>4, <1>8 DEF NoCall
  <2>3. /\ K[t].kind = "read" => K[t].begun = 0
        /\ K[t].kind = "write" => K[t].begun = 0
        /\ K[t].kind \notin {"read", "write"} => K[t].share = 0
    BY <1>2, <1>3, <1>4 DEF CallOK
  <2>4. CASE last
    <3>1. y.stage = "over" /\ K[t].kind # "write" /\ (K[t].kind = "read" => K[t].share = 0)
      BY <1>8, <2>4 DEF last, OneAnswer
    <3>. QED  BY <1>4, <1>8, <2>1, <2>2, <2>3, <3>1 DEF CallOK
  <2>5. CASE ~last
    <3>1. y.stage = "replied" /\ (K[t].kind = "read" => K[t].share # 0)
      BY <1>8, <2>5 DEF last, OneAnswer
    <3>. QED  BY <1>4, <1>8, <2>1, <2>2, <2>3, <2>5, <3>1 DEF CallOK
  <2>. QED  BY <2>1, <2>2, <2>4, <2>5
<1>13. MsgOK("down", m, y, Nil, d)
  <2>0. /\ s[i].item = -1 /\ ~s[i].locked /\ s[i].op = K[t].kind /\ stage \notin {"asked", "served"}
    BY <1>7, <1>11 DEF DownOK
  <2>1. DownOK(m, y, Nil)
    BY <1>8, <1>10, <1>12, <2>0 DEF DownOK
  <2>. QED  BY <1>10, <1>11, <1>12, <2>1, NoName DEF MsgOK
<1>14. ASSUME NEW n \in StateType, n.tag = t, MsgOK("down", n, K[t], Nil, d)
       PROVE  n.rank = 0
  <2>1. DownOK(n, K[t], Nil) /\ Nil # Name(n) /\ n.rank \in Nat
    BY <1>14, NoName DEF MsgOK, StateType
  <2>2. K[t].kind = "read" => K[t].begun = 0
    BY <1>2, <1>3, <1>4 DEF CallOK
  <2>. QED  BY <1>3, <2>1, <2>2 DEF DownOK
<1>15. Top("down", y) = Top("down", K[t])
  <2>1. K[t].kind = "write" => stage # "over"
    BY DEF last, OneAnswer
  <2>. QED  BY <1>3, <1>8, <2>1 DEF Top
<1>16. GoodSide("down", D, x, Nil, d)
  <2>1. \A j \in DOMAIN s : s[j].tag = t => j = i
    <3> SUFFICES ASSUME NEW j \in DOMAIN s, s[j].tag = t
                 PROVE  j = i
      OBVIOUS
    <3>1. s[j] \in StateType /\ MsgOK("down", s[j], K[t], Nil, d)
      BY <1>2, <1>3, GoodMessage
    <3>2. Name(s[j]) = Name(s[i])
      BY <1>7, <1>14, <3>1 DEF Name
    <3>. QED  BY <1>2, <1>7, <3>2, SameName
  <2>2. \A j \in DOMAIN s : j \in Int
    BY <1>2 DEF GoodSide
  <2>3. /\ GoodSide("down", s, K, Nil, d) /\ "down" \in Way /\ i \in DOMAIN s
        /\ m \in StateType /\ m.tag = s[i].tag /\ m.rank = s[i].rank
        /\ y \in CallType /\ CallOK(y) /\ K[m.tag] # NoCall
        /\ Nil \in {Nil, Nil} /\ d \in {Nil, d} /\ (Nil = Nil => Nil = Nil \/ Nil = Name(m))
        /\ (d = Nil => d = Nil \/ d = Name(m)) /\ MsgOK("down", m, y, Nil, d)
    BY <1>2, <1>3, <1>4, <1>7, <1>8, <1>10, <1>12, <1>13
  <2>4. /\ \A n \in StateType :
             n.tag = m.tag /\ n.rank # m.rank /\ MsgOK("down", n, K[m.tag], Nil, d)
               => MsgOK("down", n, y, Nil, d)
        /\ \A j \in DOMAIN s : j < i /\ s[j].tag = m.tag /\ Begun(m, d) => s[j].head = s[j].size
        /\ \A j \in DOMAIN s : i < j /\ s[j].tag = m.tag /\ Begun(s[j], d) => m.head = m.size
    BY <1>7, <1>10, <1>14, <2>1, <2>2
  <2>5. \/ Top("down", y) = Top("down", K[m.tag])
        \/ Top("down", y) = m.rank /\ Top("down", K[m.tag]) = m.rank - 1
    BY <1>10, <1>15
  <2>6. GoodSide("down", D, [K EXCEPT ![m.tag] = y], Nil, d)
    BY ONLY <2>3, <2>4, <2>5, ChangedState
  <2>. QED  BY <1>10, <2>6
<1>17. GoodSide("up", U, x, recv.up[c], send.up[c])
  <2>1. ASSUME NEW n \in StateType, n.tag = t, MsgOK("up", n, K[t], recv.up[c], send.up[c])
        PROVE  MsgOK("up", n, y, recv.up[c], send.up[c])
    <3>1. UpOK(n, y)
      BY <1>3, <1>8, <2>1 DEF MsgOK, UpOK, FlowOK
    <3>. QED  BY <1>8, <1>12, <2>1, <3>1 DEF MsgOK
  <2>2. Top("up", y) = Top("up", K[t])
    BY <1>3, <1>8 DEF Top
  <2>. QED  BY <1>2, <1>4, <1>8, <1>12, <2>1, <2>2, SideCall
<1>18. Replaced(lists, c, U, D)
  <2>1. D \in Seq(StateType)
    BY <1>16 DEF GoodSide
  <2>2. Replaced(list, c, U, s)
    BY <1>1, <1>2, NotReplaced DEF U, s
  <2> HIDE DEF D
  <2>. QED  BY <1>1, <2>1, <2>2, ReplacingDown
<1>19. ReadBy(c, U, D, x, "down")
  BY <1>2, <1>3, <1>5, <1>6, <1>16, <1>17 DEF ReadBy, d
<1>20. /\ x[t].stage = stage /\ \A u \in Tags : u # t => x[u] = call[c][u]
       /\ SameStates(U, list.up[c]) /\ call[c][t] = K[t]
  BY <1>2, <1>8 DEF SameStates, U, K
<1> HIDE DEF D, x, lists
<1>21. CASE last /\ K[t].kind # "other"
  <2>1. Complete(c, t, lists) /\ x[t].stage = "over"
    BY <1>3, <1>20, <1>21
  <2>2. Scheduled(call[c][t].kind)
    BY <1>4, <1>20, <1>21 DEF Scheduled, Scope, AllKinds, last, OneAnswer
  <2>3. call[c][t].stage \notin {"none", "asked", "over"}
    BY <1>3, <1>20
  <2>. QED  BY <1>2, <1>18, <1>19, <1>20, <2>1, <2>2, <2>3, CompletingStep
<1>22. CASE ~(last /\ K[t].kind # "other")
  <2>1. list' = lists /\ fault' = FALSE /\ UNCHANGED scheduler
    BY <1>3, <1>22
  <2>2. QuietItems(c, U, x)
    <3>1. ASSUME NEW j \in DOMAIN U, U[j].item >= 0
          PROVE  x[U[j].tag].stage = "over" <=> call[c][U[j].tag].stage = "over"
      <4>1. U[j] \in StateType /\ U[j].tag \in Tags /\ UpOK(U[j], K[U[j].tag])
        BY <1>2, GoodMessage DEF MsgOK
      <4>2. CASE U[j].tag # t
        BY <1>20, <4>1, <4>2
      <4>3. CASE U[j].tag = t
        <5>1. K[t].kind # "other"
          BY <3>1, <4>1, <4>3 DEF UpOK, Scheduled
        <5>2. x[t].stage = "replied" /\ call[c][t].stage = "served"
          BY <1>3, <1>20, <1>22, <5>1
        <5>. QED  BY <4>3, <5>2
      <4>. QED  BY <4>2, <4>3
    <3>. QED  BY <1>20, <3>1, QuietSame DEF U
  <2>. QED  BY <1>2, <1>18, <1>19, <2>1, <2>2, QuietStep
<1>. QED  BY <1>21, <1>22

(* A data message of a read has been read in full: D is the server side    *)
(* with it, name its name.                                                 *)
LEMMA FlowReadStep ==
  ASSUME IInv, Known, fault = FALSE, NEW c \in open, NEW t \in Tags, NEW name, name[1] = t,
         NEW lists, NEW D0 \in Seq(StateType), Replaced(lists, c, list.up[c], D0),
         FlowRead(c, name, lists),
         call[c][t].kind = "read", call[c][t].stage = "replied",
         NEW more, more = call[c][t].begun + 1,
         NEW last \in BOOLEAN, last <=> more = call[c][t].share,
         NEW y \in CallType, CallOK(y), y.begun = more,
         y = [call[c][t] EXCEPT !.begun = more, !.stage = IF last THEN "over" ELSE @],
         NEW D \in Seq(StateType), D = [D0 EXCEPT ![At(name, D0)].final = last],
         GoodSide("down", D, [call[c] EXCEPT ![t] = y], Nil, send.down[c]),
         recv' = [recv EXCEPT !.down[c] = Nil], Refresh("down", c), UNCHANGED <<incomplete, open>>
  PROVE  IInv'
<1> DEFINE K == call[c]
           s == list.up[c]
           r == recv.up[c]
           d == send.up[c]
           x == [K EXCEPT ![t] = y]
           q == FindRequest(t, s)
           m == [s[q] EXCEPT !.got = more]
           U == [s EXCEPT ![q] = m]
           read == [lists EXCEPT !.up[c] = U, !.down[c] = D]
<1>1. c \in Conns
  BY DEF IInv, Typed
<1>2. /\ GoodSide("up", s, K, r, d)
      /\ list \in Lists /\ "up" \in Way /\ "down" \in Way
      /\ recv \in [Way -> [Conns -> NameType]]
      /\ call \in [Conns -> [Tags -> CallType]] /\ K \in [Tags -> CallType] /\ K = call[c]
      /\ K[t] \in CallType /\ CallOK(K[t])
  BY <1>1, Connection
<1>3. /\ K[t].kind = "read" /\ K[t].stage = "replied" /\ K[t] # NoCall
      /\ K[t].begun \in Nat /\ K[t].share \in Nat /\ K[t].landed \in Nat
      /\ more = K[t].begun + 1 /\ more \in Nat
  BY <1>2 DEF CallType, NoCall
<1>4. /\ q \in DOMAIN s /\ s[q].tag = t /\ s[q].rank = 0
  BY <1>2, <1>3, FirstMessage
<1>5. lists.up[c] = s /\ lists.down[c] = D0
  BY DEF Replaced
<1>6. s[q] \in StateType /\ UpOK(s[q], K[t]) /\ MsgOK("up", s[q], K[t], r, d)
  BY <1>2, <1>4, GoodMessage DEF MsgOK
<1>7. s[q].got + 1 = more
  BY <1>3, <1>4, <1>6 DEF UpOK
<1>8. (s[q].got + 1 = K[t].share) = last
  BY <1>3, <1>7
<1>9. /\ call' = [call EXCEPT ![c][t].begun = more, ![c][t].stage = IF last THEN "over" ELSE @]
      /\ LET new == [lists EXCEPT !.up[c][q].got = more, !.down[c][At(name, D0)].final = last]
         IN  IF last THEN Complete(c, t, new)
                     ELSE list' = new /\ UNCHANGED <<fault, scheduler>>
  <2> DEFINE q1 == FindRequest(name[1], lists.up[c])
             more1 == lists.up[c][q1].got + 1
             last1 == more1 = call[c][name[1]].share
             i1 == At(name, lists.down[c])
  <2>1. /\ call' = [call EXCEPT ![c][name[1]].begun = more1,
                                ![c][name[1]].stage = IF last1 THEN "over" ELSE @]
        /\ LET new == [lists EXCEPT !.up[c][q1].got = more1, !.down[c][i1].final = last1]
           IN  IF last1 THEN Complete(c, name[1], new)
                        ELSE list' = new /\ UNCHANGED <<fault, scheduler>>
    BY DEF FlowRead
  <2>2. q1 = q /\ i1 = At(name, D0) /\ more1 = more
    BY <1>5, <1>7
  <2>3. last1 = last
    BY <1>8, <2>2, <1>5, <1>7
  <2> HIDE DEF q, q1, more1, last1, i1
  <2>. QED  BY <2>1, <2>2, <2>3
<1>10. [lists EXCEPT !.up[c][q].got = more, !.down[c][At(name, D0)].final = last] = read
  <2>1. lists \in [Way -> [Conns -> Seq(StateType)]]
    BY DEF Replaced, Lists
  <2>. QED  BY <1>1, <1>2, <1>5, <2>1
<1>11. call' = [call EXCEPT ![c] = x]
  <2> DEFINE k1 == [K[t] EXCEPT !.begun = more]
  <2>1. k1.stage = K[t].stage
    BY <1>2 DEF CallType
  <2>2. y = [k1 EXCEPT !.stage = IF last THEN "over" ELSE k1.stage]
    BY <1>2
  <2>. QED  BY <1>1, <1>2, <1>9, <2>1, <2>2
<1> HIDE DEF K, s, r, d, q, read
<1>12. /\ y.kind = "read" /\ y.stage = (IF last THEN "over" ELSE "replied")
       /\ y.landed = K[t].landed /\ y.share = K[t].share
  <2> DEFINE stage == IF last THEN "over" ELSE K[t].stage
  <2>1. y = [K[t] EXCEPT !.begun = more, !.stage = stage]
    BY <1>2 DEF K
  <2>2. stage \in {"none", "asked", "served", "replied", "granted", "over"}
    BY <1>3
  <2>3. stage = IF last THEN "over" ELSE "replied"
    BY <1>3
  <2> HIDE DEF stage
  <2>4. K[t] \in CallType /\ more \in Nat
    BY <1>2, <1>3
  <2>5. y.stage = stage /\ y.kind = K[t].kind /\ y.landed = K[t].landed /\ y.share = K[t].share
    BY ONLY <2>1, <2>2, <2>4 DEF CallType
  <2>. QED  BY <1>3, <2>3, <2>5
<1>13. /\ m \in StateType /\ m.got = more /\ m.tag = t /\ m.rank = 0
       /\ m.op = s[q].op /\ m.head = s[q].head /\ m.tail = s[q].tail /\ m.size = s[q].size
       /\ (m.locked <=> s[q].locked) /\ (m.final <=> s[q].final) /\ m.item = s[q].item
  BY <1>3, <1>4, <1>6 DEF StateType
<1> HIDE DEF m
<1>14. y # NoCall /\ y.stage # "asked" /\ Name(m) = Name(s[q])
  <2>1. y # NoCall
    BY <1>12 DEF NoCall
  <2>2. y.stage # "asked"
    BY <1>12
  <2>. QED  BY <1>4, <1>13, <2>1, <2>2 DEF Name
<1>15. MsgOK("up", m, y, r, d)
  <2>1. UpOK(m, y)
    BY <1>3, <1>6, <1>4, <1>12, <1>13, <1>14 DEF UpOK
  <2>2. m.tail = m.size /\ r # Name(m)
    BY <1>4, <1>6, <1>13, <1>14 DEF UpOK, MsgOK
  <2>. QED  BY <1>6, <1>13, <1>14, <2>1, <2>2 DEF MsgOK
<1>16. \A n \in StateType : n.tag = m.tag /\ n.rank # m.rank /\ MsgOK("up", n, K[m.tag], r, d)
             => MsgOK("up", n, y, r, d)
  BY <1>3, <1>13 DEF MsgOK, UpOK
<1>17. Top("up", y) = Top("up", K[m.tag])
  BY <1>3, <1>12, <1>13 DEF Top
<1>18. GoodSide("up", U, x, r, d)
  <2>1. /\ GoodSide("up", s, K, r, d) /\ "up" \in Way /\ q \in DOMAIN s /\ m \in StateType
        /\ m.tag = s[q].tag /\ m.rank = s[q].rank /\ m.head = s[q].head /\ m.size = s[q].size
        /\ y \in CallType /\ CallOK(y) /\ r \in {Nil, r} /\ (r = Nil => r = Nil \/ r = Name(m))
    BY <1>2, <1>4, <1>13
  <2>2. GoodSide("up", U, [K EXCEPT ![m.tag] = y], r, d)
    BY ONLY <1>15, <1>16, <1>17, <2>1, StateRead
  <2>. QED  BY <1>13, <2>2
<1>19. Replaced(read, c, U, D)
  <2>1. U \in Seq(StateType)
    BY <1>18 DEF GoodSide
  <2> HIDE DEF U
  <2>2. Replaced(lists, c, s, D0)
    BY DEF s
  <2>3. read = [lists EXCEPT !.up[c] = U, !.down[c] = D]
    BY DEF read
  <2>. QED  BY ONLY <1>1, <2>1, <2>2, <2>3, D \in Seq(StateType), Replacing
<1>20. ReadBy(c, U, D, x, "down")
  <2>1. /\ recv' \in [Way -> [Conns -> NameType]] /\ recv'.down[c] = Nil
        /\ recv'.up[c] = recv.up[c]
        /\ \A w \in Way, e \in Conns : e # c => recv'[w][e] = recv[w][e]
    BY <1>1, <1>2 DEF NameType, Way
  <2>. QED  BY <1>11, <1>18, <2>1 DEF ReadBy, r, d, K
<1>21. SameStates(U, s)
  BY <1>2, <1>4, <1>13 DEF SameStates, GoodSide
<1>22. x[t] = y /\ \A u \in Tags : u # t => x[u] = call[c][u]
  BY <1>2 DEF K
<1> HIDE DEF U, x
<1>23. CASE last
  <2>1. Complete(c, t, read)
    BY <1>9, <1>10, <1>23
  <2>2. /\ x[t].stage = "over" /\ Scheduled(call[c][t].kind)
        /\ call[c][t].stage \notin {"none", "asked", "over"}
    BY <1>12, <1>22, <1>23 DEF Scheduled
  <2>3. SameStates(U, list.up[c]) /\ "down" \in Way
    BY <1>2, <1>21 DEF s
  <2>. QED  BY ONLY IInv, Known, c \in open, t \in Tags, <1>19, <1>20, <1>22, <2>1, <2>2, <2>3,
                    CompletingStep
<1>24. CASE ~last
  <2>1. list' = read /\ fault' = FALSE /\ UNCHANGED scheduler
    BY <1>9, <1>10, <1>24
  <2>2. \A u \in Tags : x[u].stage = "over" <=> call[c][u].stage = "over"
    BY <1>3, <1>12, <1>22, <1>24 DEF K
  <2>3. \A j \in DOMAIN s : s[j].tag \in Tags
    BY <1>2, GoodMessage
  <2>4. QuietItems(c, U, x)
    BY <1>21, <2>2, <2>3, QuietSame DEF s
  <2>. QED  BY <1>2, <1>19, <1>20, <2>1, <2>4, QuietStep
<1>. QED  BY <1>23, <1>24

(* The call of a read when one more of its data messages has been read.    *)
LEMMA CallRead ==
  ASSUME NEW k \in CallType, CallOK(k), k.kind = "read", k.stage = "replied",
         NEW more, more = k.begun + 1, NEW stage \in {"over", "replied"},
         stage = "over" <=> more = k.share,
         NEW y \in CallType, y.begun = more, y.stage = stage, y.kind = k.kind,
         y.landed = k.landed, y.share = k.share
  PROVE  CallOK(y) /\ y # NoCall /\ (OneAnswer(y) <=> OneAnswer(k))
<1>1. /\ k.begun \in Nat /\ k.share \in Nat /\ k.landed \in Nat /\ k.landed <= k.begun
      /\ k.begun < k.share /\ k.kind \in Kinds /\ ~OneAnswer(k) /\ more \in Nat
  BY DEF CallType, CallOK, NoCall
<1>5. OneAnswer(y) <=> OneAnswer(k)
  BY DEF OneAnswer
<1>6. y # NoCall
  BY DEF NoCall
<1>7. CallOK(y)
  <2>1. /\ y.landed <= y.begun /\ y.begun <= y.share
        /\ IF y.stage = "over" THEN y.begun = y.share ELSE y.begun < y.share
    BY <1>1
  <2>. QED  BY <1>1, <1>5, <1>6, <2>1 DEF CallOK
<1>. QED  BY <1>5, <1>6, <1>7

(* What was there of the answer fits the call afterwards.                  *)
LEMMA FlowsKept ==
  ASSUME NEW k \in CallType, NEW y \in CallType, k.kind = "read", y.kind = "read",
         k.stage = "replied", y.stage \in {"over", "replied"}, y # NoCall,
         y.begun = k.begun + 1, y.share = k.share, y.landed = k.landed,
         OneAnswer(y) <=> OneAnswer(k),
         NEW r, NEW d, NEW n \in StateType, MsgOK("down", n, k, r, d), r # Name(n)
  PROVE  MsgOK("down", n, y, Nil, d)
<1>1. DownOK(n, k, r) /\ Nil # Name(n) /\ n.rank \in Nat /\ k.begun \in Nat
  BY NoName DEF MsgOK, StateType, CallType
<1>2. DownOK(n, y, Nil)
  BY <1>1 DEF DownOK, FlowOK
<1>. QED  BY <1>1, <1>2 DEF MsgOK

(* check_response reads the beginning of a data message. *)
LEMMA ServerFlowStep ==
  ASSUME IInv, Known, fault = FALSE, NEW c \in open, NEW t \in Tags,
         NEW units \in 1 .. FlowUnits, RecvServerFlow(c, t, units)
  PROVE  IInv'
<1> DEFINE K == call[c]
           U == list.up[c]
           s == list.down[c]
           d == send.down[c]
           more == K[t].begun + 1
           new == State(t, more, "flow", FlowUnits)
           m == [new EXCEPT !.tail = units]
           r2 == IF units = FlowUnits THEN Nil ELSE Name(m)
           D0 == Append(s, m)
           lists == [list EXCEPT !.down[c] = D0]
<1>1. c \in Conns /\ FlowUnits \in Nat /\ FlowUnits > 0
  BY ConstantTypes DEF IInv, Typed
<1>2. /\ GoodSide("up", U, K, recv.up[c], send.up[c])
      /\ GoodSide("down", s, K, recv.down[c], d)
      /\ list \in Lists /\ "up" \in Way /\ "down" \in Way
      /\ recv \in [Way -> [Conns -> NameType]]
      /\ call \in [Conns -> [Tags -> CallType]] /\ K \in [Tags -> CallType] /\ K = call[c]
      /\ K[t] \in CallType /\ CallOK(K[t]) /\ incomplete[c] = FALSE
  BY <1>1, Connection DEF IInv, Typed
<1>3. /\ recv.down[c] = Nil /\ K[t].kind = "read" /\ K[t].stage = "replied"
      /\ recv' = [recv EXCEPT !.down[c] = r2]
      /\ Refresh("down", c) /\ UNCHANGED <<incomplete, open>>
  BY DEF RecvServerFlow
<1>4. IF units = FlowUnits THEN FlowRead(c, Name(m), lists)
                           ELSE list' = lists /\ UNCHANGED <<fault, scheduler, call>>
  BY <1>2 DEF RecvServerFlow
<1>5. /\ K[t].begun \in Nat /\ K[t].share \in Nat /\ K[t].landed \in Nat
      /\ K[t].landed <= K[t].begun /\ K[t].begun < K[t].share /\ K[t] # NoCall /\ more \in Nat
  BY <1>2, <1>3 DEF CallType, CallOK, NoCall
<1> HIDE DEF K, U, s, d, more
<1>6. /\ new \in StateType /\ new.tag = t /\ new.rank = more /\ new.op = "flow"
      /\ new.size = FlowUnits /\ new.head = 0 /\ ~new.locked /\ ~new.final /\ new.item = -1
  BY <1>1, <1>5 DEF State, StateType
<1>7. units \in Nat /\ units > 0 /\ units <= FlowUnits /\ m = [new EXCEPT !.tail = units]
  BY <1>1
<1> HIDE DEF new
<1>8. /\ m \in StateType /\ m.tag = t /\ m.rank = more /\ m.op = "flow" /\ m.tail = units
      /\ m.size = FlowUnits /\ m.head = 0 /\ ~m.locked /\ ~m.final /\ m.item = -1
  BY <1>6, <1>7 DEF StateType
<1> HIDE DEF m
<1>9. Name(m) = <<t, more>>
  BY <1>8 DEF Name
<1>10. /\ recv' \in [Way -> [Conns -> NameType]] /\ recv'.down[c] = r2 /\ recv'.up[c] = recv.up[c]
       /\ \A w \in Way, e \in Conns : e # c => recv'[w][e] = recv[w][e]
  <2>1. r2 \in NameType
    BY <1>5, <1>9 DEF NameType
  <2> HIDE DEF r2
  <2>. QED  BY <1>1, <1>2, <1>3, <2>1 DEF Way
<1>11. ASSUME NEW n \in StateType, n.tag = t, MsgOK("down", n, K[t], Nil, d)
       PROVE  n.rank < m.rank /\ Nil # Name(n)
  <2>1. DownOK(n, K[t], Nil) /\ Nil # Name(n) /\ n.rank \in Nat
    BY <1>11, NoName DEF MsgOK, StateType
  <2>2. n.rank <= K[t].begun
    BY <1>3, <1>5, <2>1 DEF DownOK
  <2>. QED  BY <1>5, <1>8, <2>1, <2>2 DEF more
<1>12. ~(more <= K[t].landed) /\ more # 0 /\ Top("down", K[t]) = more - 1
  BY <1>3, <1>5 DEF more, Top
<1>13. Replaced(list, c, U, s) /\ s \in Seq(StateType) /\ D0 \in Seq(StateType)
  BY <1>1, <1>2, <1>8, NotReplaced DEF U, s, GoodSide
<1>14. Replaced(lists, c, U, D0)
  <2> HIDE DEF D0
  <2>. QED  BY <1>1, <1>13, ReplacingDown
<1>15. CASE units # FlowUnits
  <2>1. list' = lists /\ fault' = FALSE /\ UNCHANGED scheduler /\ call' = call /\ r2 = Name(m)
    BY <1>4, <1>15
  <2>2. MsgOK("down", m, K[t], r2, d)
    <3>1. DownOK(m, K[t], r2)
      BY <1>1, <1>3, <1>7, <1>8, <1>12, <1>15, <2>1 DEF DownOK, FlowOK
    <3>. QED  BY <1>1, <1>5, <1>7, <1>8, <1>15, <2>1, <3>1 DEF MsgOK, more
  <2>3. ASSUME NEW n \in StateType, n.tag = t, MsgOK("down", n, K[t], Nil, d)
        PROVE  n.rank < m.rank /\ MsgOK("down", n, K[t], r2, d)
    <3>1. n.rank < m.rank /\ Nil # Name(n)
      BY <1>11, <2>3
    <3>2. r2 # Name(n)
      BY <2>1, <3>1, <1>5, <1>8 DEF Name, StateType
    <3>. QED  BY <2>3, <3>1, <3>2 DEF MsgOK, DownOK
  <2>4. GoodSide("down", D0, K, r2, d)
    <3>1. GoodSide("down", s, K, Nil, d) /\ "down" \in Way /\ t \in Tags
      BY <1>2, <1>3
    <3>2. /\ K[t] \in CallType /\ CallOK(K[t]) /\ K[t] # NoCall /\ m \in StateType /\ m.tag = t
          /\ m.head = 0 /\ r2 \in {Nil, Name(m)} /\ Top("down", K[t]) = Top("down", K[t])
      BY <1>2, <1>5, <1>8, <2>1
    <3>3. \A n \in StateType : n.tag = t /\ MsgOK("down", n, K[t], Nil, d) =>
             n.rank < m.rank /\ MsgOK("down", n, K[t], r2, d)
      BY <2>3
    <3>4. GoodSide("down", D0, [K EXCEPT ![t] = K[t]], r2, d)
      BY ONLY <2>2, <3>1, <3>2, <3>3, NextState
    <3>. QED  BY <1>2, <3>4
  <2>5. ReadBy(c, U, D0, K, "down")
    <3>1. call' = [call EXCEPT ![c] = K]
      BY <1>2, <2>1
    <3>. QED  BY <1>2, <1>3, <1>10, <2>4, <3>1 DEF ReadBy, d
  <2>6. QuietItems(c, U, K)
    <3>1. SameStates(U, list.up[c])
      BY DEF SameStates, U
    <3>. QED  BY <1>2, <3>1, QuietSame
  <2>. QED  BY <1>2, <1>14, <2>1, <2>5, <2>6, QuietStep
<1>16. CASE units = FlowUnits
  <2> DEFINE last == more = K[t].share
             y == [K[t] EXCEPT !.begun = more, !.stage = IF last THEN "over" ELSE @]
             f == [m EXCEPT !.final = last]
             D == [D0 EXCEPT ![At(Name(m), D0)].final = last]
             e == Len(s) + 1
  <2>1. /\ y \in CallType /\ CallOK(y) /\ y # NoCall /\ y.begun = more /\ y.kind = "read"
        /\ y.stage \in {"over", "replied"} /\ y.share = K[t].share /\ y.landed = K[t].landed
        /\ (OneAnswer(y) <=> OneAnswer(K[t]))
    <3> DEFINE k == K[t]
               stage == IF last THEN "over" ELSE "replied"
    <3>1. stage \in {"over", "replied"} /\ (stage = "over" <=> more = k.share)
      OBVIOUS
    <3>2. /\ k \in CallType /\ CallOK(k) /\ k.kind = "read" /\ k.stage = "replied"
          /\ more = k.begun + 1
      BY <1>2, <1>3 DEF more
    <3>3. y = [k EXCEPT !.begun = more, !.stage = stage]
      BY <1>3
    <3> HIDE DEF last, k, y, stage
    <3>4. /\ y \in CallType /\ y.begun = more /\ y.stage = stage /\ y.kind = k.kind
          /\ y.landed = k.landed /\ y.share = k.share
      BY <1>5, <3>1, <3>2, <3>3 DEF CallType
    <3>5. CallOK(y) /\ y # NoCall /\ (OneAnswer(y) <=> OneAnswer(k))
      BY ONLY <3>1, <3>2, <3>4, CallRead
    <3>. QED  BY <3>1, <3>2, <3>4, <3>5 DEF k
  <2>2. /\ f \in StateType /\ f.tag = t /\ f.rank = more /\ f.op = "flow" /\ f.tail = units
        /\ f.size = FlowUnits /\ f.head = 0 /\ ~f.locked /\ (f.final <=> last) /\ f.item = -1
    BY <1>8 DEF StateType
  <2> HIDE DEF y, f
  <2>3. MsgOK("down", f, y, Nil, d)
    <3>1. DownOK(f, y, Nil)
      BY <1>1, <1>5, <1>7, <1>12, <1>16, <2>1, <2>2 DEF DownOK, FlowOK
    <3>. QED  BY <1>1, <1>7, <1>16, <2>1, <2>2, <3>1, NoName DEF MsgOK
  <2>4. ASSUME NEW n \in StateType, n.tag = t, MsgOK("down", n, K[t], Nil, d)
        PROVE  n.rank < f.rank /\ MsgOK("down", n, y, Nil, d)
    <3>1. n.rank < m.rank /\ Nil # Name(n)
      BY <1>11, <2>4
    <3>2. y.begun = K[t].begun + 1
      BY <2>1 DEF more
    <3>. QED  BY <1>2, <1>3, <1>8, <2>1, <2>2, <2>4, <3>1, <3>2, FlowsKept
  <2>5. Top("down", y) = f.rank /\ Top("down", K[t]) = f.rank - 1
    BY <1>12, <2>1, <2>2 DEF Top
  <2>6. GoodSide("down", Append(s, f), [K EXCEPT ![t] = y], Nil, d)
    <3>1. GoodSide("down", s, K, Nil, d) /\ "down" \in Way /\ t \in Tags
      BY <1>2, <1>3
    <3>2. /\ y \in CallType /\ CallOK(y) /\ y # NoCall /\ f \in StateType /\ f.tag = t
          /\ f.head = 0 /\ Nil \in {Nil, Name(f)} /\ K[t] # NoCall
      BY <1>5, <2>1, <2>2
    <3>3. \A n \in StateType : n.tag = t /\ MsgOK("down", n, K[t], Nil, d) =>
             n.rank < f.rank /\ MsgOK("down", n, y, Nil, d)
      BY <2>4
    <3>. QED  BY ONLY <2>3, <2>5, <3>1, <3>2, <3>3, NextState
  <2>7. At(Name(m), D0) = e /\ D0[e] = m /\ e \in DOMAIN D0
    <3>1. D0[e] = m /\ e \in DOMAIN D0
      BY <1>8, <1>13
    <3>2. Ranked(D0)
      <4>1. Ranked(Append(s, f)) /\ Append(s, f) \in Seq(StateType)
        BY <2>6 DEF GoodSide, Side
      <4>2. /\ DOMAIN D0 = DOMAIN Append(s, f)
            /\ \A j \in DOMAIN D0 : /\ D0[j].tag = Append(s, f)[j].tag
                                    /\ D0[j].rank = Append(s, f)[j].rank
        BY <1>8, <1>13, <2>2
      <4>. QED  BY <4>1, <4>2 DEF Ranked
    <3> HIDE DEF D0, e
    <3>. QED  BY <1>13, <3>1, <3>2, Found
  <2>8. D = Append(s, f)
    <3>1. D = [D0 EXCEPT ![e] = [m EXCEPT !.final = last]]
      BY <2>7
    <3>2. D = [D0 EXCEPT ![e] = f]
      BY <3>1 DEF f
    <3> DEFINE s2 == Append(s, f)
    <3>3. /\ s2 \in Seq(StateType) /\ DOMAIN s2 = 1 .. e /\ s2[e] = f
          /\ \A j \in 1 .. e : j # e => s2[j] = s[j]
      BY <1>13, <2>2
    <3>4. /\ DOMAIN D = 1 .. e /\ D[e] = f /\ \A j \in 1 .. e : j # e => D[j] = s[j]
          /\ D \in Seq(StateType)
      <4>1. /\ DOMAIN D0 = 1 .. e /\ \A j \in 1 .. e : j # e => D0[j] = s[j]
        BY <1>8, <1>13
      <4> HIDE DEF D, D0, e
      <4>. QED  BY <1>13, <2>2, <2>7, <3>2, <4>1
    <3> HIDE DEF D, s2
    <3>5. D = [j \in 1 .. e |-> D[j]] /\ s2 = [j \in 1 .. e |-> s2[j]]
      BY <3>3, <3>4
    <3>6. \A j \in 1 .. e : D[j] = s2[j]
      BY <3>3, <3>4
    <3>7. D = s2
      BY <3>5, <3>6
    <3>. QED  BY <3>7 DEF s2
  <2>9. D \in Seq(StateType) /\ GoodSide("down", D, [K EXCEPT ![t] = y], Nil, d)
    BY <2>6, <2>8 DEF GoodSide
  <2>10. /\ FlowRead(c, Name(m), lists) /\ r2 = Nil /\ Name(m)[1] = t
         /\ last \in BOOLEAN /\ (last <=> more = K[t].share)
    BY <1>4, <1>9, <1>16
  <2>11. /\ Replaced(lists, c, list.up[c], D0) /\ D0 \in Seq(StateType)
         /\ call[c][t].kind = "read" /\ call[c][t].stage = "replied"
         /\ more = call[c][t].begun + 1 /\ (last <=> more = call[c][t].share)
    BY <1>2, <1>3, <1>13, <1>14 DEF U, more
  <2>12. /\ y = [call[c][t] EXCEPT !.begun = more, !.stage = IF last THEN "over" ELSE @]
         /\ D = [D0 EXCEPT ![At(Name(m), D0)].final = last]
         /\ GoodSide("down", D, [call[c] EXCEPT ![t] = y], Nil, send.down[c])
         /\ recv' = [recv EXCEPT !.down[c] = Nil]
    BY <1>2, <1>3, <2>9, <2>10 DEF y, d
  <2> DEFINE name == Name(m)
  <2>13. name = Name(m)
    OBVIOUS
  <2> HIDE DEF last, D, D0, lists, r2, name
  <2>. QED  BY ONLY IInv, Known, fault = FALSE, c \in open, t \in Tags, <1>3, <2>1, <2>9, <2>10, <2>11,
                    <2>12, <2>13, FlowReadStep
<1>. QED  BY <1>15, <1>16

(* The rest of a server's message is read. *)
LEMMA ServerRestStep ==
  ASSUME IInv, Known, fault = FALSE, NEW c \in open, RecvServerRest(c)
  PROVE  IInv'
<1> DEFINE K == call[c]
           U == list.up[c]
           s == list.down[c]
           r == recv.down[c]
           d == send.down[c]
<1>1. c \in Conns /\ FlowUnits \in Nat /\ FlowUnits > 0
  BY ConstantTypes DEF IInv, Typed
<1>2. /\ GoodSide("up", U, K, recv.up[c], send.up[c])
      /\ GoodSide("down", s, K, r, d)
      /\ list \in Lists /\ "up" \in Way /\ "down" \in Way
      /\ call \in [Conns -> [Tags -> CallType]] /\ K \in [Tags -> CallType] /\ K = call[c]
  BY <1>1, Connection
<1>3. /\ r # Nil /\ recv' = [recv EXCEPT !.down[c] = Nil]
      /\ LET full == [list EXCEPT !.down[c][At(r, s)].tail = s[At(r, s)].size]
         IN  s[At(r, s)].op = "flow" => FlowRead(c, r, full)
      /\ Refresh("down", c) /\ UNCHANGED <<incomplete, open>>
  BY DEF RecvServerRest
<1>4. PICK i \in DOMAIN s : Name(s[i]) = r
  BY <1>2, <1>3 DEF GoodSide, Side, Pointed, Has
<1>5. At(r, s) = i
  BY <1>2, <1>4, Found DEF GoodSide, Side
<1> DEFINE t == s[i].tag
           more == K[t].begun + 1
           last == more = K[t].share
           stage == IF last THEN "over" ELSE "replied"
           y == [K[t] EXCEPT !.begun = more, !.stage = IF last THEN "over" ELSE @]
           m0 == [s[i] EXCEPT !.tail = s[i].size]
           m == [m0 EXCEPT !.final = last]
           D0 == [s EXCEPT ![i] = m0]
           D == [D0 EXCEPT ![At(r, D0)].final = last]
           lists == [list EXCEPT !.down[c] = D0]
<1>6. s[i].op = "flow" => FlowRead(c, r, lists)
  BY <1>3, <1>5
<1> HIDE DEF K, U, s, r, d
<1>7. /\ s[i] \in StateType /\ t \in Tags /\ K[t] \in CallType
      /\ CallOK(K[t]) /\ MsgOK("down", s[i], K[t], r, d)
  BY <1>2, <1>4, GoodMessage
<1>8. /\ DownOK(s[i], K[t], r) /\ s[i].tail < s[i].size /\ s[i].rank = K[t].begun + 1
      /\ K[t].begun \in Nat /\ K[t].share \in Nat /\ K[t].landed \in Nat
  BY <1>4, <1>7 DEF MsgOK, CallType
<1>9. /\ K[t].kind = "read" /\ K[t].stage = "replied" /\ FlowOK(s[i], K[t])
      /\ ~s[i].final /\ s[i].item = -1 /\ ~s[i].locked
  <2>1. s[i].rank # 0
    BY <1>8
  <2>2. ~(s[i].rank <= K[t].begun) /\ s[i].tail # s[i].size
    BY <1>7, <1>8 DEF StateType
  <2>. QED  BY <1>8, <2>1, <2>2 DEF DownOK
<1>10. K[t] # NoCall /\ r = <<t, more>> /\ r[1] = t /\ s[i].op = "flow" /\ s[i].size = FlowUnits
  <2>1. K[t] # NoCall
    BY <1>9 DEF NoCall
  <2>. QED  BY <1>4, <1>8, <1>9, <2>1 DEF Name, FlowOK
<1>11. /\ m0 \in StateType /\ m0.tail = FlowUnits /\ m0.tag = t /\ m0.rank = more
       /\ m0.head = s[i].head /\ m0.size = FlowUnits /\ m0.op = "flow" /\ m0.item = -1
       /\ ~m0.locked
  BY <1>7, <1>8, <1>9, <1>10 DEF StateType
<1> HIDE DEF m0
<1>12. /\ m \in StateType /\ m.tail = FlowUnits /\ m.tag = t /\ m.rank = more
       /\ m.head = s[i].head /\ m.size = FlowUnits /\ m.op = "flow" /\ m.item = -1
       /\ ~m.locked /\ (m.final <=> last)
  BY <1>11 DEF StateType
<1> HIDE DEF m
<1>13. stage \in {"over", "replied"} /\ (stage = "over" <=> more = K[t].share)
  OBVIOUS
<1>14. /\ y \in CallType /\ y.begun = more /\ y.stage = stage /\ y.kind = K[t].kind
       /\ y.landed = K[t].landed /\ y.share = K[t].share
  <2>1. y = [K[t] EXCEPT !.begun = more, !.stage = stage]
    BY <1>9
  <2>2. more \in Nat /\ K[t] \in CallType
    BY <1>7, <1>8
  <2> HIDE DEF y, stage, more
  <2>. QED  BY <1>13, <2>1, <2>2 DEF CallType
<1> HIDE DEF y, stage
<1>15. CallOK(y) /\ y # NoCall /\ (OneAnswer(y) <=> OneAnswer(K[t]))
  <2> DEFINE k == K[t]
  <2>1. /\ k \in CallType /\ CallOK(k) /\ k.kind = "read" /\ k.stage = "replied"
        /\ more = k.begun + 1 /\ (stage = "over" <=> more = k.share)
        /\ y.kind = k.kind /\ y.landed = k.landed /\ y.share = k.share
    BY <1>7, <1>9, <1>13, <1>14
  <2> HIDE DEF k, more
  <2>2. CallOK(y) /\ y # NoCall /\ (OneAnswer(y) <=> OneAnswer(k))
    BY ONLY <1>13, <1>14, <2>1, CallRead
  <2>. QED  BY <2>2 DEF k
<1>16. Name(m) = r /\ r # Nil /\ (d = r <=> d = Name(s[i]))
  BY <1>3, <1>4, <1>10, <1>12 DEF Name
<1>17. MsgOK("down", m, y, Nil, d)
  <2>1. y.kind = "read" /\ y.begun = more /\ y.share = K[t].share /\ y.landed = K[t].landed
    BY <1>9, <1>14
  <2>2. s[i].head \in Nat /\ s[i].head <= FlowUnits
    BY <1>7, <1>8, <1>10 DEF MsgOK, StateType
  <2>3. FlowOK(m, y)
    BY <1>1, <1>8, <1>9, <1>10, <1>12, <2>1 DEF FlowOK
  <2>4. DownOK(m, y, Nil)
    BY <1>1, <1>8, <1>12, <2>1, <2>3 DEF DownOK
  <2>5. /\ m.head <= m.tail /\ m.tail <= m.size /\ ~(m.tail < m.size)
        /\ 0 < m.head /\ m.head < m.size => d = Name(m)
        /\ d = Name(m) => m.head < m.size /\ ~m.locked
    BY <1>1, <1>7, <1>10, <1>12, <1>16, <2>2 DEF MsgOK
  <2>. QED  BY <1>15, <1>16, <2>4, <2>5 DEF MsgOK
<1>18. ASSUME NEW n \in StateType, n.tag = m.tag, n.rank # m.rank, MsgOK("down", n, K[t], r, d)
       PROVE  MsgOK("down", n, y, Nil, d)
  <2>1. r # Name(n)
    BY <1>12, <1>16, <1>18 DEF Name
  <2>2. y.begun = K[t].begun + 1 /\ y.kind = "read" /\ y.stage \in {"over", "replied"}
    BY <1>9, <1>13, <1>14
  <2>. QED  BY <1>7, <1>9, <1>14, <1>15, <1>18, <2>1, <2>2, FlowsKept
<1>19. Top("down", y) = m.rank /\ Top("down", K[t]) = m.rank - 1
  BY <1>8, <1>9, <1>12, <1>14 DEF Top
<1> DEFINE D2 == [s EXCEPT ![i] = m]
<1>20. GoodSide("down", D2, [K EXCEPT ![t] = y], Nil, d)
  <2>1. /\ GoodSide("down", s, K, r, d) /\ "down" \in Way /\ i \in DOMAIN s /\ m \in StateType
        /\ m.tag = s[i].tag /\ m.rank = s[i].rank /\ m.head = s[i].head /\ m.size = s[i].size
        /\ y \in CallType /\ CallOK(y) /\ Nil \in {Nil, r} /\ (Nil = Nil => r = Nil \/ r = Name(m))
    BY <1>2, <1>4, <1>8, <1>10, <1>12, <1>14, <1>15, <1>16
  <2>2. /\ \A n \in StateType :
             n.tag = m.tag /\ n.rank # m.rank /\ MsgOK("down", n, K[m.tag], r, d)
               => MsgOK("down", n, y, Nil, d)
        /\ \/ Top("down", y) = Top("down", K[m.tag])
           \/ Top("down", y) = m.rank /\ Top("down", K[m.tag]) = m.rank - 1
    BY <1>12, <1>18, <1>19
  <2>3. GoodSide("down", [s EXCEPT ![i] = m], [K EXCEPT ![m.tag] = y], Nil, d)
    BY ONLY <1>17, <2>1, <2>2, StateRead
  <2>. QED  BY <1>12, <2>3
<1>21. s \in Seq(StateType) /\ D0 \in Seq(StateType) /\ DOMAIN D0 = DOMAIN s /\ D0[i] = m0
  BY <1>2, <1>4, <1>11 DEF GoodSide
<1>22. At(r, D0) = i
  <2>1. Ranked(D0)
    <3>1. Ranked(s)
      BY <1>2 DEF GoodSide, Side
    <3>2. \A j \in DOMAIN s : D0[j].tag = s[j].tag /\ D0[j].rank = s[j].rank
      BY <1>8, <1>11, <1>21
    <3>. QED  BY <1>21, <3>1, <3>2 DEF Ranked
  <2>2. Name(D0[i]) = r
    BY <1>10, <1>11, <1>21 DEF Name
  <2> HIDE DEF D0
  <2>. QED  BY <1>4, <1>21, <2>1, <2>2, Found
<1>23. D = D2
  <2>1. D = [D0 EXCEPT ![i] = [m0 EXCEPT !.final = last]]
    BY <1>21, <1>22
  <2>2. D = [D0 EXCEPT ![i] = m]
    BY <2>1 DEF m
  <2>. QED  BY <1>21, <2>2
<1>24. D \in Seq(StateType) /\ GoodSide("down", D, [K EXCEPT ![t] = y], Nil, d)
  BY <1>20, <1>23 DEF GoodSide
<1>25. Replaced(lists, c, U, D0)
  <2>1. Replaced(list, c, U, s)
    BY <1>1, <1>2, NotReplaced DEF U, s
  <2> HIDE DEF D0
  <2>. QED  BY <1>1, <1>21, <2>1, ReplacingDown
<1>26. /\ FlowRead(c, r, lists) /\ r[1] = t
       /\ last \in BOOLEAN /\ (last <=> more = K[t].share)
  BY <1>6, <1>10
<1>27. /\ Replaced(lists, c, list.up[c], D0) /\ D0 \in Seq(StateType)
       /\ call[c][t].kind = "read" /\ call[c][t].stage = "replied"
       /\ more = call[c][t].begun + 1 /\ (last <=> more = call[c][t].share)
  BY <1>2, <1>9, <1>21, <1>25 DEF U
<1>28. /\ y = [call[c][t] EXCEPT !.begun = more, !.stage = IF last THEN "over" ELSE @]
       /\ D = [D0 EXCEPT ![At(r, D0)].final = last]
       /\ GoodSide("down", D, [call[c] EXCEPT ![t] = y], Nil, send.down[c])
       /\ y \in CallType /\ CallOK(y) /\ y.begun = more /\ t \in Tags
  BY <1>2, <1>7, <1>14, <1>15, <1>24 DEF y, d
<1> HIDE DEF last, D, D0, lists, t, more
<1>. QED  BY ONLY IInv, Known, fault = FALSE, c \in open, <1>3, <1>24, <1>26, <1>27, <1>28, FlowReadStep
-----------------------------------------------------------------------------
(* The steps that send a message *)

(* Way w of connection c sends on with e, or with the next message there   *)
(* is.                                                                     *)
SendsOn(w, c, e) == send' = [send EXCEPT ![w][c] = UpdateSend(e, list'[w][c])]

(* Connection c now has list s on way w, and all else is as in list.       *)
HasList(lists, w, c, s) == lists = [list EXCEPT ![w][c] = s]

(* What a step that sends some of a message has to leave behind: lists that *)
(* fit the calls x of the connection.                                      *)
SentBy(c, w, x, e) ==
  /\ list' \in Lists /\ \A v \in Way, d \in Conns : d # c => list'[v][d] = list[v][d]
  /\ \A v \in Way :
       GoodSide(v, list'[v][c], x, recv[v][c], IF v = w THEN e ELSE send[v][c])
  /\ call' = [call EXCEPT ![c] = x]
  /\ UNCHANGED <<recv, incomplete, open, fault, scheduler>>

(* What a send leaves is as IInv has it. *)
LEMMA SendKept ==
  ASSUME IInv, NEW c \in open, NEW w \in Way, NEW x, NEW e,
         SentBy(c, w, x, e), SendsOn(w, c, e), BookedOK'
  PROVE  IInv'
<1>0. /\ list' \in Lists /\ \A v \in Way, d \in Conns : d # c => list'[v][d] = list[v][d]
      /\ \A v \in Way :
           GoodSide(v, list'[v][c], x, recv[v][c], IF v = w THEN e ELSE send[v][c])
      /\ call' = [call EXCEPT ![c] = x]
      /\ UNCHANGED <<recv, incomplete, open, fault, scheduler>>
  BY DEF SentBy
<1>1. /\ Typed /\ CallsOK /\ SidesOK /\ c \in Conns /\ arrived' <= MaxRequests
      /\ send \in [Way -> [Conns -> NameType]] /\ call \in [Conns -> [Tags -> CallType]]
  BY <1>0 DEF IInv, Typed, scheduler
<1>2. x \in [Tags -> CallType] /\ \A t \in Tags : CallOK(x[t])
  BY <1>0 DEF GoodSide
<1>3. /\ call' \in [Conns -> [Tags -> CallType]]
      /\ \A d \in Conns : call'[d] = IF d = c THEN x ELSE call[d]
  BY <1>0, <1>1, <1>2
<1>4. \A v \in Way, d \in Conns :
        send'[v][d] = IF v = w /\ d = c THEN UpdateSend(e, list'[v][d]) ELSE send[v][d]
  BY <1>1 DEF SendsOn
<1>5. Side(w, list'[w][c], x, recv[w][c], UpdateSend(e, list'[w][c]))
      /\ UpdateSend(e, list'[w][c]) \in NameType
  <2>1. GoodSide(w, list'[w][c], x, recv[w][c], e)
    BY <1>0
  <2>. QED  BY <2>1, SideRefresh DEF GoodSide
<1>6. \A v \in Way, d \in Conns : Side(v, list'[v][d], call'[d], recv'[v][d], send'[v][d])
  <2> TAKE v \in Way, d \in Conns
  <2>1. CASE d # c
    <3>1. /\ list'[v][d] = list[v][d] /\ call'[d] = call[d] /\ send'[v][d] = send[v][d]
          /\ recv'[v][d] = recv[v][d]
      BY <2>1, <1>0, <1>3, <1>4
    <3>2. Side(v, list[v][d], call[d], recv[v][d], send[v][d])
      BY <1>1 DEF SidesOK
    <3>. QED  BY <3>1, <3>2
  <2>2. CASE d = c /\ v = w
    BY <2>2, <1>0, <1>3, <1>4, <1>5
  <2>3. CASE d = c /\ v # w
    <3>1. /\ call'[d] = x /\ send'[v][d] = send[v][c] /\ recv'[v][d] = recv[v][c]
      BY <2>3, <1>0, <1>3, <1>4
    <3>2. GoodSide(v, list'[v][c], x, recv[v][c], send[v][c])
      BY <2>3, <1>0
    <3>. QED  BY <2>3, <3>1, <3>2 DEF GoodSide
  <2>. QED  BY <2>1, <2>2, <2>3
<1>7. SidesOK'
  BY <1>6 DEF SidesOK
<1>8. CallsOK'
  BY <1>1, <1>2, <1>3 DEF CallsOK
<1>9. send' \in [Way -> [Conns -> NameType]]
  BY <1>1, <1>5 DEF SendsOn
<1>10. Typed'
  BY <1>0, <1>1, <1>3, <1>9 DEF Typed, Lists
<1>11. NoFault'
  BY <1>0 DEF IInv, NoFault, Undisturbed
<1>12. \A d \in Conns \ open', t \in Tags : call'[d][t] = NoCall
  BY <1>0, <1>1, <1>3 DEF IInv
<1>. QED  BY <1>1, <1>7, <1>8, <1>10, <1>11, <1>12 DEF IInv

(* A data message that is being sent is the next one of its call.          *)
LEMMA NextData ==
  ASSUME NEW w \in Way, NEW s, NEW k, NEW r, NEW d, GoodSide(w, s, k, r, d),
         NEW i \in DOMAIN s, d = Name(s[i]), s[i].op = "flow"
  PROVE  s[i].rank = k[s[i].tag].landed + 1
<1> DEFINE m == s[i]
           q == k[m.tag]
           n == q.landed + 1
<1>1. /\ m \in StateType /\ m.tag \in Tags /\ q \in CallType /\ CallOK(q)
      /\ MsgOK(w, m, q, r, d) /\ m.op = "flow" /\ d = Name(m)
  BY GoodMessage
<1>2. /\ Ranked(s) /\ AllThere(w, s, k) /\ SentInOrder(s, d) /\ s \in Seq(StateType)
  BY DEF GoodSide, Side
<1> HIDE DEF q
<1>3. /\ q # NoCall /\ m.head < m.size /\ q.kind \in AllKinds /\ "flow" \notin AllKinds
      /\ q.landed \in Nat /\ q.begun \in Nat /\ m.rank \in Nat /\ m.head \in Nat /\ m.size \in Nat
      /\ q.landed <= q.begun /\ n \in Nat
  BY <1>1, ConstantTypes DEF MsgOK, CallOK, AllKinds, StateType, CallType
<1>4. m.rank > q.landed
  BY <1>1, <1>3 DEF MsgOK, UpOK, DownOK, FlowOK, Way
<1>5. ASSUME m.rank > n
      PROVE  FALSE
  <2>1. n <= Top(w, q) /\ ((w = "up" /\ q.kind = "write") \/ (w = "down" /\ q.kind = "read"))
    <3>1. CASE w = "up"
      BY <3>1, <1>1, <1>3, <1>5 DEF MsgOK, UpOK, Top
    <3>2. CASE w = "down"
      BY <3>2, <1>1, <1>3, <1>5 DEF MsgOK, DownOK, Top
    <3>. QED  BY <3>1, <3>2 DEF Way
  <2>2. PICK j \in DOMAIN s : Name(s[j]) = <<m.tag, n>>
    BY <1>1, <1>2, <1>3, <2>1 DEF AllThere, Has, q
  <2>3. s[j].tag = m.tag /\ s[j].rank = n
    BY <2>2 DEF Name
  <2>4. i \in Nat /\ j \in Nat
    BY <1>2
  <2>5. j < i
    <3>1. ~(i < j)
      BY <1>2, <1>3, <1>5, <2>3 DEF Ranked
    <3>2. i # j
      BY <1>3, <1>5, <2>3
    <3>. QED  BY <2>4, <3>1, <3>2
  <2>6. s[j].head = s[j].size
    BY <1>1, <1>2, <2>3, <2>5 DEF SentInOrder, Begun
  <2>7. MsgOK(w, s[j], q, r, d)
    BY <2>3, GoodMessage DEF q
  <2>8. FlowOK(s[j], q)
    BY <2>1, <2>3, <2>7, <1>3 DEF MsgOK, UpOK, DownOK, Way
  <2>. QED  BY <1>3, <2>3, <2>6, <2>8 DEF FlowOK
<1>. QED  BY <1>3, <1>4, <1>5 DEF q

(* How call k changes to y when message m has reached the peer and does not *)
(* end the call.                                                           *)
Moved(w, k, y, m) ==
  /\ y \in CallType /\ CallOK(y) /\ y # NoCall
  /\ y.kind = k.kind /\ y.begun = k.begun /\ y.share = k.share
  /\ \/ /\ w = "up" /\ m.rank = 0
        /\ k.stage = "asked" /\ y.stage = "served" /\ y.landed = k.landed
     \/ m.rank # 0 /\ m.op = "flow" /\ y.stage = k.stage /\ y.landed = k.landed + 1
     \/ /\ w = "down" /\ m.rank = 0 /\ k.kind = "write"
        /\ k.stage = "replied" /\ y.stage = "granted" /\ y.landed = k.landed
     \/ w = "down" /\ m.rank = 0 /\ y.stage = k.stage /\ y.landed = k.landed

(* Which messages end a call, and with what.                               *)
LEMMA FinalMessage ==
  ASSUME NEW k \in CallType, CallOK(k), NEW r, NEW d, NEW m \in StateType,
         MsgOK("down", m, k, r, d), d = Name(m), m.tail = m.size,
         m.op = "flow" => m.rank = k.landed + 1,
         m.rank = 0 /\ k.kind = "read" => k.landed = 0
  PROVE  /\ m.final <=> Ends(k, m)
         /\ m.final => k.stage = "over"
<1>1. /\ k # NoCall /\ k.kind \in Kinds /\ k.kind \in AllKinds /\ k.stage # "none"
      /\ m.head < m.size /\ DownOK(m, k, r) /\ r # Name(m)
      /\ k.landed \in Nat /\ k.begun \in Nat /\ k.share \in Nat /\ m.rank \in Nat
      /\ m.head \in Nat /\ m.size \in Nat /\ k.landed <= k.begun /\ k.begun <= k.share
      /\ k.kind \notin {"flow", "completion", "none"}
  BY ConstantTypes DEF MsgOK, CallOK, AllKinds, StateType, CallType
<1>2. CASE m.rank = 0
  <2>1. /\ m.op = k.kind /\ m.size = 1 /\ k.stage \notin {"asked", "served"}
        /\ m.final <=> OneAnswer(k)
    BY <1>1, <1>2 DEF DownOK
  <2>2. Ends(k, m) <=> k.kind \in {"meta", "other", "small"} \/ (k.kind = "read" /\ k.landed = k.share)
    BY <1>1, <2>1 DEF Ends
  <2>3. k.kind = "read" => k.landed = 0
    BY <1>2
  <2>4. OneAnswer(k) => k.stage = "over"
    BY <1>1, <2>1 DEF CallOK, OneAnswer, CallType
  <2>. QED  BY <2>1, <2>2, <2>3, <2>4 DEF OneAnswer
<1>3. CASE m.rank # 0 /\ k.kind = "read"
  <2>1. m.op = "flow" /\ m.rank <= k.begun /\ (m.final <=> m.rank = k.share) /\ m.rank = k.landed + 1
    BY <1>1, <1>3 DEF DownOK, FlowOK
  <2>2. Ends(k, m) <=> k.landed + 1 = k.share
    BY <2>1, <1>3 DEF Ends
  <2>3. m.rank = k.share => k.stage = "over"
    BY <1>1, <1>3, <2>1 DEF CallOK
  <2>. QED  BY <2>1, <2>2, <2>3
<1>4. CASE m.rank # 0 /\ k.kind # "read"
  BY <1>1, <1>4 DEF DownOK, Ends
<1>. QED  BY <1>2, <1>3, <1>4

(* A message that does not end its call moves it on. *)
LEMMA ReachedMoves ==
  ASSUME NEW w \in Way, NEW k \in CallType, CallOK(k), NEW r, NEW d, NEW m \in StateType,
         MsgOK(w, m, k, r, d), d = Name(m), m.tail = m.size, ~m.final,
         m.op = "flow" => m.rank = k.landed + 1,
         w = "down" => ~Ends(k, m),
         NEW y, y = Reached(k, w, m)
  PROVE  Moved(w, k, y, m)
<1>1. /\ k # NoCall /\ k.kind \in Kinds /\ k.kind \in AllKinds /\ k.stage # "none"
      /\ m.head < m.size /\ r # Name(m)
      /\ k.landed \in Nat /\ k.begun \in Nat /\ k.share \in Nat /\ m.rank \in Nat
      /\ m.head \in Nat /\ m.size \in Nat /\ k.landed <= k.begun /\ k.begun <= k.share
      /\ k.kind \notin {"flow", "completion", "none"}
  BY ConstantTypes DEF MsgOK, CallOK, AllKinds, StateType, CallType
<1>2. CASE m.op = "flow"
  <2>1. m.rank # 0 /\ m.rank <= k.begun
        /\ ((w = "up" /\ k.kind = "write") \/ (w = "down" /\ k.kind = "read"))
    BY <1>1, <1>2 DEF MsgOK, UpOK, DownOK, Way
  <2>2. y = [k EXCEPT !.landed = k.landed + 1]
    BY <1>2 DEF Reached
  <2>3. /\ y \in CallType /\ y.landed = k.landed + 1 /\ y.kind = k.kind
        /\ y.stage = k.stage /\ y.begun = k.begun /\ y.share = k.share
    BY <1>1, <2>2, CallLanded
  <2>4. CallOK(y) /\ y # NoCall
    <3>1. y.landed <= y.begun
      BY <1>2, <2>1, <2>3
    <3>2. y.kind = "write" => y.stage # "over"
      BY <1>1, <1>2, <2>1, <2>3 DEF CallOK
    <3>. QED  BY <1>1, <2>1, <2>3, <3>1, <3>2 DEF CallOK, OneAnswer, NoCall
  <2>. QED  BY <1>2, <2>1, <2>3, <2>4 DEF Moved
<1>3. CASE w = "up" /\ m.op # "flow"
  <2>1. m.rank = 0 /\ m.head = 0 /\ k.stage = "asked"
    BY <1>1, <1>3 DEF MsgOK, UpOK, FlowOK
  <2>2. y = [k EXCEPT !.stage = "served"]
    BY <1>3 DEF Reached
  <2>3. /\ y \in CallType /\ y.stage = "served" /\ y.kind = k.kind
        /\ y.begun = k.begun /\ y.landed = k.landed /\ y.share = k.share
    BY <2>2, CallStage
  <2>4. CallOK(y) /\ y # NoCall
    BY <1>1, <2>1, <2>3 DEF CallOK, OneAnswer, NoCall
  <2>. QED  BY <1>3, <2>1, <2>3, <2>4 DEF Moved
<1>4. CASE w = "down" /\ m.op # "flow"
  <2>1. m.rank = 0
    BY <1>1, <1>4 DEF MsgOK, DownOK, FlowOK
  <2> DEFINE next == IF k.kind = "write" /\ k.stage = "replied" THEN "granted" ELSE k.stage
  <2>2. y = [k EXCEPT !.stage = next]
    BY <1>4 DEF Reached
  <2>3. next \in {"none", "asked", "served", "replied", "granted", "over"}
    BY DEF CallType
  <2> HIDE DEF next
  <2>4. /\ y \in CallType /\ y.stage = next /\ y.kind = k.kind
        /\ y.begun = k.begun /\ y.landed = k.landed /\ y.share = k.share
    BY <2>2, <2>3, CallStage
  <2>5. CallOK(y) /\ y # NoCall
    BY <1>1, <2>4 DEF CallOK, OneAnswer, NoCall, next
  <2>. QED  BY <1>4, <2>1, <2>4, <2>5 DEF Moved, next
<1>. QED  BY <1>2, <1>3, <1>4 DEF Way

(* The other messages of the call fit it as it is then, on both ways.      *)
LEMMA MovedOthers ==
  ASSUME NEW w \in Way, NEW k \in CallType, CallOK(k), NEW y, NEW m \in StateType, Moved(w, k, y, m),
         m.op = "flow" => m.rank = k.landed + 1,
         m.op = "flow" => (w = "up" <=> k.kind = "write"),
         NEW v \in Way, NEW r, NEW d, NEW n \in StateType, MsgOK(v, n, k, r, d),
         v # w \/ n.rank # m.rank
  PROVE  MsgOK(v, n, y, r, d) /\ Top(v, y) = Top(v, k)
<1>1. /\ k.landed \in Nat /\ k.begun \in Nat /\ k.share \in Nat /\ n.rank \in Nat /\ m.rank \in Nat
      /\ y.kind = k.kind /\ y.begun = k.begun /\ y.share = k.share /\ y # NoCall
      /\ (y.stage = "over" <=> k.stage = "over") /\ (OneAnswer(y) <=> OneAnswer(k))
      /\ k # NoCall
  BY DEF CallType, StateType, Moved, OneAnswer, MsgOK
<1>2. Top(v, y) = Top(v, k)
  BY <1>1 DEF Top
<1>3. n.rank # 0 /\ ((v = "up" /\ k.kind = "write") \/ (v = "down" /\ k.kind = "read"))
         => (n.rank <= y.landed <=> n.rank <= k.landed)
  BY <1>1 DEF Moved, Way
<1>4. v = "up" => UpOK(n, y)
  <2> SUFFICES ASSUME v = "up"
               PROVE  UpOK(n, y)
    OBVIOUS
  <2>1. UpOK(n, k)
    BY DEF MsgOK
  <2>2. CASE n.rank = 0
    <3>1. y.stage = "asked" <=> k.stage = "asked"
      BY <2>2 DEF Moved, Way
    <3>. QED  BY <1>1, <2>1, <2>2, <3>1 DEF UpOK
  <2>3. CASE n.rank # 0
    BY <1>1, <1>3, <2>1, <2>3 DEF UpOK, FlowOK
  <2>. QED  BY <2>2, <2>3
<1>5. v = "down" => DownOK(n, y, r)
  <2> SUFFICES ASSUME v = "down"
               PROVE  DownOK(n, y, r)
    OBVIOUS
  <2>1. DownOK(n, k, r)
    BY DEF MsgOK
  <2>2. y.stage \in {"asked", "served"} <=> k.stage \in {"asked", "served"}
    BY DEF Moved
  <2>3. k.kind = "read" => (y.stage = "replied" <=> k.stage = "replied")
    BY DEF Moved
  <2>4. CASE n.rank = 0
    BY <1>1, <2>1, <2>2, <2>4 DEF DownOK
  <2>5. CASE n.rank # 0
    BY <1>1, <1>3, <2>1, <2>3, <2>5 DEF DownOK, FlowOK
  <2>. QED  BY <2>4, <2>5
<1>6. MsgOK(v, n, y, r, d)
  BY <1>1, <1>4, <1>5 DEF MsgOK, Way
<1>. QED  BY <1>2, <1>6

(* The first answer of a read is sent before any of its data messages.     *)
LEMMA AnswerFirst ==
  ASSUME NEW s, NEW k, NEW r, NEW d, GoodSide("down", s, k, r, d),
         NEW i \in DOMAIN s, d = Name(s[i]), s[i].rank = 0, k[s[i].tag].kind = "read"
  PROVE  k[s[i].tag].landed = 0
<1> DEFINE t == s[i].tag
           q == k[t]
<1>1. /\ t \in Tags /\ q \in CallType /\ CallOK(q) /\ MsgOK("down", s[i], q, r, d)
      /\ "down" \in Way /\ s[i].rank = 0 /\ q.kind = "read"
  BY GoodMessage DEF Way
<1>2. /\ Ranked(s) /\ AllThere("down", s, k) /\ SentInOrder(s, d) /\ s \in Seq(StateType)
  BY DEF GoodSide, Side
<1> HIDE DEF q
<1>3. /\ q # NoCall /\ q.landed \in Nat /\ q.begun \in Nat /\ q.landed <= q.begun
      /\ s[i].head < s[i].size
  BY <1>1 DEF MsgOK, CallOK, CallType
<1> SUFFICES ASSUME q.landed >= 1
             PROVE  FALSE
  BY <1>3 DEF q
<1>4. 1 <= Top("down", q)
  BY <1>1, <1>3 DEF Top
<1>5. PICK j \in DOMAIN s : Name(s[j]) = <<t, 1>>
  BY <1>1, <1>2, <1>3, <1>4 DEF AllThere, Has, q
<1>6. s[j].tag = t /\ s[j].rank = 1
  BY <1>5 DEF Name
<1>7. MsgOK("down", s[j], q, r, d) /\ s[j] \in StateType
  BY <1>1, <1>6, GoodMessage DEF q
<1>8. s[j].head = FlowUnits /\ FlowUnits > 0
  BY <1>1, <1>3, <1>6, <1>7, ConstantTypes DEF MsgOK, DownOK, FlowOK
<1>9. i < j
  <2>1. i \in Nat /\ j \in Nat /\ i # j
    BY <1>1, <1>2, <1>6
  <2>2. ~(j < i)
    BY <1>1, <1>2, <1>6 DEF Ranked
  <2>. QED  BY <2>1, <2>2
<1>10. s[i].head = s[i].size
  BY <1>2, <1>6, <1>8, <1>9 DEF SentInOrder, Begun
<1>11. s[i].head \in Nat /\ s[i].size \in Nat
  <2>1. s[i] \in StateType
    BY <1>2, ElementOfSeq
  <2>. QED  BY <2>1 DEF StateType
<1>. QED  BY <1>3, <1>10, <1>11

(* The message that is being sent.                                         *)
LEMMA BeingSent ==
  ASSUME NEW w \in Way, NEW s, NEW k, NEW r, NEW d, GoodSide(w, s, k, r, d), d # Nil
  PROVE  \E i \in DOMAIN s :
           /\ Name(s[i]) = d /\ At(d, s) = i /\ s[i].head < s[i].size
           /\ k[s[i].tag] # NoCall
           /\ s[i].op = "flow" => s[i].rank = k[s[i].tag].landed + 1
           /\ s[i].op = "flow" => (w = "up" <=> k[s[i].tag].kind = "write")
           /\ w = "down" /\ s[i].rank = 0 /\ k[s[i].tag].kind = "read" => k[s[i].tag].landed = 0
<1>1. PICK i \in DOMAIN s : Name(s[i]) = d
  BY DEF GoodSide, Side, Pointed, Has
<1>2. At(d, s) = i
  BY <1>1, Found DEF GoodSide, Side
<1>3. MsgOK(w, s[i], k[s[i].tag], r, d) /\ CallOK(k[s[i].tag])
  BY GoodMessage
<1>4. k[s[i].tag] # NoCall /\ s[i].head < s[i].size
  BY <1>1, <1>3 DEF MsgOK
<1>5. s[i].op = "flow" => (w = "up" <=> k[s[i].tag].kind = "write")
  BY <1>3, ConstantTypes DEF MsgOK, UpOK, DownOK, CallOK, AllKinds, Way
<1>. QED  BY <1>1, <1>2, <1>4, <1>5, NextData, AnswerFirst

(* Some of message i is sent, and some is left.                            *)
LEMMA PartSent ==
  ASSUME NEW w \in Way, NEW s, NEW k, NEW r, NEW d, GoodSide(w, s, k, r, d),
         NEW i \in DOMAIN s, Name(s[i]) = d, NEW m \in StateType, NEW units \in Nat,
         m = [s[i] EXCEPT !.head = @ + units], units > 0,
         s[i].head + units < s[i].size, s[i].head + units <= s[i].tail
  PROVE  GoodSide(w, [s EXCEPT ![i] = m], k, r, d)
<1> DEFINE q == k[m.tag]
<1>1. s[i] \in StateType /\ MsgOK(w, s[i], k[s[i].tag], r, d)
  BY GoodMessage
<1>2. /\ m.tag = s[i].tag /\ m.rank = s[i].rank /\ m.size = s[i].size /\ m.tail = s[i].tail
      /\ m.head = s[i].head + units /\ m.op = s[i].op /\ m.item = s[i].item /\ m.got = s[i].got
      /\ (m.final <=> s[i].final) /\ (m.locked <=> s[i].locked)
  BY <1>1 DEF StateType
<1>3. q \in CallType /\ CallOK(q) /\ q # NoCall /\ MsgOK(w, s[i], q, r, d)
  BY <1>1, <1>2, GoodMessage DEF MsgOK
<1> HIDE DEF q
<1>4. Name(m) = d /\ Name(s[i]) = d
  BY <1>2 DEF Name
<1>5. /\ m.head \in Nat /\ m.size \in Nat /\ m.tail \in Nat /\ s[i].head \in Nat
      /\ m.rank \in Nat /\ q.landed \in Nat
  BY <1>1, <1>3 DEF StateType, CallType
<1>6. /\ w = "up" => UpOK(m, q)
      /\ w = "down" => DownOK(m, q, r)
  <2>1. s[i].size > 1
    BY <1>1, <1>2, <1>5
  <2>2. w = "up" => UpOK(m, q)
    BY <1>2, <1>3, <1>5, <2>1 DEF MsgOK, UpOK, FlowOK
  <2>3. w = "down" => DownOK(m, q, r)
    BY <1>2, <1>3, <1>4, <1>5, <2>1 DEF MsgOK, DownOK, FlowOK
  <2>. QED  BY <2>2, <2>3
<1>7. MsgOK(w, m, q, r, d)
  BY <1>2, <1>3, <1>4, <1>5, <1>6 DEF MsgOK, Way
<1>8. /\ \A j \in DOMAIN s : j < i /\ s[j].tag = m.tag /\ Begun(m, d) => s[j].head = s[j].size
      /\ \A j \in DOMAIN s : i < j /\ s[j].tag = m.tag /\ Begun(s[j], d) => m.head = m.size
  <2>1. SentInOrder(s, d) /\ Begun(s[i], d)
    BY DEF GoodSide, Side, Begun
  <2>2. s[i].head # s[i].size
    BY <1>2, <1>5
  <2>. QED  BY <1>2, <2>1, <2>2 DEF SentInOrder
<1>9. GoodSide(w, [s EXCEPT ![i] = m], [k EXCEPT ![m.tag] = q], r, d)
  <2>1. /\ r \in {Nil, r} /\ d \in {Nil, d} /\ (r = Nil => (r = Nil \/ r = Name(m)))
        /\ (d = Nil => (d = Nil \/ d = Name(m))) /\ k[m.tag] # NoCall
        /\ Top(w, q) = Top(w, k[m.tag])
    BY <1>3 DEF q
  <2>2. \A n \in StateType : n.tag = m.tag /\ n.rank # m.rank /\ MsgOK(w, n, k[m.tag], r, d)
          => MsgOK(w, n, q, r, d)
    BY DEF q
  <2>3. /\ GoodSide(w, s, k, r, d) /\ w \in Way /\ i \in DOMAIN s /\ m \in StateType
        /\ m.tag = s[i].tag /\ m.rank = s[i].rank /\ q \in CallType /\ CallOK(q)
    BY <1>2, <1>3
  <2>. QED  BY ONLY <1>7, <1>8, <2>1, <2>2, <2>3, ChangedState
<1>10. [k EXCEPT ![m.tag] = q] = k
  BY DEF q, GoodSide
<1>. QED  BY <1>9, <1>10

(* The last of message i is sent, and it does not end its call.            *)
LEMMA AllSent ==
  ASSUME NEW w \in Way, NEW s, NEW k, NEW r, NEW d, GoodSide(w, s, k, r, d),
         NEW i \in DOMAIN s, Name(s[i]) = d, NEW m \in StateType,
         m = [s[i] EXCEPT !.head = s[i].size], s[i].tail = s[i].size, ~s[i].final,
         s[i].op = "flow" => s[i].rank = k[s[i].tag].landed + 1,
         s[i].op = "flow" => (w = "up" <=> k[s[i].tag].kind = "write"),
         NEW y, Moved(w, k[s[i].tag], y, s[i])
  PROVE  GoodSide(w, [s EXCEPT ![i] = m], [k EXCEPT ![m.tag] = y], r, Nil)
<1> DEFINE q == k[m.tag]
           m0 == s[i]
<1>1. s[i] \in StateType /\ MsgOK(w, s[i], k[s[i].tag], r, d)
  BY GoodMessage
<1>2. /\ m.tag = m0.tag /\ m.rank = m0.rank /\ m.size = m0.size /\ m.tail = m0.tail
      /\ m.head = m0.size /\ m.op = m0.op /\ m.item = m0.item /\ m.got = m0.got
      /\ (m.final <=> m0.final) /\ (m.locked <=> m0.locked)
  BY <1>1 DEF StateType
<1>3. /\ q \in CallType /\ CallOK(q) /\ q # NoCall /\ MsgOK(w, m0, q, r, d)
      /\ Moved(w, q, y, m0) /\ m0 \in StateType /\ Name(m0) = d
      /\ m0.tail = m0.size /\ ~m0.final
      /\ m0.op = "flow" => m0.rank = q.landed + 1
      /\ m0.op = "flow" => (w = "up" <=> q.kind = "write")
  BY <1>1, <1>2, GoodMessage DEF MsgOK
<1>0. q = k[m.tag] /\ m0 = s[i]
  OBVIOUS
<1> HIDE DEF q, m0
<1>4. Name(m) = d /\ Name(m) # Nil
  BY <1>2, <1>3, NoName DEF Name
<1>5. /\ m0.head \in Nat /\ m0.size \in Nat /\ m0.rank \in Nat /\ q.landed \in Nat
      /\ m0.head < m0.size /\ ~m0.locked /\ r # Name(m)
      /\ y \in CallType /\ CallOK(y) /\ y # NoCall /\ y.kind = q.kind /\ y.begun = q.begun
      /\ y.share = q.share /\ (OneAnswer(y) <=> OneAnswer(q))
  BY <1>2, <1>3, <1>4 DEF StateType, CallType, MsgOK, Moved, OneAnswer
<1>6. w = "up" => UpOK(m, y)
  <2> SUFFICES ASSUME w = "up"
               PROVE  UpOK(m, y)
    OBVIOUS
  <2>1. UpOK(m0, q)
    BY <1>3 DEF MsgOK
  <2>2. CASE m0.rank = 0
    BY <1>2, <1>5, <1>3, <2>1, <2>2 DEF UpOK, Moved
  <2>3. CASE m0.rank # 0
    BY <1>2, <1>5, <1>3, <2>1, <2>3 DEF UpOK, Moved, FlowOK
  <2>. QED  BY <2>2, <2>3
<1>7. w = "down" => DownOK(m, y, r)
  <2> SUFFICES ASSUME w = "down"
               PROVE  DownOK(m, y, r)
    OBVIOUS
  <2>1. DownOK(m0, q, r)
    BY <1>3 DEF MsgOK
  <2>2. CASE m0.rank = 0
    BY <1>2, <1>5, <1>3, <2>1, <2>2 DEF DownOK, Moved
  <2>3. CASE m0.rank # 0
    BY <1>2, <1>4, <1>5, <1>3, <2>1, <2>3 DEF DownOK, Moved, FlowOK
  <2>. QED  BY <2>2, <2>3
<1>8. MsgOK(w, m, y, r, Nil)
  BY <1>2, <1>3, <1>4, <1>5, <1>6, <1>7 DEF MsgOK, Way
<1>9. ASSUME NEW n \in StateType, n.tag = m.tag, n.rank # m.rank, MsgOK(w, n, q, r, d)
      PROVE  MsgOK(w, n, y, r, Nil)
  <2>1. MsgOK(w, n, y, r, d)
    BY <1>2, <1>3, <1>9, MovedOthers
  <2>2. d # Name(n) /\ Nil # Name(n)
    BY <1>4, <1>9, NoName DEF Name
  <2>. QED  BY <2>1, <2>2 DEF MsgOK
<1>10. Top(w, y) = Top(w, q)
  BY <1>5, <1>3 DEF Top, Moved
<1>11. \A j \in DOMAIN s : j < i /\ s[j].tag = m.tag /\ Begun(m, Nil) => s[j].head = s[j].size
  <2>1. SentInOrder(s, d) /\ Begun(s[i], d)
    BY DEF GoodSide, Side, Begun
  <2>. QED  BY <1>2, <2>1 DEF SentInOrder, m0
<1>12. /\ Nil \in {Nil, d} /\ (Nil = Nil => (d = Nil \/ d = Name(m)))
       /\ r \in {Nil, r} /\ (r = Nil => (r = Nil \/ r = Name(m)))
       /\ k[m.tag] # NoCall /\ m.tag = s[i].tag /\ m.rank = s[i].rank
       /\ \A j \in DOMAIN s : i < j /\ s[j].tag = m.tag /\ Begun(s[j], Nil) => m.head = m.size
       /\ Top(w, y) = Top(w, k[m.tag])
  BY <1>2, <1>3, <1>4, <1>10 DEF q, m0
<1>13. \A n \in StateType : n.tag = m.tag /\ n.rank # m.rank /\ MsgOK(w, n, k[m.tag], r, d)
         => MsgOK(w, n, y, r, Nil)
  BY <1>9 DEF q
<1>14. /\ GoodSide(w, s, k, r, d) /\ w \in Way /\ i \in DOMAIN s /\ m \in StateType
       /\ y \in CallType /\ CallOK(y)
  BY <1>5
<1>. QED  BY ONLY <1>8, <1>11, <1>12, <1>13, <1>14, ChangedState

(* The list of the other way when that happens.                            *)
LEMMA OtherSide ==
  ASSUME NEW w \in Way, NEW v \in Way, v # w, NEW s, NEW k, NEW r, NEW d, GoodSide(v, s, k, r, d),
         NEW t \in Tags, k[t] # NoCall, NEW m \in StateType, NEW y, Moved(w, k[t], y, m),
         m.op = "flow" => m.rank = k[t].landed + 1,
         m.op = "flow" => (w = "up" <=> k[t].kind = "write")
  PROVE  GoodSide(v, s, [k EXCEPT ![t] = y], r, d)
<1>1. k[t] \in CallType /\ CallOK(k[t]) /\ y \in CallType /\ CallOK(y)
  BY DEF GoodSide, Moved
<1>2. \A n \in StateType : n.tag = t /\ MsgOK(v, n, k[t], r, d) => MsgOK(v, n, y, r, d)
  BY <1>1, MovedOthers
<1>3. Top(v, y) = Top(v, k[t])
  BY DEF Top, Moved
<1>. QED  BY <1>1, <1>2, <1>3, SideCall

(* One list is replaced. *)
LEMMA OneReplaced ==
  ASSUME list \in Lists, NEW w \in Way, NEW c \in Conns, NEW s \in Seq(StateType),
         NEW lists, HasList(lists, w, c, s)
  PROVE  /\ lists \in Lists
         /\ \A v \in Way, e \in Conns : lists[v][e] = IF v = w /\ e = c THEN s ELSE list[v][e]
<1> DEFINE u == [list[w] EXCEPT ![c] = s]
<1>1. list \in [Way -> [Conns -> Seq(StateType)]] /\ list[w] \in [Conns -> Seq(StateType)]
  BY DEF Lists
<1>2. u \in [Conns -> Seq(StateType)] /\ \A e \in Conns : u[e] = IF e = c THEN s ELSE list[w][e]
  BY <1>1
<1>3. lists = [list EXCEPT ![w] = u]
  BY DEF HasList
<1> HIDE DEF u
<1>4. lists \in [Way -> [Conns -> Seq(StateType)]]
  BY <1>1, <1>2, <1>3
<1>5. \A v \in Way : lists[v] = IF v = w THEN u ELSE list[v]
  BY <1>1, <1>3
<1>. QED  BY <1>2, <1>4, <1>5 DEF Lists

(* clean_up_request_state takes the tag out of both lists of the           *)
(* connection.                                                             *)
LEMMA CleanedUp ==
  ASSUME NEW lists \in Lists, NEW c \in Conns, NEW t, NEW new, new = CleanUp(lists, c, t)
  PROVE  /\ new \in Lists
         /\ \A v \in Way, e \in Conns :
              new[v][e] = IF e = c THEN Without(t, lists[v][c]) ELSE lists[v][e]
<1>1. /\ lists \in [Way -> [Conns -> Seq(StateType)]] /\ "up" \in Way /\ "down" \in Way
      /\ Way = {"up", "down"}
      /\ lists.up \in [Conns -> Seq(StateType)] /\ lists.down \in [Conns -> Seq(StateType)]
  BY DEF Lists, Way
<1> DEFINE u == [lists.up EXCEPT ![c] = Without(t, @)]
           d == [lists.down EXCEPT ![c] = Without(t, @)]
<1>2. Without(t, lists.up[c]) \in Seq(StateType) /\ Without(t, lists.down[c]) \in Seq(StateType)
  <2>1. lists.up[c] \in Seq(StateType) /\ lists.down[c] \in Seq(StateType)
    BY <1>1
  <2>. QED  BY <2>1, WithoutTag
<1>3. /\ u \in [Conns -> Seq(StateType)] /\ d \in [Conns -> Seq(StateType)]
      /\ \A e \in Conns : /\ u[e] = IF e = c THEN Without(t, lists.up[c]) ELSE lists.up[e]
                          /\ d[e] = IF e = c THEN Without(t, lists.down[c]) ELSE lists.down[e]
  BY <1>1, <1>2
<1>4. new = [lists EXCEPT !["up"] = u, !["down"] = d]
  BY <1>1 DEF CleanUp
<1> HIDE DEF u, d
<1>5. new \in [Way -> [Conns -> Seq(StateType)]] /\ new.up = u /\ new.down = d
  BY <1>1, <1>3, <1>4
<1>. QED  BY <1>1, <1>3, <1>5 DEF Lists

(* Sending some of a message does not change what is left without its tag. *)
LEMMA SameWithout ==
  ASSUME NEW s \in Seq(StateType), NEW i \in DOMAIN s, NEW m, m.tag = s[i].tag, NEW t, t = m.tag
  PROVE  Without(t, [s EXCEPT ![i] = m]) = Without(t, s)
<1> DEFINE s2 == [s EXCEPT ![i] = m]
           kept == {j \in DOMAIN s : s[j].tag # t}
           kept2 == {j \in DOMAIN s2 : s2[j].tag # t}
<1>1. kept2 = kept /\ i \notin kept /\ \A j \in kept : s2[j] = s[j] /\ j \in 1 .. Len(s)
  OBVIOUS
<1>2. /\ Without(t, s) = [n \in 1 .. Cardinality(kept) |-> s[Nth(n, kept)]]
      /\ Without(t, s2) = [n \in 1 .. Cardinality(kept2) |-> s2[Nth(n, kept2)]]
  BY DEF Without
<1>3. Len(s) \in Nat
  OBVIOUS
<1> HIDE DEF kept, kept2, s2
<1>4. \A n \in 1 .. Cardinality(kept) : Nth(n, kept) \in kept
  BY <1>1, <1>3, NthPosition
<1>5. \A n \in 1 .. Cardinality(kept) : s2[Nth(n, kept)] = s[Nth(n, kept)]
  BY <1>1, <1>4
<1>6. [n \in 1 .. Cardinality(kept) |-> s2[Nth(n, kept)]]
        = [n \in 1 .. Cardinality(kept) |-> s[Nth(n, kept)]]
  BY <1>5
<1>7. Without(t, s2) = Without(t, s)
  BY <1>1, <1>2, <1>6
<1>. QED  BY <1>7 DEF s2

(* When the answer of request t has been read in full nothing of t is      *)
(* being read, and nothing is being sent to the server; e is what is being *)
(* sent once t is forgotten.                                               *)
LEMMA Forgotten ==
  ASSUME NEW v \in Way, NEW s, NEW k, NEW r, NEW d, GoodSide(v, s, k, r, d),
         NEW t \in Tags, k[t] # NoCall, k[t].stage = "over",
         NEW e, IF v = "up" THEN e = d ELSE e = Nil /\ \E n : d = <<t, n>>
  PROVE  GoodSide(v, Without(t, s), [k EXCEPT ![t] = NoCall], r, e)
<1> DEFINE q == k[t]
           k2 == [k EXCEPT ![t] = NoCall]
<1>1. /\ q \in CallType /\ CallOK(q) /\ q # NoCall /\ q.stage = "over"
      /\ Pointed(s, r, d) /\ s \in Seq(StateType) /\ k \in [Tags -> CallType]
  BY DEF GoodSide, Side
<1>0. \A n : <<t, n>> # Nil
  BY DEF Nil
<1>2. ASSUME NEW j \in DOMAIN s, s[j].tag = t
      PROVE  r # Name(s[j]) /\ (v = "up" => d # Name(s[j]))
  <2> DEFINE m == s[j]
  <2>1. MsgOK(v, m, q, r, d) /\ m \in StateType
    BY <1>2, GoodMessage
  <2> HIDE DEF q, m
  <2>2. /\ m.head \in Nat /\ m.tail \in Nat /\ m.size \in Nat /\ m.rank \in Nat
        /\ m.head <= m.tail /\ m.tail <= m.size
        /\ q.landed \in Nat /\ q.begun \in Nat /\ q.share \in Nat
        /\ q.landed <= q.begun /\ q.begun <= q.share
    BY <1>1, <2>1 DEF MsgOK, CallOK, StateType, CallType
  <2>3. CASE v = "up"
    <3>1. m.head = m.size
      <4>1. CASE m.rank = 0
        <5>1. m.size = 1 /\ m.tail = 1 /\ m.head # 0
          BY <1>1, <2>1, <2>3, <4>1 DEF MsgOK, UpOK
        <5>. QED  BY <2>2, <5>1
      <4>2. CASE m.rank # 0
        <5>1. q.kind = "write" /\ m.rank <= q.begun /\ FlowOK(m, q)
          BY <2>1, <2>3, <4>2 DEF MsgOK, UpOK
        <5>2. q.landed = q.share
          BY <1>1, <5>1 DEF CallOK
        <5>. QED  BY <2>2, <5>1, <5>2 DEF FlowOK
      <4>. QED  BY <4>1, <4>2
    <3>. QED  BY <2>1, <2>2, <3>1 DEF MsgOK, m
  <2>4. CASE v = "down"
    <3>1. m.rank # 0 /\ q.kind = "read" /\ r = Name(m) => FALSE
      <4>1. m.rank # 0 /\ q.kind = "read" /\ r = Name(m) => m.rank = q.begun + 1 /\ m.rank <= q.begun
        BY <1>1, <2>1, <2>4 DEF MsgOK, DownOK
      <4>. QED  BY <2>2, <4>1
    <3>2. r # Name(m)
      BY <1>1, <2>1, <2>2, <2>4, <3>1 DEF MsgOK, DownOK
    <3>. QED  BY <2>4, <3>2 DEF m
  <2>. QED  BY <2>3, <2>4 DEF Way
<1>3. \A n : r # <<t, n>> /\ e # <<t, n>>
  <2> SUFFICES ASSUME NEW n
               PROVE  r # <<t, n>> /\ e # <<t, n>>
    OBVIOUS
  <2>1. \A j \in DOMAIN s : Name(s[j]) = <<t, n>> => s[j].tag = t
    BY DEF Name
  <2>2. r # <<t, n>>
    BY <1>0, <1>1, <1>2, <2>1 DEF Pointed, Has
  <2>3. v = "up" => d # <<t, n>>
    BY <1>0, <1>1, <1>2, <2>1 DEF Pointed, Has
  <2>. QED  BY <1>0, <2>2, <2>3
<1>4. /\ k2 \in [Tags -> CallType] /\ (\A u \in Tags : CallOK(k2[u]))
      /\ k2[t] = NoCall /\ \A u \in Tags : u # t => k2[u] = k[u]
  <2>1. NoCall \in CallType /\ CallOK(NoCall)
    BY DEF NoCall, CallType, CallOK
  <2>. QED  BY <2>1 DEF GoodSide
<1>5. Side(v, s, k, r, d) /\ r \in NameType /\ e \in NameType
  BY DEF GoodSide, NameType
<1>6. e = d \/ (e = Nil /\ \E n : d = <<t, n>>)
  OBVIOUS
<1> HIDE DEF k2
<1>7. Side(v, Without(t, s), k2, r, e) /\ Without(t, s) \in Seq(StateType)
  BY ONLY v \in Way, t \in Tags, <1>1, <1>3, <1>4, <1>5, <1>6, SideForget
<1>. QED  BY <1>4, <1>5, <1>7 DEF GoodSide, k2

(* Way w of connection c has list s2 and pointer e with the calls x.       *)
Goes(c, w, s2, x, e) ==
  /\ SameStates(s2, list[w][c]) /\ GoodSide(w, s2, x, recv[w][c], e)
  /\ \A v \in Way : v # w => GoodSide(v, list[v][c], x, recv[v][c], send[v][c])
  /\ \A t \in Tags : x[t].stage = "over" <=> call[c][t].stage = "over"

(* A part of a message that does not end its request is sent.              *)
LEMMA SendOn ==
  ASSUME IInv, Known, NEW c \in open, NEW w \in Way, NEW s2, NEW x, NEW e,
         Goes(c, w, s2, x, e), HasList(list', w, c, s2),
         call' = [call EXCEPT ![c] = x], SendsOn(w, c, e),
         UNCHANGED <<recv, incomplete, open, fault, scheduler>>
  PROVE  IInv'
<1>0. /\ SameStates(s2, list[w][c]) /\ GoodSide(w, s2, x, recv[w][c], e)
      /\ \A v \in Way : v # w => GoodSide(v, list[v][c], x, recv[v][c], send[v][c])
      /\ \A t \in Tags : x[t].stage = "over" <=> call[c][t].stage = "over"
  BY DEF Goes
<1>1. c \in Conns /\ list \in Lists /\ "up" \in Way /\ Way = {"up", "down"}
      /\ s2 \in Seq(StateType)
  BY <1>0 DEF IInv, Typed, Lists, Way, GoodSide
<1>2. /\ list' \in Lists
      /\ \A v \in Way, d \in Conns : list'[v][d] = IF v = w /\ d = c THEN s2 ELSE list[v][d]
  BY <1>1, OneReplaced
<1>3. \A v \in Way : GoodSide(v, list'[v][c], x, recv[v][c], IF v = w THEN e ELSE send[v][c])
  BY <1>0, <1>1, <1>2
<1>4. \A v \in Way, d \in Conns : d # c => list'[v][d] = list[v][d]
  BY <1>2
<1>5. BookedOK'
  <2> DEFINE U == list'.up[c]
  <2>1. SameStates(U, list.up[c])
    BY <1>0, <1>1, <1>2 DEF SameStates
  <2>2. \A i \in DOMAIN list.up[c] : list.up[c][i].tag \in Tags
    <3>1. GoodSide("up", list.up[c], call[c], recv.up[c], send.up[c])
      BY <1>1, Connection
    <3>. QED  BY <1>1, <3>1, GoodMessage
  <2>3. QuietItems(c, U, x)
    BY <1>0, <2>1, <2>2, QuietSame
  <2>4. \A d \in Conns : d # c => list'.up[d] = list.up[d]
    BY <1>1, <1>4
  <2>5. U = list'.up[c] /\ open' = open
    OBVIOUS
  <2> HIDE DEF U
  <2>. QED  BY <2>3, <2>4, <2>5, QuietBooked
<1>6. SentBy(c, w, x, e)
  BY <1>2, <1>3, <1>4 DEF SentBy
<1>. QED  BY <1>5, <1>6, SendKept

(* The last part of the message that ends request t is sent.               *)
LEMMA SendLast ==
  ASSUME IInv, Known, NEW c \in open, NEW t \in Tags, call[c][t] # NoCall, call[c][t].stage = "over",
         \E n : send.down[c] = <<t, n>>,
         list' \in Lists,
         \A v \in Way, d \in Conns : list'[v][d] = IF d = c THEN Without(t, list[v][d]) ELSE list[v][d],
         call' = [call EXCEPT ![c][t] = NoCall],
         SendsOn("down", c, Nil),
         UNCHANGED <<recv, incomplete, open, fault, scheduler>>
  PROVE  IInv'
<1> DEFINE x == [call[c] EXCEPT ![t] = NoCall]
           U == list.up
           U2 == list'.up
           k2 == call'
<1>1. /\ c \in Conns /\ "up" \in Way /\ "down" \in Way /\ Way = {"up", "down"}
      /\ list \in Lists /\ call \in [Conns -> [Tags -> CallType]]
      /\ BookedOK /\ Records(waiting, serving)
  BY DEF IInv, Typed, Lists, Way, Known, Records
<1>2. \A v \in Way : GoodSide(v, list[v][c], call[c], recv[v][c], send[v][c])
  BY <1>1, Connection
<1>3. \A v \in Way : GoodSide(v, list'[v][c], x, recv[v][c], IF v = "down" THEN Nil ELSE send[v][c])
  <2> SUFFICES ASSUME NEW v \in Way
               PROVE  GoodSide(v, list'[v][c], x, recv[v][c], IF v = "down" THEN Nil ELSE send[v][c])
    OBVIOUS
  <2> DEFINE e == IF v = "down" THEN Nil ELSE send[v][c]
             s == list[v][c]
             k == call[c]
             r == recv[v][c]
             d == send[v][c]
  <2>1. /\ GoodSide(v, s, k, r, d) /\ k[t] # NoCall /\ k[t].stage = "over"
        /\ IF v = "up" THEN e = d ELSE e = Nil /\ \E n : d = <<t, n>>
    BY <1>1, <1>2
  <2>2. list'[v][c] = Without(t, s)
    BY <1>1
  <2> HIDE DEF e, s, r, d, k
  <2>3. GoodSide(v, Without(t, s), [k EXCEPT ![t] = NoCall], r, e)
    BY <2>1, Forgotten
  <2>. QED  BY <2>2, <2>3 DEF e, k, r
<1>4. \A v \in Way, d \in Conns : d # c => list'[v][d] = list[v][d]
  OBVIOUS
<1>5. call' = [call EXCEPT ![c] = x]
  BY <1>1
<1>6. \A d \in Conns, u \in Tags : d # c \/ u # t => call'[d][u] = call[d][u]
  BY <1>1
<1>7. Booked(U2, k2, waiting, serving, arrived, open)
  <2>1. /\ Booked(U, call, waiting, serving, arrived, open) /\ U[c] \in Seq(StateType)
        /\ (\A d \in Conns : d # c => U2[d] = U[d]) /\ U2[c] = Without(t, U[c])
    BY <1>1 DEF BookedOK, Lists
  <2>2. \A i \in DOMAIN U[c] : U[c][i].tag = t => ~U[c][i].locked /\ call[c][t].stage = "over"
    <3> SUFFICES ASSUME NEW i \in DOMAIN U[c], U[c][i].tag = t, U[c][i].locked
                 PROVE  FALSE
      OBVIOUS
    <3>1. UpOK(U[c][i], call[c][t])
      BY <1>1, <1>2, GoodMessage DEF MsgOK
    <3>. QED  BY <3>1 DEF UpOK
  <2>3. \A d \in Conns : \A i \in DOMAIN U[d] : (d # c \/ U[d][i].tag # t) =>
           k2[d][U[d][i].tag] = call[d][U[d][i].tag]
    <3> SUFFICES ASSUME NEW d \in Conns, NEW i \in DOMAIN U[d], d # c \/ U[d][i].tag # t
                 PROVE  call'[d][U[d][i].tag] = call[d][U[d][i].tag]
      OBVIOUS
    <3>1. GoodSide("up", U[d], call[d], recv.up[d], send.up[d])
      BY Connection
    <3>2. U[d][i].tag \in Tags
      BY <1>1, <3>1, GoodMessage
    <3>. QED  BY <1>6, <3>2
  <2>4. c \in Conns /\ Records(waiting, serving)
    BY <1>1
  <2> HIDE DEF U, U2, k2
  <2>5. Freed(U2, U, k2, call, c, t)
    BY <2>1, <2>2, <2>3 DEF Freed
  <2>. QED  BY ONLY <2>1, <2>4, <2>5, BookedForget
<1>8. BookedOK'
  BY <1>7 DEF BookedOK, scheduler
<1>9. SentBy(c, "down", x, Nil)
  BY <1>3, <1>4, <1>5 DEF SentBy
<1> HIDE DEF x
<1>. QED  BY <1>1, <1>8, <1>9, SendKept

(* A socket takes some of its current_send_item. *)
LEMMA SendStep ==
  ASSUME IInv, Known, NEW c \in open, NEW w \in Way, NEW units \in 1 .. FlowUnits,
         SendPart(w, c, units)
  PROVE  IInv'
<1> DEFINE K == call[c]
           s == list[w][c]
           r == recv[w][c]
           d == send[w][c]
<1>1. /\ c \in Conns /\ "up" \in Way /\ "down" \in Way /\ Way = {"up", "down"}
      /\ list \in Lists /\ call \in [Conns -> [Tags -> CallType]] /\ K = call[c]
      /\ units \in Nat /\ units > 0
  BY ConstantTypes DEF IInv, Typed, Lists, Way
<1>2. \A v \in Way : GoodSide(v, list[v][c], K, recv[v][c], send[v][c])
  BY <1>1, Connection
<1>3. d # Nil /\ UNCHANGED <<recv, incomplete, open, fault, scheduler>>
  BY DEF SendPart
<1>4. PICK i \in DOMAIN s :
           /\ Name(s[i]) = d /\ At(d, s) = i /\ s[i].head < s[i].size
           /\ K[s[i].tag] # NoCall
           /\ s[i].op = "flow" => s[i].rank = K[s[i].tag].landed + 1
           /\ s[i].op = "flow" => (w = "up" <=> K[s[i].tag].kind = "write")
           /\ w = "down" /\ s[i].rank = 0 /\ K[s[i].tag].kind = "read" => K[s[i].tag].landed = 0
  BY <1>2, <1>3, BeingSent
<1> DEFINE m0 == s[i]
           m == [m0 EXCEPT !.head = @ + units]
           s2 == [s EXCEPT ![i] = m]
           t == m0.tag
           out == m0.head + units = m0.size
           lists == [list EXCEPT ![w][c] = s2]
<1>5. /\ units <= m0.tail - m0.head
      /\ list' = IF out /\ m0.final THEN CleanUp(lists, c, t) ELSE lists
      /\ SendsOn(w, c, IF out THEN Nil ELSE d)
      /\ call' = IF out THEN [call EXCEPT ![c][t] = Reached(K[t], w, m0)] ELSE call
  BY <1>4 DEF SendPart, ReadySize, SendsOn
<1>6. /\ m0 \in StateType /\ t \in Tags /\ K[t] \in CallType /\ CallOK(K[t])
      /\ MsgOK(w, m0, K[t], r, d) /\ s \in Seq(StateType) /\ K \in [Tags -> CallType]
  BY <1>2, GoodMessage DEF GoodSide
<1>0. s[i] = m0 /\ m = [s[i] EXCEPT !.head = @ + units] /\ t = m0.tag /\ s2 = [s EXCEPT ![i] = m]
      /\ m = [m0 EXCEPT !.head = @ + units]
  OBVIOUS
<1> HIDE DEF m0, m, t, K, s
<1>7. /\ m0.head \in Nat /\ m0.tail \in Nat /\ m0.size \in Nat /\ m0.tail <= m0.size
      /\ m0.head + units <= m0.tail /\ m0.final \in BOOLEAN
  <2>1. m0.head \in Nat /\ m0.tail \in Nat /\ m0.size \in Nat /\ m0.final \in BOOLEAN
    BY <1>6 DEF StateType
  <2>2. m0.tail <= m0.size
    BY <1>6 DEF MsgOK
  <2>. QED  BY <1>1, <1>5, <2>1, <2>2
<1>8. /\ m \in StateType /\ m.tag = t /\ m.rank = m0.rank /\ m.item = m0.item
      /\ (m.locked <=> m0.locked)
  <2>1. m0.head + units \in Nat
    BY <1>1, <1>7
  <2>. QED  BY <1>0, <1>6, <2>1 DEF StateType
<1>9. SameStates(s2, s)
  BY <1>0, <1>6, <1>8 DEF SameStates
<1>10. CASE ~out
  <2>1. list' = lists /\ call' = call /\ SendsOn(w, c, d) /\ HasList(list', w, c, s2)
    BY <1>5, <1>10 DEF HasList
  <2>2. s[i].head + units < s[i].size /\ s[i].head + units <= s[i].tail
    BY <1>0, <1>1, <1>7, <1>10
  <2>3. GoodSide(w, s, K, r, d)
    BY <1>2 DEF s
  <2> HIDE DEF r, d
  <2>4. GoodSide(w, s2, K, r, d)
    BY ONLY w \in Way, <1>0, <1>1, <1>4, <1>8, <2>2, <2>3, PartSent
  <2> HIDE DEF s2
  <2>5. call' = [call EXCEPT ![c] = K]
    BY <1>1, <2>1
  <2>6. GoodSide(w, s2, K, recv[w][c], d)
    BY <2>4 DEF r
  <2>7. \A u \in Tags : K[u].stage = "over" <=> call[c][u].stage = "over"
    BY <1>1
  <2>8. Goes(c, w, s2, K, d)
    BY <1>2, <1>9, <2>6, <2>7 DEF s, Goes
  <2>. QED  BY ONLY IInv, Known, c \in open, w \in Way, <1>3, <2>1, <2>5, <2>8, SendOn
<1>11. CASE out /\ ~m0.final
  <2> DEFINE y == Reached(K[t], w, m0)
             x == [K EXCEPT ![t] = y]
  <2>1. SendsOn(w, c, Nil) /\ HasList(list', w, c, s2) /\ call' = [call EXCEPT ![c][t] = y]
    BY <1>5, <1>11 DEF HasList
  <2>2. m0.tail = m0.size /\ s[i].tail = s[i].size /\ ~s[i].final /\ m = [s[i] EXCEPT !.head = s[i].size]
    BY <1>0, <1>1, <1>7, <1>11
  <2>3. /\ m0.op = "flow" => m0.rank = K[t].landed + 1
        /\ m0.op = "flow" => (w = "up" <=> K[t].kind = "write")
        /\ w = "down" /\ m0.rank = 0 /\ K[t].kind = "read" => K[t].landed = 0
        /\ d = Name(m0) /\ K[t] # NoCall
    BY <1>0, <1>4
  <2>4. w = "down" => ~Ends(K[t], m0)
    <3>1. ASSUME w = "down" PROVE m0.final <=> Ends(K[t], m0)
      <4>1. MsgOK("down", m0, K[t], r, d) /\ (m0.rank = 0 /\ K[t].kind = "read" => K[t].landed = 0)
        BY <1>6, <2>3, <3>1
      <4>. QED  BY ONLY <4>1, <1>6, <2>2, <2>3, FinalMessage
    <3>. QED  BY <3>1, <1>11
  <2>5. Moved(w, K[t], y, m0)
    <3>1. y = Reached(K[t], w, m0) /\ ~m0.final
      BY <1>11
    <3> HIDE DEF y
    <3>. QED  BY ONLY w \in Way, <1>6, <2>2, <2>3, <2>4, <3>1, ReachedMoves
  <2> HIDE DEF y
  <2>6. GoodSide(w, s2, x, r, Nil)
    <3>1. GoodSide(w, s, K, r, d) /\ Name(s[i]) = d
      BY <1>2, <1>4 DEF s
    <3>2. Moved(w, K[s[i].tag], y, s[i])
      BY <1>0, <2>5
    <3>3. /\ s[i].op = "flow" => s[i].rank = K[s[i].tag].landed + 1
          /\ s[i].op = "flow" => (w = "up" <=> K[s[i].tag].kind = "write")
      BY <1>4
    <3> HIDE DEF r, d
    <3>4. GoodSide(w, [s EXCEPT ![i] = m], [K EXCEPT ![m.tag] = y], r, Nil)
      BY ONLY w \in Way, i \in DOMAIN s, <1>8, <2>2, <3>1, <3>2, <3>3, AllSent
    <3>. QED  BY <1>8, <3>4
  <2>7. \A v \in Way : v # w => GoodSide(v, list[v][c], x, recv[v][c], send[v][c])
    <3> SUFFICES ASSUME NEW v \in Way, v # w
                 PROVE  GoodSide(v, list[v][c], x, recv[v][c], send[v][c])
      OBVIOUS
    <3>1. GoodSide(v, list[v][c], K, recv[v][c], send[v][c])
      BY <1>2
    <3>. QED  BY ONLY w \in Way, v \in Way, v # w, <1>6, <2>3, <2>5, <3>1, OtherSide
  <2>8. call' = [call EXCEPT ![c] = x]
    BY <1>1, <2>1
  <2>9. \A u \in Tags : x[u].stage = "over" <=> call[c][u].stage = "over"
    <3>1. y.stage = "over" <=> K[t].stage = "over"
      BY <2>5 DEF Moved
    <3>. QED  BY <1>1, <1>6, <3>1
  <2>10. Goes(c, w, s2, x, Nil)
    BY <1>9, <2>6, <2>7, <2>9 DEF s, Goes
  <2> HIDE DEF s2, x, d
  <2>. QED  BY ONLY IInv, Known, c \in open, w \in Way, <1>3, <2>1, <2>8, <2>10, SendOn
<1>12. CASE out /\ m0.final
  <2>1. list' = CleanUp(lists, c, t) /\ SendsOn(w, c, Nil)
        /\ call' = [call EXCEPT ![c][t] = Reached(K[t], w, m0)]
    BY <1>5, <1>12
  <2>2. w = "down"
    BY <1>6, <1>12 DEF MsgOK, UpOK, Way
  <2>3. m0.tail = m0.size
    BY <1>1, <1>7, <1>12
  <2>4. /\ MsgOK("down", m0, K[t], r, d) /\ d = Name(m0) /\ K[t] # NoCall
        /\ m0.op = "flow" => m0.rank = K[t].landed + 1
        /\ (m0.rank = 0 /\ K[t].kind = "read" => K[t].landed = 0)
    BY <1>0, <1>4, <1>6, <2>2
  <2>5. Ends(K[t], m0) /\ K[t].stage = "over"
    <3>1. (m0.final <=> Ends(K[t], m0)) /\ (m0.final => K[t].stage = "over")
      BY ONLY <1>6, <2>3, <2>4, FinalMessage
    <3>. QED  BY <1>12, <3>1
  <2>6. call' = [call EXCEPT ![c][t] = NoCall]
    <3>1. Reached(K[t], w, m0) = NoCall
      BY <2>2, <2>5 DEF Reached
    <3>. QED  BY <2>1, <3>1
  <2>7. s2 \in Seq(StateType)
    BY <1>6, <1>8
  <2>8. HasList(lists, w, c, s2)
    BY DEF HasList
  <2>11. Without(t, s2) = Without(t, s)
    <3>1. s \in Seq(StateType) /\ i \in DOMAIN s /\ m.tag = s[i].tag /\ t = m.tag
      BY <1>0, <1>6, <1>8
    <3>. QED  BY ONLY <3>1, SameWithout
  <2> HIDE DEF lists, s2
  <2>9. /\ lists \in Lists
        /\ \A v \in Way, e \in Conns : lists[v][e] = IF v = w /\ e = c THEN s2 ELSE list[v][e]
    BY ONLY w \in Way, <1>1, <2>7, <2>8, OneReplaced
  <2>10. /\ list' \in Lists
         /\ \A v \in Way, e \in Conns :
              list'[v][e] = IF e = c THEN Without(t, lists[v][c]) ELSE lists[v][e]
    BY ONLY <1>1, <2>1, <2>9, CleanedUp
  <2>12. \A v \in Way, e \in Conns : list'[v][e] = IF e = c THEN Without(t, list[v][e]) ELSE list[v][e]
    BY <1>1, <2>9, <2>10, <2>11 DEF s
  <2>13. /\ call[c][t] # NoCall /\ call[c][t].stage = "over" /\ (\E n : send.down[c] = <<t, n>>)
         /\ t \in Tags /\ SendsOn("down", c, Nil)
    BY <1>0, <1>1, <1>6, <2>1, <2>2, <2>4, <2>5 DEF Name
  <2>. QED  BY ONLY IInv, Known, c \in open, <1>3, <2>6, <2>10, <2>12, <2>13, SendLast
<1>. QED  BY <1>6, <1>10, <1>11, <1>12 DEF StateType

-----------------------------------------------------------------------------
(* The other steps *)

(* prepare_events looks for something to send. *)
LEMMA PrepareStep ==
  ASSUME IInv, PrepareEvents
  PROVE  IInv'
<1>1. /\ send' = [w \in Way |-> [c \in Conns |-> UpdateSend(send[w][c], list[w][c])]]
      /\ UNCHANGED <<list, recv, incomplete, open, fault, scheduler, call>>
  BY DEF PrepareEvents
<1>2. \A w \in Way, c \in Conns :
        Side(w, list[w][c], call[c], recv[w][c], UpdateSend(send[w][c], list[w][c]))
        /\ UpdateSend(send[w][c], list[w][c]) \in NameType
  <2> TAKE w \in Way, c \in Conns
  <2>1. GoodSide(w, list[w][c], call[c], recv[w][c], send[w][c])
    BY Connection DEF Way
  <2>. QED  BY <2>1, SideRefresh DEF GoodSide
<1>3. send' \in [Way -> [Conns -> NameType]] /\ \A w \in Way, c \in Conns :
        send'[w][c] = UpdateSend(send[w][c], list[w][c])
  BY <1>1, <1>2
<1>4. Typed' /\ CallsOK' /\ NoFault'
  BY <1>1, <1>3 DEF IInv, Typed, CallsOK, NoFault, Undisturbed
<1>5. SidesOK'
  <2> SUFFICES ASSUME NEW w \in Way, NEW c \in Conns
               PROVE  Side(w, list'[w][c], call'[c], recv'[w][c], send'[w][c])
    BY DEF SidesOK
  <2>1. send'[w][c] = UpdateSend(send[w][c], list[w][c])
    BY <1>3
  <2>. QED  BY <1>1, <1>2, <2>1
<1>6. BookedOK'
  BY <1>1 DEF IInv, BookedOK, scheduler
<1>. QED  BY <1>1, <1>4, <1>5, <1>6 DEF IInv, scheduler

(* A list without messages.                                                *)
LEMMA EmptySide ==
  ASSUME NEW w, NEW k, \A t \in Tags : k[t] = NoCall
  PROVE  Side(w, <<>>, k, Nil, Nil)
BY DEF Side, Ranked, MsgsOK, AllThere, Pointed, SentInOrder

(* A client disconnects. *)
LEMMA CloseStep ==
  ASSUME IInv, NEW c \in open, Close(c)
  PROVE  IInv'
<1> DEFINE none == [t \in Tags |-> NoCall]
<1>1. /\ open' = open \ {c}
      /\ list' = [w \in Way |-> [list[w] EXCEPT ![c] = <<>>]]
      /\ recv' = [w \in Way |-> [recv[w] EXCEPT ![c] = Nil]]
      /\ send' = [w \in Way |-> [send[w] EXCEPT ![c] = Nil]]
      /\ call' = [call EXCEPT ![c] = none]
      /\ UNCHANGED <<incomplete, fault, scheduler>>
  BY DEF Close
<1>2. /\ Typed /\ CallsOK /\ SidesOK /\ BookedOK /\ c \in Conns /\ open \subseteq Conns
      /\ "up" \in Way
  BY DEF IInv, Typed, Way
<1>3. none \in [Tags -> CallType] /\ \A t \in Tags : none[t] = NoCall /\ CallOK(none[t])
  BY DEF NoCall, CallType, CallOK
<1> HIDE DEF none
<1>4. /\ list \in [Way -> [Conns -> Seq(StateType)]]
      /\ recv \in [Way -> [Conns -> NameType]] /\ send \in [Way -> [Conns -> NameType]]
      /\ call \in [Conns -> [Tags -> CallType]]
  BY <1>2 DEF Typed
<1>5. \A d \in Conns : call'[d] = IF d = c THEN none ELSE call[d]
  BY <1>1, <1>4
<1>6. \A w \in Way, d \in Conns :
        /\ list'[w][d] = IF d = c THEN <<>> ELSE list[w][d]
        /\ recv'[w][d] = IF d = c THEN Nil ELSE recv[w][d]
        /\ send'[w][d] = IF d = c THEN Nil ELSE send[w][d]
  BY <1>1, <1>4
<1>7. Typed'
  <2>1. call' \in [Conns -> [Tags -> CallType]]
    BY <1>1, <1>3, <1>4
  <2>2. list' \in [Way -> [Conns -> Seq(StateType)]]
    <3>1. <<>> \in Seq(StateType)
      OBVIOUS
    <3>2. \A w \in Way : [list[w] EXCEPT ![c] = <<>>] \in [Conns -> Seq(StateType)]
      <4> DEFINE L == Seq(StateType)
                 z == <<>>
      <4>1. z \in L /\ list \in [Way -> [Conns -> L]]
        BY <1>4
      <4> HIDE DEF L, z
      <4>2. \A w \in Way : [list[w] EXCEPT ![c] = z] \in [Conns -> L]
        BY <4>1
      <4>. QED  BY <4>2 DEF L, z
    <3>. QED  BY <1>1, <3>2
  <2>3. recv' \in [Way -> [Conns -> NameType]] /\ send' \in [Way -> [Conns -> NameType]]
    BY <1>1, <1>4 DEF NameType
  <2>4. incomplete' = [d \in Conns |-> FALSE] /\ open' \subseteq Conns /\ fault' \in BOOLEAN
    BY <1>1, <1>2 DEF Typed
  <2>. QED  BY <2>1, <2>2, <2>3, <2>4 DEF Typed
<1>8. CallsOK'
  BY <1>2, <1>3, <1>5 DEF CallsOK
<1>9. SidesOK'
  <2> SUFFICES ASSUME NEW w \in Way, NEW d \in Conns
               PROVE  Side(w, list'[w][d], call'[d], recv'[w][d], send'[w][d])
    BY DEF SidesOK
  <2>1. CASE d = c
    <3>1. Side(w, <<>>, none, Nil, Nil)
      BY <1>3, EmptySide
    <3>. QED  BY <2>1, <1>5, <1>6, <3>1
  <2>2. CASE d # c
    BY <2>2, <1>2, <1>5, <1>6 DEF SidesOK
  <2>. QED  BY <2>1, <2>2
<1>10. open' # Conns
  BY <1>1, <1>2
<1>11. BookedOK'
  <2> DEFINE U == list.up
             U2 == list'.up
             k2 == call'
             o2 == open'
  <2>1. /\ Booked(U, call, waiting, serving, arrived, open) /\ o2 # Conns
        /\ Emptied(U2, U, k2, call, c)
    BY <1>2, <1>5, <1>6, <1>10 DEF BookedOK, Emptied
  <2> HIDE DEF U, U2, k2, o2
  <2>2. c \in Conns
    BY <1>2
  <2>4. Booked(U2, k2, waiting, serving, arrived, o2)
    BY ONLY <2>1, <2>2, BookedClose
  <2>3. waiting' = waiting /\ serving' = serving /\ arrived' = arrived
    BY <1>1 DEF scheduler
  <2>. QED  BY <2>4, <2>3 DEF BookedOK, U2, k2, o2
<1>12. NoFault'
  BY <1>10 DEF NoFault, Undisturbed
<1>13. \A d \in Conns \ open', t \in Tags : call'[d][t] = NoCall
  <2> SUFFICES ASSUME NEW d \in Conns \ open', NEW t \in Tags
               PROVE  call'[d][t] = NoCall
    OBVIOUS
  <2>1. d = c \/ d \in Conns \ open
    BY <1>1
  <2>. QED  BY <2>1, <1>3, <1>5 DEF IInv
<1>14. arrived' <= MaxRequests
  BY <1>1 DEF IInv, scheduler
<1>. QED  BY <1>7, <1>8, <1>9, <1>11, <1>12, <1>13, <1>14 DEF IInv

(* The proxy starts with empty lists. *)
LEMMA InitIInv ==
  ASSUME Init
  PROVE  IInv
<1>1. /\ list = [w \in Way |-> [c \in Conns |-> <<>>]]
      /\ recv = [w \in Way |-> [c \in Conns |-> Nil]]
      /\ send = [w \in Way |-> [c \in Conns |-> Nil]]
      /\ incomplete = [c \in Conns |-> FALSE] /\ open = Conns /\ fault = FALSE
      /\ waiting = {} /\ serving = {} /\ arrived = 0
      /\ call = [c \in Conns |-> [t \in Tags |-> NoCall]]
  BY DEF Init, Sched!Init
<1>2. NoCall \in CallType /\ CallOK(NoCall) /\ Nil \in NameType
  BY DEF NoCall, CallType, CallOK, NameType
<1>3. Typed
  <2>1. call \in [Conns -> [Tags -> CallType]]
    BY <1>1, <1>2
  <2>2. recv \in [Way -> [Conns -> NameType]] /\ send \in [Way -> [Conns -> NameType]]
    BY <1>1, <1>2
  <2>3. list \in [Way -> [Conns -> Seq(StateType)]]
    BY <1>1
  <2>. QED  BY <1>1, <2>1, <2>2, <2>3 DEF Typed
<1>4. CallsOK
  BY <1>1, <1>2 DEF CallsOK
<1>5. SidesOK
  <2> SUFFICES ASSUME NEW w \in Way, NEW c \in Conns
               PROVE  Side(w, list[w][c], call[c], recv[w][c], send[w][c])
    BY DEF SidesOK
  <2>1. /\ list[w][c] = <<>> /\ recv[w][c] = Nil /\ send[w][c] = Nil
        /\ \A t \in Tags : call[c][t] = NoCall
    BY <1>1
  <2>. QED  BY <2>1, EmptySide
<1>6. BookedOK
  <2>1. \A c \in Conns : list.up[c] = <<>>
    BY <1>1 DEF Way
  <2>. QED  BY <1>1, <2>1
            DEF BookedOK, Booked, ItemsKnown, ItemsUnique, WaitersKnown, ServedKnown
<1>7. NoFault /\ arrived <= MaxRequests
  BY <1>1, ConstantTypes DEF NoFault
<1>. QED  BY <1>1, <1>3, <1>4, <1>5, <1>6, <1>7 DEF IInv

-----------------------------------------------------------------------------
(* The inductive invariant *)

(* Every step keeps IInv. *)
LEMMA NextIInv ==
  ASSUME Scope, IInv, Known, [Next]_vars
  PROVE  IInv'
<1>1. fault \in BOOLEAN /\ open \subseteq Conns
  BY DEF IInv, Typed
<1>2. CASE UNCHANGED vars
  <2>1. UNCHANGED <<list, recv, send, incomplete, open, fault, call>>
        /\ UNCHANGED <<waiting, serving, arrived>>
    BY <1>2 DEF vars, scheduler
  <2>2. Typed' /\ CallsOK' /\ SidesOK' /\ BookedOK' /\ NoFault'
    BY <2>1 DEF IInv, Typed, CallsOK, SidesOK, BookedOK, NoFault, Undisturbed
  <2>. QED  BY <2>1, <2>2 DEF IInv
<1>3. ASSUME Next, fault = FALSE
      PROVE  IInv'
  <2>1. ASSUME NEW c \in open, Receive(c)
        PROVE  IInv'
    <3>1. ASSUME NEW t \in Tags, NEW units \in 1 .. FlowUnits, RecvClientFlow(c, t, units)
          PROVE  IInv'
      BY <3>1, ClientFlowStep
    <3>2. ASSUME NEW t \in Tags, NEW units \in 1 .. FlowUnits, RecvServerFlow(c, t, units)
          PROVE  IInv'
      BY <1>3, <3>2, ServerFlowStep
    <3>3. \A whole \in Whole : whole = TRUE
      BY DEF Scope
    <3>4. ASSUME NEW t \in Tags, RecvAnswer(c, t, TRUE)
          PROVE  IInv'
      BY <1>3, <3>4, AnswerStep
    <3>5. ASSUME NEW t \in Tags, RecvWriteCompletion(c, t, TRUE)
          PROVE  IInv'
      BY <3>5, CompletionStep
    <3>6. CASE RecvClientRest(c)
      BY <1>3, <3>6, ClientRestStep
    <3>7. CASE RecvServerRest(c)
      BY <1>3, <3>7, ServerRestStep
    <3>. QED  BY <2>1, <3>1, <3>2, <3>3, <3>4, <3>5, <3>6, <3>7 DEF Receive
  <2>2. ASSUME NEW c \in open, NEW w \in Way, Send(w, c)
        PROVE  IInv'
    BY <2>2, SendStep DEF Send
  <2>3. CASE PrepareEvents
    BY <2>3, PrepareStep
  <2>4. ASSUME NEW c \in open, NEW t \in Tags, NEW kind \in Kinds, NEW share \in Shares,
               RecvRequest(c, t, kind, share)
        PROVE  IInv'
    BY <2>4, RequestStep
  <2>5. ASSUME NEW c \in open, Close(c)
        PROVE  IInv'
    BY <2>5, CloseStep
  <2>. QED  BY <1>3, <2>1, <2>2, <2>3, <2>4, <2>5 DEF Next, Progress, Client
<1>4. Next => ~fault
  BY DEF Next
<1>. QED  BY <1>1, <1>2, <1>3, <1>4

-----------------------------------------------------------------------------
(* What the invariant implies *)

(* A message on a list fits its call. *)
LEMMA Message ==
  ASSUME IInv, NEW w \in Way, NEW c \in Conns, NEW i \in DOMAIN list[w][c]
  PROVE  /\ list[w][c] \in Seq(StateType) /\ list[w][c][i] \in StateType
         /\ MsgOK(w, list[w][c][i], call[c][list[w][c][i].tag], recv[w][c], send[w][c])
<1>1. list[w][c] \in Seq(StateType) /\ Side(w, list[w][c], call[c], recv[w][c], send[w][c])
  BY DEF IInv, Typed, SidesOK
<1>2. list[w][c][i] \in StateType
  BY <1>1, ElementOfSeq
<1>. QED  BY <1>1, <1>2 DEF Side, MsgsOK

(* IInv has the types. *)
LEMMA IInvTypeOK ==
  ASSUME IInv, Known
  PROVE  TypeOK
<1>1. MaxRequests \in Nat /\ FlowUnits \in Nat /\ Typed /\ arrived \in Nat /\ arrived <= MaxRequests
  BY ConstantTypes DEF IInv, Known
<1>2. ASSUME NEW w \in Way, NEW c \in Conns, NEW i \in DOMAIN list[w][c]
      PROVE  LET m == list[w][c][i]
             IN  /\ m.tag \in Tags /\ m.rank \in Nat /\ m.got \in Nat
                 /\ m.op \in AllKinds \cup {"flow", "completion"}
                 /\ m.size \in {0, 1, 2, FlowUnits}
                 /\ 0 <= m.head /\ m.head <= m.tail /\ m.tail <= m.size
                 /\ m.item \in -1 .. MaxRequests - 1
                 /\ {m.locked, m.final} \subseteq BOOLEAN
  <2> DEFINE m == list[w][c][i]
  <2>1. m \in StateType /\ MsgOK(w, m, call[c][m.tag], recv[w][c], send[w][c])
    BY Message
  <2>2. w = "up" /\ m.item >= 0 => m.item < arrived
    BY <1>2 DEF IInv, BookedOK, Booked, ItemsKnown
  <2> HIDE DEF m
  <2>3. m.size \in {0, 1, 2, FlowUnits}
    BY <2>1 DEF MsgOK, UpOK, DownOK, FlowOK
  <2>4. m.item \in Int /\ m.item >= -1 /\ m.item <= MaxRequests - 1
    <3>1. w = "up" => m.item >= -1
      BY <2>1 DEF MsgOK, UpOK
    <3>2. w # "up" => m.item = -1
      BY <2>1 DEF MsgOK, DownOK
    <3>3. m.item \in Int
      BY <2>1 DEF StateType
    <3>. QED  BY <1>1, <2>2, <3>1, <3>2, <3>3
  <2>5. m.head <= m.tail /\ m.tail <= m.size
    BY <2>1 DEF MsgOK
  <2>6. /\ m.tag \in Tags /\ m.rank \in Nat /\ m.got \in Nat /\ m.head \in Nat
        /\ m.op \in AllKinds \cup {"flow", "completion"}
        /\ m.locked \in BOOLEAN /\ m.final \in BOOLEAN
    BY <2>1 DEF StateType
  <2>. QED  BY <2>3, <2>4, <2>5, <2>6, <1>1 DEF m
<1>3. \A w \in Way, c \in Conns : {recv[w][c], send[w][c]} \subseteq {Nil} \cup (Tags \X Nat)
  BY <1>1 DEF Typed, NameType
<1>4. incomplete \in [Conns -> BOOLEAN] /\ open \subseteq Conns /\ fault \in BOOLEAN
  BY <1>1 DEF Typed
<1>5. waiting \cup serving \subseteq [id : 0 .. MaxRequests - 1, app : Apps]
  <2>1. \A q \in waiting \cup serving : q \in [id : Nat, app : Apps] /\ q.id < arrived
    BY DEF Known, Sched!Request
  <2>. QED  BY <1>1, <2>1
<1>6. arrived \in 0 .. MaxRequests
  BY <1>1
<1>. QED  BY <1>2, <1>3, <1>4, <1>5, <1>6 DEF TypeOK

(* The lists and the scheduler agree. *)
LEMMA IInvScheduler ==
  ASSUME IInv, Known
  PROVE  SchedulerMatchesLists
<1> DEFINE held == {ItemAt(p) : p \in WithItem(TRUE)}
           released == {ItemAt(p) : p \in {q \in WithItem(FALSE) :
                          call[q[1]][list.up[q[1]][q[2]].tag].stage # "over"}}
<1>1. ItemsKnown(list.up, call, waiting, serving, arrived)
  BY DEF IInv, BookedOK, Booked
<1>2. ASSUME open = Conns
      PROVE  WaitersKnown(list.up, waiting) /\ ServedKnown(list.up, call, serving)
  BY <1>2 DEF IInv, BookedOK, Booked
<1>3. \A l \in BOOLEAN : \A p \in WithItem(l) :
        /\ p[1] \in Conns /\ p[2] \in DOMAIN list.up[p[1]] /\ p = <<p[1], p[2]>>
        /\ list.up[p[1]][p[2]].item >= 0 /\ list.up[p[1]][p[2]].locked = l
  BY DEF WithItem
<1>4. \A l \in BOOLEAN : \A c \in Conns : \A i \in DOMAIN list.up[c] :
        list.up[c][i].item >= 0 /\ list.up[c][i].locked = l => <<c, i>> \in WithItem(l)
  BY DEF WithItem
<1>5. \A c \in Conns : \A i \in DOMAIN list.up[c] :
        ItemAt(<<c, i>>) = Item(list.up[c][i], c)
  BY DEF ItemAt
<1>6. \A c \in Conns : \A i \in DOMAIN list.up[c] : list.up[c][i].locked \in BOOLEAN
  <2> SUFFICES ASSUME NEW c \in Conns, NEW i \in DOMAIN list.up[c]
               PROVE  list.up[c][i].locked \in BOOLEAN
    OBVIOUS
  <2>1. list.up[c][i] \in StateType
    BY Message DEF Way
  <2>. QED  BY <2>1 DEF StateType
<1>7. held \subseteq waiting
  <2> SUFFICES ASSUME NEW p \in WithItem(TRUE)
               PROVE  ItemAt(p) \in waiting
    OBVIOUS
  <2> DEFINE c == p[1]
             i == p[2]
  <2>1. /\ c \in Conns /\ i \in DOMAIN list.up[c] /\ p = <<c, i>>
        /\ list.up[c][i].item >= 0 /\ list.up[c][i].locked = TRUE
    BY <1>3
  <2> HIDE DEF c, i
  <2>2. Item(list.up[c][i], c) \in waiting
    BY <1>1, <2>1 DEF ItemsKnown
  <2>. QED  BY <1>5, <2>1, <2>2
<1>8. released \subseteq serving
  <2> SUFFICES ASSUME NEW p \in WithItem(FALSE), call[p[1]][list.up[p[1]][p[2]].tag].stage # "over"
               PROVE  ItemAt(p) \in serving
    OBVIOUS
  <2> DEFINE c == p[1]
             i == p[2]
  <2>1. /\ c \in Conns /\ i \in DOMAIN list.up[c] /\ p = <<c, i>>
        /\ list.up[c][i].item >= 0 /\ list.up[c][i].locked = FALSE
        /\ call[c][list.up[c][i].tag].stage # "over"
    BY <1>3
  <2> HIDE DEF c, i
  <2>2. Item(list.up[c][i], c) \in serving
    BY <1>1, <2>1 DEF ItemsKnown
  <2>. QED  BY <1>5, <2>1, <2>2
<1>9. \A q \in waiting \cup serving : q.id >= 0
  BY DEF Known, Sched!Request
<1>10. ASSUME Undisturbed
       PROVE  waiting \subseteq held
  <2> SUFFICES ASSUME NEW q \in waiting
               PROVE  \E p \in WithItem(TRUE) : q = ItemAt(p)
    OBVIOUS
  <2>1. PICK c \in Conns : \E i \in DOMAIN list.up[c] :
          list.up[c][i].locked /\ Item(list.up[c][i], c) = q
    BY <1>2, <1>10 DEF WaitersKnown, Undisturbed
  <2>2. PICK i \in DOMAIN list.up[c] : list.up[c][i].locked /\ Item(list.up[c][i], c) = q
    BY <2>1
  <2>3. list.up[c][i].item >= 0 /\ list.up[c][i].locked = TRUE
    BY <2>2, <1>6, <1>9, RecordOfItem
  <2>. QED  BY <2>2, <2>3, <1>4, <1>5
<1>11. ASSUME Undisturbed
       PROVE  serving \subseteq released
  <2> SUFFICES ASSUME NEW q \in serving
               PROVE  \E p \in WithItem(FALSE) :
                        /\ call[p[1]][list.up[p[1]][p[2]].tag].stage # "over"
                        /\ q = ItemAt(p)
    OBVIOUS
  <2>1. PICK c \in Conns : \E i \in DOMAIN list.up[c] :
          /\ ~list.up[c][i].locked /\ call[c][list.up[c][i].tag].stage # "over"
          /\ Item(list.up[c][i], c) = q
    BY <1>2, <1>11 DEF ServedKnown, Undisturbed
  <2>2. PICK i \in DOMAIN list.up[c] :
          /\ ~list.up[c][i].locked /\ call[c][list.up[c][i].tag].stage # "over"
          /\ Item(list.up[c][i], c) = q
    BY <2>1
  <2>3. list.up[c][i].item >= 0 /\ list.up[c][i].locked = FALSE
    BY <2>2, <1>6, <1>9, RecordOfItem
  <2>. QED  BY <2>2, <2>3, <1>4, <1>5
<1>. QED  BY <1>7, <1>8, <1>10, <1>11 DEF SchedulerMatchesLists

(* No message is left in the middle. *)
LEMMA IInvMessages ==
  ASSUME IInv
  PROVE  MessagesWhole
<1> SUFFICES ASSUME NEW w \in Way, NEW c \in Conns, NEW i \in DOMAIN list[w][c],
                    0 < list[w][c][i].head, list[w][c][i].head < list[w][c][i].size
             PROVE  send[w][c] = Name(list[w][c][i])
  BY DEF MessagesWhole
<1>. QED  BY Message DEF MsgOK

(* A tag's messages go in order. *)
LEMMA IInvOrder ==
  ASSUME IInv
  PROVE  TagInOrder
<1> SUFFICES ASSUME NEW w \in Way, NEW c \in Conns,
                    NEW i \in DOMAIN list[w][c], NEW j \in DOMAIN list[w][c],
                    i < j, list[w][c][i].tag = list[w][c][j].tag, list[w][c][j].head > 0
             PROVE  list[w][c][i].head = list[w][c][i].size
  BY DEF TagInOrder
<1>1. SentInOrder(list[w][c], send[w][c])
  BY DEF IInv, SidesOK, Side
<1>. QED  BY <1>1 DEF SentInOrder, Begun

(* The pointers find their states. *)
LEMMA IInvPointers ==
  ASSUME IInv
  PROVE  PointersValid
<1> SUFFICES ASSUME NEW w \in Way, NEW c \in Conns
             PROVE  /\ recv[w][c] # Nil => At(recv[w][c], list[w][c]) # 0
                    /\ send[w][c] # Nil =>
                         LET i == At(send[w][c], list[w][c])
                         IN  i # 0 /\ ~list[w][c][i].locked
  BY DEF PointersValid
<1>1. /\ list[w][c] \in Seq(StateType) /\ Ranked(list[w][c])
      /\ Pointed(list[w][c], recv[w][c], send[w][c])
  BY DEF IInv, Typed, SidesOK, Side
<1>2. \A i \in DOMAIN list[w][c] : i # 0
  BY <1>1
<1>3. ASSUME recv[w][c] # Nil
      PROVE  At(recv[w][c], list[w][c]) # 0
  <2>1. PICK i \in DOMAIN list[w][c] : Name(list[w][c][i]) = recv[w][c]
    BY <1>1, <1>3 DEF Pointed, Has
  <2>2. At(recv[w][c], list[w][c]) = i
    BY <1>1, <2>1, Found
  <2>. QED  BY <1>2, <2>2
<1>4. ASSUME send[w][c] # Nil
      PROVE  /\ At(send[w][c], list[w][c]) # 0
             /\ ~list[w][c][At(send[w][c], list[w][c])].locked
  <2>1. PICK i \in DOMAIN list[w][c] : Name(list[w][c][i]) = send[w][c]
    BY <1>1, <1>4 DEF Pointed, Has
  <2>2. At(send[w][c], list[w][c]) = i
    BY <1>1, <2>1, Found
  <2>3. ~list[w][c][i].locked
    BY <2>1, Message DEF MsgOK
  <2>. QED  BY <1>2, <2>2, <2>3
<1>. QED  BY <1>3, <1>4

(* A tag is in use as long as its call. *)
LEMMA IInvForgotten ==
  ASSUME IInv
  PROVE  TagForgotten
<1> SUFFICES ASSUME NEW c \in Conns, NEW t \in Tags, NEW w \in Way
             PROVE  /\ call[c][t] = NoCall => ~InUse(t, list[w][c])
                    /\ call[c][t] # NoCall => InUse(t, list[w][c])
  BY DEF TagForgotten
<1>1. ASSUME call[c][t] = NoCall, InUse(t, list[w][c])
      PROVE  FALSE
  <2>1. PICK i \in DOMAIN list[w][c] : list[w][c][i].tag = t
    BY <1>1 DEF InUse
  <2>. QED  BY <1>1, <2>1, Message DEF MsgOK
<1>2. ASSUME call[c][t] # NoCall
      PROVE  InUse(t, list[w][c])
  <2>1. Has(list[w][c], <<t, 0>>)
    <3>1. AllThere(w, list[w][c], call[c]) /\ call[c][t] \in CallType
      BY DEF IInv, Typed, SidesOK, Side
    <3>2. 0 <= Top(w, call[c][t])
      BY <3>1 DEF Top, CallType
    <3>. QED  BY <1>2, <3>1, <3>2 DEF AllThere
  <2>2. PICK i \in DOMAIN list[w][c] : Name(list[w][c][i]) = <<t, 0>>
    BY <2>1 DEF Has
  <2>3. list[w][c][i].tag = t
    BY <2>2 DEF Name
  <2>. QED  BY <2>3 DEF InUse
<1>. QED  BY <1>1, <1>2

(* The scheduled requests that the server has.                             *)
AtServer ==
  {p \in Conns \X Tags : ServerHolds(p[1], p[2]) /\ Scheduled(call[p[1]][p[2]].kind)}

(* Each of them has an item among those the scheduler counts as served.    *)
LEMMA HasSlot ==
  ASSUME IInv, NEW p \in AtServer
  PROVE  \E i \in DOMAIN list.up[p[1]] :
           /\ list.up[p[1]][i].tag = p[2] /\ list.up[p[1]][i].item >= 0
           /\ Item(list.up[p[1]][i], p[1]) \in serving
<1> DEFINE c == p[1]
           t == p[2]
           k == call[c][t]
<1>1. /\ c \in Conns /\ t \in Tags /\ k.stage \in {"served", "replied", "granted"}
      /\ Scheduled(k.kind)
  BY DEF AtServer, ServerHolds
<1>2. k # NoCall
  BY <1>1 DEF NoCall
<1>3. Has(list.up[c], <<t, 0>>)
  <2>1. AllThere("up", list.up[c], call[c]) /\ k \in CallType
    BY <1>1 DEF IInv, Typed, SidesOK, Side, Way
  <2>2. 0 <= Top("up", k)
    BY <2>1 DEF Top, CallType
  <2> HIDE DEF k
  <2>. QED  BY <1>1, <1>2, <2>1, <2>2 DEF AllThere, k
<1>4. PICK i \in DOMAIN list.up[c] : Name(list.up[c][i]) = <<t, 0>>
  BY <1>3 DEF Has
<1> DEFINE m == list.up[c][i]
<1>5. m.tag = t /\ m.rank = 0
  BY <1>4 DEF Name
<1>6. MsgOK("up", m, k, recv.up[c], send.up[c])
  BY <1>1, <1>5, Message DEF Way
<1>7. m.item >= 0 /\ ~m.locked
  <2> HIDE DEF m, k
  <2>. QED  BY <1>1, <1>5, <1>6 DEF MsgOK, UpOK
<1>8. Item(m, c) \in serving
  BY <1>1, <1>5, <1>7 DEF IInv, BookedOK, Booked, ItemsKnown
<1>. QED  BY <1>5, <1>7, <1>8

(* The requests at the server inject into those that are served. *)
LEMMA IInvDepth ==
  ASSUME IInv, Known, SlotsUsed
  PROVE  DepthAtServer
<1> DEFINE At1(p) == CHOOSE i \in DOMAIN list.up[p[1]] :
                       /\ list.up[p[1]][i].tag = p[2] /\ list.up[p[1]][i].item >= 0
                       /\ Item(list.up[p[1]][i], p[1]) \in serving
           f == [p \in AtServer |-> Item(list.up[p[1]][At1(p)], p[1])]
<1>1. \A p \in AtServer :
        /\ At1(p) \in DOMAIN list.up[p[1]]
        /\ list.up[p[1]][At1(p)].tag = p[2] /\ list.up[p[1]][At1(p)].item >= 0
        /\ Item(list.up[p[1]][At1(p)], p[1]) \in serving
  BY HasSlot
<1>2. \A p \in AtServer : p[1] \in Conns /\ p = <<p[1], p[2]>>
  BY DEF AtServer
<1>3. ItemsUnique(list.up)
  BY DEF IInv, BookedOK, Booked
<1> HIDE DEF At1
<1>4. \A p \in AtServer : f[p].id = list.up[p[1]][At1(p)].item
  BY DEF Item
<1>5. \A p, q \in AtServer : f[p] = f[q] => p = q
  <2> SUFFICES ASSUME NEW p \in AtServer, NEW q \in AtServer, f[p] = f[q]
               PROVE  p = q
    OBVIOUS
  <2>1. list.up[p[1]][At1(p)].item = list.up[q[1]][At1(q)].item
    BY <1>4
  <2>2. p[1] = q[1] /\ At1(p) = At1(q)
    BY <2>1, <1>1, <1>2, <1>3 DEF ItemsUnique
  <2>. QED  BY <2>2, <1>1, <1>2
<1>6. f \in Injection(AtServer, serving)
  <2>1. f \in [AtServer -> serving]
    BY <1>1
  <2> HIDE DEF f
  <2>. QED  BY <2>1, <1>5 DEF Injection, IsInjective
<1>7. Cardinality(AtServer) <= Cardinality(serving) /\ IsFiniteSet(AtServer)
  BY <1>6, FS_Injection DEF SlotsUsed
<1>8. Cardinality(AtServer) <= Depth
  BY <1>7, FS_CardinalityType, ConstantTypes DEF SlotsUsed
<1>. QED  BY <1>8 DEF DepthAtServer, AtServer
-----------------------------------------------------------------------------
(* The theorems *)

(* Whatever messages are interleaved, however often a client disconnects   *)
(* in the middle of one, and whatever the loop answers a completion with:  *)
(* check_request, check_response and main call sch_enqueue and sch_dequeue *)
(* as the plug-ins expect, a completion only for a request that has a slot.*)
THEOREM UsesInterface == Spec => Sched!Spec
<1>1. Init => Sched!Init /\ Pool
  BY DEF Init, Pool
<1>2. Pool /\ [Next]_vars
        => [Sched!Next]_(Sched!vars) /\ Pool'
  BY StepUses
<1>. QED  BY <1>1, <1>2, PTL DEF Spec, Sched!Spec

(* The scheduler of the proxy never has more than Depth requests released, *)
(* and a request is locked by it only while it has Depth                   *)
(* (check_request, message.c).                                             *)
THEOREM DepthKept == Spec => []SlotsUsed
<1>1. Depth \in Nat
  BY ProxyAssumption
<1>2. Inv => SlotsUsed
  BY DEF Inv
<1>. QED  BY <1>1, <1>2, Invariance, UsesInterface, PTL

(* While a request waits, no later request of its application has been     *)
(* released: those released as they come and those unlocked by completions *)
(* on any connection together keep the order in which they came.           *)
THEOREM NeverOvertakenByOwn == Spec => []OwnOrder
<1>1. Depth \in Nat
  BY ProxyAssumption
<1>2. Inv => OwnOrder
  BY DEF Inv
<1>. QED  BY <1>1, <1>2, Invariance, UsesInterface, PTL

-----------------------------------------------------------------------------
(* The theorems about the lists and the pointers *)

(* A system whose servers' answers arrive in one piece and whose scheduler *)
(* accepts every metadata request that occurs: in every state the          *)
(* inductive invariant holds, and the scheduler knows its requests and     *)
(* uses no more than its slots.                                            *)
LEMMA Always ==
  ASSUME Scope
  PROVE  Spec => [](IInv /\ Known /\ SlotsUsed)
<1>1. Depth \in Nat
  BY ProxyAssumption
<1>2. Init => IInv
  BY InitIInv
<1>3. Spec => []Inv
  BY <1>1, Invariance, UsesInterface, PTL
<1>4. Inv => Known /\ SlotsUsed
  BY DEF Inv
<1>5. IInv /\ Known /\ [Next]_vars => IInv'
  BY NextIInv
<1>. QED  BY <1>2, <1>3, <1>4, <1>5, PTL DEF Spec

(* The request states, the pointers and what the scheduler counts keep     *)
(* their types, and ready_size is never negative: head <= tail <= size for *)
(* every buffer of socket_pool.c and message.c.                            *)
THEOREM TypesKept == ASSUME Scope PROVE Spec => []TypeOK
<1>1. IInv /\ Known => TypeOK
  BY IInvTypeOK
<1>. QED  BY <1>1, Always, PTL

(* What the depth of the scheduler is for: whatever main forwards, in      *)
(* whatever order the sockets are served and whoever disconnects, the      *)
(* server never works on more than Depth of the requests that              *)
(* check_request gives to the scheduler.                                   *)
THEOREM DepthReachesServer == ASSUME Scope PROVE Spec => []DepthAtServer
<1>1. IInv /\ Known /\ SlotsUsed => DepthAtServer
  BY IInvDepth
<1>. QED  BY <1>1, Always, PTL

(* The locks of the request states and the queues of the scheduler say the *)
(* same (check_request locks, check_response unlocks and completes): each  *)
(* request takes and returns its slot once.                                *)
THEOREM SchedulerAgrees == ASSUME Scope PROVE Spec => []SchedulerMatchesLists
<1>1. IInv /\ Known => SchedulerMatchesLists
  BY IInvScheduler
<1>. QED  BY <1>1, Always, PTL

(* update_socket_current_send never leaves a message that has been sent in *)
(* part: messages are not mixed on the wire.                               *)
THEOREM MessagesStayWhole == ASSUME Scope PROVE Spec => []MessagesWhole
<1>1. IInv => MessagesWhole
  BY IInvMessages
<1>. QED  BY <1>1, Always, PTL

(* Taking the first message of the list that is not locked keeps the order *)
(* of the messages of a tag, since only their first can be locked.         *)
THEOREM TagsStayInOrder == ASSUME Scope PROVE Spec => []TagInOrder
<1>1. IInv => TagInOrder
  BY IInvOrder
<1>. QED  BY <1>1, Always, PTL

(* current_send_item and current_receive_item never point at a state that  *)
(* clean_up_request_state has freed, and no locked request is being sent.  *)
THEOREM PointersStayValid == ASSUME Scope PROVE Spec => []PointersValid
<1>1. IInv => PointersValid
  BY IInvPointers
<1>. QED  BY <1>1, Always, PTL

(* The proxy forgets a tag exactly when the client has its whole answer.   *)
THEOREM TagsAreForgotten == ASSUME Scope PROVE Spec => []TagForgotten
<1>1. IInv => TagForgotten
  BY IInvForgotten
<1>. QED  BY <1>1, Always, PTL

(* While nobody disconnects no assertion of main, check_request and        *)
(* check_response fails, and no current_item is used that is NULL or has   *)
(* no slot.                                                                *)
THEOREM NeverFaults == ASSUME Scope PROVE Spec => []NoFault
<1>1. IInv => NoFault
  BY DEF IInv
<1>. QED  BY <1>1, Always, PTL

=============================================================================
