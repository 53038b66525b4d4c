---------------------------- MODULE SFQD_proofs ----------------------------
(***************************************************************************)
(* Proofs about SFQD, for every set of applications, every assignment of   *)
(* weights, every depth and every set of request sizes: the bookkeeping of *)
(* slots and items, the tags, the promise of module Dispatcher, and the    *)
(* bound of SFQDService on the bytes that overtake an item.                *)
(***************************************************************************)
EXTENDS SFQDService, FiniteSetTheorems, WellFoundedInduction, TLAPS

-----------------------------------------------------------------------------
(* The tags *)

(* get_finish_tag always moves the finish tag forward: an item of weighted *)
(* length below one unit still costs 1.                                    *)
LEMMA TagCostPositive ==
  ASSUME NEW size \in Nat, NEW w \in Nat \ {0}
  PROVE  TagCost(size, w) \in Nat \ {0}
<1>1. CASE w * REDUCER > size
  BY <1>1 DEF TagCost
<1>2. CASE ~(w * REDUCER > size)
  <2> DEFINE q == size \div w
  <2>1. w * REDUCER \in Nat /\ w * REDUCER <= size
    BY <1>2, SFQDAssumption
  <2>2. q \in Nat /\ size < w * (q + 1)
    BY SFQDAssumption
  <2>3. q >= REDUCER
    <3>1. CASE q < REDUCER
      <4>1. w * (q + 1) <= w * REDUCER
        BY <3>1, <2>2, SFQDAssumption
      <4>. QED  BY <4>1, <2>1, <2>2, SFQDAssumption
    <3>. QED  BY <3>1, <2>2, SFQDAssumption
  <2>4. q \div REDUCER \in Nat /\ q \div REDUCER >= 1
    <3>1. q \div REDUCER \in Int /\ q < REDUCER * (q \div REDUCER + 1)
      BY <2>2, SFQDAssumption
    <3>2. CASE q \div REDUCER < 1
      <4>1. REDUCER * (q \div REDUCER + 1) <= REDUCER
        BY <3>1, <3>2, SFQDAssumption
      <4>. QED  BY <4>1, <3>1, <2>3, <2>2, SFQDAssumption
    <3>. QED  BY <3>1, <3>2
  <2>. QED  BY <1>2, <2>4 DEF TagCost
<1>. QED  BY <1>1, <1>2, SFQDAssumption

(* A longer request never costs less, so MaxCost bounds the cost of every  *)
(* request that occurs.                                                    *)
LEMMA TagCostBounded ==
  ASSUME NEW size \in Sizes, NEW a \in Apps
  PROVE  /\ TagCost(size, Weight[a]) \in Nat \ {0}
         /\ MaxCost(a) \in Nat \ {0}
         /\ TagCost(size, Weight[a]) <= MaxCost(a)
<1> DEFINE w == Weight[a]
<1>1. w \in Nat \ {0} /\ size \in Nat /\ MaxSize \in Nat /\ size <= MaxSize
  BY SFQDAssumption
<1>2. TagCost(size, w) \in Nat \ {0} /\ TagCost(MaxSize, w) \in Nat \ {0}
  BY <1>1, TagCostPositive
<1> HIDE DEF w
<1>3. TagCost(size, w) <= TagCost(MaxSize, w)
  <2>1. CASE w * REDUCER > size
    BY <2>1, <1>2 DEF TagCost
  <2>2. CASE ~(w * REDUCER > size)
    <3>1. w * REDUCER <= size /\ w * REDUCER <= MaxSize
      BY <2>2, <1>1, SFQDAssumption
    <3>2. size \div w \in Nat /\ MaxSize \div w \in Nat
          /\ size \div w <= MaxSize \div w
      BY <1>1
    <3>3. (size \div w) \div REDUCER <= (MaxSize \div w) \div REDUCER
      BY <3>2, SFQDAssumption
    <3>. QED  BY <3>1, <3>3, <1>1, SFQDAssumption DEF TagCost
  <2>. QED  BY <2>1, <2>2
<1>. QED  BY <1>2, <1>3 DEF MaxCost, w

-----------------------------------------------------------------------------
(* The inductive invariant *)

(* What is queued: ids are distinct and already given out, no item starts  *)
(* in the past, and no item ends after its application's last finish tag.  *)
Ids ==
  /\ \A x \in queue : x.id < itemId
  /\ \A x, y \in queue : x.id = y.id => x = y

Tags ==
  \A x \in queue :
    /\ virtualTime <= x.start
    /\ x.finish = x.start + TagCost(x.size, Weight[x.app])
    /\ x.finish <= lastFinish[x.app]

Inv ==
  /\ TypeOK
  /\ SlotsExact
  /\ WorkConserving
  /\ OwnItem
  /\ EmptyListNeverSorted
  /\ Ids
  /\ Tags

(* The released requests are finitely many. *)
LEMMA CurrentFinite ==
  TypeOK => IsFiniteSet(DOMAIN current) /\ Cardinality(DOMAIN current) \in Nat
<1> SUFFICES ASSUME TypeOK
    PROVE IsFiniteSet(DOMAIN current) /\ Cardinality(DOMAIN current) \in Nat
  OBVIOUS
<1>1. DOMAIN current \subseteq 0 .. itemId - 1 /\ itemId \in Nat
  BY SFQDAssumption DEF TypeOK
<1>2. IsFiniteSet(0 .. itemId - 1)
  BY <1>1, FS_Interval
<1>. QED  BY <1>1, <1>2, FS_Subset, FS_CardinalityType

(* The item built for a new request has its type and starts neither before *)
(* the virtual time nor before its application's last finish tag.          *)
LEMMA NewItemFacts ==
  ASSUME TypeOK, NEW a \in Apps, NEW size \in Sizes, itemId < MaxItems
  PROVE  LET n == NewItem(a, size)
         IN  /\ n \in Item
             /\ n.id = itemId /\ n.app = a /\ n.size = size
             /\ virtualTime <= n.start /\ lastFinish[a] <= n.start
             /\ n.start = virtualTime \/ n.start = lastFinish[a]
             /\ n.finish = n.start + TagCost(size, Weight[a])
             /\ n.start < n.finish
<1>1. TagCost(size, Weight[a]) \in Nat \ {0}
  BY TagCostBounded
<1>2. virtualTime \in Nat /\ lastFinish[a] \in Nat /\ itemId \in Nat
  BY SFQDAssumption DEF TypeOK
<1>. QED  BY <1>1, <1>2 DEF NewItem, Later, Item

LEMMA InitInv == Init => Inv
<1> SUFFICES ASSUME Init PROVE Inv
  OBVIOUS
<1>1. DOMAIN current = {}
  BY DEF Init
<1>2. TypeOK
  <2>1. current \in [DOMAIN current -> Item]
    BY DEF Init
  <2>2. lastFinish \in [Apps -> Nat]
    BY DEF Init
  <2>3. DOMAIN current \subseteq 0 .. itemId - 1
    BY <1>1
  <2>4. queue \subseteq Item /\ sorted \in BOOLEAN
    BY DEF Init
  <2>5. virtualTime \in Nat /\ depth \in 0 .. Depth /\ itemId \in 0 .. MaxItems
    BY SFQDAssumption DEF Init
  <2>. QED  BY <2>1, <2>2, <2>3, <2>4, <2>5 DEF TypeOK
<1>3. SlotsExact
  BY <1>1, FS_EmptySet DEF Init, SlotsExact
<1>. QED
  BY <1>1, <1>2, <1>3
  DEF Init, Inv, WorkConserving, OwnItem, EmptyListNeverSorted, Ids, Tags

(* A free slot means an empty list, so the new item is the one dispatched. *)
LEMMA DispatchesNewItem ==
  ASSUME Inv, NEW a \in Apps, NEW size \in Sizes, EnqueueDispatch(a, size)
  PROVE  /\ queue = {}
         /\ queue' = {}
         /\ virtualTime' = NewItem(a, size).start
         /\ current' = Bind(current, itemId, NewItem(a, size))
<1>1. queue = {}
  <2>1. depth < Depth /\ depth # Depth
    BY SFQDAssumption DEF EnqueueDispatch, Inv, TypeOK
  <2>. QED  BY <2>1 DEF Inv, WorkConserving
<1>2. PICK h \in queue \cup {NewItem(a, size)} :
        /\ TakeHead(h, queue \cup {NewItem(a, size)})
        /\ current' = Bind(current, itemId, h)
  BY DEF EnqueueDispatch
<1>3. h = NewItem(a, size)
  BY <1>1, <1>2
<1>. QED  BY <1>1, <1>2, <1>3 DEF TakeHead

LEMMA DispatchInv ==
  ASSUME Inv, NEW a \in Apps, NEW size \in Sizes, EnqueueDispatch(a, size)
  PROVE  Inv'
<1> DEFINE n == NewItem(a, size)
<1>1. itemId < MaxItems /\ depth < Depth
  BY DEF EnqueueDispatch, Arrive
<1>2. /\ n \in Item
      /\ n.id = itemId /\ n.app = a /\ n.size = size
      /\ virtualTime <= n.start /\ lastFinish[a] <= n.start
      /\ n.finish = n.start + TagCost(size, Weight[a])
      /\ n.start < n.finish
  BY <1>1, NewItemFacts DEF Inv
<1>3. /\ queue = {} /\ queue' = {}
      /\ virtualTime' = n.start
      /\ current' = Bind(current, itemId, n)
      /\ sorted' = TRUE
      /\ depth' = depth + 1
      /\ itemId' = itemId + 1
      /\ lastFinish' = [lastFinish EXCEPT ![a] = n.finish]
  BY DispatchesNewItem DEF EnqueueDispatch, Arrive, TakeHead
<1> HIDE DEF n
<1>4. /\ DOMAIN current' = DOMAIN current \cup {itemId}
      /\ itemId \notin DOMAIN current
      /\ current'[itemId] = n
      /\ \A r \in DOMAIN current : current'[r] = current[r]
  BY <1>3, SFQDAssumption DEF Bind, Inv, TypeOK
<1>5. TypeOK'
  <2>1. itemId \in Nat /\ itemId' \in 0 .. MaxItems /\ depth' \in 0 .. Depth
    BY <1>1, <1>3, SFQDAssumption DEF Inv, TypeOK
  <2>2. n.start \in Nat /\ n.finish \in Nat
    BY <1>2 DEF Item
  <2>3. lastFinish' \in [Apps -> Nat]
    BY <1>3, <2>2 DEF Inv, TypeOK
  <2>4. DOMAIN current' \subseteq 0 .. itemId' - 1
    BY <1>3, <1>4, <2>1 DEF Inv, TypeOK
  <2>5. current' \in [DOMAIN current' -> Item]
    BY <1>2, <1>3, <1>4 DEF Bind, Inv, TypeOK
  <2>. QED  BY <1>3, <2>1, <2>2, <2>3, <2>4, <2>5 DEF TypeOK
<1>6. SlotsExact'
  <2>1. Cardinality(DOMAIN current') = Cardinality(DOMAIN current) + 1
    BY <1>4, CurrentFinite, FS_AddElement DEF Inv
  <2>. QED  BY <1>3, <2>1 DEF Inv, SlotsExact
<1>7. WorkConserving' /\ EmptyListNeverSorted' /\ Ids' /\ Tags'
  BY <1>3 DEF WorkConserving, EmptyListNeverSorted, Ids, Tags
<1>8. OwnItem'
  BY <1>2, <1>3, <1>4 DEF Inv, OwnItem
<1>. QED  BY <1>5, <1>6, <1>7, <1>8 DEF Inv

LEMMA HoldInv ==
  ASSUME Inv, NEW a \in Apps, NEW size \in Sizes, EnqueueHold(a, size)
  PROVE  Inv'
<1> DEFINE n == NewItem(a, size)
<1>1. itemId < MaxItems /\ depth >= Depth
  BY DEF EnqueueHold, Arrive
<1>2. /\ n \in Item
      /\ n.id = itemId /\ n.app = a /\ n.size = size
      /\ virtualTime <= n.start /\ lastFinish[a] <= n.start
      /\ n.finish = n.start + TagCost(size, Weight[a])
      /\ n.start < n.finish
  BY <1>1, NewItemFacts DEF Inv
<1>3. /\ queue' = queue \cup {n}
      /\ sorted' = FALSE
      /\ itemId' = itemId + 1
      /\ lastFinish' = [lastFinish EXCEPT ![a] = n.finish]
      /\ UNCHANGED <<virtualTime, depth, current>>
  BY DEF EnqueueHold, Arrive
<1> HIDE DEF n
<1>4. n.start \in Nat /\ n.finish \in Nat
  BY <1>2 DEF Item
<1>5. TypeOK'
  <2>1. lastFinish' \in [Apps -> Nat]
    BY <1>3, <1>4 DEF Inv, TypeOK
  <2>2. itemId' \in 0 .. MaxItems /\ DOMAIN current \subseteq 0 .. itemId' - 1
    BY <1>1, <1>3, SFQDAssumption DEF Inv, TypeOK
  <2>. QED  BY <1>2, <1>3, <2>1, <2>2 DEF Inv, TypeOK
<1>6. SlotsExact' /\ EmptyListNeverSorted'
  BY <1>3 DEF Inv, SlotsExact, EmptyListNeverSorted
<1>7. WorkConserving'
  BY <1>1, <1>3, SFQDAssumption DEF Inv, WorkConserving, TypeOK
<1>8. OwnItem'
  <2>1. itemId \notin DOMAIN current
    BY SFQDAssumption DEF Inv, TypeOK
  <2>. QED  BY <1>2, <1>3, <2>1 DEF Inv, OwnItem
<1>9. Ids'
  <2>1. \A x \in queue : x.id \in Nat /\ x.id < itemId
    BY DEF Inv, TypeOK, Ids, Item
  <2>2. itemId \in Nat
    BY SFQDAssumption DEF Inv, TypeOK
  <2>. QED  BY <1>2, <1>3, <2>1, <2>2 DEF Inv, Ids
<1>10. Tags'
  <2> SUFFICES ASSUME NEW x \in queue'
      PROVE /\ virtualTime <= x.start
            /\ x.finish = x.start + TagCost(x.size, Weight[x.app])
            /\ x.finish <= lastFinish'[x.app]
    BY <1>3 DEF Tags
  <2>1. CASE x = n
    BY <2>1, <1>2, <1>3, <1>4 DEF Inv, TypeOK
  <2>2. CASE x \in queue
    <3>1. /\ x.app \in Apps /\ x.finish \in Nat /\ x.finish <= lastFinish[x.app]
          /\ lastFinish \in [Apps -> Nat]
      BY <2>2 DEF Inv, TypeOK, Tags, Item
    <3>2. lastFinish[x.app] <= lastFinish'[x.app]
      BY <1>2, <1>3, <1>4, <3>1
    <3>3. lastFinish'[x.app] \in Nat
      BY <1>3, <1>4, <3>1
    <3>. QED  BY <2>2, <3>1, <3>2, <3>3 DEF Inv, Tags
  <2>. QED  BY <2>1, <2>2, <1>3
<1>. QED  BY <1>5, <1>6, <1>7, <1>8, <1>9, <1>10 DEF Inv

(* A completion leaves the other released requests with their items.       *)
LEMMA CompleteDispatchInv ==
  ASSUME Inv, NEW r \in DOMAIN current, CompleteDispatch(r)
  PROVE  Inv'
<1>1. PICK h \in queue :
        /\ IsHead(h, queue)
        /\ queue' = queue \ {h}
        /\ sorted' = TRUE
        /\ virtualTime' = h.start
        /\ current' = Bind(Unbind(current, r), h.id, h)
  BY DEF CompleteDispatch, TakeHead
<1>2. UNCHANGED <<lastFinish, depth, itemId>>
  BY DEF CompleteDispatch
<1>3. /\ h \in Item /\ h.id \in Nat /\ h.start \in Nat
      /\ h.id < itemId /\ h.id \notin DOMAIN current
      /\ itemId \in Nat
  BY <1>1, SFQDAssumption DEF Inv, TypeOK, Item, Ids, OwnItem
<1>4. /\ DOMAIN current' = (DOMAIN current \ {r}) \cup {h.id}
      /\ current'[h.id] = h
      /\ \A s \in DOMAIN current \ {r} : s # h.id /\ current'[s] = current[s]
  BY <1>1, <1>3 DEF Bind, Unbind
<1>5. TypeOK'
  <2>1. current' \in [DOMAIN current' -> Item]
    BY <1>1, <1>3, <1>4 DEF Bind, Unbind, Inv, TypeOK
  <2>2. DOMAIN current' \subseteq 0 .. itemId' - 1
    BY <1>2, <1>3, <1>4 DEF Inv, TypeOK
  <2>. QED  BY <1>1, <1>2, <1>3, <2>1, <2>2 DEF Inv, TypeOK
<1>6. SlotsExact'
  <2> DEFINE rest == DOMAIN current \ {r}
  <2>1. IsFiniteSet(rest) /\ Cardinality(rest) = Cardinality(DOMAIN current) - 1
    BY CurrentFinite, FS_RemoveElement DEF Inv
  <2>2. Cardinality(rest \cup {h.id}) = Cardinality(rest) + 1
    BY <1>3, <2>1, FS_AddElement
  <2>3. Cardinality(DOMAIN current) \in Nat
    BY CurrentFinite DEF Inv
  <2>. QED  BY <1>2, <1>4, <2>1, <2>2, <2>3 DEF Inv, SlotsExact
<1>7. WorkConserving'
  BY <1>1, <1>2 DEF Inv, WorkConserving
<1>8. EmptyListNeverSorted'
  BY <1>1 DEF EmptyListNeverSorted
<1>9. Ids'
  BY <1>1, <1>2 DEF Inv, Ids
<1>10. OwnItem'
  <2>1. \A x \in queue' : x \in queue /\ x.id # h.id
    BY <1>1 DEF Inv, Ids
  <2>. QED  BY <1>4, <2>1 DEF Inv, OwnItem
<1>11. Tags'
  <2>1. \A x \in queue' : h.start <= x.start
    BY <1>1 DEF IsHead, Before, Inv, TypeOK, Item
  <2>. QED  BY <1>1, <1>2, <2>1 DEF Inv, Tags
<1>. QED  BY <1>5, <1>6, <1>7, <1>8, <1>9, <1>10, <1>11 DEF Inv

LEMMA CompleteIdleInv ==
  ASSUME Inv, NEW r \in DOMAIN current, CompleteIdle(r)
  PROVE  Inv'
<1>1. /\ queue = {} /\ queue' = {}
      /\ depth' = depth - 1
      /\ sorted' = TRUE
      /\ current' = Unbind(current, r)
      /\ UNCHANGED <<virtualTime, lastFinish, itemId>>
  BY DEF CompleteIdle
<1>2. /\ DOMAIN current' = DOMAIN current \ {r}
      /\ \A s \in DOMAIN current \ {r} : current'[s] = current[s]
  BY <1>1 DEF Unbind
<1>3. /\ Cardinality(DOMAIN current') = Cardinality(DOMAIN current) - 1
      /\ Cardinality(DOMAIN current') \in Nat
  <2>1. IsFiniteSet(DOMAIN current')
    BY <1>2, CurrentFinite, FS_RemoveElement DEF Inv
  <2>. QED
    BY <1>2, <2>1, CurrentFinite, FS_RemoveElement, FS_CardinalityType DEF Inv
<1>4. TypeOK'
  <2>1. depth' \in 0 .. Depth
    BY <1>1, <1>3, SFQDAssumption DEF Inv, TypeOK, SlotsExact
  <2>2. current' \in [DOMAIN current' -> Item]
    BY <1>1, <1>2 DEF Unbind, Inv, TypeOK
  <2>. QED  BY <1>1, <1>2, <2>1, <2>2 DEF Inv, TypeOK
<1>5. SlotsExact'
  BY <1>1, <1>3 DEF Inv, SlotsExact
<1>. QED
  BY <1>1, <1>2, <1>4, <1>5
  DEF Inv, WorkConserving, OwnItem, EmptyListNeverSorted, Ids, Tags

LEMMA StepInv == Inv /\ [Next]_vars => Inv'
<1> SUFFICES ASSUME Inv, [Next]_vars PROVE Inv'
  OBVIOUS
<1>1. ASSUME NEW a \in Apps, NEW size \in Sizes, EnqueueDispatch(a, size)
      PROVE  Inv'
  BY <1>1, DispatchInv
<1>2. ASSUME NEW a \in Apps, NEW size \in Sizes, EnqueueHold(a, size)
      PROVE  Inv'
  BY <1>2, HoldInv
<1>3. ASSUME NEW r \in DOMAIN current, CompleteDispatch(r)
      PROVE  Inv'
  BY <1>3, CompleteDispatchInv
<1>4. ASSUME NEW r \in DOMAIN current, CompleteIdle(r)
      PROVE  Inv'
  BY <1>4, CompleteIdleInv
<1>5. CASE UNCHANGED vars
  BY <1>5 DEF vars, Inv, TypeOK, SlotsExact, WorkConserving, OwnItem,
              EmptyListNeverSorted, Ids, Tags
<1>. QED  BY <1>1, <1>2, <1>3, <1>4, <1>5 DEF Next, Enqueue, Complete

THEOREM Invariance == Spec => []Inv
  BY InitInv, StepInv, PTL DEF Spec

-----------------------------------------------------------------------------
(* Safety *)

(* SFQD's variables keep their types in every reachable state. *)
THEOREM Typing == Spec => []TypeOK
  BY Invariance, PTL DEF Inv

(* sfqd_current_depth always is the number of requests at the server. *)
THEOREM SlotAccounting == Spec => []SlotsExact
  BY Invariance, PTL DEF Inv

(* A request is held back only while every slot is taken. *)
THEOREM NoIdleSlot == Spec => []WorkConserving
  BY Invariance, PTL DEF Inv

(* The unchecked assignment of sfqd_dequeue's answer is always right: a    *)
(* released request holds its own item.                                    *)
THEOREM OwnItemAlways == Spec => []OwnItem
  BY Invariance, PTL DEF Inv

(* sfqd_dequeue never sorts an empty list. *)
THEOREM SortSafe == Spec => []EmptyListNeverSorted
  BY Invariance, PTL DEF Inv

LEMMA StepVirtualTime == Inv /\ [Next]_vars => [virtualTime' >= virtualTime]_vars
<1> SUFFICES ASSUME Inv, Next PROVE virtualTime' >= virtualTime
  BY DEF vars
<1>1. virtualTime \in Nat
  BY DEF Inv, TypeOK
<1>2. ASSUME NEW a \in Apps, NEW size \in Sizes, EnqueueDispatch(a, size)
      PROVE  virtualTime' >= virtualTime
  <2>1. itemId < MaxItems
    BY <1>2 DEF EnqueueDispatch, Arrive
  <2>2. /\ NewItem(a, size) \in Item
        /\ virtualTime <= NewItem(a, size).start
    BY <2>1, NewItemFacts DEF Inv
  <2>3. virtualTime' = NewItem(a, size).start
    BY <1>2, DispatchesNewItem
  <2>. QED  BY <1>1, <2>2, <2>3 DEF Item
<1>3. ASSUME NEW a \in Apps, NEW size \in Sizes, EnqueueHold(a, size)
      PROVE  virtualTime' >= virtualTime
  BY <1>1, <1>3 DEF EnqueueHold
<1>4. ASSUME NEW r \in DOMAIN current, CompleteDispatch(r)
      PROVE  virtualTime' >= virtualTime
  BY <1>1, <1>4 DEF CompleteDispatch, TakeHead, IsHead, Inv, TypeOK, Tags, Item
<1>5. ASSUME NEW r \in DOMAIN current, CompleteIdle(r)
      PROVE  virtualTime' >= virtualTime
  BY <1>1, <1>5 DEF CompleteIdle
<1>. QED  BY <1>2, <1>3, <1>4, <1>5 DEF Next, Enqueue, Complete

(* Taking the start tag of the dispatched item as the new virtual time     *)
(* never moves it back.                                                    *)
THEOREM VirtualTimeNeverBack == Spec => VirtualTimeMonotone
<1>1. Inv /\ [Next]_vars => [virtualTime' >= virtualTime]_vars
  BY StepVirtualTime
<1>. QED  BY <1>1, Invariance, PTL DEF Spec, VirtualTimeMonotone

-----------------------------------------------------------------------------
(* Fairness of the tags *)

(* No item of x's application waits longer than x. *)
Oldest(x, items) == \A y \in items : y.app = x.app => x.id <= y.id

(* The waiting items of one application follow one another: each starts    *)
(* where an earlier one ends, and the last one ends at the last finish tag.*)
Chain ==
  /\ \A x, y \in queue : x.app = y.app /\ x.id < y.id => x.finish <= y.start
  /\ \A y \in queue : ~Oldest(y, queue) =>
       \E x \in queue : x.app = y.app /\ x.id < y.id /\ y.start = x.finish
  /\ \A x \in queue :
       \E y \in queue : y.app = x.app /\ y.finish = lastFinish[x.app]

(* Neither an application's oldest item nor, when it has nothing queued,   *)
(* its next one starts later than one request after the virtual time.      *)
Near ==
  /\ \A x \in queue : Oldest(x, queue) => x.start <= virtualTime + MaxCost(x.app)
  /\ \A c \in Apps : (\A x \in queue : x.app # c)
       => lastFinish[c] <= virtualTime + MaxCost(c)

FairInv == Inv /\ Chain /\ Near

LEMMA InitFair == Init => FairInv
<1> SUFFICES ASSUME Init PROVE FairInv
  OBVIOUS
<1>1. \A c \in Apps : MaxCost(c) \in Nat
  BY TagCostPositive, SFQDAssumption DEF MaxCost
<1>. QED  BY <1>1, InitInv DEF Init, FairInv, Chain, Near

(* Facts about the queued items that the steps below use. *)
LEMMA QueuedItem ==
  ASSUME Inv, NEW x \in queue
  PROVE  /\ x.id \in Nat /\ x.app \in Apps /\ x.start \in Nat /\ x.finish \in Nat
         /\ virtualTime \in Nat /\ lastFinish[x.app] \in Nat
         /\ virtualTime <= x.start /\ x.start < x.finish
         /\ x.finish <= x.start + MaxCost(x.app)
         /\ x.finish <= lastFinish[x.app]
         /\ MaxCost(x.app) \in Nat
<1>1. x \in Item /\ x.size \in Sizes /\ x.app \in Apps
  BY DEF Inv, TypeOK, Item
<1>2. /\ TagCost(x.size, Weight[x.app]) \in Nat \ {0}
      /\ MaxCost(x.app) \in Nat \ {0}
      /\ TagCost(x.size, Weight[x.app]) <= MaxCost(x.app)
  BY <1>1, TagCostBounded
<1>3. virtualTime \in Nat /\ lastFinish[x.app] \in Nat
  BY <1>1 DEF Inv, TypeOK
<1>4. /\ virtualTime <= x.start
      /\ x.finish = x.start + TagCost(x.size, Weight[x.app])
      /\ x.finish <= lastFinish[x.app]
  BY DEF Inv, Tags
<1>5. x.id \in Nat /\ x.start \in Nat /\ x.finish \in Nat
  BY <1>1 DEF Item
<1>. QED  BY <1>1, <1>2, <1>3, <1>4, <1>5

LEMMA HoldFair ==
  ASSUME FairInv, NEW a \in Apps, NEW size \in Sizes, EnqueueHold(a, size)
  PROVE  Chain' /\ Near'
<1> DEFINE n == NewItem(a, size)
<1>0. Inv /\ Chain /\ Near
  BY DEF FairInv
<1>1. itemId < MaxItems
  BY DEF EnqueueHold, Arrive
<1>2. /\ n \in Item
      /\ n.id = itemId /\ n.app = a /\ n.size = size
      /\ virtualTime <= n.start /\ lastFinish[a] <= n.start
      /\ n.start = virtualTime \/ n.start = lastFinish[a]
      /\ n.start < n.finish
  BY <1>0, <1>1, NewItemFacts DEF Inv
<1>3. /\ queue' = queue \cup {n}
      /\ lastFinish' = [lastFinish EXCEPT ![a] = n.finish]
      /\ virtualTime' = virtualTime
  BY DEF EnqueueHold, Arrive
<1> HIDE DEF n
<1>4. n.start \in Nat /\ n.finish \in Nat /\ n.id \in Nat
  BY <1>2 DEF Item
<1>5. /\ lastFinish'[a] = n.finish
      /\ \A c \in Apps \ {a} : lastFinish'[c] = lastFinish[c]
  BY <1>0, <1>3 DEF Inv, TypeOK
<1>6. \A x \in queue : x.id \in Nat /\ x.id < n.id /\ x.app \in Apps
  BY <1>0, <1>2, QueuedItem DEF Inv, Ids
<1>7. MaxCost(a) \in Nat /\ virtualTime \in Nat /\ lastFinish[a] \in Nat
  BY <1>0, TagCostBounded DEF Inv, TypeOK
<1>8. ASSUME NEW x \in queue, x.app = a
      PROVE  n.start = lastFinish[a] /\ x.finish <= n.start
  <2>1. /\ x.start \in Nat /\ x.finish \in Nat
        /\ virtualTime <= x.start /\ x.start < x.finish
        /\ x.finish <= lastFinish[a]
    BY <1>0, <1>8, QueuedItem
  <2>. QED  BY <1>2, <1>4, <1>7, <2>1
<1>9. (\A x \in queue : x.app # a) => n.start <= virtualTime + MaxCost(a)
  BY <1>0, <1>2, <1>4, <1>7 DEF Near
<1>10. \A x \in queue : Oldest(x, queue') <=> Oldest(x, queue)
  BY <1>3, <1>6, <1>4 DEF Oldest
<1>11. Oldest(n, queue') => \A x \in queue : x.app # a
  BY <1>2, <1>3, <1>6, <1>4 DEF Oldest
<1>12. Near'
  <2>1. ASSUME NEW x \in queue', Oldest(x, queue')
        PROVE  x.start <= virtualTime + MaxCost(x.app)
    <3>1. CASE x = n
      BY <2>1, <3>1, <1>2, <1>9, <1>11
    <3>2. CASE x \in queue
      BY <2>1, <3>2, <1>0, <1>10 DEF Near
    <3>. QED  BY <2>1, <1>3, <3>1, <3>2
  <2>2. ASSUME NEW c \in Apps, \A x \in queue' : x.app # c
        PROVE  lastFinish'[c] <= virtualTime + MaxCost(c)
    <3>1. c # a /\ \A x \in queue : x.app # c
      BY <2>2, <1>2, <1>3
    <3>. QED  BY <3>1, <1>0, <1>5 DEF Near
  <2>. QED  BY <2>1, <2>2, <1>3 DEF Near, MaxCost
<1>13. Chain'
  <2>1. ASSUME NEW x \in queue', NEW y \in queue', x.app = y.app, x.id < y.id
        PROVE  x.finish <= y.start
    <3>1. x \in queue
      BY <2>1, <1>3, <1>4, <1>6
    <3>2. CASE y = n
      BY <2>1, <3>1, <3>2, <1>2, <1>8
    <3>3. CASE y \in queue
      BY <2>1, <3>1, <3>3, <1>0 DEF Chain
    <3>. QED  BY <1>3, <3>2, <3>3
  <2>2. ASSUME NEW y \in queue', ~Oldest(y, queue')
        PROVE  \E x \in queue' : x.app = y.app /\ x.id < y.id /\ y.start = x.finish
    <3>1. CASE y = n
      <4>1. PICK z \in queue : z.app = a
        BY <2>2, <3>1, <1>2, <1>3, <1>4 DEF Oldest
      <4>2. PICK x \in queue : x.app = a /\ x.finish = lastFinish[a]
        BY <4>1, <1>0 DEF Chain
      <4>. QED  BY <3>1, <4>2, <1>2, <1>3, <1>6, <1>8
    <3>2. CASE y \in queue
      BY <2>2, <3>2, <1>0, <1>3, <1>10 DEF Chain
    <3>. QED  BY <1>3, <3>1, <3>2
  <2>3. ASSUME NEW x \in queue'
        PROVE  \E y \in queue' : y.app = x.app /\ y.finish = lastFinish'[x.app]
    <3>1. CASE x.app = a
      BY <3>1, <1>2, <1>3, <1>5
    <3>2. CASE x.app # a
      BY <3>2, <1>0, <1>2, <1>3, <1>5, <1>6 DEF Chain
    <3>. QED  BY <3>1, <3>2
  <2>. QED  BY <2>1, <2>2, <2>3 DEF Chain
<1>. QED  BY <1>12, <1>13

LEMMA DispatchFair ==
  ASSUME FairInv, NEW a \in Apps, NEW size \in Sizes, EnqueueDispatch(a, size)
  PROVE  Chain' /\ Near'
<1> DEFINE n == NewItem(a, size)
<1>0. Inv /\ Chain /\ Near
  BY DEF FairInv
<1>1. itemId < MaxItems
  BY DEF EnqueueDispatch, Arrive
<1>2. /\ n \in Item
      /\ virtualTime <= n.start
      /\ n.finish = n.start + TagCost(size, Weight[a])
  BY <1>0, <1>1, NewItemFacts DEF Inv
<1>3. /\ queue = {} /\ queue' = {}
      /\ virtualTime' = n.start
      /\ lastFinish' = [lastFinish EXCEPT ![a] = n.finish]
  BY <1>0, DispatchesNewItem DEF EnqueueDispatch, Arrive
<1> HIDE DEF n
<1>4. /\ n.start \in Nat /\ n.finish \in Nat /\ virtualTime \in Nat
      /\ lastFinish \in [Apps -> Nat]
  BY <1>0, <1>2 DEF Item, Inv, TypeOK
<1>5. ASSUME NEW c \in Apps
      PROVE  lastFinish'[c] <= virtualTime' + MaxCost(c)
  <2>1. TagCost(size, Weight[c]) \in Nat /\ MaxCost(c) \in Nat
        /\ TagCost(size, Weight[c]) <= MaxCost(c)
    BY TagCostBounded
  <2>2. CASE c = a
    BY <2>1, <2>2, <1>2, <1>3, <1>4
  <2>3. CASE c # a
    <3>1. lastFinish'[c] = lastFinish[c] /\ lastFinish[c] \in Nat
      BY <2>3, <1>3, <1>4
    <3>2. lastFinish[c] <= virtualTime + MaxCost(c)
      BY <1>0, <1>3 DEF Near
    <3>. QED  BY <2>1, <3>1, <3>2, <1>2, <1>3, <1>4
  <2>. QED  BY <2>2, <2>3
<1>. QED  BY <1>3, <1>5 DEF Chain, Near, MaxCost

LEMMA CompleteDispatchFair ==
  ASSUME FairInv, NEW r \in DOMAIN current, CompleteDispatch(r)
  PROVE  Chain' /\ Near'
<1>0. Inv /\ Chain /\ Near
  BY DEF FairInv
<1>1. PICK h \in queue :
        /\ IsHead(h, queue)
        /\ queue' = queue \ {h}
        /\ virtualTime' = h.start
  BY DEF CompleteDispatch, TakeHead
<1>2. lastFinish' = lastFinish
  BY DEF CompleteDispatch
<1>3. /\ h.id \in Nat /\ h.app \in Apps /\ h.start \in Nat /\ h.finish \in Nat
      /\ virtualTime \in Nat /\ virtualTime <= h.start /\ h.start < h.finish
      /\ h.finish <= h.start + MaxCost(h.app)
      /\ h.finish <= lastFinish[h.app]
      /\ MaxCost(h.app) \in Nat /\ lastFinish[h.app] \in Nat
  BY <1>0, QueuedItem
<1>4. ASSUME NEW x \in queue', x.app = h.app
      PROVE  /\ x \in queue /\ x # h /\ h.id < x.id
             /\ h.finish <= x.start /\ x.start < x.finish
             /\ x.start \in Nat /\ x.finish \in Nat /\ x.id \in Nat
  <2>1. x \in queue /\ x # h /\ x.id # h.id
    BY <1>0, <1>1 DEF Inv, Ids
  <2>2. /\ x.id \in Nat /\ x.start \in Nat /\ x.finish \in Nat
        /\ x.start < x.finish
    BY <2>1, <1>0, QueuedItem
  <2>3. h.start <= x.start
    BY <2>1, <2>2, <1>1, <1>3 DEF IsHead, Before
  <2>4. ~(x.id < h.id)
    <3> SUFFICES ASSUME x.id < h.id PROVE FALSE
      OBVIOUS
    <3>1. x.finish <= h.start
      BY <2>1, <1>0, <1>4 DEF Chain
    <3>. QED  BY <3>1, <2>2, <2>3, <1>3
  <2>5. h.id < x.id
    BY <2>1, <2>2, <2>4, <1>3
  <2>6. h.finish <= x.start
    BY <2>1, <2>5, <1>0, <1>4 DEF Chain
  <2>. QED  BY <2>1, <2>2, <2>5, <2>6
<1>5. Near'
  <2>1. ASSUME NEW x \in queue', Oldest(x, queue')
        PROVE  x.start <= virtualTime' + MaxCost(x.app)
    <3>1. /\ x \in queue /\ x.start \in Nat /\ x.app \in Apps
          /\ MaxCost(x.app) \in Nat
      BY <1>0, <1>1, QueuedItem
    <3>2. CASE Oldest(x, queue)
      <4>1. x.start <= virtualTime + MaxCost(x.app)
        BY <3>1, <3>2, <1>0 DEF Near
      <4>. QED  BY <4>1, <3>1, <1>1, <1>3
    <3>3. CASE ~Oldest(x, queue)
      <4>1. PICK p \in queue : /\ p.app = x.app /\ p.id < x.id
                               /\ x.start = p.finish
        BY <3>1, <3>3, <1>0 DEF Chain
      <4>2. p.id \in Nat /\ x.id \in Nat
        BY <3>1, <1>0, QueuedItem
      <4>3. p = h
        BY <2>1, <4>1, <4>2, <1>1 DEF Oldest
      <4>. QED  BY <4>1, <4>3, <1>1, <1>3
    <3>. QED  BY <3>2, <3>3
  <2>2. ASSUME NEW c \in Apps, \A x \in queue' : x.app # c
        PROVE  lastFinish'[c] <= virtualTime' + MaxCost(c)
    <3>1. CASE c = h.app
      <4>1. PICK y \in queue : y.app = h.app /\ y.finish = lastFinish[h.app]
        BY <1>0 DEF Chain
      <4>2. y = h
        BY <4>1, <2>2, <3>1, <1>1
      <4>. QED  BY <3>1, <4>1, <4>2, <1>1, <1>2, <1>3
    <3>2. CASE c # h.app
      <4>1. lastFinish[c] <= virtualTime + MaxCost(c)
        BY <2>2, <3>2, <1>0, <1>1 DEF Near
      <4>2. lastFinish[c] \in Nat /\ MaxCost(c) \in Nat
        BY <1>0, TagCostPositive, SFQDAssumption DEF MaxCost, Inv, TypeOK
      <4>. QED  BY <4>1, <4>2, <1>1, <1>2, <1>3
    <3>. QED  BY <3>1, <3>2
  <2>. QED  BY <2>1, <2>2 DEF Near, MaxCost
<1>6. Chain'
  <2>1. \A x, y \in queue' : x.app = y.app /\ x.id < y.id => x.finish <= y.start
    BY <1>0, <1>1 DEF Chain
  <2>2. ASSUME NEW y \in queue', ~Oldest(y, queue')
        PROVE  \E x \in queue' : x.app = y.app /\ x.id < y.id /\ y.start = x.finish
    <3>1. y \in queue /\ ~Oldest(y, queue)
      BY <2>2, <1>1 DEF Oldest
    <3>2. PICK p \in queue : /\ p.app = y.app /\ p.id < y.id
                             /\ y.start = p.finish
      BY <3>1, <1>0 DEF Chain
    <3>3. p # h
      <4> SUFFICES ASSUME p = h PROVE FALSE
        OBVIOUS
      <4>1. PICK z \in queue' : z.app = y.app /\ ~(y.id <= z.id)
        BY <2>2 DEF Oldest
      <4>2. z \in queue /\ z.id \in Nat /\ y.id \in Nat
        BY <4>1, <3>1, <1>0, <1>1, QueuedItem
      <4>3. z.finish <= y.start
        BY <4>1, <4>2, <3>1, <1>0 DEF Chain
      <4>4. /\ h.finish <= z.start /\ z.start < z.finish
            /\ z.start \in Nat /\ z.finish \in Nat
        BY <4>1, <3>2, <1>4
      <4>. QED  BY <4>3, <4>4, <3>2, <1>3
    <3>. QED  BY <3>2, <3>3, <1>1
  <2>3. ASSUME NEW x \in queue'
        PROVE  \E y \in queue' : y.app = x.app /\ y.finish = lastFinish'[x.app]
    <3>1. x \in queue
      BY <1>1
    <3>2. PICK y \in queue : y.app = x.app /\ y.finish = lastFinish[x.app]
      BY <3>1, <1>0 DEF Chain
    <3>3. y # h
      <4> SUFFICES ASSUME y = h PROVE FALSE
        OBVIOUS
      <4>1. /\ h.finish <= x.start /\ x.start < x.finish
            /\ x.start \in Nat /\ x.finish \in Nat
        BY <3>2, <1>4
      <4>2. x.finish <= lastFinish[x.app]
        BY <3>1, <1>0, QueuedItem
      <4>. QED  BY <4>1, <4>2, <3>2, <1>3
    <3>. QED  BY <3>2, <3>3, <1>1, <1>2
  <2>. QED  BY <2>1, <2>2, <2>3 DEF Chain
<1>. QED  BY <1>5, <1>6

LEMMA StepFair == FairInv /\ [Next]_vars => FairInv'
<1> SUFFICES ASSUME FairInv, [Next]_vars PROVE Chain' /\ Near'
  BY StepInv DEF FairInv
<1>1. ASSUME NEW a \in Apps, NEW size \in Sizes, EnqueueDispatch(a, size)
      PROVE  Chain' /\ Near'
  BY <1>1, DispatchFair
<1>2. ASSUME NEW a \in Apps, NEW size \in Sizes, EnqueueHold(a, size)
      PROVE  Chain' /\ Near'
  BY <1>2, HoldFair
<1>3. ASSUME NEW r \in DOMAIN current, CompleteDispatch(r)
      PROVE  Chain' /\ Near'
  BY <1>3, CompleteDispatchFair
<1>4. ASSUME NEW r \in DOMAIN current, CompleteIdle(r)
      PROVE  Chain' /\ Near'
  BY <1>4 DEF CompleteIdle, FairInv, Chain, Near, Oldest, MaxCost
<1>5. CASE UNCHANGED vars
  BY <1>5 DEF vars, FairInv, Chain, Near, Oldest, MaxCost
<1>. QED  BY <1>1, <1>2, <1>3, <1>4, <1>5 DEF Next, Enqueue, Complete

(* Every backlogged application stays within one of its own requests of    *)
(* the virtual time.                                                       *)
THEOREM BackloggedTogether == Spec => []HeadsNearVirtualTime
<1>1. FairInv => HeadsNearVirtualTime
  BY DEF FairInv, Inv, Tags, Near, Oldest, HeadsNearVirtualTime
<1>. QED  BY <1>1, InitFair, StepFair, PTL DEF Spec

-----------------------------------------------------------------------------
(* SFQD implements the Dispatcher *)

(* The mapping of KeepsPromise. *)
Ticket(x) == [id |-> x.id, app |-> x.app]
Waiting == {[id |-> x.id, app |-> x.app] : x \in queue}
Serving == {[id |-> r, app |-> current[r].app] : r \in DOMAIN current}


(* The instance of Dispatcher counts as FiniteSets does. *)
LEMMA SameCardinality ==
  ASSUME NEW S PROVE Plugin!Cardinality(S) = Cardinality(S)
  BY DEF Plugin!Cardinality, Cardinality, Plugin!IsFiniteSet, IsFiniteSet

(* The mapping takes the released requests one to one to tickets. *)
LEMMA ServingCount ==
  ASSUME Inv
  PROVE  Cardinality(Serving) = depth
<1> DEFINE f == [r \in DOMAIN current |-> [id |-> r, app |-> current[r].app]]
<1>1. f \in [DOMAIN current -> Serving]
  BY DEF Serving
<1>2. \A r, s \in DOMAIN current : f[r] = f[s] => r = s
  OBVIOUS
<1>3. \A t \in Serving : \E r \in DOMAIN current : f[r] = t
  BY DEF Serving
<1> HIDE DEF f
<1>4. f \in Bijection(DOMAIN current, Serving)
  BY <1>1, <1>2, <1>3 DEF Bijection, Injection, Surjection, IsInjective
<1>5. ExistsBijection(DOMAIN current, Serving)
  BY <1>4 DEF ExistsBijection
<1>6. IsFiniteSet(DOMAIN current)
  BY CurrentFinite DEF Inv
<1>7. Cardinality(Serving) = Cardinality(DOMAIN current)
  BY <1>5, <1>6, FS_Bijection
<1>. QED  BY <1>7 DEF Inv, SlotsExact

(* The head of the list is the oldest waiting item of its application. *)
LEMMA HeadIsOldest ==
  ASSUME FairInv, NEW h, IsHead(h, queue)
  PROVE  Oldest(h, queue)
<1> SUFFICES ASSUME NEW y \in queue, y.app = h.app, ~(h.id <= y.id)
    PROVE FALSE
  BY DEF Oldest
<1>1. h \in queue /\ Inv /\ Chain
  BY DEF IsHead, FairInv
<1>2. /\ h.id \in Nat /\ h.start \in Nat /\ y.id \in Nat
      /\ y.start \in Nat /\ y.finish \in Nat /\ y.start < y.finish
  BY <1>1, QueuedItem
<1>3. y.finish <= h.start
  BY <1>1, <1>2 DEF Chain
<1>4. h.start <= y.start
  BY <1>2 DEF IsHead, Before
<1>. QED  BY <1>2, <1>3, <1>4

LEMMA InitPromise == Init => Plugin!Init
  BY DEF Init, Plugin!Init

LEMMA StepPromise == FairInv /\ [Next]_vars => [Plugin!Next]_(Plugin!vars)
<1> SUFFICES ASSUME FairInv, [Next]_vars PROVE [Plugin!Next]_(Plugin!vars)
  OBVIOUS
<1>0. Inv
  BY DEF FairInv
<1>1. ASSUME NEW a \in Apps, NEW size \in Sizes, EnqueueDispatch(a, size)
      PROVE  Plugin!Release(a)
  <2> DEFINE n == NewItem(a, size)
  <2>1. itemId < MaxItems /\ depth < Depth /\ itemId' = itemId + 1
    BY <1>1 DEF EnqueueDispatch, Arrive
  <2>2. n.app = a
    BY DEF NewItem
  <2>3. queue = {} /\ queue' = {} /\ current' = Bind(current, itemId, n)
    BY <1>0, <1>1, DispatchesNewItem
  <2> HIDE DEF n
  <2>4. itemId \notin DOMAIN current
    BY <1>0, SFQDAssumption DEF Inv, TypeOK
  <2>5. Serving' = Serving \cup {[id |-> itemId, app |-> a]}
    BY <2>2, <2>3, <2>4 DEF Serving, Bind
  <2>6. Cardinality(Serving) < Depth
    BY <1>0, <2>1, ServingCount
  <2>7. Waiting' = Waiting
    BY <2>3 DEF Waiting
  <2>. QED
    BY <2>1, <2>5, <2>6, <2>7, SameCardinality DEF Plugin!Release, Serving, Waiting
<1>2. ASSUME NEW a \in Apps, NEW size \in Sizes, EnqueueHold(a, size)
      PROVE  Plugin!Hold(a)
  <2> DEFINE n == NewItem(a, size)
  <2>1. /\ depth >= Depth /\ itemId' = itemId + 1
        /\ queue' = queue \cup {n} /\ current' = current
    BY <1>2 DEF EnqueueHold, Arrive
  <2>2. n.id = itemId /\ n.app = a
    BY DEF NewItem
  <2> HIDE DEF n
  <2>3. Waiting' = Waiting \cup {[id |-> itemId, app |-> a]}
    BY <2>1, <2>2 DEF Waiting
  <2>4. Cardinality(Serving) = Depth
    BY <1>0, <2>1, ServingCount, SFQDAssumption DEF Inv, TypeOK
  <2>5. Serving' = Serving
    BY <2>1 DEF Serving
  <2>. QED
    BY <2>1, <2>3, <2>4, <2>5, SameCardinality DEF Plugin!Hold, Serving, Waiting
<1>3. ASSUME NEW r \in DOMAIN current, CompleteDispatch(r)
      PROVE  \E t \in Serving : Plugin!HandOver(t)
  <2> DEFINE t == [id |-> r, app |-> current[r].app]
  <2>1. PICK h \in queue :
          /\ IsHead(h, queue)
          /\ queue' = queue \ {h}
          /\ current' = Bind(Unbind(current, r), h.id, h)
          /\ itemId' = itemId
    BY <1>3 DEF CompleteDispatch, TakeHead
  <2>2. t \in Serving /\ Ticket(h) \in Waiting
    BY <2>1 DEF Serving, Waiting, Ticket
  <2>3. Plugin!OldestOfApp(Ticket(h))
    BY <2>1, HeadIsOldest DEF Plugin!OldestOfApp, Ticket, Oldest
  <2>4. Waiting' = Waiting \ {Ticket(h)}
    BY <1>0, <2>1 DEF Waiting, Ticket, Inv, Ids
  <2>5. h.id \notin DOMAIN current
    BY <1>0, <2>1 DEF Inv, OwnItem
  <2>6. Serving' = (Serving \ {t}) \cup {Ticket(h)}
    <3>1. /\ DOMAIN current' = (DOMAIN current \ {r}) \cup {h.id}
          /\ current'[h.id] = h
          /\ \A s \in DOMAIN current \ {r} : current'[s] = current[s]
      BY <2>1, <2>5 DEF Bind, Unbind
    <3>2. \A s : s \in DOMAIN current' <=>
                   s = h.id \/ (s \in DOMAIN current /\ s # r)
      BY <3>1
    <3>3. Serving' = {[id |-> s, app |-> current[s].app] : s \in DOMAIN current \ {r}}
                       \cup {Ticket(h)}
      BY <3>1, <2>5 DEF Serving, Ticket
    <3>4. Serving \ {t} = {[id |-> s, app |-> current[s].app] :
                             s \in DOMAIN current \ {r}}
      BY DEF Serving
    <3>. QED  BY <3>3, <3>4
  <2>. QED
    BY <2>1, <2>2, <2>3, <2>4, <2>6 DEF Plugin!HandOver, Serving, Waiting
<1>4. ASSUME NEW r \in DOMAIN current, CompleteIdle(r)
      PROVE  \E t \in Serving : Plugin!Free(t)
  <2> DEFINE t == [id |-> r, app |-> current[r].app]
  <2>1. /\ queue = {} /\ queue' = {} /\ itemId' = itemId
        /\ current' = Unbind(current, r)
    BY <1>4 DEF CompleteIdle
  <2>2. t \in Serving /\ Serving' = Serving \ {t}
    BY <2>1 DEF Serving, Unbind
  <2>. QED
    BY <2>1, <2>2 DEF Plugin!Free, Serving
<1>5. CASE UNCHANGED vars
  BY <1>5 DEF vars, Plugin!vars
<1>. QED
  BY <1>1, <1>2, <1>3, <1>4, <1>5
  DEF Next, Enqueue, Complete, Plugin!Next, Serving

(* SFQD keeps the promise of a work-conserving plug-in: never more than    *)
(* Depth requests at the server, none waiting while a slot is free, each   *)
(* application served in order of arrival.                                 *)
THEOREM Refinement == Spec => KeepsPromise
<1>1. Init /\ FairInv => Plugin!Init
  BY InitPromise
<1>2. FairInv /\ [Next]_vars => [Plugin!Next]_(Plugin!vars)
  BY StepPromise
<1>. QED
  BY <1>1, <1>2, InitFair, StepFair, InitPromise, PTL
  DEF Spec, KeepsPromise, Plugin!Spec

-----------------------------------------------------------------------------
(* Sums over finite sets of items *)

(* A set of naturals that is not empty has a least element. *)
LEMMA LeastNatural ==
  ASSUME NEW S \in SUBSET Nat, S # {}
  PROVE  \E m \in S : \A n \in S : m <= n
<1> DEFINE Less == {p \in Nat \X Nat : p[1] < p[2]}
<1>1. IsWellFoundedOn(Less, Nat)
  BY NatLessThanWellFounded DEF OpToRel
<1>2. PICK m \in S : \A n \in S : <<n, m>> \notin Less
  <2> HIDE DEF Less
  <2>. QED  BY <1>1, WFMin
<1>3. \A n \in S : n \in Nat
  OBVIOUS
<1>4. \A n \in S : ~(n < m)
  BY <1>2, <1>3
<1>. QED  BY <1>3, <1>4

(* Induction on a set instead of a predicate, which the provers can        *)
(* instantiate.                                                            *)
LEMMA SetInduction ==
  ASSUME NEW S, 0 \in S, \A n \in Nat : n \in S => n + 1 \in S
  PROVE  Nat \subseteq S
<1> SUFFICES ASSUME Nat \ S # {}
             PROVE  FALSE
  OBVIOUS
<1>1. PICK m \in Nat \ S : \A n \in Nat \ S : m <= n
  BY LeastNatural
<1>2. m - 1 \in Nat /\ m - 1 \in S
  BY <1>1
<1>. QED  BY <1>1, <1>2

Cost(x) == TagCost(x.size, Weight[x.app])
Any(s) == CHOOSE x \in s : TRUE

(* g adds up the costs of the items of every subset of S, one after the    *)
(* other, as the fold does.                                                *)
IsSum(g, S) ==
  g = [s \in SUBSET S |-> IF s = {} THEN 0 ELSE Cost(Any(s)) + g[s \ {Any(s)}]]

TotalCost(S) == MapThenSumSet(LAMBDA x : TagCost(x.size, Weight[x.app]), S)

(* The fold of the community modules applies such a function. *)
LEMMA TotalCostIs ==
  ASSUME NEW S PROVE TotalCost(S) = (CHOOSE g : IsSum(g, S))[S]
BY DEF TotalCost, MapThenSumSet, MapThenFoldSet, IsSum, Cost, Any

(* The choice of an element is one. *)
LEMMA AnyIn == ASSUME NEW s, s # {} PROVE Any(s) \in s
BY DEF Any

(* The smaller subsets first: the function exists. *)
LEMMA SumExists ==
  ASSUME NEW S, IsFiniteSet(S)
  PROVE  \E g : IsSum(g, S)
<1> DEFINE Small(n) == {s \in SUBSET S : Cardinality(s) <= n}
           Good(g, n) == g = [s \in Small(n) |->
                                IF s = {} THEN 0 ELSE Cost(Any(s)) + g[s \ {Any(s)}]]
           N == {n \in Nat : \E g : Good(g, n)}
<1>1. \A s \in SUBSET S : /\ IsFiniteSet(s) /\ Cardinality(s) \in Nat
                          /\ Cardinality(s) <= Cardinality(S)
  BY FS_Subset, FS_CardinalityType
<1>2. \A s \in SUBSET S : s # {} => /\ s \ {Any(s)} \in SUBSET S
                                    /\ Cardinality(s \ {Any(s)}) = Cardinality(s) - 1
  BY <1>1, AnyIn, FS_RemoveElement
<1>3. 0 \in N
  <2>1. \A s \in Small(0) : s = {}
    BY <1>1, FS_EmptySet
  <2>2. Good([s \in Small(0) |-> 0], 0)
    <3> HIDE DEF Small
    <3>. QED  BY <2>1
  <2>. QED  BY <2>2
<1>4. ASSUME NEW n \in Nat, n \in N PROVE n + 1 \in N
  <2>1. PICK g : Good(g, n)
    BY <1>4
  <2> DEFINE h == [s \in Small(n + 1) |->
                     IF s = {} THEN 0 ELSE Cost(Any(s)) + g[s \ {Any(s)}]]
  <2>2. \A s \in Small(n + 1) : s # {} => s \ {Any(s)} \in Small(n)
    BY <1>1, <1>2
  <2>3. \A s \in Small(n) : s \in Small(n + 1)
    BY <1>1
  <2> HIDE DEF Small
  <2>4. \A s \in Small(n) : h[s] = g[s]
    BY <2>1, <2>3
  <2>5. \A s \in Small(n + 1) :
          h[s] = IF s = {} THEN 0 ELSE Cost(Any(s)) + h[s \ {Any(s)}]
    BY <2>2, <2>4
  <2>6. h = [s \in Small(n + 1) |-> h[s]]
    OBVIOUS
  <2> HIDE DEF h
  <2>7. Good(h, n + 1)
    BY <2>5, <2>6
  <2>. QED  BY <2>7
<1> HIDE DEF N
<1>5. Cardinality(S) \in N
  BY <1>1, <1>3, <1>4, SetInduction
<1>6. Small(Cardinality(S)) = SUBSET S
  BY <1>1
<1> HIDE DEF Small
<1>. QED  BY <1>5, <1>6 DEF N, IsSum

(* The subsets of a smaller set have the same sums. *)
LEMMA SumUnique ==
  ASSUME NEW S, IsFiniteSet(S), NEW T \in SUBSET S,
         NEW g, IsSum(g, S), NEW h, IsSum(h, T)
  PROVE  \A s \in SUBSET T : g[s] = h[s]
<1> DEFINE N == {n \in Nat : \A s \in SUBSET T : Cardinality(s) = n => g[s] = h[s]}
<1>1. \A s \in SUBSET T : IsFiniteSet(s) /\ Cardinality(s) \in Nat
  BY FS_Subset, FS_CardinalityType
<1>2. \A s \in SUBSET T : s # {} => /\ s \ {Any(s)} \in SUBSET T
                                    /\ Cardinality(s \ {Any(s)}) = Cardinality(s) - 1
  BY <1>1, AnyIn, FS_RemoveElement
<1>3. \A s \in SUBSET T :
        /\ g[s] = IF s = {} THEN 0 ELSE Cost(Any(s)) + g[s \ {Any(s)}]
        /\ h[s] = IF s = {} THEN 0 ELSE Cost(Any(s)) + h[s \ {Any(s)}]
  BY DEF IsSum
<1>4. 0 \in N
  <2>1. \A s \in SUBSET T : Cardinality(s) = 0 => s = {}
    BY <1>1, FS_EmptySet
  <2>. QED  BY <1>3, <2>1
<1>5. ASSUME NEW n \in Nat, n \in N PROVE n + 1 \in N
  <2>1. ASSUME NEW s \in SUBSET T, Cardinality(s) = n + 1 PROVE g[s] = h[s]
    <3>1. s # {}
      BY <2>1, FS_EmptySet
    <3>2. g[s \ {Any(s)}] = h[s \ {Any(s)}]
      BY <1>2, <1>5, <2>1, <3>1
    <3>. QED  BY <1>3, <3>1, <3>2
  <2>. QED  BY <2>1
<1>6. Nat \subseteq N
  <2> HIDE DEF N
  <2>. QED  BY <1>4, <1>5, SetInduction
<1>. QED  BY <1>1, <1>6

(* One element more or less, whichever it is. *)
LEMMA SumWithout ==
  ASSUME NEW S, IsFiniteSet(S), \A x \in S : Cost(x) \in Nat, NEW g, IsSum(g, S)
  PROVE  /\ \A s \in SUBSET S : g[s] \in Nat
         /\ \A s \in SUBSET S : \A x \in s : g[s] = Cost(x) + g[s \ {x}]
<1> DEFINE N == {n \in Nat : \A s \in SUBSET S : Cardinality(s) <= n =>
                   /\ g[s] \in Nat
                   /\ \A x \in s : g[s] = Cost(x) + g[s \ {x}]}
<1>1. \A s \in SUBSET S : IsFiniteSet(s) /\ Cardinality(s) \in Nat
  BY FS_Subset, FS_CardinalityType
<1>2. \A s \in SUBSET S : \A x \in s : /\ s \ {x} \in SUBSET S
                                       /\ Cardinality(s \ {x}) = Cardinality(s) - 1
  BY <1>1, FS_RemoveElement
<1>3. \A s \in SUBSET S :
        g[s] = IF s = {} THEN 0 ELSE Cost(Any(s)) + g[s \ {Any(s)}]
  BY DEF IsSum
<1>4. 0 \in N
  <2>1. \A s \in SUBSET S : Cardinality(s) <= 0 => s = {}
    BY <1>1, FS_EmptySet
  <2>2. g[{}] = 0
    BY <1>3
  <2>. QED  BY <2>1, <2>2
<1>5. ASSUME NEW n \in Nat, n \in N PROVE n + 1 \in N
  <2>1. ASSUME NEW s \in SUBSET S, Cardinality(s) <= n + 1, s # {}
        PROVE  /\ g[s] \in Nat
               /\ \A x \in s : g[s] = Cost(x) + g[s \ {x}]
    <3> DEFINE c == Any(s)
    <3>1. c \in s
      BY <2>1, AnyIn
    <3>2. g[s] = Cost(c) + g[s \ {c}]
      BY <1>3, <2>1
    <3> HIDE DEF c
    <3>3. Cost(c) \in Nat
      BY <3>1
    <3>4. /\ s \ {c} \in SUBSET S /\ Cardinality(s \ {c}) <= n
      BY <1>1, <1>2, <2>1, <3>1
    <3>5. /\ g[s \ {c}] \in Nat
          /\ \A x \in s \ {c} : g[s \ {c}] = Cost(x) + g[(s \ {c}) \ {x}]
      BY <1>5, <3>4
    <3>6. ASSUME NEW x \in s, x # c PROVE g[s] = Cost(x) + g[s \ {x}]
      <4>1. s \ {x} \in SUBSET S /\ Cardinality(s \ {x}) <= n
        BY <1>1, <1>2, <2>1
      <4>2. /\ g[s \ {x}] \in Nat
            /\ g[s \ {x}] = Cost(c) + g[(s \ {x}) \ {c}]
        BY <1>5, <4>1, <3>1, <3>6
      <4>3. (s \ {x}) \ {c} = (s \ {c}) \ {x}
        OBVIOUS
      <4>4. g[s \ {c}] = Cost(x) + g[(s \ {c}) \ {x}]
        BY <3>5, <3>6
      <4>5. (s \ {c}) \ {x} \in SUBSET S /\ Cardinality((s \ {c}) \ {x}) <= n
        BY <1>1, <1>2, <3>4, <3>6
      <4>6. Cost(x) \in Nat
        OBVIOUS
      <4>7. g[(s \ {c}) \ {x}] \in Int
        BY <4>5, <1>5
      <4>. QED  BY <3>2, <3>3, <4>2, <4>3, <4>4, <4>6, <4>7
    <3>7. g[s] \in Nat
      BY <3>2, <3>3, <3>5
    <3>. QED  BY <3>2, <3>6, <3>7
  <2>2. \A s \in SUBSET S : s = {} => g[s] = 0
    BY <1>3
  <2>. QED  BY <2>1, <2>2
<1>6. Nat \subseteq N
  <2> HIDE DEF N
  <2>. QED  BY <1>4, <1>5, SetInduction
<1>. QED  BY <1>1, <1>6

(* The cost of a finite set is that of one element, whichever it is, and  *)
(* that of the others.                                                     *)
LEMMA TotalCostWithout ==
  ASSUME NEW S, IsFiniteSet(S), \A x \in S : Cost(x) \in Nat
  PROVE  /\ TotalCost(S) \in Nat
         /\ TotalCost({}) = 0
         /\ \A x \in S : TotalCost(S) = Cost(x) + TotalCost(S \ {x})
<1>1. ASSUME NEW T, IsFiniteSet(T)
      PROVE  IsSum(CHOOSE g : IsSum(g, T), T)
  BY <1>1, SumExists
<1> DEFINE g == CHOOSE f : IsSum(f, S)
<1>2. IsSum(g, S)
  BY <1>1
<1>3. TotalCost(S) = g[S]
  BY TotalCostIs
<1>4. ASSUME NEW T \in SUBSET S PROVE TotalCost(T) = g[T]
  <2> DEFINE h == CHOOSE f : IsSum(f, T)
  <2>1. IsSum(h, T)
    BY <1>1, FS_Subset
  <2>2. TotalCost(T) = h[T]
    BY TotalCostIs
  <2> HIDE DEF g, h
  <2>3. \A s \in SUBSET T : g[s] = h[s]
    BY <1>2, <2>1, SumUnique
  <2>. QED  BY <2>2, <2>3
<1> HIDE DEF g
<1>5. /\ \A s \in SUBSET S : g[s] \in Nat
      /\ \A s \in SUBSET S : \A x \in s : g[s] = Cost(x) + g[s \ {x}]
  BY <1>2, SumWithout
<1>6. g[{}] = 0
  BY <1>2 DEF IsSum
<1>. QED  BY <1>3, <1>4, <1>5, <1>6

TotalSize(S) == MapThenSumSet(LAMBDA x : x.size, S)

(* A step takes nothing out of the list or one item: the bytes released    *)
(* are none or its own.                                                    *)
LEMMA TotalSizeOne ==
  /\ TotalSize({}) = 0
  /\ \A h : h.size \in Nat => TotalSize({h}) = h.size
<1> DEFINE Body(g, S) == [s \in SUBSET S |-> IF s = {} THEN 0 ELSE Any(s).size + g[s \ {Any(s)}]]
           Sum(S) == CHOOSE g : g = Body(g, S)
<1>1. \A S : TotalSize(S) = Sum(S)[S]
  BY DEF TotalSize, MapThenSumSet, MapThenFoldSet, Any
<1>2. Sum({})[{}] = 0
  <2>1. [s \in SUBSET {} |-> 0] = Body([s \in SUBSET {} |-> 0], {})
    OBVIOUS
  <2>2. Sum({}) = Body(Sum({}), {})
    <3> HIDE DEF Body
    <3>. QED  BY <2>1
  <2> HIDE DEF Sum
  <2>. QED  BY <2>2
<1>3. ASSUME NEW h, h.size \in Nat PROVE Sum({h})[{h}] = h.size
  <2> DEFINE f == [s \in SUBSET {h} |-> IF s = {} THEN 0 ELSE h.size]
  <2>1. Any({h}) = h /\ {h} \ {h} = {}
    BY AnyIn
  <2>2. \A s \in SUBSET {h} : s = {} \/ s = {h}
    OBVIOUS
  <2>3. f[{}] = 0
    OBVIOUS
  <2>4. \A s \in SUBSET {h} : f[s] = IF s = {} THEN 0 ELSE Any(s).size + f[s \ {Any(s)}]
    <3> SUFFICES ASSUME NEW s \in SUBSET {h}
                 PROVE  f[s] = IF s = {} THEN 0 ELSE Any(s).size + f[s \ {Any(s)}]
      OBVIOUS
    <3>1. CASE s = {}
      BY <3>1
    <3>2. CASE s = {h}
      <4>1. f[s] = h.size /\ s # {}
        BY <3>2
      <4> HIDE DEF f
      <4>. QED  BY <3>2, <4>1, <2>1, <2>3, <1>3
    <3>. QED  BY <2>2, <3>1, <3>2
  <2>5. f = [s \in SUBSET {h} |-> f[s]]
    OBVIOUS
  <2> HIDE DEF f
  <2>6. f = Body(f, {h})
    BY <2>4, <2>5
  <2>7. Sum({h}) = Body(Sum({h}), {h})
    <3> HIDE DEF Body
    <3>. QED  BY <2>6
  <2>8. \A s \in SUBSET {h} : Sum({h})[s] = IF s = {} THEN 0 ELSE Any(s).size + Sum({h})[s \ {Any(s)}]
    <3> HIDE DEF Sum
    <3>. QED  BY <2>7
  <2> HIDE DEF Sum
  <2>9. Sum({h})[{}] = 0
    BY <2>8
  <2>10. Sum({h})[{h}] = h.size + 0
    BY <2>1, <2>8, <2>9
  <2>. QED  BY <2>10, <1>3
<1> HIDE DEF Sum
<1>. QED  BY <1>1, <1>2, <1>3

(* The integer divisions of get_finish_tag lose less than half. *)
LEMMA SizeBounded ==
  ASSUME NEW size \in Sizes, NEW c \in Apps
  PROVE  size <= BytesFor(c, TagCost(size, Weight[c]))
<1> DEFINE w == Weight[c]
           R == REDUCER
<1>1. w \in Nat \ {0} /\ R \in Nat \ {0} /\ size \in Nat
  BY SFQDAssumption
<1> HIDE DEF w, R
<1>2. w * R \in Nat
  BY <1>1
<1>3. CASE w * R > size
  <2>1. TagCost(size, w) = 1
    BY <1>3 DEF TagCost, R
  <2>2. BytesFor(c, 1) = 2 * (w * R)
    BY <1>1, <1>2 DEF BytesFor, w, R
  <2>. QED  BY <2>1, <2>2, <1>1, <1>2, <1>3 DEF w
<1>4. CASE ~(w * R > size)
  <2> DEFINE q == size \div w
             k == q \div R
  <2>1. q \in Nat /\ size < w * (q + 1)
    BY <1>1
  <2> HIDE DEF q
  <2>2. k \in Nat /\ q < R * (k + 1)
    BY <1>1, <2>1
  <2>3. TagCost(size, w) = k
    BY <1>4 DEF TagCost, q, R
  <2> HIDE DEF k
  <2>4. k >= 1
    BY <2>3, <1>1, TagCostPositive
  <2>5. R * (k + 1) \in Nat /\ q + 1 <= R * (k + 1)
    BY <1>1, <2>1, <2>2
  <2>6. w * (q + 1) <= w * (R * (k + 1))
    BY <1>1, <2>1, <2>5
  <2>7. R * (k + 1) <= R * (2 * k)
    BY <1>1, <2>2, <2>4
  <2>8. w * (R * (k + 1)) <= w * (R * (2 * k))
    BY <1>1, <2>2, <2>5, <2>7
  <2>9. w * (R * (2 * k)) = 2 * w * R * k
    BY <1>1, <2>2
  <2>10. size <= 2 * w * R * k
    <3>1. w * (q + 1) \in Nat /\ w * (R * (k + 1)) \in Nat /\ 2 * w * R * k \in Nat
      BY <1>1, <2>1, <2>2, <2>5
    <3>. QED  BY <3>1, <1>1, <2>1, <2>6, <2>8, <2>9
  <2>. QED  BY <2>3, <2>10 DEF BytesFor, w, R
<1>. QED  BY <1>3, <1>4

(* The bytes paid for by a stretch of virtual time add up with it.         *)
LEMMA BytesForSum ==
  ASSUME NEW c \in Apps, NEW d \in Nat, NEW e \in Nat
  PROVE  /\ BytesFor(c, d) \in Nat
         /\ BytesFor(c, d + e) = BytesFor(c, d) + BytesFor(c, e)
         /\ d <= e => BytesFor(c, d) <= BytesFor(c, e)
<1> DEFINE k == 2 * Weight[c] * REDUCER
<1>1. k \in Nat
  BY SFQDAssumption
<1> HIDE DEF k
<1>2. k * d \in Nat /\ k * e \in Nat /\ k * (d + e) = k * d + k * e
  BY <1>1
<1>3. d <= e => k * d <= k * e
  BY <1>1
<1>. QED  BY <1>2, <1>3 DEF BytesFor, k

-----------------------------------------------------------------------------
(* The service an application gets *)

(* The queued items of an application, and what they cost, are what lies   *)
(* between the start of its oldest item and its last finish tag.           *)
Mine(a) == {x \in queue : x.app = a}

Spans ==
  \A o \in queue : Oldest(o, queue) =>
    lastFinish[o.app] = o.start + Backlog(o.app)

(* While x waits, the tags of application c went from b, the virtual time  *)
(* when x came, to p: what has been released of c since is paid for with   *)
(* p - b, p is no later than what c may get next, and, since the head of   *)
(* the list starts first, at most one request of c after the start of x.   *)
Between(x, c, b, p) ==
  /\ b <= p
  /\ wait[x.id].bytes[c] <= BytesFor(c, p - b)
  /\ x.start <= b + wait[x.id].ahead + MaxCost(x.app)
  /\ \A y \in queue : y.app = c => p <= y.start
  /\ p <= Later(virtualTime, lastFinish[c])
  /\ p <= x.start + MaxCost(c)

Waits ==
  /\ DOMAIN wait = {x.id : x \in queue}
  /\ \A i \in DOMAIN wait : wait[i] \in [ahead : Nat, bytes : [Apps -> Nat]]
  /\ \A x \in queue : \A c \in Apps \ {x.app} : \E b, p \in Nat : Between(x, c, b, p)

ServiceInv == FairInv /\ IsFiniteSet(queue) /\ Spans /\ Waits

(* The queued items of an application can be added up. *)
LEMMA MineFinite ==
  ASSUME ServiceInv, NEW a
  PROVE  /\ IsFiniteSet(Mine(a))
         /\ \A x \in Mine(a) : Cost(x) \in Nat
<1>1. \A x \in queue : x \in Item
  BY DEF ServiceInv, FairInv, Inv, TypeOK
<1>2. \A x \in queue : Cost(x) \in Nat
  BY <1>1, TagCostBounded DEF Item, Cost
<1>3. Mine(a) \in SUBSET queue
  BY DEF Mine
<1>. QED  BY <1>2, <1>3, FS_Subset DEF ServiceInv

(* The backlog is the cost of those items, before and after a step. *)
LEMMA BacklogIs ==
  ASSUME NEW a
  PROVE  /\ Backlog(a) = TotalCost(Mine(a))
         /\ Backlog(a)' = TotalCost(Mine(a)')
<1>1. Backlog(a) = TotalCost(Mine(a))
  BY DEF Backlog, TotalCost, Mine
<1>2. Backlog(a)' = TotalCost(Mine(a)')
  BY DEF Backlog, TotalCost, Mine, MapThenSumSet, MapThenFoldSet
<1>. QED  BY <1>1, <1>2

(* What a step takes is a sum of sizes. *)
LEMMA TakenIs ==
  ASSUME NEW c
  PROVE  Taken(c) = TotalSize({x \in queue \ queue' : x.app = c})
BY DEF Taken, TotalSize

(* Nothing waits at first. *)
LEMMA InitService == ServiceInit => ServiceInv
<1> SUFFICES ASSUME ServiceInit PROVE ServiceInv
  OBVIOUS
<1>1. queue = {} /\ wait = << >> /\ FairInv
  BY InitFair DEF ServiceInit, Init
<1>2. DOMAIN wait = {}
  BY <1>1
<1>. QED  BY <1>1, <1>2, FS_EmptySet DEF ServiceInv, Spans, Waits

(* A step after which nothing is queued observes nothing. *)
LEMMA EmptyService ==
  ASSUME queue' = {}, Observe, FairInv'
  PROVE  ServiceInv'
<1>1. DOMAIN wait' = {} /\ {x.id : x \in queue'} = {}
  BY DEF Observe
<1>. QED  BY <1>1, FS_EmptySet DEF ServiceInv, Spans, Waits

(* A held request prolongs its application's backlog by its own cost, and  *)
(* starts no later than that backlog and one request after now.            *)
LEMMA HoldSpans ==
  ASSUME ServiceInv, NEW a \in Apps, NEW size \in Sizes, EnqueueHold(a, size),
         FairInv'
  PROVE  /\ IsFiniteSet(queue') /\ Spans'
         /\ Backlog(a) \in Nat
         /\ NewItem(a, size).start <= virtualTime + Backlog(a) + MaxCost(a)
<1> DEFINE n == NewItem(a, size)
<1>0. Inv /\ Chain /\ Near /\ FairInv /\ IsFiniteSet(queue) /\ Spans
  BY DEF FairInv, ServiceInv
<1>1. itemId < MaxItems
  BY DEF EnqueueHold, Arrive
<1>2. /\ n \in Item
      /\ n.id = itemId /\ n.app = a /\ n.size = size
      /\ virtualTime <= n.start /\ lastFinish[a] <= n.start
      /\ n.start = virtualTime \/ n.start = lastFinish[a]
      /\ n.finish = n.start + TagCost(size, Weight[a])
      /\ n.start < n.finish
  BY <1>0, <1>1, NewItemFacts DEF Inv
<1>3. /\ queue' = queue \cup {n}
      /\ lastFinish' = [lastFinish EXCEPT ![a] = n.finish]
      /\ virtualTime' = virtualTime
  BY DEF EnqueueHold, Arrive
<1> HIDE DEF n
<1>4. /\ n.start \in Nat /\ n.finish \in Nat /\ n.id \in Nat /\ virtualTime \in Nat
      /\ lastFinish \in [Apps -> Nat]
  BY <1>0, <1>2 DEF Item, Inv, TypeOK
<1>5. n \notin queue /\ \A x \in queue : x.id \in Nat /\ x.id < n.id /\ x.app \in Apps
  BY <1>0, <1>2, <1>4, QueuedItem DEF Inv, Ids
<1>6. IsFiniteSet(queue')
  BY <1>0, <1>3, FS_AddElement
<1>7. /\ Mine(a)' = Mine(a) \cup {n} /\ n \notin Mine(a)
      /\ \A c : c # a => Mine(c)' = Mine(c)
  BY <1>2, <1>3, <1>5 DEF Mine
<1>8. Cost(n) = TagCost(size, Weight[a]) /\ Cost(n) \in Nat
  BY <1>2, TagCostBounded DEF Cost
<1>9. Backlog(a)' = Cost(n) + Backlog(a) /\ Backlog(a) \in Nat
  <2>1. /\ IsFiniteSet(Mine(a)) /\ \A x \in Mine(a) : Cost(x) \in Nat
    BY MineFinite
  <2>2. /\ IsFiniteSet(Mine(a)') /\ \A x \in Mine(a)' : Cost(x) \in Nat
    BY <2>1, <1>7, <1>8, FS_AddElement
  <2>3. Mine(a)' \ {n} = Mine(a)
    BY <1>7
  <2>4. /\ TotalCost(Mine(a)') = Cost(n) + TotalCost(Mine(a)' \ {n})
        /\ TotalCost(Mine(a)) \in Nat
    <3>1. n \in Mine(a)'
      BY <1>7
    <3> HIDE DEF Mine
    <3>2. \A x \in Mine(a)' : TotalCost(Mine(a)') = Cost(x) + TotalCost(Mine(a)' \ {x})
      BY ONLY <2>2, TotalCostWithout
    <3>3. TotalCost(Mine(a)) \in Nat
      BY ONLY <2>1, TotalCostWithout
    <3>. QED  BY <3>1, <3>2, <3>3
  <2>. QED  BY <2>3, <2>4, BacklogIs
<1>10. \A c \in Apps : c # a => Backlog(c)' = Backlog(c)
  BY <1>7, BacklogIs
<1>11. \A x \in queue : Oldest(x, queue') <=> Oldest(x, queue)
  BY <1>3, <1>5, <1>4 DEF Oldest
<1>12. /\ lastFinish'[a] = n.finish /\ n.finish = n.start + Cost(n)
       /\ \A c \in Apps \ {a} : lastFinish'[c] = lastFinish[c]
  BY <1>2, <1>3, <1>4, <1>8
<1>13. ASSUME NEW x \in queue, x.app = a
       PROVE  n.start = lastFinish[a]
  <2>1. /\ x.start \in Nat /\ x.finish \in Nat
        /\ virtualTime <= x.start /\ x.start < x.finish
        /\ x.finish <= lastFinish[a] /\ lastFinish[a] \in Nat
    BY <1>0, <1>13, QueuedItem
  <2>. QED  BY <1>2, <1>4, <2>1
<1>14. (\A x \in queue : x.app # a) => Backlog(a) = 0
  <2> SUFFICES ASSUME \A x \in queue : x.app # a PROVE Backlog(a) = 0
    OBVIOUS
  <2>1. Mine(a) = {}
    BY DEF Mine
  <2>2. TotalCost({}) = 0
    <3>1. IsFiniteSet({}) /\ \A x \in {} : Cost(x) \in Nat
      BY FS_EmptySet
    <3>. QED  BY ONLY <3>1, TotalCostWithout
  <2>. QED  BY <2>1, <2>2, BacklogIs
<1>15. Spans'
  <2> SUFFICES ASSUME NEW o \in queue', Oldest(o, queue')
               PROVE  lastFinish'[o.app] = o.start + Backlog(o.app)'
    BY DEF Spans
  <2>1. CASE o = n
    <3>1. \A x \in queue : x.app # a
      BY <2>1, <1>2, <1>3, <1>5, <1>4 DEF Oldest
    <3>. QED  BY <2>1, <3>1, <1>2, <1>8, <1>9, <1>12, <1>14
  <2>2. CASE o \in queue /\ o.app = a
    <3>1. lastFinish[a] = o.start + Backlog(a)
      BY <2>2, <1>0, <1>11 DEF Spans
    <3>2. n.start = lastFinish[a] /\ o.start \in Nat
      BY <2>2, <1>0, <1>13, QueuedItem
    <3>. QED  BY <2>2, <3>1, <3>2, <1>8, <1>9, <1>12
  <2>3. CASE o \in queue /\ o.app # a
    <3>1. lastFinish[o.app] = o.start + Backlog(o.app)
      BY <2>3, <1>0, <1>11 DEF Spans
    <3>. QED  BY <2>3, <3>1, <1>5, <1>10, <1>12
  <2>. QED  BY <2>1, <2>2, <2>3, <1>3
<1>16. MaxCost(a) \in Nat
  BY TagCostBounded
<1>17. n.start <= virtualTime + Backlog(a) + MaxCost(a)
  <2>1. CASE \A x \in queue : x.app # a
    <3>1. lastFinish[a] <= virtualTime + MaxCost(a)
      BY <2>1, <1>0 DEF Near
    <3>. QED  BY <3>1, <1>2, <1>4, <1>8, <1>9, <1>16
  <2>2. CASE \E x \in queue : x.app = a
    <3>1. PICK o \in queue : o.app = a /\ Oldest(o, queue)
      <4> DEFINE I == {x.id : x \in Mine(a)}
      <4>1. I \in SUBSET Nat /\ I # {}
        BY <2>2, <1>5 DEF Mine
      <4>2. PICK m \in I : \A i \in I : m <= i
        <5> HIDE DEF I
        <5>. QED  BY <4>1, LeastNatural
      <4>. QED  BY <4>2 DEF Mine, Oldest
    <3>2. lastFinish[a] = o.start + Backlog(a) /\ o.start <= virtualTime + MaxCost(a)
      BY <3>1, <1>0 DEF Spans, Near
    <3>3. n.start = lastFinish[a] /\ o.start \in Nat
      BY <3>1, <1>0, <1>13, QueuedItem
    <3>. QED  BY <3>2, <3>3, <1>4, <1>8, <1>9, <1>16
  <2>. QED  BY <2>1, <2>2
<1>. QED  BY <1>6, <1>8, <1>9, <1>15, <1>17 DEF n

(* A held request starts its wait at the virtual time, with nothing        *)
(* released; for the others it is one more that starts late enough.        *)
LEMMA HoldWaits ==
  ASSUME ServiceInv, NEW a \in Apps, NEW size \in Sizes, EnqueueHold(a, size),
         FairInv', Observe
  PROVE  Waits'
<1> DEFINE n == NewItem(a, size)
<1>0. Inv /\ Chain /\ Near /\ FairInv /\ Waits
  BY DEF FairInv, ServiceInv
<1>1. itemId < MaxItems
  BY DEF EnqueueHold, Arrive
<1>2. /\ n \in Item
      /\ n.id = itemId /\ n.app = a
      /\ virtualTime <= n.start /\ lastFinish[a] <= n.start
      /\ n.start = virtualTime \/ n.start = lastFinish[a]
      /\ n.start < n.finish
      /\ n.start = Later(virtualTime, lastFinish[a])
  BY <1>0, <1>1, NewItemFacts DEF Inv, NewItem
<1>3. /\ queue' = queue \cup {n}
      /\ lastFinish' = [lastFinish EXCEPT ![a] = n.finish]
      /\ virtualTime' = virtualTime
  BY DEF EnqueueHold, Arrive
<1>4. Backlog(a) \in Nat /\ n.start <= virtualTime + Backlog(a) + MaxCost(a)
  BY HoldSpans
<1> HIDE DEF n
<1>5. /\ n.start \in Nat /\ n.finish \in Nat /\ n.id \in Nat /\ virtualTime \in Nat
      /\ lastFinish \in [Apps -> Nat]
  BY <1>0, <1>2 DEF Item, Inv, TypeOK
<1>6. \A x \in queue : x.id \in Nat /\ x.id < n.id /\ x.id # n.id /\ x.app \in Apps
  BY <1>0, <1>2, <1>5, QueuedItem DEF Inv, Ids
<1>7. \A c \in Apps : MaxCost(c) \in Nat
  BY TagCostPositive, SFQDAssumption DEF MaxCost
<1>8. \A c : Taken(c) = 0
  <2>1. \A c : {x \in queue \ queue' : x.app = c} = {}
    BY <1>3
  <2>. QED  BY <2>1, TakenIs, TotalSizeOne
<1>9. /\ DOMAIN wait' = {x.id : x \in queue'}
      /\ DOMAIN wait = {x.id : x \in queue}
      /\ n.id \in DOMAIN wait' /\ n.id \notin DOMAIN wait
      /\ \A x \in queue : x.id \in DOMAIN wait' /\ x.id \in DOMAIN wait
      /\ \A i \in DOMAIN wait' : i = n.id \/ i \in DOMAIN wait
      /\ \A i \in DOMAIN wait : wait[i] \in [ahead : Nat, bytes : [Apps -> Nat]]
  BY <1>0, <1>3, <1>6 DEF Observe, Waits
<1>10. \A i \in DOMAIN wait : wait'[i] = wait[i]
  <2> SUFFICES ASSUME NEW i \in DOMAIN wait PROVE wait'[i] = wait[i]
    OBVIOUS
  <2>1. i \in {x.id : x \in queue'}
    BY <1>9
  <2>2. wait'[i] = [wait[i] EXCEPT !.bytes = [c \in Apps |-> @[c] + Taken(c)]]
    BY <2>1 DEF Observe
  <2>3. wait[i].bytes \in [Apps -> Nat] /\ wait[i] \in [ahead : Nat, bytes : [Apps -> Nat]]
    BY <1>9
  <2>4. \A c \in Apps : wait[i].bytes[c] + Taken(c) = wait[i].bytes[c]
    BY <2>3, <1>8
  <2>5. [c \in Apps |-> wait[i].bytes[c] + Taken(c)] = wait[i].bytes
    BY <2>3, <2>4
  <2>. QED  BY <2>2, <2>3, <2>5
<1>11. wait'[n.id] = [ahead |-> Backlog(a), bytes |-> [c \in Apps |-> 0]]
  <2>1. n.id \in {x.id : x \in queue'}
    BY <1>9
  <2>2. wait'[n.id] = [ahead |-> Backlog((CHOOSE x \in queue' : x.id = n.id).app),
                       bytes |-> [c \in Apps |-> 0]]
    BY <2>1, <1>9 DEF Observe
  <2>3. (CHOOSE x \in queue' : x.id = n.id) = n
    BY <1>3, <1>6
  <2>. QED  BY <2>2, <2>3, <1>2
<1>12. \A i \in DOMAIN wait' : wait'[i] \in [ahead : Nat, bytes : [Apps -> Nat]]
  <2>1. [c \in Apps |-> 0] \in [Apps -> Nat]
    OBVIOUS
  <2>2. wait'[n.id] \in [ahead : Nat, bytes : [Apps -> Nat]]
    BY <1>4, <1>11, <2>1
  <2>. QED  BY <2>2, <1>9, <1>10
<1>13. ASSUME NEW x \in queue', NEW c \in Apps \ {x.app}
       PROVE  \E b, p \in Nat : Between(x, c, b, p)'
  <2>1. CASE x = n
    <3>1. /\ wait'[x.id].bytes[c] = 0 /\ wait'[x.id].ahead = Backlog(a)
          /\ x.app = a /\ c # a
      BY <2>1, <1>2, <1>11, <1>13
    <3>2. \A y \in queue' : y.app = c => virtualTime <= y.start
      BY <3>1, <1>0, <1>2, <1>3, QueuedItem
    <3>3. virtualTime <= Later(virtualTime', lastFinish'[c])
      BY <1>3, <1>5 DEF Later
    <3>4. virtualTime <= x.start + MaxCost(c)
      BY <2>1, <1>2, <1>5, <1>7
    <3>5. BytesFor(c, virtualTime - virtualTime) = 0
      <4>1. virtualTime - virtualTime = 0
        BY <1>5
      <4>. QED  BY <4>1, SFQDAssumption DEF BytesFor
    <3>6. x.start <= virtualTime + wait'[x.id].ahead + MaxCost(x.app)
      BY <2>1, <3>1, <1>4
    <3>7. Between(x, c, virtualTime, virtualTime)'
      BY <3>1, <3>2, <3>3, <3>4, <3>5, <3>6, <1>3, <1>5 DEF Between, MaxCost, BytesFor
    <3>8. \E b, p \in Nat : b = virtualTime /\ p = virtualTime
      BY <1>5
    <3>. QED  BY <3>7, <1>3, <1>5 DEF Between
  <2>2. CASE x \in queue
    <3>1. PICK b \in Nat, p \in Nat : Between(x, c, b, p)
      BY <2>2, <1>0, <1>13 DEF Waits
    <3>2. wait'[x.id] = wait[x.id]
      BY <2>2, <1>9, <1>10
    <3>3. \A y \in queue' : y.app = c => p <= y.start
      <4>1. c = a => p <= n.start
        BY <3>1, <1>2 DEF Between
      <4>. QED  BY <3>1, <4>1, <1>2, <1>3 DEF Between
    <3>4. p <= Later(virtualTime', lastFinish'[c])
      <4>1. lastFinish[c] <= lastFinish'[c] /\ lastFinish[c] \in Nat /\ lastFinish'[c] \in Nat
        BY <1>2, <1>3, <1>5
      <4>2. p <= Later(virtualTime, lastFinish[c])
        BY <3>1 DEF Between
      <4>. QED  BY <4>1, <4>2, <1>3, <1>5 DEF Later
    <3>5. Between(x, c, b, p)'
      BY <3>1, <3>2, <3>3, <3>4 DEF Between, MaxCost, BytesFor
    <3>. QED  BY <3>5
  <2>. QED  BY <2>1, <2>2, <1>3
<1>. QED  BY <1>9, <1>12, <1>13 DEF Waits

(* A dispatch shortens the backlog by the cost of the item it takes.       *)
LEMMA CompleteSpans ==
  ASSUME ServiceInv, NEW h \in queue, IsHead(h, queue), queue' = queue \ {h},
         virtualTime' = h.start, lastFinish' = lastFinish, FairInv'
  PROVE  IsFiniteSet(queue') /\ Spans'
<1>0. Inv /\ Chain /\ Near /\ FairInv /\ IsFiniteSet(queue) /\ Spans
  BY DEF FairInv, ServiceInv
<1>1. IsFiniteSet(queue')
  BY <1>0, FS_RemoveElement
<1>2. /\ h.start \in Nat /\ h.finish = h.start + Cost(h) /\ Cost(h) \in Nat /\ h.app \in Apps
      /\ Oldest(h, queue)
  BY <1>0, QueuedItem, MineFinite, HeadIsOldest DEF Inv, Tags, Cost, Mine
<1>3. /\ Mine(h.app)' = Mine(h.app) \ {h} /\ h \in Mine(h.app)
      /\ \A c : c # h.app => Mine(c)' = Mine(c)
  BY DEF Mine
<1>4. Backlog(h.app) = Cost(h) + Backlog(h.app)' /\ Backlog(h.app)' \in Nat
  <2>1. /\ IsFiniteSet(Mine(h.app)) /\ \A x \in Mine(h.app) : Cost(x) \in Nat
    BY MineFinite
  <2>2. /\ IsFiniteSet(Mine(h.app)') /\ \A x \in Mine(h.app)' : Cost(x) \in Nat
    BY <2>1, <1>3, FS_RemoveElement
  <2> HIDE DEF Mine
  <2>3. TotalCost(Mine(h.app)') \in Nat
    BY ONLY <2>2, TotalCostWithout
  <2>4. \A x \in Mine(h.app) : TotalCost(Mine(h.app)) = Cost(x) + TotalCost(Mine(h.app) \ {x})
    BY ONLY <2>1, TotalCostWithout
  <2>. QED  BY <2>3, <2>4, <1>3, BacklogIs
<1>5. \A c : c # h.app => Backlog(c)' = Backlog(c)
  BY <1>3, BacklogIs
<1>6. ASSUME NEW o \in queue', Oldest(o, queue')
      PROVE  lastFinish'[o.app] = o.start + Backlog(o.app)'
  <2>1. CASE o.app # h.app
    <3>1. o \in queue /\ Oldest(o, queue)
      BY <2>1, <1>6 DEF Oldest
    <3>. QED  BY <2>1, <3>1, <1>0, <1>5 DEF Spans
  <2>2. CASE o.app = h.app
    <3>1. o \in queue /\ o # h
      OBVIOUS
    <3>2. ~Oldest(o, queue)
      <4>1. h.id <= o.id /\ h.id # o.id /\ h.id \in Nat /\ o.id \in Nat
        BY <2>2, <3>1, <1>0, <1>2, QueuedItem DEF Inv, Ids, Oldest
      <4>. QED  BY <4>1, <2>2 DEF Oldest
    <3>3. PICK p \in queue : p.app = o.app /\ p.id < o.id /\ o.start = p.finish
      BY <3>1, <3>2, <1>0 DEF Chain
    <3>4. p = h
      <4>1. p.id \in Nat /\ o.id \in Nat
        BY <3>1, <1>0, QueuedItem
      <4>. QED  BY <3>3, <4>1, <1>6 DEF Oldest
    <3>5. lastFinish[h.app] = h.start + Backlog(h.app)
      BY <1>0, <1>2 DEF Spans
    <3>. QED  BY <2>2, <3>3, <3>4, <3>5, <1>2, <1>4
  <2>. QED  BY <2>1, <2>2
<1>. QED  BY <1>1, <1>6 DEF Spans

(* What a dispatch releases is paid for by the tag of the item it takes.   *)
LEMMA CompleteWaits ==
  ASSUME ServiceInv, NEW h \in queue, IsHead(h, queue), queue' = queue \ {h},
         virtualTime' = h.start, lastFinish' = lastFinish, FairInv', Observe
  PROVE  Waits'
<1>0. Inv /\ Chain /\ Near /\ FairInv /\ Waits
  BY DEF FairInv, ServiceInv
<1>1. /\ h.start \in Nat /\ h.finish \in Nat /\ h.app \in Apps /\ virtualTime \in Nat
      /\ virtualTime <= h.start
      /\ h.finish = h.start + Cost(h) /\ h.finish <= h.start + MaxCost(h.app)
      /\ h.finish <= lastFinish[h.app] /\ h.size \in Sizes /\ h.size \in Nat
  BY <1>0, QueuedItem, SFQDAssumption DEF Inv, TypeOK, Tags, Cost, Item
<1>2. Cost(h) \in Nat /\ h.size <= BytesFor(h.app, Cost(h))
  BY <1>1, TagCostBounded, SizeBounded DEF Cost
<1>3. lastFinish \in [Apps -> Nat]
  BY <1>0 DEF Inv, TypeOK
<1>4. \A x \in queue' : /\ x \in queue /\ x.id \in Nat /\ x.app \in Apps
                        /\ x.start \in Nat /\ h.start <= x.start
  BY <1>0, <1>1, QueuedItem DEF IsHead, Before
<1>5. \A c \in Apps : MaxCost(c) \in Nat
  BY TagCostPositive, SFQDAssumption DEF MaxCost
<1>6. Taken(h.app) = h.size /\ \A c : c # h.app => Taken(c) = 0
  <2>1. {x \in queue \ queue' : x.app = h.app} = {h}
    OBVIOUS
  <2>2. \A c : c # h.app => {x \in queue \ queue' : x.app = c} = {}
    OBVIOUS
  <2>. QED  BY <2>1, <2>2, <1>1, TakenIs, TotalSizeOne
<1>7. /\ DOMAIN wait' = {x.id : x \in queue'}
      /\ \A x \in queue' : x.id \in DOMAIN wait' /\ x.id \in DOMAIN wait
      /\ \A i \in DOMAIN wait' : i \in DOMAIN wait
      /\ \A i \in DOMAIN wait : wait[i] \in [ahead : Nat, bytes : [Apps -> Nat]]
  BY <1>0 DEF Observe, Waits
<1>8. \A i \in DOMAIN wait' :
        /\ wait'[i].ahead = wait[i].ahead
        /\ wait'[i].bytes = [c \in Apps |-> wait[i].bytes[c] + Taken(c)]
        /\ wait'[i] \in [ahead : Nat, bytes : [Apps -> Nat]]
  <2> SUFFICES ASSUME NEW i \in DOMAIN wait'
               PROVE  /\ wait'[i].ahead = wait[i].ahead
                      /\ wait'[i].bytes = [c \in Apps |-> wait[i].bytes[c] + Taken(c)]
                      /\ wait'[i] \in [ahead : Nat, bytes : [Apps -> Nat]]
    OBVIOUS
  <2>1. wait'[i] = [wait[i] EXCEPT !.bytes = [c \in Apps |-> @[c] + Taken(c)]]
    BY <1>7 DEF Observe
  <2>2. wait[i] \in [ahead : Nat, bytes : [Apps -> Nat]]
    BY <1>7
  <2>3. \A c \in Apps : wait[i].bytes[c] + Taken(c) \in Nat
    BY <2>2, <1>1, <1>6
  <2>4. [c \in Apps |-> wait[i].bytes[c] + Taken(c)] \in [Apps -> Nat]
    BY <2>3
  <2>. QED  BY <2>1, <2>2, <2>4
<1>9. ASSUME NEW x \in queue', NEW c \in Apps \ {x.app}
      PROVE  \E b, p \in Nat : Between(x, c, b, p)'
  <2>0. x \in queue
    BY <1>4
  <2>1. PICK b \in Nat, p \in Nat : Between(x, c, b, p)
    BY <2>0, <1>0, <1>9 DEF Waits
  <2>2. /\ wait'[x.id].ahead = wait[x.id].ahead
        /\ wait'[x.id].bytes[c] = wait[x.id].bytes[c] + Taken(c)
        /\ wait[x.id].bytes[c] \in Nat
    <3>1. x.id \in DOMAIN wait' /\ x.id \in DOMAIN wait /\ c \in Apps
      BY <1>7, <1>9
    <3>2. wait[x.id].bytes \in [Apps -> Nat]
      BY <3>1, <1>7
    <3>3. /\ wait'[x.id].ahead = wait[x.id].ahead
          /\ wait'[x.id].bytes = [d \in Apps |-> wait[x.id].bytes[d] + Taken(d)]
      BY <3>1, <1>8
    <3>. QED  BY <3>1, <3>2, <3>3
  <2>3. CASE c = h.app
    <3>1. p <= h.start
      BY <2>1, <2>3 DEF Between
    <3>2. b <= h.finish /\ h.finish - b \in Nat /\ p - b \in Nat
          /\ (p - b) + Cost(h) <= h.finish - b
      BY <2>1, <3>1, <1>1, <1>2 DEF Between
    <3>3. wait'[x.id].bytes[c] <= BytesFor(c, h.finish - b)
      <4>1. wait[x.id].bytes[c] <= BytesFor(c, p - b)
        BY <2>1 DEF Between
      <4>2. /\ BytesFor(c, (p - b) + Cost(h)) = BytesFor(c, p - b) + BytesFor(c, Cost(h))
            /\ BytesFor(c, p - b) \in Nat /\ BytesFor(c, Cost(h)) \in Nat
        BY <3>2, <1>2, BytesForSum
      <4>3. /\ BytesFor(c, (p - b) + Cost(h)) <= BytesFor(c, h.finish - b)
            /\ BytesFor(c, h.finish - b) \in Nat
        <5> DEFINE d == (p - b) + Cost(h)
                   e == h.finish - b
        <5>1. d \in Nat /\ e \in Nat /\ d <= e
          BY <3>2, <1>2
        <5> HIDE DEF d, e
        <5>2. BytesFor(c, d) <= BytesFor(c, e) /\ BytesFor(c, e) \in Nat
          BY <5>1, BytesForSum
        <5>. QED  BY <5>2 DEF d, e
      <4>4. wait'[x.id].bytes[c] = wait[x.id].bytes[c] + h.size
        BY <2>2, <2>3, <1>6
      <4>5. h.size <= BytesFor(c, Cost(h))
        BY <1>2, <2>3
      <4>. QED  BY <4>1, <4>2, <4>3, <4>4, <4>5, <2>2, <1>1
    <3>4. \A y \in queue' : y.app = c => h.finish <= y.start
      <4> SUFFICES ASSUME NEW y \in queue', y.app = c PROVE h.finish <= y.start
        OBVIOUS
      <4>1. Oldest(h, queue)
        BY <1>0, HeadIsOldest
      <4>2. y.id \in Nat /\ h.id \in Nat /\ h.id # y.id /\ y \in queue
        BY <1>0, QueuedItem DEF Inv, Ids
      <4>3. h.id < y.id
        BY <4>1, <4>2, <2>3 DEF Oldest
      <4>. QED  BY <4>2, <4>3, <2>3, <1>0 DEF Chain
    <3>5. h.finish <= Later(virtualTime', lastFinish'[c])
      BY <2>3, <1>1, <1>3 DEF Later
    <3>6. h.finish <= x.start + MaxCost(c)
      BY <2>3, <1>1, <1>4, <1>5
    <3>7. Between(x, c, b, h.finish)'
      BY <2>1, <2>2, <3>2, <3>3, <3>4, <3>5, <3>6 DEF Between, MaxCost, BytesFor
    <3>. QED  BY <3>7, <1>1
  <2>4. CASE c # h.app
    <3>1. wait'[x.id].bytes[c] = wait[x.id].bytes[c]
      BY <2>2, <2>4, <1>6
    <3>2. p <= Later(virtualTime', lastFinish'[c])
      <4>1. lastFinish[c] \in Nat
        BY <1>3
      <4>2. p <= Later(virtualTime, lastFinish[c])
        BY <2>1 DEF Between
      <4>. QED  BY <4>1, <4>2, <1>1 DEF Later
    <3>3. Between(x, c, b, p)'
      BY <2>1, <2>2, <3>1, <3>2 DEF Between, MaxCost, BytesFor
    <3>. QED  BY <3>3
  <2>. QED  BY <2>3, <2>4
<1>. QED  BY <1>7, <1>8, <1>9 DEF Waits

(* Every observed step keeps the invariant. *)
LEMMA StepService == ServiceInv /\ [ServiceNext]_<<vars, wait>> => ServiceInv'
<1> SUFFICES ASSUME ServiceInv, [ServiceNext]_<<vars, wait>> PROVE ServiceInv'
  OBVIOUS
<1>0. FairInv'
  BY StepFair DEF ServiceInv, ServiceNext, vars
<1>1. ASSUME NEW a \in Apps, NEW size \in Sizes, EnqueueDispatch(a, size), Observe
      PROVE  ServiceInv'
  <2>1. queue' = {}
    BY <1>1, DispatchesNewItem DEF ServiceInv, FairInv
  <2>. QED  BY <2>1, <1>0, <1>1, EmptyService
<1>2. ASSUME NEW a \in Apps, NEW size \in Sizes, EnqueueHold(a, size), Observe
      PROVE  ServiceInv'
  BY <1>0, <1>2, HoldSpans, HoldWaits DEF ServiceInv
<1>3. ASSUME NEW r \in DOMAIN current, CompleteDispatch(r), Observe
      PROVE  ServiceInv'
  <2>1. PICK h \in queue : /\ IsHead(h, queue)
                           /\ queue' = queue \ {h}
                           /\ virtualTime' = h.start
    BY <1>3 DEF CompleteDispatch, TakeHead
  <2>2. lastFinish' = lastFinish
    BY <1>3 DEF CompleteDispatch
  <2>. QED  BY <2>1, <2>2, <1>0, <1>3, CompleteSpans, CompleteWaits DEF ServiceInv
<1>4. ASSUME NEW r \in DOMAIN current, CompleteIdle(r), Observe
      PROVE  ServiceInv'
  BY <1>0, <1>4, EmptyService DEF CompleteIdle
<1>5. CASE UNCHANGED <<vars, wait>>
  <2>1. /\ queue' = queue /\ lastFinish' = lastFinish /\ virtualTime' = virtualTime
        /\ wait' = wait
    BY <1>5 DEF vars
  <2>2. \A a : Mine(a)' = Mine(a)
    BY <2>1 DEF Mine
  <2>3. \A a : Backlog(a)' = Backlog(a)
    BY <2>2, BacklogIs
  <2>4. Spans'
    <3> SUFFICES ASSUME NEW o \in queue', Oldest(o, queue')
                 PROVE  lastFinish'[o.app] = o.start + Backlog(o.app)'
      BY DEF Spans
    <3>1. lastFinish[o.app] = o.start + Backlog(o.app)
      BY <2>1 DEF ServiceInv, Spans
    <3>2. Backlog(o.app)' = Backlog(o.app)
      BY <2>3
    <3>. QED  BY <2>1, <3>1, <3>2
  <2>5. Waits'
    BY <2>1 DEF ServiceInv, Waits, Between, MaxCost, BytesFor
  <2>. QED  BY <2>1, <2>4, <2>5, <1>0 DEF ServiceInv
<1>. QED  BY <1>1, <1>2, <1>3, <1>4, <1>5 DEF ServiceNext, Next, Enqueue, Complete

(* A waiting item is overtaken by another application by no more bytes     *)
(* than its share of what its own application had queued, plus one request *)
(* of each: for all weights, depths and sizes.                             *)
THEOREM OvertakenByAShare == ServiceSpec => []OvertakingBounded
<1>1. ServiceInv => OvertakingBounded
  <2> SUFFICES ASSUME ServiceInv, NEW x \in queue, NEW c \in Apps \ {x.app}
               PROVE  wait[x.id].bytes[c]
                        <= BytesFor(c, wait[x.id].ahead + MaxCost(x.app) + MaxCost(c))
    BY DEF OvertakingBounded
  <2>1. PICK b \in Nat, p \in Nat : Between(x, c, b, p)
    BY DEF ServiceInv, Waits
  <2>2. wait[x.id] \in [ahead : Nat, bytes : [Apps -> Nat]]
    BY DEF ServiceInv, Waits
  <2>3. x.start \in Nat /\ MaxCost(x.app) \in Nat
    BY QueuedItem DEF ServiceInv, FairInv
  <2>4. MaxCost(c) \in Nat
    BY TagCostPositive, SFQDAssumption DEF MaxCost
  <2> DEFINE d == p - b
             e == wait[x.id].ahead + MaxCost(x.app) + MaxCost(c)
  <2>5. d \in Nat /\ e \in Nat /\ d <= e
    BY <2>1, <2>2, <2>3, <2>4 DEF Between
  <2>6. wait[x.id].bytes[c] <= BytesFor(c, d) /\ wait[x.id].bytes[c] \in Nat
    BY <2>1, <2>2 DEF Between
  <2> HIDE DEF d, e
  <2>7. BytesFor(c, d) <= BytesFor(c, e) /\ BytesFor(c, d) \in Nat /\ BytesFor(c, e) \in Nat
    BY <2>5, BytesForSum
  <2>8. wait[x.id].bytes[c] <= BytesFor(c, e)
    BY <2>6, <2>7
  <2>. QED  BY <2>8 DEF e
<1>. QED  BY <1>1, InitService, StepService, PTL DEF ServiceSpec

=============================================================================
