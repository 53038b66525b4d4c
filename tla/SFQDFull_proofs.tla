-------------------------- MODULE SFQDFull_proofs --------------------------
(***************************************************************************)
(* Proofs about SFQDFull, for every set of applications, every assignment  *)
(* of weights, every depth, factor, threshold and length.  They take the   *)
(* options to be Balanced; otherwise an item is given more slots than its  *)
(* completion takes back.                                                  *)
(***************************************************************************)
EXTENDS SFQDFull, FiniteSetTheorems, TLAPS

(* sfqdfull_enable_hard_block is set, or sfqdfull_enable_large_io_blocking *)
(* is not.                                                                 *)
Balanced == HardBlock \/ ~LargeBlock

(* Slots are given as they are taken back. *)
LEMMA GivenIsTakenBack ==
  ASSUME Balanced, NEW x \in Item, NEW small
  PROVE  /\ TentativeDepth(x, small) = ReduceDepth(x)
         /\ ReduceDepth(x) \in Nat \ {0}
         /\ Factor <= Depth => ReduceDepth(x) <= Depth
<1>1. x.slots \in {1, Factor} /\ Factor \in Nat \ {0} /\ Depth \in Nat \ {0}
      /\ HardBlock \in BOOLEAN
  BY SFQDFullAssumption DEF Item
<1>2. CASE HardBlock
  BY <1>1, <1>2 DEF TentativeDepth, ReduceDepth
<1>3. CASE ~HardBlock
  BY <1>1, <1>3 DEF TentativeDepth, ReduceDepth, Balanced
<1>. QED  BY <1>2, <1>3

-----------------------------------------------------------------------------
(* Counting the released requests *)

One(x) == IF x.slots = 1 THEN 1 ELSE 0

Released(f) == f \in [DOMAIN f -> Item] /\ IsFiniteSet(DOMAIN f)

LEMMA CountsAreNat ==
  ASSUME NEW f, Released(f)
  PROVE  /\ IsFiniteSet(OneSlot(f)) /\ IsFiniteSet(DOMAIN f \ OneSlot(f))
         /\ Cardinality(OneSlot(f)) \in Nat
         /\ Cardinality(DOMAIN f \ OneSlot(f)) \in Nat
         /\ Cardinality(DOMAIN f) \in Nat
         /\ SlotsHeld(f) \in Nat
<1>1. OneSlot(f) \subseteq DOMAIN f /\ DOMAIN f \ OneSlot(f) \subseteq DOMAIN f
      /\ IsFiniteSet(DOMAIN f)
  BY DEF OneSlot, Released
<1>2. IsFiniteSet(OneSlot(f)) /\ IsFiniteSet(DOMAIN f \ OneSlot(f))
  BY <1>1, FS_Subset
<1>3. /\ Cardinality(OneSlot(f)) \in Nat
      /\ Cardinality(DOMAIN f \ OneSlot(f)) \in Nat
      /\ Cardinality(DOMAIN f) \in Nat
  BY <1>1, <1>2, FS_CardinalityType
<1>. QED  BY <1>2, <1>3, SFQDFullAssumption DEF SlotsHeld

LEMMA BindIsReleased ==
  ASSUME NEW f, Released(f), NEW r, NEW x \in Item
  PROVE  /\ Released(Bind(f, r, x))
         /\ DOMAIN Bind(f, r, x) = DOMAIN f \cup {r}
         /\ Bind(f, r, x)[r] = x
<1> DEFINE g == Bind(f, r, x)
<1>1. DOMAIN g = DOMAIN f \cup {r} /\ g[r] = x
  BY DEF Bind
<1>2. g \in [DOMAIN g -> Item]
  BY <1>1 DEF Released, Bind
<1>3. IsFiniteSet(DOMAIN g)
  BY <1>1, FS_AddElement DEF Released
<1>. QED  BY <1>1, <1>2, <1>3 DEF Released

LEMMA UnbindIsReleased ==
  ASSUME NEW f, Released(f), NEW r \in DOMAIN f
  PROVE  /\ Released(Unbind(f, r))
         /\ DOMAIN Unbind(f, r) = DOMAIN f \ {r}
<1>1. DOMAIN Unbind(f, r) = DOMAIN f \ {r}
  BY DEF Unbind
<1>. QED  BY <1>1, FS_RemoveElement DEF Released, Unbind

(* A request that is released is counted with the slots of its item. *)
LEMMA BindCount ==
  ASSUME NEW f, Released(f), NEW r, r \notin DOMAIN f, NEW x \in Item
  PROVE  /\ SlotsHeld(Bind(f, r, x)) = SlotsHeld(f) + ReduceDepth(x)
         /\ Cardinality(OneSlot(Bind(f, r, x))) = Cardinality(OneSlot(f)) + One(x)
<1> DEFINE g == Bind(f, r, x)
<1>1. DOMAIN g = DOMAIN f \cup {r} /\ g[r] = x /\ \A s \in DOMAIN f : g[s] = f[s]
  BY DEF Bind
<1>2. Released(g)
  BY BindIsReleased
<1> HIDE DEF g
<1>3. Cardinality(DOMAIN g) = Cardinality(DOMAIN f) + 1
  BY <1>1, FS_AddElement DEF Released
<1>4. CASE x.slots = 1
  <2>1. /\ OneSlot(g) = OneSlot(f) \cup {r} /\ r \notin OneSlot(f)
        /\ DOMAIN g \ OneSlot(g) = DOMAIN f \ OneSlot(f)
    BY <1>1, <1>4 DEF OneSlot
  <2>2. Cardinality(OneSlot(g)) = Cardinality(OneSlot(f)) + 1
    BY <2>1, CountsAreNat, FS_AddElement
  <2>3. ReduceDepth(x) = 1
    BY <1>4 DEF ReduceDepth
  <2>4. SlotsHeld(g) = SlotsHeld(f) + 1
    <3>1. CASE HardBlock
      <4> DEFINE others == Factor * Cardinality(DOMAIN f \ OneSlot(f))
      <4>0. /\ Cardinality(DOMAIN f \ OneSlot(f)) \in Nat
            /\ Cardinality(OneSlot(f)) \in Nat /\ Factor \in Nat
        BY CountsAreNat, SFQDFullAssumption
      <4>1. others \in Nat /\ Cardinality(OneSlot(f)) \in Nat
        BY <4>0
      <4>2. /\ SlotsHeld(g) = Cardinality(OneSlot(f)) + 1 + others
            /\ SlotsHeld(f) = Cardinality(OneSlot(f)) + others
        BY <2>1, <2>2, <3>1 DEF SlotsHeld
      <4> HIDE DEF others
      <4>. QED  BY <4>1, <4>2
    <3>2. CASE ~HardBlock
      BY <1>3, <3>2 DEF SlotsHeld
    <3>. QED  BY <3>1, <3>2, SFQDFullAssumption
  <2>. QED  BY <1>1, <1>2, <1>4, <2>2, <2>3, <2>4 DEF g, One
<1>5. CASE x.slots # 1
  <2>1. /\ OneSlot(g) = OneSlot(f) /\ x.slots = Factor
        /\ DOMAIN g \ OneSlot(g) = (DOMAIN f \ OneSlot(f)) \cup {r}
    BY <1>1, <1>5 DEF OneSlot, Item
  <2> DEFINE rest == DOMAIN f \ OneSlot(f)
  <2>2. Cardinality(rest \cup {r}) = Cardinality(rest) + 1
    BY CountsAreNat, FS_AddElement
  <2>3. /\ Cardinality(rest) \in Nat /\ Factor \in Nat
        /\ Cardinality(OneSlot(f)) \in Nat
    BY CountsAreNat, SFQDFullAssumption
  <2>4. CASE HardBlock
    <3>1. SlotsHeld(g) = Cardinality(OneSlot(f)) + Factor * (Cardinality(rest) + 1)
      BY <2>1, <2>2, <2>4 DEF SlotsHeld
    <3>2. SlotsHeld(f) = Cardinality(OneSlot(f)) + Factor * Cardinality(rest)
      BY <2>4 DEF SlotsHeld
    <3>3. ReduceDepth(x) = Factor
      BY <2>1, <2>4 DEF ReduceDepth
    <3> HIDE DEF rest
    <3>4. SlotsHeld(g) = SlotsHeld(f) + ReduceDepth(x)
      BY <3>1, <3>2, <3>3, <2>3
    <3>. QED  BY <1>1, <1>2, <1>5, <2>1, <2>3, <3>4 DEF g, One
  <2>5. CASE ~HardBlock
    <3>1. SlotsHeld(g) = SlotsHeld(f) + ReduceDepth(x)
      BY <1>3, <2>5 DEF SlotsHeld, ReduceDepth
    <3>. QED  BY <1>1, <1>2, <1>5, <2>1, <2>3, <3>1 DEF g, One
  <2>. QED  BY <2>4, <2>5, SFQDFullAssumption
<1>. QED  BY <1>4, <1>5

(* The completion of a request takes the slots of its item back.           *)
LEMMA UnbindCount ==
  ASSUME NEW f, Released(f), NEW r \in DOMAIN f
  PROVE  /\ SlotsHeld(Unbind(f, r)) = SlotsHeld(f) - ReduceDepth(f[r])
         /\ Cardinality(OneSlot(Unbind(f, r))) =
              Cardinality(OneSlot(f)) - One(f[r])
<1> DEFINE g == Unbind(f, r)
<1>1. DOMAIN g = DOMAIN f \ {r} /\ \A s \in DOMAIN g : g[s] = f[s]
  BY DEF Unbind
<1>2. Released(g)
  BY UnbindIsReleased
<1>3. f = Bind(g, r, f[r])
  <2>1. DOMAIN g \cup {r} = DOMAIN f
    BY <1>1
  <2>2. f = [s \in DOMAIN f |-> f[s]]
    BY DEF Released
  <2>. QED  BY <1>1, <2>1, <2>2 DEF Bind
<1>4. f[r] \in Item /\ r \notin DOMAIN g
  BY <1>1 DEF Released
<1>5. /\ SlotsHeld(f) = SlotsHeld(g) + ReduceDepth(f[r])
      /\ Cardinality(OneSlot(f)) = Cardinality(OneSlot(g)) + One(f[r])
  <2> HIDE DEF g
  <2>1. /\ SlotsHeld(Bind(g, r, f[r])) = SlotsHeld(g) + ReduceDepth(f[r])
        /\ Cardinality(OneSlot(Bind(g, r, f[r])))
             = Cardinality(OneSlot(g)) + One(f[r])
    BY <1>2, <1>4, BindCount
  <2>. QED  BY <1>3, <2>1
<1> HIDE DEF g
<1>6. /\ SlotsHeld(g) \in Nat /\ Cardinality(OneSlot(g)) \in Nat
      /\ ReduceDepth(f[r]) \in Nat /\ One(f[r]) \in Nat
  <2>1. SlotsHeld(g) \in Nat /\ Cardinality(OneSlot(g)) \in Nat
    BY <1>2, CountsAreNat
  <2>2. ReduceDepth(f[r]) \in Nat /\ One(f[r]) \in Nat
    BY <1>4, SFQDFullAssumption DEF ReduceDepth, Item, One
  <2>. QED  BY <2>1, <2>2
<1>7. /\ SlotsHeld(g) = SlotsHeld(f) - ReduceDepth(f[r])
      /\ Cardinality(OneSlot(g)) = Cardinality(OneSlot(f)) - One(f[r])
  BY <1>5, <1>6
<1>. QED  BY <1>1, <1>2, <1>7 DEF g

(* No slot is held by nobody. *)
LEMMA NothingHeld ==
  ASSUME NEW f, Released(f), DOMAIN f = {}
  PROVE  SlotsHeld(f) = 0 /\ Cardinality(OneSlot(f)) = 0
<1>1. OneSlot(f) = {} /\ DOMAIN f \ OneSlot(f) = {}
  BY DEF OneSlot
<1>. QED  BY <1>1, FS_EmptySet, SFQDFullAssumption DEF SlotsHeld

Ones(items) == {x \in items : x.slots = 1}

LEMMA AddOne ==
  ASSUME NEW items, IsFiniteSet(items), NEW x, x \notin items
  PROVE  /\ IsFiniteSet(items \cup {x})
         /\ Cardinality(Ones(items)) \in Nat
         /\ Cardinality(Ones(items \cup {x})) = Cardinality(Ones(items)) + One(x)
<1>1. IsFiniteSet(items \cup {x})
  BY FS_AddElement
<1>2. IsFiniteSet(Ones(items))
  <2>1. Ones(items) \subseteq items
    BY DEF Ones
  <2>. QED  BY <2>1, FS_Subset
<1>3. Cardinality(Ones(items)) \in Nat
  BY <1>2, FS_CardinalityType
<1>4. CASE x.slots = 1
  <2>1. Ones(items \cup {x}) = Ones(items) \cup {x} /\ x \notin Ones(items)
    BY <1>4 DEF Ones
  <2>. QED  BY <1>1, <1>2, <1>3, <1>4, <2>1, FS_AddElement DEF One
<1>5. CASE x.slots # 1
  <2>1. Ones(items \cup {x}) = Ones(items)
    BY <1>5 DEF Ones
  <2>. QED  BY <1>1, <1>3, <1>5, <2>1 DEF One
<1>. QED  BY <1>4, <1>5

LEMMA RemoveOne ==
  ASSUME NEW items, IsFiniteSet(items), NEW x \in items
  PROVE  /\ IsFiniteSet(items \ {x})
         /\ Cardinality(Ones(items \ {x})) = Cardinality(Ones(items)) - One(x)
<1> DEFINE rest == items \ {x}
<1>1. IsFiniteSet(rest) /\ x \notin rest /\ items = rest \cup {x}
  BY FS_RemoveElement
<1> HIDE DEF rest
<1>2. /\ Cardinality(Ones(rest)) \in Nat
      /\ Cardinality(Ones(items)) = Cardinality(Ones(rest)) + One(x)
  BY <1>1, AddOne
<1>3. One(x) \in Nat
  BY DEF One
<1>4. Cardinality(Ones(rest)) = Cardinality(Ones(items)) - One(x)
  BY <1>2, <1>3
<1>. QED  BY <1>1, <1>4 DEF rest

-----------------------------------------------------------------------------
(* The inductive invariant *)

Types ==
  /\ queue \subseteq Item /\ IsFiniteSet(queue)
  /\ virtualTime \in Nat /\ lastFinish \in [Apps -> Nat]
  /\ depth \in Nat /\ smallIOs \in Int /\ itemId \in 0 .. MaxItems
  /\ Released(current) /\ DOMAIN current \subseteq 0 .. itemId - 1

(* An id names one item, which is queued or with the request of that id. *)
Ids ==
  /\ \A x \in queue : x.id < itemId /\ x.id \notin DOMAIN current
  /\ \A x, y \in queue : x.id = y.id => x = y
  /\ \A r \in DOMAIN current : current[r].id = r

Inv ==
  /\ Types /\ Ids /\ SlotsAccounted /\ ConnectionInOrder
  /\ Factor > 1 => SmallCounted
  /\ Factor <= Depth => NoStall

LEMMA InitInv == Init => Inv
<1> SUFFICES ASSUME Init PROVE Inv
  OBVIOUS
<1>1. queue = {} /\ DOMAIN current = {} /\ depth = 0 /\ smallIOs = 0
  BY DEF Init
<1>2. Released(current)
  BY <1>1, FS_EmptySet DEF Init, Released
<1>3. Types
  BY <1>1, <1>2, FS_EmptySet, SFQDFullAssumption DEF Init, Types
<1>4. SlotsAccounted
  BY <1>1, <1>2, NothingHeld, SFQDFullAssumption DEF SlotsAccounted
<1>5. SmallCounted
  <2>1. {x \in queue : x.slots = 1} = {}
    BY <1>1
  <2>. QED  BY <1>1, <1>2, <2>1, NothingHeld, FS_EmptySet DEF SmallCounted
<1>6. Ids /\ ConnectionInOrder /\ NoStall
  BY <1>1 DEF Ids, ConnectionInOrder, NoStall
<1>. QED  BY <1>3, <1>4, <1>5, <1>6 DEF Inv

-----------------------------------------------------------------------------
(* The scans *)

(* Two scans of one list stop at the same item. *)
LEMMA ScansAgree ==
  ASSUME NEW items \in SUBSET Item, \A x, y \in items : x.id = y.id => x = y,
         NEW small, NEW used, NEW x, NEW y,
         IsFirstFit(x, items, small, used), IsFirstFit(y, items, small, used)
  PROVE  x = y
<1>1. /\ x \in items /\ y \in items
      /\ {x.id, y.id, x.sock, y.sock} \subseteq Nat
      /\ Fits(x, small, used) /\ Fits(y, small, used)
  BY SFQDFullAssumption DEF IsFirstFit, Item
<1>2. ~Before(x, y) /\ ~Before(y, x)
  BY <1>1 DEF IsFirstFit
<1>3. x.id = y.id
  BY <1>1, <1>2 DEF Before
<1>. QED  BY <1>1, <1>3

(* An item that fits is not passed over for another of its class.          *)
LEMMA ClassNotPassed ==
  ASSUME NEW items, NEW small, NEW used, NEW x, NEW y \in items,
         IsFirstFit(x, items, small, used), x.slots = y.slots
  PROVE  ~Before(y, x)
BY DEF IsFirstFit, Fits, TentativeDepth

-----------------------------------------------------------------------------
(* The steps *)

LEMMA TagCostIsNat ==
  ASSUME NEW length \in Lengths, NEW a \in Apps
  PROVE  TagCost(length, Weight[a]) \in Nat
<1>1. /\ length \in Nat /\ Weight[a] \in Nat \ {0} /\ REDUCER \in Nat \ {0}
  BY SFQDFullAssumption
<1>2. length \div Weight[a] \in Nat
  BY <1>1
<1>3. (length \div Weight[a]) \div REDUCER \in Nat
  BY <1>1, <1>2
<1>. QED  BY <1>3 DEF TagCost

(* What the first half of sfqdfull_enqueue knows of the new item. *)
LEMMA NewArrives ==
  ASSUME Inv, NEW c \in Socks, NEW length \in Lengths, Arrive(c, length)
  PROVE  /\ NewItem(c, length) \in Item
         /\ NewItem(c, length).id = itemId /\ NewItem(c, length).sock = c
         /\ NewItem(c, length) \notin queue
         /\ lastFinish' \in [Apps -> Nat]
         /\ itemId' = itemId + 1 /\ itemId' \in 0 .. MaxItems
         /\ smallIOs' \in Int
         /\ Factor > 1 => smallIOs' = smallIOs + One(NewItem(c, length))
<1> DEFINE new == NewItem(c, length)
           a == AppOf[c]
<1>1. /\ virtualTime \in Nat /\ lastFinish \in [Apps -> Nat] /\ smallIOs \in Int
      /\ itemId \in 0 .. MaxItems /\ Factor \in Nat \ {0} /\ MaxItems \in Nat
      /\ \A x \in queue : x.id < itemId
      /\ a \in Apps
  BY SFQDFullAssumption DEF Inv, Types, Ids
<1>2. /\ new.id = itemId /\ new.sock = c
      /\ new.start = Later(virtualTime, lastFinish[a])
      /\ new.slots = IF IsSmall(length) THEN 1 ELSE Factor
  BY DEF NewItem
<1>3. new.start \in Nat
  BY <1>1, <1>2 DEF Later
<1>4. new \in Item
  BY <1>1, <1>3 DEF Item, NewItem
<1>5. new \notin queue
  BY <1>1, <1>2
<1>6. /\ lastFinish' = [lastFinish EXCEPT ![a] = new.start + TagCost(length, Weight[a])]
      /\ itemId' = itemId + 1 /\ itemId < MaxItems
      /\ smallIOs' = smallIOs + (IF IsSmall(length) THEN 1 ELSE 0)
  BY DEF Arrive
<1>7. Factor > 1 => smallIOs' = smallIOs + One(new)
  BY <1>1, <1>2, <1>6 DEF One
<1> HIDE DEF new, a
<1>8. lastFinish' \in [Apps -> Nat]
  BY <1>1, <1>3, <1>6, TagCostIsNat
<1>9. itemId' \in 0 .. MaxItems /\ smallIOs' \in Int
  BY <1>1, <1>6
<1>. QED  BY <1>2, <1>4, <1>5, <1>6, <1>7, <1>8, <1>9 DEF new

(* The new request goes with its own item, past no older one of its        *)
(* connection and class.                                                   *)
LEMMA EnqueueDispatchKeeps ==
  ASSUME Inv, Balanced, NEW c \in Socks, NEW length \in Lengths,
         EnqueueDispatch(c, length)
  PROVE  Inv'
<1> DEFINE new == NewItem(c, length)
<1>1. /\ Arrive(c, length) /\ MayGo(new)
      /\ \E h \in queue \cup {new} :
           /\ TakeFirstFit(h, queue \cup {new}, depth)
           /\ current' = Bind(current, itemId, h)
  BY DEF EnqueueDispatch
<1>2. /\ new \in Item /\ new.id = itemId /\ new.sock = c /\ new \notin queue
      /\ lastFinish' \in [Apps -> Nat]
      /\ itemId' = itemId + 1 /\ itemId' \in 0 .. MaxItems
      /\ smallIOs' \in Int
      /\ Factor > 1 => smallIOs' = smallIOs + One(new)
  BY <1>1, NewArrives
<1>3. IsFirstFit(new, queue \cup {new}, smallIOs', depth)
  BY <1>1 DEF MayGo
<1> HIDE DEF new
<1>4. /\ queue \subseteq Item /\ IsFiniteSet(queue) /\ Released(current)
      /\ lastFinish \in [Apps -> Nat] /\ smallIOs \in Int /\ depth \in Nat
      /\ itemId \in Nat /\ DOMAIN current \subseteq 0 .. itemId - 1
      /\ Ids /\ ConnectionInOrder /\ SlotsAccounted
      /\ Depth \in Nat
  BY SFQDFullAssumption DEF Inv, Types
<1>5. /\ queue' = queue /\ current' = Bind(current, itemId, new)
      /\ virtualTime' = new.start /\ depth' = depth + TentativeDepth(new, smallIOs')
  <2>1. \A x, y \in queue \cup {new} : x.id = y.id => x = y
    BY <1>2, <1>4 DEF Ids
  <2>2. PICK h \in queue \cup {new} :
          /\ TakeFirstFit(h, queue \cup {new}, depth)
          /\ current' = Bind(current, itemId, h)
    BY <1>1
  <2>3. IsFirstFit(h, queue \cup {new}, smallIOs', depth)
    BY <2>2 DEF TakeFirstFit
  <2>4. queue \cup {new} \in SUBSET Item
    BY <1>2, <1>4
  <2>5. h = new
    BY <1>3, <2>1, <2>3, <2>4, ScansAgree
  <2>. QED  BY <1>2, <2>2, <2>5 DEF TakeFirstFit
<1>6. itemId \notin DOMAIN current
  BY <1>4
<1>7. /\ Released(current') /\ DOMAIN current' = DOMAIN current \cup {itemId}
      /\ current'[itemId] = new /\ \A s \in DOMAIN current : current'[s] = current[s]
  <2>1. \A s \in DOMAIN current : current'[s] = current[s]
    BY <1>5, <1>6 DEF Bind
  <2>2. Released(current) /\ new \in Item /\ current' = Bind(current, itemId, new)
    BY <1>2, <1>4, <1>5
  <2>3. /\ Released(current') /\ DOMAIN current' = DOMAIN current \cup {itemId}
        /\ current'[itemId] = new
    BY <2>2, BindIsReleased
  <2>. QED  BY <2>1, <2>3
<1>8. /\ SlotsHeld(current') = SlotsHeld(current) + ReduceDepth(new)
      /\ Cardinality(OneSlot(current')) = Cardinality(OneSlot(current)) + One(new)
  BY <1>2, <1>4, <1>5, <1>6, BindCount
<1>9. TentativeDepth(new, smallIOs') = ReduceDepth(new) /\ ReduceDepth(new) \in Nat
  BY <1>2, GivenIsTakenBack
<1>10. Types'
  <2>1. virtualTime' \in Nat /\ depth' \in Nat
    BY <1>2, <1>4, <1>5, <1>9 DEF Item
  <2>2. DOMAIN current' \subseteq 0 .. itemId' - 1
    BY <1>2, <1>4, <1>7
  <2>. QED  BY <1>2, <1>4, <1>5, <1>7, <2>1, <2>2 DEF Types
<1>11. Ids'
  BY <1>2, <1>4, <1>5, <1>7 DEF Ids, Item
<1>12. SlotsAccounted'
  <2>1. depth' = SlotsHeld(current')
    BY <1>4, <1>5, <1>8, <1>9 DEF SlotsAccounted
  <2>2. TentativeDepth(new, smallIOs') + depth <= Depth
    BY <1>3 DEF IsFirstFit, Fits
  <2>. QED  BY <1>4, <1>5, <1>9, <2>1, <2>2 DEF SlotsAccounted
<1>13. ConnectionInOrder'
  <2> SUFFICES ASSUME NEW x \in queue, NEW r \in DOMAIN current',
                      x.sock = current'[r].sock, x.slots = current'[r].slots
               PROVE  r < x.id
    BY <1>5 DEF ConnectionInOrder
  <2>1. CASE r \in DOMAIN current
    BY <1>4, <1>7, <2>1 DEF ConnectionInOrder
  <2>2. CASE r = itemId
    <3>1. x.sock = c /\ x.slots = new.slots /\ x.id < itemId
      BY <1>2, <1>4, <1>7, <2>2 DEF Ids
    <3>2. Before(x, new)
      BY <1>2, <3>1 DEF Before
    <3>. QED  BY <1>3, <3>1, <3>2, ClassNotPassed
  <2>. QED  BY <1>7, <2>1, <2>2
<1>14. Factor > 1 => SmallCounted'
  <2> SUFFICES ASSUME Factor > 1 PROVE SmallCounted'
    OBVIOUS
  <2>1. smallIOs = Cardinality({x \in queue : x.slots = 1})
                     + Cardinality(OneSlot(current))
    BY DEF Inv, SmallCounted
  <2>2. Cardinality(Ones(queue)) \in Nat
    BY <1>2, <1>4, AddOne
  <2>3. Cardinality({x \in queue : x.slots = 1}) \in Nat
        /\ Cardinality(OneSlot(current)) \in Nat /\ One(new) \in Nat
    BY <1>4, <2>2, CountsAreNat DEF Ones, One
  <2>4. smallIOs' = Cardinality({x \in queue : x.slots = 1})
                     + Cardinality(OneSlot(current'))
    BY <1>2, <1>8, <2>1, <2>3
  <2>. QED  BY <1>5, <2>4 DEF SmallCounted
<1>15. NoStall'
  BY <1>7 DEF NoStall
<1>. QED  BY <1>10, <1>11, <1>12, <1>13, <1>14, <1>15 DEF Inv

(* The new request waits: for slots that an older one holds, or behind an  *)
(* older one that fits.                                                    *)
LEMMA EnqueueHoldKeeps ==
  ASSUME Inv, Balanced, NEW c \in Socks, NEW length \in Lengths,
         EnqueueHold(c, length)
  PROVE  Inv'
<1> DEFINE new == NewItem(c, length)
<1>1. /\ Arrive(c, length) /\ ~MayGo(new) /\ queue' = queue \cup {new}
      /\ UNCHANGED <<virtualTime, depth, current>>
  BY DEF EnqueueHold
<1>2. /\ new \in Item /\ new.id = itemId /\ new.sock = c /\ new \notin queue
      /\ lastFinish' \in [Apps -> Nat]
      /\ itemId' = itemId + 1 /\ itemId' \in 0 .. MaxItems
      /\ smallIOs' \in Int
      /\ Factor > 1 => smallIOs' = smallIOs + One(new)
  BY <1>1, NewArrives
<1>3. ~IsFirstFit(new, queue \cup {new}, smallIOs', depth)
  BY <1>1 DEF MayGo
<1> HIDE DEF new
<1>4. /\ queue \subseteq Item /\ IsFiniteSet(queue) /\ Released(current)
      /\ lastFinish \in [Apps -> Nat] /\ smallIOs \in Int /\ depth \in Nat
      /\ itemId \in Nat /\ DOMAIN current \subseteq 0 .. itemId - 1
      /\ virtualTime \in Nat
      /\ Ids /\ ConnectionInOrder /\ SlotsAccounted
      /\ Depth \in Nat
  BY SFQDFullAssumption DEF Inv, Types
<1>5. queue' = queue \cup {new} /\ UNCHANGED <<virtualTime, depth, current>>
  BY <1>1
<1>6. Types'
  <2>1. IsFiniteSet(queue')
    BY <1>4, <1>5, FS_AddElement
  <2>2. DOMAIN current' \subseteq 0 .. itemId' - 1
    BY <1>2, <1>4, <1>5
  <2>. QED  BY <1>2, <1>4, <1>5, <2>1, <2>2 DEF Types
<1>7. Ids'
  BY <1>2, <1>4, <1>5 DEF Ids, Item
<1>8. SlotsAccounted'
  BY <1>4, <1>5 DEF SlotsAccounted
<1>9. ConnectionInOrder'
  <2> SUFFICES ASSUME NEW x \in queue', NEW r \in DOMAIN current,
                      x.sock = current[r].sock, x.slots = current[r].slots
               PROVE  r < x.id
    BY <1>5 DEF ConnectionInOrder
  <2>1. CASE x \in queue
    BY <1>4, <2>1 DEF ConnectionInOrder
  <2>2. CASE x = new
    BY <1>2, <1>4, <2>2
  <2>. QED  BY <1>5, <2>1, <2>2
<1>10. Factor > 1 => SmallCounted'
  <2> SUFFICES ASSUME Factor > 1 PROVE SmallCounted'
    OBVIOUS
  <2>1. smallIOs = Cardinality(Ones(queue)) + Cardinality(OneSlot(current))
    BY DEF Inv, SmallCounted, Ones
  <2>2. /\ Cardinality(Ones(queue)) \in Nat
        /\ Cardinality(Ones(queue \cup {new})) = Cardinality(Ones(queue)) + One(new)
    BY <1>2, <1>4, AddOne
  <2>3. Cardinality(OneSlot(current)) \in Nat /\ One(new) \in Nat
    BY <1>4, CountsAreNat DEF One
  <2>4. smallIOs' = Cardinality(Ones(queue \cup {new})) + Cardinality(OneSlot(current))
    BY <1>2, <2>1, <2>2, <2>3
  <2>. QED  BY <1>5, <2>4 DEF SmallCounted, Ones
<1>11. Factor <= Depth => NoStall'
  <2> SUFFICES ASSUME Factor <= Depth, DOMAIN current = {} PROVE FALSE
    BY <1>5 DEF NoStall
  <2>1. queue = {} /\ depth = 0
    BY <1>4, NothingHeld DEF Inv, NoStall, SlotsAccounted
  <2>2. /\ TentativeDepth(new, smallIOs') = ReduceDepth(new)
        /\ ReduceDepth(new) \in Nat /\ ReduceDepth(new) <= Depth
    BY <1>2, GivenIsTakenBack
  <2>3. Fits(new, smallIOs', depth)
    BY <1>4, <2>1, <2>2 DEF Fits
  <2>4. ~Before(new, new)
    BY <1>2, SFQDFullAssumption DEF Before, Item
  <2>. QED  BY <1>3, <2>1, <2>3, <2>4 DEF IsFirstFit
<1>. QED  BY <1>6, <1>7, <1>8, <1>9, <1>10, <1>11 DEF Inv

(* What an answer takes off, before the list is scanned. *)
LEMMA AnswerTakesBack ==
  ASSUME Inv, NEW r \in DOMAIN current, Answered(r)
  PROVE  /\ Released(Unbind(current, r))
         /\ DOMAIN Unbind(current, r) = DOMAIN current \ {r}
         /\ \A s \in DOMAIN current \ {r} : Unbind(current, r)[s] = current[s]
         /\ SlotsHeld(Unbind(current, r)) = depth - ReduceDepth(current[r])
         /\ SlotsHeld(Unbind(current, r)) \in Nat
         /\ SlotsHeld(Unbind(current, r)) <= Depth
         /\ smallIOs' \in Int
         /\ Factor > 1 =>
              smallIOs' = Cardinality(Ones(queue))
                            + Cardinality(OneSlot(Unbind(current, r)))
<1>1. /\ Released(current) /\ depth = SlotsHeld(current) /\ depth <= Depth
      /\ smallIOs \in Int /\ IsFiniteSet(queue) /\ Depth \in Nat /\ depth \in Nat
      /\ smallIOs' = smallIOs - One(current[r])
      /\ Factor > 1 => SmallCounted
  BY SFQDFullAssumption DEF Inv, Types, SlotsAccounted, Answered, One
<1>2. current[r] \in Item
  BY <1>1 DEF Released
<1>3. /\ ReduceDepth(current[r]) \in Nat /\ One(current[r]) \in Nat
  BY <1>2, SFQDFullAssumption DEF ReduceDepth, Item, One
<1>4. /\ Released(Unbind(current, r))
      /\ DOMAIN Unbind(current, r) = DOMAIN current \ {r}
  BY <1>1, UnbindIsReleased
<1>5. \A s \in DOMAIN current \ {r} : Unbind(current, r)[s] = current[s]
  BY DEF Unbind
<1>6. /\ SlotsHeld(Unbind(current, r)) = SlotsHeld(current) - ReduceDepth(current[r])
      /\ Cardinality(OneSlot(Unbind(current, r)))
           = Cardinality(OneSlot(current)) - One(current[r])
  BY <1>1, UnbindCount
<1>7. SlotsHeld(Unbind(current, r)) \in Nat
  BY <1>4, CountsAreNat
<1>8. /\ SlotsHeld(Unbind(current, r)) = depth - ReduceDepth(current[r])
      /\ SlotsHeld(Unbind(current, r)) <= Depth
      /\ smallIOs' \in Int
  BY <1>1, <1>3, <1>6, <1>7
<1>9. Factor > 1 =>
        smallIOs' = Cardinality(Ones(queue)) + Cardinality(OneSlot(Unbind(current, r)))
  <2> SUFFICES ASSUME Factor > 1
               PROVE  smallIOs' = Cardinality(Ones(queue))
                                    + Cardinality(OneSlot(Unbind(current, r)))
    OBVIOUS
  <2>1. smallIOs = Cardinality(Ones(queue)) + Cardinality(OneSlot(current))
    BY <1>1 DEF SmallCounted, Ones
  <2>2. Cardinality(Ones(queue)) \in Nat
    <3>1. Ones(queue) \subseteq queue
      BY DEF Ones
    <3>. QED  BY <1>1, <3>1, FS_Subset, FS_CardinalityType
  <2>3. Cardinality(OneSlot(current)) \in Nat
    BY <1>1, CountsAreNat
  <2>. QED  BY <1>1, <1>3, <1>6, <2>1, <2>2, <2>3
<1>. QED  BY <1>4, <1>5, <1>7, <1>8, <1>9

(* The first item that fits goes, past no older one of its connection and  *)
(* class.                                                                  *)
LEMMA CompleteDispatchKeeps ==
  ASSUME Inv, Balanced, NEW r \in DOMAIN current, CompleteDispatch(r)
  PROVE  Inv'
<1> DEFINE left == Unbind(current, r)
<1> DEFINE used == depth - ReduceDepth(current[r])
<1>1. Answered(r) /\ UNCHANGED <<lastFinish, itemId>>
  BY DEF CompleteDispatch, Answered
<1>2. PICK h \in queue :
        /\ TakeFirstFit(h, queue, used)
        /\ current' = Bind(left, h.id, h)
  BY DEF CompleteDispatch
<1>3. /\ IsFirstFit(h, queue, smallIOs', used)
      /\ queue' = queue \ {h} /\ virtualTime' = h.start
      /\ depth' = used + TentativeDepth(h, smallIOs')
  BY <1>2 DEF TakeFirstFit
<1>4. /\ queue \subseteq Item /\ IsFiniteSet(queue) /\ Released(current)
      /\ lastFinish \in [Apps -> Nat] /\ itemId \in 0 .. MaxItems
      /\ DOMAIN current \subseteq 0 .. itemId - 1
      /\ Ids /\ ConnectionInOrder /\ MaxItems \in Nat /\ Depth \in Nat
  BY SFQDFullAssumption DEF Inv, Types
<1>5. /\ Released(left) /\ DOMAIN left = DOMAIN current \ {r}
      /\ \A s \in DOMAIN left : left[s] = current[s]
      /\ SlotsHeld(left) = used /\ used \in Nat
      /\ smallIOs' \in Int
      /\ Factor > 1 =>
           smallIOs' = Cardinality(Ones(queue)) + Cardinality(OneSlot(left))
  BY <1>1, AnswerTakesBack
<1> HIDE DEF left, used
<1>6. h \in Item /\ h.id \notin DOMAIN left /\ h.id < itemId /\ h.id \notin DOMAIN current
  BY <1>4, <1>5 DEF Ids
<1>7. /\ Released(current') /\ DOMAIN current' = DOMAIN left \cup {h.id}
      /\ current'[h.id] = h
  <2>1. Released(left) /\ h \in Item /\ current' = Bind(left, h.id, h)
    BY <1>2, <1>5, <1>6
  <2>2. /\ Released(Bind(left, h.id, h))
        /\ DOMAIN Bind(left, h.id, h) = DOMAIN left \cup {h.id}
        /\ Bind(left, h.id, h)[h.id] = h
    BY <2>1, BindIsReleased
  <2>. QED  BY <2>1, <2>2
<1>8. \A s \in DOMAIN left : current'[s] = current[s]
  BY <1>2, <1>5, <1>6 DEF Bind
<1>9. /\ SlotsHeld(current') = SlotsHeld(left) + ReduceDepth(h)
      /\ Cardinality(OneSlot(current')) = Cardinality(OneSlot(left)) + One(h)
  BY <1>2, <1>5, <1>6, BindCount
<1>10. TentativeDepth(h, smallIOs') = ReduceDepth(h) /\ ReduceDepth(h) \in Nat
  BY <1>6, GivenIsTakenBack
<1>11. Types'
  <2>1. virtualTime' \in Nat /\ depth' \in Nat
    BY <1>3, <1>5, <1>6, <1>10 DEF Item
  <2>2. IsFiniteSet(queue') /\ queue' \subseteq Item
    BY <1>3, <1>4, FS_RemoveElement
  <2>3. DOMAIN current' \subseteq 0 .. itemId' - 1
    BY <1>1, <1>4, <1>5, <1>6, <1>7 DEF Item
  <2>. QED  BY <1>1, <1>4, <1>5, <1>7, <2>1, <2>2, <2>3 DEF Types
<1>12. Ids'
  <2>1. \A x \in queue' : x.id < itemId' /\ x.id \notin DOMAIN current'
    BY <1>1, <1>3, <1>4, <1>5, <1>7 DEF Ids
  <2>2. \A x, y \in queue' : x.id = y.id => x = y
    BY <1>3, <1>4 DEF Ids
  <2>3. \A s \in DOMAIN current' : current'[s].id = s
    BY <1>4, <1>5, <1>7, <1>8 DEF Ids
  <2>. QED  BY <2>1, <2>2, <2>3 DEF Ids
<1>13. SlotsAccounted'
  <2>1. depth' = SlotsHeld(current')
    BY <1>3, <1>5, <1>9, <1>10
  <2>2. TentativeDepth(h, smallIOs') + used <= Depth
    BY <1>3 DEF IsFirstFit, Fits
  <2>. QED  BY <1>3, <1>4, <1>5, <1>10, <2>1, <2>2 DEF SlotsAccounted
<1>14. ConnectionInOrder'
  <2> SUFFICES ASSUME NEW x \in queue \ {h}, NEW q \in DOMAIN current',
                      x.sock = current'[q].sock, x.slots = current'[q].slots
               PROVE  q < x.id
    BY <1>3 DEF ConnectionInOrder
  <2>1. CASE q \in DOMAIN left
    BY <1>4, <1>5, <1>8, <2>1 DEF ConnectionInOrder
  <2>2. CASE q = h.id
    <3>1. x.sock = h.sock /\ x.slots = h.slots
      BY <1>7, <2>2
    <3>2. ~Before(x, h)
      BY <1>3, <3>1, ClassNotPassed
    <3>3. {x.id, h.id} \subseteq Nat /\ x.id # h.id
      BY <1>4 DEF Item, Ids
    <3>. QED  BY <2>2, <3>1, <3>2, <3>3 DEF Before
  <2>. QED  BY <1>7, <2>1, <2>2
<1>15. Factor > 1 => SmallCounted'
  <2> SUFFICES ASSUME Factor > 1 PROVE SmallCounted'
    OBVIOUS
  <2>1. Cardinality(Ones(queue \ {h})) = Cardinality(Ones(queue)) - One(h)
    BY <1>4, RemoveOne
  <2>2. Cardinality(Ones(queue)) \in Nat
    <3>1. Ones(queue) \subseteq queue
      BY DEF Ones
    <3>. QED  BY <1>4, <3>1, FS_Subset, FS_CardinalityType
  <2>3. Cardinality(OneSlot(left)) \in Nat /\ One(h) \in Nat
    BY <1>5, CountsAreNat DEF One
  <2>4. smallIOs' = Cardinality(Ones(queue \ {h})) + Cardinality(OneSlot(current'))
    BY <1>5, <1>9, <2>1, <2>2, <2>3
  <2>. QED  BY <1>3, <2>4 DEF SmallCounted, Ones
<1>16. NoStall'
  BY <1>7 DEF NoStall
<1>. QED  BY <1>11, <1>12, <1>13, <1>14, <1>15, <1>16 DEF Inv

(* Nothing fits, which at an idle server means that nothing waits. *)
LEMMA CompleteIdleKeeps ==
  ASSUME Inv, Balanced, NEW r \in DOMAIN current, CompleteIdle(r)
  PROVE  Inv'
<1> DEFINE left == Unbind(current, r)
<1>1. Answered(r) /\ UNCHANGED <<queue, virtualTime, lastFinish, itemId>>
  BY DEF CompleteIdle, Answered
<1>2. current' = left /\ depth' = depth - ReduceDepth(current[r])
      /\ \A x \in queue : ~Fits(x, smallIOs', depth')
  BY DEF CompleteIdle
<1>3. /\ queue \subseteq Item /\ IsFiniteSet(queue) /\ virtualTime \in Nat
      /\ lastFinish \in [Apps -> Nat] /\ itemId \in 0 .. MaxItems
      /\ DOMAIN current \subseteq 0 .. itemId - 1
      /\ Ids /\ ConnectionInOrder /\ Depth \in Nat
  BY SFQDFullAssumption DEF Inv, Types
<1>4. /\ Released(left) /\ DOMAIN left = DOMAIN current \ {r}
      /\ \A s \in DOMAIN left : left[s] = current[s]
      /\ SlotsHeld(left) = depth' /\ depth' \in Nat /\ depth' <= Depth
      /\ smallIOs' \in Int
      /\ Factor > 1 =>
           smallIOs' = Cardinality(Ones(queue)) + Cardinality(OneSlot(left))
  BY <1>1, <1>2, AnswerTakesBack
<1> HIDE DEF left
<1>5. Types'
  BY <1>1, <1>2, <1>3, <1>4 DEF Types
<1>6. Ids' /\ ConnectionInOrder'
  BY <1>1, <1>2, <1>3, <1>4 DEF Ids, ConnectionInOrder
<1>7. SlotsAccounted'
  BY <1>2, <1>4 DEF SlotsAccounted
<1>8. Factor > 1 => SmallCounted'
  BY <1>1, <1>2, <1>4 DEF SmallCounted, Ones
<1>9. Factor <= Depth => NoStall'
  <2> SUFFICES ASSUME Factor <= Depth, NEW x \in queue, DOMAIN left = {} PROVE FALSE
    BY <1>1, <1>2 DEF NoStall
  <2>1. depth' = 0
    BY <1>4, NothingHeld
  <2>2. /\ TentativeDepth(x, smallIOs') = ReduceDepth(x)
        /\ ReduceDepth(x) \in Nat /\ ReduceDepth(x) <= Depth
    BY <1>3, GivenIsTakenBack
  <2>3. Fits(x, smallIOs', depth')
    BY <1>3, <2>1, <2>2 DEF Fits
  <2>. QED  BY <1>2, <2>3
<1>. QED  BY <1>5, <1>6, <1>7, <1>8, <1>9 DEF Inv

-----------------------------------------------------------------------------
(* The theorems *)

LEMMA StutterKeeps == Inv /\ UNCHANGED vars => Inv'
BY DEF vars, Inv, Types, Ids, SlotsAccounted, ConnectionInOrder,
       SmallCounted, NoStall

LEMMA StepKeeps ==
  ASSUME Balanced, Inv, [Next]_vars
  PROVE  Inv'
<1>1. ASSUME NEW c \in Socks, NEW length \in Lengths, Enqueue(c, length) PROVE Inv'
  BY <1>1, EnqueueDispatchKeeps, EnqueueHoldKeeps DEF Enqueue
<1>2. ASSUME NEW r \in DOMAIN current, Complete(r) PROVE Inv'
  BY <1>2, CompleteDispatchKeeps, CompleteIdleKeeps DEF Complete
<1>. QED  BY <1>1, <1>2, StutterKeeps DEF Next

(* With balanced options, the invariant holds of every reachable state.    *)
THEOREM Invariance ==
  ASSUME Balanced
  PROVE  Spec => []Inv
<1>1. Init => Inv
  BY InitInv
<1>2. Inv /\ [Next]_vars => Inv'
  BY StepKeeps
<1>. QED  BY <1>1, <1>2, PTL DEF Spec

(* sfqdfull_current_depth is what the requests at the server hold, after   *)
(* any order of arrivals and completions, and within sfqdfull_depth.       *)
THEOREM SlotsExact ==
  ASSUME Balanced
  PROVE  Spec => []SlotsAccounted
<1>1. Inv => SlotsAccounted
  BY DEF Inv
<1>. QED  BY <1>1, Invariance, PTL

(* sfqdfull_small_ios counts the small requests in the system, if a large  *)
(* one takes more than one slot.                                           *)
THEOREM SmallExact ==
  ASSUME Balanced, Factor > 1
  PROVE  Spec => []SmallCounted
<1>1. Inv => SmallCounted
  BY DEF Inv
<1>. QED  BY <1>1, Invariance, PTL

(* The two scans agree: a released request has its own item.               *)
THEOREM OwnItemAlways ==
  ASSUME Balanced
  PROVE  Spec => []OwnItem
<1>1. Inv => OwnItem
  BY DEF Inv, Ids, OwnItem
<1>. QED  BY <1>1, Invariance, PTL

(* Requests of one connection and size class are released in order, even   *)
(* though items that do not fit are passed over.                           *)
THEOREM ConnectionOrder ==
  ASSUME Balanced
  PROVE  Spec => []ConnectionInOrder
<1>1. Inv => ConnectionInOrder
  BY DEF Inv
<1>. QED  BY <1>1, Invariance, PTL

(* Nobody waits for an idle server if a large request fits the depth at    *)
(* all; the shipped settings do not satisfy the assumption.                *)
THEOREM NeverStalls ==
  ASSUME Balanced, Factor <= Depth
  PROVE  Spec => []NoStall
<1>1. Inv => NoStall
  BY DEF Inv
<1>. QED  BY <1>1, Invariance, PTL

(* The globals keep their types; the count of small requests never goes    *)
(* below zero.                                                             *)
THEOREM Typing ==
  ASSUME Balanced
  PROVE  Spec => []TypeOK
<1>1. Inv => TypeOK
  <2> SUFFICES ASSUME Inv PROVE TypeOK
    OBVIOUS
  <2>1. Factor > 1 => smallIOs \in Nat
    <3> SUFFICES ASSUME Factor > 1 PROVE smallIOs \in Nat
      OBVIOUS
    <3>1. smallIOs = Cardinality(Ones(queue)) + Cardinality(OneSlot(current))
      BY DEF Inv, SmallCounted, Ones
    <3>2. Ones(queue) \subseteq queue /\ IsFiniteSet(queue)
      BY DEF Ones, Inv, Types
    <3>3. Cardinality(Ones(queue)) \in Nat
      BY <3>2, FS_Subset, FS_CardinalityType
    <3>4. Cardinality(OneSlot(current)) \in Nat
      BY CountsAreNat DEF Inv, Types
    <3>. QED  BY <3>1, <3>3, <3>4
  <2>. QED  BY <2>1 DEF Inv, Types, Released, TypeOK
<1>. QED  BY <1>1, Invariance, PTL

=============================================================================
