------------------------------- MODULE SFQD -------------------------------
(***************************************************************************)
(* The proxy's default scheduler, start-time fair queueing with depth      *)
(* (scheduler_SFQD.c), together with the glue by which the message loop    *)
(* drives it (message.c, proxy2.c): sch_enqueue when a request has been    *)
(* received, followed by sch_dequeue(NEW_IO) when it answers 1, and        *)
(* sch_dequeue(COMPLETE_IO) when the server has answered a request.        *)
(* The loop is single-threaded, so a handler is one step.                  *)
(*                                                                         *)
(* The list is kept as a set.  Items are appended and PINT_llist_sort, a   *)
(* stable merge sort on start tags, runs before an item is taken, so the   *)
(* head is the least item by start tag and, among equals, by item id.      *)
(***************************************************************************)
EXTENDS Integers, FiniteSets

CONSTANTS
  Apps,      \* applications, each with its own weight and finish tag
  Weight,    \* [Apps -> weight], config.c
  Depth,     \* sfqd_depth, "SFQD:depth"
  Sizes,     \* request lengths in bytes that occur
  MaxSize,   \* the longest request a client sends
  REDUCER,   \* bytes per unit of virtual time and weight
  MaxItems   \* bound: number of requests that arrive (sfqd_item_id)

ASSUME SFQDAssumption ==
  /\ Weight \in [Apps -> Nat \ {0}]
  /\ Depth \in Nat \ {0}
  /\ MaxSize \in Nat
  /\ Sizes \subseteq 1 .. MaxSize
  /\ REDUCER \in Nat \ {0}
  /\ MaxItems \in Nat

VARIABLES
  queue,       \* sfqd_llist_queue: the items held back
  sorted,      \* the list has been sorted since the last insertion
  virtualTime, \* sfqd_virtual_time
  lastFinish,  \* sfqd_last_finish_tags
  depth,       \* sfqd_current_depth
  itemId,      \* sfqd_item_id, the id of the next item
  current      \* [unlocked and unfinished requests -> rs->current_item]

vars == <<queue, sorted, virtualTime, lastFinish, depth, itemId, current>>

(* A request is named by the id of the item enqueued for it. *)
Item == [id : Nat, app : Apps, size : Sizes, start : Nat, finish : Nat]

Later(s, t) == IF s > t THEN s ELSE t

(* get_finish_tag: what a request of this size adds to its tag. *)
TagCost(size, weight) ==
  IF weight * REDUCER > size THEN 1 ELSE (size \div weight) \div REDUCER

(* Variants named ...Wrong are errors a change of the code could make; no   *)
(* definition uses them, and the README says which property notices each.  *)

(* The last finish tag alone, without MAX; the virtual time alone. *)
NewItemStaleWrong(a, size) ==
  [id |-> itemId, app |-> a, size |-> size, start |-> lastFinish[a],
   finish |-> lastFinish[a] + TagCost(size, Weight[a])]
NewItemForgetfulWrong(a, size) ==
  [id |-> itemId, app |-> a, size |-> size, start |-> virtualTime,
   finish |-> virtualTime + TagCost(size, Weight[a])]

(* The item sfqd_enqueue builds for a request of application a. *)
NewItem(a, size) ==
  LET start == Later(virtualTime, lastFinish[a])
  IN  [id |-> itemId, app |-> a, size |-> size,
       start |-> start, finish |-> start + TagCost(size, Weight[a])]

(* The comparison the other way round. *)
BeforeWrong(x, y) == y.start < x.start \/ (x.start = y.start /\ x.id < y.id)

(* x is taken before y: list_sfqd_sort_comp and the stability of the sort. *)
Before(x, y) == x.start < y.start \/ (x.start = y.start /\ x.id < y.id)

IsHead(h, items) == h \in items /\ \A x \in items \ {h} : Before(h, x)

(* rs->current_item = item and rs->locked = 0, for request r; request done *)
(* is finished and gone.                                                   *)
Bind(f, r, item) == [s \in DOMAIN f \cup {r} |-> IF s = r THEN item ELSE f[s]]
Unbind(f, done)  == [s \in DOMAIN f \ {done} |-> f[s]]

Init ==
  /\ queue = {}
  /\ sorted = FALSE
  /\ virtualTime = 0
  /\ lastFinish = [a \in Apps |-> 0]
  /\ depth = 0
  /\ itemId = 0
  /\ current = [r \in {} |-> r]

-----------------------------------------------------------------------------

(* What sfqd_enqueue does before it looks at the depth. *)
Arrive(a, size) ==
  /\ itemId < MaxItems
  /\ itemId' = itemId + 1
  /\ lastFinish' = [lastFinish EXCEPT ![a] = NewItem(a, size).finish]

(* The list is not marked sorted. *)
TakeHeadWrong(h, items) ==
  /\ IsHead(h, items)
  /\ queue' = items \ {h}
  /\ sorted' = FALSE
  /\ virtualTime' = h.start

(* sfqd_dequeue finds item h at the head of items. *)
TakeHead(h, items) ==
  /\ IsHead(h, items)
  /\ queue' = items \ {h}
  /\ sorted' = TRUE
  /\ virtualTime' = h.start

(* One slot too many. *)
EnqueueDispatchWrong(a, size) ==
  /\ depth <= Depth
  /\ Arrive(a, size)
  /\ depth' = depth + 1
  /\ \E h \in queue \cup {NewItem(a, size)} :
       /\ TakeHead(h, queue \cup {NewItem(a, size)})
       /\ current' = Bind(current, itemId, h)

(* A request comes while a slot is free: sfqd_enqueue answers 1 and the    *)
(* caller dequeues.  It binds whatever item it gets to the new request.    *)
EnqueueDispatch(a, size) ==
  /\ depth < Depth
  /\ Arrive(a, size)
  /\ depth' = depth + 1
  /\ \E h \in queue \cup {NewItem(a, size)} :
       /\ TakeHead(h, queue \cup {NewItem(a, size)})
       /\ current' = Bind(current, itemId, h)

(* A request comes while all slots are taken: it is locked and waits. *)
EnqueueHold(a, size) ==
  /\ depth >= Depth
  /\ Arrive(a, size)
  /\ queue' = queue \cup {NewItem(a, size)}
  /\ sorted' = FALSE
  /\ UNCHANGED <<virtualTime, depth, current>>

(* The slot is counted free although it is handed on. *)
CompleteDispatchWrong(r) ==
  /\ r \in DOMAIN current
  /\ \E h \in queue :
       /\ TakeHead(h, queue)
       /\ current' = Bind(Unbind(current, r), h.id, h)
  /\ depth' = depth - 1
  /\ UNCHANGED <<lastFinish, itemId>>

(* The server has answered request r and an item waits: the item's own     *)
(* request is unlocked and takes over the slot.                            *)
CompleteDispatch(r) ==
  /\ r \in DOMAIN current
  /\ \E h \in queue :
       /\ TakeHead(h, queue)
       /\ current' = Bind(Unbind(current, r), h.id, h)
  /\ UNCHANGED <<lastFinish, depth, itemId>>

(* The slot is freed whether an item waits or not. *)
CompleteIdleWrong(r) ==
  /\ r \in DOMAIN current
  /\ depth' = depth - 1
  /\ sorted' = TRUE
  /\ current' = Unbind(current, r)
  /\ UNCHANGED <<queue, virtualTime, lastFinish, itemId>>

(* The server has answered request r and nothing waits: the slot is freed. *)
CompleteIdle(r) ==
  /\ r \in DOMAIN current
  /\ queue = {}
  /\ depth' = depth - 1
  /\ sorted' = TRUE
  /\ current' = Unbind(current, r)
  /\ UNCHANGED <<queue, virtualTime, lastFinish, itemId>>

Enqueue(a, size) == EnqueueDispatch(a, size) \/ EnqueueHold(a, size)
Complete(r) == CompleteDispatch(r) \/ CompleteIdle(r)

Next ==
  \/ \E a \in Apps, size \in Sizes : Enqueue(a, size)
  \/ \E r \in DOMAIN current : Complete(r)

Spec == Init /\ [][Next]_vars

(* The server answers every request it holds: the only fairness assumed.   *)
(* Nothing is assumed of the clients.                                      *)
Fairness == \A r \in 0 .. MaxItems - 1 : WF_vars(Complete(r))

FairSpec == Spec /\ Fairness

-----------------------------------------------------------------------------
(* Correctness *)

(* Every variable has its type (the globals of scheduler_SFQD.c, and the   *)
(* current_item pointers of the unlocked requests).                        *)
TypeOK ==
  /\ queue \subseteq Item
  /\ sorted \in BOOLEAN
  /\ virtualTime \in Nat
  /\ lastFinish \in [Apps -> Nat]
  /\ depth \in 0 .. Depth
  /\ itemId \in 0 .. MaxItems
  /\ DOMAIN current \subseteq 0 .. itemId - 1
  /\ current \in [DOMAIN current -> Item]

(* sfqd_current_depth counts exactly the requests that have been released  *)
(* and not answered: no slot leaks and none is given out twice, however    *)
(* sfqd_enqueue's increments and sfqd_dequeue's decrements interleave.     *)
SlotsExact == depth = Cardinality(DOMAIN current)

(* .work_conserving = 1 (scheduler_SFQD.c): a request is held back only    *)
(* while every slot is taken.                                              *)
WorkConserving == queue # {} => depth = Depth

(* The caller of sfqd_enqueue assigns what sfqd_dequeue returns to the new *)
(* request without looking at it, and a completion asserts that the        *)
(* request it releases is still locked: a released request always holds    *)
(* its own item, and a request is never both released and queued.          *)
OwnItem ==
  /\ \A r \in DOMAIN current : current[r].id = r
  /\ \A x \in queue : x.id \notin DOMAIN current

(* PINT_llist_sort answers NULL for an empty list, and the list head would *)
(* be lost: whenever a completion can call sfqd_dequeue, an empty list is  *)
(* already marked sorted.                                                  *)
EmptyListNeverSorted == queue = {} /\ DOMAIN current # {} => sorted

(* The most one request of application a adds to its finish tag. *)
MaxCost(a) == TagCost(MaxSize, Weight[a])

(* Tags of one backlogged application neither fall behind the virtual time *)
(* nor run ahead of it by more than one request: the oldest item an        *)
(* application has waiting starts within one of its own requests of the    *)
(* virtual time, so that all backlogged applications advance together.     *)
HeadsNearVirtualTime ==
  \A x \in queue :
    /\ virtualTime <= x.start
    /\ (\A y \in queue : y.app = x.app => x.id <= y.id)
         => x.start <= virtualTime + MaxCost(x.app)

(* sfqd_virtual_time = next_queue_item->start_tag never takes the virtual  *)
(* time back.                                                              *)
VirtualTimeMonotone == [][virtualTime' >= virtualTime]_vars

(* Every request that is held back is released in the end, if the server   *)
(* answers what it has been given: no completion loses the hand-over.      *)
HeldIsReleased ==
  \A i \in 0 .. MaxItems - 1 :
    (\E x \in queue : x.id = i) ~> i \in DOMAIN current

(* The plug-in keeps the promise of the Dispatcher module. *)
Plugin == INSTANCE Dispatcher WITH
  waiting <- {[id |-> x.id, app |-> x.app] : x \in queue},
  serving <- {[id |-> r, app |-> current[r].app] : r \in DOMAIN current},
  arrived <- itemId

KeepsPromise == Plugin!Spec

=============================================================================
