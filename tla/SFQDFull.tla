------------------------------ MODULE SFQDFull ------------------------------
(***************************************************************************)
(* scheduler_SFQD_Full.c: SFQ(D) over data and metadata requests, in which *)
(* a large request takes Factor slots of the depth and the list is scanned *)
(* for the first item that fits.  A metadata request is one of length      *)
(* MetaCost.  As in module SFQD, a step is a whole handler of the message  *)
(* loop with the glue around it (message.c).                               *)
(*                                                                         *)
(* The list is kept in the order of the clients' sockets, not in that of   *)
(* the tags: see Before.  An application is a range of client addresses    *)
(* and so may have several connections.                                    *)
(*                                                                         *)
(* sfqdfull_enqueue decides by a scan of its own whether the new request   *)
(* may go; the caller then lets sfqdfull_dequeue scan again, and binds     *)
(* what that scan returns to the new request.                              *)
(***************************************************************************)
EXTENDS Integers, FiniteSets

CONSTANTS
  Apps,       \* applications
  Socks,      \* sockets of the clients, by descriptor
  AppOf,      \* [Socks -> application of the client], app_index of a socket
  Weight,     \* [Apps -> weight]
  Depth,      \* sfqdfull_depth
  Factor,     \* sfqdfull_large_io_factor
  Threshold,  \* sfqdfull_large_io_threshold
  HardBlock,  \* sfqdfull_enable_hard_block
  LargeBlock, \* sfqdfull_enable_large_io_blocking
  Lengths,    \* lengths that occur, MetaCost for a metadata request
  REDUCER,    \* bytes per unit of virtual time and weight
  MaxItems    \* bound: number of requests that arrive

ASSUME SFQDFullAssumption ==
  /\ Socks \subseteq Nat /\ AppOf \in [Socks -> Apps]
  /\ Weight \in [Apps -> Nat \ {0}]
  /\ {Depth, Factor, REDUCER} \subseteq Nat \ {0}
  /\ {HardBlock, LargeBlock} \subseteq BOOLEAN
  /\ Lengths \subseteq Nat \ {0}
  /\ {Threshold, MaxItems} \subseteq Nat

VARIABLES
  queue,       \* sfqdfull_llist_queue
  virtualTime, \* sfqdfull_virtual_time
  lastFinish,  \* sfqdfull_last_finish_tags
  depth,       \* sfqdfull_current_depth
  smallIOs,    \* sfqdfull_small_ios
  itemId,      \* sfqdfull_item_id
  current      \* [unlocked and unfinished requests -> rs->current_item]

vars == <<queue, virtualTime, lastFinish, depth, smallIOs, itemId, current>>

Item == [id : Nat, sock : Socks, slots : {1, Factor}, start : Nat]

Later(s, t) == IF s > t THEN s ELSE t

(* sfqdfull_get_finish_tag *)
TagCost(length, weight) ==
  IF weight * REDUCER > length THEN 1 ELSE (length \div weight) \div REDUCER

IsSmall(length) == length <= Threshold

(* Variants named ...Wrong are errors a change of the code could make; no   *)
(* definition uses them, and the README says which property notices each.  *)

(* The item sfqdfull_enqueue builds for a request on socket c. *)
NewItem(c, length) ==
  [id |-> itemId, sock |-> c, slots |-> IF IsSmall(length) THEN 1 ELSE Factor,
   start |-> Later(virtualTime, lastFinish[AppOf[c]])]

(* The list is sorted by a stable sort at each insertion.  Its comparison  *)
(* casts an item to struct sfqd_queue_item, whose second int is start_tag; *)
(* that of struct sfqdfull_queue_item, which begins with its depth, is     *)
(* request_socket.                                                         *)
Before(x, y) == x.sock < y.sock \/ (x.sock = y.sock /\ x.id < y.id)

(* The slots x would take, with `small' small requests in the system. *)
TentativeDepth(x, small) ==
  IF (small > 0 /\ LargeBlock) \/ HardBlock THEN x.slots ELSE 1

(* x fits when `used' slots are taken. *)
Fits(x, small, used) == TentativeDepth(x, small) + used <= Depth

(* The scan goes on and returns the last item that fits. *)
IsFirstFitWrong(x, items, small, used) ==
  /\ x \in items
  /\ Fits(x, small, used)
  /\ \A y \in items : Before(x, y) => ~Fits(y, small, used)

(* The scans of sfqdfull_enqueue and sfqdfull_dequeue stop at this item. *)
IsFirstFit(x, items, small, used) ==
  /\ x \in items
  /\ Fits(x, small, used)
  /\ \A y \in items : Before(y, x) => ~Fits(y, small, used)

(* The soft rule in every mode; the factor in every mode. *)
ReduceDepthOneWrong(item) == 1
ReduceDepthFactorWrong(item) == Factor

(* The slots the dequeue after the completion of item takes back. *)
ReduceDepth(item) == IF HardBlock THEN item.slots ELSE 1

Bind(f, r, item) == [s \in DOMAIN f \cup {r} |-> IF s = r THEN item ELSE f[s]]
Unbind(f, done)  == [s \in DOMAIN f \ {done} |-> f[s]]

Init ==
  /\ queue = {}
  /\ virtualTime = 0
  /\ lastFinish = [a \in Apps |-> 0]
  /\ depth = 0
  /\ smallIOs = 0
  /\ itemId = 0
  /\ current = [r \in {} |-> r]

-----------------------------------------------------------------------------

(* What sfqdfull_enqueue does for a request before its scan. *)
Arrive(c, length) ==
  /\ itemId < MaxItems
  /\ itemId' = itemId + 1
  /\ lastFinish' = [lastFinish EXCEPT
       ![AppOf[c]] = NewItem(c, length).start + TagCost(length, Weight[AppOf[c]])]
  /\ smallIOs' = smallIOs + (IF IsSmall(length) THEN 1 ELSE 0)

(* The older items are not looked at. *)
MayGoWrong(new) == Fits(new, smallIOs', depth)

(* sfqdfull_enqueue answers 1: no older item fits, and the new one does. *)
MayGo(new) == IsFirstFit(new, queue \cup {new}, smallIOs', depth)

(* sfqdfull_dequeue takes h out of items, with `used' slots left taken. *)
TakeFirstFit(h, items, used) ==
  /\ IsFirstFit(h, items, smallIOs', used)
  /\ queue' = items \ {h}
  /\ virtualTime' = h.start
  /\ depth' = used + TentativeDepth(h, smallIOs')

(* The new request is released with what the second scan returns. *)
EnqueueDispatch(c, length) ==
  LET new == NewItem(c, length)
  IN  /\ Arrive(c, length)
      /\ MayGo(new)
      /\ \E h \in queue \cup {new} :
           /\ TakeFirstFit(h, queue \cup {new}, depth)
           /\ current' = Bind(current, itemId, h)

(* The new request is locked, although an older item may fit. *)
EnqueueHold(c, length) ==
  LET new == NewItem(c, length)
  IN  /\ Arrive(c, length)
      /\ ~MayGo(new)
      /\ queue' = queue \cup {new}
      /\ UNCHANGED <<virtualTime, depth, current>>

(* Every completion is counted as a small one. *)
AnsweredWrong(r) ==
  /\ r \in DOMAIN current
  /\ smallIOs' = smallIOs - 1
  /\ UNCHANGED <<lastFinish, itemId>>

(* sfqdfull_dequeue(COMPLETE_IO): the request leaves the count of small    *)
(* ones if it took one slot, whatever its length.                          *)
Answered(r) ==
  /\ r \in DOMAIN current
  /\ smallIOs' = smallIOs - (IF current[r].slots = 1 THEN 1 ELSE 0)
  /\ UNCHANGED <<lastFinish, itemId>>

(* The first item that fits is released in its place. *)
CompleteDispatch(r) ==
  /\ Answered(r)
  /\ \E h \in queue :
       /\ TakeFirstFit(h, queue, depth - ReduceDepth(current[r]))
       /\ current' = Bind(Unbind(current, r), h.id, h)

(* The list is not scanned. *)
CompleteIdleWrong(r) ==
  /\ Answered(r)
  /\ depth' = depth - ReduceDepth(current[r])
  /\ current' = Unbind(current, r)
  /\ UNCHANGED <<queue, virtualTime>>

(* No item fits, although some may wait: the slots stay free. *)
CompleteIdle(r) ==
  /\ Answered(r)
  /\ \A x \in queue : ~Fits(x, smallIOs', depth - ReduceDepth(current[r]))
  /\ depth' = depth - ReduceDepth(current[r])
  /\ current' = Unbind(current, r)
  /\ UNCHANGED <<queue, virtualTime>>

Enqueue(c, length) == EnqueueDispatch(c, length) \/ EnqueueHold(c, length)
Complete(r) == CompleteDispatch(r) \/ CompleteIdle(r)

Next ==
  \/ \E c \in Socks, length \in Lengths : Enqueue(c, length)
  \/ \E r \in DOMAIN current : Complete(r)

Spec == Init /\ [][Next]_vars

(* The server answers every request it holds. *)
Fairness == \A r \in 0 .. MaxItems - 1 : WF_vars(Complete(r))

FairSpec == Spec /\ Fairness

-----------------------------------------------------------------------------
(* Correctness *)

(* The globals of scheduler_SFQD_Full.c have their types. *)
TypeOK ==
  /\ queue \subseteq Item
  /\ virtualTime \in Nat
  /\ lastFinish \in [Apps -> Nat]
  /\ depth \in Nat
  /\ Factor > 1 => smallIOs \in Nat
  /\ itemId \in 0 .. MaxItems
  /\ current \in [DOMAIN current -> Item]
  /\ DOMAIN current \subseteq 0 .. itemId - 1

(* The slots the requests of f hold at the server. *)
OneSlot(f) == {r \in DOMAIN f : f[r].slots = 1}
SlotsHeld(f) ==
  IF HardBlock
  THEN Cardinality(OneSlot(f)) + Factor * Cardinality(DOMAIN f \ OneSlot(f))
  ELSE Cardinality(DOMAIN f)

(* sfqdfull_current_depth: what a dequeue adds for an item is what the     *)
(* completion of that item takes back, whatever has come in between, and   *)
(* the server never holds more than sfqdfull_depth slots of work.          *)
SlotsAccounted == depth = SlotsHeld(current) /\ depth <= Depth

(* sfqdfull_small_ios, counted up by the length of a request and down by   *)
(* the slots of its item, is the number of small requests in the system.   *)
SmallCounted ==
  smallIOs = Cardinality({x \in queue : x.slots = 1}) + Cardinality(OneSlot(current))

(* The scan that lets a new request go and the scan that then takes an     *)
(* item agree: a released request holds its own item and is not queued.    *)
OwnItem ==
  /\ \A r \in DOMAIN current : current[r].id = r
  /\ \A x \in queue : x.id \notin DOMAIN current

(* However often the scan passes over an item that does not fit, a client  *)
(* does not overtake itself: of one connection, the requests of one size   *)
(* class are released in the order they came.                              *)
ConnectionInOrder ==
  \A x \in queue, r \in DOMAIN current :
    x.sock = current[r].sock /\ x.slots = current[r].slots => r < x.id

(* What list_sfqd_sort_comp says of the list, "ordered first by tag for    *)
(* inter-app barrier, then by queue_item_id by natural coming order": the  *)
(* item a completion releases is the first of its size class by tag.       *)
TagBefore(x, y) == x.start < y.start \/ (x.start = y.start /\ x.id < y.id)
ReleasedByTag ==
  [][\A h \in queue \ queue', x \in queue' : x.slots = h.slots => TagBefore(h, x)]_vars

(* .work_conserving = 1, in its weakest sense: nobody waits for an idle    *)
(* server.  The framework dispatches only on an arrival or a completion,   *)
(* so a waiting request needs a completion to come.  It takes Factor to be *)
(* no more than Depth.                                                     *)
NoStall == queue # {} => DOMAIN current # {}

(* Every request that is held back is released once arrivals cease. *)
HeldIsReleased ==
  \A i \in 0 .. MaxItems - 1 :
    (\E x \in queue : x.id = i) ~> i \in DOMAIN current

=============================================================================
