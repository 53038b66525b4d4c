-------------------------------- MODULE SFQD2 --------------------------------
(***************************************************************************)
(* SFQD with two classes of requests, small and large, each with a heap, a *)
(* depth and a virtual time of its own (scheduler_SFQD2.c).  The class of  *)
(* a request is found from its length when it is enqueued, and from the    *)
(* size the message loop reports when it is completed: the length again    *)
(* for a new request, the size of the whole request, over all servers, for *)
(* a write, what has been read for a read.  The two need not agree.        *)
(***************************************************************************)
EXTENDS Integers, FiniteSets

CONSTANTS
  Apps,        \* applications
  Cost,        \* [Class -> [Apps -> tag cost]]: length / weight / REDUCER
  Limit,       \* [Class -> slots]: sfqd2_depth_small, sfqd2_depth_large
  Kinds,       \* requests that occur: [class, done], the class when enqueued
               \* and the class when completed
  MaxRequests  \* bound: number of requests that arrive

Class == {"small", "large"}

VARIABLES
  queue,       \* [Class -> items]: sfqd2_heap_queue_small, _large
  virtualTime, \* [Class -> tag]
  lastFinish,  \* [Class -> [Apps -> tag]]
  depth,       \* [Class -> sfqd2_current_depth]
  itemId,      \* sfqd2_item_id
  current,     \* [unlocked and unfinished requests -> rs->current_item]
  crossed      \* history: a request has been completed in the other class

vars == <<queue, virtualTime, lastFinish, depth, itemId, current, crossed>>

Item == [id : Nat, app : Apps, kind : Kinds, start : Nat, finish : Nat]

Later(s, t) == IF s > t THEN s ELSE t

NewItem(a, kind) ==
  LET c     == kind.class
      start == Later(virtualTime[c], lastFinish[c][a])
  IN  [id |-> itemId, app |-> a, kind |-> kind,
       start |-> start, finish |-> start + Cost[c][a]]

(* sfqd2_packet_cmp; heap_take answers with the first by it. *)
Before(x, y) == x.start < y.start \/ (x.start = y.start /\ x.id < y.id)

IsHead(h, items) == h \in items /\ \A x \in items \ {h} : Before(h, x)

Bind(f, r, item) == [s \in DOMAIN f \cup {r} |-> IF s = r THEN item ELSE f[s]]
Unbind(f, done)  == [s \in DOMAIN f \ {done} |-> f[s]]

Init ==
  /\ queue = [c \in Class |-> {}]
  /\ virtualTime = [c \in Class |-> 0]
  /\ lastFinish = [c \in Class |-> [a \in Apps |-> 0]]
  /\ depth = [c \in Class |-> 0]
  /\ itemId = 0
  /\ current = [r \in {} |-> r]
  /\ crossed = FALSE

-----------------------------------------------------------------------------

Arrive(a, kind) ==
  /\ itemId < MaxRequests
  /\ itemId' = itemId + 1
  /\ lastFinish' = [lastFinish EXCEPT ![kind.class][a] = NewItem(a, kind).finish]
  /\ UNCHANGED crossed

(* sfqd2_get_next_request takes item h of class c; items is the heap. *)
Take(h, c, items) ==
  /\ IsHead(h, items)
  /\ queue' = [queue EXCEPT ![c] = items \ {h}]
  /\ virtualTime' = [virtualTime EXCEPT ![c] = h.start]

(* A request comes while its class has a free slot: the caller takes the   *)
(* head of that class and binds it to the new request.                     *)
EnqueueDispatch(a, kind) ==
  LET c == kind.class
  IN  /\ depth[c] < Limit[c]
      /\ Arrive(a, kind)
      /\ depth' = [depth EXCEPT ![c] = @ + 1]
      /\ \E h \in queue[c] \cup {NewItem(a, kind)} :
           /\ Take(h, c, queue[c] \cup {NewItem(a, kind)})
           /\ current' = Bind(current, itemId, h)

EnqueueHold(a, kind) ==
  LET c == kind.class
  IN  /\ depth[c] >= Limit[c]
      /\ Arrive(a, kind)
      /\ queue' = [queue EXCEPT ![c] = @ \cup {NewItem(a, kind)}]
      /\ UNCHANGED <<virtualTime, depth, current>>

(* The server has answered request r: an item of the class reported with   *)
(* the completion takes over the slot.                                     *)
CompleteDispatch(r) ==
  /\ r \in DOMAIN current
  /\ \E h \in queue[current[r].kind.done] :
       /\ Take(h, current[r].kind.done, queue[current[r].kind.done])
       /\ current' = Bind(Unbind(current, r), h.id, h)
  /\ crossed' = (crossed \/ current[r].kind.done # current[r].kind.class)
  /\ UNCHANGED <<lastFinish, depth, itemId>>

(* The slot of the wrong class is freed. *)
CompleteIdleWrong(r) ==
  /\ r \in DOMAIN current
  /\ queue[current[r].kind.done] = {}
  /\ depth' = [depth EXCEPT !["large"] = @ - 1]
  /\ current' = Unbind(current, r)
  /\ crossed' = (crossed \/ current[r].kind.done # current[r].kind.class)
  /\ UNCHANGED <<queue, virtualTime, lastFinish, itemId>>

(* No item of that class waits: its counter goes down, below zero if the   *)
(* request was counted in the other class.                                 *)
CompleteIdle(r) ==
  /\ r \in DOMAIN current
  /\ queue[current[r].kind.done] = {}
  /\ depth' = [depth EXCEPT ![current[r].kind.done] = @ - 1]
  /\ current' = Unbind(current, r)
  /\ crossed' = (crossed \/ current[r].kind.done # current[r].kind.class)
  /\ UNCHANGED <<queue, virtualTime, lastFinish, itemId>>

Next ==
  \/ \E a \in Apps, kind \in Kinds : EnqueueDispatch(a, kind) \/ EnqueueHold(a, kind)
  \/ \E r \in DOMAIN current : CompleteDispatch(r) \/ CompleteIdle(r)

Spec == Init /\ [][Next]_vars

-----------------------------------------------------------------------------
(* Correctness *)

(* Every variable has its type; a depth may go below zero. *)
TypeOK ==
  /\ queue \in [Class -> SUBSET Item]
  /\ virtualTime \in [Class -> Nat]
  /\ lastFinish \in [Class -> [Apps -> Nat]]
  /\ depth \in [Class -> Int] /\ itemId \in 0 .. MaxRequests
  /\ DOMAIN current \subseteq 0 .. itemId - 1
  /\ current \in [DOMAIN current -> Item]
  /\ crossed \in BOOLEAN

InClass(c) == {r \in DOMAIN current : current[r].kind.class = c}

(* Whatever the sizes reported with completions, the two depths together   *)
(* count the requests at the server, and a request waits only while its    *)
(* class seems full.                                                       *)
SlotsTogether ==
  /\ depth["small"] + depth["large"] = Cardinality(DOMAIN current)
  /\ \A c \in Class : queue[c] # {} => depth[c] = Limit[c]

(* As long as every request has been completed in the class it was         *)
(* enqueued in, each class counts its own requests: a small request never  *)
(* waits for a large one.                                                  *)
ClassesApart == ~crossed => \A c \in Class : depth[c] = Cardinality(InClass(c))

(* The item bound to a request is its own, whichever class it came from.   *)
OwnItem ==
  /\ \A r \in DOMAIN current : current[r].id = r
  /\ \A c \in Class : \A x \in queue[c] : x.id \notin DOMAIN current

(* Slots are neither lost nor invented between the two classes, whatever   *)
(* sizes are reported with completions, and items stay with their requests.*)
ClassesSound == SlotsTogether /\ ClassesApart /\ OwnItem

=============================================================================
