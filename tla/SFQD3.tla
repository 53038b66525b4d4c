-------------------------------- MODULE SFQD3 --------------------------------
(***************************************************************************)
(* The plug-in that throttles (scheduler_SFQD3.c, .work_conserving = 0):   *)
(* one heap, depth and virtual time per application, and an application    *)
(* that is ahead of its share of the throughput by more than MaxDiff bytes *)
(* rests.  The message loop recomputes the differences at every completion *)
(* and, where one has dropped below the limit, dequeues with DIFF_CHANGE   *)
(* until it gets nothing, before it reports the completion itself.         *)
(***************************************************************************)
EXTENDS Integers, FiniteSets, Folds

CONSTANTS
  Apps,      \* applications
  Weight,    \* [Apps -> app_weight]; their sum is total_weight
  Depth,     \* [Apps -> sfqd3_depths]; the configuration sets the first two
  MaxDiff,   \* 10240 bytes
  Sizes,     \* request lengths in bytes that occur
  MaxItems   \* bound: number of requests that arrive

VARIABLES
  queue,       \* [Apps -> items]: sfqd3_heap_queues
  virtualTime, \* [Apps -> tag]: sfqd3_virtual_times
  lastFinish,  \* [Apps -> tag]
  depth,       \* [Apps -> sfqd3_current_depths]
  itemId,      \* sfqd3_item_id
  current,     \* [unlocked and unfinished requests -> rs->current_item]
  throughput,  \* [Apps -> app_throughput]
  diff,        \* [Apps -> diff]
  counting     \* first_receive: throughput is being counted

vars == <<queue, virtualTime, lastFinish, depth, itemId, current,
          throughput, diff, counting>>

Item == [id : Nat, app : Apps, size : Nat, start : Nat, finish : Nat]

Later(s, t) == IF s > t THEN s ELSE t

SumOf(f) == MapThenFoldSet(+, 0, LAMBDA a : f[a], LAMBDA S : CHOOSE a \in S : TRUE, Apps)

(* sfqd3_calculate_diff; C truncates the share towards zero and no share   *)
(* is negative.                                                            *)
CalculateDiff(t, a) == t[a] - (SumOf(t) * Weight[a]) \div SumOf(Weight)

(* REDUCER is 1 in this plug-in. *)
NewItem(a, size) ==
  LET start == Later(virtualTime[a], lastFinish[a])
  IN  [id |-> itemId, app |-> a, size |-> size,
       start |-> start, finish |-> start + size \div Weight[a]]

(* sfqd3_packet_cmp *)
Before(x, y) == x.start < y.start \/ (x.start = y.start /\ x.id < y.id)

(* What n calls of heap_take return. *)
First(n, items) == {x \in items : Cardinality({y \in items : Before(y, x)}) < n}

(* rs->current_item = item for the requests of these items, unlocked. *)
Release(f, items) ==
  [r \in DOMAIN f \cup {x.id : x \in items} |->
     IF r \in DOMAIN f THEN f[r] ELSE CHOOSE x \in items : x.id = r]
Unbind(f, done) == [r \in DOMAIN f \ {done} |-> f[r]]

Init ==
  /\ queue = [a \in Apps |-> {}]
  /\ virtualTime = [a \in Apps |-> 0]
  /\ lastFinish = [a \in Apps |-> 0]
  /\ depth = [a \in Apps |-> 0]
  /\ itemId = 0
  /\ current = [r \in {} |-> r]
  /\ throughput = [a \in Apps |-> 0]
  /\ diff = [a \in Apps |-> 0]
  /\ counting = FALSE

-----------------------------------------------------------------------------

(* An application of which sfqd3_get_next_request may take an item. *)
Eligible(d, n, q, a) == d[a] <= MaxDiff /\ n[a] < Depth[a] /\ q[a] # {}

(* The item it takes when it is not asked for one application: the least   *)
(* start tag, and the first application among equals; which one that is,   *)
(* is left open.                                                           *)
IsNext(h, d, n, q) ==
  \E a \in Apps :
    /\ Eligible(d, n, q, a) /\ h \in First(1, q[a])
    /\ \A b \in Apps : Eligible(d, n, q, b) => \A x \in First(1, q[b]) : h.start <= x.start

Arrive(a, size) ==
  /\ itemId < MaxItems
  /\ itemId' = itemId + 1
  /\ lastFinish' = [lastFinish EXCEPT ![a] = NewItem(a, size).finish]
  /\ UNCHANGED <<throughput, diff, counting>>

(* sfqd3_enqueue answers 1 only if nothing else of the application waits.  *)
MayGo(a) == diff[a] <= MaxDiff /\ depth[a] < Depth[a] /\ queue[a] = {}

(* The caller dequeues with NEW_IO and binds what it gets, of whichever    *)
(* application, to the new request.                                        *)
EnqueueDispatch(a, size) ==
  LET q == [queue EXCEPT ![a] = @ \cup {NewItem(a, size)}]
  IN  /\ MayGo(a)
      /\ Arrive(a, size)
      /\ \E h \in UNION {q[b] : b \in Apps} :
           /\ IsNext(h, diff, depth, q)
           /\ queue' = [q EXCEPT ![h.app] = @ \ {h}]
           /\ depth' = [depth EXCEPT ![h.app] = @ + 1]
           /\ virtualTime' = [virtualTime EXCEPT ![h.app] = h.start]
           /\ current' = [r \in DOMAIN current \cup {itemId} |->
                            IF r = itemId THEN h ELSE current[r]]

EnqueueHold(a, size) ==
  /\ ~MayGo(a)
  /\ Arrive(a, size)
  /\ queue' = [queue EXCEPT ![a] = @ \cup {NewItem(a, size)}]
  /\ UNCHANGED <<virtualTime, depth, current>>

(* Every application has been seen often enough (check_all_app_stat), or   *)
(* the proxy was started to count at once.                                 *)
StartCounting ==
  /\ ~counting
  /\ counting' = TRUE
  /\ UNCHANGED <<queue, virtualTime, lastFinish, depth, itemId, current, throughput, diff>>

(* Only one item is released when a difference drops below the limit. *)
ReleasedWrong(new, a) ==
  IF diff[a] > MaxDiff /\ new[a] <= MaxDiff /\ depth[a] < Depth[a]
  THEN First(1, queue[a]) ELSE {}

(* What DIFF_CHANGE releases for application a: as many items as it has    *)
(* free slots, if its difference drops below the limit.                    *)
Released(new, a) ==
  IF diff[a] > MaxDiff /\ new[a] <= MaxDiff
  THEN First(Depth[a] - depth[a], queue[a]) ELSE {}

(* The server has answered request r: the throughput is counted, the       *)
(* applications that need not rest any more are served, and then the slot  *)
(* of the completed request is free for the next item.                     *)
Complete(r) ==
  LET a     == current[r].app
      t     == IF counting THEN [throughput EXCEPT ![a] = @ + current[r].size]
                           ELSE throughput
      d     == IF counting THEN [b \in Apps |-> CalculateDiff(t, b)] ELSE diff
      woken == [b \in Apps |-> Released(d, b)]
      q     == [b \in Apps |-> queue[b] \ woken[b]]
      n     == [b \in Apps |-> depth[b] + Cardinality(woken[b])
                               - (IF b = a THEN 1 ELSE 0)]
      v     == [b \in Apps |-> IF woken[b] = {} THEN virtualTime[b]
                  ELSE CHOOSE s \in {x.start : x \in woken[b]} :
                         \A x \in woken[b] : x.start <= s]
      items == UNION {woken[b] : b \in Apps}
  IN  /\ r \in DOMAIN current
      /\ throughput' = t
      /\ diff' = d
      /\ \/ \E h \in UNION {q[b] : b \in Apps} :
              /\ IsNext(h, d, n, q)
              /\ queue' = [q EXCEPT ![h.app] = @ \ {h}]
              /\ depth' = [n EXCEPT ![h.app] = @ + 1]
              /\ virtualTime' = [v EXCEPT ![h.app] = h.start]
              /\ current' = Release(Unbind(current, r), items \cup {h})
         \/ /\ \A b \in Apps : ~Eligible(d, n, q, b)
            /\ queue' = q /\ depth' = n /\ virtualTime' = v
            /\ current' = Release(Unbind(current, r), items)
      /\ UNCHANGED <<lastFinish, itemId, counting>>

Next ==
  \/ \E a \in Apps, size \in Sizes : EnqueueDispatch(a, size) \/ EnqueueHold(a, size)
  \/ StartCounting
  \/ \E r \in DOMAIN current : Complete(r)

Spec == Init /\ [][Next]_vars

-----------------------------------------------------------------------------
(* Correctness *)

(* Every variable has its type. *)
TypeOK ==
  /\ queue \in [Apps -> SUBSET Item]
  /\ virtualTime \in [Apps -> Nat] /\ lastFinish \in [Apps -> Nat]
  /\ depth \in [Apps -> Nat] /\ itemId \in 0 .. MaxItems
  /\ DOMAIN current \subseteq 0 .. itemId - 1
  /\ current \in [DOMAIN current -> Item]
  /\ throughput \in [Apps -> Nat] /\ diff \in [Apps -> Int]
  /\ counting \in BOOLEAN

(* Each application's depth counts its own requests at the server, and the *)
(* item bound to a request is its own, although NEW_IO may be answered     *)
(* with an item of another application.                                    *)
OwnSlots ==
  /\ \A a \in Apps : depth[a] = Cardinality({r \in DOMAIN current : current[r].app = a})
  /\ \A r \in DOMAIN current : current[r].id = r
  /\ \A a \in Apps : \A x \in queue[a] : x.app = a /\ x.id \notin DOMAIN current

(* A request rests only while its application is ahead of its share or has *)
(* used up its depth: neither a completion nor a change of the differences *)
(* leaves a request behind that could go.                                  *)
NoneLeftBehind == \A a \in Apps : ~Eligible(diff, depth, queue, a)

(* Throttling delays requests and does nothing else: the slots stay exact  *)
(* and nothing else is ever the reason to wait.                            *)
OnlyThrottled == OwnSlots /\ NoneLeftBehind

=============================================================================
