-------------------------------- MODULE VDSFQ --------------------------------
(***************************************************************************)
(* Virtual DSFQ (scheduler_vDSFQ.c).  A proxy does not report bytes: it    *)
(* announces each application once, when the application's first request   *)
(* has come, and a request is delayed in proportion to the number of other *)
(* proxies that serve its application.  The announcement goes out with the *)
(* threads of module Broadcast, when Threshold applications are new or     *)
(* when a request comes after the timer has expired.                       *)
(*                                                                         *)
(* The list is a sequence here: it is sorted when a request is held back   *)
(* and not when one is taken.                                              *)
(***************************************************************************)
EXTENDS Integers, FiniteSets, Sequences, SequencesExt

CONSTANTS
  Apps,       \* applications, config.c
  Peers,      \* the other proxies
  Nothing,    \* the content of an empty buffer
  Weight,     \* [Apps -> weight]
  Depth,      \* vdsfq_depth, "VDSFQ:depth"
  Threshold,  \* vdsfq_threshold in applications, "VDSFQ:threshold"
  Sizes,      \* request lengths in bytes that occur
  PeerApps,   \* applications the other proxies serve
  VREDUCER,   \* bytes per unit of virtual time and weight
  MaxItems    \* bound: number of requests that arrive

VARIABLES
  queue,       \* vdsfq_llist_queue
  virtualTime, \* vdsfq_virtual_time
  lastFinish,  \* vdsfq_last_finish_tags
  depth,       \* vdsfq_current_depth
  itemId,      \* vdsfq_item_id
  current,     \* [unlocked and unfinished requests -> rs->current_item]
  local,       \* vapp_entries_local: 0 unknown, 1 to announce, 2 announced
  left,        \* vdsfq_left2: an application may be waiting to be announced
  pending,     \* request_receive_queue, per app
  ioCounter,   \* vdsfq_current_io_counter
  timeout,     \* vdsfq_timeout
  remote,      \* vapp_entries_remote: proxies that announced the app
  applying,    \* apps of the announcement the receiver still works on
  coordinator, worker, complete, begin, ready, outgoing, \* see Broadcast
  told,        \* the announcements each peer has got, per app
  heardOf      \* the apps each peer has announced to this proxy

queueVars     == <<queue, virtualTime, lastFinish, depth, itemId, current>>
countVars     == <<local, left, pending, ioCounter, timeout>>
broadcastVars == <<coordinator, worker, complete, begin, ready, outgoing>>
receiveVars   == <<remote, applying, heardOf>>
vars == <<queueVars, countVars, broadcastVars, receiveVars, told>>

B == INSTANCE Broadcast

Report == [Apps -> {0, 1}]
Item == [id : Nat, app : Apps, start : Nat, finish : Nat]

Later(s, t) == IF s > t THEN s ELSE t

(* The item vdsfq_enqueue builds: every proxy that serves the application  *)
(* delays its requests by their own length.                                *)
NewItem(a, size) ==
  LET late  == (remote[a] * size) \div (Weight[a] * VREDUCER)
      start == Later(virtualTime, lastFinish[a] + late)
  IN  [id |-> itemId, app |-> a, start |-> start,
       finish |-> start + (size \div Weight[a]) \div VREDUCER]

(* list_vdsfq_sort_comp and the stability of PINT_llist_sort. *)
Before(x, y) == x.start < y.start \/ (x.start = y.start /\ x.id < y.id)

(* The items of the list, no two of which are the same, in this order. *)
Sorted(list) ==
  CHOOSE s \in [DOMAIN list -> ToSet(list)] :
    /\ ToSet(s) = ToSet(list)
    /\ \A i, j \in DOMAIN s : i < j => Before(s[i], s[j])

Bind(f, r, item) == [s \in DOMAIN f \cup {r} |-> IF s = r THEN item ELSE f[s]]
Unbind(f, done)  == [s \in DOMAIN f \ {done} |-> f[s]]

Init ==
  /\ queue = <<>>
  /\ virtualTime = 0 /\ lastFinish = [a \in Apps |-> 0]
  /\ depth = 0 /\ itemId = 0 /\ current = [r \in {} |-> r]
  /\ local = [a \in Apps |-> 0] /\ left = 1
  /\ pending = [a \in Apps |-> 0] /\ ioCounter = 0 /\ timeout = 0
  /\ remote = [a \in Apps |-> 0] /\ applying = {}
  /\ heardOf = [q \in Peers |-> {}]
  /\ B!Init
  /\ told = [q \in Peers |-> [a \in Apps |-> 0]]

-----------------------------------------------------------------------------
(* The message loop *)

(* An application that has been announced is announced again. *)
CountWrong(a) ==
  LET new     == local[a] # 1
      left2   == IF new THEN 1 ELSE left
      counter == IF new THEN ioCounter + 1 ELSE ioCounter
  IN  /\ local' = [local EXCEPT ![a] = IF new THEN 1 ELSE @]
      /\ pending' = [pending EXCEPT ![a] = IF new THEN 1 ELSE @]
      /\ left' = left2
      /\ ioCounter' = counter
      /\ IF (left2 = 1 /\ timeout = 1) \/ counter >= Threshold
         THEN B!Arm
         ELSE UNCHANGED broadcastVars
      /\ UNCHANGED timeout

(* The first half of vdsfq_enqueue, under vdsfq_broadcast_mutex. *)
Count(a) ==
  LET new     == local[a] = 0
      left2   == IF new THEN 1 ELSE left
      counter == IF new THEN ioCounter + 1 ELSE ioCounter
  IN  /\ local' = [local EXCEPT ![a] = IF new THEN 1 ELSE @]
      /\ pending' = [pending EXCEPT ![a] = IF new THEN 1 ELSE @]
      /\ left' = left2
      /\ ioCounter' = counter
      /\ IF (left2 = 1 /\ timeout = 1) \/ counter >= Threshold
         THEN B!Arm
         ELSE UNCHANGED broadcastVars
      /\ UNCHANGED timeout

(* What the second half does before it looks at the depth. *)
Tag(a, size) ==
  /\ itemId < MaxItems
  /\ itemId' = itemId + 1
  /\ lastFinish' = [lastFinish EXCEPT ![a] = NewItem(a, size).finish]
  /\ UNCHANGED <<receiveVars, told>>

(* vdsfq_dequeue takes whatever is at the head of the list. *)
TakeHead(list) ==
  /\ queue' = Tail(list)
  /\ virtualTime' = Head(list).start

(* A request comes while a slot is free: it is appended, not sorted, and   *)
(* the caller dequeues.                                                    *)
EnqueueDispatch(a, size) ==
  /\ depth < Depth
  /\ Count(a)
  /\ Tag(a, size)
  /\ depth' = depth + 1
  /\ TakeHead(Append(queue, NewItem(a, size)))
  /\ current' = Bind(current, itemId, Head(Append(queue, NewItem(a, size))))

(* The list is not sorted. *)
EnqueueHoldWrong(a, size) ==
  /\ depth >= Depth
  /\ Count(a)
  /\ Tag(a, size)
  /\ queue' = <<NewItem(a, size)>> \o queue
  /\ UNCHANGED <<virtualTime, depth, current>>

(* A request comes while all slots are taken: the list is sorted. *)
EnqueueHold(a, size) ==
  /\ depth >= Depth
  /\ Count(a)
  /\ Tag(a, size)
  /\ queue' = Sorted(Append(queue, NewItem(a, size)))
  /\ UNCHANGED <<virtualTime, depth, current>>

(* The server has answered request r and an item waits. *)
CompleteDispatch(r) ==
  /\ r \in DOMAIN current
  /\ queue # <<>>
  /\ TakeHead(queue)
  /\ current' = Bind(Unbind(current, r), Head(queue).id, Head(queue))
  /\ UNCHANGED <<lastFinish, depth, itemId>>
  /\ UNCHANGED <<countVars, broadcastVars, receiveVars, told>>

(* The server has answered request r and nothing waits. *)
CompleteIdle(r) ==
  /\ r \in DOMAIN current
  /\ queue = <<>>
  /\ depth' = depth - 1
  /\ current' = Unbind(current, r)
  /\ UNCHANGED <<queue, virtualTime, lastFinish, itemId>>
  /\ UNCHANGED <<countVars, broadcastVars, receiveVars, told>>

-----------------------------------------------------------------------------
(* The timer, the coordinator, the worker and the receiver *)

(* vdsfq_timeout_work sets a flag the next request looks at; it holds no   *)
(* mutex and wakes nobody.                                                 *)
Tick ==
  /\ timeout = 0
  /\ timeout' = 1
  /\ UNCHANGED <<local, left, pending, ioCounter>>
  /\ UNCHANGED <<queueVars, broadcastVars, receiveVars, told>>

(* What the coordinator puts into every buffer. *)
Announcement == [a \in Apps |-> IF local[a] = 1 THEN pending[a] ELSE 0]

(* The coordinator announces the new applications. *)
Launch ==
  /\ B!Launch(Announcement)
  /\ local' = [a \in Apps |-> IF local[a] = 1 THEN 2 ELSE local[a]]
  /\ pending' = [a \in Apps |-> 0]
  /\ left' = 0
  /\ ioCounter' = 0
  /\ timeout' = 0
  /\ UNCHANGED <<queueVars, receiveVars, told>>

(* Peer q gets its announcement. *)
Send(q) ==
  /\ B!Send(q)
  /\ told' = [told EXCEPT ![q] = [a \in Apps |-> @[a] + outgoing[q][a]]]
  /\ UNCHANGED <<queueVars, countVars, receiveVars>>

(* The other steps of coordinator and worker. *)
OtherBroadcast ==
  /\ B!Wait \/ B!StartSending \/ B!Finish
  /\ UNCHANGED <<queueVars, countVars, receiveVars, told>>

(* Peer q announces apps it has not announced yet, which is what q's own   *)
(* coordinator sends.                                                      *)
Receive(q) ==
  /\ applying = {}
  /\ \E apps \in SUBSET (PeerApps \ heardOf[q]) \ {{}} :
       /\ applying' = apps
       /\ heardOf' = [heardOf EXCEPT ![q] = @ \cup apps]
  /\ UNCHANGED <<remote, queueVars, countVars, broadcastVars, told>>

(* The receiver takes the queue mutex once per application. *)
Apply(a) ==
  /\ a \in applying
  /\ remote' = [remote EXCEPT ![a] = @ + 1]
  /\ applying' = applying \ {a}
  /\ UNCHANGED <<heardOf, queueVars, countVars, broadcastVars, told>>

Next ==
  \/ \E a \in Apps, size \in Sizes : EnqueueDispatch(a, size) \/ EnqueueHold(a, size)
  \/ \E r \in DOMAIN current : CompleteDispatch(r) \/ CompleteIdle(r)
  \/ Tick \/ Launch \/ OtherBroadcast \/ \E q \in Peers : Send(q)
  \/ \E q \in Peers : Receive(q)
  \/ \E a \in Apps : Apply(a)

Spec == Init /\ [][Next]_vars

-----------------------------------------------------------------------------
(* Correctness *)

(* Every variable has its type (globals of scheduler_vDSFQ.c). *)
TypeOK ==
  /\ queue \in Seq(Item)
  /\ virtualTime \in Nat /\ lastFinish \in [Apps -> Nat]
  /\ depth \in 0 .. Depth /\ itemId \in 0 .. MaxItems
  /\ DOMAIN current \subseteq 0 .. itemId - 1
  /\ current \in [DOMAIN current -> Item]
  /\ local \in [Apps -> 0 .. 2] /\ left \in {0, 1}
  /\ pending \in Report /\ ioCounter \in Nat /\ timeout \in {0, 1}
  /\ remote \in [Apps -> Nat] /\ applying \subseteq Apps
  /\ heardOf \in [Peers -> SUBSET Apps]
  /\ B!TypeOK(Report)
  /\ told \in [Peers -> Report]

Carried(q) == IF outgoing[q] = Nothing THEN [a \in Apps |-> 0] ELSE outgoing[q]

(* "make sure that this value gets updated to 1 only once": every peer is  *)
(* told of an application exactly once, by the broadcast that marks it.    *)
AnnouncedOnce ==
  \A a \in Apps :
    /\ pending[a] = (IF local[a] = 1 THEN 1 ELSE 0)
    /\ \A q \in Peers :
         told[q][a] + Carried(q)[a] = (IF local[a] = 2 THEN 1 ELSE 0)

(* The threads do not sleep through a signal; when Threshold applications  *)
(* are new the coordinator will find threshold_ready; and it never sends a *)
(* broadcast without news, however the timer interferes.                   *)
BroadcastsNews ==
  /\ B!NoLostWakeup
  /\ B!BuffersHandedOver
  /\ ioCounter = Cardinality({a \in Apps : local[a] = 1})
  /\ ioCounter >= Threshold => ready
  /\ ready => ioCounter > 0
  /\ left = 0 => ioCounter = 0

(* A request of an application is delayed once per proxy that announced    *)
(* the application, and no proxy is counted twice.                         *)
RemoteCountsProxies ==
  \A a \in Apps :
    remote[a] + (IF a \in applying THEN 1 ELSE 0)
      = Cardinality({q \in Peers : a \in heardOf[q]})

(* The plug-in keeps the promise of the Dispatcher module, although it     *)
(* does not sort before it takes the head of the list.                     *)
Plugin == INSTANCE Dispatcher WITH
  waiting <- {[id |-> x.id, app |-> x.app] : x \in ToSet(queue)},
  serving <- {[id |-> r, app |-> current[r].app] : r \in DOMAIN current},
  arrived <- itemId
KeepsPromise == Plugin!Spec

=============================================================================
