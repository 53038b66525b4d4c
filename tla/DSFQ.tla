-------------------------------- MODULE DSFQ --------------------------------
(***************************************************************************)
(* Distributed start-time fair queueing (scheduler_DSFQ.c).  Like SFQD,    *)
(* but every proxy tells the others how many bytes each application has    *)
(* asked it for, and a request is delayed by what its application has been *)
(* given elsewhere.  Four threads work on this state: the message loop     *)
(* (Enqueue, Complete), the coordinator and the worker of the broadcast    *)
(* (module Broadcast), and the receiver of the other proxies' reports.     *)
(*                                                                         *)
(* One proxy is modelled in full; a peer is what it has been told (told)   *)
(* and the reports it sends.  dsfq_enqueue counts under one mutex and tags *)
(* under another; no thread uses both halves, so it is one step here.      *)
(***************************************************************************)
EXTENDS Integers, FiniteSets

CONSTANTS
  Apps,       \* applications, config.c
  Peers,      \* the other proxies
  Nothing,    \* the content of an empty buffer
  Weight,     \* [Apps -> weight]
  Depth,      \* dsfq_depth, "DSFQ:depth"
  Threshold,  \* dsfq_threshold in bytes, "DSFQ:threshold"
  Sizes,      \* request lengths in bytes that occur
  MaxSize,    \* the longest request a client sends
  PeerReports,\* the reports a peer may send, [Apps -> bytes]
  REDUCER,    \* bytes per unit of virtual time and weight
  MaxItems,   \* bound: number of requests that arrive
  MaxReports  \* bound: number of reports that arrive from peers

ASSUME DSFQAssumption ==
  /\ Nothing \notin [Apps -> Nat]
  /\ Weight \in [Apps -> Nat \ {0}]
  /\ Depth \in Nat \ {0}
  /\ Threshold \in Nat \ {0}
  /\ MaxSize \in Nat
  /\ Sizes \subseteq 1 .. MaxSize
  /\ PeerReports \subseteq [Apps -> Nat]
  /\ REDUCER \in Nat \ {0}
  /\ MaxItems \in Nat
  /\ MaxReports \in Nat

(* Variants named ...Wrong are errors a change of the code could make. *)

VARIABLES
  queue,       \* dsfq_llist_queue
  sorted,      \* ~dsfq_new_item_added
  virtualTime, \* dsfq_virtual_time
  lastFinish,  \* dsfq_last_finish_tags
  depth,       \* dsfq_current_depth
  itemId,      \* dsfq_item_id
  current,     \* [unlocked and unfinished requests -> rs->current_item]
  pending,     \* request_receive_queue: bytes not reported yet, per app
  ioCounter,   \* dsfq_current_io_counter
  delay,       \* dsfq_delay_values: bytes served elsewhere, not charged yet
  applying,    \* what is left of the report the receiver works on
  coordinator, worker, complete, begin, ready, outgoing, \* see Broadcast
  told,        \* the bytes each peer has been told of, per app
  asked,       \* history: all bytes asked of this proxy, per app
  heard,       \* history: all bytes in the reports of the peers, per app
  charged,     \* history: the delays taken over by requests, per app
  reports      \* number of reports received

queueVars     == <<queue, sorted, virtualTime, lastFinish, depth, itemId, current>>
countVars     == <<pending, ioCounter, asked>>
broadcastVars == <<coordinator, worker, complete, begin, ready, outgoing>>
receiveVars   == <<delay, applying, heard, charged, reports>>
vars == <<queueVars, countVars, broadcastVars, receiveVars, told>>

B == INSTANCE Broadcast

Report == [Apps -> Nat]
Item == [id : Nat, app : Apps, start : Nat, finish : Nat]

Later(s, t) == IF s > t THEN s ELSE t

(* The item dsfq_enqueue builds: the application's last finish tag is      *)
(* moved on by what it has been given elsewhere.                           *)
NewItem(a, size) ==
  LET late  == delay[a] \div (Weight[a] * REDUCER)
      start == Later(virtualTime, lastFinish[a] + late)
  IN  [id |-> itemId, app |-> a, start |-> start,
       finish |-> start + (size \div Weight[a]) \div REDUCER]

(* list_dsfq_sort_comp and the stability of the sort. *)
Before(x, y) == x.start < y.start \/ (x.start = y.start /\ x.id < y.id)

IsHead(h, items) == h \in items /\ \A x \in items \ {h} : Before(h, x)

Bind(f, r, item) == [s \in DOMAIN f \cup {r} |-> IF s = r THEN item ELSE f[s]]
Unbind(f, done)  == [s \in DOMAIN f \ {done} |-> f[s]]

Init ==
  /\ queue = {} /\ sorted = TRUE
  /\ virtualTime = 0 /\ lastFinish = [a \in Apps |-> 0]
  /\ depth = 0 /\ itemId = 0 /\ current = [r \in {} |-> r]
  /\ pending = [a \in Apps |-> 0] /\ ioCounter = 0
  /\ delay = [a \in Apps |-> 0] /\ applying = [a \in {} |-> 0]
  /\ B!Init
  /\ told = [q \in Peers |-> [a \in Apps |-> 0]]
  /\ asked = [a \in Apps |-> 0]
  /\ heard = [a \in Apps |-> 0] /\ charged = [a \in Apps |-> 0]
  /\ reports = 0

-----------------------------------------------------------------------------
(* The message loop *)

(* A later request wakes the coordinator only if it reaches the threshold  *)
(* by itself.                                                              *)
CountWrong(a, size) ==
  /\ pending' = [pending EXCEPT ![a] = @ + size]
  /\ ioCounter' = ioCounter + size
  /\ asked' = [asked EXCEPT ![a] = @ + size]
  /\ IF ioCounter + size = Threshold THEN B!Arm ELSE UNCHANGED broadcastVars

(* The first half of dsfq_enqueue, under dsfq_broadcast_mutex. *)
Count(a, size) ==
  /\ pending' = [pending EXCEPT ![a] = @ + size]
  /\ ioCounter' = ioCounter + size
  /\ asked' = [asked EXCEPT ![a] = @ + size]
  /\ IF ioCounter + size >= Threshold THEN B!Arm ELSE UNCHANGED broadcastVars

(* The delay is charged and kept. *)
TagWrong(a, size) ==
  /\ itemId < MaxItems
  /\ itemId' = itemId + 1
  /\ lastFinish' = [lastFinish EXCEPT ![a] = NewItem(a, size).finish]
  /\ charged' = [charged EXCEPT ![a] = @ + delay[a]]
  /\ UNCHANGED <<delay, applying, heard, reports, told>>

(* The second half, under dsfq_queue_mutex: the application's delay is     *)
(* charged to this request and its tags are set.                           *)
Tag(a, size) ==
  /\ itemId < MaxItems
  /\ itemId' = itemId + 1
  /\ lastFinish' = [lastFinish EXCEPT ![a] = NewItem(a, size).finish]
  /\ charged' = [charged EXCEPT ![a] = @ + delay[a]]
  /\ delay' = [delay EXCEPT ![a] = 0]
  /\ UNCHANGED <<applying, heard, reports, told>>

(* dsfq_dequeue finds item h at the head of items. *)
TakeHead(h, items) ==
  /\ IsHead(h, items)
  /\ queue' = items \ {h}
  /\ sorted' = TRUE
  /\ virtualTime' = h.start

(* A request comes while a slot is free: dsfq_enqueue answers 1 and the    *)
(* caller dequeues.                                                        *)
EnqueueDispatch(a, size) ==
  /\ depth < Depth
  /\ Count(a, size)
  /\ Tag(a, size)
  /\ depth' = depth + 1
  /\ \E h \in queue \cup {NewItem(a, size)} :
       /\ TakeHead(h, queue \cup {NewItem(a, size)})
       /\ current' = Bind(current, itemId, h)

(* A request comes while all slots are taken: it waits. *)
EnqueueHold(a, size) ==
  /\ depth >= Depth
  /\ Count(a, size)
  /\ Tag(a, size)
  /\ queue' = queue \cup {NewItem(a, size)}
  /\ sorted' = FALSE
  /\ UNCHANGED <<virtualTime, depth, current>>

(* The slot is counted free although it is handed on. *)
CompleteDispatchWrong(r) ==
  /\ r \in DOMAIN current
  /\ \E h \in queue :
       /\ TakeHead(h, queue)
       /\ current' = Bind(Unbind(current, r), h.id, h)
  /\ depth' = depth - 1
  /\ UNCHANGED <<lastFinish, itemId, countVars, broadcastVars, receiveVars, told>>

(* The server has answered request r and an item waits. *)
CompleteDispatch(r) ==
  /\ r \in DOMAIN current
  /\ \E h \in queue :
       /\ TakeHead(h, queue)
       /\ current' = Bind(Unbind(current, r), h.id, h)
  /\ UNCHANGED <<lastFinish, depth, itemId>>
  /\ UNCHANGED <<countVars, broadcastVars, receiveVars, told>>

(* The server has answered request r and nothing waits. *)
CompleteIdle(r) ==
  /\ r \in DOMAIN current
  /\ queue = {}
  /\ depth' = depth - 1
  /\ sorted' = TRUE
  /\ current' = Unbind(current, r)
  /\ UNCHANGED <<queue, virtualTime, lastFinish, itemId>>
  /\ UNCHANGED <<countVars, broadcastVars, receiveVars, told>>

-----------------------------------------------------------------------------
(* The coordinator, the worker and the receiver *)

(* The bytes that have been reported are not taken out of the count. *)
LaunchWrong ==
  /\ B!Launch(pending)
  /\ ioCounter' = 0
  /\ UNCHANGED <<pending, asked, queueVars, receiveVars, told>>

(* The coordinator reports what has been asked since the last broadcast    *)
(* and starts counting anew, all under the broadcast mutex.                *)
Launch ==
  /\ B!Launch(pending)
  /\ pending' = [a \in Apps |-> 0]
  /\ ioCounter' = 0
  /\ UNCHANGED <<asked, queueVars, receiveVars, told>>

(* Peer q gets its report. *)
Send(q) ==
  /\ B!Send(q)
  /\ told' = [told EXCEPT ![q] = [a \in Apps |-> @[a] + outgoing[q][a]]]
  /\ UNCHANGED <<queueVars, countVars, receiveVars>>

(* The other steps of coordinator and worker. *)
OtherBroadcast ==
  /\ B!Wait \/ B!StartSending \/ B!Finish
  /\ UNCHANGED <<queueVars, countVars, receiveVars, told>>

(* A whole report has been received from a peer.  A message that arrives   *)
(* in pieces is not modelled (see README).                                 *)
Receive ==
  /\ applying = [a \in {} |-> 0]
  /\ reports < MaxReports
  /\ reports' = reports + 1
  /\ \E report \in PeerReports :
       /\ applying' = report
       /\ heard' = [a \in Apps |-> heard[a] + report[a]]
  /\ UNCHANGED <<delay, charged, queueVars, countVars, broadcastVars, told>>

(* The receiver takes the queue mutex once per application of a report. *)
Apply(a) ==
  /\ a \in DOMAIN applying
  /\ delay' = [delay EXCEPT ![a] = @ + applying[a]]
  /\ applying' = Unbind(applying, a)
  /\ UNCHANGED <<heard, charged, reports, queueVars, countVars, broadcastVars, told>>

Next ==
  \/ \E a \in Apps, size \in Sizes : EnqueueDispatch(a, size) \/ EnqueueHold(a, size)
  \/ \E r \in DOMAIN current : CompleteDispatch(r) \/ CompleteIdle(r)
  \/ Launch \/ OtherBroadcast \/ \E q \in Peers : Send(q)
  \/ Receive \/ \E a \in Apps : Apply(a)

Spec == Init /\ [][Next]_vars

(* The threads of the broadcast are scheduled and the peers' sockets drain.*)
(* Nothing is assumed of clients, server and the peers' own reports.       *)
Fairness ==
  /\ WF_vars(Launch)
  /\ WF_vars(OtherBroadcast)
  /\ \A q \in Peers : WF_vars(Send(q))

FairSpec == Spec /\ Fairness

-----------------------------------------------------------------------------
(* Correctness *)

(* Every variable has its type (globals of scheduler_DSFQ.c). *)
TypeOK ==
  /\ queue \subseteq Item /\ sorted \in BOOLEAN
  /\ virtualTime \in Nat /\ lastFinish \in [Apps -> Nat]
  /\ depth \in 0 .. Depth /\ itemId \in 0 .. MaxItems
  /\ DOMAIN current \subseteq 0 .. itemId - 1
  /\ current \in [DOMAIN current -> Item]
  /\ pending \in Report /\ ioCounter \in Nat
  /\ delay \in Report
  /\ DOMAIN applying \subseteq Apps /\ applying \in [DOMAIN applying -> Nat]
  /\ B!TypeOK(Report)
  /\ told \in [Peers -> Report]
  /\ asked \in Report /\ heard \in Report /\ charged \in Report
  /\ reports \in 0 .. MaxReports

(* What a buffer still has to tell. *)
Carried(q) == IF outgoing[q] = Nothing THEN [a \in Apps |-> 0] ELSE outgoing[q]

(* Every byte asked of this proxy is reported to every peer exactly once:  *)
(* it has been told, is in the peer's buffer, or is counted for the next   *)
(* broadcast, whatever the loop adds while the threads send.               *)
BytesReportedOnce ==
  \A q \in Peers, a \in Apps : asked[a] = told[q][a] + Carried(q)[a] + pending[a]

(* Every byte a peer reports is charged to exactly one request of its      *)
(* application: dsfq_delay_values is added to by the receiver and cleared  *)
(* by dsfq_enqueue, app by app and under the queue mutex.                  *)
BytesChargedOnce ==
  \A a \in Apps :
    heard[a] = charged[a] + delay[a]
               + (IF a \in DOMAIN applying THEN applying[a] ELSE 0)

(* No thread of the broadcast sleeps through its signal, none refills a    *)
(* buffer in use, and a reached threshold is never forgotten: while the    *)
(* coordinator does not find threshold_ready, no application has a         *)
(* threshold's worth of bytes the peers have not been told of.             *)
NoStrandedBroadcast ==
  /\ B!NoLostWakeup
  /\ B!BuffersHandedOver
  /\ ready = (ioCounter >= Threshold)
  /\ \A a \in Apps : pending[a] <= ioCounter

(* When the threshold is reached, what has been counted is handed to the   *)
(* worker in the end, and what the worker has been given reaches every     *)
(* peer, however many requests come meanwhile.                             *)
EveryPeerTold ==
  /\ ready ~> ioCounter = 0
  /\ \A q \in Peers : outgoing[q] # Nothing ~> outgoing[q] = Nothing

(* However late a delay makes a request start, the plug-in keeps the       *)
(* promise of the Dispatcher module.                                       *)
Plugin == INSTANCE Dispatcher WITH
  waiting <- {[id |-> x.id, app |-> x.app] : x \in queue},
  serving <- {[id |-> r, app |-> current[r].app] : r \in DOMAIN current},
  arrived <- itemId
KeepsPromise == Plugin!Spec

=============================================================================
