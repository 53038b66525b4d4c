------------------------------- MODULE VDSFQ2 -------------------------------
(***************************************************************************)
(* scheduler_vDSFQ2.c: the code of scheduler_vDSFQ.c with every global     *)
(* renamed and a default threshold of one application.  An application is  *)
(* announced by its first request and the timer has no part in it.         *)
(***************************************************************************)
EXTENDS Integers, FiniteSets, Sequences

CONSTANTS
  Apps, Peers, Nothing, Weight, Depth, Sizes, PeerApps, VREDUCER2, MaxItems
  \* see VDSFQ

VARIABLES
  queue, virtualTime, lastFinish, depth, itemId, current,
  local, left, pending, ioCounter, timeout, remote, applying,
  coordinator, worker, complete, begin, ready, outgoing, told, heardOf

(* vdsfq2_threshold *)
DefaultThreshold == 1

V == INSTANCE VDSFQ WITH Threshold <- DefaultThreshold, VREDUCER <- VREDUCER2

vars == V!vars
Init == V!Init

(* vdsfq2_enqueue with the dequeue of its caller *)
Enqueue(a, size) == V!EnqueueDispatch(a, size) \/ V!EnqueueHold(a, size)

(* vdsfq2_dequeue for a completion *)
Complete(r) == V!CompleteDispatch(r) \/ V!CompleteIdle(r)

(* vdsfq2_timeout_work *)
Tick == V!Tick

(* vdsfq2_broadcast_trigger_work and vdsfq2_proxy_broadcast_work *)
Launch == V!Launch
Work == V!OtherBroadcast \/ \E q \in Peers : V!Send(q)

(* vdsfq2_proxy_receive_work *)
Receive == (\E q \in Peers : V!Receive(q)) \/ \E a \in Apps : V!Apply(a)

Next ==
  \/ \E a \in Apps, size \in Sizes : Enqueue(a, size)
  \/ \E r \in DOMAIN current : Complete(r)
  \/ Tick \/ Launch \/ Work \/ Receive

Spec == Init /\ [][Next]_vars

-----------------------------------------------------------------------------
(* Correctness *)

(* An application is never left to the timer and a later request: as long  *)
(* as it is not announced, the coordinator has threshold_ready to find.    *)
NeverWaitsForTimer == (\E a \in Apps : local[a] = 1) => ready

=============================================================================
