----------------------------- MODULE MCBroadcast -----------------------------
(***************************************************************************)
(* Model of the plug-ins that talk to other proxies.  The run has one part *)
(* per subject, chosen in the first state: DSFQ, whose variables this      *)
(* module inherits, VDSFQ with a threshold of its own, VDSFQ2, and         *)
(* the meeting of three proxies at the start.                              *)
(***************************************************************************)
EXTENDS DSFQ, Sequences, TLC

CONSTANTS a1, a2, p1, p2, p3
CONSTANTS
  VThreshold,  \* vdsfq_threshold, in applications
  VPeerApps,   \* applications the other proxies announce
  VItems       \* bound: requests that arrive at the virtual plug-ins

(* What the virtual plug-ins add to the assumption of DSFQ. *)
ASSUME VirtualAssumption ==
  /\ IsFiniteSet(Apps) /\ IsFiniteSet(Peers)
  /\ VPeerApps \subseteq Apps
  /\ VThreshold \in Nat \ {0}
  /\ VItems \in Nat

VARIABLES
  subject,
  vqueue, vtime, vfinish, vdepth, vid, vcurrent, local, left, vpending,
  vcounter, timeout, remote, vapplying, vcoordinator, vworker, vcomplete,
  vbegin, vready, voutgoing, vtold, heardOf,
  main, acceptor, connected, backlog, accepted

vvars == <<vqueue, vtime, vfinish, vdepth, vid, vcurrent, local, left,
           vpending, vcounter, timeout, remote, vapplying, vcoordinator,
           vworker, vcomplete, vbegin, vready, voutgoing, vtold, heardOf>>
rvars == <<main, acceptor, connected, backlog, accepted>>
allVars == <<subject, vars, vvars, rvars>>

V == INSTANCE VDSFQ WITH
  Threshold <- VThreshold, VREDUCER <- REDUCER, PeerApps <- VPeerApps, MaxItems <- VItems,
  queue <- vqueue, virtualTime <- vtime, lastFinish <- vfinish,
  depth <- vdepth, itemId <- vid, current <- vcurrent, pending <- vpending,
  ioCounter <- vcounter, applying <- vapplying, coordinator <- vcoordinator,
  worker <- vworker, complete <- vcomplete, begin <- vbegin, ready <- vready,
  outgoing <- voutgoing, told <- vtold

V2 == INSTANCE VDSFQ2 WITH
  VREDUCER2 <- REDUCER, PeerApps <- VPeerApps, MaxItems <- VItems,
  queue <- vqueue, virtualTime <- vtime, lastFinish <- vfinish,
  depth <- vdepth, itemId <- vid, current <- vcurrent, pending <- vpending,
  ioCounter <- vcounter, applying <- vapplying, coordinator <- vcoordinator,
  worker <- vworker, complete <- vcomplete, begin <- vbegin, ready <- vready,
  outgoing <- voutgoing, told <- vtold

R == INSTANCE Rendezvous WITH Names <- <<p1, p2, p3>>

MCWeight == (a1 :> 1) @@ (a2 :> 2)
MCReports == {(a1 :> 5) @@ (a2 :> 1)}

MCInit ==
  /\ subject \in {"dsfq", "vdsfq", "vdsfq2", "start"}
  /\ Init /\ V!Init /\ R!Init

MCNext ==
  /\ UNCHANGED subject
  /\ \/ subject = "dsfq" /\ Next /\ UNCHANGED <<vvars, rvars>>
     \/ subject = "vdsfq" /\ V!Next /\ UNCHANGED <<vars, rvars>>
     \/ subject = "vdsfq2" /\ V2!Next /\ UNCHANGED <<vars, rvars>>
     \/ subject = "start" /\ R!Next /\ UNCHANGED <<vars, vvars>>

(* The fairness of DSFQ and of the start, while they are the subject. *)
MCFairness ==
  /\ WF_allVars(subject = "dsfq" /\ Launch /\ UNCHANGED <<subject, vvars, rvars>>)
  /\ WF_allVars(subject = "dsfq" /\ OtherBroadcast /\ UNCHANGED <<subject, vvars, rvars>>)
  /\ \A q \in Peers :
       WF_allVars(subject = "dsfq" /\ Send(q) /\ UNCHANGED <<subject, vvars, rvars>>)
  /\ \A p \in {p1, p2, p3} :
       WF_allVars(subject = "start" /\ R!Step(p) /\ UNCHANGED <<subject, vars, vvars>>)

MCSpec == MCInit /\ [][MCNext]_allVars /\ MCFairness

(* Every variable has its type. *)
TypesOK == TypeOK /\ V!TypeOK

(* vDSFQ and vDSFQ2 announce every application exactly once to every peer, *)
(* lose no signal, and vDSFQ2 never leaves an application to its timer.    *)
Announcements ==
  /\ V!AnnouncedOnce
  /\ V!RemoteCountsProxies
  /\ subject = "vdsfq" => V!BroadcastsNews
  /\ subject = "vdsfq2" => V2!V!BroadcastsNews /\ V2!NeverWaitsForTimer

(* DSFQ, vDSFQ and vDSFQ2 keep the promise of module Dispatcher. *)
PromisesKept == KeepsPromise /\ V!KeepsPromise

(* The proxies come up, in whatever order they are started. *)
AllStart == subject = "start" => <>[]R!AllWiredUp

=============================================================================
