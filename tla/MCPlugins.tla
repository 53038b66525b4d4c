------------------------------ MODULE MCPlugins ------------------------------
(***************************************************************************)
(* Model of the plug-ins SFQD3, whose variables this module inherits,      *)
(* SFQD2 and 2LSFQD.  The run has one part per subject, chosen in the      *)
(* first state.                                                            *)
(***************************************************************************)
EXTENDS SFQD3, Sequences, TLC

CONSTANTS a1, a2, c1, c2, c3
CONSTANTS CCost, CLimit, CKinds  \* of SFQD2: Cost, Limit, Kinds
CONSTANTS CItems                 \* bound: requests that arrive at SFQD2
CONSTANTS NumApps, Conns, TSizes, Full, Initial, Infinite  \* of 2LSFQD
CONSTANTS TItems                 \* bound: requests that arrive at 2LSFQD

VARIABLES
  subject,
  cqueue, ctime, cfinish, cdepth, cid, ccurrent, crossed,
  creditQueue, credits, turn, edf, late, outstanding, threshold, dispatched,
  unlocked, calls, nextId, shared, corrupted

cvars == <<cqueue, ctime, cfinish, cdepth, cid, ccurrent, crossed>>
tvars == <<creditQueue, credits, turn, edf, late, outstanding, threshold,
           dispatched, unlocked, calls, nextId, shared, corrupted>>
allVars == <<subject, vars, cvars, tvars>>

C == INSTANCE SFQD2 WITH
  Cost <- CCost, Limit <- CLimit, Kinds <- CKinds, MaxRequests <- CItems,
  queue <- cqueue, virtualTime <- ctime, lastFinish <- cfinish,
  depth <- cdepth, itemId <- cid, current <- ccurrent

T == INSTANCE TwoLSFQD WITH Sizes <- TSizes, MaxRequests <- TItems

MCWeight == (a1 :> 1) @@ (a2 :> 2)
MCDepth == (a1 :> 2) @@ (a2 :> 1)

(* A write to several servers may be small when it is enqueued and large   *)
(* when it is completed, with the size of the whole request; a large read  *)
(* that ends within its first 64 KiB, at the end of the file, is large     *)
(* when it is enqueued and small when it is completed.                     *)
MCCost == [small |-> (a1 :> 1) @@ (a2 :> 2), large |-> (a1 :> 2) @@ (a2 :> 4)]
MCLimit == [small |-> 1, large |-> 2]
MCKinds == {[class |-> "small", done |-> "small"],
            [class |-> "small", done |-> "large"],
            [class |-> "large", done |-> "large"],
            [class |-> "large", done |-> "small"]}

MCFull == (0 :> 2) @@ (1 :> 3)
MCInitial == (0 :> 4) @@ (1 :> 3)

ConnSymmetry == Permutations(Conns)

MCInit ==
  /\ subject \in {"sfqd3", "sfqd2", "2lsfqd"}
  /\ Init /\ C!Init /\ T!Init

MCNext ==
  /\ UNCHANGED subject
  /\ \/ subject = "sfqd3" /\ Next /\ UNCHANGED <<cvars, tvars>>
     \/ subject = "sfqd2" /\ C!Next /\ UNCHANGED <<vars, tvars>>
     \/ subject = "2lsfqd" /\ T!Next /\ UNCHANGED <<vars, cvars>>

MCSpec == MCInit /\ [][MCNext]_allVars

(* Every variable has its type. *)
TypesOK == TypeOK /\ C!TypeOK /\ T!TypeOK

(* SFQD2 keeps its two depths together, its classes apart while sizes      *)
(* agree, and every item with its request.                                 *)
ClassesSound == C!ClassesSound

(* 2LSFQD counts what it lets go, and holds nothing back without a reason. *)
TwoLevels == T!LetGoCounted /\ T!NothingHeldBack

=============================================================================
