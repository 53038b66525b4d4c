---------------------------- MODULE DSFQ_proofs ----------------------------
(***************************************************************************)
(* Proofs about DSFQ, for every set of applications and of peers, every    *)
(* assignment of weights, every depth and threshold, all request sizes and *)
(* all reports.  The invariant has one part for the message loop's queue,  *)
(* one for what is counted and broadcast, one for what is received; an     *)
(* action disturbs the parts whose threads it belongs to.  The last        *)
(* sections carry the theorems of VDSFQ over to the instances of           *)
(* MCBroadcast, for the properties that its run checks.                    *)
(***************************************************************************)
EXTENDS MCBroadcast, FiniteSetTheorems, TLAPS

-----------------------------------------------------------------------------
(* The inductive invariant *)

(* The part that module SFQD has, too: slots are counted exactly, nobody   *)
(* waits while one is free, every item is with its request, and requests   *)
(* of one application start in the order they came.                        *)
QueueTypes ==
  /\ queue \subseteq Item /\ sorted \in BOOLEAN
  /\ virtualTime \in Nat /\ lastFinish \in [Apps -> Nat]
  /\ depth \in 0 .. Depth /\ itemId \in 0 .. MaxItems
  /\ DOMAIN current \subseteq 0 .. itemId - 1
  /\ current \in [DOMAIN current -> Item]

Slots ==
  /\ depth = Cardinality(DOMAIN current)
  /\ queue # {} => depth = Depth

Ids ==
  /\ \A x \in queue : x.id < itemId /\ x.id \notin DOMAIN current
  /\ \A x, y \in queue : x.id = y.id => x = y

InOrder ==
  /\ \A x \in queue : x.start <= lastFinish[x.app]
  /\ \A x, y \in queue : x.app = y.app /\ x.id < y.id => x.start <= y.start

QueueInv == QueueTypes /\ Slots /\ Ids /\ InOrder

(* What is counted and broadcast. *)
CountTypes ==
  /\ pending \in Report /\ ioCounter \in Nat /\ asked \in Report
  /\ told \in [Peers -> Report]
  /\ B!TypeOK(Report)

CountInv == CountTypes /\ BytesReportedOnce /\ NoStrandedBroadcast

(* What is received. *)
ReceiveTypes ==
  /\ delay \in Report /\ heard \in Report /\ charged \in Report
  /\ DOMAIN applying \subseteq Apps /\ applying \in [DOMAIN applying -> Nat]
  /\ reports \in 0 .. MaxReports

ReceiveInv == ReceiveTypes /\ BytesChargedOnce

Inv == QueueInv /\ CountInv /\ ReceiveInv

LEMMA InvTypes == Inv => TypeOK
  BY DEF Inv, QueueInv, CountInv, ReceiveInv, QueueTypes, CountTypes,
         ReceiveTypes, TypeOK

LEMMA InitInv == Init => Inv
<1> SUFFICES ASSUME Init PROVE Inv
  OBVIOUS
<1>1. QueueInv
  <2>1. DOMAIN current = {} /\ current \in [DOMAIN current -> Item]
    BY DEF Init
  <2>2. lastFinish \in [Apps -> Nat]
    BY DEF Init
  <2>3. depth \in 0 .. Depth /\ itemId \in 0 .. MaxItems
    BY DSFQAssumption DEF Init
  <2>4. QueueTypes
    BY <2>1, <2>2, <2>3 DEF Init, QueueTypes
  <2>. QED
    BY <2>1, <2>4, FS_EmptySet DEF Init, QueueInv, Slots, Ids, InOrder
<1>2. CountInv
  <2>1. CountTypes
    BY DEF Init, CountTypes, Report, B!Init, B!TypeOK, B!CoordinatorAt, B!WorkerAt
  <2>2. BytesReportedOnce
    BY DEF Init, B!Init, BytesReportedOnce, Carried
  <2>3. NoStrandedBroadcast
    <3>1. ready = FALSE /\ ~(ioCounter >= Threshold)
      BY DSFQAssumption DEF Init, B!Init
    <3>2. \A a \in Apps : pending[a] <= ioCounter
      BY DEF Init
    <3>3. B!NoLostWakeup /\ B!BuffersHandedOver
      BY DEF Init, B!Init, B!NoLostWakeup, B!BuffersHandedOver
    <3>4. (ioCounter >= Threshold) = FALSE
      BY <3>1
    <3>5. ready = (ioCounter >= Threshold)
      BY <3>1, <3>4
    <3>. QED  BY <3>2, <3>3, <3>5 DEF NoStrandedBroadcast
  <2>. QED  BY <2>1, <2>2, <2>3 DEF CountInv
<1>3. ReceiveInv
  BY DSFQAssumption DEF Init, ReceiveInv, ReceiveTypes, Report, BytesChargedOnce
<1>. QED  BY <1>1, <1>2, <1>3 DEF Inv

-----------------------------------------------------------------------------
(* Counting and broadcasting *)

(* The message loop counts a request while coordinator and worker are      *)
(* anywhere.                                                               *)
LEMMA CountKeeps ==
  ASSUME CountInv, NEW a \in Apps, NEW size \in Sizes, Count(a, size),
         UNCHANGED told
  PROVE  CountInv'
<1>1. /\ size \in Nat /\ size > 0 /\ Threshold \in Nat
      /\ pending \in Report /\ asked \in Report /\ ioCounter \in Nat
  BY DSFQAssumption DEF CountInv, CountTypes
<1>2. /\ pending' = [pending EXCEPT ![a] = @ + size]
      /\ ioCounter' = ioCounter + size
      /\ asked' = [asked EXCEPT ![a] = @ + size]
      /\ IF ioCounter + size >= Threshold THEN B!Arm ELSE UNCHANGED broadcastVars
  BY DEF Count
<1>3. /\ pending' \in Report /\ asked' \in Report /\ ioCounter' \in Nat
      /\ \A b \in Apps : pending[b] \in Nat /\ asked[b] \in Nat
  BY <1>1, <1>2 DEF Report
<1>4. UNCHANGED <<worker, complete, begin, outgoing>>
  BY <1>2 DEF B!Arm, broadcastVars
<1>5. /\ coordinator' \in B!CoordinatorAt /\ ready' \in BOOLEAN
      /\ B!NoLostWakeup' /\ B!BuffersHandedOver'
  BY <1>2
  DEF B!Arm, broadcastVars, CountInv, CountTypes, B!TypeOK, B!CoordinatorAt,
      NoStrandedBroadcast, B!NoLostWakeup, B!BuffersHandedOver
<1>6. ready' = (ioCounter' >= Threshold)
  <2>1. CASE ioCounter + size >= Threshold
    BY <2>1, <1>2 DEF B!Arm
  <2>2. CASE ~(ioCounter + size >= Threshold)
    BY <2>2, <1>1, <1>2 DEF broadcastVars, CountInv, NoStrandedBroadcast
  <2>. QED  BY <2>1, <2>2
<1>7. \A b \in Apps : pending'[b] <= ioCounter'
  BY <1>1, <1>2, <1>3 DEF CountInv, NoStrandedBroadcast, Report
<1>8. CountTypes'
  BY <1>3, <1>4, <1>5 DEF CountInv, CountTypes, B!TypeOK
<1>9. BytesReportedOnce'
  <2> SUFFICES ASSUME NEW q \in Peers, NEW b \in Apps
      PROVE asked'[b] = told[q][b] + Carried(q)[b] + pending'[b]
    BY <1>4 DEF BytesReportedOnce, Carried
  <2>1. told[q][b] \in Nat /\ Carried(q)[b] \in Nat
    BY DSFQAssumption
    DEF CountInv, CountTypes, B!TypeOK, Report, Carried
  <2>2. asked[b] = told[q][b] + Carried(q)[b] + pending[b]
    BY DEF CountInv, BytesReportedOnce
  <2>. QED  BY <1>1, <1>2, <1>3, <2>1, <2>2 DEF Report
<1>. QED  BY <1>5, <1>6, <1>7, <1>8, <1>9 DEF CountInv, NoStrandedBroadcast

(* The last broadcast is over, so every buffer is empty when the           *)
(* coordinator fills it.                                                   *)
LEMMA LaunchKeeps ==
  ASSUME CountInv, Launch
  PROVE  CountInv'
<1>1. /\ B!Launch(pending) /\ pending' = [a \in Apps |-> 0] /\ ioCounter' = 0
      /\ UNCHANGED <<asked, told>>
  BY DEF Launch
<1>2. /\ outgoing' = [q \in Peers |-> pending] /\ complete' = FALSE
      /\ ready' = FALSE /\ begin' = TRUE /\ coordinator' = "testComplete"
      /\ worker' = IF worker = "sleep" THEN "test" ELSE worker
  BY <1>1 DEF B!Launch
<1>3. \A q \in Peers : outgoing[q] = Nothing
  BY <1>1
  DEF B!Launch, B!LastOneOver, CountInv, NoStrandedBroadcast, B!BuffersHandedOver
<1>4. CountTypes'
  <2>1. worker' \in B!WorkerAt
    BY <1>2 DEF CountInv, CountTypes, B!TypeOK, B!WorkerAt
  <2>2. outgoing' \in [Peers -> Report \cup {Nothing}]
    BY <1>2 DEF CountInv, CountTypes
  <2>. QED
    BY <1>1, <1>2, <2>1, <2>2
    DEF CountInv, CountTypes, Report, B!TypeOK, B!CoordinatorAt
<1>5. BytesReportedOnce'
  <2> SUFFICES ASSUME NEW q \in Peers, NEW a \in Apps
      PROVE asked[a] = told[q][a] + Carried(q)'[a] + 0
    BY <1>1 DEF BytesReportedOnce
  <2>1. /\ asked[a] = told[q][a] + 0 + pending[a]
        /\ told[q][a] \in Nat /\ pending[a] \in Nat
    BY <1>3 DEF CountInv, CountTypes, BytesReportedOnce, Carried, Report
  <2>2. pending # Nothing
    BY DSFQAssumption DEF CountInv, CountTypes, Report
  <2>3. Carried(q)' = pending
    BY <1>2, <2>2 DEF Carried
  <2>. QED  BY <2>1, <2>3
<1>6. NoStrandedBroadcast'
  <2>1. ~(ioCounter' >= Threshold) /\ \A a \in Apps : pending'[a] <= ioCounter'
    BY <1>1, DSFQAssumption
  <2>2. worker' # "sleep"
    BY <1>2
  <2>3. B!NoLostWakeup' /\ B!BuffersHandedOver'
    BY <1>2, <2>2 DEF B!NoLostWakeup, B!BuffersHandedOver
  <2>4. (ioCounter' >= Threshold) = FALSE
    BY <2>1
  <2>5. ready' = (ioCounter' >= Threshold)
    BY <1>2, <2>4
  <2>. QED  BY <2>1, <2>3, <2>5 DEF NoStrandedBroadcast
<1>. QED  BY <1>4, <1>5, <1>6 DEF CountInv

(* What leaves a peer's buffer is what the peer has been told. *)
LEMMA SendKeeps ==
  ASSUME CountInv, NEW q \in Peers, Send(q)
  PROVE  CountInv'
<1>1. /\ worker = "sending" /\ outgoing[q] # Nothing
      /\ outgoing' = [outgoing EXCEPT ![q] = Nothing]
      /\ told' = [told EXCEPT ![q] = [a \in Apps |-> told[q][a] + outgoing[q][a]]]
      /\ UNCHANGED <<coordinator, worker, complete, begin, ready>>
      /\ UNCHANGED <<pending, ioCounter, asked>>
  BY DEF Send, B!Send, countVars
<1>2. /\ outgoing \in [Peers -> Report \cup {Nothing}] /\ outgoing[q] \in Report
      /\ told \in [Peers -> Report]
  BY <1>1 DEF CountInv, CountTypes, B!TypeOK
<1>3. [a \in Apps |-> told[q][a] + outgoing[q][a]] \in Report
  BY <1>2 DEF Report
<1>4. CountTypes'
  BY <1>1, <1>2, <1>3 DEF CountInv, CountTypes, B!TypeOK
<1>5. BytesReportedOnce'
  <2> SUFFICES ASSUME NEW p \in Peers, NEW a \in Apps
      PROVE asked[a] = told'[p][a] + Carried(p)'[a] + pending[a]
    BY <1>1 DEF BytesReportedOnce
  <2>1. asked[a] = told[p][a] + Carried(p)[a] + pending[a]
    BY DEF CountInv, BytesReportedOnce
  <2>2. CASE p = q
    <3>1. Carried(p) = outgoing[q] /\ Carried(p)'[a] = 0
      BY <1>1, <1>2, <2>2 DEF Carried
    <3>2. told'[p][a] = told[p][a] + outgoing[q][a]
      BY <1>1, <1>2, <2>2
    <3>3. told[p][a] \in Nat /\ outgoing[q][a] \in Nat /\ pending[a] \in Nat
      BY <1>2, <2>2 DEF CountInv, CountTypes, Report
    <3>. QED  BY <2>1, <3>1, <3>2, <3>3
  <2>3. CASE p # q
    BY <1>1, <1>2, <2>1, <2>3 DEF Carried
  <2>. QED  BY <2>2, <2>3
<1>6. NoStrandedBroadcast'
  BY <1>1, <1>2
  DEF CountInv, NoStrandedBroadcast, B!NoLostWakeup, B!BuffersHandedOver
<1>. QED  BY <1>4, <1>5, <1>6 DEF CountInv

(* The steps that only move coordinator and worker: no one goes to sleep   *)
(* after its signal, and no two wait for each other.                       *)
LEMMA OtherBroadcastKeeps ==
  ASSUME CountInv, OtherBroadcast
  PROVE  CountInv'
<1>1. /\ B!Wait \/ B!StartSending \/ B!Finish
      /\ UNCHANGED <<pending, ioCounter, asked, told>>
  BY DEF OtherBroadcast, countVars
<1>2. UNCHANGED <<ready, outgoing>>
  BY <1>1
  DEF B!Wait, B!SleepForComplete, B!SleepForThreshold, B!SleepForBegin,
      B!StartSending, B!Finish
<1>3. /\ coordinator \in B!CoordinatorAt /\ worker \in B!WorkerAt
      /\ {complete, begin, ready} \subseteq BOOLEAN
      /\ B!NoLostWakeup /\ B!BuffersHandedOver
  BY DEF CountInv, CountTypes, B!TypeOK, NoStrandedBroadcast
<1>4. /\ coordinator' \in B!CoordinatorAt /\ worker' \in B!WorkerAt
      /\ complete' \in BOOLEAN /\ begin' \in BOOLEAN
      /\ B!NoLostWakeup' /\ B!BuffersHandedOver'
  <2> USE DEF B!CoordinatorAt, B!WorkerAt, B!NoLostWakeup, B!BuffersHandedOver
  <2>1. CASE B!SleepForComplete
    BY <2>1, <1>3 DEF B!SleepForComplete
  <2>2. CASE B!SleepForThreshold
    BY <2>2, <1>3 DEF B!SleepForThreshold, B!LastOneOver
  <2>3. CASE B!SleepForBegin
    BY <2>3, <1>3 DEF B!SleepForBegin
  <2>4. CASE B!StartSending
    BY <2>4, <1>3 DEF B!StartSending
  <2>5. CASE B!Finish
    BY <2>5, <1>3 DEF B!Finish
  <2>. QED  BY <1>1, <2>1, <2>2, <2>3, <2>4, <2>5 DEF B!Wait
<1>5. CountTypes'
  BY <1>1, <1>2, <1>4 DEF CountInv, CountTypes, B!TypeOK
<1>6. BytesReportedOnce' /\ NoStrandedBroadcast'
  BY <1>1, <1>2, <1>4 DEF CountInv, BytesReportedOnce, Carried, NoStrandedBroadcast
<1>. QED  BY <1>5, <1>6 DEF CountInv

-----------------------------------------------------------------------------
(* Receiving *)

(* A request takes over its application's delay and leaves none. *)
LEMMA TagKeeps ==
  ASSUME ReceiveInv, NEW a \in Apps, NEW size \in Sizes, Tag(a, size)
  PROVE  ReceiveInv'
<1>1. /\ charged' = [charged EXCEPT ![a] = @ + delay[a]]
      /\ delay' = [delay EXCEPT ![a] = 0]
      /\ UNCHANGED <<applying, heard, reports>>
  BY DEF Tag
<1>2. ReceiveTypes'
  BY <1>1 DEF ReceiveInv, ReceiveTypes, Report
<1>3. BytesChargedOnce'
  <2> SUFFICES ASSUME NEW b \in Apps
      PROVE heard[b] = charged'[b] + delay'[b]
                       + (IF b \in DOMAIN applying THEN applying[b] ELSE 0)
    BY <1>1 DEF BytesChargedOnce
  <2> DEFINE rest == IF b \in DOMAIN applying THEN applying[b] ELSE 0
  <2>1. /\ charged[b] \in Nat /\ delay[b] \in Nat /\ rest \in Nat
        /\ heard[b] = charged[b] + delay[b] + rest
    BY DEF ReceiveInv, ReceiveTypes, Report, BytesChargedOnce
  <2>2. charged'[b] + delay'[b] = charged[b] + delay[b]
    BY <1>1, <2>1 DEF ReceiveInv, ReceiveTypes, Report
  <2> HIDE DEF rest
  <2>3. heard[b] = charged'[b] + delay'[b] + rest
    BY <2>1, <2>2
  <2>. QED  BY <2>3 DEF rest
<1>. QED  BY <1>2, <1>3 DEF ReceiveInv

LEMMA ReceiveKeeps ==
  ASSUME ReceiveInv, Receive
  PROVE  ReceiveInv'
<1>1. PICK report \in PeerReports :
        /\ applying' = report
        /\ heard' = [a \in Apps |-> heard[a] + report[a]]
  BY DEF Receive
<1>2. /\ DOMAIN applying = {} /\ reports < MaxReports /\ reports' = reports + 1
      /\ UNCHANGED <<delay, charged>>
  BY DEF Receive
<1>3. report \in [Apps -> Nat] /\ DOMAIN applying' = Apps
  BY <1>1, DSFQAssumption
<1>4. ReceiveTypes'
  <2>1. heard' \in Report
    BY <1>1, <1>3 DEF ReceiveInv, ReceiveTypes, Report
  <2>2. reports' \in 0 .. MaxReports
    BY <1>2, DSFQAssumption DEF ReceiveInv, ReceiveTypes
  <2>3. DOMAIN applying' \subseteq Apps /\ applying' \in [DOMAIN applying' -> Nat]
    BY <1>1, <1>3
  <2>. QED  BY <1>2, <2>1, <2>2, <2>3 DEF ReceiveInv, ReceiveTypes
<1>5. BytesChargedOnce'
  BY <1>1, <1>2, <1>3 DEF ReceiveInv, ReceiveTypes, Report, BytesChargedOnce
<1>. QED  BY <1>4, <1>5 DEF ReceiveInv

(* The receiver moves one application's bytes from its report to the       *)
(* delays, whatever requests have come since the one before.               *)
LEMMA ApplyKeeps ==
  ASSUME ReceiveInv, NEW a \in Apps, Apply(a)
  PROVE  ReceiveInv'
<1>1. /\ a \in DOMAIN applying
      /\ delay' = [delay EXCEPT ![a] = @ + applying[a]]
      /\ applying' = [s \in DOMAIN applying \ {a} |-> applying[s]]
      /\ UNCHANGED <<heard, charged, reports>>
  BY DEF Apply, Unbind
<1>2. applying[a] \in Nat /\ delay \in Report
  BY <1>1 DEF ReceiveInv, ReceiveTypes
<1>3. ReceiveTypes'
  <2>1. delay' \in Report
    BY <1>1, <1>2 DEF Report
  <2>2. DOMAIN applying' \subseteq Apps /\ applying' \in [DOMAIN applying' -> Nat]
    BY <1>1 DEF ReceiveInv, ReceiveTypes
  <2>. QED  BY <1>1, <2>1, <2>2 DEF ReceiveInv, ReceiveTypes
<1>4. BytesChargedOnce'
  <2> SUFFICES ASSUME NEW b \in Apps
      PROVE heard[b] = charged[b] + delay'[b]
                       + (IF b \in DOMAIN applying' THEN applying'[b] ELSE 0)
    BY <1>1 DEF BytesChargedOnce
  <2>1. /\ charged[b] \in Nat /\ delay[b] \in Nat
        /\ heard[b] = charged[b] + delay[b]
                      + (IF b \in DOMAIN applying THEN applying[b] ELSE 0)
    BY DEF ReceiveInv, ReceiveTypes, Report, BytesChargedOnce
  <2>2. CASE b = a
    <3>1. b \in DOMAIN applying /\ b \notin DOMAIN applying'
      BY <1>1, <2>2
    <3>2. delay'[b] = delay[b] + applying[b]
      BY <1>1, <1>2, <2>2 DEF Report
    <3>. QED  BY <1>2, <2>1, <2>2, <3>1, <3>2
  <2>3. CASE b # a
    <3>1. /\ b \in DOMAIN applying' <=> b \in DOMAIN applying
          /\ b \in DOMAIN applying => applying'[b] = applying[b]
          /\ delay'[b] = delay[b]
      BY <1>1, <1>2, <2>3 DEF Report
    <3>. QED  BY <2>1, <3>1
  <2>. QED  BY <2>2, <2>3
<1>. QED  BY <1>3, <1>4 DEF ReceiveInv

-----------------------------------------------------------------------------
(* The queue of the message loop *)

(* The released requests are finitely many. *)
LEMMA CurrentFinite ==
  QueueTypes => IsFiniteSet(DOMAIN current) /\ Cardinality(DOMAIN current) \in Nat
<1> SUFFICES ASSUME QueueTypes
    PROVE IsFiniteSet(DOMAIN current) /\ Cardinality(DOMAIN current) \in Nat
  OBVIOUS
<1>1. DOMAIN current \subseteq 0 .. itemId - 1 /\ itemId \in Nat
  BY DSFQAssumption DEF QueueTypes
<1>2. IsFiniteSet(0 .. itemId - 1)
  BY <1>1, FS_Interval
<1>. QED  BY <1>1, <1>2, FS_Subset, FS_CardinalityType

(* A delay never moves a request before its application's last one. *)
LEMMA NewItemFacts ==
  ASSUME QueueTypes, ReceiveTypes, NEW a \in Apps, NEW size \in Sizes
  PROVE  LET n == NewItem(a, size)
         IN  /\ n \in Item /\ n.id = itemId /\ n.app = a
             /\ lastFinish[a] <= n.start /\ n.start <= n.finish
             /\ n.start \in Nat /\ n.finish \in Nat
<1> DEFINE w == Weight[a]
           late == delay[a] \div (w * REDUCER)
           cost == (size \div w) \div REDUCER
<1>1. /\ w \in Nat \ {0} /\ REDUCER \in Nat \ {0} /\ size \in Nat
      /\ delay[a] \in Nat /\ virtualTime \in Nat /\ lastFinish[a] \in Nat
      /\ itemId \in Nat
  BY DSFQAssumption DEF QueueTypes, ReceiveTypes, Report
<1>2. w * REDUCER \in Nat \ {0}
  BY <1>1
<1>3. late \in Nat
  <2> DEFINE d == w * REDUCER
  <2>1. d \in Nat \ {0}
    BY <1>2
  <2> HIDE DEF d
  <2>2. delay[a] \div d \in Nat
    BY <1>1, <2>1
  <2>. QED  BY <2>2 DEF d
<1>4. cost \in Nat
  <2>1. size \div w \in Nat
    BY <1>1
  <2>. QED  BY <1>1, <2>1
<1>5. NewItem(a, size) =
        [id |-> itemId, app |-> a, start |-> Later(virtualTime, lastFinish[a] + late),
         finish |-> Later(virtualTime, lastFinish[a] + late) + cost]
  BY DEF NewItem
<1> HIDE DEF late, cost
<1>6. /\ Later(virtualTime, lastFinish[a] + late) \in Nat
      /\ lastFinish[a] <= Later(virtualTime, lastFinish[a] + late)
  BY <1>1, <1>3 DEF Later
<1>. QED  BY <1>1, <1>4, <1>5, <1>6 DEF Item

(* A free slot means an empty list, so the new item is the one dispatched. *)
LEMMA DispatchesNewItem ==
  ASSUME QueueInv, NEW a \in Apps, NEW size \in Sizes, EnqueueDispatch(a, size)
  PROVE  /\ queue = {} /\ queue' = {}
         /\ virtualTime' = NewItem(a, size).start /\ sorted' = TRUE
         /\ current' = Bind(current, itemId, NewItem(a, size))
<1>1. queue = {}
  BY DSFQAssumption DEF EnqueueDispatch, QueueInv, QueueTypes, Slots
<1>2. PICK h \in queue \cup {NewItem(a, size)} :
        /\ TakeHead(h, queue \cup {NewItem(a, size)})
        /\ current' = Bind(current, itemId, h)
  BY DEF EnqueueDispatch
<1>3. h = NewItem(a, size)
  BY <1>1, <1>2
<1>. QED  BY <1>1, <1>2, <1>3 DEF TakeHead

LEMMA DispatchKeeps ==
  ASSUME QueueInv, ReceiveTypes, NEW a \in Apps, NEW size \in Sizes,
         EnqueueDispatch(a, size)
  PROVE  QueueInv'
<1> DEFINE n == NewItem(a, size)
<1>1. /\ n \in Item /\ n.start \in Nat /\ n.finish \in Nat
  BY NewItemFacts DEF QueueInv
<1>2. /\ itemId < MaxItems /\ itemId' = itemId + 1
      /\ lastFinish' = [lastFinish EXCEPT ![a] = n.finish]
      /\ depth < Depth /\ depth' = depth + 1
  BY DEF EnqueueDispatch, Tag
<1>3. /\ queue' = {} /\ virtualTime' = n.start /\ sorted' = TRUE
      /\ current' = Bind(current, itemId, n)
  BY DispatchesNewItem
<1> HIDE DEF n
<1>4. itemId \in Nat /\ itemId \notin DOMAIN current
  BY DSFQAssumption DEF QueueInv, QueueTypes
<1>5. DOMAIN current' = DOMAIN current \cup {itemId}
  BY <1>3 DEF Bind
<1>6. QueueTypes'
  <2>1. current' \in [DOMAIN current' -> Item]
    BY <1>1, <1>3, <1>5 DEF Bind, QueueInv, QueueTypes
  <2>2. DOMAIN current' \subseteq 0 .. itemId' - 1
    BY <1>2, <1>4, <1>5 DEF QueueInv, QueueTypes
  <2>3. /\ lastFinish' \in [Apps -> Nat] /\ depth' \in 0 .. Depth
        /\ itemId' \in 0 .. MaxItems
    BY <1>1, <1>2, DSFQAssumption DEF QueueInv, QueueTypes
  <2>. QED  BY <1>1, <1>3, <2>1, <2>2, <2>3 DEF QueueTypes
<1>7. Slots'
  <2>1. Cardinality(DOMAIN current') = Cardinality(DOMAIN current) + 1
    BY <1>4, <1>5, CurrentFinite, FS_AddElement DEF QueueInv
  <2>. QED  BY <1>2, <1>3, <2>1 DEF QueueInv, Slots
<1>8. Ids' /\ InOrder'
  BY <1>3 DEF Ids, InOrder
<1>. QED  BY <1>6, <1>7, <1>8 DEF QueueInv

LEMMA HoldKeeps ==
  ASSUME QueueInv, ReceiveTypes, NEW a \in Apps, NEW size \in Sizes,
         EnqueueHold(a, size)
  PROVE  QueueInv'
<1> DEFINE n == NewItem(a, size)
<1>1. /\ n \in Item /\ n.id = itemId /\ n.app = a
      /\ lastFinish[a] <= n.start /\ n.start <= n.finish
      /\ n.start \in Nat /\ n.finish \in Nat
  BY NewItemFacts DEF QueueInv
<1>2. /\ itemId < MaxItems /\ itemId' = itemId + 1
      /\ lastFinish' = [lastFinish EXCEPT ![a] = n.finish]
      /\ depth >= Depth /\ queue' = queue \cup {n} /\ sorted' = FALSE
      /\ UNCHANGED <<virtualTime, depth, current>>
  BY DEF EnqueueHold, Tag
<1> HIDE DEF n
<1>3. itemId \in Nat /\ itemId \notin DOMAIN current
  BY DSFQAssumption DEF QueueInv, QueueTypes
<1>4. \A x \in queue : /\ x.id \in Nat /\ x.id < itemId /\ x.app \in Apps
                       /\ x.start \in Nat /\ x.start <= lastFinish[x.app]
                       /\ lastFinish[x.app] \in Nat
  BY DEF QueueInv, QueueTypes, Ids, InOrder, Item
<1>5. QueueTypes'
  <2>1. lastFinish' \in [Apps -> Nat]
    BY <1>1, <1>2 DEF QueueInv, QueueTypes
  <2>2. itemId' \in 0 .. MaxItems /\ DOMAIN current \subseteq 0 .. itemId' - 1
    BY <1>2, DSFQAssumption DEF QueueInv, QueueTypes
  <2>. QED  BY <1>1, <1>2, <2>1, <2>2 DEF QueueInv, QueueTypes
<1>6. Slots'
  BY <1>2, DSFQAssumption DEF QueueInv, QueueTypes, Slots
<1>7. Ids'
  BY <1>1, <1>2, <1>3, <1>4 DEF QueueInv, Ids
<1>8. InOrder'
  <2>1. /\ lastFinish' \in [Apps -> Nat] /\ lastFinish'[a] = n.finish
        /\ \A b \in Apps : b # a => lastFinish'[b] = lastFinish[b]
    BY <1>1, <1>2 DEF QueueInv, QueueTypes
  <2>2. \A x \in queue : x.start <= lastFinish'[x.app]
    <3> SUFFICES ASSUME NEW x \in queue PROVE x.start <= lastFinish'[x.app]
      OBVIOUS
    <3>1. CASE x.app = a
      BY <3>1, <1>1, <1>4, <2>1 DEF QueueInv, QueueTypes
    <3>2. CASE x.app # a
      BY <3>2, <1>4, <2>1
    <3>. QED  BY <3>1, <3>2
  <2>3. n.start <= lastFinish'[n.app]
    BY <1>1, <2>1
  <2>4. \A x \in queue : x.app = a => x.start <= n.start
    BY <1>1, <1>4
  <2>5. \A x, y \in queue' : x.app = y.app /\ x.id < y.id => x.start <= y.start
    <3> SUFFICES ASSUME NEW x \in queue', NEW y \in queue', x.app = y.app, x.id < y.id
        PROVE x.start <= y.start
      OBVIOUS
    <3>1. CASE x \in queue /\ y \in queue
      BY <3>1 DEF QueueInv, InOrder
    <3>2. CASE x \in queue /\ y = n
      BY <3>2, <1>1, <2>4
    <3>3. x # n
      BY <1>1, <1>2, <1>3, <1>4
    <3>. QED  BY <3>1, <3>2, <3>3, <1>2
  <2>. QED  BY <1>2, <2>2, <2>3, <2>5 DEF InOrder
<1>. QED  BY <1>5, <1>6, <1>7, <1>8 DEF QueueInv

LEMMA CompleteDispatchKeeps ==
  ASSUME QueueInv, NEW r \in DOMAIN current, CompleteDispatch(r)
  PROVE  QueueInv'
<1>1. PICK h \in queue :
        /\ queue' = queue \ {h} /\ sorted' = TRUE /\ virtualTime' = h.start
        /\ current' = Bind(Unbind(current, r), h.id, h)
  BY DEF CompleteDispatch, TakeHead
<1>2. UNCHANGED <<lastFinish, depth, itemId>>
  BY DEF CompleteDispatch
<1>3. /\ h \in Item /\ h.id \in Nat /\ h.start \in Nat
      /\ h.id < itemId /\ h.id \notin DOMAIN current /\ itemId \in Nat
  BY <1>1, DSFQAssumption DEF QueueInv, QueueTypes, Item, Ids
<1>4. DOMAIN current' = (DOMAIN current \ {r}) \cup {h.id}
  BY <1>1 DEF Bind, Unbind
<1>5. QueueTypes'
  <2>1. current' \in [DOMAIN current' -> Item]
    BY <1>1, <1>3, <1>4 DEF Bind, Unbind, QueueInv, QueueTypes
  <2>2. DOMAIN current' \subseteq 0 .. itemId' - 1
    BY <1>2, <1>3, <1>4 DEF QueueInv, QueueTypes
  <2>. QED  BY <1>1, <1>2, <1>3, <2>1, <2>2 DEF QueueInv, QueueTypes
<1>6. Slots'
  <2> DEFINE rest == DOMAIN current \ {r}
  <2>1. IsFiniteSet(rest) /\ Cardinality(rest) = Cardinality(DOMAIN current) - 1
    BY CurrentFinite, FS_RemoveElement DEF QueueInv
  <2>2. Cardinality(rest \cup {h.id}) = Cardinality(rest) + 1
    BY <1>3, <2>1, FS_AddElement
  <2>3. Cardinality(DOMAIN current) \in Nat
    BY CurrentFinite DEF QueueInv
  <2>. QED  BY <1>1, <1>2, <1>4, <2>1, <2>2, <2>3 DEF QueueInv, Slots
<1>7. Ids'
  <2>1. \A x \in queue' : x \in queue /\ x.id # h.id
    BY <1>1 DEF QueueInv, Ids
  <2>. QED  BY <1>2, <1>4, <2>1 DEF QueueInv, Ids
<1>8. InOrder'
  BY <1>1, <1>2 DEF QueueInv, InOrder
<1>. QED  BY <1>5, <1>6, <1>7, <1>8 DEF QueueInv

LEMMA CompleteIdleKeeps ==
  ASSUME QueueInv, NEW r \in DOMAIN current, CompleteIdle(r)
  PROVE  QueueInv'
<1>1. /\ queue' = {} /\ depth' = depth - 1 /\ sorted' = TRUE
      /\ current' = Unbind(current, r)
      /\ UNCHANGED <<virtualTime, lastFinish, itemId>>
  BY DEF CompleteIdle
<1>2. DOMAIN current' = DOMAIN current \ {r}
  BY <1>1 DEF Unbind
<1>3. /\ Cardinality(DOMAIN current') = Cardinality(DOMAIN current) - 1
      /\ Cardinality(DOMAIN current') \in Nat
  <2>1. IsFiniteSet(DOMAIN current')
    BY <1>2, CurrentFinite, FS_RemoveElement DEF QueueInv
  <2>. QED
    BY <1>2, <2>1, CurrentFinite, FS_RemoveElement, FS_CardinalityType DEF QueueInv
<1>4. QueueTypes'
  <2>1. depth' \in 0 .. Depth
    BY <1>1, <1>3, DSFQAssumption DEF QueueInv, QueueTypes, Slots
  <2>2. current' \in [DOMAIN current' -> Item]
    BY <1>1, <1>2 DEF Unbind, QueueInv, QueueTypes
  <2>. QED  BY <1>1, <1>2, <2>1, <2>2 DEF QueueInv, QueueTypes
<1>. QED  BY <1>1, <1>2, <1>3, <1>4 DEF QueueInv, Slots, Ids, InOrder

-----------------------------------------------------------------------------
(* Every step *)

LEMMA StepInv == Inv /\ [Next]_vars => Inv'
<1> SUFFICES ASSUME Inv, [Next]_vars PROVE Inv'
  OBVIOUS
<1>0. QueueInv /\ CountInv /\ ReceiveInv /\ ReceiveTypes
  BY DEF Inv, ReceiveInv
<1>1. ASSUME NEW a \in Apps, NEW size \in Sizes, EnqueueDispatch(a, size)
      PROVE  Inv'
  <2>1. Count(a, size) /\ Tag(a, size) /\ UNCHANGED told
    BY <1>1 DEF EnqueueDispatch, Tag
  <2>. QED  BY <1>0, <1>1, <2>1, DispatchKeeps, CountKeeps, TagKeeps DEF Inv
<1>2. ASSUME NEW a \in Apps, NEW size \in Sizes, EnqueueHold(a, size)
      PROVE  Inv'
  <2>1. Count(a, size) /\ Tag(a, size) /\ UNCHANGED told
    BY <1>2 DEF EnqueueHold, Tag
  <2>. QED  BY <1>0, <1>2, <2>1, HoldKeeps, CountKeeps, TagKeeps DEF Inv
<1>3. ASSUME UNCHANGED queueVars PROVE QueueInv'
  BY <1>0, <1>3 DEF queueVars, QueueInv, QueueTypes, Slots, Ids, InOrder
<1>4. ASSUME UNCHANGED <<countVars, broadcastVars, told>> PROVE CountInv'
  BY <1>0, <1>4
  DEF countVars, broadcastVars, CountInv, CountTypes, BytesReportedOnce, Carried,
      NoStrandedBroadcast, B!TypeOK, B!NoLostWakeup, B!BuffersHandedOver
<1>5. ASSUME UNCHANGED receiveVars PROVE ReceiveInv'
  BY <1>0, <1>5 DEF receiveVars, ReceiveInv, ReceiveTypes, BytesChargedOnce
<1>6. ASSUME NEW r \in DOMAIN current, CompleteDispatch(r)
      PROVE  Inv'
  <2>1. UNCHANGED <<countVars, broadcastVars, receiveVars, told>>
    BY <1>6 DEF CompleteDispatch
  <2>. QED  BY <1>0, <1>4, <1>5, <1>6, <2>1, CompleteDispatchKeeps DEF Inv
<1>7. ASSUME NEW r \in DOMAIN current, CompleteIdle(r)
      PROVE  Inv'
  <2>1. UNCHANGED <<countVars, broadcastVars, receiveVars, told>>
    BY <1>7 DEF CompleteIdle
  <2>. QED  BY <1>0, <1>4, <1>5, <1>7, <2>1, CompleteIdleKeeps DEF Inv
<1>8. ASSUME Launch PROVE Inv'
  BY <1>0, <1>3, <1>5, <1>8, LaunchKeeps DEF Launch, Inv
<1>9. ASSUME OtherBroadcast PROVE Inv'
  BY <1>0, <1>3, <1>5, <1>9, OtherBroadcastKeeps DEF OtherBroadcast, Inv
<1>10. ASSUME NEW q \in Peers, Send(q) PROVE Inv'
  BY <1>0, <1>3, <1>5, <1>10, SendKeeps DEF Send, Inv
<1>11. ASSUME Receive PROVE Inv'
  BY <1>0, <1>3, <1>4, <1>11, ReceiveKeeps DEF Receive, Inv
<1>12. ASSUME NEW a \in Apps, Apply(a) PROVE Inv'
  BY <1>0, <1>3, <1>4, <1>12, ApplyKeeps DEF Apply, Inv
<1>13. CASE UNCHANGED vars
  BY <1>3, <1>4, <1>5, <1>13 DEF vars, Inv
<1>. QED
  BY <1>1, <1>2, <1>6, <1>7, <1>8, <1>9, <1>10, <1>11, <1>12, <1>13 DEF Next

THEOREM Invariance == Spec => []Inv
  BY InitInv, StepInv, PTL DEF Spec

(* Every global of the plug-in keeps its type, its depth counter the depth *)
(* that is configured. *)
THEOREM Typing == Spec => []TypeOK
  BY Invariance, InvTypes, PTL

(* Every byte asked of the proxy is reported to every peer exactly once,   *)
(* however the message loop and the two threads of the broadcast interleave.*)
THEOREM ReportedOnce == Spec => []BytesReportedOnce
  BY Invariance, PTL DEF Inv, CountInv

(* Every byte a peer reports is charged to one request of its application. *)
THEOREM ChargedOnce == Spec => []BytesChargedOnce
  BY Invariance, PTL DEF Inv, ReceiveInv

(* No signal of the broadcast is lost, no buffer refilled while it is      *)
(* sent, and a reached threshold is never forgotten.                       *)
THEOREM NothingStranded == Spec => []NoStrandedBroadcast
  BY Invariance, PTL DEF Inv, CountInv

-----------------------------------------------------------------------------
(* Refinement *)

(* The mapping of KeepsPromise. *)
Ticket(x) == [id |-> x.id, app |-> x.app]
Waiting == {[id |-> x.id, app |-> x.app] : x \in queue}
Serving == {[id |-> r, app |-> current[r].app] : r \in DOMAIN current}

(* The instance of Dispatcher counts as FiniteSets does. *)
LEMMA SameCardinality ==
  ASSUME NEW S PROVE Plugin!Cardinality(S) = Cardinality(S)
  BY DEF Plugin!Cardinality, Cardinality, Plugin!IsFiniteSet, IsFiniteSet

(* The mapping takes the released requests one to one to tickets. *)
LEMMA ServingCount ==
  ASSUME QueueInv
  PROVE  Cardinality(Serving) = depth
<1> DEFINE f == [r \in DOMAIN current |-> [id |-> r, app |-> current[r].app]]
<1>1. f \in [DOMAIN current -> Serving] /\ \A t \in Serving : \E r \in DOMAIN current : f[r] = t
  BY DEF Serving
<1>2. \A r, s \in DOMAIN current : f[r] = f[s] => r = s
  OBVIOUS
<1> HIDE DEF f
<1>3. ExistsBijection(DOMAIN current, Serving)
  BY <1>1, <1>2 DEF Bijection, Injection, Surjection, IsInjective, ExistsBijection
<1>4. Cardinality(Serving) = Cardinality(DOMAIN current)
  BY <1>3, CurrentFinite, FS_Bijection DEF QueueInv
<1>. QED  BY <1>4 DEF QueueInv, Slots

(* However a delay shifts the tags, the head of the list is the oldest     *)
(* waiting item of its application.                                        *)
LEMMA HeadIsOldest ==
  ASSUME QueueInv, NEW h, IsHead(h, queue), NEW y \in queue, y.app = h.app
  PROVE  h.id <= y.id
<1> SUFFICES ASSUME y.id < h.id PROVE FALSE
  BY DEF QueueInv, QueueTypes, Item, IsHead
<1>1. /\ h \in queue /\ h.id \in Nat /\ h.start \in Nat
      /\ y.id \in Nat /\ y.start \in Nat /\ y # h
  BY DEF QueueInv, QueueTypes, Item, IsHead
<1>2. y.start <= h.start
  BY <1>1 DEF QueueInv, InOrder
<1>3. Before(h, y)
  BY <1>1 DEF IsHead
<1>. QED  BY <1>1, <1>2, <1>3 DEF Before

LEMMA StepPromise == Inv /\ [Next]_vars => [Plugin!Next]_(Plugin!vars)
<1> SUFFICES ASSUME Inv, [Next]_vars PROVE [Plugin!Next]_(Plugin!vars)
  OBVIOUS
<1>0. QueueInv /\ ReceiveTypes
  BY DEF Inv, ReceiveInv
<1>1. ASSUME NEW a \in Apps, NEW size \in Sizes, EnqueueDispatch(a, size)
      PROVE  Plugin!Release(a)
  <2> DEFINE n == NewItem(a, size)
  <2>1. depth < Depth /\ itemId' = itemId + 1
    BY <1>1 DEF EnqueueDispatch, Tag
  <2>2. n.app = a
    BY DEF NewItem
  <2>3. queue = {} /\ queue' = {} /\ current' = Bind(current, itemId, n)
    BY <1>0, <1>1, DispatchesNewItem
  <2> HIDE DEF n
  <2>4. itemId \notin DOMAIN current
    BY <1>0, DSFQAssumption DEF QueueInv, QueueTypes
  <2>5. Serving' = Serving \cup {[id |-> itemId, app |-> a]}
    BY <2>2, <2>3, <2>4 DEF Serving, Bind
  <2>6. Cardinality(Serving) < Depth /\ Waiting' = Waiting
    BY <1>0, <2>1, <2>3, ServingCount DEF Waiting
  <2>. QED
    BY <2>1, <2>5, <2>6, SameCardinality DEF Plugin!Release, Serving, Waiting
<1>2. ASSUME NEW a \in Apps, NEW size \in Sizes, EnqueueHold(a, size)
      PROVE  Plugin!Hold(a)
  <2> DEFINE n == NewItem(a, size)
  <2>1. /\ depth >= Depth /\ itemId' = itemId + 1
        /\ queue' = queue \cup {n} /\ current' = current
    BY <1>2 DEF EnqueueHold, Tag
  <2>2. n.id = itemId /\ n.app = a
    BY DEF NewItem
  <2> HIDE DEF n
  <2>3. Waiting' = Waiting \cup {[id |-> itemId, app |-> a]} /\ Serving' = Serving
    BY <2>1, <2>2 DEF Waiting, Serving
  <2>4. Cardinality(Serving) = Depth
    BY <1>0, <2>1, ServingCount, DSFQAssumption DEF QueueInv, QueueTypes
  <2>. QED
    BY <2>1, <2>3, <2>4, SameCardinality DEF Plugin!Hold, Serving, Waiting
<1>3. ASSUME NEW r \in DOMAIN current, CompleteDispatch(r)
      PROVE  \E t \in Serving : Plugin!HandOver(t)
  <2> DEFINE t == [id |-> r, app |-> current[r].app]
  <2>1. PICK h \in queue :
          /\ IsHead(h, queue) /\ queue' = queue \ {h} /\ itemId' = itemId
          /\ current' = Bind(Unbind(current, r), h.id, h)
    BY <1>3 DEF CompleteDispatch, TakeHead
  <2>2. t \in Serving /\ Ticket(h) \in Waiting
    BY <2>1 DEF Serving, Waiting, Ticket
  <2>3. Plugin!OldestOfApp(Ticket(h))
    BY <1>0, <2>1, HeadIsOldest DEF Plugin!OldestOfApp, Ticket
  <2>4. Waiting' = Waiting \ {Ticket(h)} /\ h.id \notin DOMAIN current
    BY <1>0, <2>1 DEF Waiting, Ticket, QueueInv, Ids
  <2>5. Serving' = (Serving \ {t}) \cup {Ticket(h)}
    <3>1. /\ DOMAIN current' = (DOMAIN current \ {r}) \cup {h.id}
          /\ current'[h.id] = h
          /\ \A s \in DOMAIN current \ {r} : current'[s] = current[s]
      BY <2>1, <2>4 DEF Bind, Unbind
    <3>2. Serving' = {[id |-> s, app |-> current[s].app] : s \in DOMAIN current \ {r}}
                       \cup {Ticket(h)}
      BY <3>1, <2>4 DEF Serving, Ticket
    <3>3. Serving \ {t} = {[id |-> s, app |-> current[s].app] :
                             s \in DOMAIN current \ {r}}
      BY DEF Serving
    <3>. QED  BY <3>2, <3>3
  <2>. QED
    BY <2>1, <2>2, <2>3, <2>4, <2>5 DEF Plugin!HandOver, Serving, Waiting
<1>4. ASSUME NEW r \in DOMAIN current, CompleteIdle(r)
      PROVE  \E t \in Serving : Plugin!Free(t)
  <2> DEFINE t == [id |-> r, app |-> current[r].app]
  <2>1. /\ queue = {} /\ queue' = {} /\ itemId' = itemId
        /\ current' = Unbind(current, r)
    BY <1>4 DEF CompleteIdle
  <2>2. t \in Serving /\ Serving' = Serving \ {t}
    BY <2>1 DEF Serving, Unbind
  <2>. QED  BY <2>1, <2>2 DEF Plugin!Free, Serving
<1>5. CASE UNCHANGED queueVars
  BY <1>5 DEF queueVars, Plugin!vars
<1>6. \/ UNCHANGED queueVars
      \/ \E a \in Apps, size \in Sizes : EnqueueDispatch(a, size) \/ EnqueueHold(a, size)
      \/ \E r \in DOMAIN current : CompleteDispatch(r) \/ CompleteIdle(r)
  BY DEF Next, vars, Launch, OtherBroadcast, Send, Receive, Apply
<1>. QED
  BY <1>1, <1>2, <1>3, <1>4, <1>5, <1>6 DEF Plugin!Next, Serving

(* DSFQ keeps the promise of a work-conserving plug-in, whatever the other *)
(* proxies report: a delay changes which application is served next, and   *)
(* nothing else.                                                           *)
THEOREM Refinement == Spec => KeepsPromise
<1>1. Init => Plugin!Init
  BY DEF Init, Plugin!Init
<1>. QED
  BY <1>1, InitInv, StepInv, StepPromise, PTL DEF Spec, KeepsPromise, Plugin!Spec

-----------------------------------------------------------------------------
(* The virtual plug-ins *)

(* What is proved of module VDSFQ, for the variables of this module. *)
VP == INSTANCE VDSFQ_proofs WITH
  Threshold <- VThreshold,
  VREDUCER <- REDUCER, PeerApps <- VPeerApps, MaxItems <- VItems,
  queue <- vqueue, virtualTime <- vtime, lastFinish <- vfinish,
  depth <- vdepth, itemId <- vid, current <- vcurrent, pending <- vpending,
  ioCounter <- vcounter, applying <- vapplying, coordinator <- vcoordinator,
  worker <- vworker, complete <- vcomplete, begin <- vbegin, ready <- vready,
  outgoing <- voutgoing, told <- vtold

VP2 == INSTANCE VDSFQ_proofs WITH
  Threshold <- V2!DefaultThreshold,
  VREDUCER <- REDUCER, PeerApps <- VPeerApps, MaxItems <- VItems,
  queue <- vqueue, virtualTime <- vtime, lastFinish <- vfinish,
  depth <- vdepth, itemId <- vid, current <- vcurrent, pending <- vpending,
  ioCounter <- vcounter, applying <- vapplying, coordinator <- vcoordinator,
  worker <- vworker, complete <- vcomplete, begin <- vbegin, ready <- vready,
  outgoing <- voutgoing, told <- vtold

LEMMA SameNext == V!Next => VP!Next
<1> SUFFICES ASSUME V!Next PROVE VP!Next
  OBVIOUS
<1>1. ASSUME NEW a \in Apps, NEW size \in Sizes, V!EnqueueDispatch(a, size)
      PROVE  VP!EnqueueDispatch(a, size)
  BY <1>1
  DEF V!EnqueueDispatch, VP!EnqueueDispatch, V!TakeHead, VP!TakeHead, V!Bind,
      VP!Bind, V!NewItem, VP!NewItem, V!Later, VP!Later, V!Count, VP!Count,
      V!B!Arm, VP!B!Arm, V!broadcastVars, VP!broadcastVars, V!B!vars,
      VP!B!vars, V!Tag, VP!Tag, V!receiveVars, VP!receiveVars
<1>2. ASSUME NEW a \in Apps, NEW size \in Sizes, V!EnqueueHold(a, size)
      PROVE  VP!EnqueueHold(a, size)
  BY <1>2
  DEF V!EnqueueHold, VP!EnqueueHold, V!Sorted, VP!Sorted, V!Before,
      VP!Before, V!ToSet, VP!ToSet, V!NewItem, VP!NewItem, V!Later, VP!Later,
      V!Count, VP!Count, V!B!Arm, VP!B!Arm, V!broadcastVars,
      VP!broadcastVars, V!B!vars, VP!B!vars, V!Tag, VP!Tag, V!receiveVars,
      VP!receiveVars
<1>3. ASSUME NEW r \in DOMAIN vcurrent, V!CompleteDispatch(r)
      PROVE  VP!CompleteDispatch(r)
  BY <1>3
  DEF V!CompleteDispatch, VP!CompleteDispatch, V!TakeHead, VP!TakeHead,
      V!Bind, VP!Bind, V!Unbind, VP!Unbind, V!countVars, VP!countVars,
      V!broadcastVars, VP!broadcastVars, V!receiveVars, VP!receiveVars
<1>4. ASSUME NEW r \in DOMAIN vcurrent, V!CompleteIdle(r)
      PROVE  VP!CompleteIdle(r)
  BY <1>4
  DEF V!CompleteIdle, VP!CompleteIdle, V!Unbind, VP!Unbind, V!countVars,
      VP!countVars, V!broadcastVars, VP!broadcastVars, V!receiveVars,
      VP!receiveVars
<1>5. ASSUME V!Tick PROVE VP!Tick
  BY <1>5
  DEF V!Tick, VP!Tick, V!queueVars, VP!queueVars, V!broadcastVars,
      VP!broadcastVars, V!receiveVars, VP!receiveVars
<1>6. ASSUME V!Launch PROVE VP!Launch
  BY <1>6
  DEF V!Launch, VP!Launch, V!B!Launch, VP!B!Launch, V!B!LastOneOver,
      VP!B!LastOneOver, V!Announcement, VP!Announcement, V!queueVars,
      VP!queueVars, V!receiveVars, VP!receiveVars
<1>7. ASSUME V!OtherBroadcast PROVE VP!OtherBroadcast
  BY <1>7
  DEF V!OtherBroadcast, VP!OtherBroadcast, V!B!Wait, VP!B!Wait,
      V!B!SleepForComplete, VP!B!SleepForComplete, V!B!SleepForThreshold,
      VP!B!SleepForThreshold, V!B!SleepForBegin, VP!B!SleepForBegin,
      V!B!LastOneOver, VP!B!LastOneOver, V!B!StartSending, VP!B!StartSending,
      V!B!Finish, VP!B!Finish, V!queueVars, VP!queueVars, V!countVars,
      VP!countVars, V!receiveVars, VP!receiveVars
<1>8. ASSUME NEW q \in Peers, V!Send(q) PROVE VP!Send(q)
  BY <1>8
  DEF V!Send, VP!Send, V!B!Send, VP!B!Send, V!queueVars, VP!queueVars,
      V!countVars, VP!countVars, V!receiveVars, VP!receiveVars
<1>9. ASSUME NEW q \in Peers, V!Receive(q) PROVE VP!Receive(q)
  BY <1>9
  DEF V!Receive, VP!Receive, V!queueVars, VP!queueVars, V!countVars,
      VP!countVars, V!broadcastVars, VP!broadcastVars
<1>10. ASSUME NEW a \in Apps, V!Apply(a) PROVE VP!Apply(a)
  BY <1>10
  DEF V!Apply, VP!Apply, V!queueVars, VP!queueVars, V!countVars,
      VP!countVars, V!broadcastVars, VP!broadcastVars
<1>. QED
  BY <1>1, <1>2, <1>3, <1>4, <1>5, <1>6, <1>7, <1>8, <1>9, <1>10 DEF V!Next, VP!Next

LEMMA SameNext2 == V2!Next => VP2!Next
<1> SUFFICES ASSUME V2!Next PROVE VP2!Next
  OBVIOUS
<1>1. ASSUME NEW a \in Apps, NEW size \in Sizes, V2!V!EnqueueDispatch(a, size)
      PROVE  VP2!EnqueueDispatch(a, size)
  BY <1>1
  DEF V2!V!EnqueueDispatch, VP2!EnqueueDispatch, V2!V!TakeHead, VP2!TakeHead,
      V2!V!Bind, VP2!Bind, V2!V!NewItem, VP2!NewItem, V2!V!Later, VP2!Later,
      V2!V!Count, VP2!Count, V2!V!B!Arm, VP2!B!Arm, V2!V!broadcastVars,
      VP2!broadcastVars, V2!V!B!vars, VP2!B!vars, V2!V!Tag, VP2!Tag,
      V2!V!receiveVars, VP2!receiveVars
<1>2. ASSUME NEW a \in Apps, NEW size \in Sizes, V2!V!EnqueueHold(a, size)
      PROVE  VP2!EnqueueHold(a, size)
  BY <1>2
  DEF V2!V!EnqueueHold, VP2!EnqueueHold, V2!V!Sorted, VP2!Sorted,
      V2!V!Before, VP2!Before, V2!V!ToSet, VP2!ToSet, V2!V!NewItem,
      VP2!NewItem, V2!V!Later, VP2!Later, V2!V!Count, VP2!Count, V2!V!B!Arm,
      VP2!B!Arm, V2!V!broadcastVars, VP2!broadcastVars, V2!V!B!vars,
      VP2!B!vars, V2!V!Tag, VP2!Tag, V2!V!receiveVars, VP2!receiveVars
<1>3. ASSUME NEW r \in DOMAIN vcurrent, V2!V!CompleteDispatch(r)
      PROVE  VP2!CompleteDispatch(r)
  BY <1>3
  DEF V2!V!CompleteDispatch, VP2!CompleteDispatch, V2!V!TakeHead,
      VP2!TakeHead, V2!V!Bind, VP2!Bind, V2!V!Unbind, VP2!Unbind,
      V2!V!countVars, VP2!countVars, V2!V!broadcastVars, VP2!broadcastVars,
      V2!V!receiveVars, VP2!receiveVars
<1>4. ASSUME NEW r \in DOMAIN vcurrent, V2!V!CompleteIdle(r)
      PROVE  VP2!CompleteIdle(r)
  BY <1>4
  DEF V2!V!CompleteIdle, VP2!CompleteIdle, V2!V!Unbind, VP2!Unbind,
      V2!V!countVars, VP2!countVars, V2!V!broadcastVars, VP2!broadcastVars,
      V2!V!receiveVars, VP2!receiveVars
<1>5. ASSUME V2!V!Tick PROVE VP2!Tick
  BY <1>5
  DEF V2!V!Tick, VP2!Tick, V2!V!queueVars, VP2!queueVars, V2!V!broadcastVars,
      VP2!broadcastVars, V2!V!receiveVars, VP2!receiveVars
<1>6. ASSUME V2!V!Launch PROVE VP2!Launch
  BY <1>6
  DEF V2!V!Launch, VP2!Launch, V2!V!B!Launch, VP2!B!Launch,
      V2!V!B!LastOneOver, VP2!B!LastOneOver, V2!V!Announcement,
      VP2!Announcement, V2!V!queueVars, VP2!queueVars, V2!V!receiveVars,
      VP2!receiveVars
<1>7. ASSUME V2!V!OtherBroadcast PROVE VP2!OtherBroadcast
  BY <1>7
  DEF V2!V!OtherBroadcast, VP2!OtherBroadcast, V2!V!B!Wait, VP2!B!Wait,
      V2!V!B!SleepForComplete, VP2!B!SleepForComplete,
      V2!V!B!SleepForThreshold, VP2!B!SleepForThreshold,
      V2!V!B!SleepForBegin, VP2!B!SleepForBegin, V2!V!B!LastOneOver,
      VP2!B!LastOneOver, V2!V!B!StartSending, VP2!B!StartSending,
      V2!V!B!Finish, VP2!B!Finish, V2!V!queueVars, VP2!queueVars,
      V2!V!countVars, VP2!countVars, V2!V!receiveVars, VP2!receiveVars
<1>8. ASSUME NEW q \in Peers, V2!V!Send(q) PROVE VP2!Send(q)
  BY <1>8
  DEF V2!V!Send, VP2!Send, V2!V!B!Send, VP2!B!Send, V2!V!queueVars,
      VP2!queueVars, V2!V!countVars, VP2!countVars, V2!V!receiveVars,
      VP2!receiveVars
<1>9. ASSUME NEW q \in Peers, V2!V!Receive(q) PROVE VP2!Receive(q)
  BY <1>9
  DEF V2!V!Receive, VP2!Receive, V2!V!queueVars, VP2!queueVars,
      V2!V!countVars, VP2!countVars, V2!V!broadcastVars, VP2!broadcastVars
<1>10. ASSUME NEW a \in Apps, V2!V!Apply(a) PROVE VP2!Apply(a)
  BY <1>10
  DEF V2!V!Apply, VP2!Apply, V2!V!queueVars, VP2!queueVars, V2!V!countVars,
      VP2!countVars, V2!V!broadcastVars, VP2!broadcastVars
<1>. QED
  BY <1>1, <1>2, <1>3, <1>4, <1>5, <1>6, <1>7, <1>8, <1>9, <1>10
  DEF V2!Next, VP2!Next, V2!Enqueue, V2!Complete, V2!Tick, V2!Launch, V2!Work, V2!Receive

LEMMA SameInit == V!Init => VP!Init /\ VP2!Init
BY DEF V!Init, VP!Init, VP2!Init, V!B!Init, VP!B!Init, VP2!B!Init

(* The settings of the virtual plug-ins, with a threshold of its own for   *)
(* vDSFQ and the default for vDSFQ2.                                       *)
LEMMA SettingsHold ==
  /\ VP!Settings /\ VP!QueueSettings
  /\ VP2!Settings /\ VP2!QueueSettings
<1>1. Nothing \notin [Apps -> {0, 1}]
  BY DSFQAssumption
<1>2. \A size \in Sizes : size \in Nat
  BY DSFQAssumption
<1>3. VP!IsFiniteSet(Apps) /\ VP!IsFiniteSet(Peers)
  BY VirtualAssumption DEF VP!IsFiniteSet, IsFiniteSet
<1>4. VP2!IsFiniteSet(Apps) /\ VP2!IsFiniteSet(Peers)
  BY VirtualAssumption DEF VP2!IsFiniteSet, IsFiniteSet
<1>5. VP!Settings
  BY <1>1, <1>3, VirtualAssumption DEF VP!Settings, VP!Report
<1>6. VP2!Settings
  BY <1>1, <1>4, VirtualAssumption DEF VP2!Settings, VP2!Report, V2!DefaultThreshold
<1>7. VP!QueueSettings /\ VP2!QueueSettings
  BY <1>2, DSFQAssumption, VirtualAssumption DEF VP!QueueSettings, VP2!QueueSettings
<1>. QED  BY <1>5, <1>6, <1>7

(* Each part has the invariant of its plug-in. *)
VirtualInv == VP!Inv /\ VP!QueueInv
VirtualInv2 == VP2!Inv /\ VP2!QueueInv

PartsInv ==
  /\ subject # "vdsfq2" => VirtualInv
  /\ subject = "vdsfq2" => VirtualInv2

LEMMA StepOfPart ==
  ASSUME [MCNext]_allVars
  PROVE  /\ subject' = subject /\ [Next]_vars
         /\ subject # "vdsfq2" => [VP!Next]_(VP!vars)
         /\ subject = "vdsfq2" => [VP2!Next]_(VP2!vars)
<1>1. ASSUME UNCHANGED vvars
      PROVE  UNCHANGED (VP!vars) /\ UNCHANGED (VP2!vars)
  BY <1>1
  DEF vvars, VP!vars, VP2!vars, VP!queueVars, VP2!queueVars, VP!countVars, VP2!countVars,
      VP!broadcastVars, VP2!broadcastVars, VP!receiveVars, VP2!receiveVars
<1>2. CASE subject = "dsfq" /\ Next /\ UNCHANGED <<vvars, rvars>> /\ UNCHANGED subject
  BY <1>1, <1>2
<1>3. CASE subject = "vdsfq" /\ V!Next /\ UNCHANGED <<vars, rvars>> /\ UNCHANGED subject
  BY <1>3, SameNext
<1>4. CASE subject = "vdsfq2" /\ V2!Next /\ UNCHANGED <<vars, rvars>> /\ UNCHANGED subject
  BY <1>4, SameNext2
<1>5. CASE subject = "start" /\ R!Next /\ UNCHANGED <<vars, vvars>> /\ UNCHANGED subject
  BY <1>1, <1>5
<1>6. CASE UNCHANGED allVars
  BY <1>1, <1>6 DEF allVars
<1>. QED  BY <1>2, <1>3, <1>4, <1>5, <1>6 DEF MCNext

LEMMA InitParts == MCInit => PartsInv
<1> SUFFICES ASSUME MCInit PROVE PartsInv
  OBVIOUS
<1>1. VP!Init /\ VP2!Init
  BY SameInit DEF MCInit
<1>2. VP!Inv /\ VP!QueueInv
  BY <1>1, SettingsHold, VP!InitInv, VP!InitQueue
<1>3. VP2!Inv /\ VP2!QueueInv
  BY <1>1, SettingsHold, VP2!InitInv, VP2!InitQueue
<1>. QED  BY <1>2, <1>3 DEF PartsInv, VirtualInv, VirtualInv2

LEMMA StepParts ==
  ASSUME PartsInv, [MCNext]_allVars
  PROVE  PartsInv'
<1>1. CASE subject # "vdsfq2"
  <2>1. VP!Inv /\ VP!QueueInv /\ [VP!Next]_(VP!vars) /\ subject' # "vdsfq2"
    BY <1>1, StepOfPart DEF PartsInv, VirtualInv
  <2>2. VP!Inv'
    BY <2>1, SettingsHold, VP!StepKeeps
  <2>3. VP!ReceiveTypes
    BY <2>1 DEF VP!Inv, VP!ReceiveInv
  <2>4. VP!QueueInv'
    BY <2>1, <2>3, SettingsHold, VP!StepQueue
  <2>. QED  BY <2>1, <2>2, <2>4 DEF PartsInv, VirtualInv
<1>2. CASE subject = "vdsfq2"
  <2>1. VP2!Inv /\ VP2!QueueInv /\ [VP2!Next]_(VP2!vars) /\ subject' = "vdsfq2"
    BY <1>2, StepOfPart DEF PartsInv, VirtualInv2
  <2>2. VP2!Inv'
    BY <2>1, SettingsHold, VP2!StepKeeps
  <2>3. VP2!ReceiveTypes
    BY <2>1 DEF VP2!Inv, VP2!ReceiveInv
  <2>4. VP2!QueueInv'
    BY <2>1, <2>3, SettingsHold, VP2!StepQueue
  <2>. QED  BY <2>1, <2>2, <2>4 DEF PartsInv, VirtualInv2
<1>. QED  BY <1>1, <1>2

LEMMA PartsInvariance == MCSpec => [](PartsInv /\ Inv)
<1>1. MCInit => PartsInv /\ Inv
  BY InitParts, InitInv DEF MCInit
<1>2. PartsInv /\ Inv /\ [MCNext]_allVars => PartsInv' /\ Inv'
  BY StepParts, StepOfPart, StepInv
<1>. QED  BY <1>1, <1>2, PTL DEF MCSpec

-----------------------------------------------------------------------------
(* The run's properties *)

LEMMA TypesOfParts ==
  ASSUME PartsInv
  PROVE  V!TypeOK
<1>1. VP!TypeOK => V!TypeOK
  BY DEF V!TypeOK, VP!TypeOK, V!Item, VP!Item, V!Report, VP!Report,
         V!B!TypeOK, VP!B!TypeOK, V!B!CoordinatorAt, VP!B!CoordinatorAt,
         V!B!WorkerAt, VP!B!WorkerAt
<1>2. VP2!TypeOK => V!TypeOK
  BY DEF V!TypeOK, VP2!TypeOK, V!Item, VP2!Item, V!Report, VP2!Report,
         V!B!TypeOK, VP2!B!TypeOK, V!B!CoordinatorAt, VP2!B!CoordinatorAt,
         V!B!WorkerAt, VP2!B!WorkerAt
<1>. QED
  BY <1>1, <1>2, VP!InvTypes, VP2!InvTypes DEF PartsInv, VirtualInv, VirtualInv2

(* Every global of the three plug-ins keeps its type. *)
THEOREM AllTyped == MCSpec => []TypesOK
<1>1. PartsInv /\ Inv => TypesOK
  BY TypesOfParts, InvTypes DEF TypesOK
<1>. QED  BY <1>1, PartsInvariance, PTL

LEMMA AnnouncedByParts ==
  ASSUME PartsInv
  PROVE  V!AnnouncedOnce /\ V!RemoteCountsProxies
<1>1. CASE subject # "vdsfq2"
  <2>1. VP!AnnouncedOnce /\ VP!RemoteCountsProxies
    BY <1>1 DEF PartsInv, VirtualInv, VP!Inv, VP!CountInv, VP!ReceiveInv
  <2>. QED
    BY <2>1 DEF V!AnnouncedOnce, VP!AnnouncedOnce, V!Carried, VP!Carried,
       V!RemoteCountsProxies, VP!RemoteCountsProxies, V!Cardinality, VP!Cardinality,
       V!IsFiniteSet, VP!IsFiniteSet
<1>2. CASE subject = "vdsfq2"
  <2>1. VP2!AnnouncedOnce /\ VP2!RemoteCountsProxies
    BY <1>2 DEF PartsInv, VirtualInv2, VP2!Inv, VP2!CountInv, VP2!ReceiveInv
  <2>. QED
    BY <2>1 DEF V!AnnouncedOnce, VP2!AnnouncedOnce, V!Carried, VP2!Carried,
       V!RemoteCountsProxies, VP2!RemoteCountsProxies, V!Cardinality, VP2!Cardinality,
       V!IsFiniteSet, VP2!IsFiniteSet
<1>. QED  BY <1>1, <1>2

LEMMA NewsOfPart ==
  ASSUME PartsInv, subject = "vdsfq"
  PROVE  V!BroadcastsNews
<1>1. VP!BroadcastsNews
  BY DEF PartsInv, VirtualInv, VP!Inv, VP!CountInv
<1>. QED
  BY <1>1 DEF V!BroadcastsNews, VP!BroadcastsNews, V!B!NoLostWakeup, VP!B!NoLostWakeup,
     V!B!BuffersHandedOver, VP!B!BuffersHandedOver, V!Cardinality, VP!Cardinality,
     V!IsFiniteSet, VP!IsFiniteSet

LEMMA NewsOfPart2 ==
  ASSUME PartsInv, subject = "vdsfq2"
  PROVE  V2!V!BroadcastsNews /\ V2!NeverWaitsForTimer
<1>1. VP2!CountInv /\ VP2!BroadcastsNews
  BY DEF PartsInv, VirtualInv2, VP2!Inv, VP2!CountInv
<1>2. V2!V!BroadcastsNews
  BY <1>1 DEF V2!V!BroadcastsNews, VP2!BroadcastsNews,
     V2!V!B!NoLostWakeup, VP2!B!NoLostWakeup,
     V2!V!B!BuffersHandedOver, VP2!B!BuffersHandedOver,
     V2!V!Cardinality, VP2!Cardinality, V2!V!IsFiniteSet, VP2!IsFiniteSet
<1>3. ASSUME NEW a \in Apps, local[a] = 1 PROVE vready
  <2>1. V2!DefaultThreshold = 1
    BY DEF V2!DefaultThreshold
  <2>. QED  BY <1>1, <1>3, <2>1, SettingsHold, VP2!OneIsEnough
<1>. QED  BY <1>2, <1>3 DEF V2!NeverWaitsForTimer

(* vDSFQ and vDSFQ2 announce every application exactly once to every peer, *)
(* count every other proxy once, lose no signal and send no broadcast      *)
(* without news; and vDSFQ2 never leaves an application to its timer.      *)
THEOREM AnnouncementsMade == MCSpec => []Announcements
<1>1. PartsInv => Announcements
  BY AnnouncedByParts, NewsOfPart, NewsOfPart2 DEF Announcements
<1>. QED  BY <1>1, PartsInvariance, PTL

(* All three plug-ins keep the promise of a work-conserving plug-in.       *)
LEMMA PromiseOfPart ==
  ASSUME PartsInv, [MCNext]_allVars
  PROVE  [V!Plugin!Next]_(V!Plugin!vars)
<1>1. CASE subject # "vdsfq2"
  <2>1. /\ VP!QueueInv /\ [VP!Next]_(VP!vars) /\ VP!ReceiveTypes
    BY <1>1, StepOfPart DEF PartsInv, VirtualInv, VP!Inv, VP!ReceiveInv
  <2>2. [VP!Plugin!Next]_(VP!Plugin!vars)
    BY <2>1, SettingsHold, VP!StepPromise
  <2>. QED
    BY <2>2 DEF V!Plugin!Next, VP!Plugin!Next, V!Plugin!vars, VP!Plugin!vars,
       V!Plugin!Release, VP!Plugin!Release, V!Plugin!Hold, VP!Plugin!Hold,
       V!Plugin!HandOver, VP!Plugin!HandOver, V!Plugin!OldestOfApp, VP!Plugin!OldestOfApp,
       V!Plugin!Free, VP!Plugin!Free, V!Plugin!Cardinality, VP!Plugin!Cardinality,
       V!Plugin!IsFiniteSet, VP!Plugin!IsFiniteSet, V!ToSet, VP!ToSet
<1>2. CASE subject = "vdsfq2"
  <2>1. /\ VP2!QueueInv /\ [VP2!Next]_(VP2!vars) /\ VP2!ReceiveTypes
    BY <1>2, StepOfPart DEF PartsInv, VirtualInv2, VP2!Inv, VP2!ReceiveInv
  <2>2. [VP2!Plugin!Next]_(VP2!Plugin!vars)
    BY <2>1, SettingsHold, VP2!StepPromise
  <2>. QED
    BY <2>2 DEF V!Plugin!Next, VP2!Plugin!Next, V!Plugin!vars, VP2!Plugin!vars,
       V!Plugin!Release, VP2!Plugin!Release, V!Plugin!Hold, VP2!Plugin!Hold,
       V!Plugin!HandOver, VP2!Plugin!HandOver, V!Plugin!OldestOfApp, VP2!Plugin!OldestOfApp,
       V!Plugin!Free, VP2!Plugin!Free, V!Plugin!Cardinality, VP2!Plugin!Cardinality,
       V!Plugin!IsFiniteSet, VP2!Plugin!IsFiniteSet, V!ToSet, VP2!ToSet
<1>. QED  BY <1>1, <1>2

(* DSFQ, vDSFQ and vDSFQ2 release a request as soon as a slot is free,     *)
(* never hold more slots than their depth and serve each application in    *)
(* order, whatever the other proxies report or announce.                   *)
THEOREM AllKeepPromise == MCSpec => PromisesKept
<1>1. MCInit => Init /\ V!Plugin!Init
  BY DEF MCInit, V!Init, V!Plugin!Init, V!ToSet
<1>2. [MCNext]_allVars => [Next]_vars
  BY StepOfPart
<1>3. MCSpec => KeepsPromise
  BY <1>1, <1>2, Refinement, PTL DEF MCSpec, Spec
<1>4. PartsInv /\ [MCNext]_allVars => [V!Plugin!Next]_(V!Plugin!vars)
  BY PromiseOfPart
<1>5. MCSpec => V!KeepsPromise
  BY <1>1, <1>4, PartsInvariance, PTL DEF MCSpec, V!KeepsPromise, V!Plugin!Spec
<1>. QED  BY <1>3, <1>5, PTL DEF PromisesKept

=============================================================================
