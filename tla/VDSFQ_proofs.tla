---------------------------- MODULE VDSFQ_proofs ----------------------------
(***************************************************************************)
(* Proofs about VDSFQ, for all finite sets of applications and of peers    *)
(* and every threshold: what is announced, when the threads of the         *)
(* broadcast sleep, and what is counted of the other proxies.  None of it  *)
(* depends on the queue, so this invariant leaves the queue out; the       *)
(* queue's own invariant, and with it the typing and the promise of        *)
(* module Dispatcher, come after it, for all weights and depths.           *)
(***************************************************************************)
EXTENDS VDSFQ, FiniteSetTheorems, WellFoundedInduction, TLAPS

(* Applications and proxies are finitely many; vdsfq_threshold is at       *)
(* least 1, and no announcement is an empty buffer.                        *)
Settings ==
  /\ IsFiniteSet(Apps) /\ IsFiniteSet(Peers)
  /\ PeerApps \subseteq Apps
  /\ Threshold \in Nat \ {0}
  /\ Nothing \notin Report

-----------------------------------------------------------------------------
(* The inductive invariant *)

New(f) == {a \in Apps : f[a] = 1}

CountTypes ==
  /\ local \in [Apps -> 0 .. 2] /\ left \in {0, 1}
  /\ pending \in Report /\ ioCounter \in Nat /\ timeout \in {0, 1}
  /\ told \in [Peers -> Report]
  /\ B!TypeOK(Report)

(* vdsfq_left2 is 1 from the start: a timer can only do harm before the    *)
(* first request, and that request is news.                                *)
LeftMeansNews == left = 1 /\ ioCounter = 0 => \A a \in Apps : local[a] = 0

CountInv == CountTypes /\ AnnouncedOnce /\ BroadcastsNews /\ LeftMeansNews

ReceiveTypes ==
  /\ remote \in [Apps -> Nat] /\ applying \subseteq Apps
  /\ heardOf \in [Peers -> SUBSET Apps]

ReceiveInv == ReceiveTypes /\ RemoteCountsProxies

Inv == CountInv /\ ReceiveInv

LEMMA InitInv ==
  ASSUME Settings, Init
  PROVE  Inv
<1>1. CountTypes
  <2>1. /\ local \in [Apps -> 0 .. 2] /\ left \in {0, 1} /\ pending \in Report
        /\ ioCounter \in Nat /\ timeout \in {0, 1} /\ told \in [Peers -> Report]
    BY DEF Init, Report
  <2>2. B!TypeOK(Report)
    BY DEF Init, B!Init, B!TypeOK, B!CoordinatorAt, B!WorkerAt
  <2>. QED  BY <2>1, <2>2 DEF CountTypes
<1>2. AnnouncedOnce
  BY DEF Init, B!Init, AnnouncedOnce, Carried
<1>3. BroadcastsNews
  <2>1. {a \in Apps : local[a] = 1} = {}
    BY DEF Init
  <2>2. ioCounter = Cardinality({a \in Apps : local[a] = 1})
    BY <2>1, FS_EmptySet DEF Init
  <2>3. B!NoLostWakeup /\ B!BuffersHandedOver
    BY DEF Init, B!Init, B!NoLostWakeup, B!BuffersHandedOver
  <2>4. ioCounter = 0 /\ ready = FALSE /\ Threshold \in Nat \ {0} /\ left = 1
    BY DEF Init, B!Init, Settings
  <2>. QED  BY <2>2, <2>3, <2>4 DEF BroadcastsNews
<1>4. LeftMeansNews
  BY DEF Init, LeftMeansNews
<1>5. ReceiveTypes
  BY DEF Init, ReceiveTypes
<1>6. RemoteCountsProxies
  <2>1. \A a \in Apps : {q \in Peers : a \in heardOf[q]} = {}
    BY DEF Init
  <2>. QED  BY <2>1, FS_EmptySet DEF Init, RemoteCountsProxies
<1>. QED  BY <1>1, <1>2, <1>3, <1>4, <1>5, <1>6 DEF Inv, CountInv, ReceiveInv

-----------------------------------------------------------------------------
(* Counting and broadcasting *)

(* The first request of an application is news, no other is. *)
LEMMA NewIsCounted ==
  ASSUME Settings, NEW f \in [Apps -> 0 .. 2], NEW a \in Apps, f[a] = 0,
         NEW g, g = [f EXCEPT ![a] = 1]
  PROVE  Cardinality(New(g)) = Cardinality(New(f)) + 1
<1>1. New(g) = New(f) \cup {a} /\ a \notin New(f)
  BY DEF New
<1>2. IsFiniteSet(New(f))
  BY FS_Subset DEF New, Settings
<1>3. Cardinality(New(f) \cup {a}) = Cardinality(New(f)) + 1
  BY <1>1, <1>2, FS_AddElement
<1>. QED  BY <1>1, <1>3

LEMMA CountKeeps ==
  ASSUME Settings, CountInv, NEW a \in Apps, Count(a), UNCHANGED told
  PROVE  CountInv'
<1> DEFINE new == local[a] = 0
<1> DEFINE left2 == IF new THEN 1 ELSE left
<1> DEFINE counter == IF new THEN ioCounter + 1 ELSE ioCounter
<1>1. /\ local' = [local EXCEPT ![a] = IF new THEN 1 ELSE @]
      /\ pending' = [pending EXCEPT ![a] = IF new THEN 1 ELSE @]
      /\ left' = left2 /\ ioCounter' = counter
      /\ IF (left2 = 1 /\ timeout = 1) \/ counter >= Threshold
         THEN B!Arm ELSE UNCHANGED broadcastVars
      /\ timeout' = timeout /\ told' = told
  BY DEF Count
<1>2. /\ local \in [Apps -> 0 .. 2] /\ left \in {0, 1} /\ pending \in Report
      /\ ioCounter \in Nat /\ timeout \in {0, 1} /\ told \in [Peers -> Report]
      /\ B!TypeOK(Report) /\ Threshold \in Nat \ {0}
  BY DEF CountInv, CountTypes, Settings
<1>3. /\ B!NoLostWakeup /\ B!BuffersHandedOver
      /\ ioCounter = Cardinality(New(local))
      /\ ioCounter >= Threshold => ready
      /\ ready => ioCounter > 0
      /\ left = 0 => ioCounter = 0
      /\ LeftMeansNews
  BY DEF CountInv, BroadcastsNews, New
<1>4. UNCHANGED <<worker, complete, begin, outgoing>>
  BY <1>1 DEF B!Arm, broadcastVars
<1>5. /\ coordinator' \in B!CoordinatorAt /\ ready' \in BOOLEAN
      /\ B!NoLostWakeup' /\ B!BuffersHandedOver'
  BY <1>1, <1>2, <1>3
  DEF B!Arm, broadcastVars, B!TypeOK, B!CoordinatorAt, B!NoLostWakeup,
      B!BuffersHandedOver
<1>6. local' \in [Apps -> 0 .. 2] /\ pending' \in Report
  BY <1>1, <1>2 DEF Report
<1>7. left' \in {0, 1} /\ ioCounter' \in Nat
  BY <1>1, <1>2
<1>8. CountTypes'
  BY <1>1, <1>2, <1>4, <1>5, <1>6, <1>7 DEF CountTypes, B!TypeOK
<1>9. AnnouncedOnce'
  <2>1. \A q \in Peers : Carried(q)' = Carried(q)
    BY <1>4 DEF Carried
  <2>2. ASSUME NEW b \in Apps
        PROVE  /\ pending'[b] = (IF local'[b] = 1 THEN 1 ELSE 0)
               /\ local'[b] = 2 <=> local[b] = 2
    BY <1>1, <1>2 DEF CountInv, AnnouncedOnce, Report
  <2>. QED  BY <1>1, <2>1, <2>2 DEF CountInv, AnnouncedOnce
<1>10. ioCounter' = Cardinality(New(local'))
  <2>1. CASE new
    <3>1. local' = [local EXCEPT ![a] = 1] /\ ioCounter' = ioCounter + 1
      BY <1>1, <2>1
    <3>. QED  BY <1>2, <1>3, <2>1, <3>1, NewIsCounted
  <2>2. CASE ~new
    <3>1. local' = local /\ ioCounter' = ioCounter
      BY <1>1, <1>2, <2>2
    <3>. QED  BY <1>3, <3>1
  <2>. QED  BY <2>1, <2>2
<1>11. left' = 1 => ioCounter' > 0
  <2>1. CASE new
    BY <1>1, <1>2, <2>1
  <2>2. CASE ~new
    BY <1>1, <1>2, <1>3, <2>2 DEF LeftMeansNews
  <2>. QED  BY <2>1, <2>2
<1>12. LeftMeansNews'
  BY <1>7, <1>11 DEF LeftMeansNews
<1>13. left' = 0 => ioCounter' = 0
  BY <1>1, <1>3
<1>14. ioCounter' >= Threshold => ready'
  BY <1>1, <1>3 DEF B!Arm, broadcastVars
<1>15. ready' => ioCounter' > 0
  <2>1. CASE left' = 1
    BY <1>11, <2>1
  <2>2. CASE left' # 1
    <3>1. ioCounter' = 0 /\ ioCounter = 0 /\ left2 # 1 /\ ~(counter >= Threshold)
      BY <1>1, <1>2, <1>7, <1>13, <2>2
    <3>2. ready' = ready
      BY <1>1, <3>1 DEF broadcastVars
    <3>. QED  BY <1>3, <3>1, <3>2
  <2>. QED  BY <2>1, <2>2
<1>16. BroadcastsNews'
  BY <1>5, <1>10, <1>13, <1>14, <1>15 DEF BroadcastsNews, New
<1>. QED  BY <1>8, <1>9, <1>12, <1>16 DEF CountInv

(* The timer only sets its flag. *)
LEMMA TickKeeps ==
  ASSUME CountInv, Tick
  PROVE  CountInv'
<1>1. /\ timeout' = 1
      /\ UNCHANGED <<local, left, pending, ioCounter, told>>
      /\ UNCHANGED <<coordinator, worker, complete, begin, ready, outgoing>>
  BY DEF Tick, broadcastVars
<1>2. CountTypes'
  BY <1>1 DEF CountInv, CountTypes, B!TypeOK
<1>3. AnnouncedOnce' /\ BroadcastsNews' /\ LeftMeansNews'
  BY <1>1 DEF CountInv, AnnouncedOnce, Carried, BroadcastsNews, LeftMeansNews,
              B!NoLostWakeup, B!BuffersHandedOver
<1>. QED  BY <1>2, <1>3 DEF CountInv

(* The coordinator only works while the buffers are empty; what is new     *)
(* goes into them and is new no more.                                      *)
LEMMA LaunchKeeps ==
  ASSUME Settings, CountInv, Launch
  PROVE  CountInv'
<1>1. /\ B!LastOneOver /\ ready
      /\ outgoing' = [q \in Peers |-> Announcement]
      /\ complete' = FALSE /\ ready' = FALSE /\ begin' = TRUE
      /\ worker' = (IF worker = "sleep" THEN "test" ELSE worker)
      /\ coordinator' = "testComplete"
      /\ local' = [a \in Apps |-> IF local[a] = 1 THEN 2 ELSE local[a]]
      /\ pending' = [a \in Apps |-> 0]
      /\ left' = 0 /\ ioCounter' = 0 /\ timeout' = 0 /\ told' = told
  BY DEF Launch, B!Launch
<1>2. /\ local \in [Apps -> 0 .. 2] /\ pending \in Report
      /\ told \in [Peers -> Report] /\ B!TypeOK(Report)
      /\ AnnouncedOnce /\ B!NoLostWakeup /\ B!BuffersHandedOver
      /\ Threshold \in Nat \ {0} /\ Nothing \notin Report
  BY DEF CountInv, CountTypes, BroadcastsNews, Settings
<1>3. complete /\ \A q \in Peers : outgoing[q] = Nothing
  BY <1>1, <1>2 DEF B!LastOneOver, B!BuffersHandedOver
<1>4. Announcement \in Report
  BY <1>2 DEF Announcement, Report
<1>5. local' \in [Apps -> 0 .. 2] /\ pending' \in Report
  BY <1>1, <1>2 DEF Report
<1>6. CountTypes'
  <2>1. worker' \in B!WorkerAt
    BY <1>1, <1>2 DEF B!TypeOK, B!WorkerAt
  <2>2. outgoing' \in [Peers -> Report \cup {Nothing}]
    BY <1>1, <1>4
  <2>. QED
    BY <1>1, <1>2, <1>5, <2>1, <2>2 DEF CountTypes, B!TypeOK, B!CoordinatorAt
<1>7. AnnouncedOnce'
  <2> SUFFICES ASSUME NEW a \in Apps
      PROVE  /\ pending'[a] = (IF local'[a] = 1 THEN 1 ELSE 0)
             /\ \A q \in Peers :
                  told[q][a] + Carried(q)'[a] = (IF local'[a] = 2 THEN 1 ELSE 0)
    BY <1>1 DEF AnnouncedOnce
  <2>1. pending'[a] = 0 /\ local'[a] # 1
    BY <1>1, <1>2
  <2>2. ASSUME NEW q \in Peers
        PROVE  told[q][a] + Carried(q)'[a] = (IF local'[a] = 2 THEN 1 ELSE 0)
    <3>1. /\ told[q][a] + 0 = (IF local[a] = 2 THEN 1 ELSE 0)
          /\ pending[a] = (IF local[a] = 1 THEN 1 ELSE 0)
          /\ told[q][a] \in {0, 1}
      BY <1>2, <1>3 DEF AnnouncedOnce, Carried, Report
    <3>2. Announcement # Nothing
      BY <1>2, <1>4
    <3>3. Carried(q)' = Announcement
      BY <1>1, <3>2 DEF Carried
    <3>4. Announcement[a] = (IF local[a] = 1 THEN 1 ELSE 0)
      BY <3>1 DEF Announcement
    <3>5. local'[a] = (IF local[a] = 1 THEN 2 ELSE local[a])
      BY <1>1
    <3>. QED  BY <3>1, <3>3, <3>4, <3>5
  <2>. QED  BY <2>1, <2>2
<1>8. BroadcastsNews'
  <2>1. {a \in Apps : local'[a] = 1} = {}
    BY <1>1
  <2>2. ioCounter' = Cardinality({a \in Apps : local[a] = 1})'
    BY <1>1, <2>1, FS_EmptySet
  <2>3. worker' # "sleep"
    BY <1>1
  <2>4. B!NoLostWakeup' /\ B!BuffersHandedOver'
    BY <1>1, <2>3 DEF B!NoLostWakeup, B!BuffersHandedOver
  <2>. QED  BY <1>1, <1>2, <2>2, <2>4 DEF BroadcastsNews
<1>9. LeftMeansNews'
  BY <1>1 DEF LeftMeansNews
<1>. QED  BY <1>6, <1>7, <1>8, <1>9 DEF CountInv

(* What leaves a peer's buffer is what the peer has been told. *)
LEMMA SendKeeps ==
  ASSUME CountInv, NEW q \in Peers, Send(q)
  PROVE  CountInv'
<1>1. /\ worker = "sending" /\ outgoing[q] # Nothing
      /\ outgoing' = [outgoing EXCEPT ![q] = Nothing]
      /\ told' = [told EXCEPT ![q] = [a \in Apps |-> told[q][a] + outgoing[q][a]]]
      /\ UNCHANGED <<coordinator, worker, complete, begin, ready>>
      /\ UNCHANGED <<local, left, pending, ioCounter, timeout>>
  BY DEF Send, B!Send, countVars
<1>2. /\ outgoing \in [Peers -> Report \cup {Nothing}] /\ outgoing[q] \in Report
      /\ told \in [Peers -> Report] /\ local \in [Apps -> 0 .. 2]
      /\ AnnouncedOnce
  BY <1>1 DEF CountInv, CountTypes, B!TypeOK
<1>3. ASSUME NEW a \in Apps
      PROVE  told[q][a] + outgoing[q][a] = (IF local[a] = 2 THEN 1 ELSE 0)
  BY <1>1, <1>2 DEF AnnouncedOnce, Carried
<1>4. [a \in Apps |-> told[q][a] + outgoing[q][a]] \in Report
  BY <1>3 DEF Report
<1>5. CountTypes'
  BY <1>1, <1>2, <1>4 DEF CountInv, CountTypes, B!TypeOK
<1>6. AnnouncedOnce'
  <2> SUFFICES ASSUME NEW p \in Peers, NEW a \in Apps
      PROVE  told'[p][a] + Carried(p)'[a] = (IF local[a] = 2 THEN 1 ELSE 0)
    BY <1>1, <1>2 DEF AnnouncedOnce
  <2>1. CASE p = q
    <3>1. Carried(p)'[a] = 0 /\ told'[p][a] = told[q][a] + outgoing[q][a]
      BY <1>1, <1>2, <2>1 DEF Carried
    <3>2. told'[p][a] = (IF local[a] = 2 THEN 1 ELSE 0)
      BY <1>3, <3>1
    <3>. QED  BY <3>1, <3>2
  <2>2. CASE p # q
    <3>1. told'[p] = told[p] /\ outgoing'[p] = outgoing[p]
      BY <1>1, <1>2, <2>2
    <3>2. Carried(p)' = Carried(p)
      BY <3>1 DEF Carried
    <3>. QED  BY <1>2, <3>1, <3>2 DEF AnnouncedOnce
  <2>. QED  BY <2>1, <2>2
<1>7. BroadcastsNews' /\ LeftMeansNews'
  BY <1>1, <1>2
  DEF CountInv, BroadcastsNews, LeftMeansNews, B!NoLostWakeup, B!BuffersHandedOver
<1>. QED  BY <1>5, <1>6, <1>7 DEF CountInv

(* The steps that only move coordinator and worker. *)
LEMMA OtherBroadcastKeeps ==
  ASSUME CountInv, OtherBroadcast
  PROVE  CountInv'
<1>1. /\ B!Wait \/ B!StartSending \/ B!Finish
      /\ UNCHANGED <<local, left, pending, ioCounter, timeout, told>>
  BY DEF OtherBroadcast, countVars
<1>2. UNCHANGED <<ready, outgoing>>
  BY <1>1
  DEF B!Wait, B!SleepForComplete, B!SleepForThreshold, B!SleepForBegin,
      B!StartSending, B!Finish
<1>3. /\ coordinator \in B!CoordinatorAt /\ worker \in B!WorkerAt
      /\ {complete, begin, ready} \subseteq BOOLEAN
      /\ B!NoLostWakeup /\ B!BuffersHandedOver
  BY DEF CountInv, CountTypes, B!TypeOK, BroadcastsNews
<1>4. /\ coordinator' \in B!CoordinatorAt /\ worker' \in B!WorkerAt
      /\ complete' \in BOOLEAN /\ begin' \in BOOLEAN
      /\ B!NoLostWakeup' /\ B!BuffersHandedOver'
  <2> USE DEF B!CoordinatorAt, B!WorkerAt, B!NoLostWakeup, B!BuffersHandedOver
  <2>1. CASE B!SleepForComplete
    BY <2>1, <1>3 DEF B!SleepForComplete
  <2>2. CASE B!SleepForThreshold
    BY <2>2, <1>3 DEF B!SleepForThreshold, B!LastOneOver
  <2>3. CASE B!SleepForBegin
    BY <2>3, <1>3 DEF B!SleepForBegin
  <2>4. CASE B!StartSending
    BY <2>4, <1>3 DEF B!StartSending
  <2>5. CASE B!Finish
    BY <2>5, <1>3 DEF B!Finish
  <2>. QED  BY <1>1, <2>1, <2>2, <2>3, <2>4, <2>5 DEF B!Wait
<1>5. CountTypes'
  BY <1>1, <1>2, <1>4 DEF CountInv, CountTypes, B!TypeOK
<1>6. AnnouncedOnce' /\ BroadcastsNews' /\ LeftMeansNews'
  BY <1>1, <1>2, <1>4
  DEF CountInv, AnnouncedOnce, Carried, BroadcastsNews, LeftMeansNews
<1>. QED  BY <1>5, <1>6 DEF CountInv

-----------------------------------------------------------------------------
(* Receiving *)

Announcers(h, a) == {q \in Peers : a \in h[q]}

(* An announcement is new to this proxy: its sender joins the announcers   *)
(* of exactly its applications.                                            *)
LEMMA ReceiveKeeps ==
  ASSUME Settings, ReceiveInv, NEW q \in Peers, Receive(q)
  PROVE  ReceiveInv'
<1>1. PICK apps \in SUBSET (PeerApps \ heardOf[q]) \ {{}} :
        /\ applying' = apps
        /\ heardOf' = [heardOf EXCEPT ![q] = @ \cup apps]
  BY DEF Receive
<1>2. applying = {} /\ remote' = remote
  BY DEF Receive
<1>3. /\ remote \in [Apps -> Nat] /\ heardOf \in [Peers -> SUBSET Apps]
      /\ apps \subseteq Apps /\ apps \cap heardOf[q] = {}
      /\ IsFiniteSet(Peers)
      /\ \A a \in Apps : remote[a] = Cardinality(Announcers(heardOf, a))
  BY <1>1, <1>2
  DEF ReceiveInv, ReceiveTypes, RemoteCountsProxies, Announcers, Settings
<1>4. ReceiveTypes'
  BY <1>1, <1>2, <1>3 DEF ReceiveTypes
<1>5. ASSUME NEW a \in Apps
      PROVE  remote[a] + (IF a \in apps THEN 1 ELSE 0)
               = Cardinality(Announcers(heardOf', a))
  <2>1. IsFiniteSet(Announcers(heardOf, a))
    BY <1>3, FS_Subset DEF Announcers
  <2>2. CASE a \in apps
    <3>1. /\ Announcers(heardOf', a) = Announcers(heardOf, a) \cup {q}
          /\ q \notin Announcers(heardOf, a)
      BY <1>1, <1>3, <2>2 DEF Announcers
    <3>2. Cardinality(Announcers(heardOf, a) \cup {q})
            = Cardinality(Announcers(heardOf, a)) + 1
      BY <2>1, <3>1, FS_AddElement
    <3>. QED  BY <1>3, <2>2, <3>1, <3>2
  <2>3. CASE a \notin apps
    <3>1. Announcers(heardOf', a) = Announcers(heardOf, a)
      BY <1>1, <1>3, <2>3 DEF Announcers
    <3>. QED  BY <1>3, <2>3, <3>1
  <2>. QED  BY <2>2, <2>3
<1>6. RemoteCountsProxies'
  BY <1>1, <1>2, <1>5 DEF RemoteCountsProxies, Announcers
<1>. QED  BY <1>4, <1>6 DEF ReceiveInv

LEMMA ApplyKeeps ==
  ASSUME ReceiveInv, NEW a \in Apps, Apply(a)
  PROVE  ReceiveInv'
<1>1. /\ a \in applying /\ remote' = [remote EXCEPT ![a] = @ + 1]
      /\ applying' = applying \ {a} /\ heardOf' = heardOf
  BY DEF Apply
<1>2. remote \in [Apps -> Nat] /\ applying \subseteq Apps
  BY DEF ReceiveInv, ReceiveTypes
<1>3. ReceiveTypes'
  BY <1>1, <1>2 DEF ReceiveInv, ReceiveTypes
<1>4. ASSUME NEW b \in Apps
      PROVE  remote'[b] + (IF b \in applying' THEN 1 ELSE 0)
               = remote[b] + (IF b \in applying THEN 1 ELSE 0)
  <2>1. CASE b = a
    BY <1>1, <1>2, <2>1
  <2>2. CASE b # a
    BY <1>1, <1>2, <2>2
  <2>. QED  BY <2>1, <2>2
<1>5. RemoteCountsProxies'
  BY <1>1, <1>4 DEF ReceiveInv, RemoteCountsProxies
<1>. QED  BY <1>3, <1>5 DEF ReceiveInv

-----------------------------------------------------------------------------
(* Every step *)

LEMMA CountUnchanged ==
  ASSUME CountInv, UNCHANGED <<countVars, broadcastVars, told>>
  PROVE  CountInv'
<1>1. /\ UNCHANGED <<local, left, pending, ioCounter, timeout, told>>
      /\ UNCHANGED <<coordinator, worker, complete, begin, ready, outgoing>>
  BY DEF countVars, broadcastVars
<1>. QED
  BY <1>1
  DEF CountInv, CountTypes, B!TypeOK, AnnouncedOnce, Carried, BroadcastsNews,
      B!NoLostWakeup, B!BuffersHandedOver, LeftMeansNews

LEMMA ReceiveUnchanged ==
  ASSUME ReceiveInv, UNCHANGED receiveVars
  PROVE  ReceiveInv'
BY DEF receiveVars, ReceiveInv, ReceiveTypes, RemoteCountsProxies

LEMMA StepKeeps ==
  ASSUME Settings, Inv, [Next]_vars
  PROVE  Inv'
<1>0. CountInv /\ ReceiveInv
  BY DEF Inv
<1>1. ASSUME NEW a \in Apps, NEW size \in Sizes,
             EnqueueDispatch(a, size) \/ EnqueueHold(a, size)
      PROVE  Inv'
  <2>1. Count(a) /\ UNCHANGED receiveVars /\ told' = told
    BY <1>1 DEF EnqueueDispatch, EnqueueHold, Tag
  <2>. QED  BY <1>0, <2>1, CountKeeps, ReceiveUnchanged DEF Inv
<1>2. ASSUME NEW r \in DOMAIN current, CompleteDispatch(r) \/ CompleteIdle(r)
      PROVE  Inv'
  <2>1. UNCHANGED <<countVars, broadcastVars, receiveVars, told>>
    BY <1>2 DEF CompleteDispatch, CompleteIdle
  <2>. QED  BY <1>0, <2>1, CountUnchanged, ReceiveUnchanged DEF Inv
<1>3. CASE Tick
  <2>1. UNCHANGED receiveVars
    BY <1>3 DEF Tick
  <2>. QED  BY <1>0, <1>3, <2>1, TickKeeps, ReceiveUnchanged DEF Inv
<1>4. CASE Launch
  <2>1. UNCHANGED receiveVars
    BY <1>4 DEF Launch
  <2>. QED  BY <1>0, <1>4, <2>1, LaunchKeeps, ReceiveUnchanged DEF Inv
<1>5. CASE OtherBroadcast
  <2>1. UNCHANGED receiveVars
    BY <1>5 DEF OtherBroadcast
  <2>. QED  BY <1>0, <1>5, <2>1, OtherBroadcastKeeps, ReceiveUnchanged DEF Inv
<1>6. ASSUME NEW q \in Peers, Send(q)
      PROVE  Inv'
  <2>1. UNCHANGED receiveVars
    BY <1>6 DEF Send
  <2>. QED  BY <1>0, <1>6, <2>1, SendKeeps, ReceiveUnchanged DEF Inv
<1>7. ASSUME NEW q \in Peers, Receive(q)
      PROVE  Inv'
  <2>1. UNCHANGED <<countVars, broadcastVars, told>>
    BY <1>7 DEF Receive
  <2>. QED  BY <1>0, <1>7, <2>1, ReceiveKeeps, CountUnchanged DEF Inv
<1>8. ASSUME NEW a \in Apps, Apply(a)
      PROVE  Inv'
  <2>1. UNCHANGED <<countVars, broadcastVars, told>>
    BY <1>8 DEF Apply
  <2>. QED  BY <1>0, <1>8, <2>1, ApplyKeeps, CountUnchanged DEF Inv
<1>9. CASE UNCHANGED vars
  BY <1>0, <1>9, CountUnchanged, ReceiveUnchanged DEF Inv, vars
<1>. QED
  BY <1>1, <1>2, <1>3, <1>4, <1>5, <1>6, <1>7, <1>8, <1>9 DEF Next

LEMMA Invariance ==
  ASSUME Settings
  PROVE  Spec => []Inv
<1>1. Init => Inv
  BY InitInv
<1>2. Inv /\ [Next]_vars => Inv'
  BY StepKeeps
<1>. QED  BY <1>1, <1>2, PTL DEF Spec

-----------------------------------------------------------------------------
(* The theorems *)

(* vdsfq_enqueue and the coordinator hand on the marks of                  *)
(* vapp_entries_local so that every peer is told of an application exactly *)
(* once, whatever requests come while the threads send.                    *)
THEOREM ToldOnce ==
  ASSUME Settings
  PROVE  Spec => []AnnouncedOnce
<1>1. Inv => AnnouncedOnce
  BY DEF Inv, CountInv
<1>. QED  BY <1>1, Invariance, PTL

(* No signal of the broadcast is lost, a reached threshold is found by the *)
(* coordinator, and the timer never makes it send a broadcast without news.*)
THEOREM NewsOnly ==
  ASSUME Settings
  PROVE  Spec => []BroadcastsNews
<1>1. Inv => BroadcastsNews
  BY DEF Inv, CountInv
<1>. QED  BY <1>1, Invariance, PTL

(* The receiver counts every other proxy once for every application it     *)
(* serves.                                                                 *)
THEOREM CountedOnce ==
  ASSUME Settings
  PROVE  Spec => []RemoteCountsProxies
<1>1. Inv => RemoteCountsProxies
  BY DEF Inv, ReceiveInv
<1>. QED  BY <1>1, Invariance, PTL

(* With a threshold of one, whatever is not announced is news enough. *)
LEMMA OneIsEnough ==
  ASSUME Settings, Threshold = 1, CountInv, NEW a \in Apps, local[a] = 1
  PROVE  ready
<1>1. /\ ioCounter = Cardinality(New(local)) /\ ioCounter \in Nat
      /\ ioCounter >= Threshold => ready
  BY DEF CountInv, CountTypes, BroadcastsNews, New
<1>2. IsFiniteSet(New(local)) /\ New(local) # {}
  BY FS_Subset DEF New, Settings
<1>3. Cardinality(New(local)) # 0
  BY <1>2, FS_EmptySet
<1>. QED  BY <1>1, <1>3

(* With the threshold of vDSFQ2 an application never waits for the timer:  *)
(* until it is announced, the coordinator has threshold_ready to find.     *)
THEOREM NeverLeftToTimer ==
  ASSUME Settings, Threshold = 1
  PROVE  Spec => []((\E a \in Apps : local[a] = 1) => ready)
<1>1. Inv => ((\E a \in Apps : local[a] = 1) => ready)
  BY OneIsEnough DEF Inv
<1>. QED  BY <1>1, Invariance, PTL

-----------------------------------------------------------------------------
(* Lists of items *)

Ascending(s) == \A i, j \in DOMAIN s : i < j => Before(s[i], s[j])

(* A set of naturals that is not empty has a least element. *)
LEMMA LeastNatural ==
  ASSUME NEW S \in SUBSET Nat, S # {}
  PROVE  \E m \in S : \A n \in S : m <= n
<1> DEFINE Less == {p \in Nat \X Nat : p[1] < p[2]}
<1>1. IsWellFoundedOn(Less, Nat)
  BY NatLessThanWellFounded DEF OpToRel
<1>2. PICK m \in S : \A n \in S : <<n, m>> \notin Less
  <2> HIDE DEF Less
  <2>. QED  BY <1>1, WFMin
<1>3. \A n \in S : n \in Nat
  OBVIOUS
<1>4. \A n \in S : ~(n < m)
  BY <1>2, <1>3
<1>. QED  BY <1>3, <1>4

(* A list that is in order, with one more item at its end, can be put in   *)
(* order: the item goes before the first one that starts later.            *)
LEMMA PlaceForItem ==
  ASSUME NEW s \in Seq(Item), Ascending(s), NEW n \in Item,
         \A i \in DOMAIN s : s[i].id < n.id,
         NEW list, list = Append(s, n)
  PROVE  \E t \in [DOMAIN list -> ToSet(list)] : ToSet(t) = ToSet(list) /\ Ascending(t)
<1> DEFINE len == Len(s) + 1
<1>1. /\ len \in Nat /\ DOMAIN list = 1 .. len /\ DOMAIN s = 1 .. len - 1
      /\ list[len] = n /\ \A i \in 1 .. len - 1 : list[i] = s[i] /\ s[i] \in Item
  OBVIOUS
<1>2. ToSet(list) = ToSet(s) \cup {n}
  BY <1>1 DEF ToSet
<1> HIDE DEF len
<1>3. \A i \in 1 .. len - 1 : s[i].start \in Nat /\ s[i].id \in Nat /\ s[i].id < n.id
  BY <1>1 DEF Item
<1>4. n.start \in Nat /\ n.id \in Nat
  BY DEF Item
<1> DEFINE Places == {i \in 1 .. len : i = len \/ n.start < s[i].start}
<1>5. PICK k \in Places : \A i \in Places : k <= i
  <2>1. Places \in SUBSET Nat /\ len \in Places
    BY <1>1
  <2> HIDE DEF Places
  <2>. QED  BY <2>1, LeastNatural
<1>6. /\ k \in 1 .. len
      /\ \A i \in 1 .. len - 1 : i < k => s[i].start <= n.start
      /\ \A i \in 1 .. len - 1 : k <= i => n.start < s[i].start
  <2>1. k \in 1 .. len
    BY <1>5
  <2>2. ASSUME NEW i \in 1 .. len - 1, i < k PROVE s[i].start <= n.start
    <3>1. i \notin Places
      BY <1>1, <1>5, <2>1, <2>2
    <3>. QED  BY <1>1, <1>3, <1>4, <3>1
  <2>3. ASSUME NEW i \in 1 .. len - 1, k <= i PROVE n.start < s[i].start
    <3>1. k # len /\ n.start < s[k].start /\ k \in 1 .. len - 1
      BY <1>1, <1>5, <2>1, <2>3
    <3>2. CASE k = i
      BY <3>1, <3>2
    <3>3. CASE k < i
      <4>1. Before(s[k], s[i])
        BY <1>1, <3>1, <3>3 DEF Ascending
      <4>2. s[k].start <= s[i].start
        BY <1>3, <3>1, <4>1 DEF Before
      <4>. QED  BY <1>3, <1>4, <3>1, <4>2
    <3>. QED  BY <1>1, <2>3, <3>1, <3>2, <3>3
  <2>. QED  BY <2>1, <2>2, <2>3
<1> HIDE DEF Places
<1> DEFINE t == [i \in 1 .. len |-> IF i < k THEN s[i] ELSE IF i = k THEN n ELSE s[i - 1]]
<1>7. /\ DOMAIN t = 1 .. len /\ t[k] = n
      /\ \A i \in 1 .. len : i < k => t[i] = s[i] /\ i \in 1 .. len - 1
      /\ \A i \in 1 .. len : k < i => t[i] = s[i - 1] /\ i - 1 \in 1 .. len - 1
  BY <1>1, <1>6
<1> HIDE DEF t
<1>8. \A i \in 1 .. len : t[i] \in ToSet(list)
  <2> SUFFICES ASSUME NEW i \in 1 .. len PROVE t[i] \in ToSet(s) \cup {n}
    BY <1>2
  <2>1. CASE i < k
    BY <1>1, <1>7, <2>1 DEF ToSet
  <2>2. CASE i = k
    BY <1>7, <2>2
  <2>3. CASE k < i
    BY <1>1, <1>7, <2>3 DEF ToSet
  <2>. QED  BY <1>1, <1>6, <2>1, <2>2, <2>3
<1>9. ToSet(list) \subseteq ToSet(t)
  <2>1. n \in ToSet(t)
    BY <1>6, <1>7 DEF ToSet
  <2>2. ASSUME NEW i \in 1 .. len - 1 PROVE s[i] \in ToSet(t)
    <3>1. CASE i < k
      <4>1. i \in 1 .. len /\ t[i] = s[i]
        BY <1>1, <1>7, <3>1
      <4>. QED  BY <1>7, <4>1 DEF ToSet
    <3>2. CASE k <= i
      <4>1. i + 1 \in 1 .. len /\ k < i + 1 /\ (i + 1) - 1 = i
        BY <1>1, <1>6, <3>2
      <4>2. t[i + 1] = s[i]
        BY <1>7, <4>1
      <4>. QED  BY <1>7, <4>1, <4>2 DEF ToSet
    <3>. QED  BY <1>1, <1>6, <3>1, <3>2
  <2>. QED  BY <1>1, <1>2, <2>1, <2>2 DEF ToSet
<1>10. Ascending(t)
  <2> SUFFICES ASSUME NEW i \in 1 .. len, NEW j \in 1 .. len, i < j
      PROVE Before(t[i], t[j])
    BY <1>7 DEF Ascending
  <2>0. \A a, b \in 1 .. len - 1 : a < b => Before(s[a], s[b])
    BY <1>1 DEF Ascending
  <2>1. CASE j < k
    <3>1. i < k /\ i \in 1 .. len - 1 /\ j \in 1 .. len - 1 /\ t[i] = s[i] /\ t[j] = s[j]
      BY <1>1, <1>6, <1>7, <2>1
    <3>. QED  BY <2>0, <3>1
  <2>2. CASE j = k
    <3>1. t[j] = n /\ t[i] = s[i] /\ i \in 1 .. len - 1
      BY <1>7, <2>2
    <3>2. s[i].start <= n.start /\ s[i].id < n.id
      BY <1>3, <1>6, <2>2, <3>1
    <3>. QED  BY <1>3, <1>4, <3>1, <3>2 DEF Before
  <2>3. CASE k < j
    <3>1. t[j] = s[j - 1] /\ j - 1 \in 1 .. len - 1
      BY <1>7, <2>3
    <3>2. CASE i < k
      <4>1. t[i] = s[i] /\ i \in 1 .. len - 1 /\ i < j - 1
        BY <1>1, <1>6, <1>7, <2>3, <3>2
      <4>. QED  BY <2>0, <3>1, <4>1
    <3>3. CASE i = k
      <4>1. k <= j - 1
        BY <1>1, <1>6, <2>3
      <4>2. n.start < s[j - 1].start
        BY <1>6, <3>1, <4>1
      <4>. QED  BY <1>7, <3>1, <3>3, <4>2 DEF Before
    <3>4. CASE k < i
      <4>1. t[i] = s[i - 1] /\ i - 1 \in 1 .. len - 1 /\ i - 1 < j - 1
        BY <1>1, <1>6, <1>7, <3>4
      <4>. QED  BY <2>0, <3>1, <4>1
    <3>. QED  BY <1>1, <1>6, <3>2, <3>3, <3>4
  <2>. QED  BY <1>1, <1>6, <2>1, <2>2, <2>3
<1>11. t \in [DOMAIN list -> ToSet(list)]
  BY <1>1, <1>8 DEF t
<1>12. ToSet(t) \subseteq ToSet(list)
  BY <1>7, <1>8 DEF ToSet
<1>13. ToSet(t) = ToSet(list)
  BY <1>9, <1>12
<1>. QED  BY <1>10, <1>11, <1>13

(* What sorting the list after a request has been put at its end gives. *)
LEMMA SortedFacts ==
  ASSUME NEW s \in Seq(Item), Ascending(s), NEW n \in Item,
         \A i \in DOMAIN s : s[i].id < n.id,
         NEW t, t = Sorted(Append(s, n))
  PROVE  t \in Seq(Item) /\ ToSet(t) = ToSet(s) \cup {n} /\ Ascending(t)
<1> DEFINE list == Append(s, n)
<1>1. /\ DOMAIN list = 1 .. Len(s) + 1 /\ Len(s) \in Nat
      /\ list[Len(s) + 1] = n /\ \A i \in DOMAIN s : list[i] = s[i] /\ s[i] \in Item
      /\ DOMAIN s = 1 .. Len(s)
  OBVIOUS
<1>2. ToSet(list) = ToSet(s) \cup {n} /\ \A x \in ToSet(list) : x \in Item
  BY <1>1 DEF ToSet
<1>3. \E u \in [DOMAIN list -> ToSet(list)] : ToSet(u) = ToSet(list) /\ Ascending(u)
  <2> HIDE DEF list
  <2>1. list = Append(s, n)
    BY DEF list
  <2>. QED  BY <2>1, PlaceForItem
<1>4. t = CHOOSE u \in [DOMAIN list -> ToSet(list)] : ToSet(u) = ToSet(list) /\ Ascending(u)
  BY DEF Sorted, Ascending
<1> HIDE DEF list
<1>5. t \in [DOMAIN list -> ToSet(list)] /\ ToSet(t) = ToSet(list) /\ Ascending(t)
  BY <1>3, <1>4
<1>6. t \in Seq(Item)
  <2>1. t \in [1 .. Len(s) + 1 -> Item]
    BY <1>1, <1>2, <1>5
  <2>. QED  BY <1>1, <2>1
<1>. QED  BY <1>2, <1>5, <1>6

(* What is left when the head of the list is taken. *)
LEMMA HeadTail ==
  ASSUME NEW s \in Seq(Item), Ascending(s), s # <<>>
  PROVE  /\ Head(s) \in ToSet(s) /\ Head(s) \in Item
         /\ Tail(s) \in Seq(Item) /\ ToSet(Tail(s)) = ToSet(s) \ {Head(s)}
         /\ Ascending(Tail(s))
         /\ \A y \in ToSet(s) : y = Head(s) \/ Before(Head(s), y)
<1>1. /\ Len(s) \in Nat /\ Len(s) > 0 /\ DOMAIN s = 1 .. Len(s) /\ Head(s) = s[1]
      /\ Tail(s) \in Seq(Item) /\ Len(Tail(s)) = Len(s) - 1
      /\ DOMAIN Tail(s) = 1 .. Len(s) - 1
      /\ \A i \in 1 .. Len(s) - 1 : Tail(s)[i] = s[i + 1]
      /\ \A i \in 1 .. Len(s) : s[i] \in Item
  OBVIOUS
<1> DEFINE len == Len(s)
           rest == Tail(s)
<1>2. /\ len \in Nat /\ len > 0 /\ DOMAIN s = 1 .. len /\ Head(s) = s[1]
      /\ DOMAIN rest = 1 .. len - 1 /\ \A i \in 1 .. len - 1 : rest[i] = s[i + 1]
      /\ \A i \in 1 .. len : s[i] \in Item
  BY <1>1
<1> HIDE DEF len, rest
<1>3. \A i \in 2 .. len : Before(s[1], s[i]) /\ s[i] # s[1]
  <2>1. \A i \in 2 .. len : Before(s[1], s[i])
    BY <1>2 DEF Ascending
  <2>2. ~Before(s[1], s[1])
    BY <1>2 DEF Before, Item
  <2>. QED  BY <2>1, <2>2
<1>4. ToSet(rest) = ToSet(s) \ {s[1]}
  <2>1. ASSUME NEW x \in ToSet(rest) PROVE x \in ToSet(s) /\ x # s[1]
    <3>1. PICK i \in 1 .. len - 1 : x = s[i + 1]
      BY <1>2 DEF ToSet
    <3>2. i + 1 \in 2 .. len
      BY <1>2
    <3>. QED  BY <1>2, <1>3, <3>1, <3>2 DEF ToSet
  <2>2. ASSUME NEW x \in ToSet(s), x # s[1] PROVE x \in ToSet(rest)
    <3>1. PICK i \in 1 .. len : x = s[i]
      BY <1>2 DEF ToSet
    <3>2. i - 1 \in 1 .. len - 1 /\ (i - 1) + 1 = i
      BY <1>2, <2>2, <3>1
    <3>3. rest[i - 1] = x
      BY <1>2, <3>1, <3>2
    <3>. QED  BY <1>2, <3>2, <3>3 DEF ToSet
  <2>. QED  BY <2>1, <2>2
<1>5. Ascending(rest)
  <2> SUFFICES ASSUME NEW i \in 1 .. len - 1, NEW j \in 1 .. len - 1, i < j
      PROVE Before(rest[i], rest[j])
    BY <1>2 DEF Ascending
  <2>1. i + 1 \in 1 .. len /\ j + 1 \in 1 .. len /\ i + 1 < j + 1
    BY <1>2
  <2>. QED  BY <1>2, <2>1 DEF Ascending
<1>6. \A y \in ToSet(s) : y = s[1] \/ Before(s[1], y)
  <2> SUFFICES ASSUME NEW i \in 1 .. len PROVE s[i] = s[1] \/ Before(s[1], s[i])
    BY <1>2 DEF ToSet
  <2>. QED  BY <1>2, <1>3
<1>7. s[1] \in ToSet(s)
  BY <1>2 DEF ToSet
<1>8. ToSet(Tail(s)) = ToSet(s) \ {s[1]} /\ Ascending(Tail(s))
  BY <1>4, <1>5 DEF rest
<1>9. Head(s) = s[1] /\ s[1] \in Item
  BY <1>2
<1>10. Tail(s) \in Seq(Item)
  BY <1>1
<1>. QED  BY <1>6, <1>7, <1>8, <1>9, <1>10, Zenon

-----------------------------------------------------------------------------
(* The queue of the message loop *)

(* Weights, lengths and the depth are what config.c can read. *)
QueueSettings ==
  /\ Weight \in [Apps -> Nat \ {0}] /\ VREDUCER \in Nat \ {0}
  /\ \A size \in Sizes : size \in Nat
  /\ Depth \in Nat /\ MaxItems \in Nat

(* Although only vdsfq_enqueue sorts, and only when it holds back, the     *)
(* list is in order in every state: an item is appended unsorted only to   *)
(* an empty list.                                                          *)
QueueTypes ==
  /\ queue \in Seq(Item)
  /\ virtualTime \in Nat /\ lastFinish \in [Apps -> Nat]
  /\ depth \in 0 .. Depth /\ itemId \in 0 .. MaxItems
  /\ DOMAIN current \subseteq 0 .. itemId - 1
  /\ current \in [DOMAIN current -> Item]

Slots ==
  /\ depth = Cardinality(DOMAIN current)
  /\ queue # <<>> => depth = Depth

Ids ==
  /\ \A x \in ToSet(queue) : x.id < itemId /\ x.id \notin DOMAIN current
  /\ \A x, y \in ToSet(queue) : x.id = y.id => x = y

InOrder ==
  /\ Ascending(queue)
  /\ \A x \in ToSet(queue) : x.start <= lastFinish[x.app]
  /\ \A x, y \in ToSet(queue) : x.app = y.app /\ x.id < y.id => x.start <= y.start

QueueInv == QueueTypes /\ Slots /\ Ids /\ InOrder

LEMMA ItemsOfQueue == QueueTypes => \A x \in ToSet(queue) : x \in Item
BY DEF QueueTypes, ToSet

LEMMA InitQueue ==
  ASSUME QueueSettings, Init
  PROVE  QueueInv
<1>1. DOMAIN current = {} /\ current \in [DOMAIN current -> Item]
  BY DEF Init
<1>2. queue = <<>> /\ queue \in Seq(Item) /\ ToSet(queue) = {} /\ Ascending(queue)
  BY DEF Init, ToSet, Ascending
<1>3. /\ lastFinish \in [Apps -> Nat] /\ virtualTime \in Nat
      /\ depth = 0 /\ depth \in 0 .. Depth /\ itemId \in 0 .. MaxItems
  BY DEF Init, QueueSettings
<1>4. Cardinality(DOMAIN current) = 0
  BY <1>1, FS_EmptySet
<1>. QED
  BY <1>1, <1>2, <1>3, <1>4 DEF QueueInv, QueueTypes, Slots, Ids, InOrder

(* The released requests are finitely many. *)
LEMMA CurrentFinite ==
  ASSUME QueueSettings, QueueTypes
  PROVE  IsFiniteSet(DOMAIN current) /\ Cardinality(DOMAIN current) \in Nat
<1>1. DOMAIN current \subseteq 0 .. itemId - 1 /\ itemId \in Nat
  BY DEF QueueTypes, QueueSettings
<1>2. IsFiniteSet(0 .. itemId - 1)
  BY <1>1, FS_Interval
<1>. QED  BY <1>1, <1>2, FS_Subset, FS_CardinalityType

(* However many proxies share the application, an item does not start      *)
(* before the last one of its application ends.                            *)
LEMMA NewItemFacts ==
  ASSUME QueueSettings, QueueTypes, ReceiveTypes, NEW a \in Apps, NEW size \in Sizes,
         NEW n, n = NewItem(a, size)
  PROVE  /\ n \in Item /\ n.id = itemId /\ n.app = a
         /\ lastFinish[a] <= n.start /\ n.start <= n.finish
         /\ n.start \in Nat /\ n.finish \in Nat
<1> DEFINE w == Weight[a]
           late == (remote[a] * size) \div (w * VREDUCER)
           cost == (size \div w) \div VREDUCER
<1>1. /\ w \in Nat \ {0} /\ VREDUCER \in Nat \ {0} /\ size \in Nat
      /\ remote[a] \in Nat /\ virtualTime \in Nat /\ lastFinish[a] \in Nat
      /\ itemId \in Nat
  BY DEF QueueSettings, QueueTypes, ReceiveTypes
<1>2. late \in Nat
  <2> DEFINE d == w * VREDUCER
             r == remote[a] * size
  <2>1. d \in Nat \ {0}
    BY <1>1
  <2>2. r \in Nat
    BY <1>1
  <2> HIDE DEF d, r
  <2>3. r \div d \in Nat
    BY <2>1, <2>2
  <2>. QED  BY <2>3 DEF d, r
<1>3. cost \in Nat
  <2>1. size \div w \in Nat
    BY <1>1
  <2>. QED  BY <1>1, <2>1
<1>4. n = [id |-> itemId, app |-> a, start |-> Later(virtualTime, lastFinish[a] + late),
           finish |-> Later(virtualTime, lastFinish[a] + late) + cost]
  BY DEF NewItem
<1> HIDE DEF late, cost
<1>5. /\ Later(virtualTime, lastFinish[a] + late) \in Nat
      /\ lastFinish[a] <= Later(virtualTime, lastFinish[a] + late)
  BY <1>1, <1>2 DEF Later
<1>. QED  BY <1>1, <1>3, <1>4, <1>5 DEF Item

(* A free slot means an empty list, so the new item is the one dispatched. *)
LEMMA DispatchesNewItem ==
  ASSUME QueueSettings, QueueInv, NEW a \in Apps, NEW size \in Sizes,
         EnqueueDispatch(a, size), NEW n, n = NewItem(a, size)
  PROVE  /\ queue = <<>> /\ queue' = <<>>
         /\ virtualTime' = n.start /\ current' = Bind(current, itemId, n)
<1>1. queue = <<>>
  BY DEF EnqueueDispatch, QueueInv, QueueTypes, Slots, QueueSettings
<1>2. /\ queue' = Tail(Append(queue, n)) /\ virtualTime' = Head(Append(queue, n)).start
      /\ current' = Bind(current, itemId, Head(Append(queue, n)))
  BY DEF EnqueueDispatch, TakeHead
<1>3. Append(queue, n) = <<n>>
  BY <1>1
<1>4. Head(<<n>>) = n /\ Tail(<<n>>) = <<>>
  OBVIOUS
<1>. QED  BY <1>1, <1>2, <1>3, <1>4

LEMMA DispatchKeeps ==
  ASSUME QueueSettings, QueueInv, ReceiveTypes, NEW a \in Apps, NEW size \in Sizes,
         EnqueueDispatch(a, size)
  PROVE  QueueInv'
<1> DEFINE n == NewItem(a, size)
<1>1. n \in Item /\ n.start \in Nat /\ n.finish \in Nat
  BY NewItemFacts DEF QueueInv
<1>2. /\ itemId < MaxItems /\ itemId' = itemId + 1
      /\ lastFinish' = [lastFinish EXCEPT ![a] = n.finish]
      /\ depth < Depth /\ depth' = depth + 1
  BY DEF EnqueueDispatch, Tag
<1>3. /\ queue' = <<>> /\ virtualTime' = n.start
      /\ current' = Bind(current, itemId, n)
  BY DispatchesNewItem
<1> HIDE DEF n
<1>4. itemId \in Nat /\ itemId \notin DOMAIN current
  BY DEF QueueInv, QueueTypes, QueueSettings
<1>5. DOMAIN current' = DOMAIN current \cup {itemId}
  BY <1>3 DEF Bind
<1>6. ToSet(queue') = {} /\ Ascending(queue') /\ queue' \in Seq(Item)
  BY <1>3 DEF ToSet, Ascending
<1>7. QueueTypes'
  <2>1. current' \in [DOMAIN current' -> Item]
    BY <1>1, <1>3, <1>5 DEF Bind, QueueInv, QueueTypes
  <2>2. DOMAIN current' \subseteq 0 .. itemId' - 1
    BY <1>2, <1>4, <1>5 DEF QueueInv, QueueTypes
  <2>3. /\ lastFinish' \in [Apps -> Nat] /\ depth' \in 0 .. Depth
        /\ itemId' \in 0 .. MaxItems
    BY <1>1, <1>2 DEF QueueInv, QueueTypes, QueueSettings
  <2>. QED  BY <1>1, <1>3, <1>6, <2>1, <2>2, <2>3 DEF QueueTypes
<1>8. Slots'
  <2>1. Cardinality(DOMAIN current') = Cardinality(DOMAIN current) + 1
    BY <1>4, <1>5, CurrentFinite, FS_AddElement DEF QueueInv
  <2>. QED  BY <1>2, <1>3, <2>1 DEF QueueInv, Slots
<1>9. Ids' /\ InOrder'
  BY <1>6 DEF Ids, InOrder
<1>. QED  BY <1>7, <1>8, <1>9 DEF QueueInv

LEMMA HoldKeeps ==
  ASSUME QueueSettings, QueueInv, ReceiveTypes, NEW a \in Apps, NEW size \in Sizes,
         EnqueueHold(a, size)
  PROVE  /\ QueueInv'
         /\ ToSet(queue') = ToSet(queue) \cup {NewItem(a, size)}
<1> DEFINE n == NewItem(a, size)
           Q == ToSet(queue)
<1>1. /\ n \in Item /\ n.id = itemId /\ n.app = a
      /\ lastFinish[a] <= n.start /\ n.start <= n.finish
      /\ n.start \in Nat /\ n.finish \in Nat
  BY NewItemFacts DEF QueueInv
<1>2. /\ itemId < MaxItems /\ itemId' = itemId + 1
      /\ lastFinish' = [lastFinish EXCEPT ![a] = n.finish]
      /\ depth >= Depth /\ queue' = Sorted(Append(queue, n))
      /\ UNCHANGED <<virtualTime, depth, current>>
  BY DEF EnqueueHold, Tag
<1> HIDE DEF n
<1>3. itemId \in Nat /\ itemId \notin DOMAIN current
  BY DEF QueueInv, QueueTypes, QueueSettings
<1>4. \A x \in Q : /\ x.id \in Nat /\ x.id < itemId /\ x.app \in Apps
                   /\ x.start \in Nat /\ x.start <= lastFinish[x.app]
                   /\ lastFinish[x.app] \in Nat
  BY ItemsOfQueue DEF QueueInv, QueueTypes, Ids, InOrder, Item
<1>5. queue' \in Seq(Item) /\ ToSet(queue') = Q \cup {n} /\ Ascending(queue')
  <2>1. \A i \in DOMAIN queue : queue[i].id < n.id
    BY <1>1, <1>4 DEF ToSet
  <2>2. queue \in Seq(Item) /\ Ascending(queue)
    BY DEF QueueInv, QueueTypes, InOrder
  <2>. QED  BY <1>1, <1>2, <2>1, <2>2, SortedFacts
<1> HIDE DEF Q
<1>6. QueueTypes'
  <2>1. lastFinish' \in [Apps -> Nat]
    BY <1>1, <1>2 DEF QueueInv, QueueTypes
  <2>2. itemId' \in 0 .. MaxItems /\ DOMAIN current \subseteq 0 .. itemId' - 1
    BY <1>2 DEF QueueInv, QueueTypes, QueueSettings
  <2>. QED  BY <1>2, <1>5, <2>1, <2>2 DEF QueueInv, QueueTypes
<1>7. Slots'
  BY <1>2 DEF QueueInv, QueueTypes, Slots, QueueSettings
<1>8. Ids'
  <2>1. /\ \A x \in Q : x.id \notin DOMAIN current
        /\ \A x, y \in Q : x.id = y.id => x = y
    BY DEF Q, QueueInv, Ids
  <2>. QED  BY <1>1, <1>2, <1>3, <1>4, <1>5, <2>1 DEF Ids
<1>9. InOrder'
  <2>1. /\ lastFinish' \in [Apps -> Nat] /\ lastFinish'[a] = n.finish
        /\ \A b \in Apps : b # a => lastFinish'[b] = lastFinish[b]
        /\ lastFinish[a] \in Nat
    BY <1>1, <1>2 DEF QueueInv, QueueTypes
  <2>2. \A x \in Q : x.start <= lastFinish'[x.app]
    <3> SUFFICES ASSUME NEW x \in Q PROVE x.start <= lastFinish'[x.app]
      OBVIOUS
    <3>1. CASE x.app = a
      BY <3>1, <1>1, <1>4, <2>1
    <3>2. CASE x.app # a
      BY <3>2, <1>4, <2>1
    <3>. QED  BY <3>1, <3>2
  <2>3. n.start <= lastFinish'[n.app]
    BY <1>1, <2>1
  <2>4. \A x \in Q : x.app = a => x.start <= n.start
    BY <1>1, <1>4, <2>1
  <2>5. \A x, y \in Q \cup {n} : x.app = y.app /\ x.id < y.id => x.start <= y.start
    <3> SUFFICES ASSUME NEW x \in Q \cup {n}, NEW y \in Q \cup {n}, x.app = y.app, x.id < y.id
        PROVE x.start <= y.start
      OBVIOUS
    <3>1. CASE x \in Q /\ y \in Q
      BY <3>1 DEF Q, QueueInv, InOrder
    <3>2. CASE x \in Q /\ y = n
      BY <3>2, <1>1, <2>4
    <3>3. x # n
      BY <1>1, <1>3, <1>4
    <3>. QED  BY <3>1, <3>2, <3>3
  <2>. QED  BY <1>5, <2>2, <2>3, <2>5 DEF InOrder
<1>. QED  BY <1>5, <1>6, <1>7, <1>8, <1>9 DEF QueueInv, Q, n

(* The head of the list leaves it. *)
LEMMA TakesHead ==
  ASSUME QueueInv, NEW r \in DOMAIN current, CompleteDispatch(r), NEW h, h = Head(queue)
  PROVE  /\ h \in ToSet(queue) /\ h \in Item /\ virtualTime' = h.start
         /\ queue' \in Seq(Item) /\ ToSet(queue') = ToSet(queue) \ {h} /\ Ascending(queue')
         /\ current' = Bind(Unbind(current, r), h.id, h)
         /\ \A y \in ToSet(queue) : y = h \/ Before(h, y)
<1>1. queue # <<>> /\ queue \in Seq(Item) /\ Ascending(queue)
  BY DEF CompleteDispatch, QueueInv, QueueTypes, InOrder
<1>2. /\ queue' = Tail(queue) /\ virtualTime' = h.start
      /\ current' = Bind(Unbind(current, r), h.id, h)
  BY DEF CompleteDispatch, TakeHead
<1>. QED  BY <1>1, <1>2, HeadTail

LEMMA CompleteDispatchKeeps ==
  ASSUME QueueSettings, QueueInv, NEW r \in DOMAIN current, CompleteDispatch(r)
  PROVE  QueueInv'
<1> DEFINE h == Head(queue)
           Q == ToSet(queue)
<1>1. /\ h \in Q /\ h \in Item /\ virtualTime' = h.start
      /\ queue' \in Seq(Item) /\ ToSet(queue') = Q \ {h} /\ Ascending(queue')
      /\ current' = Bind(Unbind(current, r), h.id, h)
  BY TakesHead
<1>2. UNCHANGED <<lastFinish, depth, itemId>> /\ queue # <<>>
  BY DEF CompleteDispatch
<1> HIDE DEF h
<1>3. /\ h \in Item /\ h.id \in Nat /\ h.start \in Nat
      /\ h.id < itemId /\ h.id \notin DOMAIN current /\ itemId \in Nat
  BY <1>1 DEF QueueInv, QueueTypes, Item, Ids, QueueSettings
<1>4. DOMAIN current' = (DOMAIN current \ {r}) \cup {h.id}
  BY <1>1 DEF Bind, Unbind
<1>5. QueueTypes'
  <2>1. current' \in [DOMAIN current' -> Item]
    BY <1>1, <1>3, <1>4 DEF Bind, Unbind, QueueInv, QueueTypes
  <2>2. DOMAIN current' \subseteq 0 .. itemId' - 1
    BY <1>2, <1>3, <1>4 DEF QueueInv, QueueTypes
  <2>. QED  BY <1>1, <1>2, <1>3, <2>1, <2>2 DEF QueueInv, QueueTypes
<1>6. Slots'
  <2> DEFINE rest == DOMAIN current \ {r}
  <2>1. IsFiniteSet(rest) /\ Cardinality(rest) = Cardinality(DOMAIN current) - 1
    BY CurrentFinite, FS_RemoveElement DEF QueueInv
  <2>2. Cardinality(rest \cup {h.id}) = Cardinality(rest) + 1
    BY <1>3, <2>1, FS_AddElement
  <2>3. Cardinality(DOMAIN current) \in Nat
    BY CurrentFinite DEF QueueInv
  <2>. QED  BY <1>2, <1>4, <2>1, <2>2, <2>3 DEF QueueInv, Slots
<1>7. Ids'
  <2>1. \A x \in ToSet(queue') : x \in Q /\ x.id # h.id
    BY <1>1 DEF QueueInv, Ids
  <2>. QED  BY <1>2, <1>4, <2>1 DEF QueueInv, Ids
<1>8. InOrder'
  BY <1>1, <1>2 DEF QueueInv, InOrder
<1>. QED  BY <1>5, <1>6, <1>7, <1>8 DEF QueueInv

LEMMA CompleteIdleKeeps ==
  ASSUME QueueSettings, QueueInv, NEW r \in DOMAIN current, CompleteIdle(r)
  PROVE  QueueInv'
<1>1. /\ queue = <<>> /\ queue' = queue /\ depth' = depth - 1
      /\ current' = Unbind(current, r)
      /\ UNCHANGED <<virtualTime, lastFinish, itemId>>
  BY DEF CompleteIdle
<1>2. DOMAIN current' = DOMAIN current \ {r}
  BY <1>1 DEF Unbind
<1>3. /\ Cardinality(DOMAIN current') = Cardinality(DOMAIN current) - 1
      /\ Cardinality(DOMAIN current') \in Nat
  <2>1. IsFiniteSet(DOMAIN current')
    BY <1>2, CurrentFinite, FS_RemoveElement DEF QueueInv
  <2>. QED
    BY <1>2, <2>1, CurrentFinite, FS_RemoveElement, FS_CardinalityType DEF QueueInv
<1>4. QueueTypes'
  <2>1. depth' \in 0 .. Depth
    BY <1>1, <1>3 DEF QueueInv, QueueTypes, Slots, QueueSettings
  <2>2. current' \in [DOMAIN current' -> Item]
    BY <1>1, <1>2 DEF Unbind, QueueInv, QueueTypes
  <2>. QED  BY <1>1, <1>2, <2>1, <2>2 DEF QueueInv, QueueTypes
<1>5. Slots'
  BY <1>1, <1>3 DEF QueueInv, Slots
<1>6. ToSet(queue) = {} /\ ToSet(queue') = {} /\ Ascending(queue')
  BY <1>1 DEF ToSet, Ascending
<1>7. Ids' /\ InOrder'
  BY <1>6 DEF Ids, InOrder
<1>. QED  BY <1>4, <1>5, <1>7 DEF QueueInv

LEMMA QueueUnchanged ==
  ASSUME QueueInv, UNCHANGED queueVars
  PROVE  QueueInv'
BY DEF queueVars, QueueInv, QueueTypes, Slots, Ids, InOrder, Ascending

LEMMA StepQueue ==
  ASSUME QueueSettings, QueueInv, ReceiveTypes, [Next]_vars
  PROVE  QueueInv'
<1>1. ASSUME NEW a \in Apps, NEW size \in Sizes, EnqueueDispatch(a, size)
      PROVE  QueueInv'
  BY <1>1, DispatchKeeps
<1>2. ASSUME NEW a \in Apps, NEW size \in Sizes, EnqueueHold(a, size)
      PROVE  QueueInv'
  BY <1>2, HoldKeeps
<1>3. ASSUME NEW r \in DOMAIN current, CompleteDispatch(r)
      PROVE  QueueInv'
  BY <1>3, CompleteDispatchKeeps
<1>4. ASSUME NEW r \in DOMAIN current, CompleteIdle(r)
      PROVE  QueueInv'
  BY <1>4, CompleteIdleKeeps
<1>5. CASE UNCHANGED queueVars
  BY <1>5, QueueUnchanged
<1>6. \/ UNCHANGED queueVars
      \/ \E a \in Apps, size \in Sizes : EnqueueDispatch(a, size) \/ EnqueueHold(a, size)
      \/ \E r \in DOMAIN current : CompleteDispatch(r) \/ CompleteIdle(r)
  BY DEF Next, vars, Tick, Launch, OtherBroadcast, Send, Receive, Apply
<1>. QED  BY <1>1, <1>2, <1>3, <1>4, <1>5, <1>6

LEMMA QueueInvariance ==
  ASSUME Settings, QueueSettings
  PROVE  Spec => []QueueInv
<1>1. Init => QueueInv
  BY InitQueue
<1>2. QueueInv /\ Inv /\ [Next]_vars => QueueInv'
  BY StepQueue DEF Inv, ReceiveInv
<1>. QED  BY <1>1, <1>2, Invariance, PTL DEF Spec

LEMMA InvTypes == Inv /\ QueueInv => TypeOK
BY DEF Inv, CountInv, CountTypes, ReceiveInv, ReceiveTypes, QueueInv, QueueTypes, TypeOK

(* Every global of the plug-in keeps its type, its depth counter the depth *)
(* that is configured.                                                     *)
THEOREM Typing ==
  ASSUME Settings, QueueSettings
  PROVE  Spec => []TypeOK
BY Invariance, QueueInvariance, InvTypes, PTL

-----------------------------------------------------------------------------
(* Refinement *)

(* The mapping of KeepsPromise. *)
Ticket(x) == [id |-> x.id, app |-> x.app]
Waiting == {[id |-> x.id, app |-> x.app] : x \in ToSet(queue)}
Serving == {[id |-> r, app |-> current[r].app] : r \in DOMAIN current}

(* The instance of Dispatcher counts as FiniteSets does. *)
LEMMA SameCardinality ==
  ASSUME NEW S PROVE Plugin!Cardinality(S) = Cardinality(S)
BY DEF Plugin!Cardinality, Cardinality, Plugin!IsFiniteSet, IsFiniteSet

(* The mapping takes the released requests one to one to tickets. *)
LEMMA ServingCount ==
  ASSUME QueueSettings, QueueInv
  PROVE  Cardinality(Serving) = depth
<1> DEFINE f == [r \in DOMAIN current |-> [id |-> r, app |-> current[r].app]]
<1>1. f \in [DOMAIN current -> Serving] /\ \A t \in Serving : \E r \in DOMAIN current : f[r] = t
  BY DEF Serving
<1>2. \A r, s \in DOMAIN current : f[r] = f[s] => r = s
  OBVIOUS
<1> HIDE DEF f
<1>3. ExistsBijection(DOMAIN current, Serving)
  BY <1>1, <1>2 DEF Bijection, Injection, Surjection, IsInjective, ExistsBijection
<1>4. Cardinality(Serving) = Cardinality(DOMAIN current)
  BY <1>3, CurrentFinite, FS_Bijection DEF QueueInv
<1>. QED  BY <1>4 DEF QueueInv, Slots

(* However many proxies delay an application, the head of the list is the  *)
(* oldest waiting item of its application.                                 *)
LEMMA HeadIsOldest ==
  ASSUME QueueInv, NEW h \in ToSet(queue), \A y \in ToSet(queue) : y = h \/ Before(h, y),
         NEW y \in ToSet(queue), y.app = h.app
  PROVE  h.id <= y.id
<1>1. /\ h.id \in Nat /\ h.start \in Nat /\ y.id \in Nat /\ y.start \in Nat
  BY ItemsOfQueue DEF QueueInv, Item
<1> SUFFICES ASSUME y.id < h.id PROVE FALSE
  BY <1>1
<1>2. y.start <= h.start
  BY DEF QueueInv, InOrder
<1>3. Before(h, y)
  BY <1>1
<1>. QED  BY <1>1, <1>2, <1>3 DEF Before

LEMMA StepPromise ==
  ASSUME QueueSettings, QueueInv, ReceiveTypes, [Next]_vars
  PROVE  [Plugin!Next]_(Plugin!vars)
<1>1. ASSUME NEW a \in Apps, NEW size \in Sizes, EnqueueDispatch(a, size)
      PROVE  Plugin!Release(a)
  <2> DEFINE n == NewItem(a, size)
  <2>1. depth < Depth /\ itemId' = itemId + 1
    BY <1>1 DEF EnqueueDispatch, Tag
  <2>2. n.app = a
    BY DEF NewItem
  <2>3. queue = <<>> /\ queue' = <<>> /\ current' = Bind(current, itemId, n)
    BY <1>1, DispatchesNewItem
  <2> HIDE DEF n
  <2>4. itemId \notin DOMAIN current
    BY DEF QueueInv, QueueTypes, QueueSettings
  <2>5. Serving' = Serving \cup {[id |-> itemId, app |-> a]}
    BY <2>2, <2>3, <2>4 DEF Serving, Bind
  <2>6. Cardinality(Serving) < Depth
    BY <2>1, ServingCount
  <2>7. Waiting' = Waiting
    BY <2>3 DEF Waiting
  <2>. QED
    BY <2>1, <2>5, <2>6, <2>7, SameCardinality DEF Plugin!Release, Serving, Waiting
<1>2. ASSUME NEW a \in Apps, NEW size \in Sizes, EnqueueHold(a, size)
      PROVE  Plugin!Hold(a)
  <2> DEFINE n == NewItem(a, size)
  <2>1. /\ depth >= Depth /\ itemId' = itemId + 1 /\ current' = current
        /\ ToSet(queue') = ToSet(queue) \cup {n}
    BY <1>2, HoldKeeps DEF EnqueueHold, Tag
  <2>2. n.id = itemId /\ n.app = a
    BY DEF NewItem
  <2> HIDE DEF n
  <2>3. Waiting' = Waiting \cup {[id |-> itemId, app |-> a]} /\ Serving' = Serving
    BY <2>1, <2>2 DEF Waiting, Serving
  <2>4. Cardinality(Serving) = Depth
    BY <2>1, ServingCount DEF QueueInv, QueueTypes, QueueSettings
  <2>. QED
    BY <2>1, <2>3, <2>4, SameCardinality DEF Plugin!Hold, Serving, Waiting
<1>3. ASSUME NEW r \in DOMAIN current, CompleteDispatch(r)
      PROVE  \E t \in Serving : Plugin!HandOver(t)
  <2> DEFINE t == [id |-> r, app |-> current[r].app]
             h == Head(queue)
  <2>1. /\ h \in ToSet(queue) /\ ToSet(queue') = ToSet(queue) \ {h}
        /\ current' = Bind(Unbind(current, r), h.id, h)
        /\ \A y \in ToSet(queue) : y = h \/ Before(h, y)
    BY <1>3, TakesHead
  <2>2. itemId' = itemId
    BY <1>3 DEF CompleteDispatch
  <2> HIDE DEF h
  <2>3. t \in Serving /\ Ticket(h) \in Waiting
    BY <2>1 DEF Serving, Waiting, Ticket
  <2>4. Plugin!OldestOfApp(Ticket(h))
    BY <2>1, HeadIsOldest DEF Plugin!OldestOfApp, Ticket
  <2>5. Waiting' = Waiting \ {Ticket(h)} /\ h.id \notin DOMAIN current
    BY <2>1 DEF Waiting, Ticket, QueueInv, Ids
  <2>6. Serving' = (Serving \ {t}) \cup {Ticket(h)}
    <3>1. /\ DOMAIN current' = (DOMAIN current \ {r}) \cup {h.id}
          /\ current'[h.id] = h
          /\ \A s \in DOMAIN current \ {r} : current'[s] = current[s]
      BY <2>1, <2>5 DEF Bind, Unbind
    <3>2. Serving' = {[id |-> s, app |-> current[s].app] : s \in DOMAIN current \ {r}}
                       \cup {Ticket(h)}
      BY <3>1, <2>5 DEF Serving, Ticket
    <3>3. Serving \ {t} = {[id |-> s, app |-> current[s].app] :
                             s \in DOMAIN current \ {r}}
      BY DEF Serving
    <3>. QED  BY <3>2, <3>3
  <2>. QED
    BY <2>2, <2>3, <2>4, <2>5, <2>6 DEF Plugin!HandOver, Serving, Waiting
<1>4. ASSUME NEW r \in DOMAIN current, CompleteIdle(r)
      PROVE  \E t \in Serving : Plugin!Free(t)
  <2> DEFINE t == [id |-> r, app |-> current[r].app]
  <2>1. /\ queue = <<>> /\ queue' = queue /\ itemId' = itemId
        /\ current' = Unbind(current, r)
    BY <1>4 DEF CompleteIdle
  <2>2. t \in Serving /\ Serving' = Serving \ {t}
    BY <2>1 DEF Serving, Unbind
  <2>3. Waiting = {} /\ Waiting' = Waiting
    BY <2>1 DEF Waiting, ToSet
  <2>. QED  BY <2>1, <2>2, <2>3 DEF Plugin!Free, Serving, Waiting
<1>5. CASE UNCHANGED queueVars
  BY <1>5 DEF queueVars, Plugin!vars
<1>6. \/ UNCHANGED queueVars
      \/ \E a \in Apps, size \in Sizes : EnqueueDispatch(a, size) \/ EnqueueHold(a, size)
      \/ \E r \in DOMAIN current : CompleteDispatch(r) \/ CompleteIdle(r)
  BY DEF Next, vars, Tick, Launch, OtherBroadcast, Send, Receive, Apply
<1>. QED
  BY <1>1, <1>2, <1>3, <1>4, <1>5, <1>6 DEF Plugin!Next, Serving

LEMMA InitPromise == Init => Plugin!Init
BY DEF Init, Plugin!Init, ToSet

(* vDSFQ keeps the promise of a work-conserving plug-in: it does not sort  *)
(* before it takes the head of the list, and the head is the oldest item   *)
(* of its application all the same, however many proxies announce it.      *)
THEOREM Refinement ==
  ASSUME Settings, QueueSettings
  PROVE  Spec => KeepsPromise
<1>1. QueueInv /\ Inv /\ [Next]_vars => [Plugin!Next]_(Plugin!vars)
  BY StepPromise DEF Inv, ReceiveInv
<1>. QED
  BY <1>1, InitPromise, Invariance, QueueInvariance, PTL
  DEF Spec, KeepsPromise, Plugin!Spec

=============================================================================
