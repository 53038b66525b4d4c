------------------------------ MODULE Broadcast ------------------------------
(***************************************************************************)
(* How a proxy tells the other proxies what it has served: the threads     *)
(* that scheduler_DSFQ.c, scheduler_vDSFQ.c and scheduler_vDSFQ2.c start   *)
(* for it.  The coordinator waits until the previous broadcast is over and *)
(* the threshold is reached, fills one buffer per peer and wakes the       *)
(* worker; the worker empties the buffers into its sockets and wakes the   *)
(* coordinator.  What is reported, and when the threshold is reached, is   *)
(* the plug-in's: it uses Launch and Arm.                                  *)
(*                                                                         *)
(* Everything between a lock of the broadcast mutex and the unlock or wait *)
(* that follows is one step.  A signal moves a sleeping thread to the test *)
(* of its while loop; a signal nobody waits for is lost.                   *)
(***************************************************************************)
CONSTANTS
  Peers,     \* broadcast_sockets: one per other proxy
  Nothing    \* the content of a buffer that has been sent whole

VARIABLES
  coordinator, \* where the coordinator thread is
  worker,      \* where the worker thread is
  complete,    \* broadcast_complete
  begin,       \* broadcast_begin
  ready,       \* threshold_ready
  outgoing     \* [Peers -> broadcast_buffer with broadcast_buffer_size]

vars == <<coordinator, worker, complete, begin, ready, outgoing>>

CoordinatorAt == {"testComplete", "sleepComplete", "testThreshold",
                  "sleepThreshold"}
WorkerAt == {"test", "sleep", "sending"}

Init ==
  /\ coordinator = "testComplete"
  /\ worker = "test"
  /\ complete = TRUE
  /\ begin = FALSE
  /\ ready = FALSE
  /\ outgoing = [q \in Peers |-> Nothing]

(* The first while loop is left, or has been left before the second one.   *)
LastOneOver == coordinator = "testThreshold" \/ (coordinator = "testComplete" /\ complete)

-----------------------------------------------------------------------------

(* The flag is raised but nobody is woken. *)
ArmWrong ==
  /\ ready' = TRUE
  /\ UNCHANGED <<coordinator, worker, complete, begin, outgoing>>

(* The threshold is reached: threshold_ready = 1 and a signal. *)
Arm ==
  /\ ready' = TRUE
  /\ coordinator' =
       IF coordinator = "sleepThreshold" THEN "testThreshold" ELSE coordinator
  /\ UNCHANGED <<worker, complete, begin, outgoing>>

(* The coordinator finds the last broadcast unfinished and waits. *)
SleepForComplete ==
  /\ coordinator = "testComplete" /\ ~complete
  /\ coordinator' = "sleepComplete"
  /\ UNCHANGED <<worker, complete, begin, ready, outgoing>>

(* The coordinator finds that there is nothing to tell yet and waits. *)
SleepForThreshold ==
  /\ LastOneOver /\ ~ready
  /\ coordinator' = "sleepThreshold"
  /\ UNCHANGED <<worker, complete, begin, ready, outgoing>>

(* The coordinator hands the message over, once per peer. *)
Launch(message) ==
  /\ LastOneOver /\ ready
  /\ outgoing' = [q \in Peers |-> message]
  /\ complete' = FALSE
  /\ ready' = FALSE
  /\ begin' = TRUE
  /\ worker' = IF worker = "sleep" THEN "test" ELSE worker
  /\ coordinator' = "testComplete"

(* The worker finds nothing to send and waits. *)
SleepForBegin ==
  /\ worker = "test" /\ ~begin
  /\ worker' = "sleep"
  /\ UNCHANGED <<coordinator, complete, begin, ready, outgoing>>

(* The worker unlocks the mutex and polls. *)
StartSending ==
  /\ worker = "test" /\ begin
  /\ worker' = "sending"
  /\ UNCHANGED <<coordinator, complete, begin, ready, outgoing>>

(* Peer q's socket is writable: its buffer is sent.  The sockets block and *)
(* a message is 8 bytes per application, so it goes out whole.             *)
Send(q) ==
  /\ worker = "sending" /\ outgoing[q] # Nothing
  /\ outgoing' = [outgoing EXCEPT ![q] = Nothing]
  /\ UNCHANGED <<coordinator, worker, complete, begin, ready>>

(* Every buffer is empty: the broadcast is over. *)
Finish ==
  /\ worker = "sending" /\ \A q \in Peers : outgoing[q] = Nothing
  /\ begin' = FALSE
  /\ complete' = TRUE
  /\ worker' = "test"
  /\ coordinator' =
       IF coordinator = "sleepComplete" THEN "testComplete" ELSE coordinator
  /\ UNCHANGED <<ready, outgoing>>

(* The steps the two threads take on their own. *)
Wait == SleepForComplete \/ SleepForThreshold \/ SleepForBegin
Step == StartSending \/ Finish \/ \E q \in Peers : Send(q)

Next(Message) ==
  Arm \/ Wait \/ Step \/ \E message \in Message : Launch(message)

-----------------------------------------------------------------------------
(* Correctness *)

(* Every variable has its type. *)
TypeOK(Message) ==
  /\ coordinator \in CoordinatorAt
  /\ worker \in WorkerAt
  /\ complete \in BOOLEAN
  /\ begin \in BOOLEAN
  /\ ready \in BOOLEAN
  /\ outgoing \in [Peers -> Message \cup {Nothing}]

(* No signal of the three condition variables is lost: a thread sleeps     *)
(* only while what it waits for has not happened, and the two threads      *)
(* never wait for each other.                                              *)
NoLostWakeup ==
  /\ coordinator = "sleepThreshold" => ~ready
  /\ coordinator = "sleepComplete" => ~complete /\ worker # "sleep"
  /\ worker = "sleep" => ~begin

(* The buffers belong to the worker from broadcast_begin to                *)
(* broadcast_complete, and it reads them without the mutex: the            *)
(* coordinator never refills a buffer that is still being sent.            *)
BuffersHandedOver ==
  /\ begin = ~complete
  /\ complete => \A q \in Peers : outgoing[q] = Nothing
  /\ worker = "sending" => begin
  /\ coordinator \in {"testThreshold", "sleepThreshold"} => complete

=============================================================================
