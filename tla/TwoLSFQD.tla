------------------------------ MODULE TwoLSFQD ------------------------------
(***************************************************************************)
(* The two-level plug-in (scheduler_2LSFQD.c, .sch_self_dispatch = 1).     *)
(* The first level holds a request until its application has credits for   *)
(* it, the second one orders requests by deadline and sends them to the    *)
(* server while fewer than the threshold are there, or when they are late. *)
(* Three threads work on it: the message loop (Arrive, Complete), the one  *)
(* that refills the credits (Replenish) and the one that sets the          *)
(* threshold at the end of a time window (Window).                         *)
(*                                                                         *)
(* Under the mutex the two levels call each other: every request sent to   *)
(* the server may refill the credits, which lets requests into the second  *)
(* level, which sends them.  calls is the stack of the calls not finished, *)
(* and the mutex is free when it is empty.  A time window is chosen        *)
(* freely: the statistics behind the new threshold are left out.           *)
(***************************************************************************)
EXTENDS Integers, Sequences, FiniteSets, Functions

CONSTANTS
  NumApps,     \* num_apps; applications are 0 .. NumApps - 1
  Conns,       \* client connections
  Sizes,       \* request lengths that occur
  Full,        \* [AppIds -> credits after twolsfqd_replenish]
  Initial,     \* [AppIds -> credits twolsfqd_init sets]
  Infinite,    \* twolsfqd_edf_infinite, the largest threshold
  MaxRequests  \* bound: number of requests that arrive

AppIds == 0 .. NumApps - 1

VARIABLES
  creditQueue, \* [AppIds -> items]: sarc_credit_list
  credits,     \* sarc_credits
  turn,        \* queue_index
  edf,         \* iedf_llist_queue; all deadlines are as far ahead, so the
               \* order of deadlines is the order of arrival
  late,        \* how many items of edf are past their deadline
  outstanding, \* timewindow_current_queue_length
  threshold,   \* timewindow_queue_threshold
  dispatched,  \* ids of the items with dispatched = 1
  unlocked,    \* items whose request has rs->locked = 0 and is not answered
  calls,       \* what the thread that holds the mutex has still to do
  nextId,      \* twolsfqd_item_id
  shared,      \* history: a connection has had two requests at once
  corrupted    \* the item of an answered request, freed, is still in edf

vars == <<creditQueue, credits, turn, edf, late, outstanding, threshold,
          dispatched, unlocked, calls, nextId, shared, corrupted>>

Item == [id : Nat, app : AppIds, conn : Conns, size : Nat]

Least(m, n) == IF m < n THEN m ELSE n

(* The calls: drain the first level; finish an edf_enqueue; finish         *)
(* twolsfqd_enqueue; serve the second level.                               *)
Drain == [op |-> "drain"]
Enqueued(x, found) == [op |-> "enqueued", item |-> x, found |-> found]
Arrived(x) == [op |-> "arrived", item |-> x]
Serve == [op |-> "serve"]

MutexFree == calls = <<>> /\ ~corrupted

Init ==
  /\ creditQueue = [a \in AppIds |-> <<>>]
  /\ credits = Initial
  /\ turn = 0
  /\ edf = <<>> /\ late = 0 /\ outstanding = 0
  /\ threshold = Infinite \div 2
  /\ dispatched = {} /\ unlocked = {}
  /\ calls = <<>> /\ nextId = 0
  /\ shared = FALSE /\ corrupted = FALSE

-----------------------------------------------------------------------------
(* The second level *)

(* The condition of twolsfqd_update_spareness. *)
Spare(limit, busy) == 9 * limit > 10 * busy

(* How many items of q twolsfqd_edf_dequeue_all sends with busy items at   *)
(* the server: the late ones, and more as long as the threshold allows.    *)
Due(q, busy) ==
  IF busy + late >= threshold THEN late ELSE Least(Len(q), threshold - busy)

(* twolsfqd_edf_dequeue_all with item list q, busy and open requests at    *)
(* the server and c credits.  What the caller does next is then.           *)
EdfDequeueAll(q, busy, open, c, then) ==
  LET n  == Due(q, busy)
      go == {q[i] : i \in 1 .. n}
  IN  /\ edf' = SubSeq(q, n + 1, Len(q))
      /\ late' = 0
      /\ outstanding' = busy + n
      /\ dispatched' = dispatched \cup {x.id : x \in go}
      /\ unlocked' = open \cup go
      /\ credits' = IF n > 0 /\ Spare(threshold, busy + n) THEN Full ELSE c
      /\ calls' = IF n > 0 THEN <<Drain>> \o then ELSE then

-----------------------------------------------------------------------------
(* The first level *)

(* Any credits left are enough. *)
HasCreditWrong(a) == creditQueue[a] # <<>> /\ credits[a] > 0

HasCredit(a) == creditQueue[a] # <<>> /\ credits[a] >= Head(creditQueue[a]).size

(* The application twolsfqd_dequeue takes from, in turn. *)
Chosen(a) ==
  /\ HasCredit(a)
  /\ \A b \in AppIds : HasCredit(b) =>
       (a + NumApps - turn) % NumApps <= (b + NumApps - turn) % NumApps

(* One round of twolsfqd_dequeue_all: twolsfqd_dequeue up to the call of   *)
(* twolsfqd_edf_enqueue, whose answer is 1 if any request of the same      *)
(* connection has been sent.                                               *)
Admit(a) ==
  LET x     == Head(creditQueue[a])
      q     == Append(edf, x)
      found == \E i \in 1 .. Due(q, outstanding) : q[i].conn = x.conn
  IN  /\ calls # <<>> /\ Head(calls) = Drain
      /\ Chosen(a)
      /\ creditQueue' = [creditQueue EXCEPT ![a] = Tail(@)]
      /\ turn' = a
      /\ EdfDequeueAll(q, outstanding, unlocked,
                       [credits EXCEPT ![a] = @ - x.size],
                       <<Enqueued(x, found)>> \o calls)
      /\ UNCHANGED <<threshold, nextId, shared, corrupted>>

(* next_item->dispatched = dispatched, and the rest of twolsfqd_dequeue. *)
EndEnqueue ==
  /\ calls # <<>> /\ Head(calls).op = "enqueued"
  /\ dispatched' = IF Head(calls).found THEN dispatched \cup {Head(calls).item.id}
                                        ELSE dispatched \ {Head(calls).item.id}
  /\ turn' = (turn + 1) % NumApps
  /\ calls' = Tail(calls)
  /\ UNCHANGED <<creditQueue, credits, edf, late, outstanding, threshold,
                 unlocked, nextId, shared, corrupted>>

(* No application has both a request and the credits for it. *)
EndDrain ==
  /\ calls # <<>> /\ Head(calls) = Drain
  /\ \A a \in AppIds : ~HasCredit(a)
  /\ calls' = Tail(calls)
  /\ UNCHANGED <<creditQueue, credits, turn, edf, late, outstanding, threshold,
                 dispatched, unlocked, nextId, shared, corrupted>>

(* The request is not locked if its item was not sent to the server. *)
EndArriveWrong ==
  /\ calls # <<>> /\ Head(calls).op = "arrived"
  /\ unlocked' = IF \E i \in DOMAIN edf : edf[i] = Head(calls).item
                 THEN unlocked \cup {Head(calls).item} ELSE unlocked
  /\ calls' = Tail(calls)
  /\ UNCHANGED <<creditQueue, credits, turn, edf, late, outstanding, threshold,
                 dispatched, nextId, shared, corrupted>>

(* The end of twolsfqd_enqueue: rs->locked = 1, unless the item says it    *)
(* has been sent.                                                          *)
EndArrive ==
  /\ calls # <<>> /\ Head(calls).op = "arrived"
  /\ unlocked' = IF Head(calls).item.id \in dispatched
                 THEN unlocked \cup {Head(calls).item}
                 ELSE unlocked \ {Head(calls).item}
  /\ calls' = Tail(calls)
  /\ UNCHANGED <<creditQueue, credits, turn, edf, late, outstanding, threshold,
                 dispatched, nextId, shared, corrupted>>

ServeEdf ==
  /\ calls # <<>> /\ Head(calls) = Serve
  /\ EdfDequeueAll(edf, outstanding, unlocked, credits, Tail(calls))
  /\ UNCHANGED <<creditQueue, turn, threshold, nextId, shared, corrupted>>

Work == (\E a \in AppIds : Admit(a)) \/ EndEnqueue \/ EndDrain \/ EndArrive \/ ServeEdf

-----------------------------------------------------------------------------
(* What takes the mutex *)

Waiting == Range(edf) \cup UNION {Range(creditQueue[a]) : a \in AppIds}

(* twolsfqd_enqueue: the first level is drained if the application has the *)
(* credits for this request, or gets them because the server has room.     *)
Arrive(a, conn, size) ==
  LET x      == [id |-> nextId, app |-> a, conn |-> conn, size |-> size]
      refill == credits[a] < size /\ Spare(threshold, outstanding)
      c      == IF refill THEN Full ELSE credits
  IN  /\ MutexFree
      /\ nextId < MaxRequests
      /\ nextId' = nextId + 1
      /\ creditQueue' = [creditQueue EXCEPT ![a] = Append(@, x)]
      /\ credits' = c
      /\ calls' = IF c[a] >= size THEN <<Drain, Arrived(x)>> ELSE <<>>
      /\ shared' = (shared \/ \E y \in Waiting \cup unlocked : y.conn = conn)
      /\ UNCHANGED <<turn, edf, late, outstanding, threshold, dispatched,
                     unlocked, corrupted>>

(* twolsfqd_edf_complete, and the item is freed. *)
Complete(x) ==
  /\ MutexFree
  /\ x \in unlocked
  /\ EdfDequeueAll(edf, outstanding - 1, unlocked \ {x}, credits, <<>>)
  /\ corrupted' = \E i \in DOMAIN edf : edf[i] = x
  /\ UNCHANGED <<creditQueue, turn, threshold, nextId, shared>>

(* twolsfqd_time_replenish *)
Replenish ==
  /\ MutexFree
  /\ credits' = Full
  /\ calls' = <<Drain>>
  /\ UNCHANGED <<creditQueue, turn, edf, late, outstanding, threshold,
                 dispatched, unlocked, nextId, shared, corrupted>>

(* twolsfqd_time_window: only the infinite threshold means overload. *)
Window(limit, overload) ==
  /\ MutexFree
  /\ overload => limit = Infinite
  /\ threshold' = limit
  /\ credits' = IF overload /\ Spare(limit, outstanding) THEN Full ELSE credits
  /\ calls' = IF overload THEN <<Drain, Serve>> ELSE <<Serve>>
  /\ UNCHANGED <<creditQueue, turn, edf, late, outstanding, dispatched,
                 unlocked, nextId, shared, corrupted>>

(* Time passes; a deadline is further away than any call takes. *)
Pass ==
  /\ MutexFree
  /\ late < Len(edf)
  /\ late' = late + 1
  /\ UNCHANGED <<creditQueue, credits, turn, edf, outstanding, threshold,
                 dispatched, unlocked, calls, nextId, shared, corrupted>>

Next ==
  \/ Work
  \/ \E a \in AppIds, conn \in Conns, size \in Sizes : Arrive(a, conn, size)
  \/ \E x \in unlocked : Complete(x)
  \/ Replenish
  \/ \E limit \in 1 .. Infinite, overload \in BOOLEAN : Window(limit, overload)
  \/ Pass

Spec == Init /\ [][Next]_vars

-----------------------------------------------------------------------------
(* Correctness *)

(* Every variable has its type. *)
TypeOK ==
  /\ \A a \in AppIds : Range(creditQueue[a]) \subseteq Item
  /\ credits \in [AppIds -> Nat] /\ turn \in AppIds
  /\ Range(edf) \subseteq Item /\ late \in 0 .. Len(edf)
  /\ outstanding \in Int /\ threshold \in 0 .. Infinite
  /\ dispatched \subseteq 0 .. MaxRequests - 1 /\ unlocked \subseteq Item
  /\ \A i \in DOMAIN calls : calls[i].op \in {"drain", "enqueued", "arrived", "serve"}
  /\ nextId \in 0 .. MaxRequests /\ {shared, corrupted} \subseteq BOOLEAN

(* Whenever the mutex is free, the length of the server's queue is the     *)
(* number of requests let go and not answered, and no request is let go    *)
(* while its item waits, although the two levels call each other and       *)
(* store the answers of those calls late.  It takes clients with one       *)
(* request at a time: the answer of twolsfqd_edf_enqueue is found by       *)
(* connection and not by item (scheduler_2LSFQD.c:731).                    *)
LetGoCounted ==
  calls = <<>> /\ ~shared =>
    /\ ~corrupted
    /\ outstanding = Cardinality(unlocked)
    /\ Waiting \cap unlocked = {}

(* Whenever the mutex is free, neither level holds back what it could let  *)
(* go: the server is busy up to the threshold, and no application has the  *)
(* credits for its next request.                                           *)
NothingHeldBack ==
  MutexFree =>
    /\ edf # <<>> => outstanding >= threshold
    /\ \A a \in AppIds : ~HasCredit(a)

=============================================================================
