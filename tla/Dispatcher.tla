----------------------------- MODULE Dispatcher -----------------------------
(***************************************************************************)
(* What a work-conserving scheduler plug-in promises the proxy, whatever   *)
(* discipline orders its queue.  The plug-in interface is struct           *)
(* scheduler_method (scheduler_main.h): a request is handed over with      *)
(* sch_enqueue, and every completion is reported with sch_dequeue, which   *)
(* answers with the request that takes over the freed slot.                *)
(*                                                                         *)
(* The promise: at most Depth requests are at the server; a request waits  *)
(* only while all slots are taken; a freed slot goes to a waiting request  *)
(* when there is one; the requests of one application are served in the    *)
(* order they arrived.  Which application comes next is left open.         *)
(***************************************************************************)
EXTENDS Integers, FiniteSets

CONSTANTS
  Apps,     \* the applications (config.c, one per [apps] entry)
  Depth     \* number of requests the server may hold

VARIABLES
  waiting,  \* requests held back, as records [id, app]
  serving,  \* requests released to the server
  arrived   \* how many requests have come; request ids are 0, 1, 2, ...

vars == <<waiting, serving, arrived>>

Request == [id : Nat, app : Apps]

(* No request of the same application has waited longer than r. *)
OldestOfApp(r) == \A s \in waiting : s.app = r.app => r.id <= s.id

Init ==
  /\ waiting = {}
  /\ serving = {}
  /\ arrived = 0

-----------------------------------------------------------------------------

(* A request comes and a slot is free: it is released at once. *)
Release(a) ==
  /\ Cardinality(serving) < Depth
  /\ serving' = serving \cup {[id |-> arrived, app |-> a]}
  /\ arrived' = arrived + 1
  /\ UNCHANGED waiting

(* A request comes and all slots are taken: it waits. *)
Hold(a) ==
  /\ Cardinality(serving) = Depth
  /\ waiting' = waiting \cup {[id |-> arrived, app |-> a]}
  /\ arrived' = arrived + 1
  /\ UNCHANGED serving

(* Request r is answered and a waiting request takes over its slot. *)
HandOver(r) ==
  /\ r \in serving
  /\ \E next \in waiting :
       /\ OldestOfApp(next)
       /\ waiting' = waiting \ {next}
       /\ serving' = (serving \ {r}) \cup {next}
  /\ UNCHANGED arrived

(* Request r is answered and nobody waits: its slot becomes free. *)
Free(r) ==
  /\ r \in serving
  /\ waiting = {}
  /\ serving' = serving \ {r}
  /\ UNCHANGED <<waiting, arrived>>

Next ==
  \/ \E a \in Apps : Release(a) \/ Hold(a)
  \/ \E r \in serving : HandOver(r) \/ Free(r)

Spec == Init /\ [][Next]_vars

=============================================================================
