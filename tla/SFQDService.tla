---------------------------- MODULE SFQDService ----------------------------
(***************************************************************************)
(* The service an application gets from SFQD, in bytes.  Every step of     *)
(* SFQD is observed by a history variable that follows each waiting item:  *)
(* what its own application had queued when it came, and how many bytes of *)
(* every application have been released since.                             *)
(***************************************************************************)
EXTENDS SFQD, FiniteSetsExt

VARIABLE wait  \* [ids of waiting items -> [ahead : Nat, bytes : [Apps -> Nat]]]

(* Virtual time that the queued items of application a will take up. *)
Backlog(a) == MapThenSumSet(LAMBDA x : TagCost(x.size, Weight[x.app]),
                            {x \in queue : x.app = a})

(* Bytes of application c that a step takes out of the list. *)
Taken(c) == MapThenSumSet(LAMBDA x : x.size,
                          {x \in queue \ queue' : x.app = c})

Observe ==
  wait' = [i \in {x.id : x \in queue'} |->
             IF i \in DOMAIN wait
             THEN [wait[i] EXCEPT !.bytes = [c \in Apps |-> @[c] + Taken(c)]]
             ELSE [ahead |-> Backlog((CHOOSE x \in queue' : x.id = i).app),
                   bytes |-> [c \in Apps |-> 0]]]

ServiceInit == Init /\ wait = << >>

ServiceNext == Next /\ Observe

ServiceSpec == ServiceInit /\ [][ServiceNext]_<<vars, wait>>

(* Bytes application c may have released while its tags advance by d. *)
BytesFor(c, d) == 2 * Weight[c] * REDUCER * d

(* An item is overtaken by at most a weighted share of its own backlog     *)
(* plus one request of each side, however many requests the other          *)
(* applications send: the cap MAX(sfqd_virtual_time, last finish tag) in   *)
(* sfqd_enqueue neither lets an application that was idle claim the time   *)
(* it did not use, nor lets a busy one push the others back.  The factor 2 *)
(* of BytesFor is what get_finish_tag's integer division can lose.         *)
OvertakingBounded ==
  \A x \in queue : \A c \in Apps \ {x.app} :
    wait[x.id].bytes[c]
      <= BytesFor(c, wait[x.id].ahead + MaxCost(x.app) + MaxCost(c))

=============================================================================
