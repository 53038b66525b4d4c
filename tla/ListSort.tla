------------------------------ MODULE ListSort ------------------------------
(***************************************************************************)
(* PINT_llist_sort (llist.c): the merge sort that orders the queues of     *)
(* SFQD, SFQD_Full, DSFQ and the deadlines of 2LSFQD.  It merges runs of   *)
(* insize items, then twice as many, until one merge is enough.  An item   *)
(* is [tag, id]; the comparison looks at the tag alone, and only the       *)
(* stability of the sort keeps the requests of one application in order.   *)
(* A loop is a function from the rounds to the state that they leave.      *)
(***************************************************************************)
EXTENDS Integers, Sequences

(* list_sfqd_sort_comp *)
SortComp(x, y) == x.tag - y.tag

(* The inner loop, after i items of run p and j of run q: the next one of  *)
(* the merged list is from p unless p is at its end or q has a lower one.  *)
MergeStep(p, q, s) ==
  IF s.i < Len(p) /\ (s.j = Len(q) \/ SortComp(p[s.i + 1], q[s.j + 1]) <= 0)
  THEN [out |-> Append(s.out, p[s.i + 1]), i |-> s.i + 1, j |-> s.j]
  ELSE [out |-> Append(s.out, q[s.j + 1]), i |-> s.i, j |-> s.j + 1]

Merge(p, q) ==
  LET after[n \in 0 .. Len(p) + Len(q)] ==
        IF n = 0 THEN [out |-> <<>>, i |-> 0, j |-> 0] ELSE MergeStep(p, q, after[n - 1])
  IN  after[Len(p) + Len(q)].out

(* One pass over the list, cut into its runs of insize items, of which the *)
(* last may be shorter: each two are merged, and one left over stays.      *)
Pass(runs) ==
  [r \in 1 .. (Len(runs) + 1) \div 2 |->
     IF 2 * r <= Len(runs) THEN Merge(runs[2 * r - 1], runs[2 * r]) ELSE runs[2 * r - 1]]

(* The list is not empty: of an empty one PINT_llist_sort answers NULL.    *)
(* The code stops after a pass with one merge; a further pass would change *)
(* nothing, and there are never more passes than items.                    *)
Sort(list) ==
  LET after[n \in 0 .. Len(list)] ==
        IF n = 0 THEN [i \in 1 .. Len(list) |-> <<list[i]>>] ELSE Pass(after[n - 1])
  IN  after[Len(list)][1]

-----------------------------------------------------------------------------
(* Correctness *)

(* The items of list, by tag, and those with the same tag as they were. *)
SortedFrom(list, result) ==
  /\ Len(result) = Len(list)
  /\ \A i \in DOMAIN list : \E j \in DOMAIN result : result[j] = list[i]
  /\ \A i, j \in DOMAIN result : i < j =>
       \/ result[i].tag < result[j].tag
       \/ result[i].tag = result[j].tag /\ result[i].id < result[j].id

=============================================================================
