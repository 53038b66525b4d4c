-------------------------------- MODULE Heap --------------------------------
(***************************************************************************)
(* The binomial heap of SFQD2 and SFQD3 (heap.c): a list of trees of       *)
(* different degrees, each node no later than its children, and the least  *)
(* node cached aside when it has been found.  A node is its key, and keys  *)
(* stand for the order sfqd2_packet_cmp gives the items, in which no two   *)
(* are equal.  A list of nodes, linked by next in the code, is a sequence; *)
(* the degree of a node is the length of its list.  A loop is a function   *)
(* from the rounds to the state that they leave.                           *)
(***************************************************************************)
EXTENDS Integers, Sequences, FiniteSets

CONSTANT Keys  \* the items, as positive numbers in the order of the comparison

VARIABLES
  forest,    \* heap->head: the roots, in order
  kids,      \* child of each node, and what next leads to from there
  cached,    \* heap->min: <<>> or <<node>>
  allCount,  \* heap->all_count
  contents   \* history: what has been inserted and not taken

vars == <<forest, kids, cached, allCount, contents>>

Degree(l, x) == Len(l[x])
HigherPrio(x, y) == x < y

(* __heap_link, on the lists l of all nodes *)
Link(l, root, child) == [l EXCEPT ![root] = <<child>> \o @]

(* A node of a list is skipped. *)
Without(list, i) == [j \in 1 .. Len(list) - 1 |-> IF j < i THEN list[j] ELSE list[j + 1]]

(* __heap_merge, after i trees of a and j of b; of the same degree, the    *)
(* tree of b comes first.                                                  *)
MergeStep(l, a, b, s) ==
  IF s.i < Len(a) /\ (s.j = Len(b) \/ Degree(l, a[s.i + 1]) < Degree(l, b[s.j + 1]))
  THEN [out |-> Append(s.out, a[s.i + 1]), i |-> s.i + 1, j |-> s.j]
  ELSE [out |-> Append(s.out, b[s.j + 1]), i |-> s.i, j |-> s.j + 1]

Merge(l, a, b) ==
  LET after[n \in 0 .. Len(a) + Len(b)] ==
        IF n = 0 THEN [out |-> <<>>, i |-> 0, j |-> 0] ELSE MergeStep(l, a, b, after[n - 1])
  IN  after[Len(a) + Len(b)].out

(* __heap_union at position pos of roots, with a tree after it: one of the *)
(* two becomes a subtree of the other.                                     *)
Linked(s) ==
  LET x    == s.roots[s.pos]
      next == s.roots[s.pos + 1]
  IN  IF HigherPrio(x, next)
      THEN [s EXCEPT !.roots = Without(@, s.pos + 1), !.kids = Link(@, x, next)]
      ELSE [s EXCEPT !.roots = Without(@, s.pos), !.kids = Link(@, next, x)]

(* A mutant of UnionStep: the third tree is not looked at.                 *)
UnionStepWrong(s) ==
  LET D(i) == Degree(s.kids, s.roots[i])
  IN  IF D(s.pos) # D(s.pos + 1) THEN [s EXCEPT !.pos = @ + 1] ELSE Linked(s)

(* One round of __heap_union: the two trees are linked, unless their       *)
(* degrees differ or a third of that degree follows.                       *)
UnionStep(s) ==
  LET D(i) == Degree(s.kids, s.roots[i])
  IN  IF D(s.pos) # D(s.pos + 1) \/ (s.pos + 2 <= Len(s.roots) /\ D(s.pos + 2) = D(s.pos))
      THEN [s EXCEPT !.pos = @ + 1] ELSE Linked(s)

(* The loop: every round leaves one tree less from x on. *)
Consolidate(l, list) ==
  LET after[n \in 0 .. Len(list) - 1] ==
        IF n = 0 THEN [roots |-> list, pos |-> 1, kids |-> l] ELSE UnionStep(after[n - 1])
  IN  after[Len(list) - 1]

(* __heap_union of the heap h and the trees h2 *)
Union(l, h, h2) ==
  IF h2 = <<>> THEN [roots |-> h, kids |-> l]
  ELSE IF h = <<>> THEN [roots |-> h2, kids |-> l]
  ELSE Consolidate(l, Merge(l, h, h2))

(* __heap_reverse *)
Reversed(s) == [i \in DOMAIN s |-> s[Len(s) + 1 - i]]

(* Where __heap_min finds the least root. *)
LeastRoot(h) == CHOOSE i \in DOMAIN h : \A j \in DOMAIN h \ {i} : HigherPrio(h[i], h[j])

(* What __heap_extract_min leaves: the kids of the least root are the new  *)
(* trees, from the smallest to the largest.                                *)
Extracted ==
  LET i == LeastRoot(forest)
  IN  Union(kids, Without(forest, i), Reversed(kids[forest[i]]))

Init ==
  /\ forest = <<>> /\ kids = [k \in Keys |-> <<>>]
  /\ cached = <<>> /\ allCount = 0 /\ contents = {}

-----------------------------------------------------------------------------

(* heap_insert: a node before the cached one takes its place.  The node    *)
(* that joins the forest has no kids: the code clears its pointers here,   *)
(* the model when the node leaves the forest; nothing reads them between.  *)
Insert(k) ==
  LET swap  == cached # <<>> /\ HigherPrio(k, cached[1])
      union == Union(kids, forest, <<IF swap THEN cached[1] ELSE k>>)
  IN  /\ k \notin contents
      /\ forest' = union.roots
      /\ kids' = union.kids
      /\ cached' = IF swap THEN <<k>> ELSE cached
      /\ allCount' = allCount + 1
      /\ contents' = contents \cup {k}

(* The node heap_peek and heap_take answer with. *)
Top == IF cached # <<>> THEN cached[1] ELSE forest[LeastRoot(forest)]

(* Both find it in the forest when it is not cached. *)
TopIsOut ==
  /\ forest' = IF cached # <<>> THEN forest ELSE Extracted.roots
  /\ kids' = IF cached # <<>> THEN kids ELSE [Extracted.kids EXCEPT ![Top] = <<>>]

(* heap_peek of a heap that is not empty *)
Peek ==
  /\ contents # {}
  /\ TopIsOut
  /\ cached' = <<Top>>
  /\ UNCHANGED <<allCount, contents>>

(* heap_take; of an empty heap it reads through a NULL pointer, and the    *)
(* plug-ins ask all_count first.                                           *)
Take ==
  /\ allCount > 0
  /\ TopIsOut
  /\ cached' = <<>>
  /\ allCount' = allCount - 1
  /\ contents' = contents \ {Top}

Next == (\E k \in Keys : Insert(k)) \/ Peek \/ Take

Spec == Init /\ [][Next]_vars

-----------------------------------------------------------------------------
(* Correctness *)

(* The nodes the forest holds, and the list of one of them; 0, which is no *)
(* node, stands for the heap, and its list is that of the roots.           *)
Nodes == contents \ {cached[i] : i \in DOMAIN cached}
ListOf(p) == IF p = 0 THEN forest ELSE kids[p]

(* A node is later than its parent, and the trees under a node of degree d *)
(* have the degrees d - 1 to 0.                                            *)
Shaped ==
  \A x \in Nodes : \A i \in DOMAIN kids[x] :
    /\ kids[x][i] \in Nodes
    /\ HigherPrio(x, kids[x][i])
    /\ Degree(kids, kids[x][i]) = Degree(kids, x) - i

(* No node is lost, and none is in two places. *)
Placed ==
  /\ \A i \in DOMAIN forest : forest[i] \in Nodes
  /\ \A x \in Nodes : \E p \in Nodes \cup {0} : \E i \in DOMAIN ListOf(p) : ListOf(p)[i] = x
  /\ \A p, q \in Nodes \cup {0} : \A i \in DOMAIN ListOf(p), j \in DOMAIN ListOf(q) :
       ListOf(p)[i] = ListOf(q)[j] => p = q /\ i = j

(* However insertions, peeks and takes follow each other: the trees are    *)
(* binomial trees of strictly increasing degree, no node is lost or kept   *)
(* twice when trees are linked and taken apart, all_count counts them, and *)
(* the next node taken is the first of all.                                *)
HeapSound ==
  /\ Shaped /\ Placed
  /\ \A i, j \in DOMAIN forest : i < j => Degree(kids, forest[i]) < Degree(kids, forest[j])
  /\ \A i \in DOMAIN cached : cached[i] \in contents
  /\ allCount = Cardinality(contents)
  /\ contents # {} => \A k \in contents : Top <= k

=============================================================================
