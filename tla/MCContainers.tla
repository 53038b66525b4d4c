---------------------------- MODULE MCContainers ----------------------------
(***************************************************************************)
(* Model of the socket pool, whose variables this module inherits, of the  *)
(* heap, the sort, the share of a request, the locations of clients and    *)
(* the threshold of a time window.  The run has one part per subject,      *)
(* chosen in the first state; a pure function is evaluated for every input *)
(* of the bounds.                                                          *)
(***************************************************************************)
EXTENDS SocketPool, Sequences, TLC

CONSTANTS
  Keys,     \* keys of the heap
  SortLen,  \* longest list that is sorted
  Span,     \* largest offset and length of a request
  Octets,   \* octets of addresses
  Deadline, \* of the responses of a window, in microseconds
  Infinite  \* the dispatch limit of a window that has none

ASSUME ContainersAssumption ==
  /\ Keys \in SUBSET (Nat \ {0}) /\ Octets \in SUBSET Nat
  /\ SortLen \in Nat /\ Span \in Nat
  /\ Deadline \in Nat \ {0} /\ Infinite \in Nat \ {0, 1}

VARIABLES subject, forest, kids, cached, allCount, contents, input, answer

hvars == <<forest, kids, cached, allCount, contents>>
allVars == <<subject, vars, hvars, input, answer>>

H == INSTANCE Heap
S == INSTANCE Share
L == INSTANCE ListSort
A == INSTANCE Locations
W == INSTANCE TimeWindow

Lists == UNION {[1 .. n -> 1 .. 3] : n \in 1 .. SortLen}

(* The items of a queue: the tags of list, and the order of arrival. *)
Items(list) == [i \in DOMAIN list |-> [tag |-> list[i], id |-> i]]

(* The last size is that of a file without an end. *)
Requests == S!Requests({2, 3}, {1, 2, 3}, Span, {0, 1, 4, 1000})

(* Locations whose ends are in order. *)
Ranges == {l \in {A!Location(f, e) : f, e \in A!Addresses} : ~A!Before(l.last, l.first)}

(* The second application is one without responses, with few, or late. *)
Asked == {W!Ratio(1, 100), W!Ratio(3, 2), W!Whole(Infinite)}
Pairs ==
  {<<c, d>> : c \in W!Classes(Asked, {0, Deadline - 1, Deadline, Deadline + 1, 5001}, {0, 1, 1000, 3000}),
              d \in W!Classes({W!Ratio(3, 2), W!Whole(Infinite)}, {0, Deadline + 1}, {0, 1000})}

MCInit ==
  /\ Init /\ H!Init /\ answer = <<>>
  /\ \/ subject \in {"pool", "heap"} /\ input = <<>>
     \/ subject = "sort" /\ input \in {Items(list) : list \in Lists}
     \/ subject = "share" /\ input \in Requests
     \/ subject = "range" /\ input \in Ranges
     \/ subject = "window" /\ input \in W!Windows({1, 2, Infinite}, {0, 1, 10})

MCNext ==
  /\ UNCHANGED <<subject, input>>
  /\ \/ subject = "pool" /\ Next /\ UNCHANGED <<hvars, answer>>
     \/ subject = "heap" /\ H!Next /\ UNCHANGED <<vars, answer>>
     \/ /\ subject = "sort" /\ answer = <<>>
        /\ answer' = L!Sort(input)
        /\ UNCHANGED <<vars, hvars>>

MCSpec == MCInit /\ [][MCNext]_allVars

(* The heap finds the first item, the sort is a stable sort, the share of  *)
(* a request is never too small, a client belongs to the application whose *)
(* range it is in, and 2LSFQD always finds a threshold; with the           *)
(* exceptions named there.                                                 *)
HelpersSound ==
  /\ H!HeapSound
  /\ subject = "sort" /\ answer # <<>> => L!SortedFrom(input, answer)
  /\ subject = "share" => S!ShareSound(input)
  /\ subject = "range" => A!RangeSound(input)
  /\ subject = "window" => \A classes \in Pairs : W!WindowSound(input, classes)

=============================================================================
