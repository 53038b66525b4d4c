---------------------------- MODULE Plugins_proofs ----------------------------
(***************************************************************************)
(* Proofs about SFQD3, SFQD2 and 2LSFQD, for every set of applications and *)
(* all weights, depths, costs and credits that their settings allow.       *)
(* SFQD3's names are those of its module, SFQD2's are C's and those of     *)
(* 2LSFQD are T's, as in MCPlugins; the proofs about TwoLSFQD are in a     *)
(* module of their own and are carried over here.                          *)
(***************************************************************************)
EXTENDS MCPlugins, FiniteSetTheorems, WellFoundedInduction, TLAPS
-----------------------------------------------------------------------------
(* Finite sets and sums *)

(* A set of naturals that is not empty has a least element. *)
LEMMA LeastNatural ==
  ASSUME NEW S \in SUBSET Nat, S # {}
  PROVE  \E m \in S : \A n \in S : m <= n
<1> DEFINE Less == {p \in Nat \X Nat : p[1] < p[2]}
<1>1. IsWellFoundedOn(Less, Nat)
  BY NatLessThanWellFounded DEF OpToRel
<1>2. PICK m \in S : \A n \in S : <<n, m>> \notin Less
  <2> HIDE DEF Less
  <2>. QED  BY <1>1, WFMin
<1>3. \A n \in S : n \in Nat
  OBVIOUS
<1>4. \A n \in S : ~(n < m)
  BY <1>2, <1>3
<1>. QED  BY <1>3, <1>4

(* Induction on a set instead of a predicate, which the provers can        *)
(* instantiate.                                                            *)
LEMMA SetInduction ==
  ASSUME NEW S, 0 \in S, \A n \in Nat : n \in S => n + 1 \in S
  PROVE  Nat \subseteq S
<1> SUFFICES ASSUME Nat \ S # {}
             PROVE  FALSE
  OBVIOUS
<1>1. PICK m \in Nat \ S : \A n \in Nat \ S : m <= n
  BY LeastNatural
<1>2. m - 1 \in Nat /\ m - 1 \in S
  BY <1>1
<1>. QED  BY <1>1, <1>2

(* Finitely many naturals have a greatest one. *)
LEMMA GreatestNatural ==
  ASSUME NEW S \in SUBSET Nat, IsFiniteSet(S), S # {}
  PROVE  \E m \in S : \A n \in S : n <= m
<1> DEFINE N == {n \in Nat : \A U \in SUBSET S : Cardinality(U) = n =>
                   \E b \in Nat : \A u \in U : u <= b}
           Above == {b \in Nat : \A s \in S : s <= b}
<1>1. \A U \in SUBSET S : IsFiniteSet(U) /\ Cardinality(U) \in Nat
  BY FS_Subset, FS_CardinalityType
<1>2. 0 \in N
  <2>1. \A U \in SUBSET S : Cardinality(U) = 0 => U = {}
    BY <1>1, FS_EmptySet
  <2>. QED  BY <2>1
<1>3. ASSUME NEW n \in Nat, n \in N PROVE n + 1 \in N
  <2>1. ASSUME NEW U \in SUBSET S, Cardinality(U) = n + 1
        PROVE  \E b \in Nat : \A u \in U : u <= b
    <3>0. U # {}
      BY <2>1, FS_EmptySet
    <3>1. PICK v \in U : TRUE
      BY <3>0
    <3>2. U \ {v} \in SUBSET S /\ Cardinality(U \ {v}) = n /\ v \in Nat
      BY <1>1, <2>1, FS_RemoveElement
    <3>3. PICK b \in Nat : \A u \in U \ {v} : u <= b
      BY <1>3, <3>2
    <3>4. CASE b <= v
      <4>1. \A u \in U : u \in Nat /\ u <= v
        BY <3>2, <3>3, <3>4
      <4>. QED  BY <3>2, <4>1
    <3>5. CASE ~(b <= v)
      <4>1. \A u \in U : u <= b
        BY <3>2, <3>3, <3>5
      <4>. QED  BY <4>1
    <3>. QED  BY <3>4, <3>5
  <2>. QED  BY <2>1
<1>4. Nat \subseteq N
  <2> HIDE DEF N
  <2>. QED  BY <1>2, <1>3, SetInduction
<1>5. Above # {}
  BY <1>1, <1>4
<1>6. PICK m \in Above : \A b \in Above : m <= b
  <2>1. Above \in SUBSET Nat
    OBVIOUS
  <2> HIDE DEF Above
  <2>. QED  BY <1>5, <2>1, LeastNatural
<1>7. m \in S
  <2> SUFFICES ASSUME m \notin S PROVE FALSE
    OBVIOUS
  <2>1. \A s \in S : s \in Nat /\ s <= m - 1 /\ m - 1 \in Nat
    BY <1>6
  <2>2. m - 1 \in Above
    BY <2>1
  <2>. QED  BY <1>6, <2>2
<1>. QED  BY <1>6, <1>7

(* The element a fold or a sum takes next. *)
Some(s) == CHOOSE x \in s : TRUE

(* g adds up f over every subset of Apps, one application after the other, *)
(* as the fold does.                                                       *)
IsSum(g, f) ==
  g = [s \in SUBSET Apps |-> IF s = {} THEN 0 ELSE f[Some(s)] + g[s \ {Some(s)}]]

(* SumOf is a fold. *)
LEMMA SumOfIs ==
  ASSUME NEW f PROVE SumOf(f) = (CHOOSE g : IsSum(g, f))[Apps]
BY DEF SumOf, MapThenFoldSet, IsSum, Some

(* The choice of an element is one. *)
LEMMA SomeIn == ASSUME NEW s, s # {} PROVE Some(s) \in s
BY DEF Some

(* The smaller subsets first: the function exists. *)
LEMMA SumExists ==
  ASSUME NEW f, IsFiniteSet(Apps)
  PROVE  \E g : IsSum(g, f)
<1> DEFINE Small(n) == {s \in SUBSET Apps : Cardinality(s) <= n}
           Good(g, n) == g = [s \in Small(n) |->
                                IF s = {} THEN 0 ELSE f[Some(s)] + g[s \ {Some(s)}]]
           N == {n \in Nat : \E g : Good(g, n)}
<1>1. \A s \in SUBSET Apps : /\ IsFiniteSet(s) /\ Cardinality(s) \in Nat
                             /\ Cardinality(s) <= Cardinality(Apps)
  BY FS_Subset, FS_CardinalityType
<1>2. \A s \in SUBSET Apps : s # {} => /\ s \ {Some(s)} \in SUBSET Apps
                                       /\ Cardinality(s \ {Some(s)}) = Cardinality(s) - 1
  BY <1>1, SomeIn, FS_RemoveElement
<1>3. 0 \in N
  <2>1. \A s \in Small(0) : s = {}
    BY <1>1, FS_EmptySet
  <2>2. Good([s \in Small(0) |-> 0], 0)
    <3> HIDE DEF Small
    <3>. QED  BY <2>1
  <2>. QED  BY <2>2
<1>4. ASSUME NEW n \in Nat, n \in N PROVE n + 1 \in N
  <2>1. PICK g : Good(g, n)
    BY <1>4
  <2> DEFINE h == [s \in Small(n + 1) |->
                     IF s = {} THEN 0 ELSE f[Some(s)] + g[s \ {Some(s)}]]
  <2>2. \A s \in Small(n + 1) : s # {} => s \ {Some(s)} \in Small(n)
    BY <1>1, <1>2
  <2>3. \A s \in Small(n) : s \in Small(n + 1)
    BY <1>1
  <2> HIDE DEF Small
  <2>4. \A s \in Small(n) : h[s] = g[s]
    BY <2>1, <2>3
  <2>5. \A s \in Small(n + 1) :
          h[s] = IF s = {} THEN 0 ELSE f[Some(s)] + h[s \ {Some(s)}]
    BY <2>2, <2>4
  <2>6. h = [s \in Small(n + 1) |-> h[s]]
    OBVIOUS
  <2> HIDE DEF h
  <2>7. Good(h, n + 1)
    BY <2>5, <2>6
  <2>8. \E k : Good(k, n + 1)
    <3> HIDE DEF Good
    <3>. QED  BY <2>7
  <2> HIDE DEF Good
  <2>. QED  BY <2>8
<1> HIDE DEF N
<1>5. Cardinality(Apps) \in N
  BY <1>1, <1>3, <1>4, SetInduction
<1>6. Small(Cardinality(Apps)) = SUBSET Apps
  BY <1>1
<1> HIDE DEF Small
<1>. QED  BY <1>5, <1>6 DEF N, IsSum

(* A sum of naturals is one, and positive if the terms are. *)
LEMMA SumOfType ==
  ASSUME IsFiniteSet(Apps), NEW f \in [Apps -> Nat]
  PROVE  /\ SumOf(f) \in Nat
         /\ Apps # {} /\ (\A a \in Apps : f[a] > 0) => SumOf(f) > 0
<1> DEFINE g == CHOOSE k : IsSum(k, f)
<1>1. IsSum(g, f)
  BY SumExists
<1>2. SumOf(f) = g[Apps]
  BY SumOfIs
<1> HIDE DEF g
<1> DEFINE N == {n \in Nat : \A s \in SUBSET Apps : Cardinality(s) = n => g[s] \in Nat}
<1>3. \A s \in SUBSET Apps : IsFiniteSet(s) /\ Cardinality(s) \in Nat
  BY FS_Subset, FS_CardinalityType
<1>4. \A s \in SUBSET Apps : s # {} => /\ Some(s) \in Apps /\ s \ {Some(s)} \in SUBSET Apps
                                       /\ Cardinality(s \ {Some(s)}) = Cardinality(s) - 1
  BY <1>3, SomeIn, FS_RemoveElement
<1>5. \A s \in SUBSET Apps : g[s] = IF s = {} THEN 0 ELSE f[Some(s)] + g[s \ {Some(s)}]
  BY <1>1 DEF IsSum
<1>6. 0 \in N
  <2>1. \A s \in SUBSET Apps : Cardinality(s) = 0 => s = {}
    BY <1>3, FS_EmptySet
  <2>2. g[{}] = 0
    BY <1>5
  <2>. QED  BY <2>1, <2>2
<1>7. ASSUME NEW n \in Nat, n \in N PROVE n + 1 \in N
  <2>1. ASSUME NEW s \in SUBSET Apps, Cardinality(s) = n + 1 PROVE g[s] \in Nat
    <3>1. s # {}
      BY <2>1, FS_EmptySet
    <3>2. g[s \ {Some(s)}] \in Nat /\ f[Some(s)] \in Nat
      BY <1>4, <1>7, <2>1, <3>1
    <3>. QED  BY <1>5, <3>1, <3>2
  <2>. QED  BY <2>1
<1>8. Nat \subseteq N
  <2> HIDE DEF N
  <2>. QED  BY <1>6, <1>7, SetInduction
<1>9. \A s \in SUBSET Apps : g[s] \in Nat
  BY <1>3, <1>8
<1>10. ASSUME Apps # {}, \A a \in Apps : f[a] > 0 PROVE g[Apps] > 0
  <2>1. Some(Apps) \in Apps /\ g[Apps \ {Some(Apps)}] \in Nat
    BY <1>9, <1>10, SomeIn
  <2>2. g[Apps] = f[Some(Apps)] + g[Apps \ {Some(Apps)}]
    BY <1>5, <1>10
  <2>3. f[Some(Apps)] > 0 /\ f[Some(Apps)] \in Nat
    BY <2>1, <1>10
  <2>. QED  BY <2>1, <2>2, <2>3
<1>. QED  BY <1>2, <1>9, <1>10

-----------------------------------------------------------------------------
(* What heap_take returns *)

(* Items that start at naturals and differ in their ids are in one order. *)
Ordered(items) ==
  /\ IsFiniteSet(items)
  /\ \A x \in items : x.id \in Nat /\ x.start \in Nat
  /\ \A x, y \in items : x.id = y.id => x = y

(* How many items come before x in the heap. *)
Rank(x, items) == Cardinality({y \in items : Before(y, x)})

(* The ranks of n items are the numbers below n, each of them once. *)
LEMMA RankIsOneToOne ==
  ASSUME NEW items, Ordered(items)
  PROVE  /\ \A x \in items : Rank(x, items) \in 0 .. Cardinality(items) - 1
         /\ \A x, y \in items : Rank(x, items) = Rank(y, items) => x = y
<1> DEFINE Ahead(x) == {y \in items : Before(y, x)}
<1>1. IsFiniteSet(items) /\ Cardinality(items) \in Nat
  BY FS_CardinalityType DEF Ordered
<1>2. \A x : IsFiniteSet(Ahead(x)) /\ Cardinality(Ahead(x)) \in Nat
  <2>1. \A x : Ahead(x) \in SUBSET items
    OBVIOUS
  <2> HIDE DEF Ahead
  <2>. QED  BY <1>1, <2>1, FS_Subset, FS_CardinalityType
<1>3. ASSUME NEW x \in items
      PROVE  Cardinality(Ahead(x)) <= Cardinality(items) - 1
  <2>1. Ahead(x) \in SUBSET (items \ {x})
    BY DEF Before, Ordered
  <2>2. IsFiniteSet(items \ {x}) /\ Cardinality(items \ {x}) = Cardinality(items) - 1
    BY <1>1, FS_RemoveElement
  <2> HIDE DEF Ahead
  <2>. QED  BY <2>1, <2>2, FS_Subset
<1>4. ASSUME NEW x \in items, NEW y \in items, Before(x, y)
      PROVE  Cardinality(Ahead(x)) < Cardinality(Ahead(y))
  <2>1. Ahead(x) \in SUBSET (Ahead(y) \ {x}) /\ x \in Ahead(y)
    <3>1. \A z \in items : Before(z, x) => Before(z, y) /\ z # x
      BY <1>4 DEF Before, Ordered
    <3>. QED  BY <1>4, <3>1
  <2> HIDE DEF Ahead
  <2>2. /\ IsFiniteSet(Ahead(y) \ {x})
        /\ Cardinality(Ahead(y) \ {x}) = Cardinality(Ahead(y)) - 1
    BY <1>2, <2>1, FS_RemoveElement
  <2>3. Cardinality(Ahead(x)) <= Cardinality(Ahead(y) \ {x})
    BY <2>1, <2>2, FS_Subset
  <2>. QED  BY <1>2, <2>2, <2>3
<1>5. \A x, y \in items : x = y \/ Before(x, y) \/ Before(y, x)
  BY DEF Before, Ordered
<1>6. \A x : Rank(x, items) = Cardinality(Ahead(x))
  BY DEF Rank
<1> HIDE DEF Ahead
<1>. QED  BY <1>1, <1>2, <1>3, <1>4, <1>5, <1>6

(* n calls take n items, or all. *)
LEMMA FirstCount ==
  ASSUME NEW items, Ordered(items), NEW n \in Nat
  PROVE  /\ First(n, items) \subseteq items /\ IsFiniteSet(First(n, items))
         /\ Cardinality(First(n, items)) \in Nat
         /\ Cardinality(First(n, items)) <= n
         /\ items \ First(n, items) # {} => Cardinality(First(n, items)) = n
<1> DEFINE N == Cardinality(items)
           F == First(n, items)
           rank == [x \in items |-> Rank(x, items)]
           part == [x \in F |-> Rank(x, items)]
<1>1. IsFiniteSet(items) /\ N \in Nat
  BY FS_CardinalityType DEF Ordered
<1>2. F \in SUBSET items /\ \A x \in items : x \in F <=> Rank(x, items) < n
  BY DEF First, Rank
<1>3. IsFiniteSet(F) /\ Cardinality(F) \in Nat
  BY <1>1, <1>2, FS_Subset, FS_CardinalityType
<1>4. /\ \A x \in items : Rank(x, items) \in 0 .. N - 1
      /\ \A x, y \in items : Rank(x, items) = Rank(y, items) => x = y
  BY RankIsOneToOne
<1>5. /\ IsFiniteSet(0 .. N - 1) /\ Cardinality(0 .. N - 1) = N
      /\ IsFiniteSet(0 .. n - 1) /\ Cardinality(0 .. n - 1) = n
  <2>1. ASSUME NEW k \in Nat PROVE IsFiniteSet(0 .. k - 1) /\ Cardinality(0 .. k - 1) = k
    <3>1. /\ IsFiniteSet(0 .. k - 1)
          /\ Cardinality(0 .. k - 1) = IF 0 > k - 1 THEN 0 ELSE (k - 1) - 0 + 1
      BY FS_Interval
    <3>. QED  BY <3>1
  <2> HIDE DEF N
  <2>. QED  BY <1>1, <2>1
<1> HIDE DEF F, N
<1>6. part \in Injection(F, 0 .. n - 1)
  <2>1. \A x \in F : Rank(x, items) \in 0 .. n - 1
    BY <1>2, <1>4
  <2>. QED  BY <1>2, <1>4, <2>1 DEF Injection, IsInjective
<1>7. Cardinality(F) <= n
  <2> HIDE DEF part
  <2>. QED  BY <1>5, <1>6, FS_Injection
<1>8. ASSUME NEW x \in items \ F PROVE Cardinality(F) = n
  <2>1. rank \in Injection(items, 0 .. N - 1)
    BY <1>4 DEF Injection, IsInjective
  <2>2. rank \in Surjection(items, 0 .. N - 1)
    <3> HIDE DEF rank
    <3>. QED  BY <1>5, <2>1, FS_Injection DEF N
  <2>3. \A k \in 0 .. n - 1 : \E y \in F : Rank(y, items) = k
    <3> SUFFICES ASSUME NEW k \in 0 .. n - 1
                 PROVE  \E y \in F : Rank(y, items) = k
      OBVIOUS
    <3>1. ~(Rank(x, items) < n) /\ Rank(x, items) \in 0 .. N - 1
      BY <1>2, <1>4
    <3>2. k \in 0 .. N - 1 /\ k < n
      BY <1>1, <3>1
    <3>3. PICK y \in items : rank[y] = k
      BY <2>2, <3>2 DEF Surjection
    <3>. QED  BY <1>2, <3>2, <3>3
  <2>4. part \in Surjection(F, 0 .. n - 1)
    BY <1>6, <2>3 DEF Surjection, Injection
  <2> HIDE DEF part
  <2>. QED  BY <1>5, <1>6, <2>4, FS_Injection
<1>. QED  BY <1>2, <1>3, <1>7, <1>8 DEF F

-----------------------------------------------------------------------------
(* SFQD3: the requests at the server and the items *)

(* What the configuration and the clients give. *)
Settings ==
  /\ IsFiniteSet(Apps)
  /\ Weight \in [Apps -> Nat \ {0}] /\ Depth \in [Apps -> Nat]
  /\ MaxDiff \in Int /\ Sizes \subseteq Nat /\ MaxItems \in Nat

(* The differences are integers. *)
LEMMA DiffType ==
  ASSUME Settings, NEW t \in [Apps -> Nat], NEW a \in Apps
  PROVE  CalculateDiff(t, a) \in Int
<1>1. SumOf(t) \in Nat
  BY SumOfType DEF Settings
<1>2. SumOf(Weight) \in Nat /\ SumOf(Weight) > 0
  <2>1. Weight \in [Apps -> Nat] /\ \A b \in Apps : Weight[b] > 0
    BY DEF Settings
  <2>. QED  BY <2>1, SumOfType DEF Settings
<1>3. Weight[a] \in Nat /\ t[a] \in Nat
  BY DEF Settings
<1>4. SumOf(t) * Weight[a] \in Nat
  BY <1>1, <1>3
<1>. QED  BY <1>2, <1>3, <1>4 DEF CalculateDiff

(* The requests of application b that f has at the server. *)
Of(f, b) == {r \in DOMAIN f : f[r].app = b}

(* The requests of some items. *)
Named(items) == {x.id : x \in items}

(* There are as many as items. *)
LEMMA NamedCount ==
  ASSUME NEW items, IsFiniteSet(items), \A x, y \in items : x.id = y.id => x = y
  PROVE  IsFiniteSet(Named(items)) /\ Cardinality(Named(items)) = Cardinality(items)
<1> DEFINE f == [x \in items |-> x.id]
<1>1. f \in Bijection(items, Named(items))
  BY DEF Bijection, Injection, Surjection, IsInjective, Named
<1>2. ExistsBijection(items, Named(items))
  BY <1>1 DEF ExistsBijection
<1>. QED  BY <1>2, FS_Bijection

(* Releasing items whose requests are locked adds them to their            *)
(* applications' requests and leaves the others.                           *)
LEMMA ReleaseFacts ==
  ASSUME NEW f, f \in [DOMAIN f -> Item], NEW items \in SUBSET Item,
         \A x \in items : x.id \notin DOMAIN f,
         \A x, y \in items : x.id = y.id => x = y
  PROVE  LET g == Release(f, items)
         IN  /\ DOMAIN g = DOMAIN f \cup Named(items)
             /\ \A r \in DOMAIN f : g[r] = f[r]
             /\ \A x \in items : g[x.id] = x
             /\ g \in [DOMAIN g -> Item]
<1> DEFINE g == Release(f, items)
<1>1. DOMAIN g = DOMAIN f \cup Named(items)
  BY DEF Release, Named
<1>2. \A r \in DOMAIN f : g[r] = f[r]
  BY DEF Release
<1>3. ASSUME NEW x \in items PROVE g[x.id] = x
  <2>1. g[x.id] = CHOOSE y \in items : y.id = x.id
    BY DEF Release
  <2>. QED  BY <2>1
<1>4. \A r \in Named(items) : \E x \in items : r = x.id
  BY DEF Named
<1>5. g = [r \in DOMAIN g |-> g[r]]
  BY DEF Release
<1> HIDE DEF g
<1>6. \A r \in DOMAIN g : g[r] \in Item
  BY <1>1, <1>2, <1>3, <1>4
<1>7. g \in [DOMAIN g -> Item]
  BY <1>5, <1>6
<1>. QED  BY <1>1, <1>2, <1>3, <1>7 DEF g

(* An application gains as many requests as items of its are released. *)
LEMMA ReleaseCount ==
  ASSUME NEW f, f \in [DOMAIN f -> Item], IsFiniteSet(DOMAIN f),
         NEW items \in SUBSET Item,
         \A x \in items : x.id \notin DOMAIN f,
         \A x, y \in items : x.id = y.id => x = y,
         NEW b, IsFiniteSet({x \in items : x.app = b})
  PROVE  Cardinality(Of(Release(f, items), b))
           = Cardinality(Of(f, b)) + Cardinality({x \in items : x.app = b})
<1> DEFINE g == Release(f, items)
           J == {x \in items : x.app = b}
<1>1. /\ DOMAIN g = DOMAIN f \cup Named(items)
      /\ \A r \in DOMAIN f : g[r] = f[r]
      /\ \A x \in items : g[x.id] = x
  BY ReleaseFacts
<1> HIDE DEF g
<1>2. Of(g, b) = Of(f, b) \cup Named(J)
  BY <1>1 DEF Of, Named
<1>3. Of(f, b) \cap Named(J) = {}
  BY DEF Of, Named
<1>4. IsFiniteSet(Of(f, b)) /\ Cardinality(Of(f, b)) \in Nat
  <2>1. Of(f, b) \in SUBSET DOMAIN f
    BY DEF Of
  <2>. QED  BY <2>1, FS_Subset, FS_CardinalityType
<1>5. /\ IsFiniteSet(Named(J)) /\ Cardinality(Named(J)) = Cardinality(J)
      /\ Cardinality(J) \in Nat
  <2>1. \A x, y \in J : x.id = y.id => x = y
    OBVIOUS
  <2>2. IsFiniteSet(J)
    OBVIOUS
  <2> HIDE DEF J
  <2>. QED  BY <2>1, <2>2, NamedCount, FS_CardinalityType
<1>6. Cardinality(Of(g, b)) = Cardinality(Of(f, b)) + Cardinality(Named(J)) - Cardinality({})
  <2> HIDE DEF J
  <2>. QED  BY <1>2, <1>3, <1>4, <1>5, FS_Union
<1>. QED  BY <1>4, <1>5, <1>6, FS_EmptySet DEF g

(* A binding of requests to items, as rs->current_item is. *)
Bound(f) == f \in [DOMAIN f -> Item] /\ IsFiniteSet(DOMAIN f)

(* One slot, if it is the same application's. *)
Same(a, b) == IF a = b THEN 1 ELSE 0

(* The application of a completed request loses one, the others none. *)
LEMMA UnbindCount ==
  ASSUME NEW f, Bound(f), NEW r \in DOMAIN f, NEW b
  PROVE  /\ DOMAIN Unbind(f, r) = DOMAIN f \ {r} /\ Bound(Unbind(f, r))
         /\ \A s \in DOMAIN f \ {r} : Unbind(f, r)[s] = f[s]
         /\ Cardinality(Of(Unbind(f, r), b)) = Cardinality(Of(f, b)) - Same(b, f[r].app)
<1> DEFINE g == Unbind(f, r)
<1>1. DOMAIN g = DOMAIN f \ {r} /\ \A s \in DOMAIN f \ {r} : g[s] = f[s]
  BY DEF Unbind
<1>2. g \in [DOMAIN g -> Item]
  BY DEF Unbind, Bound
<1> HIDE DEF g
<1>3. IsFiniteSet(DOMAIN g)
  BY <1>1, FS_RemoveElement DEF Bound
<1>4. IsFiniteSet(Of(f, b)) /\ Cardinality(Of(f, b)) \in Nat
  <2>1. Of(f, b) \in SUBSET DOMAIN f
    BY DEF Of
  <2>. QED  BY <2>1, FS_Subset, FS_CardinalityType DEF Bound
<1>5. CASE b = f[r].app
  <2>1. Of(g, b) = Of(f, b) \ {r} /\ r \in Of(f, b)
    BY <1>1, <1>5 DEF Of
  <2>2. Cardinality(Of(g, b)) = Cardinality(Of(f, b)) - 1
    BY <1>4, <2>1, FS_RemoveElement
  <2>. QED  BY <1>1, <1>2, <1>3, <1>5, <2>2 DEF g, Bound, Same
<1>6. CASE b # f[r].app
  <2>1. Of(g, b) = Of(f, b)
    BY <1>1, <1>6 DEF Of
  <2>. QED  BY <1>1, <1>2, <1>3, <1>4, <1>6, <2>1 DEF g, Bound, Same
<1>. QED  BY <1>5, <1>6

(* The invariant: types, distinct items, exact slots, and OnlyThrottled.   *)
Types ==
  /\ queue \in [Apps -> SUBSET Item]
  /\ virtualTime \in [Apps -> Nat] /\ lastFinish \in [Apps -> Nat]
  /\ depth \in [Apps -> Nat] /\ itemId \in 0 .. MaxItems
  /\ DOMAIN current \subseteq 0 .. itemId - 1
  /\ current \in [DOMAIN current -> Item]
  /\ throughput \in [Apps -> Nat] /\ diff \in [Apps -> Int]
  /\ counting \in BOOLEAN

Items ==
  /\ \A a \in Apps : IsFiniteSet(queue[a])
  /\ \A a \in Apps : \A x \in queue[a] :
       x.app = a /\ x.id < itemId /\ x.id \notin DOMAIN current
  /\ \A a, b \in Apps : \A x \in queue[a], y \in queue[b] : x.id = y.id => x = y
  /\ \A r \in DOMAIN current : current[r].id = r

Slots ==
  \A a \in Apps : depth[a] = Cardinality(Of(current, a)) /\ depth[a] <= Depth[a]

Throttle == Types /\ Items /\ Slots /\ NoneLeftBehind

(* What most steps need of the invariant. *)
LEMMA ThrottleFacts ==
  ASSUME Settings, Throttle
  PROVE  /\ IsFiniteSet(DOMAIN current) /\ itemId \in Nat /\ MaxItems \in Nat
         /\ \A a \in Apps :
              /\ Ordered(queue[a]) /\ queue[a] \in SUBSET Item /\ virtualTime[a] \in Nat
              /\ lastFinish[a] \in Nat /\ depth[a] \in Nat /\ Depth[a] \in Nat
              /\ Depth[a] - depth[a] \in Nat
              /\ throughput[a] \in Nat /\ diff[a] \in Int /\ MaxDiff \in Int
<1>1. itemId \in Nat /\ MaxItems \in Nat
  BY DEF Settings, Throttle, Types
<1>2. IsFiniteSet(DOMAIN current)
  <2>1. IsFiniteSet(0 .. itemId - 1)
    BY <1>1, FS_Interval
  <2>. QED  BY <2>1, FS_Subset DEF Throttle, Types
<1>3. ASSUME NEW a \in Apps
      PROVE  /\ Ordered(queue[a]) /\ queue[a] \in SUBSET Item /\ virtualTime[a] \in Nat
             /\ lastFinish[a] \in Nat /\ depth[a] \in Nat /\ Depth[a] \in Nat
             /\ Depth[a] - depth[a] \in Nat
             /\ throughput[a] \in Nat /\ diff[a] \in Int /\ MaxDiff \in Int
  <2>1. /\ queue[a] \in SUBSET Item /\ virtualTime[a] \in Nat
        /\ lastFinish[a] \in Nat /\ depth[a] \in Nat /\ Depth[a] \in Nat
        /\ throughput[a] \in Nat /\ diff[a] \in Int /\ MaxDiff \in Int
    BY DEF Settings, Throttle, Types
  <2>2. depth[a] <= Depth[a]
    BY DEF Throttle, Slots
  <2>3. Ordered(queue[a])
    BY <2>1 DEF Throttle, Items, Ordered, Item
  <2>. QED  BY <2>1, <2>2, <2>3
<1>. QED  BY <1>1, <1>2, <1>3

(* At the start nothing waits and nothing is at the server. *)
LEMMA InitThrottle ==
  ASSUME Settings, Init
  PROVE  Throttle
<1>1. DOMAIN current = {} /\ current \in [DOMAIN current -> Item]
  BY DEF Init
<1>2. Types
  <2>1. /\ queue \in [Apps -> SUBSET Item]
        /\ virtualTime \in [Apps -> Nat] /\ lastFinish \in [Apps -> Nat]
        /\ depth \in [Apps -> Nat] /\ itemId \in 0 .. MaxItems
        /\ throughput \in [Apps -> Nat] /\ diff \in [Apps -> Int]
    BY DEF Init, Settings
  <2>2. counting \in BOOLEAN
    BY Zenon DEF Init
  <2>. QED  BY <1>1, <2>1, <2>2 DEF Types
<1>3. \A a \in Apps : queue[a] = {} /\ depth[a] = 0
  BY DEF Init
<1>4. \A a : Of(current, a) = {}
  BY <1>1 DEF Of
<1>5. Items
  BY <1>1, <1>3, FS_EmptySet DEF Items
<1>6. Slots
  BY <1>3, <1>4, FS_EmptySet DEF Slots, Settings
<1>7. NoneLeftBehind
  BY <1>3 DEF NoneLeftBehind, Eligible
<1>. QED  BY <1>2, <1>5, <1>6, <1>7 DEF Throttle

(* A request that comes is new, whatever becomes of it. *)
LEMMA NewArrives ==
  ASSUME Settings, Throttle, NEW a \in Apps, NEW size \in Sizes, Arrive(a, size)
  PROVE  /\ NewItem(a, size) \in Item
         /\ NewItem(a, size).id = itemId /\ NewItem(a, size).app = a
         /\ lastFinish' \in [Apps -> Nat]
         /\ itemId' = itemId + 1 /\ itemId' \in 0 .. MaxItems
         /\ throughput' = throughput /\ diff' = diff /\ counting' = counting
         /\ \A b \in Apps : \A x \in queue[b] : x.id \in Nat /\ x.id < itemId
         /\ \A r \in DOMAIN current : r \in Nat /\ r < itemId
<1> DEFINE new == NewItem(a, size)
<1>1. /\ virtualTime[a] \in Nat /\ lastFinish[a] \in Nat /\ itemId \in Nat /\ MaxItems \in Nat
      /\ lastFinish \in [Apps -> Nat] /\ size \in Nat /\ Weight[a] \in Nat \ {0}
  BY ThrottleFacts DEF Throttle, Types, Settings
<1>2. size \div Weight[a] \in Nat
  BY <1>1
<1>3. /\ new.id = itemId /\ new.app = a /\ new.size = size
      /\ new.start = Later(virtualTime[a], lastFinish[a])
      /\ new.finish = new.start + size \div Weight[a]
  BY DEF NewItem
<1>4. new.start \in Nat /\ new.finish \in Nat
  BY <1>1, <1>2, <1>3 DEF Later
<1>5. new \in Item
  BY <1>1, <1>4 DEF NewItem, Item
<1>6. /\ itemId' = itemId + 1 /\ itemId < MaxItems
      /\ throughput' = throughput /\ diff' = diff /\ counting' = counting
      /\ lastFinish' = [lastFinish EXCEPT ![a] = new.finish]
  BY DEF Arrive
<1> HIDE DEF new
<1>7. lastFinish' \in [Apps -> Nat]
  BY <1>1, <1>4, <1>6
<1>8. \A r \in DOMAIN current : r \in Nat /\ r < itemId
  BY <1>1 DEF Throttle, Types
<1>9. \A b \in Apps : \A x \in queue[b] : x.id \in Nat /\ x.id < itemId
  BY DEF Throttle, Types, Items, Item
<1>. QED  BY <1>1, <1>3, <1>5, <1>6, <1>7, <1>8, <1>9 DEF new

(* Only the new request's application has an item that may go: it is that  *)
(* item.                                                                   *)
LEMMA DispatchKeepsThrottle ==
  ASSUME Settings, Throttle, NEW a \in Apps, NEW size \in Sizes, EnqueueDispatch(a, size)
  PROVE  Throttle'
<1> DEFINE new == NewItem(a, size)
           q == [queue EXCEPT ![a] = @ \cup {new}]
<1>1. /\ diff[a] <= MaxDiff /\ depth[a] < Depth[a] /\ queue[a] = {} /\ Arrive(a, size)
      /\ \E h \in UNION {q[b] : b \in Apps} :
           /\ IsNext(h, diff, depth, q)
           /\ queue' = [q EXCEPT ![h.app] = @ \ {h}]
           /\ depth' = [depth EXCEPT ![h.app] = @ + 1]
           /\ virtualTime' = [virtualTime EXCEPT ![h.app] = h.start]
           /\ current' = [r \in DOMAIN current \cup {itemId} |->
                            IF r = itemId THEN h ELSE current[r]]
  BY DEF EnqueueDispatch, MayGo
<1>2. /\ new \in Item /\ new.id = itemId /\ new.app = a
      /\ lastFinish' \in [Apps -> Nat]
      /\ itemId' = itemId + 1 /\ itemId' \in 0 .. MaxItems
      /\ throughput' = throughput /\ diff' = diff /\ counting' = counting
      /\ \A b \in Apps : \A x \in queue[b] : x.id \in Nat /\ x.id < itemId
      /\ \A r \in DOMAIN current : r \in Nat /\ r < itemId
  BY <1>1, NewArrives
<1>3. /\ IsFiniteSet(DOMAIN current) /\ itemId \in Nat
      /\ \A b \in Apps : depth[b] \in Nat /\ Depth[b] \in Nat
      /\ queue \in [Apps -> SUBSET Item] /\ depth \in [Apps -> Nat]
      /\ virtualTime \in [Apps -> Nat] /\ current \in [DOMAIN current -> Item]
      /\ throughput \in [Apps -> Nat] /\ diff \in [Apps -> Int] /\ counting \in BOOLEAN
      /\ DOMAIN current \subseteq 0 .. itemId - 1
  BY ThrottleFacts DEF Throttle, Types
<1> HIDE DEF new
<1>4. q[a] = {new} /\ \A b \in Apps : b # a => q[b] = queue[b]
  BY <1>1, <1>3
<1>5. \A h : IsNext(h, diff, depth, q) => h = new
  <2> SUFFICES ASSUME NEW h, NEW b \in Apps, Eligible(diff, depth, q, b), h \in First(1, q[b])
               PROVE  h = new
    BY DEF IsNext
  <2>1. b = a
    BY <1>4 DEF Throttle, NoneLeftBehind, Eligible
  <2>. QED  BY <2>1, <1>4 DEF First
<1>6. /\ queue' = [q EXCEPT ![a] = @ \ {new}]
      /\ depth' = [depth EXCEPT ![a] = @ + 1]
      /\ virtualTime' = [virtualTime EXCEPT ![a] = new.start]
      /\ current' = [r \in DOMAIN current \cup {itemId} |->
                       IF r = itemId THEN new ELSE current[r]]
  BY <1>1, <1>2, <1>5
<1>7. queue' = queue
  <2>1. queue' \in [Apps -> SUBSET Item]
    BY <1>2, <1>3, <1>6
  <2>2. \A b \in Apps : queue'[b] = queue[b]
    BY <1>1, <1>3, <1>4, <1>6
  <2> HIDE DEF q
  <2>. QED  BY <2>1, <2>2, <1>3
<1> HIDE DEF q
<1>8. itemId \notin DOMAIN current
  BY <1>2, <1>3
<1>9. current' = Release(current, {new})
  <2>1. {x.id : x \in {new}} = {itemId}
    BY <1>2
  <2>2. (CHOOSE x \in {new} : x.id = itemId) = new
    BY <1>2
  <2>. QED  BY <1>6, <1>8, <2>1, <2>2 DEF Release
<1>10. /\ \A x \in {new} : x.id \notin DOMAIN current
       /\ \A x, y \in {new} : x.id = y.id => x = y
       /\ {new} \in SUBSET Item
  BY <1>2, <1>8
<1>11. /\ DOMAIN current' = DOMAIN current \cup {itemId}
       /\ \A r \in DOMAIN current : current'[r] = current[r]
       /\ current'[itemId] = new
       /\ current' \in [DOMAIN current' -> Item]
  <2>1. Named({new}) = {itemId}
    BY <1>2 DEF Named
  <2> DEFINE g == Release(current, {new})
  <2>2. /\ DOMAIN g = DOMAIN current \cup Named({new})
        /\ \A r \in DOMAIN current : g[r] = current[r]
        /\ \A x \in {new} : g[x.id] = x
        /\ g \in [DOMAIN g -> Item]
    BY <1>3, <1>10, ReleaseFacts
  <2>3. current' = g
    BY <1>9
  <2> HIDE DEF g
  <2>. QED  BY <1>2, <2>1, <2>2, <2>3
<1>12. Types'
  <2>1. depth' \in [Apps -> Nat] /\ virtualTime' \in [Apps -> Nat]
    BY <1>2, <1>3, <1>6 DEF Item
  <2>2. DOMAIN current' \subseteq 0 .. itemId' - 1
    BY <1>2, <1>3, <1>11
  <2>. QED  BY <1>2, <1>3, <1>7, <1>11, <2>1, <2>2 DEF Types
<1>13. Items'
  <2>1. \A r \in DOMAIN current' : current'[r].id = r
    BY <1>2, <1>11 DEF Throttle, Items
  <2>2. \A b \in Apps : \A x \in queue[b] : x.id < itemId' /\ x.id \notin DOMAIN current'
    BY <1>2, <1>3, <1>11 DEF Throttle, Items
  <2>. QED  BY <1>7, <2>1, <2>2 DEF Throttle, Items
<1>14. Slots'
  <2> SUFFICES ASSUME NEW b \in Apps
               PROVE  depth'[b] = Cardinality(Of(current', b)) /\ depth'[b] <= Depth[b]
    BY DEF Slots, Of
  <2>0. depth[b] = Cardinality(Of(current, b)) /\ depth[b] <= Depth[b]
    BY DEF Throttle, Slots
  <2>1. CASE b = a
    <3>1. {x \in {new} : x.app = b} = {new}
      BY <1>2, <2>1
    <3>2. Cardinality({new}) = 1 /\ IsFiniteSet({new})
      BY FS_Singleton
    <3>3. Cardinality(Of(current', b)) = Cardinality(Of(current, b)) + 1
      BY <1>3, <1>9, <1>10, <3>1, <3>2, ReleaseCount
    <3>. QED  BY <2>0, <2>1, <3>3, <1>1, <1>3, <1>6
  <2>2. CASE b # a
    <3>1. {x \in {new} : x.app = b} = {}
      BY <1>2, <2>2
    <3>2. Cardinality(Of(current', b)) = Cardinality(Of(current, b)) + 0
      BY <1>3, <1>9, <1>10, <3>1, FS_EmptySet, ReleaseCount
    <3>. QED  BY <2>0, <2>2, <3>2, <1>3, <1>6
  <2>. QED  BY <2>1, <2>2
<1>15. NoneLeftBehind'
  <2>1. \A b \in Apps : depth'[b] \in Nat /\ depth'[b] >= depth[b]
    BY <1>3, <1>6
  <2>. QED  BY <1>2, <1>3, <1>7, <2>1 DEF Throttle, NoneLeftBehind, Eligible
<1>. QED  BY <1>12, <1>13, <1>14, <1>15 DEF Throttle

(* A request waits for a reason that it leaves as it was. *)
LEMMA HoldKeepsThrottle ==
  ASSUME Settings, Throttle, NEW a \in Apps, NEW size \in Sizes, EnqueueHold(a, size)
  PROVE  Throttle'
<1> DEFINE new == NewItem(a, size)
<1>1. /\ ~(diff[a] <= MaxDiff /\ depth[a] < Depth[a] /\ queue[a] = {})
      /\ Arrive(a, size)
      /\ queue' = [queue EXCEPT ![a] = @ \cup {new}]
      /\ UNCHANGED <<virtualTime, depth, current>>
  BY DEF EnqueueHold, MayGo
<1>2. /\ new \in Item /\ new.id = itemId /\ new.app = a
      /\ lastFinish' \in [Apps -> Nat]
      /\ itemId' = itemId + 1 /\ itemId' \in 0 .. MaxItems
      /\ throughput' = throughput /\ diff' = diff /\ counting' = counting
      /\ \A b \in Apps : \A x \in queue[b] : x.id \in Nat /\ x.id < itemId
      /\ \A r \in DOMAIN current : r \in Nat /\ r < itemId
  BY <1>1, NewArrives
<1> HIDE DEF new
<1>3. itemId \in Nat /\ Types /\ Items /\ Slots /\ NoneLeftBehind
  BY ThrottleFacts DEF Throttle
<1>4. /\ queue'[a] = queue[a] \cup {new} /\ \A b \in Apps : b # a => queue'[b] = queue[b]
      /\ queue' \in [Apps -> SUBSET Item]
  BY <1>1, <1>2, <1>3 DEF Types
<1>5. Types'
  <2>1. DOMAIN current \subseteq 0 .. itemId' - 1
    BY <1>2, <1>3
  <2>. QED  BY <1>1, <1>2, <1>3, <1>4, <2>1 DEF Types
<1>6. Items'
  <2>1. \A b \in Apps : \A x \in queue'[b] :
          \/ x = new /\ b = a
          \/ x \in queue[b] /\ x.id # itemId
    BY <1>2, <1>4
  <2>2. \A b \in Apps : IsFiniteSet(queue'[b])
    BY <1>3, <1>4, FS_AddElement DEF Items
  <2>3. \A b \in Apps : \A x \in queue'[b] :
          x.app = b /\ x.id < itemId' /\ x.id \notin DOMAIN current
    BY <1>2, <1>3, <2>1 DEF Items
  <2>4. \A b, c \in Apps : \A x \in queue'[b], y \in queue'[c] : x.id = y.id => x = y
    BY <1>2, <1>3, <2>1 DEF Items
  <2>. QED  BY <1>1, <1>3, <2>2, <2>3, <2>4 DEF Items
<1>7. Slots'
  BY <1>1, <1>3 DEF Slots, Of
<1>8. NoneLeftBehind'
  <2> SUFFICES ASSUME NEW b \in Apps, Eligible(diff', depth', queue', b)
               PROVE  FALSE
    BY DEF NoneLeftBehind
  <2>1. diff[b] <= MaxDiff /\ depth[b] < Depth[b] /\ queue'[b] # {}
    BY <1>1, <1>2 DEF Eligible
  <2>2. queue[b] = {}
    BY <1>3, <2>1 DEF NoneLeftBehind, Eligible
  <2>. QED  BY <1>1, <1>4, <2>1, <2>2
<1>. QED  BY <1>5, <1>6, <1>7, <1>8 DEF Throttle

(* The differences change at completions only. *)
LEMMA CountingKeepsThrottle ==
  ASSUME Settings, Throttle, StartCounting
  PROVE  Throttle'
BY DEF Throttle, StartCounting, Types, Items, Slots, Of, NoneLeftBehind, Eligible

(* A completion takes the items out[b] of every application b off the      *)
(* queues and puts their requests in the place of the completed one.       *)
LEMMA TakesKeep ==
  ASSUME Settings, Throttle, NEW r \in DOMAIN current,
         NEW out, out \in [Apps -> SUBSET Item], \A b \in Apps : out[b] \subseteq queue[b],
         queue' = [b \in Apps |-> queue[b] \ out[b]],
         depth' = [b \in Apps |-> depth[b] + Cardinality(out[b])
                                  - (IF b = current[r].app THEN 1 ELSE 0)],
         \A b \in Apps : depth'[b] <= Depth[b],
         current' = Release(Unbind(current, r), UNION {out[b] : b \in Apps}),
         itemId' = itemId
  PROVE  /\ Items' /\ Slots'
         /\ queue' \in [Apps -> SUBSET Item] /\ depth' \in [Apps -> Nat]
         /\ DOMAIN current' \subseteq 0 .. itemId' - 1
         /\ current' \in [DOMAIN current' -> Item]
<1> DEFINE f == Unbind(current, r)
           go == UNION {out[b] : b \in Apps}
           g == Release(f, go)
<1>1. /\ Types /\ Items /\ Slots
      /\ IsFiniteSet(DOMAIN current) /\ itemId \in Nat
      /\ current \in [DOMAIN current -> Item]
      /\ queue \in [Apps -> SUBSET Item]
      /\ \A b \in Apps : depth[b] \in Nat
  BY ThrottleFacts DEF Throttle, Types
<1>2. /\ DOMAIN f = DOMAIN current \ {r}
      /\ f \in [DOMAIN f -> Item]
      /\ \A s \in DOMAIN f : f[s] = current[s]
      /\ IsFiniteSet(DOMAIN f)
      /\ \A b : Cardinality(Of(f, b))
                  = Cardinality(Of(current, b)) - (IF b = current[r].app THEN 1 ELSE 0)
  <2> DEFINE u == Unbind(current, r)
  <2>1. ASSUME NEW b
        PROVE  /\ DOMAIN u = DOMAIN current \ {r} /\ Bound(u)
               /\ \A s \in DOMAIN current \ {r} : u[s] = current[s]
               /\ Cardinality(Of(u, b)) = Cardinality(Of(current, b)) - Same(b, current[r].app)
    <3>1. Bound(current)
      BY <1>1 DEF Bound
    <3>. QED  BY <3>1, UnbindCount
  <2>2. f = u
    OBVIOUS
  <2> HIDE DEF f, u
  <2>. QED  BY <2>1, <2>2 DEF Bound, Same
<1>3. \A x \in go : \E b \in Apps : x \in out[b] /\ x \in queue[b] /\ x.app = b
  BY <1>1 DEF Items
<1>4. /\ go \in SUBSET Item
      /\ \A x \in go : x.id \notin DOMAIN current /\ x.id \notin DOMAIN f /\ x.id < itemId
                       /\ x.id \in Nat
      /\ \A x, y \in go : x.id = y.id => x = y
  <2>1. \A x \in go : x \in Item /\ x.id \in Nat
    BY <1>1, <1>3 DEF Item
  <2>2. \A x \in go : x.id \notin DOMAIN current /\ x.id < itemId
    BY <1>1, <1>3 DEF Items
  <2>3. \A x, y \in go : x.id = y.id => x = y
    BY <1>1, <1>3 DEF Items
  <2> HIDE DEF go, f
  <2>. QED  BY <1>2, <2>1, <2>2, <2>3
<1>5. \A b \in Apps : {x \in go : x.app = b} = out[b]
  <2> SUFFICES ASSUME NEW b \in Apps PROVE {x \in go : x.app = b} = out[b]
    OBVIOUS
  <2>1. \A x \in out[b] : x \in go /\ x.app = b
    BY <1>1 DEF Items
  <2>2. \A x \in go : x.app = b => x \in out[b]
    BY <1>3
  <2> HIDE DEF go
  <2>. QED  BY <2>1, <2>2
<1>6. \A b \in Apps : IsFiniteSet(out[b]) /\ Cardinality(out[b]) \in Nat
  BY <1>1, FS_Subset, FS_CardinalityType DEF Items
<1>7. current' = g
  OBVIOUS
<1> HIDE DEF go, f
<1>8. /\ DOMAIN g = DOMAIN f \cup Named(go)
      /\ \A s \in DOMAIN f : g[s] = f[s]
      /\ \A x \in go : g[x.id] = x
      /\ g \in [DOMAIN g -> Item]
  BY <1>2, <1>4, ReleaseFacts
<1>9. ASSUME NEW b \in Apps
      PROVE  Cardinality(Of(g, b)) = Cardinality(Of(f, b)) + Cardinality(out[b])
  <2>1. IsFiniteSet({x \in go : x.app = b})
    BY <1>5, <1>6
  <2>2. Cardinality(Of(g, b)) = Cardinality(Of(f, b)) + Cardinality({x \in go : x.app = b})
    BY <1>2, <1>4, <2>1, ReleaseCount
  <2>. QED  BY <1>5, <2>2
<1> HIDE DEF g
<1>10. Slots' /\ depth' \in [Apps -> Nat]
  <2>1. ASSUME NEW b \in Apps
        PROVE  /\ depth'[b] = Cardinality(Of(current', b)) /\ depth'[b] \in Nat
               /\ depth'[b] = depth[b] + Cardinality(out[b])
                                - (IF b = current[r].app THEN 1 ELSE 0)
    <3>1. depth[b] = Cardinality(Of(current, b))
      BY <1>1 DEF Slots
    <3>2. IsFiniteSet(Of(current, b))
      <4>1. Of(current, b) \in SUBSET DOMAIN current
        BY DEF Of
      <4>. QED  BY <1>1, <4>1, FS_Subset
    <3>3. b = current[r].app => depth[b] > 0
      <4>1. b = current[r].app => r \in Of(current, b)
        BY DEF Of
      <4>. QED  BY <1>1, <3>1, <3>2, <4>1, FS_EmptySet
    <3>4. depth'[b] = depth[b] + Cardinality(out[b])
                        - (IF b = current[r].app THEN 1 ELSE 0)
      OBVIOUS
    <3>5. Cardinality(Of(current', b))
            = Cardinality(Of(current, b)) - (IF b = current[r].app THEN 1 ELSE 0)
                + Cardinality(out[b])
      BY <1>2, <1>7, <1>9
    <3>. QED  BY <1>1, <1>6, <3>1, <3>3, <3>4, <3>5
  <2>2. depth' = [b \in Apps |-> depth'[b]]
    OBVIOUS
  <2>. QED  BY <2>1, <2>2 DEF Slots, Of
<1>11. DOMAIN current' \subseteq 0 .. itemId' - 1
  <2>1. DOMAIN current \subseteq 0 .. itemId - 1
    BY <1>1 DEF Types
  <2>2. Named(go) \subseteq 0 .. itemId - 1
    BY <1>1, <1>4 DEF Named
  <2>. QED  BY <1>2, <1>7, <1>8, <2>1, <2>2
<1>12. queue' \in [Apps -> SUBSET Item]
  BY <1>1
<1>13. Items'
  <2>1. \A b \in Apps : queue'[b] = queue[b] \ out[b]
    OBVIOUS
  <2>2. \A b \in Apps : IsFiniteSet(queue'[b])
    BY <1>1, <2>1, FS_Difference DEF Items
  <2>3. \A b \in Apps : \A x \in queue'[b] : x \in queue[b] /\ x.id \notin Named(go)
    <3> SUFFICES ASSUME NEW b \in Apps, NEW x \in queue[b] \ out[b], NEW y \in go, x.id = y.id
                 PROVE  FALSE
      BY <2>1 DEF Named
    <3>1. PICK c \in Apps : y \in out[c] /\ y \in queue[c] /\ y.app = c
      BY <1>3
    <3>2. x = y /\ x.app = b
      BY <1>1, <3>1 DEF Items
    <3>. QED  BY <3>1, <3>2
  <2>4. \A b \in Apps : \A x \in queue'[b] :
          x.app = b /\ x.id < itemId' /\ x.id \notin DOMAIN current'
    BY <1>1, <1>2, <1>7, <1>8, <2>3 DEF Items
  <2>5. \A b, c \in Apps : \A x \in queue'[b], y \in queue'[c] : x.id = y.id => x = y
    BY <1>1, <2>3 DEF Items
  <2>6. \A s \in DOMAIN current' : current'[s].id = s
    <3>1. \A s \in Named(go) : \E x \in go : s = x.id
      BY DEF Named
    <3>. QED  BY <1>1, <1>2, <1>7, <1>8, <3>1 DEF Items
  <2>. QED  BY <2>2, <2>4, <2>5, <2>6 DEF Items
<1>. QED  BY <1>7, <1>8, <1>10, <1>11, <1>12, <1>13

(* What DIFF_CHANGE releases fills the slots of an application, or empties *)
(* its queue, wherever its difference allows it to go.                     *)
LEMMA WokenFacts ==
  ASSUME Settings, Throttle, NEW d \in [Apps -> Int], NEW b \in Apps
  PROVE  LET woken == Released(d, b)
         IN  /\ woken \in SUBSET Item /\ woken \subseteq queue[b]
             /\ IsFiniteSet(woken) /\ Cardinality(woken) \in Nat
             /\ depth[b] + Cardinality(woken) <= Depth[b]
             /\ d[b] <= MaxDiff /\ queue[b] \ woken # {}
                  => depth[b] + Cardinality(woken) = Depth[b]
<1> DEFINE woken == Released(d, b)
           k == Depth[b] - depth[b]
<1>1. /\ Ordered(queue[b]) /\ queue[b] \in SUBSET Item /\ depth[b] \in Nat /\ Depth[b] \in Nat
      /\ k \in Nat /\ diff[b] \in Int /\ MaxDiff \in Int /\ d[b] \in Int
  BY ThrottleFacts
<1>2. CASE diff[b] > MaxDiff /\ d[b] <= MaxDiff
  <2>1. woken = First(k, queue[b])
    BY <1>2 DEF Released
  <2> HIDE DEF k, woken
  <2>2. /\ First(k, queue[b]) \subseteq queue[b] /\ IsFiniteSet(First(k, queue[b]))
        /\ Cardinality(First(k, queue[b])) \in Nat
        /\ Cardinality(First(k, queue[b])) <= k
        /\ queue[b] \ First(k, queue[b]) # {} => Cardinality(First(k, queue[b])) = k
    BY <1>1, FirstCount
  <2>. QED  BY <1>1, <2>1, <2>2 DEF k, woken
<1>3. CASE ~(diff[b] > MaxDiff /\ d[b] <= MaxDiff)
  <2>1. woken = {}
    BY <1>3 DEF Released
  <2>2. d[b] <= MaxDiff /\ queue[b] # {} => depth[b] >= Depth[b]
    BY <1>1, <1>3 DEF Throttle, NoneLeftBehind, Eligible
  <2>3. Cardinality({}) = 0 /\ IsFiniteSet({})
    BY FS_EmptySet
  <2> HIDE DEF woken
  <2>. QED  BY <1>1, <2>1, <2>2, <2>3 DEF woken
<1>. QED  BY <1>2, <1>3

(* After what DIFF_CHANGE releases only the application of the completed  *)
(* request can have a free slot and items left; it has one slot, which the *)
(* last call of sfqd3_get_next_request fills.                              *)
LEMMA CompleteKeepsThrottle ==
  ASSUME Settings, Throttle, NEW r \in DOMAIN current, Complete(r)
  PROVE  Throttle'
<1> DEFINE a == current[r].app
           t == IF counting THEN [throughput EXCEPT ![a] = @ + current[r].size]
                ELSE throughput
           d == IF counting THEN [b \in Apps |-> CalculateDiff(t, b)] ELSE diff
           woken == [b \in Apps |-> Released(d, b)]
           q == [b \in Apps |-> queue[b] \ woken[b]]
           n == [b \in Apps |-> depth[b] + Cardinality(woken[b])
                                  - (IF b = a THEN 1 ELSE 0)]
           v == [b \in Apps |-> IF woken[b] = {} THEN virtualTime[b]
                  ELSE CHOOSE s \in {x.start : x \in woken[b]} :
                         \A x \in woken[b] : x.start <= s]
           items == UNION {woken[b] : b \in Apps}
<1>1. /\ throughput' = t /\ diff' = d
      /\ \/ \E h \in UNION {q[b] : b \in Apps} :
              /\ IsNext(h, d, n, q)
              /\ queue' = [q EXCEPT ![h.app] = @ \ {h}]
              /\ depth' = [n EXCEPT ![h.app] = @ + 1]
              /\ virtualTime' = [v EXCEPT ![h.app] = h.start]
              /\ current' = Release(Unbind(current, r), items \cup {h})
         \/ /\ \A b \in Apps : ~Eligible(d, n, q, b)
            /\ queue' = q /\ depth' = n /\ virtualTime' = v
            /\ current' = Release(Unbind(current, r), items)
      /\ UNCHANGED <<lastFinish, itemId, counting>>
  BY Zenon DEF Complete
<1>2. /\ Types /\ Items /\ Slots /\ itemId \in Nat
      /\ \A b \in Apps : /\ depth[b] \in Nat /\ Depth[b] \in Nat /\ virtualTime[b] \in Nat
                         /\ queue[b] \in SUBSET Item
  BY ThrottleFacts DEF Throttle
<1>3. a \in Apps /\ current[r].size \in Nat
  BY <1>2 DEF Types, Item
<1>4. t \in [Apps -> Nat] /\ d \in [Apps -> Int]
  <2>1. t \in [Apps -> Nat]
    BY <1>2, <1>3 DEF Types
  <2> HIDE DEF t
  <2>2. \A b \in Apps : CalculateDiff(t, b) \in Int
    BY <2>1, DiffType
  <2>. QED  BY <1>2, <2>1, <2>2 DEF Types
<1> HIDE DEF d, t, a
<1>5. \A b \in Apps :
        /\ woken[b] \in SUBSET Item /\ woken[b] \subseteq queue[b]
        /\ IsFiniteSet(woken[b]) /\ Cardinality(woken[b]) \in Nat
        /\ depth[b] + Cardinality(woken[b]) <= Depth[b]
        /\ d[b] <= MaxDiff /\ q[b] # {} => depth[b] + Cardinality(woken[b]) = Depth[b]
  BY <1>4, WokenFacts
<1>6. /\ woken \in [Apps -> SUBSET Item] /\ q \in [Apps -> SUBSET Item]
      /\ \A b \in Apps : q[b] = queue[b] \ woken[b]
  BY <1>2, <1>5
<1>7. v \in [Apps -> Nat]
  <2> SUFFICES ASSUME NEW b \in Apps, woken[b] # {}
               PROVE  (CHOOSE s \in {x.start : x \in woken[b]} :
                         \A x \in woken[b] : x.start <= s) \in Nat
    BY <1>2
  <2> HIDE DEF woken
  <2> DEFINE S == {x.start : x \in woken[b]}
             start == [x \in woken[b] |-> x.start]
  <2>1. S \in SUBSET Nat /\ S # {}
    BY <1>5 DEF Item
  <2>2. IsFiniteSet(S)
    <3>1. start \in Surjection(woken[b], S)
      BY DEF Surjection
    <3> HIDE DEF S, start
    <3>. QED  BY <1>5, <3>1, FS_Surjection
  <2>3. \E m \in S : \A k \in S : k <= m
    <3> HIDE DEF S
    <3>. QED  BY <2>1, <2>2, GreatestNatural
  <2>4. \E m \in S : \A x \in woken[b] : x.start <= m
    BY <2>3
  <2>. QED  BY <2>1, <2>4
<1>8. \A b \in Apps : n[b] = depth[b] + Cardinality(woken[b]) - (IF b = a THEN 1 ELSE 0)
  OBVIOUS
<1>9. \A b \in Apps : Eligible(d, n, q, b) => b = a /\ n[b] + 1 = Depth[b]
  <2> HIDE DEF n, q, woken
  <2>. QED  BY <1>2, <1>5, <1>8 DEF Eligible
<1>10. CASE /\ \A b \in Apps : ~Eligible(d, n, q, b)
            /\ queue' = q /\ depth' = n /\ virtualTime' = v
            /\ current' = Release(Unbind(current, r), items)
  <2>1. \A b \in Apps : depth'[b] <= Depth[b]
    <3>1. \A b \in Apps : n[b] <= Depth[b]
      <4> HIDE DEF n, woken
      <4>. QED  BY <1>2, <1>5, <1>8
    <3>. QED  BY <1>10, <3>1
  <2>2. /\ Items' /\ Slots'
        /\ queue' \in [Apps -> SUBSET Item] /\ depth' \in [Apps -> Nat]
        /\ DOMAIN current' \subseteq 0 .. itemId' - 1
        /\ current' \in [DOMAIN current' -> Item]
    <3>1. /\ queue' = [b \in Apps |-> queue[b] \ woken[b]]
          /\ depth' = [b \in Apps |-> depth[b] + Cardinality(woken[b])
                                        - (IF b = current[r].app THEN 1 ELSE 0)]
          /\ current' = Release(Unbind(current, r), UNION {woken[b] : b \in Apps})
      BY <1>10 DEF a
    <3> HIDE DEF woken, q, n, v
    <3>. QED  BY <1>1, <1>5, <1>6, <2>1, <3>1, TakesKeep
  <2> HIDE DEF woken, q, n, v
  <2>3. Types'
    BY <1>1, <1>2, <1>4, <1>7, <1>10, <2>2 DEF Types
  <2>4. NoneLeftBehind'
    BY <1>1, <1>10 DEF NoneLeftBehind, Eligible
  <2>. QED  BY <2>2, <2>3, <2>4 DEF Throttle
<1>11. ASSUME NEW h \in UNION {q[b] : b \in Apps},
              IsNext(h, d, n, q),
              queue' = [q EXCEPT ![h.app] = @ \ {h}],
              depth' = [n EXCEPT ![h.app] = @ + 1],
              virtualTime' = [v EXCEPT ![h.app] = h.start],
              current' = Release(Unbind(current, r), items \cup {h})
       PROVE  Throttle'
  <2> DEFINE out == [woken EXCEPT ![a] = @ \cup {h}]
  <2>1. h \in q[a] /\ n[a] + 1 = Depth[a]
    <3>1. PICK b \in Apps : Eligible(d, n, q, b) /\ h \in First(1, q[b])
      BY <1>11 DEF IsNext
    <3> HIDE DEF q, n
    <3>. QED  BY <1>9, <3>1 DEF First
  <2>2. h \in queue[a] /\ h \notin woken[a] /\ h.app = a /\ h \in Item /\ h.start \in Nat
    <3>1. h \in queue[a] /\ h \notin woken[a]
      BY <1>3, <1>6, <2>1
    <3> HIDE DEF woken
    <3>. QED  BY <1>2, <1>3, <3>1 DEF Items, Item
  <2>3. /\ out \in [Apps -> SUBSET Item]
        /\ out[a] = woken[a] \cup {h} /\ \A b \in Apps : b # a => out[b] = woken[b]
    <3> HIDE DEF woken
    <3>. QED  BY <1>3, <1>6, <2>2
  <2>4. \A b \in Apps : out[b] \subseteq queue[b]
    <3> HIDE DEF out, woken
    <3>. QED  BY <1>5, <2>2, <2>3
  <2>5. Cardinality(out[a]) = Cardinality(woken[a]) + 1
    <3> DEFINE W == woken[a]
    <3>1. IsFiniteSet(W) /\ h \notin W /\ out[a] = W \cup {h}
      <4> HIDE DEF out, woken
      <4>. QED  BY <1>3, <1>5, <2>2, <2>3
    <3> HIDE DEF out, W
    <3>2. Cardinality(W \cup {h}) = Cardinality(W) + 1
      BY <3>1, FS_AddElement
    <3>. QED  BY <3>1, <3>2 DEF W
  <2>6. queue' = [b \in Apps |-> queue[b] \ out[b]]
    <3>1. queue' = [b \in Apps |-> IF b = a THEN q[a] \ {h} ELSE q[b]]
      <4> HIDE DEF q
      <4>. QED  BY <1>3, <1>6, <1>11, <2>2
    <3>2. \A b \in Apps : (IF b = a THEN q[a] \ {h} ELSE q[b]) = queue[b] \ out[b]
      <4> HIDE DEF q, out, woken
      <4>. QED  BY <1>6, <2>3
    <3> HIDE DEF q, out, woken
    <3>. QED  BY <3>1, <3>2
  <2>7. depth' = [b \in Apps |-> depth[b] + Cardinality(out[b])
                                   - (IF b = current[r].app THEN 1 ELSE 0)]
    <3>1. depth' = [b \in Apps |-> IF b = a THEN n[a] + 1 ELSE n[b]]
      <4>1. n = [b \in Apps |-> n[b]]
        OBVIOUS
      <4> HIDE DEF n
      <4>. QED  BY <1>3, <1>11, <2>2, <4>1
    <3>2. \A b \in Apps : (IF b = a THEN n[a] + 1 ELSE n[b])
            = depth[b] + Cardinality(out[b]) - (IF b = a THEN 1 ELSE 0)
      <4> SUFFICES ASSUME NEW b \in Apps
                   PROVE  (IF b = a THEN n[a] + 1 ELSE n[b])
                            = depth[b] + Cardinality(out[b]) - (IF b = a THEN 1 ELSE 0)
        OBVIOUS
      <4>1. /\ Cardinality(woken[b]) \in Nat /\ depth[b] \in Nat
            /\ n[b] = depth[b] + Cardinality(woken[b]) - (IF b = a THEN 1 ELSE 0)
        BY <1>2, <1>5, <1>8
      <4> HIDE DEF n, out, woken
      <4>2. CASE b = a
        BY <2>5, <4>1, <4>2
      <4>3. CASE b # a
        BY <2>3, <4>1, <4>3
      <4>. QED  BY <4>2, <4>3
    <3> HIDE DEF n, out, woken
    <3>. QED  BY <3>1, <3>2 DEF a
  <2>8. \A b \in Apps : depth'[b] <= Depth[b]
    <3>1. \A b \in Apps : n[b] <= Depth[b]
      <4> HIDE DEF n, woken
      <4>. QED  BY <1>2, <1>5, <1>8
    <3>2. /\ depth'[a] = n[a] + 1
          /\ \A b \in Apps : b # a => depth'[b] = n[b]
      <4>1. n = [b \in Apps |-> n[b]]
        OBVIOUS
      <4> HIDE DEF n
      <4>. QED  BY <1>3, <1>11, <2>2, <4>1
    <3> HIDE DEF n
    <3>. QED  BY <1>2, <1>3, <2>1, <3>1, <3>2
  <2>9. current' = Release(Unbind(current, r), UNION {out[b] : b \in Apps})
    <3>1. UNION {out[b] : b \in Apps} = items \cup {h}
      <4>1. \A x : x \in UNION {out[b] : b \in Apps} => x \in items \cup {h}
        <5> HIDE DEF out, woken
        <5>. QED  BY <2>3
      <4>2. \A x : x \in items \cup {h} => x \in UNION {out[b] : b \in Apps}
        <5> HIDE DEF out, woken
        <5>. QED  BY <1>3, <2>3
      <4> HIDE DEF out, items
      <4>. QED  BY <4>1, <4>2
    <3>. QED  BY <1>11, <3>1
  <2>10. /\ Items' /\ Slots'
         /\ queue' \in [Apps -> SUBSET Item] /\ depth' \in [Apps -> Nat]
         /\ DOMAIN current' \subseteq 0 .. itemId' - 1
         /\ current' \in [DOMAIN current' -> Item]
    <3>1. itemId' = itemId
      BY <1>1
    <3> HIDE DEF out, woken, q, n, v
    <3>. QED  BY <2>3, <2>4, <2>6, <2>7, <2>8, <2>9, <3>1, TakesKeep
  <2>11. virtualTime' \in [Apps -> Nat]
    <3> HIDE DEF v
    <3>. QED  BY <1>7, <1>11, <2>2
  <2>12. Types'
    <3> HIDE DEF out, woken, q, n, v
    <3>. QED  BY <1>1, <1>2, <1>4, <2>10, <2>11 DEF Types
  <2>13. NoneLeftBehind'
    <3> SUFFICES ASSUME NEW b \in Apps, Eligible(diff', depth', queue', b)
                 PROVE  FALSE
      BY DEF NoneLeftBehind
    <3>1. d[b] <= MaxDiff /\ depth'[b] < Depth[b] /\ queue'[b] # {}
      BY <1>1 DEF Eligible
    <3>2. /\ depth'[a] = n[a] + 1 /\ \A c \in Apps : c # a => depth'[c] = n[c]
          /\ \A c \in Apps : c # a => queue'[c] = q[c]
      <4>1. n = [c \in Apps |-> n[c]]
        OBVIOUS
      <4> HIDE DEF n, q
      <4>. QED  BY <1>3, <1>6, <1>11, <2>2, <4>1
    <3> HIDE DEF n, q, woken
    <3>3. b # a
      BY <1>2, <1>3, <2>1, <3>1, <3>2
    <3>4. Eligible(d, n, q, b)
      BY <3>1, <3>2, <3>3 DEF Eligible
    <3>. QED  BY <1>9, <3>3, <3>4
  <2>. QED  BY <2>10, <2>12, <2>13 DEF Throttle
<1> HIDE DEF woken, q, n, v, items
<1>. QED  BY <1>1, <1>10, <1>11

(* All steps. *)
LEMMA StepThrottle ==
  ASSUME Settings, Throttle, [Next]_vars
  PROVE  Throttle'
<1>1. ASSUME NEW a \in Apps, NEW size \in Sizes, EnqueueDispatch(a, size) PROVE Throttle'
  BY <1>1, DispatchKeepsThrottle
<1>2. ASSUME NEW a \in Apps, NEW size \in Sizes, EnqueueHold(a, size) PROVE Throttle'
  BY <1>2, HoldKeepsThrottle
<1>3. CASE StartCounting
  BY <1>3, CountingKeepsThrottle
<1>4. ASSUME NEW r \in DOMAIN current, Complete(r) PROVE Throttle'
  BY <1>4, CompleteKeepsThrottle
<1>5. CASE UNCHANGED vars
  BY <1>5 DEF vars, Throttle, Types, Items, Slots, Of, NoneLeftBehind, Eligible
<1>. QED  BY <1>1, <1>2, <1>3, <1>4, <1>5 DEF Next

(* By induction over the steps. *)
LEMMA ThrottleAlways ==
  ASSUME Settings
  PROVE  Spec => []Throttle
<1>1. Init => Throttle
  BY InitThrottle
<1>2. Throttle /\ [Next]_vars => Throttle'
  BY StepThrottle
<1>. QED  BY <1>1, <1>2, PTL DEF Spec

(* Every variable of sfqd3 keeps its type. *)
THEOREM Typing3 ==
  ASSUME Settings
  PROVE  Spec => []TypeOK
<1>1. Throttle => TypeOK
  BY DEF Throttle, Types, TypeOK
<1>. QED  BY <1>1, ThrottleAlways, PTL

(* However often the differences change, and whether throughput is counted *)
(* or not: sfqd3_current_depths count each application's own requests, and *)
(* neither the DIFF_CHANGE loop of the message loop nor sfqd3_dequeue      *)
(* leaves a request behind whose application may go and has a free slot.   *)
THEOREM NothingElseDelays ==
  ASSUME Settings
  PROVE  Spec => []OnlyThrottled
<1>1. ASSUME Settings, Throttle PROVE OnlyThrottled
  <2>1. \A a \in Apps : depth[a] = Cardinality({r \in DOMAIN current : current[r].app = a})
    BY <1>1 DEF Throttle, Slots, Of
  <2>2. /\ \A r \in DOMAIN current : current[r].id = r
        /\ \A a \in Apps : \A x \in queue[a] : x.app = a /\ x.id \notin DOMAIN current
    BY <1>1 DEF Throttle, Items
  <2>. QED  BY <1>1, <2>1, <2>2 DEF Throttle, OnlyThrottled, OwnSlots
<1>. QED  BY <1>1, ThrottleAlways, PTL

(* No application has more requests at the server than sfqd3_depths allows,*)
(* although a completion releases several items at once.                   *)
THEOREM DepthsKept ==
  ASSUME Settings
  PROVE  Spec => [](\A a \in Apps : depth[a] <= Depth[a])
<1>1. Throttle => \A a \in Apps : depth[a] <= Depth[a]
  BY DEF Throttle, Slots
<1>. QED  BY <1>1, ThrottleAlways, PTL

-----------------------------------------------------------------------------
(* SFQD2: settings and counting the released requests of a class *)

(* The settings sfqd2_parse_configs accepts. *)
Settings2 ==
  /\ CCost \in [C!Class -> [Apps -> Nat]]
  /\ CLimit \in [C!Class -> Nat]
  /\ CKinds \subseteq [class : C!Class, done : C!Class]
  /\ CItems \in Nat

Held(f) == f \in [DOMAIN f -> C!Item] /\ IsFiniteSet(DOMAIN f)
In(f, c) == {r \in DOMAIN f : f[r].kind.class = c}
One(x, c) == IF x.kind.class = c THEN 1 ELSE 0

LEMMA CountsAreNat ==
  ASSUME NEW f, Held(f), NEW c
  PROVE  /\ IsFiniteSet(In(f, c)) /\ Cardinality(In(f, c)) \in Nat
         /\ Cardinality(DOMAIN f) \in Nat
<1>1. In(f, c) \subseteq DOMAIN f /\ IsFiniteSet(DOMAIN f)
  BY DEF In, Held
<1>2. IsFiniteSet(In(f, c))
  BY <1>1, FS_Subset
<1>. QED  BY <1>1, <1>2, FS_CardinalityType

LEMMA BindIsHeld ==
  ASSUME NEW f, Held(f), NEW r, NEW x \in C!Item
  PROVE  /\ Held(C!Bind(f, r, x))
         /\ DOMAIN C!Bind(f, r, x) = DOMAIN f \cup {r}
         /\ C!Bind(f, r, x)[r] = x
<1> DEFINE g == C!Bind(f, r, x)
<1>1. DOMAIN g = DOMAIN f \cup {r} /\ g[r] = x
  BY DEF C!Bind
<1>2. g \in [DOMAIN g -> C!Item]
  BY <1>1 DEF Held, C!Bind
<1>3. IsFiniteSet(DOMAIN g)
  BY <1>1, FS_AddElement DEF Held
<1>. QED  BY <1>1, <1>2, <1>3 DEF Held

LEMMA UnbindIsHeld ==
  ASSUME NEW f, Held(f), NEW r \in DOMAIN f
  PROVE  /\ Held(C!Unbind(f, r))
         /\ DOMAIN C!Unbind(f, r) = DOMAIN f \ {r}
<1>1. DOMAIN C!Unbind(f, r) = DOMAIN f \ {r}
  BY DEF C!Unbind
<1>. QED  BY <1>1, FS_RemoveElement DEF Held, C!Unbind

LEMMA BindCount ==
  ASSUME NEW f, Held(f), NEW r, r \notin DOMAIN f, NEW x \in C!Item, NEW c
  PROVE  /\ Cardinality(DOMAIN C!Bind(f, r, x)) = Cardinality(DOMAIN f) + 1
         /\ Cardinality(In(C!Bind(f, r, x), c)) = Cardinality(In(f, c)) + One(x, c)
<1> DEFINE g == C!Bind(f, r, x)
<1>1. DOMAIN g = DOMAIN f \cup {r} /\ g[r] = x /\ \A s \in DOMAIN f : g[s] = f[s]
  BY DEF C!Bind
<1> HIDE DEF g
<1>2. Cardinality(DOMAIN g) = Cardinality(DOMAIN f) + 1
  BY <1>1, FS_AddElement DEF Held
<1>3. CASE x.kind.class = c
  <2>1. In(g, c) = In(f, c) \cup {r} /\ r \notin In(f, c)
    BY <1>1, <1>3 DEF In
  <2>2. Cardinality(In(g, c)) = Cardinality(In(f, c)) + 1
    BY <2>1, CountsAreNat, FS_AddElement
  <2>. QED  BY <1>2, <1>3, <2>2 DEF One, g
<1>4. CASE x.kind.class # c
  <2>1. In(g, c) = In(f, c)
    BY <1>1, <1>4 DEF In
  <2>2. Cardinality(In(f, c)) \in Nat
    BY CountsAreNat
  <2>. QED  BY <1>2, <1>4, <2>1, <2>2 DEF One, g
<1>. QED  BY <1>3, <1>4

LEMMA UnbindCount2 ==
  ASSUME NEW f, Held(f), NEW r \in DOMAIN f, NEW c
  PROVE  /\ Cardinality(DOMAIN C!Unbind(f, r)) = Cardinality(DOMAIN f) - 1
         /\ Cardinality(In(C!Unbind(f, r), c)) = Cardinality(In(f, c)) - One(f[r], c)
<1> DEFINE g == C!Unbind(f, r)
<1>1. DOMAIN g = DOMAIN f \ {r} /\ \A s \in DOMAIN g : g[s] = f[s]
  BY DEF C!Unbind
<1> HIDE DEF g
<1>2. Cardinality(DOMAIN g) = Cardinality(DOMAIN f) - 1
  BY <1>1, FS_RemoveElement DEF Held
<1>3. IsFiniteSet(In(f, c)) /\ Cardinality(In(f, c)) \in Nat
  BY CountsAreNat
<1>4. CASE f[r].kind.class = c
  <2>1. In(g, c) = In(f, c) \ {r} /\ r \in In(f, c)
    BY <1>1, <1>4 DEF In
  <2>2. Cardinality(In(g, c)) = Cardinality(In(f, c)) - 1
    BY <1>3, <2>1, FS_RemoveElement
  <2>. QED  BY <1>2, <1>4, <2>2 DEF One, g
<1>5. CASE f[r].kind.class # c
  <2>1. In(g, c) = In(f, c)
    BY <1>1, <1>5 DEF In
  <2>. QED  BY <1>2, <1>3, <1>5, <2>1 DEF One, g
<1>. QED  BY <1>4, <1>5

-----------------------------------------------------------------------------
(* SFQD2: the inductive invariant *)

Types2 ==
  /\ cqueue \in [C!Class -> SUBSET C!Item]
  /\ ctime \in [C!Class -> Nat]
  /\ cfinish \in [C!Class -> [Apps -> Nat]]
  /\ cdepth \in [C!Class -> Int] /\ cid \in 0 .. CItems
  /\ Held(ccurrent) /\ DOMAIN ccurrent \subseteq 0 .. cid - 1
  /\ crossed \in BOOLEAN

(* No class has more than its slots. *)
Bounded == \A c \in C!Class : cdepth[c] <= CLimit[c]

Ids2 ==
  /\ \A c \in C!Class : \A x \in cqueue[c] :
       x.kind.class = c /\ x.id < cid /\ x.id \notin DOMAIN ccurrent
  /\ \A c, d \in C!Class : \A x \in cqueue[c], y \in cqueue[d] : x.id = y.id => x = y
  /\ \A r \in DOMAIN ccurrent : ccurrent[r].id = r

(* SlotsTogether and ClassesApart, with the cardinality of this module. *)
Together ==
  /\ cdepth["small"] + cdepth["large"] = Cardinality(DOMAIN ccurrent)
  /\ \A c \in C!Class : cqueue[c] # {} => cdepth[c] = CLimit[c]

Apart == ~crossed => \A c \in C!Class : cdepth[c] = Cardinality(In(ccurrent, c))

(* FiniteSets as it reaches this module through the instance C. *)
LEMMA SameCardinality == ASSUME NEW S PROVE C!Cardinality(S) = Cardinality(S)
BY DEF C!Cardinality, Cardinality, C!IsFiniteSet, IsFiniteSet

Inv2 == Types2 /\ Bounded /\ Ids2 /\ Together /\ Apart

LEMMA InitInv2 ==
  ASSUME Settings2, C!Init
  PROVE  Inv2
<1>1. DOMAIN ccurrent = {} /\ ccurrent \in [DOMAIN ccurrent -> C!Item]
  BY DEF C!Init
<1>2. Held(ccurrent)
  BY <1>1, FS_EmptySet DEF Held
<1>3. /\ cqueue \in [C!Class -> SUBSET C!Item] /\ ctime \in [C!Class -> Nat]
      /\ cfinish \in [C!Class -> [Apps -> Nat]] /\ cdepth \in [C!Class -> Int]
      /\ cid \in 0 .. CItems
  BY DEF C!Init, Settings2
<1>4. crossed \in BOOLEAN
  BY Zenon DEF C!Init
<1>5. Types2
  BY <1>1, <1>2, <1>3, <1>4 DEF Types2
<1>6. \A c \in C!Class : cdepth[c] = 0 /\ cqueue[c] = {}
  BY DEF C!Init
<1>7. "small" \in C!Class /\ "large" \in C!Class
  BY DEF C!Class
<1>8. \A c \in C!Class : In(ccurrent, c) = {}
  BY <1>1 DEF In
<1>9. Bounded /\ Ids2
  BY <1>1, <1>6 DEF Bounded, Ids2, Settings2
<1>10. Together
  BY <1>1, <1>6, <1>7, FS_EmptySet DEF Together
<1>11. Apart
  BY <1>6, <1>8, FS_EmptySet DEF Apart
<1>. QED  BY <1>5, <1>9, <1>10, <1>11 DEF Inv2

-----------------------------------------------------------------------------
(* SFQD2: the steps *)

LEMMA NewArrives2 ==
  ASSUME Settings2, Inv2, NEW a \in Apps, NEW kind \in CKinds, C!Arrive(a, kind)
  PROVE  /\ kind.class \in C!Class /\ C!NewItem(a, kind) \in C!Item
         /\ C!NewItem(a, kind).id = cid /\ C!NewItem(a, kind).kind = kind
         /\ cfinish' \in [C!Class -> [Apps -> Nat]]
         /\ cid' = cid + 1 /\ cid' \in 0 .. CItems
         /\ crossed' = crossed
<1> DEFINE c == kind.class
<1> DEFINE new == C!NewItem(a, kind)
<1>1. /\ c \in C!Class /\ ctime[c] \in Nat /\ cfinish[c][a] \in Nat
      /\ CCost[c][a] \in Nat /\ cid \in 0 .. CItems
      /\ cfinish \in [C!Class -> [Apps -> Nat]] /\ CItems \in Nat
  BY DEF Inv2, Types2, Settings2
<1>2. /\ new.id = cid /\ new.kind = kind /\ new.app = a
      /\ new.start = C!Later(ctime[c], cfinish[c][a])
      /\ new.finish = new.start + CCost[c][a]
  BY DEF C!NewItem
<1>3. new.start \in Nat /\ new.finish \in Nat
  BY <1>1, <1>2 DEF C!Later
<1>4. new \in C!Item
  BY <1>1, <1>3 DEF C!NewItem, C!Item
<1>5. /\ cid' = cid + 1 /\ cid < CItems /\ crossed' = crossed
      /\ cfinish' = [cfinish EXCEPT ![c][a] = new.finish]
  BY DEF C!Arrive
<1> HIDE DEF new
<1>6. cfinish' \in [C!Class -> [Apps -> Nat]]
  BY <1>1, <1>3, <1>5
<1>. QED  BY <1>1, <1>2, <1>4, <1>5, <1>6 DEF new

(* A slot of its class is free, so nothing waits in that class and the     *)
(* head is the new item.                                                   *)
LEMMA DispatchKeeps2 ==
  ASSUME Settings2, Inv2, NEW a \in Apps, NEW kind \in CKinds,
         C!EnqueueDispatch(a, kind)
  PROVE  Inv2'
<1> DEFINE c == kind.class
<1> DEFINE new == C!NewItem(a, kind)
<1>1. /\ cdepth[c] < CLimit[c] /\ C!Arrive(a, kind)
      /\ cdepth' = [cdepth EXCEPT ![c] = @ + 1]
      /\ \E h \in cqueue[c] \cup {new} :
           /\ C!Take(h, c, cqueue[c] \cup {new})
           /\ ccurrent' = C!Bind(ccurrent, cid, h)
  BY DEF C!EnqueueDispatch
<1>2. /\ c \in C!Class /\ new \in C!Item /\ new.id = cid /\ new.kind.class = c
      /\ cfinish' \in [C!Class -> [Apps -> Nat]]
      /\ cid' = cid + 1 /\ cid' \in 0 .. CItems
      /\ crossed' = crossed
  BY <1>1, NewArrives2
<1> HIDE DEF c, new
<1>3. /\ Types2 /\ Bounded /\ Ids2 /\ Together /\ Apart
      /\ cdepth \in [C!Class -> Int] /\ CLimit \in [C!Class -> Nat]
      /\ cqueue \in [C!Class -> SUBSET C!Item] /\ ctime \in [C!Class -> Nat]
      /\ Held(ccurrent) /\ cid \in Nat /\ DOMAIN ccurrent \subseteq 0 .. cid - 1
      /\ {"small", "large"} = C!Class /\ crossed \in BOOLEAN
  BY DEF Inv2, Types2, Settings2, C!Class
<1>4. cqueue[c] = {} /\ cdepth[c] \in Int /\ CLimit[c] \in Nat
  BY <1>1, <1>2, <1>3 DEF Together
<1>5. /\ ccurrent' = C!Bind(ccurrent, cid, new)
      /\ cqueue' = [cqueue EXCEPT ![c] = {}]
      /\ ctime' = [ctime EXCEPT ![c] = new.start]
  <2>1. PICK h \in cqueue[c] \cup {new} : /\ C!Take(h, c, cqueue[c] \cup {new})
                                         /\ ccurrent' = C!Bind(ccurrent, cid, h)
    BY <1>1
  <2>2. h = new /\ (cqueue[c] \cup {new}) \ {h} = {}
    BY <1>4
  <2>. QED  BY <2>1, <2>2 DEF C!Take
<1>6. cqueue' = cqueue
  BY <1>2, <1>3, <1>4, <1>5
<1>7. cid \notin DOMAIN ccurrent
  BY <1>3
<1>8. /\ Held(ccurrent') /\ DOMAIN ccurrent' = DOMAIN ccurrent \cup {cid}
      /\ ccurrent'[cid] = new
  <2>1. Held(ccurrent) /\ new \in C!Item /\ ccurrent' = C!Bind(ccurrent, cid, new)
    BY <1>2, <1>3, <1>5
  <2>. QED  BY <2>1, BindIsHeld
<1>9. \A s \in DOMAIN ccurrent : ccurrent'[s] = ccurrent[s]
  BY <1>5, <1>7 DEF C!Bind
<1>10. ASSUME NEW d \in C!Class
       PROVE  /\ Cardinality(DOMAIN ccurrent') = Cardinality(DOMAIN ccurrent) + 1
              /\ Cardinality(In(ccurrent', d)) =
                   Cardinality(In(ccurrent, d)) + One(new, d)
  <2>1. /\ Held(ccurrent) /\ cid \notin DOMAIN ccurrent /\ new \in C!Item
        /\ ccurrent' = C!Bind(ccurrent, cid, new)
    BY <1>2, <1>3, <1>5, <1>7
  <2>. QED  BY <2>1, BindCount
<1>11. Types2'
  <2>1. ctime' \in [C!Class -> Nat]
    BY <1>2, <1>3, <1>5 DEF C!Item
  <2>2. cdepth' \in [C!Class -> Int]
    BY <1>1, <1>2, <1>3, <1>4
  <2>3. DOMAIN ccurrent' \subseteq 0 .. cid' - 1
    BY <1>2, <1>3, <1>8
  <2>. QED  BY <1>2, <1>3, <1>6, <1>8, <2>1, <2>2, <2>3 DEF Types2
<1>12. Bounded'
  BY <1>1, <1>2, <1>3, <1>4 DEF Bounded
<1>13. Ids2'
  <2>1. \A d \in C!Class : \A x \in cqueue[d] : x.id # cid
    BY <1>3 DEF Ids2
  <2>. QED  BY <1>2, <1>3, <1>6, <1>8, <1>9, <2>1 DEF Ids2, C!Item
<1>14. Together'
  <2>1. /\ Cardinality(DOMAIN ccurrent) \in Nat
        /\ cdepth["small"] \in Int /\ cdepth["large"] \in Int
    BY <1>3, CountsAreNat
  <2>2. cdepth'["small"] + cdepth'["large"] = cdepth["small"] + cdepth["large"] + 1
    <3>1. CASE c = "small"
      BY <1>1, <1>3, <2>1, <3>1
    <3>2. CASE c = "large"
      BY <1>1, <1>3, <2>1, <3>2
    <3>. QED  BY <1>2, <1>3, <3>1, <3>2
  <2>3. \A d \in C!Class : cqueue'[d] # {} => cdepth'[d] = CLimit[d]
    BY <1>1, <1>3, <1>4, <1>6 DEF Together
  <2>. QED  BY <1>2, <1>3, <1>10, <2>1, <2>2, <2>3 DEF Together
<1>15. Apart'
  <2> SUFFICES ASSUME ~crossed, NEW d \in C!Class
               PROVE  cdepth'[d] = Cardinality(In(ccurrent', d))
    BY <1>2 DEF Apart, In
  <2>1. cdepth[d] = Cardinality(In(ccurrent, d)) /\ cdepth[d] \in Int
    BY <1>3 DEF Apart, In
  <2>2. cdepth'[d] = cdepth[d] + One(new, d)
    BY <1>1, <1>2, <1>3 DEF One
  <2>. QED  BY <1>10, <2>1, <2>2
<1>. QED  BY <1>11, <1>12, <1>13, <1>14, <1>15 DEF Inv2

(* The class is full; the new item joins those that wait in it. *)
LEMMA HoldKeeps2 ==
  ASSUME Settings2, Inv2, NEW a \in Apps, NEW kind \in CKinds,
         C!EnqueueHold(a, kind)
  PROVE  Inv2'
<1> DEFINE c == kind.class
<1> DEFINE new == C!NewItem(a, kind)
<1>1. /\ cdepth[c] >= CLimit[c] /\ C!Arrive(a, kind)
      /\ cqueue' = [cqueue EXCEPT ![c] = @ \cup {new}]
      /\ ctime' = ctime /\ cdepth' = cdepth /\ ccurrent' = ccurrent
  BY DEF C!EnqueueHold
<1>2. /\ c \in C!Class /\ new \in C!Item /\ new.id = cid /\ new.kind.class = c
      /\ cfinish' \in [C!Class -> [Apps -> Nat]]
      /\ cid' = cid + 1 /\ cid' \in 0 .. CItems
      /\ crossed' = crossed
  BY <1>1, NewArrives2
<1> HIDE DEF c, new
<1>3. /\ Types2 /\ Bounded /\ Ids2 /\ Together /\ Apart
      /\ cdepth \in [C!Class -> Int] /\ CLimit \in [C!Class -> Nat]
      /\ cqueue \in [C!Class -> SUBSET C!Item] /\ ctime \in [C!Class -> Nat]
      /\ Held(ccurrent) /\ cid \in Nat /\ DOMAIN ccurrent \subseteq 0 .. cid - 1
      /\ crossed \in BOOLEAN
  BY DEF Inv2, Types2, Settings2
<1>4. cdepth[c] = CLimit[c]
  <2>1. cdepth[c] <= CLimit[c] /\ cdepth[c] \in Int /\ CLimit[c] \in Nat
    BY <1>2, <1>3 DEF Bounded
  <2>. QED  BY <1>1, <2>1
<1>5. cqueue' \in [C!Class -> SUBSET C!Item]
  BY <1>1, <1>2, <1>3
<1>6. Types2'
  <2>1. DOMAIN ccurrent' \subseteq 0 .. cid' - 1
    BY <1>1, <1>2, <1>3
  <2>. QED  BY <1>1, <1>2, <1>3, <1>5, <2>1 DEF Types2
<1>7. \A d \in C!Class : \A x \in cqueue'[d] : x \in cqueue[d] \/ (d = c /\ x = new)
  BY <1>1, <1>2, <1>3
<1>8. Ids2'
  <2>1. \A d \in C!Class : \A x \in cqueue[d] : x.id \in Nat /\ x.id < cid
    BY <1>3 DEF Ids2, C!Item
  <2>2. cid \notin DOMAIN ccurrent
    BY <1>3
  <2>3. \A d \in C!Class : \A x \in cqueue'[d] :
          x.kind.class = d /\ x.id < cid' /\ x.id \notin DOMAIN ccurrent'
    BY <1>1, <1>2, <1>3, <1>7, <2>1, <2>2 DEF Ids2
  <2>4. \A d, e \in C!Class : \A x \in cqueue'[d], y \in cqueue'[e] :
          x.id = y.id => x = y
    BY <1>2, <1>3, <1>7, <2>1 DEF Ids2
  <2>. QED  BY <1>1, <1>3, <2>3, <2>4 DEF Ids2
<1>9. Together'
  BY <1>1, <1>2, <1>3, <1>4, <1>7 DEF Together
<1>10. Bounded' /\ Apart'
  BY <1>1, <1>2, <1>3 DEF Bounded, Apart
<1>. QED  BY <1>6, <1>8, <1>9, <1>10 DEF Inv2

(* The slot goes over: no depth changes, and the item taken is of the class *)
(* reported with the completion.                                           *)
LEMMA CompleteDispatchKeeps2 ==
  ASSUME Settings2, Inv2, NEW r \in DOMAIN ccurrent, C!CompleteDispatch(r)
  PROVE  Inv2'
<1> DEFINE d == ccurrent[r].kind.done
<1>1. PICK h \in cqueue[d] : /\ C!Take(h, d, cqueue[d])
                            /\ ccurrent' = C!Bind(C!Unbind(ccurrent, r), h.id, h)
  BY DEF C!CompleteDispatch
<1>2. /\ crossed' = (crossed \/ d # ccurrent[r].kind.class)
      /\ cfinish' = cfinish /\ cdepth' = cdepth /\ cid' = cid
  BY Zenon DEF C!CompleteDispatch
<1> DEFINE f == C!Unbind(ccurrent, r)
<1> HIDE DEF f
<1>3. /\ Types2 /\ Bounded /\ Ids2 /\ Together /\ Apart
      /\ cqueue \in [C!Class -> SUBSET C!Item] /\ ctime \in [C!Class -> Nat]
      /\ Held(ccurrent) /\ cid \in Nat /\ DOMAIN ccurrent \subseteq 0 .. cid - 1
      /\ crossed \in BOOLEAN /\ cdepth \in [C!Class -> Int]
  BY DEF Inv2, Types2
<1>4. ccurrent[r] \in C!Item /\ d \in C!Class /\ ccurrent[r].kind.class \in C!Class
  BY <1>3 DEF Held, C!Item, Settings2
<1> HIDE DEF d
<1>5. h \in C!Item /\ h.kind.class = d /\ h.id \notin DOMAIN ccurrent
      /\ h.id \in Nat /\ h.id < cid
  <2>1. h \in C!Item
    BY <1>1, <1>3, <1>4
  <2>. QED  BY <1>1, <1>3, <1>4, <2>1 DEF Ids2, C!Item
<1>6. /\ cqueue' = [cqueue EXCEPT ![d] = cqueue[d] \ {h}]
      /\ ctime' = [ctime EXCEPT ![d] = h.start]
  BY <1>1 DEF C!Take
<1>7. Held(f) /\ DOMAIN f = DOMAIN ccurrent \ {r} /\ \A s \in DOMAIN f : f[s] = ccurrent[s]
  <2>1. Held(f) /\ DOMAIN f = DOMAIN ccurrent \ {r}
    BY <1>3, UnbindIsHeld DEF f
  <2>. QED  BY <2>1 DEF f, C!Unbind
<1>8. ccurrent' = C!Bind(f, h.id, h) /\ h.id \notin DOMAIN f
  BY <1>1, <1>5, <1>7 DEF f
<1>9. /\ Held(ccurrent') /\ DOMAIN ccurrent' = DOMAIN f \cup {h.id}
      /\ ccurrent'[h.id] = h
  <2>1. Held(f) /\ h \in C!Item
    BY <1>5, <1>7
  <2>2. ASSUME NEW s
        PROVE  /\ Held(C!Bind(f, s, h)) /\ DOMAIN C!Bind(f, s, h) = DOMAIN f \cup {s}
               /\ C!Bind(f, s, h)[s] = h
    BY <2>1, BindIsHeld
  <2>. QED  BY <1>8, <2>2
<1>10. \A s \in DOMAIN f : ccurrent'[s] = f[s]
  BY <1>8 DEF C!Bind
<1>11. ASSUME NEW e \in C!Class
       PROVE  /\ Cardinality(DOMAIN ccurrent') = Cardinality(DOMAIN ccurrent)
              /\ Cardinality(In(ccurrent', e)) =
                   Cardinality(In(ccurrent, e)) - One(ccurrent[r], e) + One(h, e)
  <2>1. /\ Cardinality(DOMAIN f) = Cardinality(DOMAIN ccurrent) - 1
        /\ Cardinality(In(f, e)) = Cardinality(In(ccurrent, e)) - One(ccurrent[r], e)
    BY <1>3, UnbindCount2 DEF f
  <2>2. /\ Held(f) /\ h.id \notin DOMAIN f /\ h \in C!Item
        /\ ccurrent' = C!Bind(f, h.id, h)
    BY <1>5, <1>7, <1>8
  <2>3. /\ Cardinality(DOMAIN ccurrent') = Cardinality(DOMAIN f) + 1
        /\ Cardinality(In(ccurrent', e)) = Cardinality(In(f, e)) + One(h, e)
    BY <2>2, BindCount
  <2>4. Cardinality(DOMAIN ccurrent) \in Nat
    BY <1>3, CountsAreNat
  <2>. QED  BY <2>1, <2>3, <2>4
<1>12. \A e \in C!Class : cqueue'[e] \subseteq cqueue[e]
  BY <1>3, <1>4, <1>6
<1>13. Types2'
  <2>1. cqueue' \in [C!Class -> SUBSET C!Item]
    BY <1>3, <1>4, <1>6
  <2>2. ctime' \in [C!Class -> Nat]
    BY <1>3, <1>4, <1>5, <1>6 DEF C!Item
  <2>3. DOMAIN ccurrent' \subseteq 0 .. cid - 1
    BY <1>3, <1>5, <1>7, <1>9
  <2>4. crossed' \in BOOLEAN
    BY <1>2, <1>3
  <2>. QED  BY <1>2, <1>3, <1>9, <2>1, <2>2, <2>3, <2>4 DEF Types2
<1>14. Ids2'
  <2>1. h \notin cqueue'[d]
    BY <1>3, <1>4, <1>6
  <2>2. \A e \in C!Class : \A x \in cqueue'[e] : x.id # h.id
    <3> SUFFICES ASSUME NEW e \in C!Class, NEW x \in cqueue'[e], x.id = h.id
                 PROVE  FALSE
      OBVIOUS
    <3>1. x \in cqueue[e] /\ x = h
      BY <1>1, <1>3, <1>4, <1>12 DEF Ids2
    <3>2. e = d
      BY <1>3, <1>5, <3>1 DEF Ids2
    <3>. QED  BY <2>1, <3>1, <3>2
  <2>3. \A s \in DOMAIN ccurrent' : ccurrent'[s].id = s
    BY <1>3, <1>7, <1>9, <1>10 DEF Ids2
  <2>. QED  BY <1>2, <1>3, <1>7, <1>9, <1>12, <2>2, <2>3 DEF Ids2
<1>15. Together'
  BY <1>2, <1>3, <1>4, <1>11, <1>12 DEF Together
<1>16. Apart'
  <2> SUFFICES ASSUME ~crossed', NEW e \in C!Class
               PROVE  cdepth[e] = Cardinality(In(ccurrent', e))
    BY <1>2 DEF Apart, In
  <2>1. ~crossed /\ ccurrent[r].kind.class = d
    BY <1>2, <1>3
  <2>2. One(ccurrent[r], e) = One(h, e) /\ One(h, e) \in Int
    BY <1>5, <2>1 DEF One
  <2>3. cdepth[e] = Cardinality(In(ccurrent, e)) /\ cdepth[e] \in Int
    BY <1>3, <2>1 DEF Apart, In
  <2>. QED  BY <1>11, <2>2, <2>3
<1>17. Bounded'
  BY <1>2, <1>3 DEF Bounded
<1>. QED  BY <1>13, <1>14, <1>15, <1>16, <1>17 DEF Inv2

(* Nothing waits in the reported class: its depth goes down. *)
LEMMA CompleteIdleKeeps2 ==
  ASSUME Settings2, Inv2, NEW r \in DOMAIN ccurrent, C!CompleteIdle(r)
  PROVE  Inv2'
<1> DEFINE d == ccurrent[r].kind.done
<1>1. /\ cqueue[d] = {} /\ cdepth' = [cdepth EXCEPT ![d] = @ - 1]
      /\ ccurrent' = C!Unbind(ccurrent, r)
      /\ cqueue' = cqueue /\ ctime' = ctime
      /\ cfinish' = cfinish /\ cid' = cid
  BY DEF C!CompleteIdle
<1>2. crossed' = (crossed \/ d # ccurrent[r].kind.class)
  BY Zenon DEF C!CompleteIdle
<1>3. /\ Types2 /\ Bounded /\ Ids2 /\ Together /\ Apart
      /\ Held(ccurrent) /\ cid \in Nat /\ DOMAIN ccurrent \subseteq 0 .. cid - 1
      /\ crossed \in BOOLEAN /\ cdepth \in [C!Class -> Int] /\ CLimit \in [C!Class -> Nat]
      /\ {"small", "large"} = C!Class
  BY DEF Inv2, Types2, Settings2, C!Class
<1>4. ccurrent[r] \in C!Item /\ d \in C!Class /\ ccurrent[r].kind.class \in C!Class
  BY <1>3 DEF Held, C!Item, Settings2
<1> HIDE DEF d
<1>5. Held(ccurrent') /\ DOMAIN ccurrent' = DOMAIN ccurrent \ {r}
  <2>1. Held(ccurrent) /\ ccurrent' = C!Unbind(ccurrent, r)
    BY <1>1, <1>3
  <2>. QED  BY <2>1, UnbindIsHeld
<1>6. \A s \in DOMAIN ccurrent' : ccurrent'[s] = ccurrent[s]
  BY <1>1 DEF C!Unbind
<1>7. ASSUME NEW e \in C!Class
      PROVE  /\ Cardinality(DOMAIN ccurrent') = Cardinality(DOMAIN ccurrent) - 1
             /\ Cardinality(In(ccurrent', e)) =
                  Cardinality(In(ccurrent, e)) - One(ccurrent[r], e)
  BY <1>1, <1>3, UnbindCount2
<1>8. cdepth' \in [C!Class -> Int] /\ \A e \in C!Class :
        cdepth'[e] = IF e = d THEN cdepth[e] - 1 ELSE cdepth[e]
  <2>1. cdepth[d] - 1 \in Int
    BY <1>3, <1>4
  <2>. QED  BY <1>1, <1>3, <1>4, <2>1
<1>9. Types2'
  <2>1. crossed' \in BOOLEAN
    BY <1>2, <1>3
  <2>. QED  BY <1>1, <1>3, <1>5, <1>8, <2>1 DEF Types2
<1>10. Ids2'
  BY <1>1, <1>3, <1>5, <1>6 DEF Ids2
<1>11. Bounded'
  <2> SUFFICES ASSUME NEW e \in C!Class
               PROVE  cdepth'[e] <= CLimit[e]
    BY DEF Bounded
  <2>1. cdepth[e] <= CLimit[e] /\ cdepth[e] \in Int /\ CLimit[e] \in Nat
    BY <1>3 DEF Bounded
  <2>. QED  BY <1>8, <2>1
<1>12. Together'
  <2>1. /\ cdepth["small"] \in Int /\ cdepth["large"] \in Int
        /\ "small" \in C!Class /\ "large" \in C!Class /\ "small" # "large"
    BY <1>3
  <2>2. cdepth'["small"] + cdepth'["large"] = cdepth["small"] + cdepth["large"] - 1
    <3>1. CASE d = "small"
      BY <1>8, <2>1, <3>1
    <3>2. CASE d = "large"
      BY <1>8, <2>1, <3>2
    <3>. QED  BY <1>3, <1>4, <3>1, <3>2
  <2>3. cdepth["small"] + cdepth["large"] = Cardinality(DOMAIN ccurrent)
    BY <1>3 DEF Together
  <2>4. cdepth'["small"] + cdepth'["large"] = Cardinality(DOMAIN ccurrent')
    <3>1. Cardinality(DOMAIN ccurrent') = Cardinality(DOMAIN ccurrent) - 1
      BY <1>4, <1>7
    <3>. QED  BY <2>1, <2>2, <2>3, <3>1
  <2>5. \A e \in C!Class : cqueue'[e] # {} => cdepth'[e] = CLimit[e]
    BY <1>1, <1>3, <1>8 DEF Together
  <2>. QED  BY <2>4, <2>5 DEF Together
<1>13. Apart'
  <2> SUFFICES ASSUME ~crossed', NEW e \in C!Class
               PROVE  cdepth'[e] = Cardinality(In(ccurrent', e))
    BY DEF Apart, In
  <2>1. ~crossed /\ ccurrent[r].kind.class = d
    BY <1>2, <1>3
  <2>2. cdepth[e] = Cardinality(In(ccurrent, e)) /\ cdepth[e] \in Int
    BY <1>3, <2>1 DEF Apart, In
  <2>3. cdepth'[e] = cdepth[e] - One(ccurrent[r], e)
    BY <1>8, <2>1, <2>2 DEF One
  <2>. QED  BY <1>7, <2>2, <2>3
<1>. QED  BY <1>9, <1>10, <1>11, <1>12, <1>13 DEF Inv2

LEMMA StepKeeps2 ==
  ASSUME Settings2, Inv2, [C!Next]_(C!vars)
  PROVE  Inv2'
<1>1. CASE \E a \in Apps, kind \in CKinds : C!EnqueueDispatch(a, kind)
  BY <1>1, DispatchKeeps2
<1>2. CASE \E a \in Apps, kind \in CKinds : C!EnqueueHold(a, kind)
  BY <1>2, HoldKeeps2
<1>3. CASE \E r \in DOMAIN ccurrent : C!CompleteDispatch(r)
  BY <1>3, CompleteDispatchKeeps2
<1>4. CASE \E r \in DOMAIN ccurrent : C!CompleteIdle(r)
  BY <1>4, CompleteIdleKeeps2
<1>5. CASE UNCHANGED C!vars
  BY <1>5 DEF Inv2, Types2, Held, Bounded, Ids2, Together, Apart, In, C!vars
<1>. QED  BY <1>1, <1>2, <1>3, <1>4, <1>5 DEF C!Next

LEMMA Invariance2 ==
  ASSUME Settings2
  PROVE  C!Spec => []Inv2
<1>1. C!Init => Inv2
  BY InitInv2
<1>2. Inv2 /\ [C!Next]_(C!vars) => Inv2'
  BY StepKeeps2
<1>. QED  BY <1>1, <1>2, PTL DEF C!Spec

-----------------------------------------------------------------------------
(* SFQD2: the theorems *)

(* Every variable of sfqd2 keeps its type; a depth may fall below zero.    *)
THEOREM Typing2 ==
  ASSUME Settings2
  PROVE  C!Spec => []C!TypeOK
<1>1. Inv2 => C!TypeOK
  BY DEF Inv2, Types2, Held, C!TypeOK
<1>. QED  BY <1>1, Invariance2, PTL

(* Whatever sizes sfqd2_dequeue is told with completions, the depths of    *)
(* the two classes together count the requests at the server, nothing      *)
(* waits in a class with a free slot, and every request carries its own    *)
(* item; with completions in the right class each depth counts its own.    *)
THEOREM ClassesAlwaysSound ==
  ASSUME Settings2
  PROVE  C!Spec => []ClassesSound
<1>1. ASSUME Inv2 PROVE ClassesSound
  <2>1. C!SlotsTogether
    BY <1>1, SameCardinality DEF Inv2, Together, C!SlotsTogether
  <2>2. C!ClassesApart
    BY <1>1, SameCardinality DEF Inv2, Apart, In, C!ClassesApart, C!InClass
  <2>3. C!OwnItem
    BY <1>1 DEF Inv2, Ids2, C!OwnItem
  <2>. QED  BY <2>1, <2>2, <2>3 DEF ClassesSound, C!ClassesSound
<1>. QED  BY <1>1, Invariance2, PTL

(* A class never has more than sfqd2_depth_small or sfqd2_depth_large of   *)
(* its counter used, even after completions reported in the other class.   *)
THEOREM DepthsBounded ==
  ASSUME Settings2
  PROVE  C!Spec => []Bounded
<1>1. Inv2 => Bounded
  BY DEF Inv2
<1>. QED  BY <1>1, Invariance2, PTL

-----------------------------------------------------------------------------
(* 2LSFQD: the instance is the one TwoLSFQD_proofs speaks of *)

TP == INSTANCE TwoLSFQD_proofs WITH Sizes <- TSizes, MaxRequests <- TItems

(* T and TP are instances of one module with the same values. *)
LEMMA SameSpec == T!Spec => TP!Spec
<1>1. T!Init => TP!Init
  BY DEF T!Init, TP!Init, T!AppIds, TP!AppIds
<1>2. T!vars = TP!vars
  BY DEF T!vars, TP!vars
<1>3. T!Work => TP!Work
  <2>1. ASSUME NEW a \in T!AppIds, T!Admit(a) PROVE TP!Admit(a)
    BY <2>1 DEF T!Admit, TP!Admit, T!Chosen, TP!Chosen, T!HasCredit, TP!HasCredit,
       T!EdfDequeueAll, TP!EdfDequeueAll, T!Due, TP!Due, T!Least, TP!Least,
       T!Spare, TP!Spare, T!Drain, TP!Drain, T!Enqueued, TP!Enqueued, T!AppIds, TP!AppIds
  <2>2. T!EndEnqueue => TP!EndEnqueue
    BY DEF T!EndEnqueue, TP!EndEnqueue
  <2>3. T!EndDrain => TP!EndDrain
    BY DEF T!EndDrain, TP!EndDrain, T!HasCredit, TP!HasCredit, T!Drain, TP!Drain,
       T!AppIds, TP!AppIds
  <2>4. T!EndArrive => TP!EndArrive
    BY DEF T!EndArrive, TP!EndArrive
  <2>5. T!ServeEdf => TP!ServeEdf
    BY DEF T!ServeEdf, TP!ServeEdf, T!EdfDequeueAll, TP!EdfDequeueAll, T!Due, TP!Due,
       T!Least, TP!Least, T!Spare, TP!Spare, T!Drain, TP!Drain, T!Serve, TP!Serve
  <2>. QED  BY <2>1, <2>2, <2>3, <2>4, <2>5 DEF T!Work, TP!Work, T!AppIds, TP!AppIds
<1>4. ASSUME NEW a \in T!AppIds, NEW conn \in Conns, NEW size \in TSizes,
             T!Arrive(a, conn, size)
      PROVE  TP!Arrive(a, conn, size)
  BY <1>4 DEF T!Arrive, TP!Arrive, T!Spare, TP!Spare, T!MutexFree, TP!MutexFree,
     T!Drain, TP!Drain, T!Arrived, TP!Arrived, T!Waiting, TP!Waiting, T!Range, TP!Range,
     T!AppIds, TP!AppIds
<1>5. ASSUME NEW x \in unlocked, T!Complete(x) PROVE TP!Complete(x)
  BY <1>5 DEF T!Complete, TP!Complete, T!MutexFree, TP!MutexFree,
     T!EdfDequeueAll, TP!EdfDequeueAll, T!Due, TP!Due, T!Least, TP!Least,
     T!Spare, TP!Spare, T!Drain, TP!Drain
<1>6. T!Replenish => TP!Replenish
  BY DEF T!Replenish, TP!Replenish, T!MutexFree, TP!MutexFree, T!Drain, TP!Drain
<1>7. ASSUME NEW limit \in 1 .. Infinite, NEW overload \in BOOLEAN, T!Window(limit, overload)
      PROVE  TP!Window(limit, overload)
  BY <1>7 DEF T!Window, TP!Window, T!MutexFree, TP!MutexFree, T!Spare, TP!Spare,
     T!Drain, TP!Drain, T!Serve, TP!Serve
<1>8. T!Pass => TP!Pass
  BY DEF T!Pass, TP!Pass, T!MutexFree, TP!MutexFree
<1>9. T!Next => TP!Next
  BY <1>3, <1>4, <1>5, <1>6, <1>7, <1>8 DEF T!Next, TP!Next, T!AppIds, TP!AppIds
<1>10. [T!Next]_(T!vars) => [TP!Next]_(TP!vars)
  BY <1>9 DEF T!vars, TP!vars
<1>. QED  BY <1>1, <1>10, PTL DEF T!Spec, TP!Spec

LEMMA SameWaiting == T!Waiting = TP!Waiting
BY DEF T!Waiting, TP!Waiting, T!Range, TP!Range, T!AppIds, TP!AppIds

(* However the three threads of 2LSFQD take turns with the mutex and the   *)
(* two levels call each other: the queue length is the number of requests  *)
(* let go and not answered, and neither level holds back what it could let *)
(* go when the mutex is free.                                              *)
THEOREM TwoLevelsAgree ==
  ASSUME TP!Settings
  PROVE  T!Spec => []TwoLevels
<1>1. TP!LetGoCounted => T!LetGoCounted
  BY SameWaiting DEF T!LetGoCounted, TP!LetGoCounted, T!Cardinality, TP!Cardinality,
     T!IsFiniteSet, TP!IsFiniteSet
<1>2. TP!NothingHeldBack => T!NothingHeldBack
  BY DEF T!NothingHeldBack, TP!NothingHeldBack, T!MutexFree, TP!MutexFree,
     T!HasCredit, TP!HasCredit, T!AppIds, TP!AppIds
<1>3. TP!LetGoCounted /\ TP!NothingHeldBack => TwoLevels
  BY <1>1, <1>2 DEF TwoLevels
<1>. QED  BY <1>3, SameSpec, TP!CountedWhenLetGo, TP!HeldBackInTime, PTL

(* The typing of 2LSFQD, carried over. *)
LEMMA TypingT ==
  ASSUME TP!Settings
  PROVE  T!Spec => []T!TypeOK
<1>1. TP!TypeOK => T!TypeOK
  BY DEF T!TypeOK, TP!TypeOK, T!Range, TP!Range, T!Item, TP!Item, T!AppIds, TP!AppIds
<1>. QED  BY <1>1, SameSpec, TP!Typing, PTL

-----------------------------------------------------------------------------
(* The three plug-ins side by side *)

(* Every variable of the three plug-ins keeps its type. *)
THEOREM AllTyped ==
  ASSUME Settings, Settings2, TP!Settings
  PROVE  MCSpec => []TypesOK
<1>1. MCInit => Init /\ C!Init /\ T!Init
  BY DEF MCInit
<1>2. [MCNext]_allVars => [Next]_vars /\ [C!Next]_(C!vars) /\ [T!Next]_(T!vars)
  <2>1. CASE MCNext
    BY <2>1 DEF MCNext, vars, cvars, tvars, C!vars, T!vars
  <2>2. CASE UNCHANGED allVars
    BY <2>2 DEF allVars, vars, cvars, tvars, C!vars, T!vars
  <2>. QED  BY <2>1, <2>2
<1>3. MCSpec => Spec /\ C!Spec /\ T!Spec
  BY <1>1, <1>2, PTL DEF MCSpec, Spec, C!Spec, T!Spec
<1>4. TypeOK /\ C!TypeOK /\ T!TypeOK => TypesOK
  BY DEF TypesOK
<1>. QED  BY <1>3, <1>4, Typing3, Typing2, TypingT, PTL

=============================================================================
