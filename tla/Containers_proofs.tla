-------------------------- MODULE Containers_proofs --------------------------
(***************************************************************************)
(* Proofs about the socket pool, for every capacity and any number of      *)
(* clients; about the locations of clients, the thresholds of time windows *)
(* and the share of a request, for every input; about the sort, for every  *)
(* list; about the heap, for any keys and any series of operations; and    *)
(* about the model that holds them all.                                    *)
(***************************************************************************)
EXTENDS MCContainers, FiniteSetTheorems, WellFoundedInduction, TLAPS

-----------------------------------------------------------------------------
(* The inductive invariant *)

(* The table holds the listening socket and pairs, and the memory is only  *)
(* ever doubled once.                                                      *)
Types ==
  /\ slots \in [Indices -> Entry]
  /\ allocated \in {Capacity, 2 * Capacity}
  /\ allocated = Capacity => size <= Capacity
  /\ size \in Nat /\ size % 2 = 1
  /\ conns \in 0 .. MaxConns /\ size <= 2 * conns + 1
  /\ open \subseteq Nat /\ disturbed \subseteq Disturbances

(* Clients are at odd indices, and no two of their sockets have one        *)
(* number; all numbers given so far are below that of the next client.     *)
Numbers ==
  /\ slots[0].fd = 1
  /\ \A i \in 1 .. size - 1 : slots[i].fd % 2 # i % 2
  /\ \A i \in 0 .. size - 1 : slots[i].fd < 2 * (conns + 1)

(* What is left in the unused entries is not in the middle of a message.   *)
Unused == \A i \in Indices : i >= size => slots[i].receiving \in {0, Unset}

Paired == PairsIntact /\ AllPolled /\ Numbers
Apart == OwnMessage /\ Unused

Inv ==
  /\ Types
  /\ disturbed \subseteq {"message"} => Paired
  /\ disturbed = {} => Apart

LEMMA InUse ==
  ASSUME Types
  PROVE  /\ \A j \in 0 .. size - 1 : j \in Indices
         /\ Indices \subseteq Nat /\ 0 \in Indices
BY PoolAssumption DEF Types, Indices

LEMMA UnsetIs == Unset \in {0, 1}
BY PoolAssumption DEF Unset

LEMMA MemoryIsEnough == Types => MemoryEnough
BY PoolAssumption DEF Types, MemoryEnough

LEMMA InitInv == Init => Inv
<1> SUFFICES ASSUME Init PROVE Inv
  OBVIOUS
<1>1. /\ slots = [i \in Indices |-> IF i = 0 THEN [Fresh EXCEPT !.fd = 1] ELSE Fresh]
      /\ allocated = Capacity /\ size = 1 /\ conns = 0 /\ open = {1}
      /\ disturbed = {} /\ Capacity \in Nat /\ Capacity > 1 /\ MaxConns \in Nat
  BY PoolAssumption DEF Init
<1>2. /\ Fresh \in Entry /\ [Fresh EXCEPT !.fd = 1] \in Entry
      /\ Fresh.receiving = Unset /\ [Fresh EXCEPT !.fd = 1].fd = 1
      /\ [Fresh EXCEPT !.fd = 1].receiving = Unset
  BY UnsetIs DEF Fresh, Entry
<1>3. 0 \in Indices
  BY <1>1 DEF Indices
<1>4. Types
  <2>1. slots \in [Indices -> Entry]
    BY <1>1, <1>2
  <2>. QED  BY <1>1, <2>1 DEF Types
<1>5. PairsIntact /\ OwnMessage
  BY <1>1 DEF PairsIntact, OwnMessage
<1>6. slots[0].fd = 1
  BY <1>1, <1>2, <1>3
<1>7. AllPolled /\ Numbers
  BY <1>1, <1>6 DEF AllPolled, Numbers
<1>8. Unused
  BY <1>1, <1>2 DEF Unused
<1>. QED  BY <1>4, <1>5, <1>7, <1>8 DEF Inv, Paired, Apart

-----------------------------------------------------------------------------
(* Receiving *)

(* A step that writes receiving of one entry in use. *)
LEMMA ReceivingKeeps ==
  ASSUME Inv, NEW i \in 1 .. size - 1, NEW value \in {0, slots[i].fd},
         slots' = [slots EXCEPT ![i].receiving = value],
         UNCHANGED <<allocated, size, conns, open, disturbed>>
  PROVE  Inv'
<1>1. /\ slots \in [Indices -> Entry] /\ size \in Nat /\ i \in Indices
      /\ \A j \in 0 .. size - 1 : j \in Indices
      /\ 0 \in Indices /\ Indices \subseteq Nat
  BY InUse DEF Inv, Types
<1>2. slots[i] \in Entry /\ value \in Nat
  BY <1>1 DEF Entry
<1>3. /\ slots' \in [Indices -> Entry]
      /\ \A j \in Indices : /\ slots'[j].fd = slots[j].fd
                            /\ slots'[j].peer = slots[j].peer
                            /\ slots'[j].counter = slots[j].counter
                            /\ slots'[j].receiving =
                                 IF j = i THEN value ELSE slots[j].receiving
  BY <1>1, <1>2 DEF Entry
<1>4. Types'
  BY <1>3 DEF Inv, Types
<1>5. ASSUME Paired PROVE Paired'
  <2>1. PairsIntact /\ AllPolled /\ Numbers
    BY <1>5 DEF Paired
  <2>2. PairsIntact'
    <3> SUFFICES ASSUME NEW j \in 1 .. size - 1
                 PROVE  /\ slots'[j].counter = (IF j % 2 = 1 THEN j + 1 ELSE j - 1)
                        /\ slots'[j].counter < size
                        /\ slots'[slots'[j].counter].fd = slots'[j].peer
                        /\ slots'[slots'[j].counter].peer = slots'[j].fd
      BY DEF PairsIntact
    <3>1. /\ slots[j].counter = (IF j % 2 = 1 THEN j + 1 ELSE j - 1)
          /\ slots[j].counter < size
          /\ slots[slots[j].counter].fd = slots[j].peer
          /\ slots[slots[j].counter].peer = slots[j].fd
      BY <2>1 DEF PairsIntact
    <3>2. slots[j].counter \in Indices /\ j \in Indices
      BY <1>1, <3>1
    <3>. QED  BY <1>3, <3>1, <3>2
  <2>3. AllPolled'
    BY <1>1, <1>3, <2>1 DEF AllPolled
  <2>4. Numbers'
    BY <1>1, <1>3, <2>1 DEF Numbers
  <2>. QED  BY <2>2, <2>3, <2>4 DEF Paired
<1>6. ASSUME Apart PROVE Apart'
  <2>1. OwnMessage /\ Unused
    BY <1>6 DEF Apart
  <2>2. OwnMessage'
    BY <1>1, <1>3, <2>1 DEF OwnMessage
  <2>3. Unused'
    BY <1>1, <1>3, <2>1 DEF Unused
  <2>. QED  BY <2>2, <2>3 DEF Apart
<1>. QED  BY <1>4, <1>5, <1>6 DEF Inv

-----------------------------------------------------------------------------
(* Closing *)

(* The hole is filled with the last pair, which learns its new indices.    *)
(* The entry that is found at j once the last pair fills the hole at i. *)
Moved(i, j) ==
  IF j = i THEN size - 2 ELSE IF j = i + 1 THEN size - 1 ELSE j

(* What a client's closing leaves behind. *)
LEMMA CloseMoves ==
  ASSUME Inv, NEW i \in 1 .. size - 2, slots' = Remove(i), slots[i].fd % 2 = 0, Paired
  PROVE  /\ i % 2 = 1 /\ i <= size - 2 /\ size - 2 # i + 1
         /\ slots' \in [Indices -> Entry]
         /\ \A j \in Indices : j # i /\ j # i + 1 => slots'[j] = slots[j]
         /\ \A j \in 0 .. size - 3 :
              /\ Moved(i, j) \in 0 .. size - 1
              /\ Moved(i, j) # i /\ Moved(i, j) # i + 1
              /\ Moved(i, j) % 2 = j % 2 /\ (j >= 1 => Moved(i, j) >= 1)
              /\ slots'[j].fd = slots[Moved(i, j)].fd
              /\ slots'[j].peer = slots[Moved(i, j)].peer
              /\ slots'[j].receiving = slots[Moved(i, j)].receiving
              /\ slots'[j].counter =
                   IF j = i THEN i + 1 ELSE IF j = i + 1 THEN i ELSE slots[j].counter
         /\ \A j \in {i, i + 1} : slots'[j].receiving \in
              {slots[size - 2].receiving, slots[size - 1].receiving}
<1> DEFINE last == size - 2
<1>1. /\ slots \in [Indices -> Entry] /\ size \in Nat /\ size % 2 = 1
      /\ \A j \in 0 .. size - 1 : j \in Indices
      /\ Indices \subseteq Nat /\ Numbers
  BY InUse DEF Inv, Types, Paired
<1>2. /\ last \in Nat /\ size = last + 2 /\ last >= 1 /\ i \in 1 .. last
      /\ last % 2 = 1 /\ (last + 1) % 2 = 0
  BY <1>1
<1>3. i % 2 = 1 /\ (i + 1) % 2 = 0
  <2>1. slots[i].fd % 2 # i % 2 /\ i \in Nat
    BY <1>1, <1>2 DEF Numbers
  <2>. QED  BY <2>1
<1>4. last # i + 1
  BY <1>2, <1>3
<1>5. {i, i + 1, last, last + 1} \subseteq Indices
  BY <1>1, <1>2
<1> HIDE DEF last
<1>6. {slots[last], slots[last + 1]} \subseteq Entry
  BY <1>1, <1>5
<1>7. slots' = IF last > 1
               THEN [slots EXCEPT ![i]     = [slots[last] EXCEPT !.counter = i + 1],
                                  ![i + 1] = [slots[last + 1] EXCEPT !.counter = i]]
               ELSE slots
  <2>1. size - 2 = last /\ size - 1 = last + 1
    BY <1>2
  <2>. QED  BY <2>1 DEF Remove
<1>8. /\ [slots[last] EXCEPT !.counter = i + 1] \in Entry
      /\ [slots[last + 1] EXCEPT !.counter = i] \in Entry
  BY <1>2, <1>6 DEF Entry
<1>9. slots' \in [Indices -> Entry]
  BY <1>1, <1>5, <1>7, <1>8
<1>10. \A j \in Indices : j # i /\ j # i + 1 => slots'[j] = slots[j]
  BY <1>1, <1>7
<1>11. last > 1 =>
          /\ slots'[i] = [slots[last] EXCEPT !.counter = i + 1]
          /\ slots'[i + 1] = [slots[last + 1] EXCEPT !.counter = i]
  BY <1>1, <1>2, <1>5, <1>7
<1>12. last > 1 =>
          /\ slots'[i].fd = slots[last].fd /\ slots'[i].peer = slots[last].peer
          /\ slots'[i].counter = i + 1
          /\ slots'[i].receiving = slots[last].receiving
          /\ slots'[i + 1].fd = slots[last + 1].fd
          /\ slots'[i + 1].peer = slots[last + 1].peer
          /\ slots'[i + 1].counter = i
          /\ slots'[i + 1].receiving = slots[last + 1].receiving
  BY <1>6, <1>11 DEF Entry
<1>13. ASSUME NEW j \in 0 .. last - 1
       PROVE  /\ Moved(i, j) \in 0 .. last + 1
              /\ Moved(i, j) # i /\ Moved(i, j) # i + 1
              /\ Moved(i, j) % 2 = j % 2 /\ (j >= 1 => Moved(i, j) >= 1)
              /\ slots'[j].fd = slots[Moved(i, j)].fd
              /\ slots'[j].peer = slots[Moved(i, j)].peer
              /\ slots'[j].receiving = slots[Moved(i, j)].receiving
              /\ slots'[j].counter =
                   IF j = i THEN i + 1 ELSE IF j = i + 1 THEN i ELSE slots[j].counter
  <2>0. Moved(i, j) = IF j = i THEN last ELSE IF j = i + 1 THEN last + 1 ELSE j
    BY <1>2 DEF Moved
  <2>1. CASE j # i /\ j # i + 1
    <3>1. slots'[j] = slots[j] /\ Moved(i, j) = j
      BY <1>1, <1>2, <1>10, <2>0, <2>1
    <3>. QED  BY <1>2, <2>1, <3>1
  <2>2. CASE j = i
    <3>1. last > 1 /\ Moved(i, j) = last /\ i < last
      BY <1>2, <2>0, <2>2
    <3>. QED  BY <1>2, <1>3, <1>4, <1>12, <2>2, <3>1
  <2>3. CASE j = i + 1
    <3>1. last > 1 /\ Moved(i, j) = last + 1 /\ i < last
      BY <1>2, <2>0, <2>3
    <3>. QED  BY <1>2, <1>3, <1>4, <1>12, <2>3, <3>1
  <2>. QED  BY <2>1, <2>2, <2>3
<1>14. \A j \in {i, i + 1} :
         slots'[j].receiving \in {slots[last].receiving, slots[last + 1].receiving}
  <2>1. CASE last > 1
    BY <1>12, <2>1
  <2>2. CASE last = 1
    <3>1. i = last /\ slots' = slots
      BY <1>2, <1>7, <2>2
    <3>. QED  BY <3>1
  <2>. QED  BY <1>2, <2>1, <2>2
<1>15. /\ last = size - 2 /\ last + 1 = size - 1 /\ last - 1 = size - 3
       /\ i % 2 = 1 /\ i <= last
  BY <1>2, <1>3
<1>. QED  BY <1>4, <1>9, <1>10, <1>13, <1>14, <1>15

(* The hole is filled with the last pair, which learns its new indices.    *)
LEMMA CloseKeeps ==
  ASSUME Inv, NEW i \in 1 .. size - 1, Close(i)
  PROVE  Inv'
<1> DEFINE isServer == slots[i].fd % 2 = 1
           last == size - 2
<1>1. /\ slots \in [Indices -> Entry] /\ size \in Nat /\ conns \in Nat
      /\ size % 2 = 1 /\ conns \in 0 .. MaxConns /\ open \subseteq Nat
      /\ size <= 2 * conns + 1
      /\ disturbed \subseteq Disturbances /\ allocated \in {Capacity, 2 * Capacity}
      /\ allocated = Capacity => size <= Capacity
      /\ Capacity \in Nat /\ MaxConns \in Nat
  BY PoolAssumption DEF Inv, Types
<1>2. /\ \A j \in 0 .. size - 1 : j \in Indices
      /\ 0 \in Indices /\ Indices \subseteq Nat
  BY InUse DEF Inv
<1>3. /\ i \in 1 .. size - 2 /\ slots' = Remove(i) /\ size' = last
      /\ open' = open \ {slots[i].fd, slots[i + 1].fd}
      /\ conns' = conns /\ allocated' = allocated
      /\ disturbed' = disturbed
           \cup {d \in {"server"} : isServer}
           \cup {d \in {"message"} : \E j \in {size - 2, size - 1} :
                                      slots[j].receiving \notin {0, Unset}}
  BY DEF Close
<1>4. /\ size = last + 2 /\ last \in Nat /\ last >= 1 /\ last % 2 = 1
      /\ i \in 1 .. last /\ {i, i + 1, size - 2, size - 1} \subseteq Indices
  BY <1>1, <1>2, <1>3
<1>5. slots' \in [Indices -> Entry]
  <2>1. {slots[size - 2], slots[size - 1]} \subseteq Entry
    BY <1>1, <1>4
  <2>2. /\ [slots[size - 2] EXCEPT !.counter = i + 1] \in Entry
        /\ [slots[size - 1] EXCEPT !.counter = i] \in Entry
    BY <1>3, <2>1 DEF Entry
  <2>. QED  BY <1>1, <1>3, <1>4, <2>2 DEF Remove
<1>6. Types'
  <2>1. open' \subseteq Nat /\ conns' \in 0 .. MaxConns
    BY <1>1, <1>3
  <2>2. disturbed' \subseteq Disturbances
    BY <1>1, <1>3 DEF Disturbances
  <2>3. /\ size' \in Nat /\ size' % 2 = 1 /\ size' <= 2 * conns' + 1
        /\ allocated' = Capacity => size' <= Capacity
    BY <1>1, <1>3, <1>4
  <2>. QED  BY <1>1, <1>3, <1>5, <2>1, <2>2, <2>3 DEF Types
<1>7. ASSUME disturbed' \subseteq {"message"}
      PROVE  Paired /\ slots[i].fd % 2 = 0
  <2>1. disturbed \subseteq {"message"} /\ ~isServer
    BY <1>3, <1>7
  <2>2. slots[i].fd \in Nat
    BY <1>1, <1>4 DEF Entry
  <2>. QED  BY <2>1, <2>2 DEF Inv
<1> HIDE DEF isServer, last
<1>8. ASSUME disturbed' \subseteq {"message"} PROVE Paired'
  <2>1. PairsIntact /\ AllPolled /\ Numbers /\ Paired /\ slots[i].fd % 2 = 0
    BY <1>7, <1>8 DEF Paired
  <2>2. /\ i % 2 = 1 /\ i <= last /\ last # i + 1
        /\ \A j \in Indices : j # i /\ j # i + 1 => slots'[j] = slots[j]
        /\ \A j \in 0 .. last - 1 :
              /\ Moved(i, j) \in 0 .. size - 1
              /\ Moved(i, j) # i /\ Moved(i, j) # i + 1
              /\ Moved(i, j) % 2 = j % 2 /\ (j >= 1 => Moved(i, j) >= 1)
              /\ slots'[j].fd = slots[Moved(i, j)].fd
              /\ slots'[j].peer = slots[Moved(i, j)].peer
              /\ slots'[j].counter =
                   IF j = i THEN i + 1 ELSE IF j = i + 1 THEN i ELSE slots[j].counter
    <3>1. size - 2 = last /\ size - 3 = last - 1
      BY <1>4
    <3>. QED  BY <1>3, <2>1, <3>1, CloseMoves
  <2>3. \A j \in Int : Moved(i, j) =
          IF j = i THEN last ELSE IF j = i + 1 THEN last + 1 ELSE j
    BY <1>4 DEF Moved
  <2>4. /\ slots[i].counter = i + 1 /\ slots[i + 1].counter = i
        /\ slots[last].peer = slots[last + 1].fd
        /\ slots[last + 1].peer = slots[last].fd
    <3>1. (i + 1) % 2 = 0 /\ (last + 1) % 2 = 0
      BY <1>4, <2>2
    <3>2. {i, i + 1, last, last + 1} \subseteq 1 .. size - 1
      BY <1>4
    <3>3. /\ slots[i].counter = i + 1 /\ slots[last].counter = last + 1
          /\ slots[i + 1].counter = i + 1 - 1
          /\ slots[last + 1].counter = last + 1 - 1
      <4>1. \A j \in 1 .. size - 1 : slots[j].counter = IF j % 2 = 1 THEN j + 1 ELSE j - 1
        BY <2>1 DEF PairsIntact
      <4>2. /\ slots[i].counter = IF i % 2 = 1 THEN i + 1 ELSE i - 1
            /\ slots[last].counter = IF last % 2 = 1 THEN last + 1 ELSE last - 1
        BY <3>2, <4>1
      <4>3. /\ slots[i + 1].counter = IF (i + 1) % 2 = 1 THEN i + 1 + 1 ELSE i + 1 - 1
            /\ slots[last + 1].counter =
                 IF (last + 1) % 2 = 1 THEN last + 1 + 1 ELSE last + 1 - 1
        BY <3>2, <4>1
      <4>4. i % 2 = 1 /\ last % 2 = 1
        BY <1>4, <2>2
      <4>. QED  BY <3>1, <4>2, <4>3, <4>4
    <3>4. /\ slots[slots[last].counter].fd = slots[last].peer
          /\ slots[slots[last + 1].counter].fd = slots[last + 1].peer
      BY <2>1, <3>2 DEF PairsIntact
    <3>5. i + 1 - 1 = i /\ last + 1 - 1 = last
      BY <1>4
    <3>. QED  BY <3>3, <3>4, <3>5
  <2>5. PairsIntact'
    <3> SUFFICES ASSUME NEW j \in 1 .. last - 1
                 PROVE  /\ slots'[j].counter = (IF j % 2 = 1 THEN j + 1 ELSE j - 1)
                        /\ slots'[j].counter < last
                        /\ slots'[slots'[j].counter].fd = slots'[j].peer
                        /\ slots'[slots'[j].counter].peer = slots'[j].fd
      BY <1>3 DEF PairsIntact
    <3>1. CASE j # i /\ j # i + 1
      <4> DEFINE c == IF j % 2 = 1 THEN j + 1 ELSE j - 1
      <4>1. /\ slots[j].counter = c
            /\ slots[c].fd = slots[j].peer /\ slots[c].peer = slots[j].fd
        <5>1. j \in 1 .. size - 1
          BY <1>4
        <5>. QED  BY <2>1, <5>1 DEF PairsIntact
      <4>2. c \in 0 .. last - 1 /\ c # i /\ c # i + 1
        <5>1. CASE j % 2 = 1
          BY <1>4, <2>2, <3>1, <5>1
        <5>2. CASE j % 2 = 0
          BY <1>4, <2>2, <3>1, <5>2
        <5>. QED  BY <5>1, <5>2
      <4>3. slots'[j] = slots[j] /\ slots'[c] = slots[c]
        BY <1>2, <1>4, <2>2, <3>1, <4>2
      <4> HIDE DEF c
      <4>4. /\ slots'[j].counter = c /\ c < last
            /\ slots'[c].fd = slots'[j].peer /\ slots'[c].peer = slots'[j].fd
        BY <1>4, <4>1, <4>2, <4>3
      <4>. QED  BY <4>4 DEF c
    <3>2. CASE j = i \/ j = i + 1
      <4>1. /\ i < last /\ i + 1 < last /\ (i + 1) % 2 = 0
            /\ i \in 0 .. last - 1 /\ i + 1 \in 0 .. last - 1
        BY <1>4, <2>2, <3>2
      <4>2. /\ slots'[i].fd = slots[last].fd /\ slots'[i].peer = slots[last].peer
            /\ slots'[i].counter = i + 1
            /\ slots'[i + 1].fd = slots[last + 1].fd
            /\ slots'[i + 1].peer = slots[last + 1].peer
            /\ slots'[i + 1].counter = i
        BY <1>4, <2>2, <2>3, <4>1
      <4>. QED  BY <1>4, <2>2, <2>4, <3>2, <4>1, <4>2
    <3>. QED  BY <3>1, <3>2
  <2>6. AllPolled'
    <3>1. ASSUME NEW fd \in open' PROVE \E j \in 0 .. last - 1 : slots'[j].fd = fd
      <4>1. PICK k \in 0 .. size - 1 : slots[k].fd = fd
        BY <1>3, <2>1, <3>1 DEF AllPolled
      <4>2. k # i /\ k # i + 1
        BY <1>3, <3>1, <4>1
      <4>3. CASE k < last
        BY <1>4, <2>2, <2>3, <4>1, <4>2, <4>3
      <4>4. CASE k = last
        <5>1. i \in 0 .. last - 1
          BY <1>4, <4>2, <4>4
        <5>. QED  BY <1>4, <2>2, <2>3, <4>1, <4>4, <5>1
      <4>5. CASE k = last + 1
        <5>1. i + 1 \in 0 .. last - 1 /\ i \in Int /\ i + 1 # i
          BY <1>4, <2>2, <4>2, <4>5
        <5>2. Moved(i, i + 1) = k
          BY <1>4, <2>3, <4>5, <5>1
        <5>. QED  BY <2>2, <4>1, <5>1, <5>2
      <4>. QED  BY <1>4, <4>3, <4>4, <4>5
    <3>2. ASSUME NEW j \in 0 .. last - 1, NEW k \in 0 .. last - 1,
                 slots'[j].fd = slots'[k].fd
          PROVE  j = k
      <4>1. slots[Moved(i, j)].fd = slots[Moved(i, k)].fd
        BY <2>2, <3>2
      <4>2. Moved(i, j) \in 0 .. size - 1 /\ Moved(i, k) \in 0 .. size - 1
        BY <2>2
      <4>3. Moved(i, j) = Moved(i, k)
        BY <2>1, <4>1, <4>2 DEF AllPolled
      <4>. QED  BY <1>4, <2>3, <4>3
    <3>3. ASSUME NEW j \in 0 .. last - 1 PROVE slots'[j].fd \in open'
      <4>1. /\ Moved(i, j) \in 0 .. size - 1
            /\ Moved(i, j) # i /\ Moved(i, j) # i + 1
            /\ slots'[j].fd = slots[Moved(i, j)].fd
            /\ i \in 0 .. size - 1 /\ i + 1 \in 0 .. size - 1
        BY <1>4, <2>2
      <4>2. /\ slots[Moved(i, j)].fd \in open
            /\ slots[Moved(i, j)].fd # slots[i].fd
            /\ slots[Moved(i, j)].fd # slots[i + 1].fd
        BY <2>1, <4>1 DEF AllPolled
      <4>. QED  BY <1>3, <4>1, <4>2
    <3>. QED  BY <1>3, <3>1, <3>2, <3>3 DEF AllPolled
  <2>7. Numbers'
    <3>1. slots'[0].fd = 1
      BY <1>2, <1>4, <2>1, <2>2 DEF Numbers
    <3>2. ASSUME NEW j \in 1 .. last - 1 PROVE slots'[j].fd % 2 # j % 2
      <4>1. /\ Moved(i, j) % 2 = j % 2 /\ Moved(i, j) \in 1 .. size - 1
            /\ slots'[j].fd = slots[Moved(i, j)].fd
        BY <1>4, <2>2
      <4>. QED  BY <2>1, <4>1 DEF Numbers
    <3>3. \A j \in 0 .. last - 1 : slots'[j].fd < 2 * (conns + 1)
      BY <2>1, <2>2 DEF Numbers
    <3>. QED  BY <1>3, <3>1, <3>2, <3>3 DEF Numbers
  <2>. QED  BY <2>5, <2>6, <2>7 DEF Paired
<1>9. ASSUME disturbed' = {} PROVE Apart'
  <2>1. /\ OwnMessage /\ Unused /\ Paired /\ slots[i].fd % 2 = 0
        /\ \A j \in {last, last + 1} : slots[j].receiving \in {0, Unset}
    <3>1. disturbed = {} /\ disturbed' \subseteq {"message"}
      BY <1>3, <1>9
    <3>2. \A j \in {size - 2, size - 1} : slots[j].receiving \in {0, Unset}
      BY <1>3, <1>9
    <3>3. size - 2 = last /\ size - 1 = last + 1
      BY <1>4
    <3>. QED  BY <1>7, <3>1, <3>2, <3>3 DEF Inv, Apart
  <2>2. /\ \A j \in Indices : j # i /\ j # i + 1 => slots'[j] = slots[j]
        /\ \A j \in {i, i + 1} : slots'[j].receiving \in {0, Unset}
    <3>1. size - 2 = last /\ size - 1 = last + 1
      BY <1>4
    <3>2. /\ \A j \in Indices : j # i /\ j # i + 1 => slots'[j] = slots[j]
          /\ \A j \in {i, i + 1} : slots'[j].receiving \in
               {slots[last].receiving, slots[last + 1].receiving}
      BY <1>3, <2>1, <3>1, CloseMoves
    <3>. QED  BY <2>1, <3>2
  <2>3. OwnMessage'
    <3> SUFFICES ASSUME NEW j \in 1 .. last - 1
                 PROVE  slots'[j].receiving \in {0, Unset, slots'[j].fd}
      BY <1>3 DEF OwnMessage
    <3>1. j \in Indices /\ j \in 1 .. size - 1
      BY <1>2, <1>4
    <3>. QED  BY <2>1, <2>2, <3>1 DEF OwnMessage
  <2>4. Unused'
    <3> SUFFICES ASSUME NEW j \in Indices, j >= last
                 PROVE  slots'[j].receiving \in {0, Unset}
      BY <1>3 DEF Unused
    <3>1. j \in {last, last + 1} \/ j >= size
      BY <1>2, <1>4
    <3>2. slots[j].receiving \in {0, Unset}
      BY <2>1, <3>1 DEF Unused
    <3>. QED  BY <2>2, <3>2
  <2>. QED  BY <2>3, <2>4 DEF Apart
<1>. QED  BY <1>6, <1>8, <1>9 DEF Inv

-----------------------------------------------------------------------------
(* Accepting *)

(* Entry i and those below, or those from i on. *)
Agree(f, g, i) == \A j \in 0 .. i - 1 : f[j] = g[j]
Quiet(f, i) == \A j \in Indices : j >= i => f[j].receiving \in {0, Unset}

(* Growing keeps the entries in use. *)
LEMMA IncreaseKeeps ==
  ASSUME NEW mem \in [Indices -> Entry], NEW used \in Indices,
         NEW new, new = Increase(mem, used)
  PROVE  /\ new \in [Indices -> Entry] /\ Agree(new, mem, used)
         /\ Quiet(mem, used) => Quiet(new, used)
<1>1. /\ Indices \subseteq Nat /\ used \in Nat
      /\ \A j \in 0 .. used - 1 : j \in Indices
  BY PoolAssumption DEF Indices
<1>2. Fresh \in Entry /\ Fresh.receiving = Unset
  BY UnsetIs DEF Fresh, Entry
<1>3. CASE used = Capacity
  <2>1. new = [j \in Indices |-> IF j < used THEN mem[j] ELSE Fresh]
    BY <1>3 DEF Increase
  <2>2. new \in [Indices -> Entry]
    BY <1>2, <2>1
  <2>3. Agree(new, mem, used)
    BY <1>1, <2>1 DEF Agree
  <2>4. Quiet(new, used)
    BY <1>1, <1>2, <2>1 DEF Quiet
  <2>. QED  BY <2>2, <2>3, <2>4
<1>4. CASE used # Capacity
  BY <1>4 DEF Increase, Agree
<1>. QED  BY <1>3, <1>4

Written(e, fd, peer, counter) == e.fd = fd /\ e.peer = peer /\ e.counter = counter

LEMMA PutEntry ==
  ASSUME NEW mem \in [Indices -> Entry], NEW i \in Indices,
         NEW fd \in Nat, NEW peer \in Nat, NEW counter \in Nat,
         NEW now, now = Put(mem, i, fd, peer, counter)
  PROVE  /\ now \in [Indices -> Entry] /\ Agree(now, mem, i)
         /\ Written(now[i], fd, peer, counter)
         /\ Quiet(mem, i) => Quiet(now, i)
<1>1. /\ now \in [Indices -> Entry]
      /\ \A j \in Indices : j # i => now[j] = mem[j]
      /\ now[i].fd = fd /\ now[i].peer = peer /\ now[i].counter = counter
      /\ now[i].receiving = mem[i].receiving
  BY DEF Put, Entry
<1>2. \A j \in 0 .. i - 1 : j \in Indices /\ j # i
  BY PoolAssumption DEF Indices
<1>. QED  BY <1>1, <1>2 DEF Agree, Quiet, Written

(* The table after a client has been accepted: the entries in use are the  *)
(* same, and a pair follows them that is not in the middle of a message.   *)
LEMMA AcceptAdds ==
  ASSUME Types, Accept
  PROVE  LET client == 2 * (conns + 1)
         IN  /\ slots' \in [Indices -> Entry]
             /\ \A j \in 0 .. size - 1 : slots'[j] = slots[j]
             /\ slots'[size].fd = client /\ slots'[size].peer = client + 1
             /\ slots'[size].counter = size + 1
             /\ slots'[size + 1].fd = client + 1
             /\ slots'[size + 1].peer = client
             /\ slots'[size + 1].counter = size
             /\ Unused => Quiet(slots', size)
<1> DEFINE client == 2 * (conns + 1)
           server == client + 1
           second == size + 1
           mem1 == Increase(slots, size)
           put1 == Put(mem1, size, client, server, second)
           mem2 == Increase(put1, second)
<1>1. /\ slots \in [Indices -> Entry]
      /\ size \in Nat /\ second \in Nat /\ client \in Nat /\ server \in Nat
  BY PoolAssumption DEF Types
<1>2. size \in Indices /\ second \in Indices /\ Indices \subseteq Nat
  BY PoolAssumption DEF Types, Accept, Indices
<1>3. slots' = Put(mem2, second, server, client, size)
  BY DEF Accept
<1>4. /\ mem1 = Increase(slots, size)
      /\ put1 = Put(mem1, size, client, server, second)
      /\ mem2 = Increase(put1, second)
      /\ second = size + 1
  OBVIOUS
<1> HIDE DEF mem1, put1, mem2, client, server, second
<1>5. /\ mem1 \in [Indices -> Entry] /\ Agree(mem1, slots, size)
      /\ Quiet(slots, size) => Quiet(mem1, size)
  BY <1>1, <1>2, <1>4, IncreaseKeeps
<1>6. /\ put1 \in [Indices -> Entry] /\ Agree(put1, mem1, size)
      /\ Written(put1[size], client, server, second)
      /\ Quiet(mem1, size) => Quiet(put1, size)
  BY <1>1, <1>2, <1>4, <1>5, PutEntry
<1>7. /\ mem2 \in [Indices -> Entry] /\ Agree(mem2, put1, second)
      /\ Quiet(put1, second) => Quiet(mem2, second)
  BY <1>2, <1>4, <1>6, IncreaseKeeps
<1>8. /\ slots' \in [Indices -> Entry] /\ Agree(slots', mem2, second)
      /\ Written(slots'[second], server, client, size)
      /\ Quiet(mem2, second) => Quiet(slots', second)
  BY <1>1, <1>2, <1>3, <1>7, PutEntry
<1>9. slots'[size] = put1[size]
  <2>1. size \in 0 .. second - 1
    BY <1>1, <1>4
  <2>. QED  BY <1>7, <1>8, <2>1 DEF Agree
<1>10. \A j \in 0 .. size - 1 : slots'[j] = slots[j]
  <2> SUFFICES ASSUME NEW j \in 0 .. size - 1 PROVE slots'[j] = slots[j]
    OBVIOUS
  <2>1. j \in 0 .. second - 1
    BY <1>1, <1>4
  <2>. QED  BY <1>5, <1>6, <1>7, <1>8, <2>1 DEF Agree
<1>11. ASSUME Unused PROVE Quiet(slots', size)
  <2>1. Quiet(slots, size)
    BY <1>11 DEF Unused, Quiet
  <2>2. Quiet(put1, size)
    BY <1>5, <1>6, <2>1
  <2>3. Quiet(put1, second)
    BY <1>1, <1>2, <1>4, <2>2 DEF Quiet
  <2>4. Quiet(slots', second)
    BY <1>7, <1>8, <2>3
  <2>5. slots'[size].receiving \in {0, Unset}
    BY <1>1, <1>2, <1>9, <2>2 DEF Quiet
  <2>6. ASSUME NEW j \in Indices, j >= size, j # size PROVE j >= second
    BY <1>1, <1>2, <1>4, <2>6
  <2>. QED  BY <2>4, <2>5, <2>6 DEF Quiet
<1>12. /\ slots'[size].fd = 2 * (conns + 1)
       /\ slots'[size].peer = 2 * (conns + 1) + 1 /\ slots'[size].counter = size + 1
       /\ slots'[size + 1].fd = 2 * (conns + 1) + 1
       /\ slots'[size + 1].peer = 2 * (conns + 1) /\ slots'[size + 1].counter = size
  BY <1>6, <1>8, <1>9 DEF client, server, second, Written
<1>. QED  BY <1>8, <1>10, <1>11, <1>12

(* A client is accepted: its two sockets are new, and follow the others.   *)
LEMMA AcceptKeeps ==
  ASSUME Inv, Accept
  PROVE  Inv'
<1> DEFINE client == 2 * (conns + 1)
<1>1. /\ size' = size + 2 /\ conns' = conns + 1 /\ conns < MaxConns
      /\ open' = open \cup {client, client + 1}
      /\ allocated' = IF Capacity \in {size, size + 1} THEN 2 * Capacity ELSE allocated
      /\ disturbed \subseteq disturbed' /\ disturbed' \subseteq disturbed \cup {"memory"}
  BY DEF Accept
<1>2. /\ size \in Nat /\ size % 2 = 1 /\ conns \in 0 .. MaxConns /\ conns \in Nat
      /\ MaxConns \in Nat /\ open \subseteq Nat /\ disturbed \subseteq Disturbances
      /\ client \in Nat /\ client % 2 = 0 /\ (client + 1) % 2 = 1 /\ Types
      /\ slots \in [Indices -> Entry] /\ Capacity \in Nat
      /\ \A j \in 0 .. size - 1 : j \in Indices
      /\ allocated \in {Capacity, 2 * Capacity} /\ size <= 2 * conns + 1
      /\ allocated = Capacity => size <= Capacity
  BY PoolAssumption, InUse DEF Inv, Types
<1>3. /\ slots' \in [Indices -> Entry]
      /\ \A j \in 0 .. size - 1 : slots'[j] = slots[j]
      /\ slots'[size].fd = client /\ slots'[size].peer = client + 1
      /\ slots'[size].counter = size + 1
      /\ slots'[size + 1].fd = client + 1
      /\ slots'[size + 1].peer = client
      /\ slots'[size + 1].counter = size
      /\ Unused => Quiet(slots', size)
  BY <1>2, AcceptAdds
<1>4. (size + 2) % 2 = 1 /\ (size + 1) % 2 = 0 /\ size >= 1
  BY <1>2
<1>5. Types'
  <2>1. /\ allocated' \in {Capacity, 2 * Capacity}
        /\ allocated' = Capacity => size' <= Capacity
    BY <1>1, <1>2, PoolAssumption
  <2>2. open' \subseteq Nat /\ conns' \in 0 .. MaxConns
    BY <1>1, <1>2
  <2>3. size' \in Nat /\ size' % 2 = 1 /\ size' <= 2 * conns' + 1
    BY <1>1, <1>2, <1>4
  <2>4. disturbed' \subseteq Disturbances
    BY <1>1, <1>2 DEF Disturbances
  <2>. QED  BY <1>3, <2>1, <2>2, <2>3, <2>4 DEF Types
<1>6. ASSUME Paired PROVE Paired'
  <2>1. PairsIntact /\ AllPolled /\ Numbers
    BY <1>6 DEF Paired
  <2>2. \A j \in 0 .. size' - 1 : j \in 0 .. size - 1 \/ j = size \/ j = size + 1
    BY <1>1, <1>2
  <2>3. \A j \in 0 .. size - 1 : /\ slots'[j] = slots[j]
                                 /\ slots[j].fd \in Nat /\ slots[j].fd < client
    <3>1. \A j \in 0 .. size - 1 : slots[j] \in Entry
      BY <1>2
    <3>. QED  BY <1>3, <2>1, <3>1 DEF Numbers, Entry
  <2>4. PairsIntact'
    <3> SUFFICES ASSUME NEW j \in 1 .. size' - 1
                 PROVE  /\ slots'[j].counter = (IF j % 2 = 1 THEN j + 1 ELSE j - 1)
                        /\ slots'[j].counter < size'
                        /\ slots'[slots'[j].counter].fd = slots'[j].peer
                        /\ slots'[slots'[j].counter].peer = slots'[j].fd
      BY DEF PairsIntact
    <3>1. CASE j \in 1 .. size - 1
      <4>1. /\ slots[j].counter = (IF j % 2 = 1 THEN j + 1 ELSE j - 1)
            /\ slots[j].counter < size
            /\ slots[slots[j].counter].fd = slots[j].peer
            /\ slots[slots[j].counter].peer = slots[j].fd
        BY <2>1, <3>1 DEF PairsIntact
      <4>2. slots[j].counter \in 0 .. size - 1 /\ j \in 0 .. size - 1
        BY <1>2, <3>1, <4>1
      <4>. QED  BY <1>1, <1>2, <2>3, <4>1, <4>2
    <3>2. CASE j = size
      BY <1>1, <1>2, <1>3, <3>2
    <3>3. CASE j = size + 1
      BY <1>1, <1>2, <1>3, <1>4, <3>3
    <3>. QED  BY <1>2, <2>2, <3>1, <3>2, <3>3
  <2>5. AllPolled'
    <3>1. \A fd \in open' : \E j \in 0 .. size' - 1 : slots'[j].fd = fd
      <4> SUFFICES ASSUME NEW fd \in open'
                   PROVE  \E j \in 0 .. size' - 1 : slots'[j].fd = fd
        OBVIOUS
      <4>1. CASE fd \in open
        <5>1. PICK j \in 0 .. size - 1 : slots[j].fd = fd
          BY <2>1, <4>1 DEF AllPolled
        <5>. QED  BY <1>1, <1>2, <2>3, <5>1
      <4>2. CASE fd = client
        BY <1>1, <1>2, <1>3, <4>2
      <4>3. CASE fd = client + 1
        BY <1>1, <1>2, <1>3, <4>3
      <4>. QED  BY <1>1, <4>1, <4>2, <4>3
    <3>2. ASSUME NEW j \in 0 .. size' - 1, NEW k \in 0 .. size' - 1,
                 slots'[j].fd = slots'[k].fd
          PROVE  j = k
      <4>1. CASE j \in 0 .. size - 1 /\ k \in 0 .. size - 1
        BY <2>1, <2>3, <3>2, <4>1 DEF AllPolled
      <4>2. CASE j \in 0 .. size - 1 /\ k \in {size, size + 1}
        BY <1>2, <1>3, <2>3, <3>2, <4>2
      <4>3. CASE j \in {size, size + 1} /\ k \in 0 .. size - 1
        BY <1>2, <1>3, <2>3, <3>2, <4>3
      <4>4. CASE j \in {size, size + 1} /\ k \in {size, size + 1}
        BY <1>2, <1>3, <3>2, <4>4
      <4>. QED  BY <2>2, <4>1, <4>2, <4>3, <4>4
    <3>3. ASSUME NEW j \in 0 .. size' - 1 PROVE slots'[j].fd \in open'
      <4>1. CASE j \in 0 .. size - 1
        BY <1>1, <2>1, <2>3, <4>1 DEF AllPolled
      <4>2. CASE j = size \/ j = size + 1
        BY <1>1, <1>3, <4>2
      <4>. QED  BY <2>2, <4>1, <4>2
    <3>. QED  BY <3>1, <3>2, <3>3 DEF AllPolled
  <2>6. Numbers'
    <3>1. slots'[0].fd = 1
      BY <1>4, <1>2, <2>1, <2>3 DEF Numbers
    <3>2. ASSUME NEW j \in 1 .. size' - 1 PROVE slots'[j].fd % 2 # j % 2
      <4>1. CASE j \in 1 .. size - 1
        <5>1. slots'[j] = slots[j]
          BY <1>2, <2>3, <4>1
        <5>. QED  BY <2>1, <4>1, <5>1 DEF Numbers
      <4>2. CASE j = size
        <5>1. slots'[j].fd % 2 = 0 /\ j % 2 = 1
          BY <1>2, <1>3, <4>2
        <5>. QED  BY <5>1
      <4>3. CASE j = size + 1
        <5>1. slots'[j].fd % 2 = 1 /\ j % 2 = 0
          BY <1>2, <1>3, <1>4, <4>3
        <5>. QED  BY <5>1
      <4>. QED  BY <1>2, <2>2, <4>1, <4>2, <4>3
    <3>3. ASSUME NEW j \in 0 .. size' - 1 PROVE slots'[j].fd < 2 * (conns' + 1)
      <4>1. 2 * (conns' + 1) = client + 2
        BY <1>1, <1>2
      <4>2. CASE j \in 0 .. size - 1
        BY <1>2, <2>3, <4>1, <4>2
      <4>3. CASE j = size \/ j = size + 1
        BY <1>2, <1>3, <4>1, <4>3
      <4>. QED  BY <2>2, <4>2, <4>3
    <3>. QED  BY <3>1, <3>2, <3>3 DEF Numbers
  <2>. QED  BY <2>4, <2>5, <2>6 DEF Paired
<1>7. ASSUME Apart PROVE Apart'
  <2>1. OwnMessage /\ Unused /\ Quiet(slots', size)
    BY <1>3, <1>7 DEF Apart
  <2>2. OwnMessage'
    <3> SUFFICES ASSUME NEW j \in 1 .. size' - 1
                 PROVE  slots'[j].receiving \in {0, Unset, slots'[j].fd}
      BY DEF OwnMessage
    <3>1. CASE j \in 1 .. size - 1
      <4>1. slots'[j] = slots[j]
        BY <1>2, <1>3, <3>1
      <4>. QED  BY <2>1, <3>1, <4>1 DEF OwnMessage
    <3>2. CASE j \in {size, size + 1}
      <4>1. j \in Indices /\ j >= size
        BY <1>1, <1>2, <3>2 DEF Indices
      <4>. QED  BY <2>1, <4>1 DEF Quiet
    <3>. QED  BY <1>1, <1>2, <3>1, <3>2
  <2>3. Unused'
    <3>1. \A j \in Indices : j >= size' => j >= size
      BY <1>1, <1>2, InUse
    <3>. QED  BY <2>1, <3>1 DEF Unused, Quiet
  <2>. QED  BY <2>2, <2>3 DEF Apart
<1>8. /\ disturbed' \subseteq {"message"} => disturbed \subseteq {"message"}
      /\ disturbed' = {} => disturbed = {}
  BY <1>1
<1>. QED  BY <1>5, <1>6, <1>7, <1>8 DEF Inv

-----------------------------------------------------------------------------
(* The theorems *)

LEMMA StepKeeps ==
  ASSUME Inv, [Next]_vars
  PROVE  Inv'
<1>1. ASSUME NEW i \in 1 .. size - 1, Receive(i) \/ Received(i) PROVE Inv'
  BY <1>1, ReceivingKeeps DEF Receive, Received
<1>2. ASSUME NEW i \in 1 .. size - 1, Close(i) PROVE Inv'
  BY <1>2, CloseKeeps
<1>3. CASE UNCHANGED vars
  BY <1>3 DEF vars, Inv, Types, Paired, Apart, PairsIntact, AllPolled, OwnMessage,
              Numbers, Unused
<1>. QED  BY <1>1, <1>2, <1>3, AcceptKeeps DEF Next

LEMMA Invariance == Spec => []Inv
<1>1. Init => Inv
  BY InitInv
<1>2. Inv /\ [Next]_vars => Inv'
  BY StepKeeps
<1>. QED  BY <1>1, <1>2, PTL DEF Spec

(* However often the pool grows, shrinks and moves its last pair into a    *)
(* hole: up to twice the capacity the memory is enough; every socket is    *)
(* polled once and finds its other end, unless a server closes first or    *)
(* the memory is overrun; and if no pair closes while the last one         *)
(* receives, each receives into its own message or what malloc left there. *)
THEOREM PoolStaysWhole == Spec => []PoolSound
<1>1. Inv => PoolSound
  BY MemoryIsEnough DEF Inv, Paired, Apart, PoolSound
<1>. QED  BY <1>1, Invariance, PTL

(* The table and its counters keep their types. *)
THEOREM Typing == Spec => []TypeOK
<1>1. Inv => TypeOK
  <2>1. Types => size # 0
    BY DEF Types
  <2>. QED  BY <2>1 DEF Inv, Types, TypeOK
<1>. QED  BY <1>1, Invariance, PTL

-----------------------------------------------------------------------------
(* Which application a client belongs to *)

(* A client's own address is always its location, so the second of the two *)
(* applications has the client unless the first one does.                  *)
LEMMA FirstOrSecond ==
  ASSUME NEW ip, NEW loc, NEW app, app = A!Application(ip, << <<loc>>, <<A!Single(ip)>> >>)
  PROVE  /\ app \in {1, 2}
         /\ app = 1 <=> A!InRange(ip, loc)
<1> DEFINE apps == << <<loc>>, <<A!Single(ip)>> >>
           Has(a) == \E j \in DOMAIN apps[a] : A!InRange(ip, apps[a][j])
<1>1. Has(1) <=> A!InRange(ip, loc)
  OBVIOUS
<1>2. Has(2)
  <2>1. A!InRange(ip, A!Single(ip))
    BY DEF A!InRange, A!IsRange, A!Single
  <2>. QED  BY <2>1
<1>3. DOMAIN apps = 1 .. 2
  OBVIOUS
<1>4. app = IF \E a \in DOMAIN apps : Has(a)
            THEN CHOOSE a \in DOMAIN apps : Has(a) /\ \A b \in 1 .. a - 1 : ~Has(b)
            ELSE 0
  BY DEF A!Application
<1> HIDE DEF apps, Has
<1>5. \E a \in DOMAIN apps : Has(a) /\ \A b \in 1 .. a - 1 : ~Has(b)
  <2>1. CASE Has(1)
    <3>1. 1 \in DOMAIN apps /\ 1 .. 1 - 1 = {}
      BY <1>3
    <3>. QED  BY <2>1, <3>1
  <2>2. CASE ~Has(1)
    <3>1. 2 \in DOMAIN apps /\ 1 .. 2 - 1 = {1}
      BY <1>3
    <3>. QED  BY <1>2, <2>2, <3>1
  <2>. QED  BY <2>1, <2>2
<1>6. app \in 1 .. 2 /\ Has(app) /\ \A b \in 1 .. app - 1 : ~Has(b)
  BY <1>3, <1>4, <1>5
<1>7. app = 1 \/ app = 2
  BY <1>6
<1>8. app = 2 => ~Has(1)
  <2>1. 1 \in 1 .. 2 - 1
    OBVIOUS
  <2>. QED  BY <1>6, <2>1
<1>. QED  BY <1>1, <1>6, <1>7, <1>8

(* The octet in which the ends differ first exists. *)
LEMMA StartFacts ==
  ASSUME NEW loc, NEW i, i = A!RangeStart(loc)
  PROVE  /\ i \in 1 .. 5
         /\ i < 5 => loc.first[i] # loc.last[i]
         /\ \A j \in 1 .. i - 1 : loc.first[j] = loc.last[j]
<1> DEFINE Same(j) == loc.first[j] = loc.last[j]
           First(k) == (k < 5 => ~Same(k)) /\ \A j \in 1 .. k - 1 : Same(j)
<1>1. i = CHOOSE k \in 1 .. 5 : First(k)
  BY DEF A!RangeStart
<1>2. \E k \in 1 .. 5 : First(k)
  <2>1. CASE ~Same(1)
    <3>1. First(1)
      BY <2>1
    <3>. QED  BY <3>1
  <2>2. CASE Same(1) /\ ~Same(2)
    <3>1. First(2)
      BY <2>2
    <3>. QED  BY <3>1
  <2>3. CASE Same(1) /\ Same(2) /\ ~Same(3)
    <3>1. \A j \in 1 .. 3 - 1 : j = 1 \/ j = 2
      OBVIOUS
    <3>2. First(3)
      BY <2>3, <3>1
    <3>. QED  BY <3>2
  <2>4. CASE Same(1) /\ Same(2) /\ Same(3) /\ ~Same(4)
    <3>1. \A j \in 1 .. 4 - 1 : j = 1 \/ j = 2 \/ j = 3
      OBVIOUS
    <3>2. First(4)
      BY <2>4, <3>1
    <3>. QED  BY <3>2
  <2>5. CASE Same(1) /\ Same(2) /\ Same(3) /\ Same(4)
    <3>1. \A j \in 1 .. 5 - 1 : j = 1 \/ j = 2 \/ j = 3 \/ j = 4
      OBVIOUS
    <3>2. First(5)
      BY <2>5, <3>1
    <3>. QED  BY <3>2
  <2>. QED  BY <2>1, <2>2, <2>3, <2>4, <2>5
<1>3. i \in 1 .. 5 /\ First(i)
  <2> HIDE DEF First
  <2>. QED  BY <1>1, <1>2
<1>. QED  BY <1>3

(* The order of addresses, octet by octet. *)
LEMMA BeforeCases ==
  ASSUME NEW a, NEW b
  PROVE  A!Before(a, b) <=>
           \/ a[1] < b[1]
           \/ a[1] = b[1] /\ a[2] < b[2]
           \/ a[1] = b[1] /\ a[2] = b[2] /\ a[3] < b[3]
           \/ a[1] = b[1] /\ a[2] = b[2] /\ a[3] = b[3] /\ a[4] < b[4]
<1>1. /\ 1 .. 1 - 1 = {} /\ 1 .. 2 - 1 = {1} /\ 1 .. 3 - 1 = {1, 2} /\ 1 .. 4 - 1 = {1, 2, 3}
      /\ 1 .. 4 = {1, 2, 3, 4}
  OBVIOUS
<1>2. A!Before(a, b) <=> \E i \in {1, 2, 3, 4} : a[i] < b[i] /\ \A j \in 1 .. i - 1 : a[j] = b[j]
  BY <1>1 DEF A!Before
<1>. QED  BY <1>1, <1>2

(* Above the lower edge, from the octet after the first difference on. *)
LEMMA EdgeTopCases ==
  ASSUME NEW e, NEW ip
  PROVE  /\ A!EdgeTop(2, e, ip) <=>
              /\ e[2] <= ip[2]
              /\ e[2] = ip[2] => e[3] <= ip[3]
              /\ e[2] = ip[2] /\ e[3] = ip[3] => e[4] <= ip[4]
         /\ A!EdgeTop(3, e, ip) <=> e[3] <= ip[3] /\ (e[3] = ip[3] => e[4] <= ip[4])
         /\ A!EdgeTop(4, e, ip) <=> e[4] <= ip[4]
         /\ A!EdgeTop(5, e, ip)
<1>1. /\ 2 .. 4 = {2, 3, 4} /\ 3 .. 4 = {3, 4} /\ 4 .. 4 = {4} /\ 5 .. 4 = {}
      /\ 2 .. 2 - 1 = {} /\ 2 .. 3 - 1 = {2} /\ 2 .. 4 - 1 = {2, 3}
      /\ 3 .. 3 - 1 = {} /\ 3 .. 4 - 1 = {3} /\ 4 .. 4 - 1 = {}
  OBVIOUS
<1>2. A!EdgeTop(2, e, ip) <=>
        \A j \in {2, 3, 4} : (\A k \in 2 .. j - 1 : e[k] = ip[k]) => e[j] <= ip[j]
  BY <1>1 DEF A!EdgeTop
<1>3. A!EdgeTop(3, e, ip) <=> \A j \in {3, 4} : (\A k \in 3 .. j - 1 : e[k] = ip[k]) => e[j] <= ip[j]
  BY <1>1 DEF A!EdgeTop
<1>4. A!EdgeTop(4, e, ip) <=> \A j \in {4} : (\A k \in 4 .. j - 1 : e[k] = ip[k]) => e[j] <= ip[j]
  BY <1>1 DEF A!EdgeTop
<1>5. A!EdgeTop(5, e, ip)
  BY <1>1 DEF A!EdgeTop
<1>. QED  BY <1>1, <1>2, <1>3, <1>4, <1>5

(* The octets of an address are numbers. *)
LEMMA OctetsAreNumbers ==
  ASSUME Octets \in SUBSET Nat, NEW a \in A!Addresses
  PROVE  a[1] \in Nat /\ a[2] \in Nat /\ a[3] \in Nat /\ a[4] \in Nat
<1>1. a \in [1 .. 4 -> Nat]
  BY DEF A!Addresses
<1>. QED  BY <1>1

(* Of a range that is read as one, its addresses belong to the first       *)
(* application, and no others but those that leave it above the octet in   *)
(* which its ends part.                                                    *)
LEMMA RangeEdges ==
  ASSUME Octets \in SUBSET Nat, NEW ip \in A!Addresses, NEW loc,
         loc.first \in A!Addresses, loc.last \in A!Addresses,
         ~A!Before(loc.last, loc.first), A!IsRange(loc)
  PROVE  /\ ~A!Before(ip, loc.first) /\ ~A!Before(loc.last, ip) => A!InRange(ip, loc)
         /\ A!InRange(ip, loc) /\ A!Before(loc.last, ip) => A!OnUpperEdge(ip, loc)
         /\ A!InRange(ip, loc) => ~A!Before(ip, loc.first)
<1> DEFINE f == loc.first
           l == loc.last
           i == A!RangeStart(loc)
<1>1. /\ f[1] \in Nat /\ f[2] \in Nat /\ f[3] \in Nat /\ f[4] \in Nat
      /\ l[1] \in Nat /\ l[2] \in Nat /\ l[3] \in Nat /\ l[4] \in Nat
      /\ ip[1] \in Nat /\ ip[2] \in Nat /\ ip[3] \in Nat /\ ip[4] \in Nat
  BY OctetsAreNumbers
<1>2. /\ i \in 1 .. 5 /\ (i < 5 => f[i] # l[i]) /\ \A j \in 1 .. i - 1 : f[j] = l[j]
  BY StartFacts
<1>3. A!InRange(ip, loc) <=>
        /\ \A j \in 1 .. i - 1 : ip[j] = f[j]
        /\ i < 5 => /\ f[i] <= ip[i] /\ ip[i] <= l[i]
                    /\ f[i] = ip[i] => A!EdgeTop(i + 1, f, ip)
  BY DEF A!InRange, A!EdgeBottom
<1>4. A!OnUpperEdge(ip, loc) <=> \A j \in 1 .. i : j < 5 => ip[j] = l[j]
  BY DEF A!OnUpperEdge
<1>5. ~A!Before(l, f)
  OBVIOUS
<1> HIDE DEF f, l, i
<1>6. /\ 1 .. 1 - 1 = {} /\ 1 .. 2 - 1 = {1} /\ 1 .. 3 - 1 = {1, 2} /\ 1 .. 4 - 1 = {1, 2, 3}
      /\ 1 .. 5 - 1 = {1, 2, 3, 4}
      /\ 1 .. 1 = {1} /\ 1 .. 2 = {1, 2} /\ 1 .. 3 = {1, 2, 3} /\ 1 .. 4 = {1, 2, 3, 4}
      /\ 1 .. 5 = {1, 2, 3, 4, 5}
  OBVIOUS
<1> DEFINE Goal == /\ ~A!Before(ip, f) /\ ~A!Before(l, ip) => A!InRange(ip, loc)
                   /\ A!InRange(ip, loc) /\ A!Before(l, ip) => A!OnUpperEdge(ip, loc)
                   /\ A!InRange(ip, loc) => ~A!Before(ip, f)
<1> HIDE DEF Goal
<1>7. ASSUME i = 1 PROVE Goal
  <2>1. A!InRange(ip, loc) <=> /\ f[1] <= ip[1] /\ ip[1] <= l[1]
                               /\ f[1] = ip[1] => A!EdgeTop(2, f, ip)
    BY <1>3, <1>6, <1>7
  <2>2. A!OnUpperEdge(ip, loc) <=> ip[1] = l[1]
    BY <1>4, <1>6, <1>7
  <2>3. f[1] # l[1]
    BY <1>2, <1>7
  <2>. QED  BY <1>1, <1>5, <2>1, <2>2, <2>3, EdgeTopCases, BeforeCases DEF Goal
<1>8. ASSUME i = 2 PROVE Goal
  <2>1. A!InRange(ip, loc) <=> /\ ip[1] = f[1]
                               /\ f[2] <= ip[2] /\ ip[2] <= l[2]
                               /\ f[2] = ip[2] => A!EdgeTop(3, f, ip)
    BY <1>3, <1>6, <1>8
  <2>2. A!OnUpperEdge(ip, loc) <=> ip[1] = l[1] /\ ip[2] = l[2]
    BY <1>4, <1>6, <1>8
  <2>3. f[1] = l[1] /\ f[2] # l[2]
    BY <1>2, <1>6, <1>8
  <2>. QED  BY <1>1, <1>5, <2>1, <2>2, <2>3, EdgeTopCases, BeforeCases DEF Goal
<1>9. ASSUME i = 3 PROVE Goal
  <2>1. A!InRange(ip, loc) <=> /\ ip[1] = f[1] /\ ip[2] = f[2]
                               /\ f[3] <= ip[3] /\ ip[3] <= l[3]
                               /\ f[3] = ip[3] => A!EdgeTop(4, f, ip)
    BY <1>3, <1>6, <1>9
  <2>2. A!OnUpperEdge(ip, loc) <=> ip[1] = l[1] /\ ip[2] = l[2] /\ ip[3] = l[3]
    BY <1>4, <1>6, <1>9
  <2>3. f[1] = l[1] /\ f[2] = l[2] /\ f[3] # l[3]
    BY <1>2, <1>6, <1>9
  <2>. QED  BY <1>1, <1>5, <2>1, <2>2, <2>3, EdgeTopCases, BeforeCases DEF Goal
<1>10. ASSUME i = 4 PROVE Goal
  <2>1. A!InRange(ip, loc) <=> /\ ip[1] = f[1] /\ ip[2] = f[2] /\ ip[3] = f[3]
                               /\ f[4] <= ip[4] /\ ip[4] <= l[4]
    BY <1>3, <1>6, <1>10, EdgeTopCases
  <2>2. f[1] = l[1] /\ f[2] = l[2] /\ f[3] = l[3] /\ f[4] # l[4]
    BY <1>2, <1>6, <1>10
  <2>. QED  BY <1>1, <1>5, <2>1, <2>2, BeforeCases DEF Goal
<1>11. ASSUME i = 5 PROVE Goal
  <2>1. A!InRange(ip, loc) <=> ip[1] = f[1] /\ ip[2] = f[2] /\ ip[3] = f[3] /\ ip[4] = f[4]
    BY <1>3, <1>6, <1>11
  <2>2. f[1] = l[1] /\ f[2] = l[2] /\ f[3] = l[3] /\ f[4] = l[4]
    BY <1>2, <1>6, <1>11
  <2>. QED  BY <1>1, <2>1, <2>2, BeforeCases DEF Goal
<1>12. i = 1 \/ i = 2 \/ i = 3 \/ i = 4 \/ i = 5
  BY <1>2
<1>13. Goal
  BY <1>7, <1>8, <1>9, <1>10, <1>11, <1>12
<1>. QED  BY <1>13 DEF Goal, f, l

(* check_edge and in_range put a client whose address is in the range into *)
(* its application, for every range that is read as one and every client;  *)
(* the addresses that get in besides are those the property names.         *)
THEOREM RangeAlwaysSound ==
  ASSUME Octets \in SUBSET Nat, NEW first \in A!Addresses, NEW last \in A!Addresses,
         ~A!Before(last, first), NEW loc \in {A!Location(first, last), A!Single(first)}
  PROVE  A!RangeSound(loc)
<1> SUFFICES ASSUME NEW ip \in A!Addresses,
                    NEW app, app = A!Application(ip, << <<loc>>, <<A!Single(ip)>> >>)
    PROVE  /\ app \in {1, 2}
           /\ A!IsRange(loc) /\ ~A!Before(ip, loc.first) /\ ~A!Before(loc.last, ip) => app = 1
           /\ app = 1 => \/ ~A!Before(ip, loc.first) /\ ~A!Before(loc.last, ip)
                         \/ ~A!Before(ip, loc.first) /\ A!OnUpperEdge(ip, loc)
           /\ ~A!IsRange(loc) => (app = 1 <=> ip = loc.first)
  BY DEF A!RangeSound
<1>1. app \in {1, 2} /\ (app = 1 <=> A!InRange(ip, loc))
  BY FirstOrSecond
<1>2. CASE A!IsRange(loc)
  <2>1. loc.first = first /\ loc.last = last
    BY <1>2 DEF A!Location, A!Single, A!IsRange
  <2>2. ~A!Before(loc.last, loc.first)
    BY <2>1
  <2>. QED  BY <1>1, <1>2, <2>1, <2>2, RangeEdges
<1>3. CASE ~A!IsRange(loc)
  <2>1. A!InRange(ip, loc) <=> ip = loc.first
    BY <1>3 DEF A!InRange
  <2>2. loc.first = first /\ loc.last \in {first, last}
    BY DEF A!Location, A!Single
  <2>3. ~A!Before(first, first)
    <3>1. first[1] \in Nat /\ first[2] \in Nat /\ first[3] \in Nat /\ first[4] \in Nat
      BY OctetsAreNumbers
    <3>. QED  BY <3>1, BeforeCases
  <2>4. A!InRange(ip, loc) => ~A!Before(ip, loc.first) /\ ~A!Before(loc.last, ip)
    BY <2>1, <2>2, <2>3
  <2>. QED  BY <1>1, <1>3, <2>1, <2>4
<1>. QED  BY <1>2, <1>3

-----------------------------------------------------------------------------
(* Induction *)

(* A set with 0 that is closed under successor has every natural. *)
LEMMA SetClosure ==
  ASSUME NEW T, 0 \in T, \A n \in Nat : n \in T => n + 1 \in T
  PROVE  Nat \subseteq T
<1> SUFFICES ASSUME Nat \ T # {}
             PROVE  FALSE
  OBVIOUS
<1> DEFINE Lower == {p \in Nat \X Nat : p[1] < p[2]}
           Missing == Nat \ T
<1>1. IsWellFoundedOn(Lower, Nat)
  BY NatLessThanWellFounded DEF OpToRel
<1>2. PICK m \in Missing : \A n \in Missing : <<n, m>> \notin Lower
  <2>1. Missing \in SUBSET Nat /\ Missing # {}
    OBVIOUS
  <2> HIDE DEF Lower, Missing
  <2>. QED  BY <1>1, <2>1, WFMin
<1>3. m \in Nat /\ m \notin T /\ m # 0
  OBVIOUS
<1>4. m - 1 \in Nat /\ (m - 1) + 1 = m
  BY <1>3
<1>5. <<m - 1, m>> \in Lower
  BY <1>3, <1>4
<1>6. m - 1 \in T
  BY <1>2, <1>4, <1>5
<1>. QED  BY <1>3, <1>4, <1>6

-----------------------------------------------------------------------------
(* The threshold of a time window *)

(* Ratios that are numbers. *)
Ratios == [num : Int, den : Nat \ {0}]
Positive(p) == p \in Ratios /\ p.num > 0

(* What is counted in a window and about an application, for all counts.   *)
AnyWindow == W!Windows(1 .. Infinite, Nat)
AnyClass == W!Classes({p \in Ratios : p.num > 0}, Nat, Nat)

(* Products keep the order of their factors. *)
LEMMA SmallerProduct ==
  ASSUME NEW a \in Int, NEW b \in Int, NEW m \in Nat \ {0}
  PROVE  /\ a < b <=> a * m < b * m
         /\ a <= b <=> a * m <= b * m
         /\ a = b <=> a * m = b * m
BY Z3

LEMMA CrossTransitive ==
  ASSUME NEW a \in Int, NEW c \in Int, NEW e \in Int,
         NEW b \in Nat \ {0}, NEW d \in Nat \ {0}, NEW f \in Nat \ {0}
  PROVE  /\ a * d < c * b /\ c * f <= e * d => a * f < e * b
         /\ a * d <= c * b /\ c * f <= e * d => a * f <= e * b
         /\ a * d <= c * b /\ c * f < e * d => a * f < e * b
<1> DEFINE ad == a * d
           cb == c * b
           cf == c * f
           ed == e * d
           af == a * f
           eb == e * b
<1>1. ad \in Int /\ cb \in Int /\ cf \in Int /\ ed \in Int /\ af \in Int /\ eb \in Int
  OBVIOUS
<1>2. ad * f = af * d /\ cb * f = cf * b /\ ed * b = eb * d
  OBVIOUS
<1> SUFFICES /\ ad < cb /\ cf <= ed => af < eb
             /\ ad <= cb /\ cf <= ed => af <= eb
             /\ ad <= cb /\ cf < ed => af < eb
  OBVIOUS
<1> HIDE DEF ad, cb, cf, ed, af, eb
<1>3. /\ ad < cb <=> ad * f < cb * f
      /\ ad <= cb <=> ad * f <= cb * f
  BY <1>1, SmallerProduct
<1>4. /\ cf < ed <=> cf * b < ed * b
      /\ cf <= ed <=> cf * b <= ed * b
  BY <1>1, SmallerProduct
<1>5. /\ af < eb <=> af * d < eb * d
      /\ af <= eb <=> af * d <= eb * d
  BY <1>1, SmallerProduct
<1> DEFINE adf == ad * f
           cbf == cb * f
           edb == ed * b
<1>6. adf \in Int /\ cbf \in Int /\ edb \in Int
  BY <1>1
<1>7. /\ ad < cb <=> adf < cbf
      /\ ad <= cb <=> adf <= cbf
      /\ cf < ed <=> cbf < edb
      /\ cf <= ed <=> cbf <= edb
      /\ af < eb <=> adf < edb
      /\ af <= eb <=> adf <= edb
  BY <1>2, <1>3, <1>4, <1>5
<1> HIDE DEF adf, cbf, edb
<1>. QED  BY <1>6, <1>7

(* Less is a total order of the ratios that are numbers, up to their form. *)
LEMMA LessOrders ==
  ASSUME NEW p \in Ratios, NEW q \in Ratios, NEW r \in Ratios
  PROVE  /\ ~W!Less(p, p)
         /\ W!Less(p, q) => ~W!Less(q, p)
         /\ W!Less(p, q) /\ ~W!Less(r, q) => W!Less(p, r)
         /\ ~W!Less(q, p) /\ ~W!Less(r, q) => ~W!Less(r, p)
         /\ ~W!Less(q, p) /\ W!Less(q, r) => W!Less(p, r)
<1>1. /\ p.num \in Int /\ q.num \in Int /\ r.num \in Int
      /\ p.den \in Nat \ {0} /\ q.den \in Nat \ {0} /\ r.den \in Nat \ {0}
  BY DEF Ratios
<1> DEFINE a == p.num
           b == p.den
           c == q.num
           d == q.den
           e == r.num
           f == r.den
<1>2. /\ a * d < c * b /\ c * f <= e * d => a * f < e * b
      /\ a * d <= c * b /\ c * f <= e * d => a * f <= e * b
      /\ a * d <= c * b /\ c * f < e * d => a * f < e * b
  <2> HIDE DEF a, b, c, d, e, f
  <2>1. /\ a \in Int /\ c \in Int /\ e \in Int
        /\ b \in Nat \ {0} /\ d \in Nat \ {0} /\ f \in Nat \ {0}
    BY <1>1 DEF a, b, c, d, e, f
  <2>. QED  BY <2>1, CrossTransitive
<1>3. /\ W!Less(p, p) <=> a * b < a * b
      /\ W!Less(p, q) <=> a * d < c * b
      /\ W!Less(q, p) <=> c * b < a * d
      /\ W!Less(q, r) <=> c * f < e * d
      /\ W!Less(r, q) <=> e * d < c * f
      /\ W!Less(p, r) <=> a * f < e * b
      /\ W!Less(r, p) <=> e * b < a * f
  BY DEF W!Less
<1>4. /\ a * b \in Int /\ a * d \in Int /\ c * b \in Int /\ c * f \in Int
      /\ e * d \in Int /\ a * f \in Int /\ e * b \in Int
  BY <1>1
<1> DEFINE ab == a * b
           ad == a * d
           cb == c * b
           cf == c * f
           ed == e * d
           af == a * f
           eb == e * b
<1>5. /\ ad < cb /\ cf <= ed => af < eb
      /\ ad <= cb /\ cf <= ed => af <= eb
      /\ ad <= cb /\ cf < ed => af < eb
  BY <1>2
<1>6. /\ W!Less(p, p) <=> ab < ab
      /\ W!Less(p, q) <=> ad < cb
      /\ W!Less(q, p) <=> cb < ad
      /\ W!Less(q, r) <=> cf < ed
      /\ W!Less(r, q) <=> ed < cf
      /\ W!Less(p, r) <=> af < eb
      /\ W!Less(r, p) <=> eb < af
  BY <1>3
<1>7. ab \in Int /\ ad \in Int /\ cb \in Int /\ cf \in Int /\ ed \in Int /\ af \in Int /\ eb \in Int
  BY <1>4
<1> HIDE DEF ab, ad, cb, cf, ed, af, eb
<1>. QED  BY <1>5, <1>6, <1>7

(* A ratio raised to a positive one is positive. *)
LEMMA RaisedFacts ==
  ASSUME NEW p \in Ratios, NEW q \in Ratios
  PROVE  /\ W!Raised(p, q) \in {p, q} /\ W!Raised(p, q) \in Ratios
         /\ Positive(q) => Positive(W!Raised(p, q))
<1>1. W!Raised(p, q) = IF W!Less(p, q) THEN q ELSE p
  BY DEF W!Raised
<1>2. Positive(q) /\ ~W!Less(p, q) => Positive(p)
  <2> SUFFICES ASSUME Positive(q), ~W!Less(p, q) PROVE p.num > 0
    BY DEF Positive
  <2>1. p.num \in Int /\ q.num \in Nat \ {0} /\ p.den \in Nat \ {0} /\ q.den \in Nat \ {0}
    BY DEF Positive, Ratios
  <2>2. ~(p.num * q.den < q.num * p.den)
    BY DEF W!Less
  <2> DEFINE a == p.num
             b == p.den
             c == q.num
             d == q.den
  <2>3. ~(a * d < c * b)
    BY <2>2
  <2> HIDE DEF a, b, c, d
  <2>4. a \in Int /\ b \in Nat \ {0} /\ c \in Nat \ {0} /\ d \in Nat \ {0}
    BY <2>1 DEF a, b, c, d
  <2>5. c * b > 0 /\ c * b \in Int /\ a * d \in Int
    BY <2>4
  <2>6. a * d > 0
    BY <2>3, <2>5
  <2>7. a > 0
    BY <2>4, <2>6, Z3
  <2>. QED  BY <2>7 DEF a
<1>. QED  BY <1>1, <1>2

(* Ratios of numbers with a denominator that is not 0. *)
LEMMA RatioIs ==
  /\ \A m, n : W!Ratio(m, n).num = m /\ W!Ratio(m, n).den = n
  /\ \A m \in Int, n \in Nat \ {0} : W!Ratio(m, n) \in Ratios
  /\ \A m \in Int : W!Whole(m) \in Ratios /\ W!Whole(m).num = m /\ W!Whole(m).den = 1
  /\ \A m \in Nat \ {0}, n \in Nat \ {0} : Positive(W!Ratio(m, n))
  /\ \A m \in Nat \ {0} : Positive(W!Whole(m))
BY DEF W!Ratio, W!Whole, Ratios, Positive

(* Unless the response times are 0 and the wait was as long as the         *)
(* deadline, the headroom is a positive number; if requests are late, it   *)
(* is less than 1.                                                         *)
LEMMA HeadroomFacts ==
  ASSUME Deadline \in Nat \ {0}, NEW c \in AnyClass, W!Measured(c)
  PROVE  /\ Positive(W!Headroom(c))
         /\ W!Late(c) => W!Less(W!Headroom(c), W!Whole(1))
<1> DEFINE slack == Deadline - c.waiting
           per   == c.percentile
           first == W!Ratio(slack, per)
           second == IF W!Less(W!Whole(1000), first) THEN W!Ratio(slack, Deadline) ELSE first
           third  == IF W!Less(second, W!Whole(-1000)) THEN W!Ratio(11, 10) ELSE second
<1>1. slack \in Int /\ per \in Nat /\ (per > 0 \/ slack # 0)
  BY DEF AnyClass, W!Classes, W!Measured
<1>2. W!Headroom(c) = W!Raised(third, W!Ratio(1, 1000))
  BY DEF W!Headroom
<1>3. W!Late(c) <=> slack < per /\ slack >= -1000 * per
  BY DEF W!Late
<1>4. W!Less(W!Whole(1000), first) <=> 1000 * per < slack * 1
  BY RatioIs DEF W!Less
<1>5. W!Less(first, W!Whole(-1000)) <=> slack * 1 < -1000 * per
  BY <1>1 DEF W!Less, W!Whole, W!Ratio
<1>6. first \in Ratios \/ per = 0
  BY <1>1, RatioIs
<1>7. W!Ratio(slack, Deadline) \in Ratios /\ W!Ratio(11, 10) \in Ratios
  BY <1>1, RatioIs
<1> HIDE DEF slack, per, first
<1>8. second \in Ratios \/ (second = first /\ per = 0 /\ slack < 0)
  BY <1>1, <1>4, <1>6, <1>7
<1>9. third \in Ratios
  BY <1>1, <1>5, <1>7, <1>8
<1>10. Positive(W!Headroom(c))
  <2> HIDE DEF third
  <2>. QED  BY <1>2, <1>9, RatioIs, RaisedFacts
<1>11. ASSUME W!Late(c) PROVE W!Less(W!Headroom(c), W!Whole(1))
  <2>1. per > 0 /\ slack < per /\ slack >= -1000 * per
    BY <1>1, <1>3, <1>11
  <2>2. third = first
    BY <1>1, <1>4, <1>5, <2>1
  <2>3. W!Less(first, W!Whole(1))
    <3>1. W!Less(first, W!Whole(1)) <=> slack * 1 < 1 * per
      BY RatioIs DEF W!Less, first
    <3>. QED  BY <1>1, <2>1, <3>1
  <2>4. W!Less(W!Ratio(1, 1000), W!Whole(1))
    BY RatioIs DEF W!Less
  <2> HIDE DEF third
  <2>5. W!Headroom(c) = first \/ W!Headroom(c) = W!Ratio(1, 1000)
    BY <1>2, <2>2 DEF W!Raised
  <2>. QED  BY <2>3, <2>4, <2>5
<1>. QED  BY <1>10, <1>11

(* The types of what is computed from a window. *)
LEMMA WindowIs ==
  ASSUME Infinite \in Nat \ {0}, NEW w \in AnyWindow
  PROVE  /\ w.limit \in 1 .. Infinite /\ w.longest \in Nat
         /\ W!LowerLength(w) \in Nat /\ W!UpperLength(w) \in Nat /\ W!LowerLength(w) <= W!UpperLength(w)
         /\ W!Completed(w) \in Nat \ {0}
         /\ W!LowerBound(w) \in Ratios /\ W!UpperBound(w) \in Ratios
<1>1. /\ w.limit \in 1 .. Infinite /\ w.longest \in Nat /\ w.completed \in Nat
      /\ w.running \in Nat /\ w.soon \in Nat /\ w.queued \in Nat /\ w.soon <= w.queued
  BY DEF AnyWindow, W!Windows
<1>2. /\ W!LowerLength(w) \in Nat /\ W!UpperLength(w) \in Nat /\ W!LowerLength(w) <= W!UpperLength(w)
      /\ W!Completed(w) \in Nat \ {0}
  BY <1>1 DEF W!LowerLength, W!UpperLength, W!Completed
<1>3. W!LowerLength(w) * w.limit \in Int /\ W!UpperLength(w) * w.limit \in Int
  BY <1>1, <1>2
<1>. QED  BY <1>1, <1>2, <1>3, RatioIs DEF W!LowerBound, W!UpperBound

(* So is the target; if requests are late, it is below the threshold. *)
LEMMA TargetFacts ==
  ASSUME Deadline \in Nat \ {0}, Infinite \in Nat \ {0},
         NEW w \in AnyWindow, NEW c \in AnyClass, W!Measured(c)
  PROVE  /\ Positive(W!Target(w, c))
         /\ W!Underloaded(c) /\ W!Late(c) => W!Less(W!Target(w, c), W!Whole(w.limit))
<1> DEFINE n == IF W!Underloaded(c) THEN w.limit ELSE w.longest
           h == W!Headroom(c)
<1>1. n \in Nat /\ w.limit \in Nat \ {0}
  BY WindowIs
<1>2. Positive(h) /\ (W!Late(c) => W!Less(h, W!Whole(1)))
  BY HeadroomFacts
<1>3. W!Target(w, c) = W!Raised(W!Times(h, n), W!Ratio(1, 100))
  BY DEF W!Target
<1>4. h.num \in Nat \ {0} /\ h.den \in Nat \ {0}
  BY <1>2 DEF Positive, Ratios
<1>5. W!Times(h, n) = W!Ratio(h.num * n, h.den)
  BY DEF W!Times
<1>6. W!Late(c) => h.num * 1 < 1 * h.den
  BY <1>2, RatioIs DEF W!Less
<1>7. W!Underloaded(c) => n = w.limit
  OBVIOUS
<1> HIDE DEF n, h
<1>8. h.num * n \in Int
  BY <1>1, <1>4
<1>9. W!Times(h, n) \in Ratios
  BY <1>4, <1>5, <1>8, RatioIs
<1>10. Positive(W!Target(w, c))
  BY <1>3, <1>9, RatioIs, RaisedFacts
<1>11. ASSUME W!Underloaded(c), W!Late(c) PROVE W!Less(W!Target(w, c), W!Whole(w.limit))
  <2>1. n = w.limit /\ h.num < h.den
    BY <1>4, <1>6, <1>7, <1>11
  <2>2. h.num * n < h.den * n
    BY <1>1, <1>4, <2>1, SmallerProduct
  <2>3. W!Less(W!Times(h, n), W!Whole(w.limit))
    <3>1. W!Less(W!Times(h, n), W!Whole(w.limit)) <=> (h.num * n) * 1 < w.limit * h.den
      BY <1>1, <1>5, RatioIs DEF W!Less
    <3>2. (h.num * n) * 1 = h.num * n /\ w.limit * h.den = h.den * n
      BY <1>1, <1>4, <2>1
    <3>. QED  BY <2>2, <3>1, <3>2
  <2>4. W!Less(W!Ratio(1, 100), W!Whole(w.limit))
    BY <1>1, RatioIs DEF W!Less
  <2>5. W!Target(w, c) = W!Times(h, n) \/ W!Target(w, c) = W!Ratio(1, 100)
    BY <1>3 DEF W!Raised
  <2>. QED  BY <2>3, <2>4, <2>5
<1>. QED  BY <1>10, <1>11

(* A class always asks for something, and what it asks for is positive. *)
LEMMA AsksFacts ==
  ASSUME Deadline \in Nat \ {0}, Infinite \in Nat \ {0},
         NEW w \in AnyWindow, NEW c \in AnyClass, W!Measured(c)
  PROVE  /\ W!Asks(w, c) # <<>> /\ Positive(W!Asks(w, c)[1])
         /\ W!Case1(w, c) \/ (~W!Underloaded(c) /\ ~W!Case5(w, c)) => W!Asks(w, c)[1] = W!Whole(Infinite)
         /\ W!Underloaded(c) /\ W!Late(c) /\ ~W!Case1(w, c)
              => W!Less(W!Asks(w, c)[1], W!Whole(w.limit))
<1> DEFINE least == W!Ratio(1, 100)
           upper == W!Raised(W!UpperBound(w), least)
           lower == W!Raised(W!LowerBound(w), least)
           raised == W!Raised(W!Target(w, c), lower)
<1>1. /\ w.limit \in 1 .. Infinite
      /\ W!LowerLength(w) \in Nat /\ W!UpperLength(w) \in Nat /\ W!LowerLength(w) <= W!UpperLength(w)
      /\ W!Completed(w) \in Nat \ {0}
      /\ W!LowerBound(w) \in Ratios /\ W!UpperBound(w) \in Ratios
  BY WindowIs
<1>2. Positive(W!Target(w, c)) /\ W!Target(w, c) \in Ratios /\ W!Target(w, c).den # 0
  BY TargetFacts DEF Positive, Ratios
<1>3. Positive(least) /\ least \in Ratios /\ Positive(W!Whole(Infinite))
  BY RatioIs
<1>4. Positive(c.asked)
  BY DEF AnyClass, W!Classes, Positive
<1> HIDE DEF least
<1>5. Positive(upper) /\ Positive(lower) /\ lower \in Ratios
  BY <1>1, <1>3, RaisedFacts
<1> HIDE DEF lower
<1>6. Positive(raised)
  BY <1>2, <1>5, RaisedFacts
<1>7. W!Underloaded(c) => W!Case4(w, c)
  BY <1>2 DEF W!Case4
<1>8. ~W!Underloaded(c) => W!Case5(w, c) \/ W!Case6(w, c)
  BY <1>1 DEF W!Case5, W!Case6
<1>9. ~W!Underloaded(c) => ~W!Case1(w, c) /\ ~W!Case2(w, c) /\ ~W!Case3(w, c) /\ ~W!Case4(w, c)
  BY DEF W!Case1, W!Case2, W!Case3, W!Case4
<1>10. W!Asks(w, c) = IF W!Case1(w, c) THEN <<W!Whole(Infinite)>>
                    ELSE IF W!Case2(w, c) THEN <<upper>>
                    ELSE IF W!Case3(w, c) THEN <<W!Target(w, c)>>
                    ELSE IF W!Case4(w, c) THEN <<c.asked>>
                    ELSE IF W!Case5(w, c) THEN <<raised>>
                    ELSE IF W!Case6(w, c) THEN <<W!Whole(Infinite)>>
                    ELSE <<>>
  BY DEF W!Asks, lower, least
<1> HIDE DEF upper, raised
<1>11. W!Asks(w, c) # <<>> /\ Positive(W!Asks(w, c)[1])
  BY <1>2, <1>3, <1>4, <1>5, <1>6, <1>7, <1>8, <1>10
<1>12. W!Case1(w, c) \/ (~W!Underloaded(c) /\ ~W!Case5(w, c)) => W!Asks(w, c)[1] = W!Whole(Infinite)
  BY <1>8, <1>9, <1>10
<1>13. ASSUME W!Underloaded(c), W!Late(c), ~W!Case1(w, c)
       PROVE  W!Less(W!Asks(w, c)[1], W!Whole(w.limit))
  <2>1. W!Less(W!Target(w, c), W!Whole(w.limit))
    BY <1>13, TargetFacts
  <2>2. W!Case2(w, c) \/ W!Case3(w, c)
    BY <1>13, <2>1 DEF W!Case3
  <2>3. CASE W!Case2(w, c)
    <3>1. W!Less(W!UpperBound(w), W!Target(w, c))
      BY <2>3 DEF W!Case2
    <3>2. W!Whole(w.limit) \in Ratios /\ W!Less(least, W!Whole(w.limit))
      BY <1>1, RatioIs DEF W!Less, least
    <3>3. W!Less(W!UpperBound(w), W!Whole(w.limit))
      BY <1>1, <1>2, <2>1, <3>1, <3>2, LessOrders
    <3>4. upper = W!UpperBound(w) \/ upper = least
      BY DEF upper, W!Raised
    <3>5. W!Asks(w, c)[1] = upper
      BY <1>10, <1>13, <2>3
    <3>. QED  BY <3>2, <3>3, <3>4, <3>5
  <2>4. CASE ~W!Case2(w, c)
    <3>1. W!Asks(w, c)[1] = W!Target(w, c)
      BY <1>10, <1>13, <2>2, <2>4
    <3>. QED  BY <2>1, <3>1
  <2>. QED  BY <2>3, <2>4
<1>. QED  BY <1>11, <1>12, <1>13

(* Of finitely many numbers and one more, none is less than some one. *)
LEMMA LeastRatio ==
  ASSUME NEW n \in Nat, NEW f, \A i \in 1 .. n : f[i] \in Ratios, NEW r \in Ratios,
         NEW All, \A x : x \in All <=> x = r \/ \E i \in 1 .. n : x = f[i]
  PROVE  \E p \in All : \A q \in All : ~W!Less(q, p)
<1> DEFINE Among(k) == {f[i] : i \in 1 .. k} \cup {r}
           Has(k) == \E p \in Among(k) : \A q \in Among(k) : ~W!Less(q, p)
           T == {k \in Nat : k <= n => Has(k)}
<1>1. 0 \in T
  <2>1. Among(0) = {r}
    OBVIOUS
  <2>2. ~W!Less(r, r)
    BY LessOrders
  <2>. QED  BY <2>1, <2>2
<1>2. ASSUME NEW k \in Nat, k \in T PROVE k + 1 \in T
  <2> SUFFICES ASSUME k + 1 <= n PROVE Has(k + 1)
    OBVIOUS
  <2> DEFINE x == f[k + 1]
  <2>1. x \in Ratios
    OBVIOUS
  <2>2. Among(k + 1) = Among(k) \cup {x}
    <3>1. 1 .. k + 1 = (1 .. k) \cup {k + 1}
      OBVIOUS
    <3>. QED  BY <3>1
  <2>3. \A q \in Among(k) : q \in Ratios
    OBVIOUS
  <2>4. PICK p \in Among(k) : \A q \in Among(k) : ~W!Less(q, p)
    BY <1>2
  <2> HIDE DEF Among, x
  <2>5. ~W!Less(x, x)
    BY <2>1, LessOrders
  <2>6. CASE W!Less(x, p)
    <3>1. \A q \in Among(k) : ~W!Less(q, x)
      BY <2>1, <2>3, <2>4, <2>6, LessOrders
    <3>. QED  BY <2>2, <2>5, <3>1
  <2>7. CASE ~W!Less(x, p)
    BY <2>2, <2>4, <2>7
  <2>. QED  BY <2>6, <2>7
<1>3. n \in T
  <2> HIDE DEF T
  <2>. QED  BY <1>1, <1>2, SetClosure
<1>4. Among(n) = All
  OBVIOUS
<1> HIDE DEF Among
<1>. QED  BY <1>3, <1>4

(* A positive number that is not above a whole one, rounded up. *)
LEMMA CeilingFacts ==
  ASSUME NEW p, Positive(p), NEW n \in Nat \ {0}
  PROVE  /\ ~W!Less(W!Whole(n), p) => W!Ceiling(p) \in 1 .. n
         /\ W!Ceiling(W!Whole(n)) = n
<1>1. p.num \in Nat \ {0} /\ p.den \in Nat \ {0}
  BY DEF Positive, Ratios
<1>2. ASSUME ~W!Less(W!Whole(n), p) PROVE W!Ceiling(p) \in 1 .. n
  <2> DEFINE a == p.num
             b == p.den
             k == (-a) \div b
  <2>1. ~(n * b < a * 1)
    BY <1>2, RatioIs DEF W!Less
  <2>2. a \in Nat \ {0} /\ b \in Nat \ {0} /\ n * b \in Nat
    BY <1>1
  <2> HIDE DEF a, b
  <2>3. k \in Int /\ b * k <= -a /\ -a < b * (k + 1)
    BY <2>2
  <2> HIDE DEF k
  <2>4. k < 0
    <3> SUFFICES ASSUME k >= 0 PROVE FALSE
      BY <2>3
    <3>1. b * k >= 0
      BY <2>2, <2>3
    <3>. QED  BY <2>2, <2>3, <3>1
  <2>5. k >= -n
    <3>1. -(n * b) < b * (k + 1)
      BY <2>1, <2>2, <2>3
    <3>2. b * (k + 1 + n) > 0
      BY <2>2, <2>3, <3>1
    <3>3. k + 1 + n > 0
      <4> SUFFICES ASSUME k + 1 + n <= 0 PROVE FALSE
        BY <2>3
      <4>1. b * (k + 1 + n) <= 0
        BY <2>2, <2>3
      <4>. QED  BY <2>2, <2>3, <3>2, <4>1
    <3>. QED  BY <2>3, <3>3
  <2>6. W!Ceiling(p) = -k
    BY DEF W!Ceiling, a, b, k
  <2>. QED  BY <2>3, <2>4, <2>5, <2>6
<1>3. W!Ceiling(W!Whole(n)) = n
  <2>1. W!Ceiling(W!Whole(n)) = -((-n) \div 1)
    BY RatioIs DEF W!Ceiling
  <2>. QED  BY <2>1
<1>. QED  BY <1>2, <1>3

(* What twolsfqd_time_window finds is sound for all counts of a window,    *)
(* all response times and any number of applications.                      *)
THEOREM WindowAlwaysSound ==
  ASSUME Deadline \in Nat \ {0}, Infinite \in Nat \ {0},
         NEW w \in AnyWindow, NEW classes \in Seq(AnyClass)
  PROVE  W!WindowSound(w, classes)
<1> SUFFICES ASSUME \A i \in DOMAIN classes : W!Measured(classes[i])
             PROVE  /\ \A i \in DOMAIN classes : W!Asks(w, classes[i]) # <<>>
                    /\ W!Threshold(w, classes) \in 1 .. Infinite
                    /\ W!Overload(w, classes) => W!Threshold(w, classes) = Infinite
                    /\ \A i \in DOMAIN classes :
                         W!Underloaded(classes[i]) /\ W!Late(classes[i]) /\ ~W!Case1(w, classes[i])
                           => W!Less(W!Asks(w, classes[i])[1], W!Whole(w.limit))
  BY DEF W!WindowSound
<1> DEFINE f == [i \in DOMAIN classes |-> W!Asks(w, classes[i])[1]]
           r == W!Whole(Infinite)
           wanted == {f[i] : i \in DOMAIN classes} \cup {r}
           m == CHOOSE p \in wanted : \A q \in wanted : ~W!Less(q, p)
<1>1. \A i \in DOMAIN classes : classes[i] \in AnyClass
  OBVIOUS
<1>2. \A i \in DOMAIN classes :
        /\ W!Asks(w, classes[i]) # <<>> /\ Positive(f[i])
        /\ W!Case1(w, classes[i]) \/ (~W!Underloaded(classes[i]) /\ ~W!Case5(w, classes[i])) => f[i] = r
        /\ W!Underloaded(classes[i]) /\ W!Late(classes[i]) /\ ~W!Case1(w, classes[i])
             => W!Less(W!Asks(w, classes[i])[1], W!Whole(w.limit))
  BY <1>1, AsksFacts
<1>3. Positive(r)
  BY RatioIs
<1>4. W!Threshold(w, classes) = W!Ceiling(m)
  <2>1. wanted = {W!Asks(w, classes[i])[1] : i \in DOMAIN classes} \cup {W!Whole(Infinite)}
    OBVIOUS
  <2>. QED  BY <2>1 DEF W!Threshold
<1>5. Len(classes) \in Nat /\ DOMAIN classes = 1 .. Len(classes)
  OBVIOUS
<1> HIDE DEF f, r
<1>6. \E p \in wanted : \A q \in wanted : ~W!Less(q, p)
  <2> DEFINE n == Len(classes)
  <2>1. n \in Nat
    OBVIOUS
  <2>2. \A i \in 1 .. n : f[i] \in Ratios
    BY <1>2, <1>5 DEF Positive
  <2>3. r \in Ratios
    BY <1>3 DEF Positive
  <2>4. \A x : x \in wanted <=> x = r \/ \E i \in 1 .. n : x = f[i]
    BY <1>5
  <2> HIDE DEF n, wanted
  <2>. QED  BY <2>1, <2>2, <2>3, <2>4, LeastRatio
<1>7. m \in wanted /\ ~W!Less(r, m)
  <2>1. r \in wanted
    OBVIOUS
  <2> HIDE DEF wanted
  <2>. QED  BY <1>6, <2>1
<1>8. Positive(m)
  <2> HIDE DEF m
  <2>. QED  BY <1>2, <1>3, <1>7
<1>9. W!Overload(w, classes) => m = r
  <2> HIDE DEF m
  <2>1. W!Overload(w, classes) => \A i \in DOMAIN classes : f[i] = r
    BY <1>2 DEF W!Overload
  <2>. QED  BY <1>7, <2>1
<1> HIDE DEF m
<1>10. W!Ceiling(m) \in 1 .. Infinite
  BY <1>7, <1>8, CeilingFacts DEF r
<1>11. W!Ceiling(r) = Infinite
  BY <1>3, CeilingFacts DEF r
<1>. QED  BY <1>2, <1>4, <1>9, <1>10, <1>11

-----------------------------------------------------------------------------
(* The share of a request *)

(* Quotient and rest. *)
LEMMA DivisionIs ==
  ASSUME NEW x \in Nat, NEW m \in Nat \ {0}
  PROVE  /\ x \div m \in Nat /\ x % m \in Nat /\ x % m < m
         /\ x = m * (x \div m) + (x % m)
OBVIOUS

(* There is one way only to write x as a multiple of m and a rest. *)
LEMMA OneDivision ==
  ASSUME NEW m \in Nat \ {0}, NEW p \in Nat, NEW y \in Nat, y < m,
         NEW x \in Nat, x = m * p + y
  PROVE  x \div m = p /\ x % m = y
<1> DEFINE d == x \div m
           e == x % m
           md == m * d
           mp == m * p
<1>1. d \in Nat /\ e \in Nat /\ e < m /\ x = md + e
  BY DivisionIs
<1>2. d < p => md + m <= mp
  <2>1. d + 1 <= p => (d + 1) * m <= p * m
    BY <1>1, SmallerProduct
  <2>2. (d + 1) * m = md + m /\ p * m = mp
    BY <1>1
  <2>. QED  BY <1>1, <2>1, <2>2
<1>3. p < d => mp + m <= md
  <2>1. p + 1 <= d => (p + 1) * m <= d * m
    BY <1>1, SmallerProduct
  <2>2. (p + 1) * m = mp + m /\ d * m = md
    BY <1>1
  <2>. QED  BY <1>1, <2>1, <2>2
<1>4. md \in Nat /\ mp \in Nat /\ x = mp + y
  BY <1>1
<1>5. d = p
  <2> HIDE DEF d, e, md, mp
  <2>. QED  BY <1>1, <1>2, <1>3, <1>4
<1>6. md = mp
  BY <1>5
<1>7. e = y
  <2> HIDE DEF d, e, md, mp
  <2>. QED  BY <1>1, <1>4, <1>6
<1>. QED  BY <1>5, <1>7

(* Division of what is less than m, and of m. *)
LEMMA SmallDivision ==
  ASSUME NEW m \in Nat \ {0}, NEW x \in Nat
  PROVE  /\ x < m <=> x \div m = 0
         /\ x < m => x % m = x
         /\ m \div m = 1 /\ m % m = 0
<1> DEFINE d == x \div m
           e == x % m
           md == m * d
<1>1. d \in Nat /\ e \in Nat /\ e < m /\ x = md + e
  BY DivisionIs
<1>2. 1 <= d => m <= md
  <2> HIDE DEF d
  <2>1. 1 <= d => 1 * m <= d * m
    BY <1>1, SmallerProduct
  <2>. QED  BY <1>1, <2>1
<1>3. d = 0 => md = 0
  OBVIOUS
<1>4. md \in Nat
  <2> HIDE DEF d
  <2>. QED  BY <1>1
<1>5. m \div m = 1 /\ m % m = 0
  <2>1. m = m * 1 + 0
    OBVIOUS
  <2>. QED  BY <2>1, OneDivision
<1>6. (x < m <=> d = 0) /\ (x < m => e = x)
  <2> HIDE DEF d, e, md
  <2>. QED  BY <1>1, <1>2, <1>3, <1>4
<1>. QED  BY <1>5, <1>6

(* Server k's strip in a stripe ends where the stripe does, or before. *)
LEMMA StripFits ==
  ASSUME NEW s \in Nat \ {0}, NEW n \in Nat \ {0}, NEW k \in Nat, k < n
  PROVE  s * k \in Nat /\ s * n \in Nat \ {0} /\ s * k + s <= s * n
<1>1. s * k \in Nat /\ s * n \in Nat
  OBVIOUS
<1>2. s * n # 0
  <2>1. 0 * s < n * s
    BY SmallerProduct
  <2>. QED  BY <2>1
<1>3. (k + 1) * s <= n * s
  BY SmallerProduct
<1>4. (k + 1) * s = s * k + s /\ n * s = s * n
  OBVIOUS
<1>. QED  BY <1>1, <1>2, <1>3, <1>4

(* Byte b is in stripe p, at j in the strip of server k. *)
IsByte(s, n, k, p, j, b) ==
  /\ s \in Nat \ {0} /\ n \in Nat \ {0} /\ k \in Nat /\ k < n
  /\ p \in Nat /\ j \in Nat /\ j < s
  /\ b \in Nat /\ b = (s * n) * p + s * k + j

(* The divisions of the code find these numbers again. *)
LEMMA ByteIn ==
  ASSUME NEW s, NEW n, NEW k, NEW p, NEW j, NEW b, IsByte(s, n, k, p, j, b)
  PROVE  /\ b \div (s * n) = p /\ b % (s * n) = s * k + j
         /\ (b \div s) % n = k /\ b % s = j
<1> USE DEF IsByte
<1> DEFINE T == s * n
           K == s * k
<1>1. K \in Nat /\ T \in Nat \ {0} /\ K + s <= T
  BY StripFits
<1>2. b = T * p + (K + j)
  BY <1>1
<1>3. b \div T = p /\ b % T = K + j
  <2> HIDE DEF T, K
  <2>1. K + j \in Nat /\ K + j < T
    BY <1>1
  <2>. QED  BY <1>1, <1>2, <2>1, OneDivision
<1> DEFINE u == n * p + k
<1>4. u \in Nat
  OBVIOUS
<1>5. b = s * u + j
  <2>1. s * u = (s * n) * p + s * k
    OBVIOUS
  <2>. QED  BY <2>1
<1>6. b \div s = u /\ b % s = j
  <2> HIDE DEF u
  <2>. QED  BY <1>4, <1>5, OneDivision
<1>7. u % n = k
  BY <1>4, OneDivision
<1> HIDE DEF u, T, K
<1>8. (b \div s) % n = k
  BY <1>6, <1>7
<1>. QED  BY <1>3, <1>6, <1>8 DEF T, K

(* Every byte is in some stripe and strip. *)
LEMMA ByteOf ==
  ASSUME NEW s \in Nat \ {0}, NEW n \in Nat \ {0}, NEW b \in Nat
  PROVE  LET k == (b \div s) % n
             p == b \div (s * n)
             j == b % s
         IN  /\ k \in Nat /\ k < n /\ p \in Nat /\ j \in Nat /\ j < s
             /\ b = (s * n) * p + s * k + j
             /\ b % (s * n) = s * k + j
<1> DEFINE u == b \div s
           j == b % s
           q == u \div n
           k == u % n
<1>1. u \in Nat /\ j \in Nat /\ j < s /\ b = s * u + j
  BY DivisionIs
<1>2. q \in Nat /\ k \in Nat /\ k < n /\ u = n * q + k
  <2> HIDE DEF u
  <2>. QED  BY <1>1, DivisionIs
<1>3. b = (s * n) * q + s * k + j
  <2>1. s * (n * q + k) = (s * n) * q + s * k
    <3> HIDE DEF q, k
    <3>. QED  BY <1>2
  <2>2. s * u = (s * n) * q + s * k
    BY <1>2, <2>1
  <2>. QED  BY <1>1, <2>2
<1>4. b \div (s * n) = q /\ b % (s * n) = s * k + j
  <2> DEFINE T == s * n
             y == s * k + j
  <2>1. T \in Nat \ {0} /\ y \in Nat /\ y < T
    <3> HIDE DEF u, j, q, k
    <3>. QED  BY <1>1, <1>2, StripFits
  <2>2. b = T * q + y
    <3> HIDE DEF u, j, q, k
    <3>. QED  BY <1>1, <1>2, <1>3
  <2> HIDE DEF u, j, q, k, T, y
  <2>3. b \div T = q /\ b % T = y
    BY <1>2, <2>1, <2>2, OneDivision
  <2>. QED  BY <2>3 DEF T, y
<1>. QED  BY <1>1, <1>2, <1>3, <1>4

(* Requests of any length, to any number of servers with strips of any size. *)
AnyRequest ==
  {r \in [strip : Nat \ {0}, servers : Nat \ {0}, offset : Nat, ask : Nat \ {0},
          server : Nat, size : Nat] : r.server < r.servers}

(* The bytes of the server that come before byte x of the file. *)
Below(r, x) == r.strip * (x \div S!Stripe(r)) + S!Reach(r, x % S!Stripe(r))

(* The types of a request; its server has a strip in every stripe. *)
LEMMA RequestIs ==
  ASSUME NEW r \in AnyRequest
  PROVE  /\ r.strip \in Nat \ {0} /\ r.servers \in Nat \ {0} /\ r.offset \in Nat
         /\ r.ask \in Nat \ {0} /\ r.server \in Nat /\ r.size \in Nat /\ r.server < r.servers
         /\ S!Stripe(r) = r.strip * r.servers /\ S!Stripe(r) \in Nat \ {0}
         /\ r.strip * r.server \in Nat /\ r.strip * r.server + r.strip <= S!Stripe(r)
<1>1. /\ r.strip \in Nat \ {0} /\ r.servers \in Nat \ {0} /\ r.offset \in Nat
      /\ r.ask \in Nat \ {0} /\ r.server \in Nat /\ r.size \in Nat /\ r.server < r.servers
  BY DEF AnyRequest
<1> DEFINE s == r.strip
           n == r.servers
           k == r.server
<1>2. s * k \in Nat /\ s * n \in Nat \ {0} /\ s * k + s <= s * n
  <2> HIDE DEF s, n, k
  <2>1. s \in Nat \ {0} /\ n \in Nat \ {0} /\ k \in Nat /\ k < n
    BY <1>1 DEF s, n, k
  <2>. QED  BY <2>1, StripFits
<1>. QED  BY <1>1, <1>2 DEF S!Stripe

(* Reach by cases. *)
LEMMA ReachIs ==
  ASSUME NEW r \in AnyRequest, NEW left \in Nat
  PROVE  LET start == r.strip * r.server
         IN  /\ S!Reach(r, left) \in 0 .. r.strip
             /\ left <= start => S!Reach(r, left) = 0
             /\ start <= left /\ left <= start + r.strip => S!Reach(r, left) = left - start
             /\ start + r.strip <= left => S!Reach(r, left) = r.strip
<1> DEFINE start == r.strip * r.server
<1>1. start \in Nat /\ r.strip \in Nat \ {0} /\ r.server \in Nat
  BY RequestIs
<1>2. r.server * r.strip = start
  BY <1>1
<1>3. S!Reach(r, left) = S!Larger(0, S!Smaller(left - start, r.strip))
  BY <1>2 DEF S!Reach
<1> HIDE DEF start
<1>4. /\ S!Reach(r, left) \in 0 .. r.strip
      /\ left <= start => S!Reach(r, left) = 0
      /\ start <= left /\ left <= start + r.strip => S!Reach(r, left) = left - start
      /\ start + r.strip <= left => S!Reach(r, left) = r.strip
  BY <1>1, <1>3 DEF S!Larger, S!Smaller
<1>. QED  BY <1>4 DEF start

(* The order of bytes of the file and of those of the server.  A byte is   *)
(* at K + j in stripe p, the place at d in stripe q, where c bytes of the  *)
(* server's strip in that stripe come before it.                           *)
Placed(s, T, K, p, j, q, d, c) ==
  /\ s \in Nat \ {0} /\ T \in Nat \ {0} /\ K \in Nat /\ K + s <= T
  /\ p \in Nat /\ j \in Nat /\ j < s /\ q \in Nat /\ d \in Nat /\ d < T /\ c \in 0 .. s
  /\ d <= K => c = 0
  /\ K <= d /\ d <= K + s => c = d - K
  /\ K + s <= d => c = s

(* One place is before the other in the file if it is for the server. *)
LEMMA StripesInOrder ==
  ASSUME NEW s, NEW T, NEW K, NEW p, NEW j, NEW q, NEW d, NEW c,
         Placed(s, T, K, p, j, q, d, c)
  PROVE  T * p + K + j < T * q + d <=> s * p + j < s * q + c
<1> USE DEF Placed
<1> DEFINE Tp == T * p
           Tq == T * q
           sp == s * p
           sq == s * q
<1>1. Tp \in Nat /\ Tq \in Nat /\ sp \in Nat /\ sq \in Nat
  OBVIOUS
<1>2. p < q => Tp + T <= Tq /\ sp + s <= sq
  <2>1. p + 1 <= q => (p + 1) * T <= q * T /\ (p + 1) * s <= q * s
    BY SmallerProduct
  <2>2. (p + 1) * T = Tp + T /\ q * T = Tq /\ (p + 1) * s = sp + s /\ q * s = sq
    OBVIOUS
  <2>. QED  BY <2>1, <2>2
<1>3. q < p => Tq + T <= Tp /\ sq + s <= sp
  <2>1. q + 1 <= p => (q + 1) * T <= p * T /\ (q + 1) * s <= p * s
    BY SmallerProduct
  <2>2. (q + 1) * T = Tq + T /\ p * T = Tp /\ (q + 1) * s = sq + s /\ p * s = sp
    OBVIOUS
  <2>. QED  BY <2>1, <2>2
<1>4. p = q => Tp = Tq /\ sp = sq
  OBVIOUS
<1>5. Tp + K + j < Tq + d <=> sp + j < sq + c
  <2> HIDE DEF Tp, Tq, sp, sq
  <2>1. CASE p < q
    BY <1>1, <1>2, <2>1
  <2>2. CASE q < p
    BY <1>1, <1>3, <2>2
  <2>3. CASE p = q
    BY <1>1, <1>4, <2>3
  <2>. QED  BY <2>1, <2>2, <2>3
<1>. QED  BY <1>5

(* The bytes of the server before place x of the file are the first of its *)
(* own, as many as Below counts.                                           *)
LEMMA BelowCounts ==
  ASSUME NEW r \in AnyRequest, NEW x \in Nat
  PROVE  /\ Below(r, x) \in Nat
         /\ \A b \in Nat : S!ServerOf(r, b) = r.server =>
              /\ S!LocalByte(r, b) \in Nat
              /\ b < x <=> S!LocalByte(r, b) < Below(r, x)
<1> DEFINE s == r.strip
           T == S!Stripe(r)
           K == r.strip * r.server
           q == x \div T
           d == x % T
           c == S!Reach(r, d)
<1>1. s \in Nat \ {0} /\ T \in Nat \ {0} /\ K \in Nat /\ K + s <= T
  BY RequestIs
<1>2. q \in Nat /\ d \in Nat /\ d < T /\ x = T * q + d
  <2> HIDE DEF T
  <2>. QED  BY <1>1, DivisionIs
<1>3. /\ c \in 0 .. s /\ (d <= K => c = 0) /\ (K <= d /\ d <= K + s => c = d - K)
      /\ (K + s <= d => c = s)
  <2> HIDE DEF d
  <2>. QED  BY <1>2, ReachIs
<1>4. Below(r, x) = s * q + c
  BY DEF Below
<1>5. ASSUME NEW b \in Nat, S!ServerOf(r, b) = r.server
      PROVE  /\ S!LocalByte(r, b) \in Nat
             /\ b < x <=> S!LocalByte(r, b) < Below(r, x)
  <2> DEFINE p == b \div T
             j == b % s
             n == r.servers
             k == r.server
  <2>1. p \in Nat /\ j \in Nat /\ j < s
    <3> HIDE DEF T, s
    <3>. QED  BY <1>1, DivisionIs
  <2>2. b = T * p + K + j
    <3>1. s \in Nat \ {0} /\ n \in Nat \ {0} /\ T = s * n
      BY RequestIs
    <3>2. (b \div s) % n = k
      BY <1>5 DEF S!ServerOf
    <3> HIDE DEF s, n, k
    <3>3. b = (s * n) * (b \div (s * n)) + s * ((b \div s) % n) + (b % s)
      BY <3>1, ByteOf
    <3>4. b = T * p + s * k + j
      <4> HIDE DEF T
      <4>. QED  BY <3>1, <3>2, <3>3
    <3>. QED  BY <3>4 DEF s, k
  <2>3. S!LocalByte(r, b) = p * s + j
    BY DEF S!LocalByte
  <2> HIDE DEF s, T, K, q, d, c, p, j
  <2>4. T * p + K + j < T * q + d <=> s * p + j < s * q + c
    <3>1. Placed(s, T, K, p, j, q, d, c)
      BY <1>1, <1>2, <1>3, <2>1 DEF Placed
    <3>. QED  BY <3>1, StripesInOrder
  <2>5. p * s + j = s * p + j /\ p * s + j \in Nat
    BY <1>1, <2>1
  <2>. QED  BY <1>2, <1>4, <2>2, <2>3, <2>4, <2>5
<1>6. s * q + c \in Nat
  <2> HIDE DEF s, q, c
  <2>. QED  BY <1>1, <1>2, <1>3
<1>. QED  BY <1>4, <1>5, <1>6

(* Every byte of the server has its place in the file, and one only. *)
LEMMA PlaceInFile ==
  ASSUME NEW r \in AnyRequest
  PROVE  /\ \A t \in Nat : \E b \in Nat : S!ServerOf(r, b) = r.server /\ S!LocalByte(r, b) = t
         /\ \A a, b \in Nat : /\ S!ServerOf(r, a) = r.server /\ S!ServerOf(r, b) = r.server
                              /\ S!LocalByte(r, a) = S!LocalByte(r, b)
                              => a = b
<1> DEFINE s == r.strip
           n == r.servers
           k == r.server
<1>1. ASSUME NEW t \in Nat
      PROVE  \E b \in Nat : S!ServerOf(r, b) = r.server /\ S!LocalByte(r, b) = t
  <2> DEFINE p == t \div s
             j == t % s
             b == (s * n) * p + s * k + j
  <2>1. s \in Nat \ {0} /\ n \in Nat \ {0} /\ k \in Nat /\ k < n
    BY RequestIs
  <2>2. p \in Nat /\ j \in Nat /\ j < s /\ t = s * p + j
    <3> HIDE DEF s
    <3>. QED  BY <2>1, DivisionIs
  <2>3. b \in Nat
    <3> HIDE DEF s, n, k, p, j
    <3>1. s * n \in Nat /\ s * k \in Nat
      BY <2>1
    <3>2. (s * n) * p \in Nat
      BY <2>2, <3>1
    <3>. QED  BY <2>2, <3>1, <3>2
  <2>4. b = (s * n) * p + s * k + j
    OBVIOUS
  <2>5. b \div (s * n) = p /\ (b \div s) % n = k /\ b % s = j
    <3> HIDE DEF s, n, k, p, j, b
    <3>1. IsByte(s, n, k, p, j, b)
      BY <2>1, <2>2, <2>3, <2>4 DEF IsByte
    <3>. QED  BY <3>1, ByteIn
  <2>6. S!ServerOf(r, b) = r.server /\ S!LocalByte(r, b) = p * s + j
    <3> HIDE DEF p, j, b
    <3>. QED  BY <2>5 DEF S!ServerOf, S!LocalByte, S!Stripe
  <2>7. p * s + j = t
    <3> HIDE DEF s, p, j
    <3>. QED  BY <2>1, <2>2
  <2> HIDE DEF b
  <2>. QED  BY <2>3, <2>6, <2>7
<1>2. ASSUME NEW a \in Nat, NEW b \in Nat, S!ServerOf(r, a) = r.server,
             S!ServerOf(r, b) = r.server, S!LocalByte(r, a) = S!LocalByte(r, b)
      PROVE  a = b
  <2>1. \A x \in Nat : /\ Below(r, x) \in Nat
                       /\ a < x <=> S!LocalByte(r, a) < Below(r, x)
                       /\ b < x <=> S!LocalByte(r, b) < Below(r, x)
    BY <1>2, BelowCounts
  <2>2. a < b <=> b < b
    BY <1>2, <2>1
  <2>3. a < a <=> b < a
    BY <1>2, <2>1
  <2>. QED  BY <2>2, <2>3
<1>. QED  BY <1>1, <1>2

(* How many bytes of the request the server has. *)
LEMMA MineCounted ==
  ASSUME NEW r \in AnyRequest
  PROVE  LET first == Below(r, r.offset)
             end   == S!Smaller(Below(r, r.offset + r.ask), r.size)
         IN  Cardinality(S!Mine(r)) = IF first < end THEN end - first ELSE 0
<1> DEFINE first == Below(r, r.offset)
           last  == Below(r, r.offset + r.ask)
           end   == S!Smaller(last, r.size)
           bytes == r.offset .. r.offset + r.ask - 1
           f     == [b \in S!Mine(r) |-> S!LocalByte(r, b)]
<1>1. r.offset \in Nat /\ r.ask \in Nat /\ r.offset + r.ask \in Nat /\ r.size \in Nat
  BY RequestIs
<1>2. first \in Nat /\ last \in Nat /\ end \in Nat
  <2>1. first \in Nat /\ last \in Nat
    BY <1>1, BelowCounts
  <2> HIDE DEF last
  <2>. QED  BY <1>1, <2>1 DEF S!Smaller
<1>3. \A b : b \in S!Mine(r) <=> b \in bytes /\ S!ServerOf(r, b) = r.server /\ S!LocalByte(r, b) < r.size
  BY DEF S!Mine
<1>4. \A b : b \in bytes <=> b \in Nat /\ ~(b < r.offset) /\ b < r.offset + r.ask
  BY <1>1
<1>5. \A b \in Nat : S!ServerOf(r, b) = r.server =>
        /\ S!LocalByte(r, b) \in Nat
        /\ b < r.offset <=> S!LocalByte(r, b) < first
        /\ b < r.offset + r.ask <=> S!LocalByte(r, b) < last
  BY <1>1, BelowCounts
<1>6. \A t \in Nat : t < end <=> t < last /\ t < r.size
  <2> HIDE DEF last
  <2>. QED  BY <1>1, <1>2 DEF S!Smaller
<1>7. \A t : t \in first .. end - 1 <=> t \in Nat /\ ~(t < first) /\ t < end
  <2> HIDE DEF first, end
  <2>. QED  BY <1>2
<1>8. IsFiniteSet(bytes)
  <2> DEFINE o == r.offset
             m == r.offset + r.ask - 1
  <2>1. o \in Int /\ m \in Int
    BY <1>1
  <2>2. bytes = o .. m
    OBVIOUS
  <2> HIDE DEF o, m, bytes
  <2>. QED  BY <2>1, <2>2, FS_Interval
<1> HIDE DEF first, last, end, bytes
<1>9. IsFiniteSet(S!Mine(r))
  <2>1. S!Mine(r) \subseteq bytes
    BY <1>3
  <2>. QED  BY <1>8, <2>1, FS_Subset
<1>10. \A b : b \in S!Mine(r) <=> b \in Nat /\ S!ServerOf(r, b) = r.server /\ S!LocalByte(r, b) \in first .. end - 1
  BY <1>3, <1>4, <1>5, <1>6, <1>7
<1>11. f \in Bijection(S!Mine(r), first .. end - 1)
  <2>1. f \in [S!Mine(r) -> first .. end - 1]
    BY <1>10
  <2>2. \A a, b \in S!Mine(r) : f[a] = f[b] => a = b
    BY <1>10, PlaceInFile
  <2>3. \A t \in first .. end - 1 : \E b \in S!Mine(r) : f[b] = t
    <3>1. ASSUME NEW t \in first .. end - 1 PROVE \E b \in S!Mine(r) : f[b] = t
      <4>1. t \in Nat
        BY <1>7
      <4>2. PICK b \in Nat : S!ServerOf(r, b) = r.server /\ S!LocalByte(r, b) = t
        BY <4>1, PlaceInFile
      <4>3. b \in S!Mine(r)
        BY <1>10, <4>2
      <4>. QED  BY <4>2, <4>3
    <3>. QED  BY <3>1
  <2> HIDE DEF f
  <2>. QED  BY <2>1, <2>2, <2>3 DEF Bijection, Injection, Surjection, IsInjective
<1>12. Cardinality(first .. end - 1) = Cardinality(S!Mine(r))
  <2> HIDE DEF f
  <2>1. ExistsBijection(S!Mine(r), first .. end - 1)
    BY <1>11 DEF ExistsBijection
  <2>. QED  BY <1>9, <2>1, FS_Bijection
<1>13. Cardinality(first .. end - 1) = IF first > end - 1 THEN 0 ELSE (end - 1) - first + 1
  BY <1>2, FS_Interval
<1>14. Cardinality(S!Mine(r)) = IF first < end THEN end - first ELSE 0
  BY <1>2, <1>12, <1>13
<1>. QED  BY <1>14 DEF first, end, last

(* A server that is asked has bytes between the ends of the request; with  *)
(* no end of the file it has all of them.                                  *)
LEMMA AskedCounts ==
  ASSUME NEW r \in AnyRequest, S!Asked(r)
  PROVE  /\ Below(r, r.offset) < Below(r, r.offset + r.ask)
         /\ S!NoEnd(r) => Below(r, r.offset + r.ask) <= r.size
<1> DEFINE first == Below(r, r.offset)
           last  == Below(r, r.offset + r.ask)
           bytes == r.offset .. r.offset + r.ask - 1
<1>1. r.offset \in Nat /\ r.ask \in Nat /\ r.offset + r.ask \in Nat /\ r.size \in Nat
  BY RequestIs
<1>2. first \in Nat /\ last \in Nat
  BY <1>1, BelowCounts
<1>3. \A b : b \in bytes <=> b \in Nat /\ ~(b < r.offset) /\ b < r.offset + r.ask
  BY <1>1
<1>4. \A b \in Nat : S!ServerOf(r, b) = r.server =>
        /\ S!LocalByte(r, b) \in Nat
        /\ b < r.offset <=> S!LocalByte(r, b) < first
        /\ b < r.offset + r.ask <=> S!LocalByte(r, b) < last
  BY <1>1, BelowCounts
<1>5. PICK b \in bytes : S!ServerOf(r, b) = r.server
  BY DEF S!Asked
<1>6. S!NoEnd(r) => \A a \in bytes : S!ServerOf(r, a) = r.server => S!LocalByte(r, a) < r.size
  BY DEF S!NoEnd
<1> HIDE DEF first, last, bytes
<1>7. first < last
  BY <1>2, <1>3, <1>4, <1>5
<1>8. ASSUME S!NoEnd(r) PROVE last <= r.size
  <2> DEFINE t == last - 1
  <2>1. t \in Nat /\ ~(t < first) /\ t < last
    BY <1>2, <1>7
  <2>2. PICK a \in Nat : S!ServerOf(r, a) = r.server /\ S!LocalByte(r, a) = t
    BY <2>1, PlaceInFile
  <2>3. a \in bytes
    BY <1>3, <1>4, <2>1, <2>2
  <2>4. t < r.size
    BY <1>6, <1>8, <2>2, <2>3
  <2>. QED  BY <1>1, <1>2, <2>4
<1>. QED  BY <1>7, <1>8 DEF first, last

(* What get_my_share takes for the number of bytes, of a file without an end. *)
Expected(r) == IF S!WithinStripe(r) THEN S!ShareWithin(r) ELSE S!ShareAcross(r)

(* A multiple of m more, and the quotient is higher by so much. *)
LEMMA WholeStripes ==
  ASSUME NEW m \in Nat \ {0}, NEW q \in Nat, NEW x \in Nat
  PROVE  /\ m * q + x \in Nat
         /\ (m * q + x) \div m = q + (x \div m) /\ (m * q + x) % m = x % m
<1> DEFINE d == x \div m
           e == x % m
           p == q + d
           y == m * q + x
<1>1. d \in Nat /\ e \in Nat /\ e < m /\ x = m * d + e
  BY DivisionIs
<1>2. p \in Nat /\ y \in Nat /\ y = m * p + e
  <2>1. m * p = m * q + m * d
    <3> HIDE DEF d
    <3>. QED  BY <1>1
  <2>2. m * q \in Nat /\ m * d \in Nat
    <3> HIDE DEF d
    <3>. QED  BY <1>1
  <2>. QED  BY <1>1, <2>1, <2>2
<1>3. y \div m = p /\ y % m = e
  <2> HIDE DEF d, e, p, y
  <2>. QED  BY <1>1, <1>2, OneDivision
<1>. QED  BY <1>2, <1>3

(* So the bytes before place x of stripe q are those of q strips and what  *)
(* comes before x.                                                         *)
LEMMA BelowShifted ==
  ASSUME NEW r \in AnyRequest, NEW q \in Nat, NEW x \in Nat
  PROVE  /\ S!Stripe(r) * q + x \in Nat
         /\ Below(r, S!Stripe(r) * q + x) = r.strip * q + Below(r, x)
<1> DEFINE T == S!Stripe(r)
           s == r.strip
           d == x \div T
           y == T * q + x
<1>1. T \in Nat \ {0} /\ s \in Nat \ {0}
  BY RequestIs
<1>2. y \in Nat /\ y \div T = q + d /\ y % T = x % T /\ d \in Nat
  <2> HIDE DEF T
  <2>. QED  BY <1>1, WholeStripes, DivisionIs
<1>3. x % T \in Nat
  <2> HIDE DEF T
  <2>. QED  BY <1>1, DivisionIs
<1> DEFINE c == S!Reach(r, x % T)
<1>4. c \in Nat
  <2> HIDE DEF T, s
  <2>1. c \in 0 .. r.strip /\ r.strip \in Nat
    BY <1>3, ReachIs, RequestIs
  <2>. QED  BY <2>1
<1>5. Below(r, y) = s * (q + d) + c
  <2> HIDE DEF y
  <2>. QED  BY <1>2 DEF Below
<1>6. Below(r, x) = s * d + c
  BY DEF Below
<1>7. s * (q + d) = s * q + s * d /\ s * q \in Nat /\ s * d \in Nat
  <2> HIDE DEF s, d
  <2>. QED  BY <1>1, <1>2
<1> HIDE DEF c, d, s, y
<1>8. Below(r, y) = s * q + Below(r, x)
  BY <1>4, <1>5, <1>6, <1>7
<1>. QED  BY <1>2, <1>8 DEF s, y

(* The stripe, the server and the strip of the offset. *)
LEMMA OffsetIs ==
  ASSUME NEW r \in AnyRequest
  PROVE  /\ S!Passed(r) \in Nat /\ S!Skipped(r) \in Nat /\ S!Skipped(r) < S!Stripe(r)
         /\ S!Shift(r) \in Nat /\ S!Shift(r) < r.strip
         /\ S!Skipped(r) \div r.strip \in Nat
         /\ S!Skipped(r) = r.strip * (S!Skipped(r) \div r.strip) + S!Shift(r)
         /\ r.offset = S!Stripe(r) * S!Passed(r) + S!Skipped(r)
         /\ Below(r, r.offset) = r.strip * S!Passed(r) + S!Reach(r, S!Skipped(r))
<1> DEFINE T == S!Stripe(r)
           o == r.offset
           d == S!Skipped(r)
           s == r.strip
<1>1. T \in Nat \ {0} /\ o \in Nat /\ s \in Nat \ {0}
  BY RequestIs
<1>2. d = o % T /\ S!Passed(r) = o \div T
  BY DEF S!Skipped, S!Passed
<1> HIDE DEF T, o, d
<1>3. d \in Nat /\ d < T /\ S!Passed(r) \in Nat /\ o = T * S!Passed(r) + d
  BY <1>1, <1>2, DivisionIs
<1>4. S!Shift(r) = d % s
  BY DEF S!Shift, d
<1> HIDE DEF s
<1>5. S!Shift(r) \in Nat /\ S!Shift(r) < s /\ d \div s \in Nat /\ d = s * (d \div s) + S!Shift(r)
  BY <1>1, <1>3, <1>4, DivisionIs
<1>6. Below(r, r.offset) = r.strip * S!Passed(r) + S!Reach(r, S!Skipped(r))
  BY DEF Below, S!Passed, S!Skipped
<1>. QED  BY <1>3, <1>5, <1>6 DEF T, o, d, s

(* A request that leaves its first stripe: the share is what lies between  *)
(* its ends.                                                               *)
LEMMA AcrossExact ==
  ASSUME NEW r \in AnyRequest, ~S!WithinStripe(r)
  PROVE  Expected(r) = Below(r, r.offset + r.ask) - Below(r, r.offset)
<1> DEFINE T == S!Stripe(r)
           s == r.strip
           q == S!Passed(r)
           d == S!Skipped(r)
           rest == r.ask - (IF d > 0 THEN T - d ELSE 0)
           one == IF d > 0 THEN 1 ELSE 0
           end == r.offset + r.ask
           whole == rest \div T
           tail == S!Reach(r, rest % T)
           cut == S!Reach(r, d)
<1>1. T \in Nat \ {0} /\ s \in Nat \ {0} /\ r.offset \in Nat /\ r.ask \in Nat \ {0}
  BY RequestIs
<1>2. /\ q \in Nat /\ d \in Nat /\ d < T /\ r.offset = T * q + d
      /\ Below(r, r.offset) = s * q + cut
  BY OffsetIs
<1>3. ~(r.ask + r.offset <= (q + 1) * T)
  BY DEF S!WithinStripe
<1>4. Expected(r) = whole * s + (IF d > 0 THEN s ELSE 0) + tail - cut
  BY DEF Expected, S!ShareAcross
<1> HIDE DEF T, s, q, d, tail, cut
<1>5. T * q \in Nat /\ (q + 1) * T = T * q + T /\ T * (q + one) = T * q + (IF d > 0 THEN T ELSE 0)
  BY <1>1, <1>2
<1>6. rest \in Nat /\ end = T * (q + one) + rest /\ q + one \in Nat
  <2> DEFINE Tq == T * q
             Tq1 == T * (q + one)
  <2>1. Tq \in Nat /\ Tq1 = Tq + (IF d > 0 THEN T ELSE 0)
    BY <1>5
  <2>2. r.offset = Tq + d /\ ~(r.ask + r.offset <= Tq + T)
    BY <1>2, <1>3, <1>5
  <2> HIDE DEF Tq, Tq1
  <2>3. rest \in Nat /\ end = Tq1 + rest
    BY <1>1, <1>2, <2>1, <2>2
  <2>. QED  BY <1>2, <2>3 DEF Tq1
<1> HIDE DEF end, rest, one
<1>7. Below(r, end) = s * (q + one) + Below(r, rest)
  BY <1>6, BelowShifted DEF T, s
<1>8. Below(r, rest) = s * whole + tail
  BY DEF Below, T, s, tail
<1>9. whole \in Nat /\ tail \in Int /\ cut \in Int
  <2>1. whole \in Nat /\ rest % T \in Nat
    BY <1>1, <1>6, DivisionIs
  <2>2. tail \in 0 .. r.strip /\ cut \in 0 .. r.strip
    BY <1>2, <2>1, ReachIs DEF tail, cut
  <2>. QED  BY <1>1, <2>1, <2>2 DEF s
<1> HIDE DEF whole
<1>10. /\ s * (q + one) = s * q + (IF d > 0 THEN s ELSE 0) /\ whole * s = s * whole
       /\ s * q \in Nat /\ s * whole \in Nat
  BY <1>1, <1>2, <1>9 DEF one
<1>11. Expected(r) = Below(r, end) - Below(r, r.offset)
  BY <1>1, <1>2, <1>4, <1>7, <1>8, <1>9, <1>10
<1>. QED  BY <1>11 DEF end

(* Where the offset and the end of a request that stays in its stripe are, *)
(* against the strip of a server that is asked: K is where the strip       *)
(* begins, e the server with the offset.                                   *)
LEMMA WithinIs ==
  ASSUME NEW r \in AnyRequest, S!WithinStripe(r), S!Asked(r)
  PROVE  LET K == r.strip * r.server
             d == S!Skipped(r)
             e == d \div r.strip
         IN  /\ d + r.ask <= S!Stripe(r)
             /\ Below(r, r.offset + r.ask) = r.strip * S!Passed(r) + S!Reach(r, d + r.ask)
             /\ d < K + r.strip /\ K < d + r.ask
             /\ e <= r.server
             /\ e = r.server => S!Shift(r) = d - K
             /\ e < r.server => d < K /\ r.strip * e + r.strip <= K
<1> DEFINE T == S!Stripe(r)
           s == r.strip
           k == r.server
           K == s * k
           q == S!Passed(r)
           d == S!Skipped(r)
           e == d \div s
           h == S!Shift(r)
           y == d + r.ask
<1>1. /\ T \in Nat \ {0} /\ s \in Nat \ {0} /\ r.ask \in Nat \ {0} /\ k \in Nat
      /\ K \in Nat /\ K + s <= T
  BY RequestIs
<1>2. /\ q \in Nat /\ d \in Nat /\ d < T /\ h \in Nat /\ h < s /\ e \in Nat
      /\ d = s * e + h /\ r.offset = T * q + d /\ Below(r, r.offset) = s * q + S!Reach(r, d)
  BY OffsetIs
<1>3. r.ask + r.offset <= (q + 1) * T
  BY DEF S!WithinStripe
<1>4. y \in Nat /\ y <= T /\ r.offset + r.ask = T * q + y
  <2> HIDE DEF T, q, d
  <2> DEFINE Tq == T * q
  <2>1. Tq \in Nat /\ (q + 1) * T = Tq + T
    BY <1>1, <1>2
  <2> HIDE DEF Tq
  <2>2. y \in Nat /\ y <= T /\ r.offset + r.ask = Tq + y
    BY <1>1, <1>2, <1>3, <2>1 DEF Tq
  <2>. QED  BY <2>2 DEF Tq
<1>5. Below(r, y) = S!Reach(r, y)
  <2> HIDE DEF y
  <2>1. Below(r, y) = s * (y \div T) + S!Reach(r, y % T)
    BY DEF Below
  <2> HIDE DEF T, s
  <2>2. CASE y < T
    <3>1. y \div T = 0 /\ y % T = y
      BY <1>1, <1>4, <2>2, SmallDivision
    <3>2. S!Reach(r, y) \in Int
      BY <1>1, <1>4, ReachIs DEF s
    <3>. QED  BY <1>1, <2>1, <3>1, <3>2
  <2>3. CASE y = T
    <3>1. T \div T = 1 /\ T % T = 0
      BY <1>1, SmallDivision
    <3>2. 0 <= K /\ K + r.strip <= T /\ s = r.strip
      BY <1>1 DEF s
    <3> HIDE DEF K
    <3>3. S!Reach(r, 0) = 0 /\ S!Reach(r, T) = s
      BY <1>1, <3>2, ReachIs DEF K, s
    <3>. QED  BY <1>1, <2>1, <2>3, <3>1, <3>3
  <2>. QED  BY <1>1, <1>4, <2>2, <2>3
<1>6. Below(r, r.offset + r.ask) = s * q + S!Reach(r, y)
  <2> HIDE DEF y, q
  <2>. QED  BY <1>2, <1>4, <1>5, BelowShifted
<1>7. S!Reach(r, d) < S!Reach(r, y)
  <2>1. Below(r, r.offset) < Below(r, r.offset + r.ask)
    BY AskedCounts
  <2>2. s * q + S!Reach(r, d) < s * q + S!Reach(r, y)
    BY <1>2, <1>6, <2>1
  <2> HIDE DEF d, y
  <2>3. S!Reach(r, d) \in Int /\ S!Reach(r, y) \in Int
    BY <1>1, <1>2, <1>4, ReachIs DEF s
  <2>4. s * q \in Int
    BY <1>1, <1>2
  <2> HIDE DEF s, q
  <2>. QED  BY <2>2, <2>3, <2>4
<1>8. d < K + s /\ K < y
  <2> HIDE DEF d, y
  <2>1. S!Reach(r, y) \in 0 .. s /\ S!Reach(r, d) \in 0 .. s
    BY <1>2, <1>4, ReachIs
  <2>2. (K + s <= d => S!Reach(r, d) = s) /\ (y <= K => S!Reach(r, y) = 0)
    BY <1>2, <1>4, ReachIs
  <2> HIDE DEF K, s
  <2>. QED  BY <1>1, <1>2, <1>4, <1>7, <2>1, <2>2
<1>9. /\ k < e => K + s <= s * e
      /\ e < k => s * e + s <= K
      /\ e = k => s * e = K
  <2> HIDE DEF e, s, k
  <2>1. k + 1 <= e => (k + 1) * s <= e * s
    BY <1>1, <1>2, SmallerProduct
  <2>2. e + 1 <= k => (e + 1) * s <= k * s
    BY <1>1, <1>2, SmallerProduct
  <2>3. (k + 1) * s = K + s /\ (e + 1) * s = s * e + s /\ e * s = s * e /\ k * s = K
    BY <1>1, <1>2
  <2>. QED  BY <1>1, <1>2, <2>1, <2>2, <2>3
<1> DEFINE se == s * e
<1>10. se \in Nat
  <2> HIDE DEF s, e
  <2>. QED  BY <1>1, <1>2
<1>11. /\ e <= k
       /\ e = k => h = d - K
       /\ e < k => d < K /\ se + s <= K
  <2>1. /\ d = se + h
        /\ k < e => K + s <= se
        /\ e < k => se + s <= K
        /\ e = k => se = K
    BY <1>2, <1>9
  <2> HIDE DEF K, s, k, d, e, h, se
  <2>. QED  BY <1>1, <1>2, <1>8, <1>10, <2>1
<1>. QED  BY <1>4, <1>6, <1>8, <1>11

(* A request within its stripe: enough for the server, and exact unless    *)
(* the end of the request is in the middle of the server's strip, and the  *)
(* beginning in a strip before.                                            *)
LEMMA WithinEnough ==
  ASSUME NEW r \in AnyRequest, S!WithinStripe(r), S!Asked(r)
  PROVE  LET share == Below(r, r.offset + r.ask) - Below(r, r.offset)
         IN  /\ ~S!Fails(r)
             /\ Expected(r) \in Int /\ share <= Expected(r)
             /\ \/ S!Skipped(r) \div r.strip = r.server
                \/ r.strip * r.server + r.strip <= S!Skipped(r) + r.ask
                => Expected(r) = share
<1> DEFINE s == r.strip
           k == r.server
           K == s * k
           q == S!Passed(r)
           d == S!Skipped(r)
           e == d \div s
           se == s * e
           h == S!Shift(r)
           a == r.ask
           total == h + a
           x == S!Reach(r, d + a)
           x0 == S!Reach(r, d)
           share == Below(r, r.offset + r.ask) - Below(r, r.offset)
<1>1. s \in Nat \ {0} /\ a \in Nat \ {0} /\ k \in Nat /\ K \in Nat
  BY RequestIs
<1>2. /\ q \in Nat /\ d \in Nat /\ h \in Nat /\ h < s /\ e \in Nat
      /\ d = se + h /\ Below(r, r.offset) = s * q + x0
  BY OffsetIs
<1>3. /\ Below(r, r.offset + r.ask) = s * q + x
      /\ d < K + s /\ K < d + a
      /\ e <= k
      /\ e = k => h = d - K
      /\ e < k => d < K /\ se + s <= K
  BY WithinIs
<1>4. /\ x \in 0 .. s
      /\ K <= d + a /\ d + a <= K + s => x = (d + a) - K
      /\ K + s <= d + a => x = s
  <2>1. d + a \in Nat
    BY <1>1, <1>2
  <2>. QED  BY <2>1, ReachIs
<1>5. /\ x0 \in 0 .. s
      /\ d <= K => x0 = 0
      /\ K <= d /\ d <= K + s => x0 = d - K
  BY <1>2, ReachIs
<1>6. total \div s + 1 = 1 <=> total < s
  <2> HIDE DEF s, total
  <2>0. total \in Nat
    BY <1>1, <1>2 DEF total
  <2>1. total \div s \in Nat /\ (total < s <=> total \div s = 0)
    BY <1>1, <2>0, DivisionIs, SmallDivision
  <2>. QED  BY <2>1
<1>7. (k - e) * s = K - se /\ (k + 1) * s = K + s /\ se \in Nat /\ s * q \in Int
  <2> HIDE DEF s, k, e, q
  <2>. QED  BY <1>1, <1>2
<1>8. Expected(r) = IF total < s THEN a
                    ELSE IF total >= (k - e) * s
                         THEN IF k - e = 0 THEN s - h ELSE s
                         ELSE total % s
  BY <1>6 DEF Expected, S!ShareWithin
<1>9. total >= (k - e) * s
  <2>1. total >= K - se
    <3> HIDE DEF s, k, K, q, d, e, se, h, a
    <3>. QED  BY <1>1, <1>2, <1>3, <1>7
  <2>. QED  BY <1>7, <2>1
<1>10. Expected(r) = IF total < s THEN a ELSE IF k = e THEN s - h ELSE s
  <2>1. k - e = 0 <=> k = e
    <3> HIDE DEF k, e
    <3>. QED  BY <1>1, <1>2
  <2>. QED  BY <1>8, <1>9, <2>1
<1>11. share = x - x0
  <2>1. share = (s * q + x) - (s * q + x0)
    BY <1>2, <1>3
  <2> DEFINE sq == s * q
  <2>2. sq \in Int /\ share = (sq + x) - (sq + x0)
    BY <1>7, <2>1
  <2> HIDE DEF sq, x, x0, share
  <2>. QED  BY <1>1, <1>4, <1>5, <2>2
<1>12. ~S!Fails(r)
  <2>1. ~(d > (k + 1) * s)
    <3>1. ~(d > K + s)
      <4> HIDE DEF s, k, K, q, d, e, se, h, a
      <4>. QED  BY <1>1, <1>2, <1>3
    <3>. QED  BY <1>7, <3>1
  <2>2. ~(total < s /\ total > s)
    BY <1>1, <1>2
  <2>. QED  BY <1>6, <2>1, <2>2 DEF S!Fails
<1> HIDE DEF s, k, K, q, d, e, se, h, a, x, x0, share
<1>13. /\ Expected(r) \in Int /\ share <= Expected(r)
       /\ e = k \/ K + s <= d + a => Expected(r) = share
  BY <1>1, <1>2, <1>3, <1>4, <1>5, <1>7, <1>10, <1>11
<1>. QED  BY <1>12, <1>13 DEF s, k, K, q, d, e, h, a, share

(* The case the property leaves out is that one. *)
LEMMA EndInStrip ==
  ASSUME NEW r \in AnyRequest, S!WithinStripe(r), S!Asked(r),
         \/ S!ServerOf(r, S!LastByte(r)) # r.server
         \/ (S!LastByte(r) + 1) % r.strip = 0
         \/ r.server = S!Skipped(r) \div r.strip
  PROVE  \/ S!Skipped(r) \div r.strip = r.server
         \/ r.strip * r.server + r.strip <= S!Skipped(r) + r.ask
<1> DEFINE s == r.strip
           n == r.servers
           k == r.server
           K == s * k
           p == S!Passed(r)
           d == S!Skipped(r)
           a == r.ask
           j == d + a - 1 - K
           b == S!LastByte(r)
<1> SUFFICES ASSUME d + a < K + s
             PROVE  S!ServerOf(r, b) = k /\ (b + 1) % s # 0
  <2>1. K \in Int /\ s \in Int /\ d \in Int /\ a \in Int
    BY RequestIs, OffsetIs
  <2>. QED  BY <2>1
<1>1. /\ s \in Nat \ {0} /\ n \in Nat \ {0} /\ k \in Nat /\ k < n /\ K \in Nat
      /\ a \in Nat \ {0} /\ r.offset \in Nat /\ S!Stripe(r) = s * n
  BY RequestIs
<1>2. p \in Nat /\ d \in Nat /\ r.offset = S!Stripe(r) * p + d
  BY OffsetIs
<1>3. K < d + a
  BY WithinIs
<1>4. j \in Nat /\ j + 1 < s
  <2> HIDE DEF K, s, d, a
  <2>. QED  BY <1>1, <1>2, <1>3
<1> DEFINE M == (s * n) * p
<1>5. M \in Nat
  <2> HIDE DEF s, n, p
  <2>1. s * n \in Nat
    BY <1>1
  <2> DEFINE T == s * n
  <2> HIDE DEF T
  <2>2. T * p \in Nat
    BY <1>2, <2>1 DEF T
  <2>. QED  BY <2>2 DEF T
<1>6. r.offset = M + d
  BY <1>1, <1>2
<1>7. b = r.offset + a - 1
  BY DEF S!LastByte
<1>8. b \in Nat /\ b = M + K + j /\ b + 1 = M + K + (j + 1)
  <2> HIDE DEF s, n, k, K, d, a, b, M
  <2>. QED  BY <1>1, <1>2, <1>3, <1>5, <1>6, <1>7
<1>9. IsByte(s, n, k, p, j, b) /\ IsByte(s, n, k, p, j + 1, b + 1)
  <2> HIDE DEF s, n, k, p, d, a, b, j
  <2>. QED  BY <1>1, <1>2, <1>4, <1>8 DEF IsByte
<1>10. (b \div s) % n = k /\ (b + 1) % s = j + 1
  <2> HIDE DEF s, n, k, p, j, b
  <2>. QED  BY <1>9, ByteIn
<1>. QED  BY <1>4, <1>10 DEF S!ServerOf

(* Where the code takes the server's part to begin is not behind it. *)
LEMMA OffsetEnough ==
  ASSUME NEW r \in AnyRequest
  PROVE  S!MyOffset(r) \in Nat /\ S!MyOffset(r) <= Below(r, r.offset)
<1> DEFINE s == r.strip
           k == r.server
           K == s * k
           q == S!Passed(r)
           d == S!Skipped(r)
           e == d \div s
           h == S!Shift(r)
           c == S!Reach(r, d)
           se == s * e
           sq == s * q
<1>1. s \in Nat \ {0} /\ k \in Nat /\ K \in Nat
  BY RequestIs
<1>2. /\ q \in Nat /\ d \in Nat /\ h \in Nat /\ h < s /\ e \in Nat
      /\ d = se + h /\ Below(r, r.offset) = sq + c
  BY OffsetIs
<1>3. /\ c \in 0 .. s
      /\ K <= d /\ d <= K + s => c = d - K
      /\ K + s <= d => c = s
  BY <1>2, ReachIs
<1>4. k * s = K /\ q * s = sq /\ se \in Nat /\ sq \in Nat
  <2> HIDE DEF s, k, q, e
  <2>. QED  BY <1>1, <1>2
<1>5. e < k => se + s <= K
  <2> HIDE DEF s, k, e
  <2>1. e + 1 <= k => (e + 1) * s <= k * s
    BY <1>1, <1>2, SmallerProduct
  <2>2. (e + 1) * s = se + s
    BY <1>1, <1>2
  <2>. QED  BY <1>1, <1>2, <1>4, <2>1, <2>2
<1>6. k <= e => K <= se
  <2> HIDE DEF s, k, e
  <2>1. k <= e => k * s <= e * s
    BY <1>1, <1>2, SmallerProduct
  <2>2. e * s = se
    BY <1>1, <1>2
  <2>. QED  BY <1>4, <2>1, <2>2
<1>7. S!MyOffset(r) = sq + (IF d <= K THEN 0 ELSE h)
  BY <1>4 DEF S!MyOffset
<1> HIDE DEF s, k, K, q, d, e, h, c, se, sq
<1>8. S!MyOffset(r) \in Nat /\ S!MyOffset(r) <= sq + c
  BY <1>1, <1>2, <1>3, <1>4, <1>5, <1>6, <1>7
<1>. QED  BY <1>2, <1>8

LEMMA SameCardinality == ASSUME NEW T PROVE S!Cardinality(T) = Cardinality(T)
BY DEF S!Cardinality, Cardinality

(* The property of get_my_share, for requests of any length to any number  *)
(* of servers, strips of any size and files of any size.                   *)
THEOREM ShareAlwaysSound ==
  ASSUME NEW r \in AnyRequest
  PROVE  S!ShareSound(r)
<1> DEFINE Exact == S!WithinStripe(r) => \/ S!ServerOf(r, S!LastByte(r)) # r.server
                                          \/ (S!LastByte(r) + 1) % r.strip = 0
                                          \/ r.server = S!Skipped(r) \div r.strip
<1> SUFFICES ASSUME S!Asked(r)
             PROVE  /\ ~S!Fails(r)
                    /\ S!MyShare(r) >= Cardinality(S!Mine(r))
                    /\ S!NoEnd(r) /\ Exact => S!MyShare(r) = Cardinality(S!Mine(r))
  BY SameCardinality DEF S!ShareSound
<1> DEFINE first == Below(r, r.offset)
           last  == Below(r, r.offset + r.ask)
           end   == S!Smaller(last, r.size)
           mine  == Cardinality(S!Mine(r))
           begin == S!MyOffset(r)
           share == Expected(r)
<1>1. r.size \in Nat /\ r.offset \in Nat /\ r.offset + r.ask \in Nat
  BY RequestIs
<1>2. first \in Nat /\ last \in Nat /\ begin \in Nat /\ begin <= first
  BY <1>1, BelowCounts, OffsetEnough
<1>3. first < last /\ (S!NoEnd(r) => last <= r.size)
  BY AskedCounts
<1>4. mine = IF first < end THEN end - first ELSE 0
  BY MineCounted
<1>5. S!MyShare(r) = S!Smaller(share, S!Larger(r.size - begin, 0))
  BY DEF S!MyShare, Expected
<1>6. /\ ~S!Fails(r) /\ share \in Int /\ last - first <= share
      /\ Exact => share = last - first
  <2>1. CASE S!WithinStripe(r)
    <3>1. ~S!Fails(r) /\ share \in Int /\ last - first <= share
      BY <2>1, WithinEnough
    <3>2. Exact => share = last - first
      BY <2>1, EndInStrip, WithinEnough
    <3>. QED  BY <3>1, <3>2
  <2>2. CASE ~S!WithinStripe(r)
    <3>1. share = last - first
      BY <2>2, AcrossExact
    <3>2. ~S!Fails(r)
      BY <2>2 DEF S!Fails
    <3> HIDE DEF first, last, share, Exact
    <3>. QED  BY <1>2, <3>1, <3>2
  <2>. QED  BY <2>1, <2>2
<1> HIDE DEF first, last, mine, begin, share, Exact
<1>7. S!MyShare(r) >= mine
  BY <1>1, <1>2, <1>3, <1>4, <1>5, <1>6 DEF S!Smaller, S!Larger
<1>8. S!NoEnd(r) /\ Exact => S!MyShare(r) = mine
  BY <1>1, <1>2, <1>3, <1>4, <1>5, <1>6 DEF S!Smaller, S!Larger
<1>. QED  BY <1>6, <1>7, <1>8 DEF mine

-----------------------------------------------------------------------------
(* Loops *)

(* What the first round of a loop has and every round keeps, all have.     *)
LEMMA LoopKeeps ==
  ASSUME NEW m \in Nat, NEW D, NEW g, g[0] \in D[0],
         \A n \in 1 .. m : g[n - 1] \in D[n - 1] => g[n] \in D[n]
  PROVE  \A n \in 0 .. m : g[n] \in D[n]
<1> DEFINE T == {n \in Nat : n <= m => g[n] \in D[n]}
<1>1. 0 \in T
  OBVIOUS
<1>2. ASSUME NEW n \in Nat, n \in T PROVE n + 1 \in T
  <2> SUFFICES ASSUME n + 1 <= m PROVE g[n + 1] \in D[n + 1]
    OBVIOUS
  <2>1. g[n] \in D[n]
    BY <1>2
  <2>2. n + 1 \in 1 .. m /\ (n + 1) - 1 = n
    OBVIOUS
  <2>. QED  BY <2>1, <2>2
<1> HIDE DEF T
<1>3. Nat \subseteq T
  BY <1>1, <1>2, SetClosure
<1>. QED  BY <1>3 DEF T

(* The rounds of a loop: a function that is defined by what f makes of the *)
(* value before exists.                                                    *)
Rounds(m, f, x, g) == g = [n \in 0 .. m |-> IF n = 0 THEN x ELSE f[g[n - 1]]]

LEMMA LoopExists ==
  ASSUME NEW m \in Nat, NEW D, NEW f, NEW x, x \in D[0],
         \A n \in 0 .. m : n < m => \A s \in D[n] : f[s] \in D[n + 1]
  PROVE  \E g : /\ Rounds(m, f, x, g)
                /\ \A n \in 0 .. m : g[n] \in D[n]
<1> DEFINE Loop(k, g) == g = [n \in 0 .. k |-> IF n = 0 THEN x ELSE f[g[n - 1]]]
           T == {k \in Nat : k <= m => \E g : Loop(k, g)}
<1>1. 0 \in T
  <2> DEFINE g == [n \in 0 .. 0 |-> x]
  <2>1. g = [n \in 0 .. 0 |-> IF n = 0 THEN x ELSE f[g[n - 1]]]
    OBVIOUS
  <2>2. Loop(0, g)
    BY <2>1
  <2>. QED  BY <2>2
<1>2. ASSUME NEW k \in Nat, k \in T PROVE k + 1 \in T
  <2> SUFFICES ASSUME k + 1 <= m PROVE \E g : Loop(k + 1, g)
    OBVIOUS
  <2>1. PICK g : Loop(k, g)
    BY <1>2
  <2> DEFINE h == [n \in 0 .. k + 1 |-> IF n = k + 1 THEN f[g[k]] ELSE g[n]]
  <2>2. ASSUME NEW n \in 0 .. k + 1 PROVE h[n] = IF n = 0 THEN x ELSE f[h[n - 1]]
    <3>1. CASE n = k + 1
      <4>1. n # 0 /\ n - 1 = k /\ h[k] = g[k] /\ h[n] = f[g[k]]
        BY <3>1
      <4>. QED  BY <4>1
    <3>2. CASE n # k + 1
      <4>1. n \in 0 .. k /\ h[n] = g[n]
        BY <3>2
      <4>2. g[n] = IF n = 0 THEN x ELSE f[g[n - 1]]
        BY <2>1, <4>1
      <4>3. n # 0 => h[n - 1] = g[n - 1]
        BY <4>1
      <4>. QED  BY <4>1, <4>2, <4>3
    <3>. QED  BY <3>1, <3>2
  <2>3. h = [n \in 0 .. k + 1 |-> h[n]]
    OBVIOUS
  <2> HIDE DEF h
  <2>4. h = [n \in 0 .. k + 1 |-> IF n = 0 THEN x ELSE f[h[n - 1]]]
    BY <2>2, <2>3, Zenon
  <2>5. Loop(k + 1, h)
    BY <2>4
  <2>. QED  BY <2>5
<1>3. m \in T
  <2> HIDE DEF T
  <2>. QED  BY <1>1, <1>2, SetClosure
<1>4. PICK g : Loop(m, g)
  BY <1>3
<1>5. g[0] = x /\ \A n \in 1 .. m : g[n] = f[g[n - 1]]
  BY <1>4
<1>6. \A n \in 1 .. m : g[n - 1] \in D[n - 1] => g[n] \in D[n]
  <2> SUFFICES ASSUME NEW n \in 1 .. m, g[n - 1] \in D[n - 1] PROVE g[n] \in D[n]
    OBVIOUS
  <2>1. n - 1 \in 0 .. m /\ n - 1 < m /\ (n - 1) + 1 = n
    OBVIOUS
  <2>2. f[g[n - 1]] \in D[(n - 1) + 1]
    BY <2>1
  <2>. QED  BY <1>5, <2>1, <2>2
<1> HIDE DEF Loop, T
<1>7. \A n \in 0 .. m : g[n] \in D[n]
  BY <1>5, <1>6, LoopKeeps
<1>. QED  BY <1>4, <1>7 DEF Loop, Rounds

-----------------------------------------------------------------------------
(* Merging two lists *)

(* After i items of p and j of q: the items taken are in the order R, each *)
(* is before all that remain, and they are those of p and q.               *)
MergeInv(p, q, R, s) ==
  /\ Len(s.out) = s.i + s.j
  /\ \A a, b \in 1 .. Len(s.out) : a < b => <<s.out[a], s.out[b]>> \in R
  /\ \A a \in 1 .. Len(s.out) : /\ \A b \in 1 .. Len(p) : b > s.i => <<s.out[a], p[b]>> \in R
                                /\ \A b \in 1 .. Len(q) : b > s.j => <<s.out[a], q[b]>> \in R
                                /\ \/ \E b \in 1 .. Len(p) : s.out[a] = p[b]
                                   \/ \E b \in 1 .. Len(q) : s.out[a] = q[b]
  /\ \A b \in 1 .. Len(p) : b <= s.i => \E a \in 1 .. Len(s.out) : s.out[a] = p[b]
  /\ \A b \in 1 .. Len(q) : b <= s.j => \E a \in 1 .. Len(s.out) : s.out[a] = q[b]

MergeAt(T, p, q, R, n) ==
  {s \in [out : Seq(T), i : 0 .. Len(p), j : 0 .. Len(q)] : s.i + s.j = n /\ MergeInv(p, q, R, s)}

FromP(p, s) == [out |-> Append(s.out, p[s.i + 1]), i |-> s.i + 1, j |-> s.j]
FromQ(q, s) == [out |-> Append(s.out, q[s.j + 1]), i |-> s.i, j |-> s.j + 1]

(* The next item may be that of p, if it is before all others that remain. *)
LEMMA TakeFromP ==
  ASSUME NEW T, NEW p \in Seq(T), NEW q \in Seq(T), NEW R, NEW n \in Nat,
         NEW s \in MergeAt(T, p, q, R, n), s.i < Len(p),
         \A b \in 1 .. Len(p) : b > s.i + 1 => <<p[s.i + 1], p[b]>> \in R,
         \A b \in 1 .. Len(q) : b > s.j => <<p[s.i + 1], q[b]>> \in R
  PROVE  FromP(p, s) \in MergeAt(T, p, q, R, n + 1)
<1> DEFINE x == p[s.i + 1]
           t == FromP(p, s)
           k == Len(s.out)
<1>1. /\ s.out \in Seq(T) /\ s.i \in 0 .. Len(p) /\ s.j \in 0 .. Len(q) /\ s.i + s.j = n
      /\ MergeInv(p, q, R, s) /\ Len(p) \in Nat /\ Len(q) \in Nat /\ k \in Nat
  BY DEF MergeAt
<1>2. s.i + 1 \in 1 .. Len(p) /\ x \in T
  BY <1>1
<1>3. /\ t.out \in Seq(T) /\ t.i = s.i + 1 /\ t.j = s.j /\ Len(t.out) = k + 1
      /\ t.out[k + 1] = x /\ \A a \in 1 .. k : t.out[a] = s.out[a]
      /\ t \in [out : Seq(T), i : 0 .. Len(p), j : 0 .. Len(q)]
  BY <1>1, <1>2 DEF FromP
<1>4. \A a \in 1 .. k + 1 : a \in 1 .. k \/ a = k + 1
  BY <1>1
<1> HIDE DEF t, x
<1>5. \A a, b \in 1 .. k + 1 : a < b => <<t.out[a], t.out[b]>> \in R
  <2> SUFFICES ASSUME NEW a \in 1 .. k + 1, NEW b \in 1 .. k + 1, a < b
               PROVE  <<t.out[a], t.out[b]>> \in R
    OBVIOUS
  <2>1. a \in 1 .. k
    BY <1>1
  <2>2. CASE b = k + 1
    <3>1. \A c \in 1 .. Len(p) : c > s.i => <<s.out[a], p[c]>> \in R
      BY <1>1, <2>1 DEF MergeInv
    <3>2. s.i + 1 > s.i
      BY <1>1
    <3>3. <<s.out[a], p[s.i + 1]>> \in R
      BY <1>2, <3>1, <3>2
    <3>. QED  BY <1>3, <2>1, <2>2, <3>3 DEF x
  <2>3. CASE b \in 1 .. k
    BY <1>1, <1>3, <2>1, <2>3 DEF MergeInv
  <2>. QED  BY <1>4, <2>2, <2>3
<1>6. ASSUME NEW a \in 1 .. k + 1
      PROVE  /\ \A b \in 1 .. Len(p) : b > t.i => <<t.out[a], p[b]>> \in R
             /\ \A b \in 1 .. Len(q) : b > t.j => <<t.out[a], q[b]>> \in R
             /\ \/ \E b \in 1 .. Len(p) : t.out[a] = p[b]
                \/ \E b \in 1 .. Len(q) : t.out[a] = q[b]
  <2>1. CASE a \in 1 .. k
    <3>1. /\ \A b \in 1 .. Len(p) : b > s.i => <<s.out[a], p[b]>> \in R
          /\ \A b \in 1 .. Len(q) : b > s.j => <<s.out[a], q[b]>> \in R
          /\ \/ \E b \in 1 .. Len(p) : s.out[a] = p[b]
             \/ \E b \in 1 .. Len(q) : s.out[a] = q[b]
      BY <1>1, <2>1 DEF MergeInv
    <3>2. \A b \in 1 .. Len(p) : b > s.i + 1 => b > s.i
      BY <1>1
    <3>. QED  BY <1>3, <2>1, <3>1, <3>2
  <2>2. CASE a = k + 1
    BY <1>2, <1>3, <2>2 DEF x
  <2>. QED  BY <1>4, <2>1, <2>2
<1>7. ASSUME NEW b \in 1 .. Len(p), b <= t.i PROVE \E a \in 1 .. k + 1 : t.out[a] = p[b]
  <2>1. CASE b = s.i + 1
    <3>1. k + 1 \in 1 .. k + 1
      BY <1>1
    <3>. QED  BY <1>3, <2>1, <3>1 DEF x
  <2>2. CASE b <= s.i
    <3>1. PICK a \in 1 .. k : s.out[a] = p[b]
      BY <1>1, <2>2 DEF MergeInv
    <3>2. a \in 1 .. k + 1
      BY <1>1
    <3>. QED  BY <1>3, <3>1, <3>2
  <2>. QED  BY <1>1, <1>3, <1>7, <2>1, <2>2
<1>8. ASSUME NEW b \in 1 .. Len(q), b <= t.j PROVE \E a \in 1 .. k + 1 : t.out[a] = q[b]
  <2>1. PICK a \in 1 .. k : s.out[a] = q[b]
    BY <1>1, <1>3, <1>8 DEF MergeInv
  <2>2. a \in 1 .. k + 1
    BY <1>1
  <2>. QED  BY <1>3, <2>1, <2>2
<1>9. MergeInv(p, q, R, t)
  <2>1. Len(t.out) = t.i + t.j
    BY <1>1, <1>3 DEF MergeInv
  <2>2. Len(t.out) = k + 1
    BY <1>3
  <2> HIDE DEF k
  <2>. QED  BY <1>5, <1>6, <1>7, <1>8, <2>1, <2>2 DEF MergeInv
<1>10. t.i + t.j = n + 1
  <2>1. s.i \in Int /\ s.j \in Int /\ s.i + s.j = n
    BY <1>1 DEF MergeInv
  <2>2. t.i = s.i + 1 /\ t.j = s.j
    BY <1>3
  <2>3. \A a, b \in Int : a + b = n => (a + 1) + b = n + 1
    OBVIOUS
  <2>. QED  BY <2>1, <2>2, <2>3, Zenon
<1>. QED  BY <1>3, <1>9, <1>10 DEF MergeAt, t

Swapped(s) == [out |-> s.out, i |-> s.j, j |-> s.i]

LEMMA MergeSwapped ==
  ASSUME NEW T, NEW p \in Seq(T), NEW q \in Seq(T), NEW R, NEW n \in Nat,
         NEW s \in MergeAt(T, p, q, R, n)
  PROVE  Swapped(s) \in MergeAt(T, q, p, R, n)
<1> DEFINE t == Swapped(s)
<1>1. t.out = s.out /\ t.i = s.j /\ t.j = s.i
  BY DEF Swapped
<1>2. /\ s.out \in Seq(T) /\ s.i \in 0 .. Len(p) /\ s.j \in 0 .. Len(q) /\ s.i + s.j = n
      /\ MergeInv(p, q, R, s) /\ Len(p) \in Nat /\ Len(q) \in Nat
  BY DEF MergeAt
<1>3. t \in [out : Seq(T), i : 0 .. Len(q), j : 0 .. Len(p)] /\ t.i + t.j = n
  BY <1>2 DEF Swapped
<1>4. t.i + t.j = s.i + s.j
  BY <1>2, <1>3
<1> HIDE DEF t
<1>5. MergeInv(q, p, R, t)
  BY <1>1, <1>2, <1>4 DEF MergeInv
<1>. QED  BY <1>3, <1>5 DEF MergeAt, t

LEMMA TakeFromQ ==
  ASSUME NEW T, NEW p \in Seq(T), NEW q \in Seq(T), NEW R, NEW n \in Nat,
         NEW s \in MergeAt(T, p, q, R, n), s.j < Len(q),
         \A b \in 1 .. Len(q) : b > s.j + 1 => <<q[s.j + 1], q[b]>> \in R,
         \A b \in 1 .. Len(p) : b > s.i => <<q[s.j + 1], p[b]>> \in R
  PROVE  FromQ(q, s) \in MergeAt(T, p, q, R, n + 1)
<1> DEFINE t == Swapped(s)
           u == FromP(q, t)
<1>1. t \in MergeAt(T, q, p, R, n)
  BY MergeSwapped
<1>2. t.out = s.out /\ t.i = s.j /\ t.j = s.i
  BY DEF Swapped
<1> HIDE DEF t
<1>3. u \in MergeAt(T, q, p, R, n + 1)
  BY <1>1, <1>2, TakeFromP
<1>4. Swapped(u) = FromQ(q, s)
  BY <1>2 DEF FromP, FromQ, Swapped
<1> HIDE DEF u
<1>5. n + 1 \in Nat
  OBVIOUS
<1>6. Swapped(u) \in MergeAt(T, p, q, R, n + 1)
  BY <1>3, <1>5, MergeSwapped
<1>. QED  BY <1>4, <1>6

(* One round, where C has the pairs of positions at which p gives its item *)
MergeBy(C, p, q, s) ==
  IF s.i < Len(p) /\ (s.j = Len(q) \/ <<s.i + 1, s.j + 1>> \in C) THEN FromP(p, s) ELSE FromQ(q, s)

(* The item that is taken is before all that remain of the other list. *)
Mergeable(p, q, R, C) ==
  /\ \A a, b \in 1 .. Len(p) : a < b => <<p[a], p[b]>> \in R
  /\ \A a, b \in 1 .. Len(q) : a < b => <<q[a], q[b]>> \in R
  /\ \A a \in 1 .. Len(p), b \in 1 .. Len(q) :
       /\ <<a, b>> \in C => \A c \in 1 .. Len(q) : c >= b => <<p[a], q[c]>> \in R
       /\ <<a, b>> \notin C => \A c \in 1 .. Len(p) : c >= a => <<q[b], p[c]>> \in R

LEMMA MergeByKeeps ==
  ASSUME NEW T, NEW p \in Seq(T), NEW q \in Seq(T), NEW R, NEW C, Mergeable(p, q, R, C),
         NEW n \in Nat, n < Len(p) + Len(q), NEW s \in MergeAt(T, p, q, R, n)
  PROVE  MergeBy(C, p, q, s) \in MergeAt(T, p, q, R, n + 1)
<1>1. /\ s.i \in 0 .. Len(p) /\ s.j \in 0 .. Len(q) /\ s.i + s.j = n
      /\ Len(p) \in Nat /\ Len(q) \in Nat
  BY DEF MergeAt
<1>2. s.i \in Int /\ s.j \in Int
  BY <1>1
<1>3. CASE s.i < Len(p) /\ (s.j = Len(q) \/ <<s.i + 1, s.j + 1>> \in C)
  <2>1. s.i + 1 \in 1 .. Len(p)
    BY <1>1, <1>3
  <2>2. \A b \in 1 .. Len(p) : b > s.i + 1 => <<p[s.i + 1], p[b]>> \in R
    BY <2>1 DEF Mergeable
  <2>3. ASSUME NEW b \in 1 .. Len(q), b > s.j PROVE <<p[s.i + 1], q[b]>> \in R
    <3>1. s.j + 1 \in 1 .. Len(q) /\ s.j # Len(q) /\ b >= s.j + 1
      BY <1>1, <2>3
    <3>2. <<s.i + 1, s.j + 1>> \in C
      BY <1>3, <3>1
    <3>. QED  BY <2>1, <3>1, <3>2 DEF Mergeable
  <2>4. FromP(p, s) \in MergeAt(T, p, q, R, n + 1)
    BY <1>3, <2>2, <2>3, TakeFromP
  <2>. QED  BY <1>3, <2>4 DEF MergeBy
<1>4. CASE ~(s.i < Len(p) /\ (s.j = Len(q) \/ <<s.i + 1, s.j + 1>> \in C))
  <2>1. s.j < Len(q)
    BY <1>1, <1>2, <1>4
  <2>2. s.j + 1 \in 1 .. Len(q)
    BY <1>1, <2>1
  <2>3. \A b \in 1 .. Len(q) : b > s.j + 1 => <<q[s.j + 1], q[b]>> \in R
    BY <2>2 DEF Mergeable
  <2>4. ASSUME NEW b \in 1 .. Len(p), b > s.i PROVE <<q[s.j + 1], p[b]>> \in R
    <3>1. s.i + 1 \in 1 .. Len(p) /\ s.i < Len(p) /\ b >= s.i + 1
      BY <1>1, <2>4
    <3>2. <<s.i + 1, s.j + 1>> \notin C
      BY <1>4, <3>1
    <3>. QED  BY <2>2, <3>1, <3>2 DEF Mergeable
  <2>5. FromQ(q, s) \in MergeAt(T, p, q, R, n + 1)
    BY <2>1, <2>3, <2>4, TakeFromQ
  <2>. QED  BY <1>4, <2>5 DEF MergeBy
<1>. QED  BY <1>3, <1>4

MergeStart == [out |-> <<>>, i |-> 0, j |-> 0]

LEMMA MergeStarts ==
  ASSUME NEW T, NEW p \in Seq(T), NEW q \in Seq(T), NEW R
  PROVE  MergeStart \in MergeAt(T, p, q, R, 0)
<1>1. Len(p) \in Nat /\ Len(q) \in Nat
  OBVIOUS
<1>2. /\ MergeStart \in [out : Seq(T), i : 0 .. Len(p), j : 0 .. Len(q)]
      /\ MergeStart.i = 0 /\ MergeStart.j = 0 /\ Len(MergeStart.out) = 0
  BY <1>1 DEF MergeStart
<1>3. MergeInv(p, q, R, MergeStart)
  <2>1. 1 .. 0 = {} /\ Len(MergeStart.out) = MergeStart.i + MergeStart.j
    BY <1>2
  <2>2. (\A b \in 1 .. Len(p) : ~(b <= 0)) /\ (\A b \in 1 .. Len(q) : ~(b <= 0))
    BY <1>1
  <2>. QED  BY <1>2, <2>1, <2>2 DEF MergeInv
<1>. QED  BY <1>2, <1>3 DEF MergeAt

(* What two merged lists have become. *)
Merged(T, p, q, R, r) ==
  /\ r \in Seq(T) /\ Len(r) = Len(p) + Len(q)
  /\ \A a, b \in 1 .. Len(r) : a < b => <<r[a], r[b]>> \in R
  /\ \A a \in 1 .. Len(r) : \/ \E b \in 1 .. Len(p) : r[a] = p[b]
                            \/ \E b \in 1 .. Len(q) : r[a] = q[b]
  /\ \A b \in 1 .. Len(p) : \E a \in 1 .. Len(r) : r[a] = p[b]
  /\ \A b \in 1 .. Len(q) : \E a \in 1 .. Len(r) : r[a] = q[b]

LEMMA MergeDone ==
  ASSUME NEW T, NEW p \in Seq(T), NEW q \in Seq(T), NEW R,
         NEW s \in MergeAt(T, p, q, R, Len(p) + Len(q))
  PROVE  Merged(T, p, q, R, s.out)
<1>1. /\ s.out \in Seq(T) /\ s.i \in 0 .. Len(p) /\ s.j \in 0 .. Len(q)
      /\ s.i + s.j = Len(p) + Len(q) /\ MergeInv(p, q, R, s) /\ Len(p) \in Nat /\ Len(q) \in Nat
  BY DEF MergeAt
<1>2. s.i = Len(p) /\ s.j = Len(q)
  BY <1>1
<1>3. (\A b \in 1 .. Len(p) : b <= Len(p)) /\ (\A b \in 1 .. Len(q) : b <= Len(q))
  BY <1>1
<1>4. /\ \A a, b \in 1 .. Len(s.out) : a < b => <<s.out[a], s.out[b]>> \in R
      /\ \A a \in 1 .. Len(s.out) : \/ \E b \in 1 .. Len(p) : s.out[a] = p[b]
                                    \/ \E b \in 1 .. Len(q) : s.out[a] = q[b]
      /\ \A b \in 1 .. Len(p) : \E a \in 1 .. Len(s.out) : s.out[a] = p[b]
      /\ \A b \in 1 .. Len(q) : \E a \in 1 .. Len(s.out) : s.out[a] = q[b]
      /\ Len(s.out) = s.i + s.j
  BY <1>1, <1>2, <1>3, Zenon DEF MergeInv
<1>. QED  BY <1>1, <1>4 DEF Merged

(* The loop that takes the items in this way exists. *)
LEMMA MergeLoop ==
  ASSUME NEW T, NEW p \in Seq(T), NEW q \in Seq(T), NEW R, NEW C, Mergeable(p, q, R, C)
  PROVE  \E g : /\ g = [n \in 0 .. Len(p) + Len(q) |->
                          IF n = 0 THEN MergeStart ELSE MergeBy(C, p, q, g[n - 1])]
                /\ \A n \in 0 .. Len(p) + Len(q) : g[n] \in MergeAt(T, p, q, R, n)
<1> DEFINE m == Len(p) + Len(q)
           D == [n \in 0 .. m |-> MergeAt(T, p, q, R, n)]
           All == UNION {D[n] : n \in 0 .. m}
           f == [s \in All |-> MergeBy(C, p, q, s)]
<1>1. m \in Nat
  OBVIOUS
<1>2. \A n \in 0 .. m : D[n] = MergeAt(T, p, q, R, n)
  OBVIOUS
<1>3. \A n \in 0 .. m : \A s \in D[n] : f[s] = MergeBy(C, p, q, s)
  OBVIOUS
<1> HIDE DEF D, f
<1>4. \A n \in 0 .. m : n < m => \A s \in D[n] : f[s] \in D[n + 1]
  <2> SUFFICES ASSUME NEW n \in 0 .. m, n < m, NEW s \in D[n] PROVE f[s] \in D[n + 1]
    OBVIOUS
  <2>1. n \in Nat /\ n + 1 \in 0 .. m
    BY <1>1
  <2>2. s \in MergeAt(T, p, q, R, n)
    BY <1>2
  <2>3. MergeBy(C, p, q, s) \in MergeAt(T, p, q, R, n + 1)
    BY <2>1, <2>2, MergeByKeeps
  <2>. QED  BY <1>2, <1>3, <2>1, <2>3
<1>5. MergeStart \in D[0]
  BY <1>1, <1>2, MergeStarts
<1> HIDE DEF m
<1>6. PICK g : /\ Rounds(m, f, MergeStart, g)
               /\ \A n \in 0 .. m : g[n] \in D[n]
  BY <1>1, <1>4, <1>5, LoopExists
<1>7. \A n \in 0 .. m : n # 0 => f[g[n - 1]] = MergeBy(C, p, q, g[n - 1])
  <2> SUFFICES ASSUME NEW n \in 0 .. m, n # 0 PROVE f[g[n - 1]] = MergeBy(C, p, q, g[n - 1])
    OBVIOUS
  <2>1. n - 1 \in 0 .. m
    BY <1>1
  <2>2. g[n - 1] \in D[n - 1]
    BY <1>6, <2>1
  <2>. QED  BY <1>3, <2>1, <2>2
<1>8. g = [n \in 0 .. m |-> IF n = 0 THEN MergeStart ELSE MergeBy(C, p, q, g[n - 1])]
  BY <1>6, <1>7, Zenon DEF Rounds
<1>. QED  BY <1>2, <1>6, <1>8 DEF m

-----------------------------------------------------------------------------
(* The sort *)

SortItem == [tag : Int, id : Int]

(* The order of a stable sort, when id is the place an item has had.       *)
Lex == {z \in SortItem \X SortItem :
          z[1].tag < z[2].tag \/ (z[1].tag = z[2].tag /\ z[1].id < z[2].id)}

Ordered(p) == \A a, b \in 1 .. Len(p) : a < b => <<p[a], p[b]>> \in Lex
Stable(p, q) == \A a \in 1 .. Len(p), b \in 1 .. Len(q) : p[a].tag = q[b].tag => p[a].id < q[b].id

LEMMA LexIs ==
  ASSUME NEW x \in SortItem, NEW y \in SortItem
  PROVE  <<x, y>> \in Lex <=> x.tag < y.tag \/ (x.tag = y.tag /\ x.id < y.id)
BY DEF Lex

LEMMA OrderedFacts ==
  ASSUME NEW p \in Seq(SortItem)
  PROVE  /\ \A a \in 1 .. Len(p) : p[a] \in SortItem /\ p[a].tag \in Int /\ p[a].id \in Int
         /\ Ordered(p) => \A a, b \in 1 .. Len(p) : a <= b => p[a].tag <= p[b].tag
<1>1. \A a \in 1 .. Len(p) : p[a] \in SortItem
  OBVIOUS
<1>2. \A x \in SortItem : x.tag \in Int /\ x.id \in Int
  BY DEF SortItem
<1>3. ASSUME Ordered(p), NEW a \in 1 .. Len(p), NEW b \in 1 .. Len(p), a <= b
      PROVE  p[a].tag <= p[b].tag
  <2>1. CASE a = b
    BY <1>1, <1>2, <2>1
  <2>2. CASE a < b
    <3>1. <<p[a], p[b]>> \in Lex
      BY <1>3, <2>2 DEF Ordered
    <3>2. p[a].tag < p[b].tag \/ (p[a].tag = p[b].tag /\ p[a].id < p[b].id)
      BY <1>1, <3>1, LexIs
    <3>. QED  BY <1>1, <1>2, <3>2
  <2>. QED  BY <1>3, <2>1, <2>2
<1>. QED  BY <1>1, <1>2, <1>3

LEMMA SortMergeable ==
  ASSUME NEW p \in Seq(SortItem), NEW q \in Seq(SortItem), Ordered(p), Ordered(q), Stable(p, q),
         NEW C, C = {z \in (1 .. Len(p)) \X (1 .. Len(q)) : p[z[1]].tag <= q[z[2]].tag}
  PROVE  Mergeable(p, q, Lex, C)
<1>1. /\ \A a \in 1 .. Len(p) : p[a] \in SortItem /\ p[a].tag \in Int /\ p[a].id \in Int
      /\ \A a \in 1 .. Len(q) : q[a] \in SortItem /\ q[a].tag \in Int /\ q[a].id \in Int
  BY OrderedFacts
<1>2. /\ \A a, b \in 1 .. Len(p) : a <= b => p[a].tag <= p[b].tag
      /\ \A a, b \in 1 .. Len(q) : a <= b => q[a].tag <= q[b].tag
  BY OrderedFacts
<1>3. ASSUME NEW a \in 1 .. Len(p), NEW b \in 1 .. Len(q)
      PROVE  /\ <<a, b>> \in C => \A c \in 1 .. Len(q) : c >= b => <<p[a], q[c]>> \in Lex
             /\ <<a, b>> \notin C => \A c \in 1 .. Len(p) : c >= a => <<q[b], p[c]>> \in Lex
  <2>1. <<a, b>> \in C <=> p[a].tag <= q[b].tag
    OBVIOUS
  <2>2. ASSUME p[a].tag <= q[b].tag, NEW c \in 1 .. Len(q), c >= b
        PROVE  <<p[a], q[c]>> \in Lex
    <3>1. p[a].tag <= q[c].tag
      BY <1>1, <1>2, <2>2
    <3>2. p[a].tag = q[c].tag => p[a].id < q[c].id
      BY DEF Stable
    <3>. QED  BY <1>1, <3>1, <3>2, LexIs
  <2>3. ASSUME ~(p[a].tag <= q[b].tag), NEW c \in 1 .. Len(p), c >= a
        PROVE  <<q[b], p[c]>> \in Lex
    <3>1. q[b].tag < p[c].tag
      BY <1>1, <1>2, <2>3
    <3>. QED  BY <1>1, <3>1, LexIs
  <2>. QED  BY <2>1, <2>2, <2>3
<1>. QED  BY <1>3 DEF Mergeable, Ordered

LEMMA SortMerges ==
  ASSUME NEW p \in Seq(SortItem), NEW q \in Seq(SortItem), Ordered(p), Ordered(q), Stable(p, q)
  PROVE  Merged(SortItem, p, q, Lex, L!Merge(p, q))
<1> DEFINE C == {z \in (1 .. Len(p)) \X (1 .. Len(q)) : p[z[1]].tag <= q[z[2]].tag}
           m == Len(p) + Len(q)
           Loop(g) == g = [n \in 0 .. m |->
                             IF n = 0 THEN [out |-> <<>>, i |-> 0, j |-> 0] ELSE L!MergeStep(p, q, g[n - 1])]
           after == CHOOSE g : Loop(g)
<1>1. m \in Nat /\ Len(p) \in Nat /\ Len(q) \in Nat
  OBVIOUS
<1>2. Mergeable(p, q, Lex, C)
  BY SortMergeable
<1>3. L!Merge(p, q) = after[m].out
  BY DEF L!Merge
<1>4. ASSUME NEW n \in 0 .. m, n < m, NEW s \in MergeAt(SortItem, p, q, Lex, n)
      PROVE  L!MergeStep(p, q, s) = MergeBy(C, p, q, s)
  <2>1. s.i \in 0 .. Len(p) /\ s.j \in 0 .. Len(q)
    BY DEF MergeAt
  <2>2. ASSUME s.i < Len(p), s.j # Len(q)
        PROVE  L!SortComp(p[s.i + 1], q[s.j + 1]) <= 0 <=> <<s.i + 1, s.j + 1>> \in C
    <3>1. s.i + 1 \in 1 .. Len(p) /\ s.j + 1 \in 1 .. Len(q)
      <4>1. \A k \in Nat : \A a \in 0 .. k : a < k \/ a # k => a + 1 \in 1 .. k
        OBVIOUS
      <4>. QED  BY <1>1, <2>1, <2>2, <4>1, Zenon
    <3>2. p[s.i + 1] \in SortItem /\ q[s.j + 1] \in SortItem
      BY <3>1
    <3>3. p[s.i + 1].tag \in Int /\ q[s.j + 1].tag \in Int
      BY <3>2 DEF SortItem
    <3>4. L!SortComp(p[s.i + 1], q[s.j + 1]) <= 0 <=> p[s.i + 1].tag <= q[s.j + 1].tag
      BY <3>3 DEF L!SortComp
    <3>. QED  BY <3>1, <3>4
  <2> HIDE DEF C
  <2>. QED  BY <2>2 DEF L!MergeStep, MergeBy, FromP, FromQ
<1> HIDE DEF C
<1>5. PICK g : /\ g = [n \in 0 .. m |-> IF n = 0 THEN MergeStart ELSE MergeBy(C, p, q, g[n - 1])]
               /\ \A n \in 0 .. m : g[n] \in MergeAt(SortItem, p, q, Lex, n)
  BY <1>2, MergeLoop, Zenon
<1>6. Loop(g)
  <2>1. \A n \in 0 .. m : n # 0 => MergeBy(C, p, q, g[n - 1]) = L!MergeStep(p, q, g[n - 1])
    <3> SUFFICES ASSUME NEW n \in 0 .. m, n # 0
                 PROVE  MergeBy(C, p, q, g[n - 1]) = L!MergeStep(p, q, g[n - 1])
      OBVIOUS
    <3>1. n - 1 \in 0 .. m /\ n - 1 < m
      BY <1>1
    <3>. QED  BY <1>4, <1>5, <3>1
  <2>2. MergeStart = [out |-> <<>>, i |-> 0, j |-> 0]
    BY DEF MergeStart
  <2>. QED  BY <1>5, <2>1, <2>2, Zenon
<1>7. Loop(after)
  BY <1>6, Zenon
<1> HIDE DEF after
<1>8. /\ after[0] = MergeStart
      /\ \A n \in 1 .. m : after[n] = L!MergeStep(p, q, after[n - 1])
  <2>1. \A n \in 0 .. m : after[n] = IF n = 0 THEN MergeStart ELSE L!MergeStep(p, q, after[n - 1])
    BY <1>7, Zenon DEF MergeStart
  <2>2. 0 \in 0 .. m /\ \A n \in 1 .. m : n \in 0 .. m /\ n # 0
    BY <1>1
  <2>. QED  BY <2>1, <2>2, Zenon
<1> HIDE DEF Loop
<1> DEFINE D == [n \in 0 .. m |-> MergeAt(SortItem, p, q, Lex, n)]
<1>9. \A n \in 1 .. m : after[n - 1] \in D[n - 1] => after[n] \in D[n]
  <2> SUFFICES ASSUME NEW n \in 1 .. m, after[n - 1] \in MergeAt(SortItem, p, q, Lex, n - 1)
               PROVE  after[n] \in MergeAt(SortItem, p, q, Lex, n)
    BY <1>1
  <2>1. n - 1 \in Nat /\ n - 1 \in 0 .. m /\ n - 1 < m /\ (n - 1) + 1 = n
    BY <1>1
  <2>2. MergeBy(C, p, q, after[n - 1]) \in MergeAt(SortItem, p, q, Lex, (n - 1) + 1)
    BY <1>2, <2>1, MergeByKeeps
  <2>. QED  BY <1>4, <1>8, <2>1, <2>2
<1>10. after[0] \in D[0]
  BY <1>1, <1>8, MergeStarts
<1> HIDE DEF D
<1>11. \A n \in 0 .. m : after[n] \in D[n]
  BY <1>1, <1>9, <1>10, LoopKeeps
<1>12. after[m] \in MergeAt(SortItem, p, q, Lex, Len(p) + Len(q))
  BY <1>1, <1>11 DEF D
<1>. QED  BY <1>3, <1>12, MergeDone

(* The runs after n passes: each is ordered, of two the first has the      *)
(* items that came first, and they hold the items of the list.             *)
RunsInv(list, runs) ==
  /\ \A r \in 1 .. Len(runs) : Ordered(runs[r])
  /\ \A r, k \in 1 .. Len(runs) : r < k => Stable(runs[r], runs[k])
  /\ \A i \in 1 .. Len(list) : \E r \in 1 .. Len(runs) : \E a \in 1 .. Len(runs[r]) : runs[r][a] = list[i]
  /\ \A r \in 1 .. Len(runs) : \A a \in 1 .. Len(runs[r]) : \E i \in 1 .. Len(list) : runs[r][a] = list[i]

RunsAt(list, n) ==
  {runs \in Seq(Seq(SortItem)) :
     /\ Len(runs) >= 1 /\ (Len(runs) = 1 \/ Len(runs) + n <= Len(list))
     /\ RunsInv(list, runs)}

(* What a pass makes of two neighbours, or of the last run. *)
FromPair(runs, r, p) ==
  /\ p \in Seq(SortItem) /\ Ordered(p)
  /\ \A a \in 1 .. Len(p) : \E k \in 1 .. Len(runs) :
       (k = 2 * r - 1 \/ k = 2 * r) /\ \E b \in 1 .. Len(runs[k]) : p[a] = runs[k][b]
  /\ \A k \in 1 .. Len(runs) : k = 2 * r - 1 \/ k = 2 * r =>
       \A b \in 1 .. Len(runs[k]) : \E a \in 1 .. Len(p) : p[a] = runs[k][b]

LEMMA PassMerges ==
  ASSUME NEW runs \in Seq(Seq(SortItem)),
         \A r \in 1 .. Len(runs) : Ordered(runs[r]),
         \A r, k \in 1 .. Len(runs) : r < k => Stable(runs[r], runs[k])
  PROVE  /\ L!Pass(runs) \in Seq(Seq(SortItem)) /\ Len(L!Pass(runs)) = (Len(runs) + 1) \div 2
         /\ \A r \in 1 .. (Len(runs) + 1) \div 2 : FromPair(runs, r, L!Pass(runs)[r])
<1> DEFINE m == (Len(runs) + 1) \div 2
           P == L!Pass(runs)
<1>1. Len(runs) \in Nat /\ m \in Nat /\ 2 * m <= Len(runs) + 1
  OBVIOUS
<1>2. P = [r \in 1 .. m |-> IF 2 * r <= Len(runs) THEN L!Merge(runs[2 * r - 1], runs[2 * r])
                                                  ELSE runs[2 * r - 1]]
  BY DEF L!Pass
<1> HIDE DEF m, P
<1>3. ASSUME NEW r \in 1 .. m PROVE FromPair(runs, r, P[r])
  <2> DEFINE p == runs[2 * r - 1]
             q == runs[2 * r]
  <2>1. r \in Nat /\ 2 * r - 1 \in 1 .. Len(runs) /\ p \in Seq(SortItem) /\ Ordered(p)
    BY <1>1
  <2>2. CASE 2 * r <= Len(runs)
    <3>1. P[r] = L!Merge(p, q)
      BY <1>2, <2>2
    <3>2. 2 * r \in 1 .. Len(runs) /\ 2 * r - 1 < 2 * r
      BY <1>1, <2>1, <2>2
    <3>3. q \in Seq(SortItem) /\ Ordered(q) /\ Stable(p, q)
      <4>1. q \in Seq(SortItem) /\ Ordered(q)
        BY <3>2
      <4>2. Stable(runs[2 * r - 1], runs[2 * r])
        BY <2>1, <3>2
      <4>. QED  BY <4>1, <4>2
    <3> HIDE DEF p, q
    <3>4. Merged(SortItem, p, q, Lex, P[r])
      BY <2>1, <3>1, <3>3, SortMerges
    <3>5. P[r] \in Seq(SortItem) /\ Ordered(P[r])
      BY <3>4 DEF Merged, Ordered
    <3>6. /\ \A a \in 1 .. Len(P[r]) : \/ \E b \in 1 .. Len(p) : P[r][a] = p[b]
                                       \/ \E b \in 1 .. Len(q) : P[r][a] = q[b]
          /\ \A b \in 1 .. Len(p) : \E a \in 1 .. Len(P[r]) : P[r][a] = p[b]
          /\ \A b \in 1 .. Len(q) : \E a \in 1 .. Len(P[r]) : P[r][a] = q[b]
      BY <3>4 DEF Merged
    <3>. QED  BY <2>1, <3>2, <3>5, <3>6 DEF FromPair, p, q
  <2>3. CASE ~(2 * r <= Len(runs))
    <3>1. P[r] = p
      BY <1>2, <2>3
    <3>2. \A k \in 1 .. Len(runs) : k # 2 * r
      BY <1>1, <2>1, <2>3
    <3>. QED  BY <2>1, <3>1, <3>2 DEF FromPair
  <2>. QED  BY <2>2, <2>3
<1>4. \A r \in 1 .. m : P[r] \in Seq(SortItem)
  BY <1>3 DEF FromPair
<1>5. P \in Seq(Seq(SortItem)) /\ Len(P) = m
  <2>1. P \in [1 .. m -> Seq(SortItem)]
    BY <1>2, <1>4
  <2>. QED  BY <1>1, <2>1
<1>. QED  BY <1>3, <1>5 DEF m, P

LEMMA PassKeeps ==
  ASSUME NEW list \in Seq(SortItem), NEW n \in Nat, NEW runs \in RunsAt(list, n)
  PROVE  L!Pass(runs) \in RunsAt(list, n + 1)
<1> DEFINE K == Len(runs)
           m == (K + 1) \div 2
           P == L!Pass(runs)
<1>1. /\ runs \in Seq(Seq(SortItem)) /\ K \in Nat /\ K >= 1 /\ (K = 1 \/ K + n <= Len(list))
      /\ RunsInv(list, runs) /\ Len(list) \in Nat
  BY DEF RunsAt
<1>2. /\ P \in Seq(Seq(SortItem)) /\ Len(P) = m
      /\ \A r \in 1 .. m : FromPair(runs, r, P[r])
  BY <1>1, PassMerges DEF RunsInv
<1>3. /\ m \in Nat /\ m >= 1 /\ 2 * m >= K /\ 2 * m <= K + 1
      /\ K = 1 => m = 1
      /\ K > 1 => m + 1 <= K
  <2>1. K \in Nat /\ K >= 1
    BY <1>1
  <2> HIDE DEF K
  <2>. QED  BY <2>1
<1> HIDE DEF K, m, P
<1>4. m = 1 \/ m + (n + 1) <= Len(list)
  BY <1>1, <1>3
<1>5. \A r \in 1 .. m : Ordered(P[r])
  BY <1>2 DEF FromPair
<1>6. ASSUME NEW r \in 1 .. m, NEW k \in 1 .. m, r < k PROVE Stable(P[r], P[k])
  <2> SUFFICES ASSUME NEW a \in 1 .. Len(P[r]), NEW b \in 1 .. Len(P[k]), P[r][a].tag = P[k][b].tag
               PROVE  P[r][a].id < P[k][b].id
    BY DEF Stable
  <2>1. PICK r2 \in 1 .. Len(runs) : (r2 = 2 * r - 1 \/ r2 = 2 * r)
                               /\ \E c \in 1 .. Len(runs[r2]) : P[r][a] = runs[r2][c]
    BY <1>2 DEF FromPair
  <2>2. PICK k2 \in 1 .. Len(runs) : (k2 = 2 * k - 1 \/ k2 = 2 * k)
                               /\ \E c \in 1 .. Len(runs[k2]) : P[k][b] = runs[k2][c]
    BY <1>2 DEF FromPair
  <2>3. r2 < k2
    <3>1. r \in Int /\ k \in Int /\ r2 \in Int /\ k2 \in Int /\ r < k
      BY <1>6
    <3>2. (r2 = 2 * r - 1 \/ r2 = 2 * r) /\ (k2 = 2 * k - 1 \/ k2 = 2 * k)
      BY <2>1, <2>2
    <3>. QED  BY <3>1, <3>2
  <2>4. Stable(runs[r2], runs[k2])
    BY <1>1, <2>3 DEF RunsInv, K
  <2>. QED  BY <2>1, <2>2, <2>4 DEF Stable
<1>7. ASSUME NEW i \in 1 .. Len(list)
      PROVE  \E r \in 1 .. m : \E a \in 1 .. Len(P[r]) : P[r][a] = list[i]
  <2>1. PICK k \in 1 .. Len(runs) : \E b \in 1 .. Len(runs[k]) : runs[k][b] = list[i]
    BY <1>1 DEF RunsInv
  <2>2. PICK r \in 1 .. m : k = 2 * r - 1 \/ k = 2 * r
    <3> DEFINE h == (k + 1) \div 2
    <3>1. h \in 1 .. m /\ (k = 2 * h - 1 \/ k = 2 * h)
      BY <1>1, <1>3 DEF K
    <3>. QED  BY <3>1
  <2>3. \A b \in 1 .. Len(runs[k]) : \E a \in 1 .. Len(P[r]) : P[r][a] = runs[k][b]
    BY <1>2, <2>2 DEF FromPair
  <2>. QED  BY <2>1, <2>3
<1>8. ASSUME NEW r \in 1 .. m, NEW a \in 1 .. Len(P[r])
      PROVE  \E i \in 1 .. Len(list) : P[r][a] = list[i]
  <2>1. PICK k \in 1 .. Len(runs) : \E b \in 1 .. Len(runs[k]) : P[r][a] = runs[k][b]
    BY <1>2 DEF FromPair
  <2>. QED  BY <1>1, <2>1 DEF RunsInv
<1>9. RunsInv(list, P)
  BY <1>2, <1>5, <1>6, <1>7, <1>8 DEF RunsInv
<1>. QED  BY <1>2, <1>3, <1>4, <1>9 DEF RunsAt, P

LEMMA PassesStart ==
  ASSUME NEW list \in Seq(SortItem), Len(list) >= 1,
         \A i, j \in 1 .. Len(list) : i < j => list[i].id < list[j].id
  PROVE  [i \in 1 .. Len(list) |-> <<list[i]>>] \in RunsAt(list, 0)
<1> DEFINE runs == [i \in 1 .. Len(list) |-> <<list[i]>>]
<1>1. Len(list) \in Nat /\ \A i \in 1 .. Len(list) : list[i] \in SortItem
  OBVIOUS
<1>2. \A i \in 1 .. Len(list) : <<list[i]>> \in Seq(SortItem)
  BY <1>1
<1>3. runs \in Seq(Seq(SortItem)) /\ Len(runs) = Len(list)
  <2>1. runs \in [1 .. Len(list) -> Seq(SortItem)]
    BY <1>2
  <2>. QED  BY <1>1, <2>1
<1>4. \A i \in 1 .. Len(list) : runs[i] = <<list[i]>> /\ Len(runs[i]) = 1 /\ runs[i][1] = list[i]
  OBVIOUS
<1> HIDE DEF runs
<1>5. \A a \in 1 .. 1 : a = 1
  OBVIOUS
<1>6. \A r \in 1 .. Len(list) : Ordered(runs[r])
  BY <1>4, <1>5 DEF Ordered
<1>7. \A r, k \in 1 .. Len(list) : r < k => Stable(runs[r], runs[k])
  BY <1>4, <1>5 DEF Stable
<1>8. RunsInv(list, runs)
  <2>1. \A i \in 1 .. Len(list) : \E a \in 1 .. Len(runs[i]) : runs[i][a] = list[i]
    <3>1. 1 \in 1 .. 1
      OBVIOUS
    <3>. QED  BY <1>4, <3>1
  <2>2. \A r \in 1 .. Len(list) : \A a \in 1 .. Len(runs[r]) : runs[r][a] = list[r]
    BY <1>4, <1>5
  <2>3. \A i \in 1 .. Len(list) : \E r \in 1 .. Len(list) : \E a \in 1 .. Len(runs[r]) :
          runs[r][a] = list[i]
    BY <2>1
  <2>4. \A r \in 1 .. Len(list) : \A a \in 1 .. Len(runs[r]) : \E i \in 1 .. Len(list) :
          runs[r][a] = list[i]
    BY <2>2
  <2>. QED  BY <1>3, <1>6, <1>7, <2>3, <2>4 DEF RunsInv
<1>. QED  BY <1>1, <1>3, <1>8 DEF RunsAt, runs

(* Two lists of the same items, none of which occurs twice.                *)
SameItems(f, m, g, n) ==
  /\ \A i, j \in 1 .. m : f[i] = f[j] => i = j
  /\ \A i, j \in 1 .. n : g[i] = g[j] => i = j
  /\ \A i \in 1 .. m : \E j \in 1 .. n : g[j] = f[i]
  /\ \A j \in 1 .. n : \E i \in 1 .. m : g[j] = f[i]

LEMMA SameLength ==
  ASSUME NEW m \in Nat, NEW n \in Nat, NEW f, NEW g, SameItems(f, m, g, n)
  PROVE  m = n
<1> DEFINE h == [i \in 1 .. m |-> CHOOSE j \in 1 .. n : g[j] = f[i]]
<1>1. \A i \in 1 .. m : h[i] \in 1 .. n /\ g[h[i]] = f[i]
  BY DEF SameItems
<1>2. h \in [1 .. m -> 1 .. n]
  BY <1>1
<1>3. \A i, j \in 1 .. m : h[i] = h[j] => i = j
  BY <1>1 DEF SameItems
<1>4. \A j \in 1 .. n : \E i \in 1 .. m : h[i] = j
  BY <1>1 DEF SameItems
<1> HIDE DEF h
<1>5. h \in Bijection(1 .. m, 1 .. n)
  BY <1>2, <1>3, <1>4 DEF Bijection, Injection, Surjection, IsInjective
<1>6. ExistsBijection(1 .. m, 1 .. n)
  BY <1>5 DEF ExistsBijection
<1>7. Cardinality(1 .. n) = m
  BY <1>6, FS_CountingElements
<1>8. Cardinality(1 .. n) = n
  BY FS_Interval
<1>. QED  BY <1>7, <1>8

LEMMA PassesLoop ==
  ASSUME NEW list \in Seq(SortItem), Len(list) >= 1,
         \A i, j \in 1 .. Len(list) : i < j => list[i].id < list[j].id
  PROVE  \E runs \in RunsAt(list, Len(list)) : L!Sort(list) = runs[1]
<1> DEFINE m == Len(list)
           x == [i \in 1 .. m |-> <<list[i]>>]
           Loop(g) == g = [n \in 0 .. m |-> IF n = 0 THEN x ELSE L!Pass(g[n - 1])]
           after == CHOOSE g : Loop(g)
           D == [n \in 0 .. m |-> RunsAt(list, n)]
           All == UNION {D[n] : n \in 0 .. m}
           f == [s \in All |-> L!Pass(s)]
<1>1. m \in Nat
  OBVIOUS
<1>2. \A n \in 0 .. m : D[n] = RunsAt(list, n)
  OBVIOUS
<1>3. \A n \in 0 .. m : \A s \in D[n] : f[s] = L!Pass(s)
  OBVIOUS
<1>4. L!Sort(list) = after[m][1]
  BY DEF L!Sort
<1>5. x \in RunsAt(list, 0)
  BY PassesStart
<1> HIDE DEF x, D, All, f
<1>6. x \in D[0]
  BY <1>1, <1>2, <1>5
<1>7. ASSUME NEW n \in 0 .. m, n < m, NEW s \in D[n] PROVE L!Pass(s) \in D[n + 1]
  <2>1. n \in Nat /\ n + 1 \in 0 .. m
    BY <1>1, <1>7
  <2>2. s \in RunsAt(list, n)
    BY <1>2
  <2> HIDE DEF m
  <2>3. L!Pass(s) \in RunsAt(list, n + 1)
    BY <2>1, <2>2, PassKeeps
  <2>. QED  BY <1>2, <2>1, <2>3
<1> HIDE DEF m, after, Loop
<1>8. \A n \in 0 .. m : n < m => \A s \in D[n] : f[s] \in D[n + 1]
  BY <1>3, <1>7
<1>9. PICK g : Rounds(m, f, x, g) /\ \A n \in 0 .. m : g[n] \in D[n]
  BY <1>1, <1>6, <1>8, LoopExists
<1>10. Loop(g)
  <2>1. \A n \in 0 .. m : n # 0 => f[g[n - 1]] = L!Pass(g[n - 1])
    <3> SUFFICES ASSUME NEW n \in 0 .. m, n # 0 PROVE f[g[n - 1]] = L!Pass(g[n - 1])
      OBVIOUS
    <3>1. n - 1 \in 0 .. m
      BY <1>1
    <3>. QED  BY <1>3, <1>9, <3>1
  <2>. QED  BY <1>9, <2>1, Zenon DEF Rounds, Loop
<1>11. Loop(after)
  BY <1>10, Zenon DEF after
<1>12. /\ after[0] = x
       /\ \A n \in 1 .. m : after[n] = L!Pass(after[n - 1])
  <2>1. \A n \in 0 .. m : after[n] = IF n = 0 THEN x ELSE L!Pass(after[n - 1])
    BY <1>11, Zenon DEF Loop
  <2>2. 0 \in 0 .. m /\ \A n \in 1 .. m : n \in 0 .. m /\ n # 0
    BY <1>1
  <2>. QED  BY <2>1, <2>2, Zenon
<1>13. \A n \in 1 .. m : after[n - 1] \in D[n - 1] => after[n] \in D[n]
  <2> SUFFICES ASSUME NEW n \in 1 .. m, after[n - 1] \in D[n - 1] PROVE after[n] \in D[n]
    OBVIOUS
  <2>1. n - 1 \in 0 .. m /\ n - 1 < m /\ (n - 1) + 1 = n
    BY <1>1
  <2>2. L!Pass(after[n - 1]) \in D[(n - 1) + 1]
    BY <1>7, <2>1
  <2>. QED  BY <1>12, <2>1, <2>2
<1>14. after[0] \in D[0]
  BY <1>6, <1>12
<1>15. \A n \in 0 .. m : after[n] \in D[n]
  BY <1>1, <1>13, <1>14, LoopKeeps
<1>16. after[m] \in RunsAt(list, m)
  BY <1>1, <1>2, <1>15
<1>. QED  BY <1>4, <1>16 DEF m

(* The sort of the queues is stable and loses nothing, whatever the list.  *)
THEOREM SortAlwaysSound ==
  ASSUME NEW list \in Seq(SortItem), Len(list) >= 1,
         \A i, j \in 1 .. Len(list) : i < j => list[i].id < list[j].id
  PROVE  L!SortedFrom(list, L!Sort(list))
<1>1. PICK runs \in RunsAt(list, Len(list)) : L!Sort(list) = runs[1]
  BY PassesLoop
<1> DEFINE p == runs[1]
           m == Len(list)
<1>2. m \in Nat /\ Len(runs) \in Nat /\ Len(runs) = 1 /\ p \in Seq(SortItem) /\ RunsInv(list, runs)
  <2>1. /\ runs \in Seq(Seq(SortItem)) /\ Len(runs) >= 1
        /\ Len(runs) = 1 \/ Len(runs) + m <= m
        /\ RunsInv(list, runs)
    BY DEF RunsAt
  <2>. QED  BY <2>1
<1>3. 1 .. Len(runs) = {1}
  BY <1>2
<1>4. /\ Ordered(p)
      /\ \A i \in 1 .. m : \E a \in 1 .. Len(p) : p[a] = list[i]
      /\ \A a \in 1 .. Len(p) : \E i \in 1 .. m : p[a] = list[i]
  BY <1>2, <1>3 DEF RunsInv
<1> HIDE DEF p
<1>5. \A a \in 1 .. Len(p) : p[a] \in SortItem /\ p[a].tag \in Int /\ p[a].id \in Int
  BY <1>2, OrderedFacts
<1>6. \A a, b \in 1 .. Len(p) : a < b => p[a].tag < p[b].tag \/ (p[a].tag = p[b].tag /\ p[a].id < p[b].id)
  BY <1>4, <1>5, LexIs DEF Ordered
<1>7. Len(p) = m
  <2>1. Len(p) \in Nat
    BY <1>2
  <2>2. \A a, b \in 1 .. Len(p) : p[a] = p[b] => a = b
    <3> SUFFICES ASSUME NEW a \in 1 .. Len(p), NEW b \in 1 .. Len(p), p[a] = p[b], a # b PROVE FALSE
      OBVIOUS
    <3>1. a < b \/ b < a
      BY <2>1
    <3>. QED  BY <1>5, <1>6, <3>1
  <2>3. \A i, j \in 1 .. m : list[i] = list[j] => i = j
    <3> SUFFICES ASSUME NEW i \in 1 .. m, NEW j \in 1 .. m, list[i] = list[j], i # j PROVE FALSE
      OBVIOUS
    <3>1. i < j \/ j < i
      OBVIOUS
    <3>2. list[i].id \in Int
      BY OrderedFacts
    <3>3. list[i].id < list[j].id \/ list[j].id < list[i].id
      BY <3>1
    <3>. QED  BY <3>2, <3>3
  <2> HIDE DEF m
  <2>4. SameItems(list, m, p, Len(p))
    BY <1>4, <2>2, <2>3 DEF SameItems
  <2>. QED  BY <1>2, <2>1, <2>4, SameLength
<1>8. DOMAIN list = 1 .. m /\ DOMAIN p = 1 .. Len(p)
  BY <1>2
<1>9. L!SortedFrom(list, p)
  BY <1>4, <1>6, <1>7, <1>8 DEF L!SortedFrom
<1>. QED  BY <1>1, <1>9 DEF p

-----------------------------------------------------------------------------
(* The trees of the heap *)

(* N has the nodes, those in Rt are roots and l has the lists of all keys: *)
(* every other node is in exactly one list, that of an earlier node, and   *)
(* the i-th of a list of d has a list of d - i.                            *)
Trees(N, Rt, l) ==
  /\ N \in SUBSET Keys /\ Rt \in SUBSET N /\ l \in [Keys -> Seq(Keys)]
  /\ \A x \in N : \A i \in 1 .. Len(l[x]) :
       l[x][i] \in N /\ l[x][i] \notin Rt /\ x < l[x][i] /\ Len(l[l[x][i]]) = Len(l[x]) - i
  /\ \A x, y \in N : \A i \in 1 .. Len(l[x]), j \in 1 .. Len(l[y]) :
       l[x][i] = l[y][j] => x = y /\ i = j
  /\ \A x \in N : x \in Rt \/ \E y \in N : \E i \in 1 .. Len(l[y]) : l[y][i] = x

LEMMA KeyIs ==
  /\ \A k \in Keys : k \in Nat /\ k \in Int /\ k > 0
  /\ 0 \notin Keys
BY ContainersAssumption

LEMMA LeastNatural ==
  ASSUME NEW T \in SUBSET Nat, T # {}
  PROVE  \E m \in T : \A n \in T : m <= n
<1> DEFINE Lower == {p \in Nat \X Nat : p[1] < p[2]}
<1>1. IsWellFoundedOn(Lower, Nat)
  BY NatLessThanWellFounded DEF OpToRel
<1>2. PICK m \in T : \A n \in T : <<n, m>> \notin Lower
  <2> HIDE DEF Lower
  <2>. QED  BY <1>1, WFMin
<1>3. \A n \in T : n \in Nat /\ ~(n < m)
  BY <1>2
<1>. QED  BY <1>3

(* No node is before all roots. *)
LEMMA RootBefore ==
  ASSUME NEW N, NEW Rt, NEW l, Trees(N, Rt, l), NEW k \in N
  PROVE  \E r \in Rt : r <= k
<1> DEFINE Bad == {n \in N : ~\E r \in Rt : r <= n}
<1> SUFFICES ASSUME Bad # {} PROVE FALSE
  OBVIOUS
<1>1. N \in SUBSET Keys /\ Rt \in SUBSET N
  BY DEF Trees
<1>2. Bad \in SUBSET Nat
  BY <1>1, KeyIs
<1>3. PICK m \in Bad : \A n \in Bad : m <= n
  <2> HIDE DEF Bad
  <2>. QED  BY <1>2, LeastNatural
<1>4. m \in N /\ m \in Nat /\ \A r \in Rt : ~(r <= m)
  BY <1>2
<1>5. m \notin Rt
  BY <1>4
<1>6. PICK y \in N : \E i \in 1 .. Len(l[y]) : l[y][i] = m
  BY <1>4, <1>5 DEF Trees
<1>7. y < m /\ y \in Nat
  BY <1>1, <1>6, KeyIs DEF Trees
<1>8. y \notin Bad
  BY <1>3, <1>4, <1>7
<1>9. PICK r \in Rt : r <= y
  BY <1>8
<1>10. r \in Nat
  BY <1>1, KeyIs
<1>. QED  BY <1>4, <1>7, <1>9, <1>10

(* A node joins the roots. *)
LEMMA TreesAdd ==
  ASSUME NEW N, NEW Rt, NEW l, Trees(N, Rt, l), NEW k \in Keys, k \notin N, l[k] = <<>>
  PROVE  Trees(N \cup {k}, Rt \cup {k}, l)
<1> DEFINE M == N \cup {k}
           Q == Rt \cup {k}
<1>1. Len(l[k]) = 0 /\ 1 .. 0 = {}
  OBVIOUS
<1>2. M \in SUBSET Keys /\ Q \in SUBSET M /\ l \in [Keys -> Seq(Keys)]
  BY DEF Trees
<1>3. \A x \in M : \A i \in 1 .. Len(l[x]) :
        l[x][i] \in M /\ l[x][i] \notin Q /\ x < l[x][i] /\ Len(l[l[x][i]]) = Len(l[x]) - i
  BY <1>1 DEF Trees
<1>4. \A x, y \in M : \A i \in 1 .. Len(l[x]), j \in 1 .. Len(l[y]) :
        l[x][i] = l[y][j] => x = y /\ i = j
  BY <1>1 DEF Trees
<1>5. \A x \in M : x \in Q \/ \E y \in M : \E i \in 1 .. Len(l[y]) : l[y][i] = x
  BY DEF Trees
<1> HIDE DEF M, Q
<1>6. Trees(M, Q, l)
  BY <1>2, <1>3, <1>4, <1>5 DEF Trees
<1>. QED  BY <1>6 DEF M, Q

(* A root is taken out, and the nodes of its list become roots. *)
LEMMA TreesRemove ==
  ASSUME NEW N, NEW Rt, NEW l, Trees(N, Rt, l), NEW m \in Rt,
         NEW Q, \A x : x \in Q <=> (x \in Rt /\ x # m) \/ \E i \in 1 .. Len(l[m]) : l[m][i] = x
  PROVE  Trees(N \ {m}, Q, l)
<1> DEFINE M == N \ {m}
<1>1. m \in N /\ m \in Int /\ Rt \in SUBSET N
  BY KeyIs DEF Trees
<1>2. \A i \in 1 .. Len(l[m]) : l[m][i] \in M
  BY <1>1 DEF Trees
<1>3. M \in SUBSET Keys /\ Q \in SUBSET M /\ l \in [Keys -> Seq(Keys)]
  <2>1. \A x \in Q : x \in M
    BY <1>1, <1>2
  <2>2. N \in SUBSET Keys /\ l \in [Keys -> Seq(Keys)]
    BY DEF Trees
  <2>. QED  BY <2>1, <2>2
<1>4. ASSUME NEW x \in M, NEW i \in 1 .. Len(l[x])
      PROVE  l[x][i] \in M /\ l[x][i] \notin Q /\ x < l[x][i] /\ Len(l[l[x][i]]) = Len(l[x]) - i
  <2>1. l[x][i] \in N /\ l[x][i] \notin Rt /\ x < l[x][i] /\ Len(l[l[x][i]]) = Len(l[x]) - i
    BY DEF Trees
  <2>2. \A j \in 1 .. Len(l[m]) : l[m][j] # l[x][i]
    BY <1>1 DEF Trees
  <2>. QED  BY <2>1, <2>2
<1>5. \A x, y \in M : \A i \in 1 .. Len(l[x]), j \in 1 .. Len(l[y]) :
        l[x][i] = l[y][j] => x = y /\ i = j
  BY DEF Trees
<1>6. \A x \in M : x \in Q \/ \E y \in M : \E i \in 1 .. Len(l[y]) : l[y][i] = x
  <2> SUFFICES ASSUME NEW x \in M, x \notin Q PROVE \E y \in M : \E i \in 1 .. Len(l[y]) : l[y][i] = x
    OBVIOUS
  <2>1. x \in N /\ x \notin Rt
    OBVIOUS
  <2>2. PICK y \in N : \E i \in 1 .. Len(l[y]) : l[y][i] = x
    BY <2>1 DEF Trees
  <2>3. y # m
    BY <2>2
  <2>. QED  BY <2>2, <2>3
<1> HIDE DEF M
<1>7. Trees(M, Q, l)
  BY <1>3, <1>4, <1>5, <1>6 DEF Trees
<1>. QED  BY <1>7 DEF M

(* A tree becomes a subtree of another: y is the first in the list of x. *)
Joined(l, x, y, h) ==
  /\ h \in [Keys -> Seq(Keys)] /\ Len(h[x]) = Len(l[x]) + 1 /\ h[x][1] = y
  /\ \A i \in 1 .. Len(l[x]) : h[x][i + 1] = l[x][i]
  /\ \A i \in 1 .. Len(h[x]) : i = 1 \/ (i - 1 \in 1 .. Len(l[x]) /\ h[x][i] = l[x][i - 1])
  /\ \A z \in Keys : z # x => h[z] = l[z]

LEMMA LinkList ==
  ASSUME NEW l \in [Keys -> Seq(Keys)], NEW x \in Keys, NEW y \in Keys
  PROVE  Joined(l, x, y, H!Link(l, x, y))
<1> DEFINE s == <<y>> \o l[x]
           h == H!Link(l, x, y)
<1>1. l[x] \in Seq(Keys) /\ Len(l[x]) \in Nat
  OBVIOUS
<1>2. s \in Seq(Keys) /\ Len(s) = Len(l[x]) + 1 /\ s[1] = y
  BY <1>1
<1>3. \A i \in 1 .. Len(l[x]) : s[i + 1] = l[x][i]
  BY <1>1
<1>4. \A i \in 1 .. Len(s) : i = 1 \/ (i - 1 \in 1 .. Len(l[x]) /\ s[i] = l[x][i - 1])
  <2> SUFFICES ASSUME NEW i \in 1 .. Len(s), i # 1
               PROVE  i - 1 \in 1 .. Len(l[x]) /\ s[i] = l[x][i - 1]
    OBVIOUS
  <2>1. i - 1 \in 1 .. Len(l[x]) /\ (i - 1) + 1 = i
    BY <1>1, <1>2
  <2> HIDE DEF s
  <2>. QED  BY <1>3, <2>1
<1>5. h = [l EXCEPT ![x] = s]
  BY DEF H!Link
<1> HIDE DEF s, h
<1>6. h[x] = s /\ h \in [Keys -> Seq(Keys)] /\ \A z \in Keys : z # x => h[z] = l[z]
  BY <1>2, <1>5
<1>7. Joined(l, x, y, h)
  BY <1>2, <1>3, <1>4, <1>6 DEF Joined
<1>. QED  BY <1>7 DEF h

LEMMA TreesLink ==
  ASSUME NEW N, NEW Rt, NEW l, Trees(N, Rt, l), NEW x \in Rt, NEW y \in Rt, x < y,
         Len(l[x]) = Len(l[y]), NEW h, h = H!Link(l, x, y)
  PROVE  Trees(N, Rt \ {y}, h)
<1> DEFINE Q == Rt \ {y}
<1>1. /\ x \in Keys /\ y \in Keys /\ x \in N /\ y \in N /\ x # y /\ l \in [Keys -> Seq(Keys)]
      /\ N \in SUBSET Keys /\ Rt \in SUBSET N
  BY KeyIs DEF Trees
<1>2. /\ h \in [Keys -> Seq(Keys)] /\ Len(h[x]) = Len(l[x]) + 1 /\ h[x][1] = y
      /\ \A i \in 1 .. Len(l[x]) : h[x][i + 1] = l[x][i]
      /\ \A i \in 1 .. Len(h[x]) : i = 1 \/ (i - 1 \in 1 .. Len(l[x]) /\ h[x][i] = l[x][i - 1])
      /\ \A z \in Keys : z # x => h[z] = l[z]
  <2>1. Joined(l, x, y, h)
    BY <1>1, LinkList
  <2>. QED  BY <2>1 DEF Joined
<1>3. /\ \A z \in N : \A i \in 1 .. Len(l[z]) :
           l[z][i] \in N /\ l[z][i] \notin Rt /\ z < l[z][i] /\ Len(l[l[z][i]]) = Len(l[z]) - i
      /\ \A z, u \in N : \A i \in 1 .. Len(l[z]), j \in 1 .. Len(l[u]) :
           l[z][i] = l[u][j] => z = u /\ i = j
      /\ \A z \in N : z \in Rt \/ \E u \in N : \E i \in 1 .. Len(l[u]) : l[u][i] = z
  BY DEF Trees
<1>4. Len(l[x]) \in Nat
  BY <1>1
<1>5. ASSUME NEW z \in N, NEW i \in 1 .. Len(l[z])
      PROVE  l[z][i] \in N /\ l[z][i] \notin Q /\ Len(h[l[z][i]]) = Len(l[z]) - i
  <2> DEFINE k == l[z][i]
  <2>1. k \in N /\ k \notin Rt /\ Len(l[k]) = Len(l[z]) - i
    BY <1>3
  <2>2. k # x /\ k \in Keys
    BY <1>1, <2>1
  <2>3. h[k] = l[k]
    BY <1>2, <2>2
  <2>. QED  BY <2>1, <2>3
<1>6. ASSUME NEW z \in N, NEW i \in 1 .. Len(h[z])
      PROVE  h[z][i] \in N /\ h[z][i] \notin Q /\ z < h[z][i] /\ Len(h[h[z][i]]) = Len(h[z]) - i
  <2>1. CASE z # x
    <3>1. h[z] = l[z]
      BY <1>1, <1>2, <2>1
    <3>. QED  BY <1>3, <1>5, <3>1
  <2>2. CASE z = x /\ i = 1
    <3>1. h[z][i] = y /\ Len(h[y]) = Len(l[y]) /\ Len(h[z]) = Len(l[x]) + 1
      BY <1>1, <1>2, <2>2
    <3>. QED  BY <1>1, <1>4, <2>2, <3>1
  <2>3. CASE z = x /\ i # 1
    <3> DEFINE j == i - 1
    <3>1. j \in 1 .. Len(l[x]) /\ h[z][i] = l[x][j] /\ Len(h[z]) = Len(l[x]) + 1
      BY <1>2, <2>3
    <3>2. i = j + 1 /\ j \in Int
      BY <3>1
    <3> HIDE DEF j
    <3>3. Len(h[l[x][j]]) = Len(l[x]) - j
      BY <1>1, <1>5, <3>1
    <3>4. l[x][j] \in N /\ l[x][j] \notin Q /\ x < l[x][j]
      BY <1>1, <1>3, <1>5, <3>1
    <3>. QED  BY <1>4, <2>3, <3>1, <3>2, <3>3, <3>4
  <2>. QED  BY <2>1, <2>2, <2>3
<1>7. ASSUME NEW z \in N, NEW i \in 1 .. Len(h[z])
      PROVE  \/ h[z][i] = y /\ z = x /\ i = 1
             \/ \E j \in 1 .. Len(l[z]) : h[z][i] = l[z][j] /\ (z = x => i = j + 1) /\ (z # x => i = j)
  <2>1. CASE z # x
    BY <1>1, <1>2, <2>1
  <2>2. CASE z = x /\ i = 1
    BY <1>2, <2>2
  <2>3. CASE z = x /\ i # 1
    <3>1. i - 1 \in 1 .. Len(l[x]) /\ h[z][i] = l[x][i - 1] /\ i = (i - 1) + 1
      BY <1>2, <2>3
    <3>. QED  BY <2>3, <3>1
  <2>. QED  BY <2>1, <2>2, <2>3
<1>8. ASSUME NEW z \in N, NEW u \in N, NEW i \in 1 .. Len(h[z]), NEW j \in 1 .. Len(h[u]), h[z][i] = h[u][j]
      PROVE  z = u /\ i = j
  <2>1. \A v \in N : \A k \in 1 .. Len(l[v]) : l[v][k] # y
    BY <1>3
  <2>2. CASE h[z][i] = y
    <3>1. z = x /\ i = 1
      BY <1>7, <2>1, <2>2
    <3>2. u = x /\ j = 1
      BY <1>7, <1>8, <2>1, <2>2
    <3>. QED  BY <3>1, <3>2
  <2>3. CASE h[z][i] # y
    <3>1. PICK a \in 1 .. Len(l[z]) : h[z][i] = l[z][a] /\ (z = x => i = a + 1) /\ (z # x => i = a)
      BY <1>7, <2>3
    <3>2. PICK b \in 1 .. Len(l[u]) : h[u][j] = l[u][b] /\ (u = x => j = b + 1) /\ (u # x => j = b)
      BY <1>7, <1>8, <2>3
    <3>3. l[z][a] = l[u][b]
      BY <1>8, <3>1, <3>2
    <3>4. z = u /\ a = b
      BY <1>3, <3>3
    <3>. QED  BY <3>1, <3>2, <3>4
  <2>. QED  BY <2>2, <2>3
<1>9. ASSUME NEW z \in N, z \notin Q PROVE \E u \in N : \E i \in 1 .. Len(h[u]) : h[u][i] = z
  <2>1. CASE z = y
    <3>1. 1 \in 1 .. Len(h[x])
      BY <1>2, <1>4
    <3>. QED  BY <1>1, <1>2, <2>1, <3>1
  <2>2. CASE z # y
    <3>1. PICK u \in N : \E i \in 1 .. Len(l[u]) : l[u][i] = z
      BY <1>3, <1>9, <2>2
    <3>2. PICK i \in 1 .. Len(l[u]) : l[u][i] = z
      BY <3>1
    <3>3. CASE u = x
      <4>1. i \in 1 .. Len(l[x]) /\ l[x][i] = z
        BY <3>2, <3>3
      <4>2. i + 1 \in 1 .. Len(l[x]) + 1
        BY <1>4, <4>1
      <4>3. i + 1 \in 1 .. Len(h[x]) /\ h[x][i + 1] = z
        BY <1>2, <4>1, <4>2
      <4>. QED  BY <1>1, <4>3
    <3>4. CASE u # x
      <4>1. h[u] = l[u]
        BY <1>1, <1>2, <3>4
      <4>. QED  BY <3>2, <4>1
    <3>. QED  BY <3>3, <3>4
  <2>. QED  BY <2>1, <2>2
<1>10. Q \in SUBSET N
  BY <1>1
<1> HIDE DEF Q
<1>11. Trees(N, Q, h)
  BY <1>1, <1>2, <1>6, <1>8, <1>9, <1>10 DEF Trees
<1>. QED  BY <1>11 DEF Q

(* The lists of other keys do not matter. *)
LEMMA TreesAgree ==
  ASSUME NEW N, NEW Rt, NEW l, Trees(N, Rt, l), NEW h \in [Keys -> Seq(Keys)],
         \A k \in N : h[k] = l[k]
  PROVE  Trees(N, Rt, h)
<1>1. /\ \A x \in N : \A i \in 1 .. Len(l[x]) :
           l[x][i] \in N /\ l[x][i] \notin Rt /\ x < l[x][i] /\ Len(l[l[x][i]]) = Len(l[x]) - i
      /\ \A x, y \in N : \A i \in 1 .. Len(l[x]), j \in 1 .. Len(l[y]) :
           l[x][i] = l[y][j] => x = y /\ i = j
      /\ \A x \in N : x \in Rt \/ \E y \in N : \E i \in 1 .. Len(l[y]) : l[y][i] = x
  BY DEF Trees
<1>2. ASSUME NEW x \in N, NEW i \in 1 .. Len(h[x])
      PROVE  h[x][i] \in N /\ h[x][i] \notin Rt /\ x < h[x][i] /\ Len(h[h[x][i]]) = Len(h[x]) - i
  <2>1. h[x] = l[x] /\ i \in 1 .. Len(l[x])
    OBVIOUS
  <2>2. l[x][i] \in N
    BY <1>1, <2>1
  <2>3. h[l[x][i]] = l[l[x][i]]
    BY <2>2
  <2>. QED  BY <1>1, <2>1, <2>3
<1>3. ASSUME NEW x \in N, NEW y \in N, NEW i \in 1 .. Len(h[x]), NEW j \in 1 .. Len(h[y]),
             h[x][i] = h[y][j]
      PROVE  x = y /\ i = j
  <2>1. h[x] = l[x] /\ h[y] = l[y]
    OBVIOUS
  <2>. QED  BY <1>1, <1>3, <2>1
<1>4. ASSUME NEW x \in N, x \notin Rt PROVE \E y \in N : \E i \in 1 .. Len(h[y]) : h[y][i] = x
  <2>1. PICK y \in N : \E i \in 1 .. Len(l[y]) : l[y][i] = x
    BY <1>1, <1>4
  <2>2. h[y] = l[y]
    OBVIOUS
  <2>. QED  BY <2>1, <2>2
<1>. QED  BY <1>2, <1>3, <1>4 DEF Trees

-----------------------------------------------------------------------------
(* Lists of roots *)

RootsOf(p) == {p[i] : i \in 1 .. Len(p)}
Distinct(p) == \A i, j \in 1 .. Len(p) : p[i] = p[j] => i = j

(* The degrees of the trees of p strictly increase; when two heaps have    *)
(* been merged, they do not decrease, and no three are equal.              *)
Rising(p, l) == \A i, j \in 1 .. Len(p) : i < j => Len(l[p[i]]) < Len(l[p[j]])
Loose(p, l) ==
  /\ \A i, j \in 1 .. Len(p) : i < j => Len(l[p[i]]) <= Len(l[p[j]])
  /\ \A i, j \in 1 .. Len(p) : i + 2 <= j => Len(l[p[i]]) < Len(l[p[j]])

MergedRoots(l, p, q, r) ==
  /\ r \in Seq(Keys) /\ Len(r) = Len(p) + Len(q)
  /\ Distinct(r) /\ Loose(r, l)
  /\ RootsOf(r) = RootsOf(p) \cup RootsOf(q)

(* The order of the merged list: of two of a degree, that of q is first.   *)
Later(l, p, q) ==
  {z \in Keys \X Keys :
     \/ Len(l[z[1]]) < Len(l[z[2]])
     \/ Len(l[z[1]]) = Len(l[z[2]]) /\ z[1] \in RootsOf(q) /\ z[2] \in RootsOf(p)}

LEMMA LaterIs ==
  ASSUME NEW l, NEW p, NEW q, NEW x \in Keys, NEW y \in Keys
  PROVE  <<x, y>> \in Later(l, p, q) <=>
           \/ Len(l[x]) < Len(l[y])
           \/ Len(l[x]) = Len(l[y]) /\ x \in RootsOf(q) /\ y \in RootsOf(p)
BY DEF Later

LEMMA RootsAre ==
  ASSUME NEW p \in Seq(Keys), NEW l \in [Keys -> Seq(Keys)]
  PROVE  /\ Len(p) \in Nat
         /\ \A i \in 1 .. Len(p) : p[i] \in Keys /\ p[i] \in RootsOf(p) /\ Len(l[p[i]]) \in Nat
<1>1. \A i \in 1 .. Len(p) : p[i] \in Keys
  OBVIOUS
<1>2. \A k \in Keys : Len(l[k]) \in Nat
  <2> TAKE k \in Keys
  <2>1. l[k] \in Seq(Keys)
    OBVIOUS
  <2>. QED  BY <2>1
<1>. QED  BY <1>1, <1>2 DEF RootsOf

LEMMA HeapMergeable ==
  ASSUME NEW p \in Seq(Keys), NEW q \in Seq(Keys), NEW l \in [Keys -> Seq(Keys)],
         Rising(p, l), Rising(q, l),
         NEW C, C = {z \in (1 .. Len(p)) \X (1 .. Len(q)) : Len(l[p[z[1]]]) < Len(l[q[z[2]]])}
  PROVE  Mergeable(p, q, Later(l, p, q), C)
<1> DEFINE R == Later(l, p, q)
           D(k) == Len(l[k])
<1>1. /\ \A i \in 1 .. Len(p) : p[i] \in Keys /\ p[i] \in RootsOf(p) /\ D(p[i]) \in Nat
      /\ \A i \in 1 .. Len(q) : q[i] \in Keys /\ q[i] \in RootsOf(q) /\ D(q[i]) \in Nat
      /\ Len(p) \in Nat /\ Len(q) \in Nat
  BY RootsAre
<1>2. /\ \A i, j \in 1 .. Len(p) : i < j => D(p[i]) < D(p[j])
      /\ \A i, j \in 1 .. Len(q) : i < j => D(q[i]) < D(q[j])
  BY DEF Rising
<1>3. \A x, y \in Keys : <<x, y>> \in R <=>
        D(x) < D(y) \/ (D(x) = D(y) /\ x \in RootsOf(q) /\ y \in RootsOf(p))
  BY LaterIs
<1>4. \A a \in 1 .. Len(p), b \in 1 .. Len(q) : <<a, b>> \in C <=> D(p[a]) < D(q[b])
  OBVIOUS
<1> HIDE DEF R, D
<1>5. \A a, b \in 1 .. Len(p) : a < b => <<p[a], p[b]>> \in R
  BY <1>1, <1>2, <1>3
<1>6. \A a, b \in 1 .. Len(q) : a < b => <<q[a], q[b]>> \in R
  BY <1>1, <1>2, <1>3
<1>7. ASSUME NEW a \in 1 .. Len(p), NEW b \in 1 .. Len(q), NEW c \in 1 .. Len(q), c >= b,
             D(p[a]) < D(q[b])
      PROVE  <<p[a], q[c]>> \in R
  <2>1. D(q[b]) <= D(q[c])
    <3>1. b = c \/ b < c
      BY <1>7
    <3>2. CASE b = c
      <4>1. D(q[b]) \in Nat
        BY <1>1
      <4>. QED  BY <3>2, <4>1
    <3>3. CASE b < c
      <4>1. D(q[b]) \in Nat /\ D(q[c]) \in Nat
        BY <1>1
      <4>2. D(q[b]) < D(q[c])
        BY <1>2, <3>3
      <4>. QED  BY <4>1, <4>2
    <3>. QED  BY <3>1, <3>2, <3>3
  <2>2. D(p[a]) < D(q[c])
    BY <1>1, <1>7, <2>1
  <2>. QED  BY <1>1, <1>3, <2>2
<1>8. ASSUME NEW a \in 1 .. Len(p), NEW b \in 1 .. Len(q), NEW c \in 1 .. Len(p), c >= a,
             ~(D(p[a]) < D(q[b]))
      PROVE  <<q[b], p[c]>> \in R
  <2>1. D(p[a]) <= D(p[c])
    <3>1. a = c \/ a < c
      BY <1>8
    <3>. QED  BY <1>1, <1>2, <3>1
  <2>2. D(q[b]) \in Nat /\ D(p[a]) \in Nat /\ D(p[c]) \in Nat
    BY <1>1
  <2>3. D(q[b]) < D(p[c]) \/ D(q[b]) = D(p[c])
    <3>1. \A x, y, z \in Nat : ~(y < x) /\ y <= z => x < z \/ x = z
      OBVIOUS
    <3>2. ~(D(p[a]) < D(q[b]))
      BY <1>8
    <3>. QED  BY <2>1, <2>2, <3>1, <3>2, Zenon
  <2>. QED  BY <1>1, <1>3, <2>3
<1>9. Mergeable(p, q, R, C)
  BY <1>4, <1>5, <1>6, <1>7, <1>8 DEF Mergeable
<1>. QED  BY <1>9 DEF R

(* What the order says of the merged list. *)
LEMMA MergedIsLoose ==
  ASSUME NEW p \in Seq(Keys), NEW q \in Seq(Keys), NEW l \in [Keys -> Seq(Keys)],
         RootsOf(p) \cap RootsOf(q) = {}, NEW r, Merged(Keys, p, q, Later(l, p, q), r)
  PROVE  MergedRoots(l, p, q, r)
<1> DEFINE R == Later(l, p, q)
           D(k) == Len(l[k])
<1>1. /\ r \in Seq(Keys) /\ Len(r) = Len(p) + Len(q)
      /\ \A a, b \in 1 .. Len(r) : a < b => <<r[a], r[b]>> \in R
      /\ \A a \in 1 .. Len(r) : \/ \E b \in 1 .. Len(p) : r[a] = p[b]
                                \/ \E b \in 1 .. Len(q) : r[a] = q[b]
      /\ \A b \in 1 .. Len(p) : \E a \in 1 .. Len(r) : r[a] = p[b]
      /\ \A b \in 1 .. Len(q) : \E a \in 1 .. Len(r) : r[a] = q[b]
  BY DEF Merged
<1>2. /\ \A i \in 1 .. Len(r) : r[i] \in Keys /\ D(r[i]) \in Nat
      /\ Len(r) \in Nat
  BY <1>1, RootsAre
<1>3. \A x, y \in Keys : <<x, y>> \in R <=>
        D(x) < D(y) \/ (D(x) = D(y) /\ x \in RootsOf(q) /\ y \in RootsOf(p))
  BY LaterIs
<1>4. RootsOf(r) = RootsOf(p) \cup RootsOf(q)
  <2>1. \A a \in 1 .. Len(r) : r[a] \in RootsOf(p) \cup RootsOf(q)
    BY <1>1, Zenon DEF RootsOf
  <2>2. \A b \in 1 .. Len(p) : p[b] \in RootsOf(r)
    BY <1>1, Zenon DEF RootsOf
  <2>3. \A b \in 1 .. Len(q) : q[b] \in RootsOf(r)
    BY <1>1, Zenon DEF RootsOf
  <2>4. /\ \A x \in RootsOf(r) : \E a \in 1 .. Len(r) : x = r[a]
        /\ \A x \in RootsOf(p) : \E b \in 1 .. Len(p) : x = p[b]
        /\ \A x \in RootsOf(q) : \E b \in 1 .. Len(q) : x = q[b]
    BY Zenon DEF RootsOf
  <2>5. \A x \in RootsOf(r) : x \in RootsOf(p) \cup RootsOf(q)
    BY <2>1, <2>4
  <2>6. \A x \in RootsOf(p) \cup RootsOf(q) : x \in RootsOf(r)
    <3>1. ASSUME NEW x \in RootsOf(p) PROVE x \in RootsOf(r)
      BY <2>2, <2>4, Zenon
    <3>2. ASSUME NEW x \in RootsOf(q) PROVE x \in RootsOf(r)
      BY <2>3, <2>4, Zenon
    <3>. QED  BY <3>1, <3>2
  <2>. QED  BY <2>5, <2>6
<1> HIDE DEF R, D
<1>5. ASSUME NEW i \in 1 .. Len(r), NEW j \in 1 .. Len(r), i < j
      PROVE  D(r[i]) < D(r[j]) \/ (D(r[i]) = D(r[j]) /\ r[i] \in RootsOf(q) /\ r[j] \in RootsOf(p))
  BY <1>1, <1>2, <1>3, <1>5
<1>6. ASSUME NEW i \in 1 .. Len(r), NEW j \in 1 .. Len(r), i < j PROVE D(r[i]) <= D(r[j])
  <2>1. D(r[i]) \in Nat /\ D(r[j]) \in Nat
    BY <1>2
  <2>2. D(r[i]) < D(r[j]) \/ D(r[i]) = D(r[j])
    BY <1>5, <1>6
  <2>. QED  BY <2>1, <2>2
<1>7. \A i, j \in 1 .. Len(r) : i < j => r[i] # r[j]
  <2> SUFFICES ASSUME NEW i \in 1 .. Len(r), NEW j \in 1 .. Len(r), i < j, r[i] = r[j] PROVE FALSE
    OBVIOUS
  <2>1. D(r[i]) \in Nat /\ D(r[i]) = D(r[j])
    BY <1>2
  <2>2. r[i] \in RootsOf(q) /\ r[i] \in RootsOf(p)
    BY <1>5, <2>1
  <2>. QED  BY <2>2
<1>8. Distinct(r)
  <2> SUFFICES ASSUME NEW i \in 1 .. Len(r), NEW j \in 1 .. Len(r), r[i] = r[j], i # j PROVE FALSE
    BY DEF Distinct
  <2>1. i < j \/ j < i
    BY <1>2
  <2>. QED  BY <1>7, <2>1
<1>9. ASSUME NEW i \in 1 .. Len(r), NEW j \in 1 .. Len(r), i + 2 <= j PROVE D(r[i]) < D(r[j])
  <2> DEFINE k == i + 1
  <2>1. k \in 1 .. Len(r) /\ i < k /\ k < j
    BY <1>2, <1>9
  <2> HIDE DEF k
  <2>2. D(r[i]) < D(r[k]) \/ (D(r[i]) = D(r[k]) /\ r[k] \in RootsOf(p))
    BY <1>5, <2>1
  <2>3. D(r[k]) < D(r[j]) \/ (D(r[k]) = D(r[j]) /\ r[k] \in RootsOf(q))
    BY <1>5, <2>1
  <2>. QED  BY <1>2, <2>1, <2>2, <2>3
<1>10. Loose(r, l)
  BY <1>6, <1>9 DEF Loose, D
<1>. QED  BY <1>1, <1>4, <1>8, <1>10 DEF MergedRoots

LEMMA HeapMerges ==
  ASSUME NEW p \in Seq(Keys), NEW q \in Seq(Keys), NEW l \in [Keys -> Seq(Keys)],
         Rising(p, l), Rising(q, l), RootsOf(p) \cap RootsOf(q) = {}
  PROVE  MergedRoots(l, p, q, H!Merge(l, p, q))
<1> DEFINE C == {z \in (1 .. Len(p)) \X (1 .. Len(q)) : Len(l[p[z[1]]]) < Len(l[q[z[2]]])}
           R == Later(l, p, q)
           m == Len(p) + Len(q)
           Loop(g) == g = [n \in 0 .. m |->
                             IF n = 0 THEN [out |-> <<>>, i |-> 0, j |-> 0]
                             ELSE H!MergeStep(l, p, q, g[n - 1])]
           after == CHOOSE g : Loop(g)
<1>1. m \in Nat /\ Len(p) \in Nat /\ Len(q) \in Nat
  OBVIOUS
<1>2. Mergeable(p, q, R, C)
  BY HeapMergeable
<1>3. H!Merge(l, p, q) = after[m].out
  BY DEF H!Merge
<1>4. ASSUME NEW n \in 0 .. m, n < m, NEW s \in MergeAt(Keys, p, q, R, n)
      PROVE  H!MergeStep(l, p, q, s) = MergeBy(C, p, q, s)
  <2>1. s.i \in 0 .. Len(p) /\ s.j \in 0 .. Len(q)
    BY DEF MergeAt
  <2>2. ASSUME s.i < Len(p), s.j # Len(q)
        PROVE  H!Degree(l, p[s.i + 1]) < H!Degree(l, q[s.j + 1]) <=> <<s.i + 1, s.j + 1>> \in C
    <3>1. s.i + 1 \in 1 .. Len(p) /\ s.j + 1 \in 1 .. Len(q)
      <4>1. \A k \in Nat : \A a \in 0 .. k : a < k \/ a # k => a + 1 \in 1 .. k
        OBVIOUS
      <4>. QED  BY <1>1, <2>1, <2>2, <4>1, Zenon
    <3>. QED  BY <3>1 DEF H!Degree
  <2> HIDE DEF C
  <2>. QED  BY <2>2 DEF H!MergeStep, MergeBy, FromP, FromQ
<1> HIDE DEF C, R
<1>5. PICK g : /\ g = [n \in 0 .. m |-> IF n = 0 THEN MergeStart ELSE MergeBy(C, p, q, g[n - 1])]
               /\ \A n \in 0 .. m : g[n] \in MergeAt(Keys, p, q, R, n)
  BY <1>2, MergeLoop, Zenon
<1>6. Loop(g)
  <2>1. \A n \in 0 .. m : n # 0 => MergeBy(C, p, q, g[n - 1]) = H!MergeStep(l, p, q, g[n - 1])
    <3> SUFFICES ASSUME NEW n \in 0 .. m, n # 0
                 PROVE  MergeBy(C, p, q, g[n - 1]) = H!MergeStep(l, p, q, g[n - 1])
      OBVIOUS
    <3>1. n - 1 \in 0 .. m /\ n - 1 < m
      BY <1>1
    <3>. QED  BY <1>4, <1>5, <3>1
  <2>2. MergeStart = [out |-> <<>>, i |-> 0, j |-> 0]
    BY DEF MergeStart
  <2>. QED  BY <1>5, <2>1, <2>2, Zenon
<1>7. Loop(after)
  BY <1>6, Zenon
<1> HIDE DEF after
<1>8. /\ after[0] = MergeStart
      /\ \A n \in 1 .. m : after[n] = H!MergeStep(l, p, q, after[n - 1])
  <2>1. \A n \in 0 .. m : after[n] = IF n = 0 THEN MergeStart ELSE H!MergeStep(l, p, q, after[n - 1])
    BY <1>7, Zenon DEF MergeStart
  <2>2. 0 \in 0 .. m /\ \A n \in 1 .. m : n \in 0 .. m /\ n # 0
    BY <1>1
  <2>. QED  BY <2>1, <2>2, Zenon
<1> HIDE DEF Loop
<1> DEFINE D == [n \in 0 .. m |-> MergeAt(Keys, p, q, R, n)]
<1>9. \A n \in 1 .. m : after[n - 1] \in D[n - 1] => after[n] \in D[n]
  <2> SUFFICES ASSUME NEW n \in 1 .. m, after[n - 1] \in MergeAt(Keys, p, q, R, n - 1)
               PROVE  after[n] \in MergeAt(Keys, p, q, R, n)
    BY <1>1
  <2>1. n - 1 \in Nat /\ n - 1 \in 0 .. m /\ n - 1 < m /\ (n - 1) + 1 = n
    BY <1>1
  <2>2. MergeBy(C, p, q, after[n - 1]) \in MergeAt(Keys, p, q, R, (n - 1) + 1)
    BY <1>2, <2>1, MergeByKeeps
  <2>. QED  BY <1>4, <1>8, <2>1, <2>2
<1>10. after[0] \in D[0]
  BY <1>1, <1>8, MergeStarts
<1> HIDE DEF D
<1>11. \A n \in 0 .. m : after[n] \in D[n]
  BY <1>1, <1>9, <1>10, LoopKeeps
<1>12. after[m] \in MergeAt(Keys, p, q, R, Len(p) + Len(q))
  BY <1>1, <1>11 DEF D
<1>13. Merged(Keys, p, q, R, after[m].out)
  BY <1>12, MergeDone
<1>. QED  BY <1>3, <1>13, MergedIsLoose DEF R

-----------------------------------------------------------------------------
(* The loop that links trees of the same degree *)

(* The degrees d of n trees when the loop is at tree p: they increase      *)
(* before it, and if one before it has its degree, it is about to be       *)
(* linked; from it on they do not decrease, and behind it no three are     *)
(* equal.                                                                  *)
Levels(d, n, p) ==
  /\ \A i, j \in 1 .. n : i < j /\ j < p => d[i] < d[j]
  /\ \A i \in 1 .. n : i < p => d[i] <= d[p]
  /\ \A i \in 1 .. n : i < p /\ d[i] = d[p] =>
       p + 1 <= n /\ d[p + 1] = d[p] /\ (p + 2 <= n => d[p] < d[p + 2])
  /\ \A i, j \in 1 .. n : p <= i /\ i < j => d[i] <= d[j]
  /\ \A i, j \in 1 .. n : p < i /\ i + 2 <= j => d[i] < d[j]

LEMMA LevelsAdvance ==
  ASSUME NEW n \in Nat, NEW p \in 1 .. n, p < n, NEW d \in [1 .. n -> Nat], Levels(d, n, p),
         d[p] # d[p + 1] \/ (p + 2 <= n /\ d[p + 2] = d[p])
  PROVE  Levels(d, n, p + 1)
<1>1. p \in Nat /\ p + 1 \in 1 .. n /\ d[p] \in Nat /\ d[p + 1] \in Nat
  OBVIOUS
<1>2. \A i \in 1 .. n : d[i] \in Nat /\ i \in Nat
  OBVIOUS
<1>3. d[p] <= d[p + 1]
  BY <1>1 DEF Levels
<1>4. ASSUME NEW i \in 1 .. n, i < p PROVE d[i] < d[p]
  <2> SUFFICES ASSUME d[i] = d[p] PROVE FALSE
    BY <1>1, <1>2, <1>4 DEF Levels
  <2>1. p + 1 <= n /\ d[p + 1] = d[p] /\ (p + 2 <= n => d[p] < d[p + 2])
    BY <1>4 DEF Levels
  <2>2. p + 2 <= n /\ d[p + 2] = d[p]
    BY <2>1
  <2>. QED  BY <1>1, <2>1, <2>2
<1>5. \A i, j \in 1 .. n : i < j /\ j < p + 1 => d[i] < d[j]
  <2> SUFFICES ASSUME NEW i \in 1 .. n, NEW j \in 1 .. n, i < j, j < p + 1 PROVE d[i] < d[j]
    OBVIOUS
  <2>1. j < p \/ j = p
    BY <1>1
  <2>2. i < p
    BY <1>1
  <2>. QED  BY <1>4, <2>1, <2>2 DEF Levels
<1>6. \A i \in 1 .. n : i < p + 1 => d[i] <= d[p + 1]
  <2> SUFFICES ASSUME NEW i \in 1 .. n, i < p + 1 PROVE d[i] <= d[p + 1]
    OBVIOUS
  <2>1. i < p \/ i = p
    BY <1>1
  <2>2. d[i] <= d[p]
    BY <1>1, <1>2, <1>4, <2>1
  <2>. QED  BY <1>1, <1>2, <1>3, <2>2
<1>7. ASSUME NEW i \in 1 .. n, i < p + 1, d[i] = d[p + 1]
      PROVE  (p + 1) + 1 <= n /\ d[(p + 1) + 1] = d[p + 1] /\ ((p + 1) + 2 <= n => d[p + 1] < d[(p + 1) + 2])
  <2>1. d[p] = d[p + 1]
    <3>1. i < p \/ i = p
      BY <1>1, <1>7
    <3>2. d[i] <= d[p]
      BY <1>1, <1>2, <1>4, <3>1
    <3>. QED  BY <1>1, <1>2, <1>3, <1>7, <3>2
  <2>2. p + 2 <= n /\ d[p + 2] = d[p] /\ p + 2 = (p + 1) + 1
    BY <1>1, <2>1
  <2>3. ASSUME (p + 1) + 2 <= n PROVE d[p + 1] < d[(p + 1) + 2]
    <3>1. (p + 1) + 2 \in 1 .. n /\ p < p + 1 /\ (p + 1) + 2 <= (p + 1) + 2
      BY <1>1, <2>3
    <3>. QED  BY <1>1, <3>1 DEF Levels
  <2>. QED  BY <2>1, <2>2, <2>3
<1>8. \A i, j \in 1 .. n : p + 1 <= i /\ i < j => d[i] <= d[j]
  <2>1. \A i \in 1 .. n : p + 1 <= i => p <= i
    BY <1>1
  <2>. QED  BY <2>1 DEF Levels
<1>9. \A i, j \in 1 .. n : p + 1 < i /\ i + 2 <= j => d[i] < d[j]
  <2>1. \A i \in 1 .. n : p + 1 < i => p < i
    BY <1>1
  <2>. QED  BY <2>1 DEF Levels
<1>. QED  BY <1>5, <1>6, <1>7, <1>8, <1>9 DEF Levels

LEMMA LevelsLink ==
  ASSUME NEW n \in Nat, NEW p \in 1 .. n, p < n, NEW d \in [1 .. n -> Nat], Levels(d, n, p),
         ~(d[p] # d[p + 1] \/ (p + 2 <= n /\ d[p + 2] = d[p])),
         NEW e, \A i \in 1 .. n : i < p => e[i] = d[i], e[p] = d[p] + 1,
         \A i \in 1 .. n : p < i /\ i < n => e[i] = d[i + 1]
  PROVE  Levels(e, n - 1, p)
<1>1. p \in Nat /\ p + 1 \in 1 .. n /\ d[p] \in Nat
  OBVIOUS
<1>2. \A i \in 1 .. n : d[i] \in Nat /\ i \in Nat
  OBVIOUS
<1>3. \A i \in 1 .. n - 1 : i \in 1 .. n /\ i + 1 \in 1 .. n
  OBVIOUS
<1>4. \A i, j \in 1 .. n - 1 : i < j /\ j < p => e[i] < e[j]
  <2> SUFFICES ASSUME NEW i \in 1 .. n - 1, NEW j \in 1 .. n - 1, i < j, j < p PROVE e[i] < e[j]
    OBVIOUS
  <2>1. i \in 1 .. n /\ j \in 1 .. n /\ i < p
    BY <1>1
  <2>. QED  BY <2>1 DEF Levels
<1>5. ASSUME NEW i \in 1 .. n - 1, i < p PROVE e[i] < e[p]
  <2>1. i \in 1 .. n /\ d[i] <= d[p] /\ d[i] \in Nat
    BY <1>3, <1>5 DEF Levels
  <2>2. e[i] = d[i] /\ e[p] = d[p] + 1
    BY <1>5, <2>1
  <2>. QED  BY <1>1, <2>1, <2>2
<1>6. \A i \in 1 .. n - 1 : i < p => e[i] <= e[p] /\ e[i] # e[p]
  <2> SUFFICES ASSUME NEW i \in 1 .. n - 1, i < p PROVE e[i] <= e[p] /\ e[i] # e[p]
    OBVIOUS
  <2>1. e[i] = d[i] /\ e[p] = d[p] + 1 /\ d[i] \in Nat
    BY <1>2, <1>3
  <2>2. e[i] \in Int /\ e[p] \in Int
    BY <1>1, <2>1
  <2>. QED  BY <1>5, <2>2
<1>7. ASSUME NEW j \in 1 .. n - 1, p < j PROVE e[p] <= e[j]
  <2>1. j + 1 \in 1 .. n /\ j \in 1 .. n /\ j < n /\ p + 2 <= n /\ p + 2 \in 1 .. n
    BY <1>1, <1>7
  <2>2. d[p] <= d[p + 2] /\ d[p] # d[p + 2]
    BY <1>1, <2>1 DEF Levels
  <2>3. d[p + 2] <= d[j + 1]
    <3>1. p + 2 = j + 1 \/ p + 2 < j + 1
      BY <1>1, <1>7
    <3>2. p <= p + 2
      BY <1>1
    <3>3. d[p + 2] \in Nat /\ d[j + 1] \in Nat
      BY <2>1
    <3>4. CASE p + 2 = j + 1
      BY <3>3, <3>4
    <3>5. CASE p + 2 < j + 1
      BY <2>1, <3>2, <3>5 DEF Levels
    <3>. QED  BY <3>1, <3>4, <3>5
  <2>4. d[p + 2] \in Nat /\ d[j + 1] \in Nat /\ e[j] = d[j + 1]
    BY <1>7, <2>1
  <2>. QED  BY <1>1, <2>2, <2>3, <2>4
<1>8. \A i, j \in 1 .. n - 1 : p <= i /\ i < j => e[i] <= e[j]
  <2> SUFFICES ASSUME NEW i \in 1 .. n - 1, NEW j \in 1 .. n - 1, p <= i, i < j PROVE e[i] <= e[j]
    OBVIOUS
  <2>1. CASE i = p
    BY <1>7, <2>1
  <2>2. CASE p < i
    <3>1. i + 1 \in 1 .. n /\ j + 1 \in 1 .. n /\ i \in 1 .. n /\ j \in 1 .. n /\ i < n /\ j < n /\ p < j
      BY <1>1, <2>2
    <3>2. p <= i + 1 /\ i + 1 < j + 1
      BY <1>1, <2>2
    <3>3. d[i + 1] <= d[j + 1]
      BY <3>1, <3>2 DEF Levels
    <3>. QED  BY <2>2, <3>1, <3>3
  <2>3. i = p \/ p < i
    BY <1>1
  <2>. QED  BY <2>1, <2>2, <2>3
<1>9. \A i, j \in 1 .. n - 1 : p < i /\ i + 2 <= j => e[i] < e[j]
  <2> SUFFICES ASSUME NEW i \in 1 .. n - 1, NEW j \in 1 .. n - 1, p < i, i + 2 <= j PROVE e[i] < e[j]
    OBVIOUS
  <2>1. i + 1 \in 1 .. n /\ j + 1 \in 1 .. n /\ i \in 1 .. n /\ j \in 1 .. n /\ i < n /\ j < n /\ p < j
    BY <1>1
  <2>2. p < i + 1 /\ (i + 1) + 2 <= j + 1
    BY <1>1
  <2>3. d[i + 1] < d[j + 1]
    BY <2>1, <2>2 DEF Levels
  <2>. QED  BY <2>1, <2>3
<1>. QED  BY <1>4, <1>6, <1>8, <1>9 DEF Levels

LEMMA LevelsDone ==
  ASSUME NEW n \in Nat, NEW d \in [1 .. n -> Nat], Levels(d, n, n)
  PROVE  \A i, j \in 1 .. n : i < j => d[i] < d[j]
<1> SUFFICES ASSUME NEW i \in 1 .. n, NEW j \in 1 .. n, i < j PROVE d[i] < d[j]
  OBVIOUS
<1>1. CASE j < n
  BY <1>1 DEF Levels
<1>2. CASE j = n
  <2>1. d[i] <= d[n] /\ d[i] # d[n]
    BY <1>2 DEF Levels
  <2>2. d[i] \in Nat /\ d[n] \in Nat
    BY <1>2
  <2>. QED  BY <1>2, <2>1, <2>2
<1>. QED  BY <1>1, <1>2

-----------------------------------------------------------------------------
(* The trees of a heap, whose roots are in the list p *)

Heaped(N, p, l) == p \in Seq(Keys) /\ Distinct(p) /\ Trees(N, RootsOf(p), l)

(* q is the list p without its i-th node. *)
Skipped(p, i, q) ==
  /\ q \in Seq(Keys) /\ Len(q) = Len(p) - 1
  /\ \A j \in 1 .. Len(q) : j < i => q[j] = p[j]
  /\ \A j \in 1 .. Len(q) : i <= j => q[j] = p[j + 1]

LEMMA WithoutList ==
  ASSUME NEW p \in Seq(Keys), NEW i \in 1 .. Len(p)
  PROVE  Skipped(p, i, H!Without(p, i))
<1> DEFINE n == Len(p) - 1
           q == [j \in 1 .. n |-> IF j < i THEN p[j] ELSE p[j + 1]]
<1>1. n \in Nat /\ i \in Int
  OBVIOUS
<1>2. \A j \in 1 .. n : (IF j < i THEN p[j] ELSE p[j + 1]) \in Keys
  OBVIOUS
<1>3. q \in [1 .. n -> Keys]
  BY <1>2
<1>4. q \in Seq(Keys)
  BY <1>1, <1>3
<1>5. Len(q) = n
  BY <1>1, <1>3, <1>4
<1>6. \A j \in 1 .. n : j < i => q[j] = p[j]
  OBVIOUS
<1>7. \A j \in 1 .. n : i <= j => q[j] = p[j + 1]
  <2> SUFFICES ASSUME NEW j \in 1 .. n, i <= j PROVE q[j] = p[j + 1]
    OBVIOUS
  <2>1. ~(j < i)
    BY <1>1
  <2>. QED  BY <2>1
<1>8. H!Without(p, i) = q
  BY DEF H!Without
<1> HIDE DEF q
<1>. QED  BY <1>4, <1>5, <1>6, <1>7, <1>8 DEF Skipped

LEMMA SkippedRoots ==
  ASSUME NEW p \in Seq(Keys), NEW i \in 1 .. Len(p), NEW q, Skipped(p, i, q), Distinct(p)
  PROVE  Distinct(q) /\ RootsOf(q) = RootsOf(p) \ {p[i]}
<1>1. /\ Len(p) \in Nat /\ Len(q) = Len(p) - 1 /\ i \in Int
      /\ \A j \in 1 .. Len(q) : j < i => q[j] = p[j]
      /\ \A j \in 1 .. Len(q) : i <= j => q[j] = p[j + 1]
  BY DEF Skipped
<1>2. ASSUME NEW j \in 1 .. Len(q)
      PROVE  \E k \in 1 .. Len(p) : k # i /\ q[j] = p[k] /\ (j < i => k = j) /\ (i <= j => k = j + 1)
  <2>1. CASE j < i
    <3>1. j \in 1 .. Len(p) /\ j # i /\ ~(i <= j)
      BY <1>1, <2>1
    <3>. QED  BY <1>1, <2>1, <3>1
  <2>2. CASE i <= j
    <3>1. j + 1 \in 1 .. Len(p) /\ j + 1 # i /\ ~(j < i)
      BY <1>1, <2>2
    <3>. QED  BY <1>1, <2>2, <3>1
  <2>3. j < i \/ i <= j
    BY <1>1
  <2>. QED  BY <2>1, <2>2, <2>3
<1>3. Distinct(q)
  <2> SUFFICES ASSUME NEW a \in 1 .. Len(q), NEW b \in 1 .. Len(q), q[a] = q[b] PROVE a = b
    BY DEF Distinct
  <2>1. PICK c \in 1 .. Len(p) : q[a] = p[c] /\ (a < i => c = a) /\ (i <= a => c = a + 1)
    BY <1>2
  <2>2. PICK d \in 1 .. Len(p) : q[b] = p[d] /\ (b < i => d = b) /\ (i <= b => d = b + 1)
    BY <1>2
  <2>3. c = d
    BY <2>1, <2>2 DEF Distinct
  <2>. QED  BY <1>1, <2>1, <2>2, <2>3
<1>4. \A x \in RootsOf(q) : x \in RootsOf(p) \ {p[i]}
  <2> SUFFICES ASSUME NEW j \in 1 .. Len(q) PROVE q[j] \in RootsOf(p) /\ q[j] # p[i]
    BY DEF RootsOf
  <2>1. PICK k \in 1 .. Len(p) : k # i /\ q[j] = p[k]
    BY <1>2
  <2>. QED  BY <2>1 DEF Distinct, RootsOf
<1>5. \A x \in RootsOf(p) \ {p[i]} : x \in RootsOf(q)
  <2> SUFFICES ASSUME NEW k \in 1 .. Len(p), k # i PROVE \E j \in 1 .. Len(q) : q[j] = p[k]
    BY DEF RootsOf
  <2>1. CASE k < i
    <3>1. k \in 1 .. Len(q)
      BY <1>1, <2>1
    <3>. QED  BY <1>1, <2>1, <3>1
  <2>2. CASE i < k
    <3> DEFINE j == k - 1
    <3>1. j \in 1 .. Len(q) /\ i <= j /\ k = j + 1
      BY <1>1, <2>2
    <3> HIDE DEF j
    <3>. QED  BY <1>1, <3>1
  <2>. QED  BY <1>1, <2>1, <2>2
<1>. QED  BY <1>3, <1>4, <1>5

Degrees(p, l) == [i \in 1 .. Len(p) |-> Len(l[p[i]])]

LEMMA DegreesAre ==
  ASSUME NEW N, NEW p, NEW l, Heaped(N, p, l)
  PROVE  /\ Len(p) \in Nat /\ p \in Seq(Keys) /\ l \in [Keys -> Seq(Keys)]
         /\ Degrees(p, l) \in [1 .. Len(p) -> Nat]
         /\ \A i \in 1 .. Len(p) : p[i] \in Keys /\ p[i] \in RootsOf(p) /\ p[i] \in N
                                   /\ Degrees(p, l)[i] = Len(l[p[i]]) /\ Len(l[p[i]]) \in Nat
<1>1. p \in Seq(Keys) /\ l \in [Keys -> Seq(Keys)] /\ RootsOf(p) \in SUBSET N
  BY DEF Heaped, Trees
<1>2. \A i \in 1 .. Len(p) : p[i] \in Keys /\ p[i] \in RootsOf(p) /\ Len(l[p[i]]) \in Nat
  BY <1>1, RootsAre
<1>3. Degrees(p, l) \in [1 .. Len(p) -> Nat]
  BY <1>2 DEF Degrees
<1>4. \A i \in 1 .. Len(p) : Degrees(p, l)[i] = Len(l[p[i]])
  BY DEF Degrees
<1>. QED  BY <1>1, <1>2, <1>3, <1>4

(* The trees t and t + 1 of p have become the tree t of q. *)
LinkedTo(N, p, l, t, q, h) ==
  /\ Heaped(N, q, h) /\ Len(q) = Len(p) - 1
  /\ \A k \in Keys \ N : h[k] = l[k]
  /\ \A i \in 1 .. Len(q) : i < t => Len(h[q[i]]) = Len(l[p[i]])
  /\ Len(h[q[t]]) = Len(l[p[t]]) + 1
  /\ \A i \in 1 .. Len(q) : t < i => Len(h[q[i]]) = Len(l[p[i + 1]])

LEMMA RootsLink ==
  ASSUME NEW N, NEW p, NEW l, Heaped(N, p, l), NEW t \in 1 .. Len(p), t < Len(p),
         NEW w \in 1 .. Len(p), NEW v \in 1 .. Len(p),
         (w = t /\ v = t + 1) \/ (w = t + 1 /\ v = t),
         p[w] < p[v], Len(l[p[w]]) = Len(l[p[v]]),
         NEW q, q = H!Without(p, v), NEW h, h = H!Link(l, p[w], p[v])
  PROVE  LinkedTo(N, p, l, t, q, h)
<1>1. /\ Len(p) \in Nat /\ p \in Seq(Keys) /\ l \in [Keys -> Seq(Keys)]
      /\ \A i \in 1 .. Len(p) : p[i] \in Keys /\ p[i] \in RootsOf(p) /\ p[i] \in N
      /\ Distinct(p) /\ Trees(N, RootsOf(p), l)
  BY DegreesAre DEF Heaped
<1>2. Skipped(p, v, q)
  BY <1>1, WithoutList
<1>3. Distinct(q) /\ RootsOf(q) = RootsOf(p) \ {p[v]}
  BY <1>1, <1>2, SkippedRoots
<1>4. Trees(N, RootsOf(p) \ {p[v]}, h)
  BY <1>1, TreesLink
<1>5. Heaped(N, q, h)
  BY <1>2, <1>3, <1>4 DEF Heaped, Skipped
<1>6. Joined(l, p[w], p[v], h)
  BY <1>1, LinkList
<1>7. /\ Len(h[p[w]]) = Len(l[p[w]]) + 1
      /\ \A k \in Keys : k # p[w] => h[k] = l[k]
  BY <1>6 DEF Joined
<1>8. /\ Len(q) = Len(p) - 1 /\ v \in Int /\ t \in Int /\ 1 <= t
      /\ \A j \in 1 .. Len(q) : j < v => q[j] = p[j]
      /\ \A j \in 1 .. Len(q) : v <= j => q[j] = p[j + 1]
  BY <1>2 DEF Skipped
<1>9. t \in 1 .. Len(q)
  BY <1>1, <1>8
<1>10. q[t] = p[w]
  <2>1. CASE w = t /\ v = t + 1
    BY <1>8, <1>9, <2>1
  <2>2. CASE w = t + 1 /\ v = t
    BY <1>8, <1>9, <2>2
  <2>. QED  BY <2>1, <2>2
<1>11. Len(l[p[w]]) = Len(l[p[t]])
  OBVIOUS
<1>12. ASSUME NEW i \in 1 .. Len(q), i < t PROVE Len(h[q[i]]) = Len(l[p[i]])
  <2>1. i \in 1 .. Len(p) /\ i # w /\ i < v
    BY <1>1, <1>8, <1>12
  <2>2. q[i] = p[i] /\ p[i] # p[w] /\ p[i] \in Keys
    BY <1>1, <1>8, <2>1 DEF Distinct
  <2>. QED  BY <1>7, <2>2
<1>13. ASSUME NEW i \in 1 .. Len(q), t < i PROVE Len(h[q[i]]) = Len(l[p[i + 1]])
  <2>1. i + 1 \in 1 .. Len(p) /\ i + 1 # w /\ v <= i
    BY <1>1, <1>8, <1>13
  <2>2. q[i] = p[i + 1] /\ p[i + 1] # p[w] /\ p[i + 1] \in Keys
    BY <1>1, <1>8, <2>1 DEF Distinct
  <2>. QED  BY <1>7, <2>2
<1>14. \A k \in Keys \ N : h[k] = l[k]
  BY <1>1, <1>7
<1>15. Len(h[q[t]]) = Len(l[p[t]]) + 1
  BY <1>7, <1>10, <1>11
<1>. QED  BY <1>5, <1>8, <1>12, <1>13, <1>14, <1>15 DEF LinkedTo

(* After n rounds of m. *)
RoundAt(N, l, m, n) ==
  {s \in [roots : Seq(Keys), pos : Nat, kids : [Keys -> Seq(Keys)]] :
     /\ s.pos >= 1 /\ s.pos <= Len(s.roots) /\ Len(s.roots) - s.pos = m - n
     /\ Heaped(N, s.roots, s.kids)
     /\ \A k \in Keys \ N : s.kids[k] = l[k]
     /\ Levels(Degrees(s.roots, s.kids), Len(s.roots), s.pos)}

LEMMA LevelsAfter ==
  ASSUME NEW N, NEW p, NEW l, Heaped(N, p, l), NEW t \in 1 .. Len(p), t < Len(p),
         NEW q, NEW h, LinkedTo(N, p, l, t, q, h), Levels(Degrees(p, l), Len(p), t),
         Len(l[p[t]]) = Len(l[p[t + 1]]),
         ~(t + 2 <= Len(p) /\ Len(l[p[t + 2]]) = Len(l[p[t]]))
  PROVE  Levels(Degrees(q, h), Len(q), t)
<1> DEFINE d == Degrees(p, l)
           e == Degrees(q, h)
           n == Len(p)
<1>1. n \in Nat /\ d \in [1 .. n -> Nat] /\ t + 1 \in 1 .. n /\ t \in Int
  BY DegreesAre
<1>2. \A i \in 1 .. n : d[i] = Len(l[p[i]])
  BY DEF Degrees
<1>3. Len(q) = n - 1
  BY DEF LinkedTo
<1>4. \A i \in 1 .. n - 1 : e[i] = Len(h[q[i]])
  BY <1>3 DEF Degrees
<1>5. t \in 1 .. n - 1 /\ (t + 2 <= n => t + 2 \in 1 .. n)
  BY <1>1
<1> HIDE DEF d, e
<1>6. e[t] = d[t] + 1
  BY <1>2, <1>3, <1>4, <1>5 DEF LinkedTo
<1>7. ASSUME NEW i \in 1 .. n, i < t PROVE e[i] = d[i]
  <2>1. i \in 1 .. n - 1
    BY <1>1, <1>7
  <2>. QED  BY <1>2, <1>3, <1>4, <1>7, <2>1 DEF LinkedTo
<1>8. ASSUME NEW i \in 1 .. n, t < i, i < n PROVE e[i] = d[i + 1]
  <2>1. i \in 1 .. n - 1 /\ i + 1 \in 1 .. n
    BY <1>1, <1>8
  <2>. QED  BY <1>2, <1>3, <1>4, <1>8, <2>1 DEF LinkedTo
<1>9. ~(d[t] # d[t + 1] \/ (t + 2 <= n /\ d[t + 2] = d[t]))
  BY <1>1, <1>2, <1>5
<1>10. Levels(d, n, t)
  BY DEF d
<1>11. Levels(e, n - 1, t)
  BY <1>1, <1>6, <1>7, <1>8, <1>9, <1>10, LevelsLink
<1>. QED  BY <1>3, <1>11 DEF e

LEMMA UnionStepKeeps ==
  ASSUME NEW N, NEW l, NEW m \in Nat, NEW n \in Nat, n < m, NEW s \in RoundAt(N, l, m, n)
  PROVE  H!UnionStep(s) \in RoundAt(N, l, m, n + 1)
<1> DEFINE p == s.roots
           t == s.pos
           k == s.kids
           x == p[t]
           y == p[t + 1]
<1>1. /\ s = [roots |-> p, pos |-> t, kids |-> k]
      /\ p \in Seq(Keys) /\ t \in Nat /\ k \in [Keys -> Seq(Keys)]
      /\ t >= 1 /\ t <= Len(p) /\ Len(p) - t = m - n
      /\ Heaped(N, p, k) /\ Levels(Degrees(p, k), Len(p), t)
      /\ \A z \in Keys \ N : k[z] = l[z]
  BY DEF RoundAt
<1>2. /\ Len(p) \in Nat /\ t \in 1 .. Len(p) /\ t < Len(p) /\ t + 1 \in 1 .. Len(p)
      /\ Degrees(p, k) \in [1 .. Len(p) -> Nat]
      /\ \A i \in 1 .. Len(p) : p[i] \in Keys /\ Degrees(p, k)[i] = Len(k[p[i]]) /\ Len(k[p[i]]) \in Nat
  <2>1. Len(p) \in Nat /\ t \in 1 .. Len(p) /\ t < Len(p) /\ t + 1 \in 1 .. Len(p)
    BY <1>1
  <2>2. Heaped(N, p, k)
    BY <1>1
  <2> HIDE DEF p, k, t
  <2>3. /\ Len(p) \in Nat /\ Degrees(p, k) \in [1 .. Len(p) -> Nat]
        /\ \A i \in 1 .. Len(p) : p[i] \in Keys /\ Degrees(p, k)[i] = Len(k[p[i]]) /\ Len(k[p[i]]) \in Nat
    BY <2>2, DegreesAre
  <2>. QED  BY <2>1, <2>3
<1> DEFINE Go == Len(k[x]) # Len(k[y]) \/ (t + 2 <= Len(p) /\ Len(k[p[t + 2]]) = Len(k[x]))
<1>3. H!UnionStep(s) = IF Go THEN [s EXCEPT !.pos = @ + 1] ELSE H!Linked(s)
  BY DEF H!UnionStep, H!Degree
<1>4. H!Linked(s) = IF x < y THEN [s EXCEPT !.roots = H!Without(@, t + 1), !.kids = H!Link(@, x, y)]
                    ELSE [s EXCEPT !.roots = H!Without(@, t), !.kids = H!Link(@, y, x)]
  BY DEF H!Linked, H!HigherPrio
<1>5. CASE Go
  <2>1. H!UnionStep(s) = [roots |-> p, pos |-> t + 1, kids |-> k]
    BY <1>1, <1>3, <1>5
  <2>2. \/ Degrees(p, k)[t] # Degrees(p, k)[t + 1]
        \/ t + 2 <= Len(p) /\ Degrees(p, k)[t + 2] = Degrees(p, k)[t]
    <3>1. t + 2 <= Len(p) => t + 2 \in 1 .. Len(p)
      BY <1>1
    <3>. QED  BY <1>2, <1>5, <3>1
  <2> HIDE DEF p, t, k
  <2>3. Levels(Degrees(p, k), Len(p), t + 1)
    BY <1>1, <1>2, <2>2, LevelsAdvance
  <2>4. t + 1 \in Nat /\ t + 1 >= 1 /\ t + 1 <= Len(p) /\ Len(p) - (t + 1) = m - (n + 1)
    <3>1. t \in Nat /\ Len(p) \in Nat /\ t < Len(p) /\ Len(p) - t = m - n
      BY <1>1, <1>2
    <3>. QED  BY <3>1
  <2>. QED  BY <1>1, <2>1, <2>3, <2>4 DEF RoundAt
<1>6. CASE ~Go
  <2>1. Len(k[x]) = Len(k[y]) /\ ~(t + 2 <= Len(p) /\ Len(k[p[t + 2]]) = Len(k[x]))
    BY <1>6
  <2>2. \E q, h : H!UnionStep(s) = [roots |-> q, pos |-> t, kids |-> h] /\ LinkedTo(N, p, k, t, q, h)
    <3>1. CASE x < y
      <4> DEFINE q == H!Without(p, t + 1)
                 h == H!Link(k, x, y)
      <4>1. H!UnionStep(s) = [roots |-> q, pos |-> t, kids |-> h]
        BY <1>1, <1>3, <1>4, <1>6, <3>1
      <4> HIDE DEF p, t, k
      <4>2. LinkedTo(N, p, k, t, q, h)
        <5> DEFINE v == t + 1
        <5>1. v \in 1 .. Len(p) /\ (t = t /\ v = t + 1) /\ p[t] < p[v] /\ Len(k[p[t]]) = Len(k[p[v]])
          BY <1>2, <2>1, <3>1
        <5>2. q = H!Without(p, v) /\ h = H!Link(k, p[t], p[v])
          OBVIOUS
        <5> HIDE DEF v, q, h
        <5>. QED  BY <1>1, <1>2, <5>1, <5>2, RootsLink
      <4>. QED  BY <4>1, <4>2
    <3>2. CASE ~(x < y)
      <4> DEFINE q == H!Without(p, t)
                 h == H!Link(k, y, x)
      <4>1. H!UnionStep(s) = [roots |-> q, pos |-> t, kids |-> h]
        BY <1>1, <1>3, <1>4, <1>6, <3>2
      <4>2. y < x
        <5>1. x \in Nat /\ y \in Nat
          BY <1>2, KeyIs
        <5>2. Distinct(p) /\ t # t + 1
          BY <1>1 DEF Heaped
        <5>3. x # y
          BY <1>2, <5>2 DEF Distinct
        <5>. QED  BY <3>2, <5>1, <5>3
      <4> HIDE DEF p, t, k
      <4>3. LinkedTo(N, p, k, t, q, h)
        <5> DEFINE w == t + 1
        <5>1. w \in 1 .. Len(p) /\ (w = t + 1 /\ t = t) /\ p[w] < p[t] /\ Len(k[p[w]]) = Len(k[p[t]])
          BY <1>2, <2>1, <4>2
        <5>2. q = H!Without(p, t) /\ h = H!Link(k, p[w], p[t])
          OBVIOUS
        <5> HIDE DEF w, q, h
        <5>. QED  BY <1>1, <1>2, <5>1, <5>2, RootsLink
      <4>. QED  BY <4>1, <4>3
    <3>. QED  BY <3>1, <3>2
  <2>3. PICK q, h : H!UnionStep(s) = [roots |-> q, pos |-> t, kids |-> h] /\ LinkedTo(N, p, k, t, q, h)
    BY <2>2
  <2> HIDE DEF p, t, k
  <2>4. Levels(Degrees(q, h), Len(q), t)
    BY <1>1, <1>2, <2>1, <2>3, LevelsAfter
  <2>5. /\ Heaped(N, q, h) /\ Len(q) = Len(p) - 1
        /\ \A z \in Keys \ N : h[z] = k[z]
    BY <2>3 DEF LinkedTo
  <2>6. t <= Len(q) /\ Len(q) - t = m - (n + 1)
    <3>1. t \in Nat /\ Len(p) \in Nat /\ t < Len(p) /\ Len(p) - t = m - n /\ Len(q) = Len(p) - 1
      BY <1>1, <1>2, <2>5
    <3>. QED  BY <3>1
  <2>7. q \in Seq(Keys) /\ h \in [Keys -> Seq(Keys)]
    BY <2>5 DEF Heaped, Trees
  <2>8. \A z \in Keys \ N : h[z] = l[z]
    BY <1>1, <2>5
  <2> DEFINE r == [roots |-> q, pos |-> t, kids |-> h]
  <2>9. r.roots = q /\ r.pos = t /\ r.kids = h
    OBVIOUS
  <2>10. r \in [roots : Seq(Keys), pos : Nat, kids : [Keys -> Seq(Keys)]]
    BY <1>1, <2>7
  <2>11. H!UnionStep(s) = r
    BY <2>3
  <2> HIDE DEF r
  <2>12. r \in RoundAt(N, l, m, n + 1)
    BY <1>1, <2>4, <2>5, <2>6, <2>8, <2>9, <2>10 DEF RoundAt
  <2>. QED  BY <2>11, <2>12
<1>. QED  BY <1>5, <1>6

LEMMA LooseLevels ==
  ASSUME NEW N, NEW p, NEW l, Heaped(N, p, l), Loose(p, l), Len(p) >= 1
  PROVE  Levels(Degrees(p, l), Len(p), 1)
<1> DEFINE d == Degrees(p, l)
           n == Len(p)
<1>1. n \in Nat /\ \A i \in 1 .. n : d[i] = Len(l[p[i]])
  BY DegreesAre
<1>2. /\ \A i, j \in 1 .. n : i < j => d[i] <= d[j]
      /\ \A i, j \in 1 .. n : i + 2 <= j => d[i] < d[j]
  BY <1>1 DEF Loose
<1>3. \A i \in 1 .. n : ~(i < 1)
  BY <1>1
<1>4. \A i, j \in 1 .. n : ~(i < j /\ j < 1)
  BY <1>3
<1> HIDE DEF d
<1>5. Levels(d, n, 1)
  BY <1>2, <1>3, <1>4 DEF Levels
<1>. QED  BY <1>5 DEF d

(* What a union leaves: the trees of a heap. *)
Whole(N, l, r) ==
  /\ Heaped(N, r.roots, r.kids) /\ Rising(r.roots, r.kids)
  /\ \A k \in Keys \ N : r.kids[k] = l[k]

LEMMA LastRound ==
  ASSUME NEW N, NEW l, NEW m \in Nat, NEW s \in RoundAt(N, l, m, m)
  PROVE  Whole(N, l, s)
<1> DEFINE p == s.roots
           k == s.kids
           n == Len(p)
<1>1. /\ Heaped(N, p, k) /\ Levels(Degrees(p, k), n, s.pos)
      /\ s.pos \in Nat /\ n \in Nat /\ n - s.pos = m - m
      /\ \A z \in Keys \ N : k[z] = l[z]
  BY DEF RoundAt
<1>2. s.pos = n
  BY <1>1
<1> HIDE DEF p, k
<1>3. /\ Degrees(p, k) \in [1 .. n -> Nat]
      /\ \A i \in 1 .. n : Degrees(p, k)[i] = Len(k[p[i]])
  BY <1>1, DegreesAre
<1> DEFINE d == Degrees(p, k)
<1>4. d \in [1 .. n -> Nat] /\ Levels(d, n, n)
  BY <1>1, <1>2, <1>3
<1> HIDE DEF d, n
<1>5. \A i, j \in 1 .. n : i < j => d[i] < d[j]
  BY <1>1, <1>4, LevelsDone
<1>6. Rising(p, k)
  BY <1>3, <1>5 DEF Rising, d, n
<1>. QED  BY <1>1, <1>6 DEF Whole, p, k

LEMMA HeapConsolidates ==
  ASSUME NEW N, NEW l, NEW p, Heaped(N, p, l), Loose(p, l), Len(p) >= 1
  PROVE  Whole(N, l, H!Consolidate(l, p))
<1> DEFINE m == Len(p) - 1
           x == [roots |-> p, pos |-> 1, kids |-> l]
           Loop(g) == g = [n \in 0 .. m |-> IF n = 0 THEN x ELSE H!UnionStep(g[n - 1])]
           after == CHOOSE g : Loop(g)
           D == [n \in 0 .. m |-> RoundAt(N, l, m, n)]
           All == UNION {D[n] : n \in 0 .. m}
           f == [s \in All |-> H!UnionStep(s)]
<1>1. m \in Nat /\ Len(p) - 1 = m - 0
  BY DegreesAre
<1>2. \A n \in 0 .. m : D[n] = RoundAt(N, l, m, n)
  OBVIOUS
<1>3. \A n \in 0 .. m : \A s \in D[n] : f[s] = H!UnionStep(s)
  OBVIOUS
<1>4. H!Consolidate(l, p) = after[m]
  BY DEF H!Consolidate
<1>5. x \in RoundAt(N, l, m, 0)
  <2>1. p \in Seq(Keys) /\ l \in [Keys -> Seq(Keys)] /\ Levels(Degrees(p, l), Len(p), 1)
    BY DegreesAre, LooseLevels
  <2>2. x.roots = p /\ x.pos = 1 /\ x.kids = l
    OBVIOUS
  <2>3. x \in [roots : Seq(Keys), pos : Nat, kids : [Keys -> Seq(Keys)]]
    BY <2>1
  <2> HIDE DEF x, m
  <2>. QED  BY <1>1, <2>1, <2>2, <2>3 DEF RoundAt
<1> HIDE DEF x, D, All, f
<1>6. x \in D[0]
  BY <1>1, <1>2, <1>5
<1>7. ASSUME NEW n \in 0 .. m, n < m, NEW s \in D[n] PROVE H!UnionStep(s) \in D[n + 1]
  <2>1. n \in Nat /\ n + 1 \in 0 .. m
    BY <1>1, <1>7
  <2>2. s \in RoundAt(N, l, m, n)
    BY <1>2
  <2> HIDE DEF m
  <2>3. H!UnionStep(s) \in RoundAt(N, l, m, n + 1)
    BY <1>1, <1>7, <2>1, <2>2, UnionStepKeeps
  <2>. QED  BY <1>2, <2>1, <2>3
<1> HIDE DEF m, after, Loop
<1>8. \A n \in 0 .. m : n < m => \A s \in D[n] : f[s] \in D[n + 1]
  BY <1>3, <1>7
<1>9. PICK g : Rounds(m, f, x, g) /\ \A n \in 0 .. m : g[n] \in D[n]
  BY <1>1, <1>6, <1>8, LoopExists
<1>10. Loop(g)
  <2>1. \A n \in 0 .. m : n # 0 => f[g[n - 1]] = H!UnionStep(g[n - 1])
    <3> SUFFICES ASSUME NEW n \in 0 .. m, n # 0 PROVE f[g[n - 1]] = H!UnionStep(g[n - 1])
      OBVIOUS
    <3>1. n - 1 \in 0 .. m
      BY <1>1
    <3>. QED  BY <1>3, <1>9, <3>1
  <2>. QED  BY <1>9, <2>1, Zenon DEF Rounds, Loop
<1>11. Loop(after)
  BY <1>10, Zenon DEF after
<1>12. /\ after[0] = x
       /\ \A n \in 1 .. m : after[n] = H!UnionStep(after[n - 1])
  <2>1. \A n \in 0 .. m : after[n] = IF n = 0 THEN x ELSE H!UnionStep(after[n - 1])
    BY <1>11, Zenon DEF Loop
  <2>2. 0 \in 0 .. m /\ \A n \in 1 .. m : n \in 0 .. m /\ n # 0
    BY <1>1
  <2>. QED  BY <2>1, <2>2, Zenon
<1>13. \A n \in 1 .. m : after[n - 1] \in D[n - 1] => after[n] \in D[n]
  <2> SUFFICES ASSUME NEW n \in 1 .. m, after[n - 1] \in D[n - 1] PROVE after[n] \in D[n]
    OBVIOUS
  <2>1. n - 1 \in 0 .. m /\ n - 1 < m /\ (n - 1) + 1 = n
    BY <1>1
  <2>2. H!UnionStep(after[n - 1]) \in D[(n - 1) + 1]
    BY <1>7, <2>1
  <2>. QED  BY <1>12, <2>1, <2>2
<1>14. after[0] \in D[0]
  BY <1>6, <1>12
<1>15. \A n \in 0 .. m : after[n] \in D[n]
  BY <1>1, <1>13, <1>14, LoopKeeps
<1>16. after[m] \in RoundAt(N, l, m, m)
  BY <1>1, <1>2, <1>15
<1>. QED  BY <1>1, <1>4, <1>16, LastRound

(* Two heaps whose trees are disjoint become one. *)
LEMMA HeapUnites ==
  ASSUME NEW N, NEW l, NEW p \in Seq(Keys), NEW q \in Seq(Keys), Distinct(p), Distinct(q),
         Rising(p, l), Rising(q, l), RootsOf(p) \cap RootsOf(q) = {},
         Trees(N, RootsOf(p) \cup RootsOf(q), l)
  PROVE  Whole(N, l, H!Union(l, p, q))
<1>1. l \in [Keys -> Seq(Keys)]
  BY DEF Trees
<1>2. \A s : s = <<>> => RootsOf(s) = {}
  <2>1. Len(<<>>) = 0 /\ 1 .. 0 = {}
    OBVIOUS
  <2>. QED  BY <2>1 DEF RootsOf
<1>3. CASE q = <<>>
  <2>1. H!Union(l, p, q) = [roots |-> p, kids |-> l]
    BY <1>3 DEF H!Union
  <2>2. RootsOf(p) \cup RootsOf(q) = RootsOf(p)
    BY <1>2, <1>3
  <2> DEFINE r == [roots |-> p, kids |-> l]
  <2>3. r.roots = p /\ r.kids = l
    OBVIOUS
  <2>4. Heaped(N, p, l)
    BY <2>2 DEF Heaped
  <2> HIDE DEF r
  <2>5. Whole(N, l, r)
    BY <2>3, <2>4 DEF Whole
  <2>. QED  BY <2>1, <2>5 DEF r
<1>4. CASE q # <<>> /\ p = <<>>
  <2>1. H!Union(l, p, q) = [roots |-> q, kids |-> l]
    BY <1>4 DEF H!Union
  <2>2. RootsOf(p) \cup RootsOf(q) = RootsOf(q)
    BY <1>2, <1>4
  <2> DEFINE r == [roots |-> q, kids |-> l]
  <2>3. r.roots = q /\ r.kids = l
    OBVIOUS
  <2>4. Heaped(N, q, l)
    BY <2>2 DEF Heaped
  <2> HIDE DEF r
  <2>5. Whole(N, l, r)
    BY <2>3, <2>4 DEF Whole
  <2>. QED  BY <2>1, <2>5 DEF r
<1>5. CASE q # <<>> /\ p # <<>>
  <2> DEFINE r == H!Merge(l, p, q)
  <2>1. H!Union(l, p, q) = H!Consolidate(l, r)
    BY <1>5 DEF H!Union
  <2> HIDE DEF r
  <2>2. MergedRoots(l, p, q, r)
    BY <1>1, HeapMerges DEF r
  <2>3. Heaped(N, r, l) /\ Loose(r, l)
    BY <2>2 DEF MergedRoots, Heaped
  <2>4. Len(r) >= 1
    <3>1. Len(p) \in Nat /\ Len(q) \in Nat /\ Len(p) # 0
      BY <1>5
    <3>. QED  BY <2>2, <3>1 DEF MergedRoots
  <2>. QED  BY <2>1, <2>3, <2>4, HeapConsolidates
<1>. QED  BY <1>3, <1>4, <1>5

-----------------------------------------------------------------------------
(* The heap between two operations *)

(* The nodes in the forest when c is cached and T has been inserted.       *)
NodesOf(c, T) == T \ {c[i] : i \in DOMAIN c}

(* The forest p and the lists l are those of a heap of the nodes N.        *)
Holds(N, p, l) == Heaped(N, p, l) /\ Rising(p, l) /\ \A k \in Keys \ N : l[k] = <<>>

(* The heap holds T, and its least node is the cached one.                 *)
HeapOf(p, l, c, T) ==
  /\ T \in SUBSET Keys /\ Holds(NodesOf(c, T), p, l)
  /\ c = <<>> \/ \E x \in T : c = <<x>> /\ \A k \in T : x <= k

LEMMA NodesAre ==
  ASSUME NEW T
  PROVE  NodesOf(<<>>, T) = T /\ \A x : NodesOf(<<x>>, T) = T \ {x} /\ <<x>>[1] = x /\ <<x>> # <<>>
<1>1. DOMAIN <<>> = {} /\ \A x : DOMAIN <<x>> = {1} /\ <<x>>[1] = x /\ <<x>> # <<>>
  OBVIOUS
<1>. QED  BY <1>1 DEF NodesOf

LEMMA OneTree ==
  ASSUME NEW y \in Keys, NEW l, NEW s, s = <<y>>
  PROVE  s \in Seq(Keys) /\ Distinct(s) /\ Rising(s, l) /\ RootsOf(s) = {y}
<1>1. s \in Seq(Keys) /\ Len(s) = 1 /\ s[1] = y /\ 1 .. 1 = {1}
  OBVIOUS
<1>2. 1 .. Len(s) = {1}
  BY <1>1
<1>3. ~(1 < 1)
  OBVIOUS
<1>. QED  BY <1>1, <1>2, <1>3 DEF Distinct, Rising, RootsOf

LEMMA JoinKeeps ==
  ASSUME NEW p, NEW l, NEW N, Holds(N, p, l),
         NEW y \in Keys, y \notin N, NEW u, u = H!Union(l, p, <<y>>)
  PROVE  Holds(N \cup {y}, u.roots, u.kids)
<1> DEFINE M == N \cup {y}
           s == <<y>>
<1>1. s \in Seq(Keys) /\ Distinct(s) /\ Rising(s, l) /\ RootsOf(s) = {y}
  BY OneTree
<1>2. /\ p \in Seq(Keys) /\ Distinct(p) /\ Trees(N, RootsOf(p), l) /\ RootsOf(p) \in SUBSET N
      /\ Rising(p, l) /\ \A k \in Keys \ N : l[k] = <<>>
  BY DEF Holds, Heaped, Trees
<1>3. Trees(M, RootsOf(p) \cup RootsOf(s), l)
  BY <1>1, <1>2, TreesAdd
<1>4. RootsOf(p) \cap RootsOf(s) = {}
  BY <1>1, <1>2
<1> HIDE DEF s, M
<1>5. Whole(M, l, H!Union(l, p, s))
  BY <1>1, <1>2, <1>3, <1>4, HeapUnites
<1>6. Whole(M, l, u)
  BY <1>5 DEF s
<1>7. \A k \in Keys \ M : u.kids[k] = l[k] /\ l[k] = <<>>
  BY <1>2, <1>6 DEF Whole, M
<1>8. Holds(M, u.roots, u.kids)
  BY <1>6, <1>7 DEF Whole, Holds
<1>. QED  BY <1>8 DEF M

LEMMA InsertKeeps ==
  ASSUME NEW p, NEW l, NEW c, NEW T, HeapOf(p, l, c, T), NEW k \in Keys, k \notin T,
         NEW y, y = (IF c # <<>> /\ k < c[1] THEN c[1] ELSE k),
         NEW e, e = (IF c # <<>> /\ k < c[1] THEN <<k>> ELSE c),
         NEW u, u = H!Union(l, p, <<y>>)
  PROVE  HeapOf(u.roots, u.kids, e, T \cup {k})
<1> DEFINE N == NodesOf(c, T)
           S1 == T \cup {k}
           M == NodesOf(e, S1)
<1>1. /\ T \in SUBSET Keys /\ Holds(N, p, l)
      /\ c = <<>> \/ \E x \in T : c = <<x>> /\ \A z \in T : x <= z
  BY DEF HeapOf
<1>2. S1 \in SUBSET Keys /\ \A z \in S1 : z \in Int
  BY <1>1, KeyIs
<1>3. /\ y \in Keys /\ y \notin N /\ M = N \cup {y}
      /\ e = <<>> \/ \E x \in S1 : e = <<x>> /\ \A z \in S1 : x <= z
  <2>1. CASE c = <<>>
    <3>1. y = k /\ e = <<>>
      BY <2>1
    <3>2. N = T /\ M = S1
      BY <2>1, <3>1, NodesAre
    <3>. QED  BY <3>1, <3>2
  <2>2. CASE c # <<>>
    <3>1. PICK x \in T : c = <<x>> /\ \A z \in T : x <= z
      BY <1>1, <2>2
    <3>2. c[1] = x /\ N = T \ {x} /\ x \in Keys /\ x \in Int /\ k \in Int /\ x # k
      BY <1>1, <1>2, <3>1, NodesAre
    <3>3. CASE k < x
      <4>1. y = x /\ e = <<k>>
        BY <2>2, <3>2, <3>3
      <4>2. M = S1 \ {k}
        <5>1. NodesOf(<<k>>, S1) = S1 \ {k}
          BY NodesAre, Zenon
        <5>. QED  BY <4>1, <5>1, Zenon
      <4>3. M = N \cup {y}
        BY <3>2, <4>1, <4>2
      <4>4. \A z \in S1 : k <= z
        BY <1>2, <3>1, <3>2, <3>3
      <4>. QED  BY <3>2, <4>1, <4>3, <4>4
    <3>4. CASE ~(k < x)
      <4>1. y = k /\ e = <<x>>
        BY <3>1, <3>2, <3>4
      <4>2. M = S1 \ {x}
        <5>1. NodesOf(<<x>>, S1) = S1 \ {x}
          BY NodesAre, Zenon
        <5>. QED  BY <4>1, <5>1, Zenon
      <4>3. M = N \cup {y}
        BY <3>2, <4>1, <4>2
      <4>4. \A z \in S1 : x <= z
        BY <1>2, <3>1, <3>2, <3>4
      <4>. QED  BY <3>2, <4>1, <4>3, <4>4
    <3>. QED  BY <3>3, <3>4
  <2>. QED  BY <2>1, <2>2
<1> HIDE DEF N, M
<1>4. Holds(N \cup {y}, u.roots, u.kids)
  BY <1>1, <1>3, JoinKeeps
<1>. QED  BY <1>2, <1>3, <1>4 DEF HeapOf, M

(* The root the heap answers with is before all other nodes. *)
LEMMA LeastRootIs ==
  ASSUME NEW N, NEW p, NEW l, Heaped(N, p, l), N # {}, NEW i, i = H!LeastRoot(p)
  PROVE  i \in 1 .. Len(p) /\ p[i] \in N /\ \A k \in N : p[i] <= k
<1>1. /\ p \in Seq(Keys) /\ Len(p) \in Nat /\ DOMAIN p = 1 .. Len(p) /\ Distinct(p)
      /\ Trees(N, RootsOf(p), l) /\ RootsOf(p) \in SUBSET N /\ N \in SUBSET Keys
  BY DEF Heaped, Trees
<1>2. \A k \in N : \E r \in RootsOf(p) : r <= k
  BY <1>1, RootBefore
<1>3. RootsOf(p) # {} /\ RootsOf(p) \in SUBSET Nat
  BY <1>1, <1>2, KeyIs
<1>4. PICK r \in RootsOf(p) : \A z \in RootsOf(p) : r <= z
  BY <1>3, LeastNatural
<1>5. \A j \in 1 .. Len(p) : p[j] \in RootsOf(p) /\ p[j] \in Nat /\ p[j] \in N
  BY <1>1, <1>3 DEF RootsOf
<1>6. PICK a \in 1 .. Len(p) : p[a] = r
  BY <1>4 DEF RootsOf
<1>7. \A j \in DOMAIN p \ {a} : H!HigherPrio(p[a], p[j])
  <2> SUFFICES ASSUME NEW j \in 1 .. Len(p), j # a PROVE p[a] < p[j]
    BY <1>1 DEF H!HigherPrio
  <2>1. p[a] <= p[j] /\ p[a] # p[j]
    BY <1>1, <1>4, <1>5, <1>6 DEF Distinct
  <2>. QED  BY <1>5, <2>1
<1>8. i \in DOMAIN p /\ \A j \in DOMAIN p \ {i} : H!HigherPrio(p[i], p[j])
  BY <1>1, <1>6, <1>7 DEF H!LeastRoot
<1>9. ASSUME NEW k \in N PROVE p[i] <= k
  <2>1. PICK b \in RootsOf(p) : b <= k
    BY <1>2
  <2>2. PICK j \in 1 .. Len(p) : p[j] = b
    BY <2>1 DEF RootsOf
  <2>3. p[i] <= b
    BY <1>1, <1>5, <1>8, <2>2 DEF H!HigherPrio
  <2>4. p[i] \in Nat /\ b \in Nat /\ k \in Nat
    BY <1>1, <1>5, <1>8, <2>2, KeyIs
  <2>. QED  BY <2>1, <2>3, <2>4
<1>. QED  BY <1>1, <1>5, <1>8, <1>9

LEMMA SkippedRises ==
  ASSUME NEW p \in Seq(Keys), NEW l, NEW i \in 1 .. Len(p), NEW q, Skipped(p, i, q), Rising(p, l)
  PROVE  Rising(q, l)
<1>1. /\ Len(p) \in Nat /\ Len(q) = Len(p) - 1 /\ i \in Int
      /\ \A j \in 1 .. Len(q) : j < i => q[j] = p[j]
      /\ \A j \in 1 .. Len(q) : i <= j => q[j] = p[j + 1]
  BY DEF Skipped
<1>2. ASSUME NEW j \in 1 .. Len(q)
      PROVE  \E k \in 1 .. Len(p) : q[j] = p[k] /\ (j < i => k = j) /\ (i <= j => k = j + 1)
  <2>1. CASE j < i
    <3>1. j \in 1 .. Len(p) /\ ~(i <= j)
      BY <1>1, <2>1
    <3>. QED  BY <1>1, <2>1, <3>1
  <2>2. CASE i <= j
    <3>1. j + 1 \in 1 .. Len(p) /\ ~(j < i)
      BY <1>1, <2>2
    <3>. QED  BY <1>1, <2>2, <3>1
  <2>3. j < i \/ i <= j
    BY <1>1
  <2>. QED  BY <2>1, <2>2, <2>3
<1> SUFFICES ASSUME NEW a \in 1 .. Len(q), NEW b \in 1 .. Len(q), a < b
             PROVE  Len(l[q[a]]) < Len(l[q[b]])
  BY DEF Rising
<1>3. PICK c \in 1 .. Len(p) : q[a] = p[c] /\ (a < i => c = a) /\ (i <= a => c = a + 1)
  BY <1>2
<1>4. PICK d \in 1 .. Len(p) : q[b] = p[d] /\ (b < i => d = b) /\ (i <= b => d = b + 1)
  BY <1>2
<1>5. c < d
  BY <1>1, <1>3, <1>4
<1>. QED  BY <1>3, <1>4, <1>5 DEF Rising

(* The list of a node, from its end, is a list of roots. *)
HoldsList(q, l, x) == \A z : z \in RootsOf(q) <=> \E i \in 1 .. Len(l[x]) : l[x][i] = z

LEMMA ReversedList ==
  ASSUME NEW N, NEW Rt, NEW l, Trees(N, Rt, l), NEW x \in N, NEW q, q = H!Reversed(l[x])
  PROVE  q \in Seq(Keys) /\ Distinct(q) /\ Rising(q, l) /\ HoldsList(q, l, x)
<1> DEFINE s == l[x]
           d == Len(s)
<1>1. l \in [Keys -> Seq(Keys)] /\ x \in Keys
  BY DEF Trees
<1>2. s \in Seq(Keys) /\ d \in Nat /\ DOMAIN s = 1 .. d
  BY <1>1
<1>3. q = [i \in 1 .. d |-> s[d + 1 - i]]
  BY <1>2 DEF H!Reversed
<1>4. \A i \in 1 .. d : d + 1 - i \in 1 .. d /\ d + 1 - (d + 1 - i) = i /\ s[i] \in Keys
  BY <1>2
<1>5. q \in [1 .. d -> Keys]
  BY <1>3, <1>4
<1>6. q \in Seq(Keys) /\ Len(q) = d
  BY <1>2, <1>5
<1>7. \A i \in 1 .. d : q[i] = s[d + 1 - i]
  BY <1>3
<1>8. /\ \A i \in 1 .. d : Len(l[s[i]]) = d - i
      /\ \A i, j \in 1 .. d : s[i] = s[j] => i = j
  BY DEF Trees
<1> HIDE DEF s, d
<1>9. Distinct(q)
  <2> SUFFICES ASSUME NEW i \in 1 .. d, NEW j \in 1 .. d, q[i] = q[j] PROVE i = j
    BY <1>6 DEF Distinct
  <2>1. d + 1 - i = d + 1 - j
    BY <1>4, <1>7, <1>8
  <2>. QED  BY <1>2, <2>1
<1>10. Rising(q, l)
  <2> SUFFICES ASSUME NEW i \in 1 .. d, NEW j \in 1 .. d, i < j PROVE Len(l[q[i]]) < Len(l[q[j]])
    BY <1>6 DEF Rising
  <2>1. Len(l[q[i]]) = d - (d + 1 - i) /\ Len(l[q[j]]) = d - (d + 1 - j)
    BY <1>4, <1>7, <1>8
  <2>. QED  BY <1>2, <2>1
<1>11. \A z : z \in RootsOf(q) <=> \E i \in 1 .. d : s[i] = z
  <2>1. \A i \in 1 .. d : \E j \in 1 .. d : q[i] = s[j]
    BY <1>4, <1>7
  <2>2. \A i \in 1 .. d : \E j \in 1 .. d : q[j] = s[i]
    <3> SUFFICES ASSUME NEW i \in 1 .. d PROVE \E j \in 1 .. d : q[j] = s[i]
      OBVIOUS
    <3>1. d + 1 - i \in 1 .. d /\ q[d + 1 - i] = s[d + 1 - (d + 1 - i)] /\ d + 1 - (d + 1 - i) = i
      BY <1>4, <1>7
    <3>2. q[d + 1 - i] = s[i]
      BY <3>1
    <3>. QED  BY <3>1, <3>2
  <2>3. RootsOf(q) = {q[i] : i \in 1 .. d}
    BY <1>6 DEF RootsOf
  <2>. QED  BY <2>1, <2>2, <2>3
<1>. QED  BY <1>6, <1>9, <1>10, <1>11 DEF s, d, HoldsList

(* The trees under a root m join those of the list q. *)
LEMMA KidsJoin ==
  ASSUME NEW N, NEW l, NEW Rt, Trees(N, Rt, l), NEW m \in Rt,
         NEW q \in Seq(Keys), Distinct(q), Rising(q, l), RootsOf(q) = Rt \ {m}
  PROVE  Whole(N \ {m}, l, H!Union(l, q, H!Reversed(l[m])))
<1> DEFINE s == H!Reversed(l[m])
           M == N \ {m}
           Q == RootsOf(q) \cup RootsOf(s)
<1>1. m \in N
  BY DEF Trees
<1>2. s \in Seq(Keys) /\ Distinct(s) /\ Rising(s, l) /\ HoldsList(s, l, m)
  BY <1>1, ReversedList
<1>3. \A z : z \in RootsOf(s) <=> \E j \in 1 .. Len(l[m]) : l[m][j] = z
  BY <1>2 DEF HoldsList
<1> HIDE DEF s
<1>4. RootsOf(q) \cap RootsOf(s) = {}
  <2>1. \A j \in 1 .. Len(l[m]) : l[m][j] \notin Rt
    BY <1>1 DEF Trees
  <2>. QED  BY <1>3, <2>1
<1>5. \A x : x \in Q <=> (x \in Rt /\ x # m) \/ \E j \in 1 .. Len(l[m]) : l[m][j] = x
  BY <1>3
<1> HIDE DEF Q
<1>6. Trees(N \ {m}, Q, l)
  BY <1>5, TreesRemove
<1> HIDE DEF M
<1>7. Trees(M, RootsOf(q) \cup RootsOf(s), l)
  BY <1>6 DEF Q, M
<1>8. Whole(M, l, H!Union(l, q, s))
  BY <1>2, <1>4, <1>7, HeapUnites
<1>. QED  BY <1>8 DEF s, M

LEMMA ExtractKeeps ==
  ASSUME NEW p, NEW l, NEW N, Holds(N, p, l), N # {},
         NEW i, i = H!LeastRoot(p), NEW m, m = p[i],
         NEW r, r = H!Union(l, H!Without(p, i), H!Reversed(l[m])),
         NEW h, h = [r.kids EXCEPT ![m] = <<>>]
  PROVE  Holds(N \ {m}, r.roots, h)
<1> DEFINE q == H!Without(p, i)
           M == N \ {m}
<1>1. /\ Heaped(N, p, l) /\ Rising(p, l) /\ Distinct(p) /\ p \in Seq(Keys)
      /\ \A k \in Keys \ N : l[k] = <<>>
      /\ Trees(N, RootsOf(p), l) /\ RootsOf(p) \in SUBSET N /\ N \in SUBSET Keys
      /\ l \in [Keys -> Seq(Keys)]
  BY DEF Holds, Heaped, Trees
<1>2. i \in 1 .. Len(p) /\ m \in N /\ m \in RootsOf(p) /\ m \in Keys
  <2>1. i \in 1 .. Len(p) /\ m \in N
    BY <1>1, LeastRootIs
  <2>. QED  BY <1>1, <2>1 DEF RootsOf
<1>3. Skipped(p, i, q)
  BY <1>1, <1>2, WithoutList
<1> HIDE DEF q
<1>4. q \in Seq(Keys) /\ Distinct(q) /\ Rising(q, l) /\ RootsOf(q) = RootsOf(p) \ {m}
  <2>1. q \in Seq(Keys)
    BY <1>3 DEF Skipped
  <2>2. Distinct(q) /\ RootsOf(q) = RootsOf(p) \ {p[i]}
    BY <1>1, <1>2, <1>3, SkippedRoots
  <2>3. Rising(q, l)
    BY <1>1, <1>2, <1>3, SkippedRises
  <2>. QED  BY <2>1, <2>2, <2>3
<1>5. Whole(N \ {m}, l, H!Union(l, q, H!Reversed(l[m])))
  <2> HIDE DEF M
  <2>. QED  BY <1>1, <1>2, <1>4, KidsJoin
<1>9. Whole(M, l, r)
  BY <1>5 DEF q
<1> HIDE DEF M
<1>10. /\ r.roots \in Seq(Keys) /\ Distinct(r.roots) /\ Trees(M, RootsOf(r.roots), r.kids)
       /\ RootsOf(r.roots) \in SUBSET M /\ r.kids \in [Keys -> Seq(Keys)]
       /\ Rising(r.roots, r.kids)
       /\ \A k \in Keys \ M : r.kids[k] = l[k]
  BY <1>9 DEF Whole, Heaped, Trees
<1>11. h \in [Keys -> Seq(Keys)] /\ h[m] = <<>> /\ \A k \in Keys : k # m => h[k] = r.kids[k]
  BY <1>2, <1>10
<1>12. \A k \in M : h[k] = r.kids[k]
  BY <1>1, <1>11 DEF M
<1>13. Heaped(M, r.roots, h)
  <2> DEFINE g == r.kids
             R == r.roots
  <2>1. R \in Seq(Keys) /\ Distinct(R) /\ Trees(M, RootsOf(R), g) /\ \A k \in M : h[k] = g[k]
    BY <1>10, <1>12
  <2> HIDE DEF g, R
  <2>2. Trees(M, RootsOf(R), h)
    <3> DEFINE Q == RootsOf(R)
    <3>1. Trees(M, Q, g) /\ h \in [Keys -> Seq(Keys)]
      BY <1>11, <2>1
    <3> HIDE DEF Q
    <3>2. Trees(M, Q, h)
      BY <2>1, <3>1, TreesAgree
    <3>. QED  BY <3>2 DEF Q
  <2>3. Heaped(M, R, h)
    BY <2>1, <2>2 DEF Heaped
  <2>. QED  BY <2>3 DEF R
<1>14. Rising(r.roots, h)
  <2>1. \A j \in 1 .. Len(r.roots) : r.roots[j] \in M
    BY <1>10 DEF RootsOf
  <2>2. \A j \in 1 .. Len(r.roots) : h[r.roots[j]] = r.kids[r.roots[j]]
    BY <1>12, <2>1
  <2> DEFINE R == r.roots
             g == r.kids
  <2>3. \A a, b \in 1 .. Len(R) : a < b => Len(g[R[a]]) < Len(g[R[b]])
    BY <1>10 DEF Rising
  <2>4. \A a \in 1 .. Len(R) : h[R[a]] = g[R[a]]
    BY <2>2
  <2> HIDE DEF R, g
  <2>5. \A a, b \in 1 .. Len(R) : a < b => Len(h[R[a]]) < Len(h[R[b]])
    BY <2>3, <2>4
  <2>. QED  BY <2>5 DEF Rising, R
<1>15. ASSUME NEW k \in Keys, k \notin M PROVE h[k] = <<>>
  <2>1. CASE k = m
    BY <1>11, <2>1
  <2>2. CASE k # m
    <3>1. k \notin N
      BY <1>15, <2>2 DEF M
    <3>2. h[k] = r.kids[k] /\ r.kids[k] = l[k]
      BY <1>10, <1>11, <1>15, <2>2
    <3>. QED  BY <1>1, <3>1, <3>2
  <2>. QED  BY <2>1, <2>2
<1>. QED  BY <1>13, <1>14, <1>15 DEF Holds, M

-----------------------------------------------------------------------------
(* The heap, whatever is inserted and taken *)

LEMMA HeapCount == ASSUME NEW T PROVE H!Cardinality(T) = Cardinality(T)
BY DEF H!Cardinality, Cardinality

(* The forest holds what has been inserted and is not cached, the cached   *)
(* node is the least, and the counter counts both.                         *)
HeapInv ==
  /\ HeapOf(forest, kids, cached, contents)
  /\ IsFiniteSet(contents) /\ allCount = Cardinality(contents)

LEMMA HeapNodes ==
  ASSUME HeapInv
  PROVE  /\ contents \in SUBSET Keys /\ Holds(H!Nodes, forest, kids) /\ H!Nodes \in SUBSET contents
         /\ \/ cached = <<>> /\ H!Nodes = contents /\ H!Top = forest[H!LeastRoot(forest)]
            \/ /\ cached = <<H!Top>> /\ H!Nodes = contents \ {H!Top} /\ H!Top \in contents
               /\ \A k \in contents : H!Top <= k
<1> DEFINE N == NodesOf(cached, contents)
<1>1. H!Nodes = N
  BY DEF H!Nodes, NodesOf
<1>2. /\ contents \in SUBSET Keys /\ Holds(N, forest, kids)
      /\ cached = <<>> \/ \E x \in contents : cached = <<x>> /\ \A k \in contents : x <= k
  BY DEF HeapInv, HeapOf
<1>3. N \in SUBSET contents
  BY DEF NodesOf
<1>4. CASE cached = <<>>
  <2>1. N = contents
    BY <1>4, NodesAre
  <2>2. H!Top = forest[H!LeastRoot(forest)]
    BY <1>4 DEF H!Top
  <2>. QED  BY <1>1, <1>2, <1>3, <1>4, <2>1, <2>2
<1>5. CASE cached # <<>>
  <2>1. PICK x \in contents : cached = <<x>> /\ \A k \in contents : x <= k
    BY <1>2, <1>5
  <2>2. N = contents \ {x} /\ cached[1] = x
    BY <2>1, NodesAre
  <2>3. H!Top = x
    BY <1>5, <2>2 DEF H!Top
  <2>. QED  BY <1>1, <1>2, <1>3, <2>1, <2>2, <2>3
<1>. QED  BY <1>4, <1>5

(* The node that is taken is the least of all, and the forest holds the    *)
(* others then.                                                            *)
LEMMA TopIsLeast ==
  ASSUME HeapInv, contents # {}
  PROVE  H!Top \in contents /\ \A k \in contents : H!Top <= k
<1>1. CASE cached = <<>> /\ H!Nodes = contents /\ H!Top = forest[H!LeastRoot(forest)]
  <2>1. Heaped(contents, forest, kids)
    BY <1>1, HeapNodes DEF Holds
  <2> DEFINE i == H!LeastRoot(forest)
  <2>2. i = H!LeastRoot(forest)
    OBVIOUS
  <2> HIDE DEF i
  <2>3. forest[i] \in contents /\ \A k \in contents : forest[i] <= k
    BY <2>1, <2>2, LeastRootIs
  <2>. QED  BY <1>1, <2>2, <2>3
<1>. QED  BY <1>1, HeapNodes

LEMMA TopIsOutKeeps ==
  ASSUME HeapInv, contents # {}, H!TopIsOut
  PROVE  Holds(contents \ {H!Top}, forest', kids')
<1>1. CASE cached = <<>> /\ H!Nodes = contents /\ H!Top = forest[H!LeastRoot(forest)]
  <2> DEFINE i == H!LeastRoot(forest)
             m == forest[i]
             r == H!Union(kids, H!Without(forest, i), H!Reversed(kids[m]))
             h == [r.kids EXCEPT ![m] = <<>>]
  <2>1. Holds(contents, forest, kids)
    BY <1>1, HeapNodes
  <2>2. H!Top = m
    BY <1>1
  <2>3. forest' = r.roots /\ kids' = h
    BY <1>1, <2>2 DEF H!TopIsOut, H!Extracted
  <2>4. i = H!LeastRoot(forest) /\ m = forest[i]
    OBVIOUS
  <2> HIDE DEF i, m
  <2>5. r = H!Union(kids, H!Without(forest, i), H!Reversed(kids[m])) /\ h = [r.kids EXCEPT ![m] = <<>>]
    OBVIOUS
  <2> HIDE DEF r, h
  <2>6. Holds(contents \ {m}, r.roots, h)
    BY <2>1, <2>4, <2>5, ExtractKeeps
  <2>. QED  BY <2>2, <2>3, <2>6
<1>2. CASE cached = <<H!Top>> /\ H!Nodes = contents \ {H!Top}
  <2>1. cached # <<>>
    BY <1>2, NodesAre
  <2>2. forest' = forest /\ kids' = kids
    BY <2>1 DEF H!TopIsOut
  <2>3. Holds(H!Nodes, forest, kids)
    BY HeapNodes
  <2>. QED  BY <1>2, <2>2, <2>3
<1>. QED  BY <1>1, <1>2, HeapNodes

LEMMA HeapStarts ==
  ASSUME H!Init
  PROVE  HeapInv
<1> DEFINE l == [k \in Keys |-> <<>>]
           E == <<>>
<1>1. forest = <<>> /\ kids = l /\ cached = <<>> /\ allCount = 0 /\ contents = {}
  BY DEF H!Init
<1>2. l \in [Keys -> Seq(Keys)] /\ \A k \in Keys : l[k] = <<>>
  OBVIOUS
<1>3. E \in Seq(Keys) /\ Len(E) = 0 /\ 1 .. 0 = {}
  OBVIOUS
<1>4. RootsOf(E) = {} /\ Distinct(E) /\ Rising(E, l)
  BY <1>3 DEF RootsOf, Distinct, Rising
<1> HIDE DEF l, E
<1>5. Trees({}, {}, l)
  BY <1>2 DEF Trees
<1>6. Holds({}, E, l)
  BY <1>2, <1>3, <1>4, <1>5 DEF Holds, Heaped
<1>7. NodesOf(<<>>, {}) = {}
  BY NodesAre
<1>8. HeapOf(E, l, <<>>, {})
  BY <1>6, <1>7 DEF HeapOf
<1>9. IsFiniteSet({}) /\ Cardinality({}) = 0
  BY FS_EmptySet
<1>. QED  BY <1>1, <1>8, <1>9 DEF HeapInv, E

LEMMA InsertStays ==
  ASSUME HeapInv, NEW k \in Keys, H!Insert(k)
  PROVE  HeapInv'
<1> DEFINE swap == cached # <<>> /\ k < cached[1]
           y == IF swap THEN cached[1] ELSE k
           e == IF swap THEN <<k>> ELSE cached
           u == H!Union(kids, forest, <<y>>)
<1>1. /\ k \notin contents /\ forest' = u.roots /\ kids' = u.kids /\ cached' = e
      /\ allCount' = allCount + 1 /\ contents' = contents \cup {k}
  BY DEF H!Insert, H!HigherPrio
<1>2. HeapOf(forest, kids, cached, contents) /\ IsFiniteSet(contents) /\ allCount = Cardinality(contents)
  BY DEF HeapInv
<1>3. y = (IF swap THEN cached[1] ELSE k) /\ e = (IF swap THEN <<k>> ELSE cached)
  OBVIOUS
<1> HIDE DEF y, e
<1>4. u = H!Union(kids, forest, <<y>>)
  OBVIOUS
<1> HIDE DEF u
<1>5. HeapOf(u.roots, u.kids, e, contents \cup {k})
  BY <1>1, <1>2, <1>3, <1>4, InsertKeeps
<1>6. IsFiniteSet(contents \cup {k}) /\ Cardinality(contents \cup {k}) = Cardinality(contents) + 1
  BY <1>1, <1>2, FS_AddElement
<1>. QED  BY <1>1, <1>2, <1>5, <1>6 DEF HeapInv

LEMMA PeekStays ==
  ASSUME HeapInv, H!Peek
  PROVE  HeapInv'
<1>1. /\ contents # {} /\ H!TopIsOut /\ cached' = <<H!Top>>
      /\ allCount' = allCount /\ contents' = contents
  BY DEF H!Peek
<1>2. Holds(contents \ {H!Top}, forest', kids')
  BY <1>1, TopIsOutKeeps
<1>3. H!Top \in contents /\ \A k \in contents : H!Top <= k
  BY <1>1, TopIsLeast
<1>4. NodesOf(<<H!Top>>, contents) = contents \ {H!Top}
  BY NodesAre
<1>5. contents \in SUBSET Keys /\ IsFiniteSet(contents) /\ allCount = Cardinality(contents)
  BY DEF HeapInv, HeapOf
<1>6. HeapOf(forest', kids', <<H!Top>>, contents)
  BY <1>2, <1>3, <1>4, <1>5 DEF HeapOf
<1>. QED  BY <1>1, <1>5, <1>6 DEF HeapInv

LEMMA TakeStays ==
  ASSUME HeapInv, H!Take
  PROVE  HeapInv'
<1>1. contents \in SUBSET Keys /\ IsFiniteSet(contents) /\ allCount = Cardinality(contents)
  BY DEF HeapInv, HeapOf
<1>2. /\ allCount > 0 /\ H!TopIsOut /\ cached' = <<>>
      /\ allCount' = allCount - 1 /\ contents' = contents \ {H!Top}
  BY DEF H!Take
<1>3. contents # {}
  BY <1>1, <1>2, FS_EmptySet
<1>4. Holds(contents \ {H!Top}, forest', kids')
  BY <1>2, <1>3, TopIsOutKeeps
<1>5. H!Top \in contents
  BY <1>3, TopIsLeast
<1>6. NodesOf(<<>>, contents \ {H!Top}) = contents \ {H!Top}
  BY NodesAre
<1>7. HeapOf(forest', kids', <<>>, contents \ {H!Top})
  BY <1>1, <1>4, <1>6 DEF HeapOf
<1>8. IsFiniteSet(contents \ {H!Top}) /\ Cardinality(contents \ {H!Top}) = Cardinality(contents) - 1
  BY <1>1, <1>5, FS_RemoveElement
<1>. QED  BY <1>1, <1>2, <1>7, <1>8 DEF HeapInv

(* What is true of the heap that the invariant describes. *)
LEMMA HeapIsSound ==
  ASSUME HeapInv
  PROVE  H!HeapSound
<1> DEFINE N == H!Nodes
           Rt == RootsOf(forest)
<1>1. /\ contents \in SUBSET Keys /\ N \in SUBSET contents
      /\ Heaped(N, forest, kids) /\ Rising(forest, kids)
  BY HeapNodes DEF Holds
<1>2. /\ forest \in Seq(Keys) /\ DOMAIN forest = 1 .. Len(forest) /\ Distinct(forest)
      /\ N \in SUBSET Keys /\ Rt \in SUBSET N /\ kids \in [Keys -> Seq(Keys)] /\ Trees(N, Rt, kids)
  BY <1>1 DEF Heaped, Trees
<1>3. /\ \A x \in N : DOMAIN kids[x] = 1 .. Len(kids[x]) /\ x # 0
      /\ \A i \in 1 .. Len(forest) : forest[i] \in Rt
  BY <1>2, KeyIs DEF RootsOf
<1>4. /\ \A x \in N : \A i \in 1 .. Len(kids[x]) :
           /\ kids[x][i] \in N /\ kids[x][i] \notin Rt /\ x < kids[x][i]
           /\ Len(kids[kids[x][i]]) = Len(kids[x]) - i
      /\ \A x, y \in N : \A i \in 1 .. Len(kids[x]), j \in 1 .. Len(kids[y]) :
           kids[x][i] = kids[y][j] => x = y /\ i = j
      /\ \A x \in N : x \in Rt \/ \E y \in N : \E i \in 1 .. Len(kids[y]) : kids[y][i] = x
  BY <1>2 DEF Trees
<1> HIDE DEF N, Rt
<1>5. H!Shaped
  <2>1. \A x \in N : \A i \in DOMAIN kids[x] :
          /\ kids[x][i] \in N /\ H!HigherPrio(x, kids[x][i])
          /\ H!Degree(kids, kids[x][i]) = H!Degree(kids, x) - i
    <3> SUFFICES ASSUME NEW x \in N, NEW i \in DOMAIN kids[x]
                 PROVE  /\ kids[x][i] \in N /\ H!HigherPrio(x, kids[x][i])
                        /\ H!Degree(kids, kids[x][i]) = H!Degree(kids, x) - i
      OBVIOUS
    <3>1. i \in 1 .. Len(kids[x])
      BY <1>3
    <3>. QED  BY <1>4, <3>1 DEF H!HigherPrio, H!Degree
  <2>. QED  BY <2>1, Zenon DEF H!Shaped, N
<1>6. /\ H!ListOf(0) = forest
      /\ \A x \in N : H!ListOf(x) = kids[x]
  BY <1>3 DEF H!ListOf
<1>7. \A x \in N : \E z \in N \cup {0} : \E i \in DOMAIN H!ListOf(z) : H!ListOf(z)[i] = x
  <2> SUFFICES ASSUME NEW x \in N
               PROVE  \E z \in N \cup {0} : \E i \in DOMAIN H!ListOf(z) : H!ListOf(z)[i] = x
    OBVIOUS
  <2>1. CASE x \in Rt
    <3>1. PICK i \in 1 .. Len(forest) : forest[i] = x
      BY <2>1 DEF Rt, RootsOf
    <3>. QED  BY <1>2, <1>6, <3>1
  <2>2. CASE x \notin Rt
    <3>1. PICK y \in N : \E i \in 1 .. Len(kids[y]) : kids[y][i] = x
      BY <1>4, <2>2
    <3>. QED  BY <1>3, <1>6, <3>1
  <2>. QED  BY <2>1, <2>2
<1>8. ASSUME NEW z \in N \cup {0}, NEW u \in N \cup {0},
             NEW i \in DOMAIN H!ListOf(z), NEW j \in DOMAIN H!ListOf(u), H!ListOf(z)[i] = H!ListOf(u)[j]
      PROVE  z = u /\ i = j
  <2>1. CASE z = 0 /\ u = 0
    <3>1. i \in 1 .. Len(forest) /\ j \in 1 .. Len(forest) /\ forest[i] = forest[j]
      BY <1>2, <1>6, <1>8, <2>1
    <3>. QED  BY <1>2, <2>1, <3>1 DEF Distinct
  <2>2. CASE z = 0 /\ u \in N
    <3>1. i \in 1 .. Len(forest) /\ j \in 1 .. Len(kids[u]) /\ forest[i] = kids[u][j]
      BY <1>2, <1>3, <1>6, <1>8, <2>2
    <3>. QED  BY <1>3, <1>4, <2>2, <3>1
  <2>3. CASE z \in N /\ u = 0
    <3>1. i \in 1 .. Len(kids[z]) /\ j \in 1 .. Len(forest) /\ kids[z][i] = forest[j]
      BY <1>2, <1>3, <1>6, <1>8, <2>3
    <3>. QED  BY <1>3, <1>4, <2>3, <3>1
  <2>4. CASE z \in N /\ u \in N
    <3>1. i \in 1 .. Len(kids[z]) /\ j \in 1 .. Len(kids[u]) /\ kids[z][i] = kids[u][j]
      BY <1>3, <1>6, <1>8, <2>4
    <3>. QED  BY <1>4, <2>4, <3>1
  <2>. QED  BY <2>1, <2>2, <2>3, <2>4
<1>9. H!Placed
  <2>1. \A i \in DOMAIN forest : forest[i] \in N
    BY <1>2, <1>3
  <2>2. \A z, u \in N \cup {0} : \A i \in DOMAIN H!ListOf(z), j \in DOMAIN H!ListOf(u) :
          H!ListOf(z)[i] = H!ListOf(u)[j] => z = u /\ i = j
    BY <1>8
  <2>. QED  BY <1>7, <2>1, <2>2, Zenon DEF H!Placed, N
<1>10. \A i, j \in DOMAIN forest : i < j => H!Degree(kids, forest[i]) < H!Degree(kids, forest[j])
  BY <1>1, <1>2 DEF Rising, H!Degree
<1>11. \A i \in DOMAIN cached : cached[i] \in contents
  <2>1. \A x : DOMAIN <<x>> = {1} /\ <<x>>[1] = x
    OBVIOUS
  <2>2. DOMAIN <<>> = {}
    OBVIOUS
  <2>3. cached = <<>> \/ \E x \in contents : cached = <<x>>
    BY DEF HeapInv, HeapOf
  <2>. QED  BY <2>1, <2>2, <2>3
<1>12. allCount = H!Cardinality(contents)
  BY HeapCount DEF HeapInv
<1>13. contents # {} => \A k \in contents : H!Top <= k
  BY TopIsLeast
<1>. QED  BY <1>5, <1>9, <1>10, <1>11, <1>12, <1>13, Zenon DEF H!HeapSound

LEMMA HeapStays ==
  ASSUME HeapInv, H!Next
  PROVE  HeapInv'
<1>1. ASSUME NEW k \in Keys, H!Insert(k) PROVE HeapInv'
  BY <1>1, InsertStays
<1>. QED  BY <1>1, PeekStays, TakeStays DEF H!Next

(* However the heap is used, it stays a binomial heap of what was inserted *)
(* and not taken, and answers with the first of it.                        *)
THEOREM HeapAlwaysSound == H!Spec => []H!HeapSound
<1>1. H!Init => HeapInv
  BY HeapStarts
<1>2. HeapInv /\ [H!Next]_H!vars => HeapInv'
  <2> SUFFICES ASSUME HeapInv, [H!Next]_H!vars PROVE HeapInv'
    OBVIOUS
  <2>1. CASE H!Next
    BY <2>1, HeapStays
  <2>2. CASE UNCHANGED H!vars
    BY <2>2 DEF H!vars, HeapInv
  <2>. QED  BY <2>1, <2>2
<1>3. HeapInv => H!HeapSound
  BY HeapIsSound
<1>. QED  BY <1>1, <1>2, <1>3, PTL DEF H!Spec

-----------------------------------------------------------------------------
(* The model of all containers *)

LEMMA ItemsAreSortable ==
  ASSUME NEW list \in Lists
  PROVE  /\ Items(list) \in Seq(SortItem) /\ Len(Items(list)) >= 1
         /\ \A i, j \in 1 .. Len(Items(list)) : i < j => Items(list)[i].id < Items(list)[j].id
<1>1. PICK n \in 1 .. SortLen : list \in [1 .. n -> 1 .. 3]
  BY DEF Lists
<1>2. n \in Nat /\ n >= 1 /\ DOMAIN list = 1 .. n
  BY <1>1, ContainersAssumption
<1> DEFINE s == Items(list)
<1>3. s = [i \in 1 .. n |-> [tag |-> list[i], id |-> i]]
  BY <1>2 DEF Items
<1>4. \A i \in 1 .. n : [tag |-> list[i], id |-> i] \in SortItem
  BY <1>1 DEF SortItem
<1>5. s \in [1 .. n -> SortItem]
  BY <1>3, <1>4
<1>6. s \in Seq(SortItem) /\ Len(s) = n
  BY <1>2, <1>5
<1>7. \A i \in 1 .. n : s[i].id = i
  BY <1>3
<1> HIDE DEF s
<1>8. \A i, j \in 1 .. Len(s) : i < j => s[i].id < s[j].id
  BY <1>6, <1>7
<1>. QED  BY <1>2, <1>6, <1>8 DEF s

LEMMA RequestsAreAny == Requests \in SUBSET AnyRequest
<1> SUFFICES ASSUME NEW r \in Requests PROVE r \in AnyRequest
  OBVIOUS
<1>1. Span \in Nat
  BY ContainersAssumption
<1>. QED  BY <1>1 DEF Requests, S!Requests, AnyRequest

LEMMA RangesAreSound ==
  ASSUME NEW loc \in Ranges
  PROVE  A!RangeSound(loc)
<1>1. PICK first \in A!Addresses, last \in A!Addresses :
        loc = A!Location(first, last) /\ ~A!Before(loc.last, loc.first)
  BY DEF Ranges
<1>2. loc.first = first /\ loc.last = last
  BY <1>1 DEF A!Location
<1>3. Octets \in SUBSET Nat /\ ~A!Before(last, first)
  BY <1>1, <1>2, ContainersAssumption
<1>4. loc \in {A!Location(first, last), A!Single(first)}
  BY <1>1
<1>. QED  BY <1>3, <1>4, RangeAlwaysSound

LEMMA WindowsAreAny ==
  /\ W!Windows({1, 2, Infinite}, {0, 1, 10}) \in SUBSET AnyWindow
  /\ Pairs \in SUBSET Seq(AnyClass)
<1>1. Deadline \in Nat \ {0} /\ Infinite \in Nat \ {0, 1}
  BY ContainersAssumption
<1>2. {1, 2, Infinite} \in SUBSET (1 .. Infinite) /\ {0, 1, 10} \in SUBSET Nat
  BY <1>1
<1>3. W!Windows({1, 2, Infinite}, {0, 1, 10}) \in SUBSET AnyWindow
  BY <1>2 DEF W!Windows, AnyWindow
<1> DEFINE Ask == {p \in Ratios : p.num > 0}
<1>4. W!Ratio(1, 100) \in Ask /\ W!Ratio(3, 2) \in Ask /\ W!Whole(Infinite) \in Ask
  BY <1>1 DEF W!Ratio, W!Whole, Ratios
<1>5. Asked \in SUBSET Ask /\ {W!Ratio(3, 2), W!Whole(Infinite)} \in SUBSET Ask
  BY <1>4 DEF Asked
<1> HIDE DEF Ask
<1>6. \A c : c \in W!Classes(Asked, {0, Deadline - 1, Deadline, Deadline + 1, 5001}, {0, 1, 1000, 3000})
               => c \in AnyClass
  BY <1>1, <1>5 DEF W!Classes, AnyClass, Ask
<1>7. \A d : d \in W!Classes({W!Ratio(3, 2), W!Whole(Infinite)}, {0, Deadline + 1}, {0, 1000})
               => d \in AnyClass
  BY <1>1, <1>5 DEF W!Classes, AnyClass, Ask
<1>8. \A c, d \in AnyClass : <<c, d>> \in Seq(AnyClass)
  OBVIOUS
<1>9. Pairs \in SUBSET Seq(AnyClass)
  <2> SUFFICES ASSUME NEW z \in Pairs PROVE z \in Seq(AnyClass)
    OBVIOUS
  <2>1. PICK c, d : /\ z = <<c, d>>
                    /\ c \in W!Classes(Asked, {0, Deadline - 1, Deadline, Deadline + 1, 5001}, {0, 1, 1000, 3000})
                    /\ d \in W!Classes({W!Ratio(3, 2), W!Whole(Infinite)}, {0, Deadline + 1}, {0, 1000})
    BY DEF Pairs
  <2>. QED  BY <1>6, <1>7, <1>8, <2>1
<1>. QED  BY <1>3, <1>9

(* What is chosen in the first state and kept, and the heap and the sort   *)
(* in every state.                                                         *)
ContainersInv ==
  /\ HeapInv
  /\ subject = "sort" => input \in {Items(list) : list \in Lists} /\ answer \in {<<>>, L!Sort(input)}
  /\ subject = "share" => input \in Requests
  /\ subject = "range" => input \in Ranges
  /\ subject = "window" => input \in W!Windows({1, 2, Infinite}, {0, 1, 10})

LEMMA ContainersStart == MCInit => ContainersInv
BY HeapStarts DEF MCInit, ContainersInv

LEMMA ContainersKeep == ContainersInv /\ [MCNext]_allVars => ContainersInv'
<1> SUFFICES ASSUME ContainersInv, [MCNext]_allVars PROVE ContainersInv'
  OBVIOUS
<1>1. CASE UNCHANGED allVars
  BY <1>1 DEF allVars, hvars, ContainersInv, HeapInv
<1>2. CASE MCNext
  <2>1. subject' = subject /\ input' = input
    BY <1>2 DEF MCNext
  <2>2. HeapInv'
    <3>1. CASE H!Next
      BY <3>1, HeapStays DEF ContainersInv
    <3>2. CASE UNCHANGED hvars
      BY <3>2 DEF hvars, ContainersInv, HeapInv
    <3>. QED  BY <1>2, <3>1, <3>2 DEF MCNext
  <2>3. answer' = answer \/ answer' = L!Sort(input)
    BY <1>2 DEF MCNext
  <2>. QED  BY <2>1, <2>2, <2>3 DEF ContainersInv
<1>. QED  BY <1>1, <1>2

LEMMA HelpersAre == ContainersInv => HelpersSound
<1> SUFFICES ASSUME ContainersInv PROVE HelpersSound
  OBVIOUS
<1>1. H!HeapSound
  BY HeapIsSound DEF ContainersInv
<1>2. ASSUME subject = "sort", answer # <<>> PROVE L!SortedFrom(input, answer)
  <2>1. PICK list \in Lists : input = Items(list)
    BY <1>2 DEF ContainersInv
  <2>2. answer = L!Sort(input)
    BY <1>2 DEF ContainersInv
  <2>3. /\ input \in Seq(SortItem) /\ Len(input) >= 1
        /\ \A i, j \in 1 .. Len(input) : i < j => input[i].id < input[j].id
    BY <2>1, ItemsAreSortable
  <2>. QED  BY <2>2, <2>3, SortAlwaysSound
<1>3. ASSUME subject = "share" PROVE S!ShareSound(input)
  BY <1>3, RequestsAreAny, ShareAlwaysSound DEF ContainersInv
<1>4. ASSUME subject = "range" PROVE A!RangeSound(input)
  BY <1>4, RangesAreSound DEF ContainersInv
<1>5. ASSUME subject = "window", NEW classes \in Pairs PROVE W!WindowSound(input, classes)
  BY <1>5, WindowsAreAny, WindowAlwaysSound, ContainersAssumption DEF ContainersInv
<1>. QED  BY <1>1, <1>2, <1>3, <1>4, <1>5 DEF HelpersSound

(* Each helper does what the parts of the proxy that call it take for      *)
(* granted, whatever keys the heap has and whatever list, request, range   *)
(* or window it is asked about.                                            *)
THEOREM HelpersAlwaysSound == MCSpec => []HelpersSound
BY ContainersStart, ContainersKeep, HelpersAre, PTL DEF MCSpec

(* The pool is the same beside the others: what the run checks of it.      *)
THEOREM PoolBesideOthers == MCSpec => []PoolSound
<1>1. MCInit => Init
  BY DEF MCInit
<1>2. [MCNext]_allVars => [Next]_vars
  BY DEF MCNext, allVars, vars
<1>3. MCSpec => Spec
  BY <1>1, <1>2, PTL DEF MCSpec, Spec
<1>. QED  BY <1>3, PoolStaysWhole, PTL

=============================================================================
