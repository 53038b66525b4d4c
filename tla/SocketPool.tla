----------------------------- MODULE SocketPool -----------------------------
(***************************************************************************)
(* The table of connections (socket_pool.c) as the message loop uses it    *)
(* (accept_socket and the closing branch of proxy2.c).  Entry 0 listens;   *)
(* after it come pairs of a client's socket and the socket to the server   *)
(* opened for it.  Everything else in the proxy finds the other end of a   *)
(* connection by counter_socket_index, and a pair that closes is replaced  *)
(* by the last one.                                                        *)
(*                                                                         *)
(* The entries above pool_size keep what was in them: a new pair gets an   *)
(* old pair's current_receive_item, or what malloc left there.  Nothing    *)
(* keeps pool_size within the memory; an entry past it is written all the  *)
(* same, which spoils whatever else is there.                              *)
(***************************************************************************)
EXTENDS Integers

CONSTANTS
  Capacity,  \* what create_socket_pool is given; pool_capacity never changes
  MaxConns,  \* bound: number of clients that connect
  Zeroed     \* whether the memory malloc returns happens to be zeroed

ASSUME PoolAssumption ==
  Capacity \in Nat \ {0, 1} /\ MaxConns \in Nat /\ Zeroed \in BOOLEAN

VARIABLES
  slots,     \* socket_state_list and what lies behind it: [index -> entry]
  allocated, \* number of entries there is memory for
  size,      \* pool_size
  conns,     \* number of clients accepted
  open,      \* history: the sockets accepted or connected, not yet closed
  disturbed  \* history: which of Disturbances have happened

vars == <<slots, allocated, size, conns, open, disturbed>>

(* fd: the socket; peer: counter_socket; counter: counter_socket_index;    *)
(* receiving: the socket whose message current_receive_item belongs to,    *)
(* 0 for NULL.  Socket 1 listens, a client has an even number.             *)
Entry == [fd : Nat, peer : Nat, counter : Nat, receiving : Nat]

(* current_receive_item of an entry nobody has set: it may read as NULL or *)
(* not.  No message belongs to socket 1.                                   *)
Unset == IF Zeroed THEN 0 ELSE 1
Fresh == [fd |-> 0, peer |-> 0, counter |-> 0, receiving |-> Unset]

(* The indices the clients can reach. *)
Indices == 0 .. 2 * MaxConns

(* A server closed first; a pair was closed while the last pair was        *)
(* receiving; an entry was written past the memory.                        *)
Disturbances == {"server", "message", "memory"}

Init ==
  /\ slots = [i \in Indices |-> IF i = 0 THEN [Fresh EXCEPT !.fd = 1] ELSE Fresh]
  /\ allocated = Capacity
  /\ size = 1 /\ conns = 0 /\ open = {1} /\ disturbed = {}

-----------------------------------------------------------------------------

(* increase_socket_pool, called when used entries are as many as           *)
(* pool_capacity; the first used entries are copied, the rest is new.      *)
Increase(mem, used) ==
  IF used = Capacity
  THEN [i \in Indices |-> IF i < used THEN mem[i] ELSE Fresh]
  ELSE mem

(* add_socket_to_pool writes an entry and leaves current_receive_item of   *)
(* that memory as it is.                                                   *)
Put(mem, i, fd, peer, counter) ==
  [mem EXCEPT ![i] = [fd |-> fd, peer |-> peer, counter |-> counter,
                      receiving |-> @.receiving]]

(* A client is accepted; the size is compared with the capacity before     *)
(* each of the two entries, and with nothing else.                         *)
Accept ==
  LET client == 2 * (conns + 1)
      server == client + 1
      mem1   == Increase(slots, size)
      mem2   == Increase(Put(mem1, size, client, server, size + 1), size + 1)
  IN  /\ conns < MaxConns
      /\ slots' = Put(mem2, size + 1, server, client, size)
      /\ allocated' = IF Capacity \in {size, size + 1} THEN 2 * Capacity ELSE allocated
      /\ size' = size + 2
      /\ conns' = conns + 1
      /\ open' = open \cup {client, server}
      /\ disturbed' = disturbed \cup {d \in {"memory"} : size' > allocated'}

(* The first part of a message arrives on entry i, and the rest of it. *)
Receive(i) ==
  /\ i \in 1 .. size - 1
  /\ slots[i].receiving \in {0, Unset}
  /\ slots' = [slots EXCEPT ![i].receiving = slots[i].fd]
  /\ UNCHANGED <<allocated, size, conns, open, disturbed>>

Received(i) ==
  /\ i \in 1 .. size - 1
  /\ slots[i].receiving # 0
  /\ slots' = [slots EXCEPT ![i].receiving = 0]
  /\ UNCHANGED <<allocated, size, conns, open, disturbed>>

(* The pair that is moved keeps its old indices. *)
RemoveWrong(i) ==
  IF size - 2 > 1
  THEN [slots EXCEPT ![i] = slots[size - 2], ![i + 1] = slots[size - 1]]
  ELSE slots

(* The hole at i and i + 1 is filled with the last pair. *)
Remove(i) ==
  IF size - 2 > 1
  THEN [slots EXCEPT ![i]     = [slots[size - 2] EXCEPT !.counter = i + 1],
                     ![i + 1] = [slots[size - 1] EXCEPT !.counter = i]]
  ELSE slots

(* recv answers 0 on entry i, which the code takes for a client's: this    *)
(* entry and the next one go.  A server's socket gets here in the middle   *)
(* of a message; check_response stops the proxy otherwise, and so does     *)
(* remove_socket_by_index if there is no next entry.                       *)
Close(i) ==
  LET isServer == slots[i].fd % 2 = 1
  IN  /\ i \in 1 .. size - 2
      /\ isServer => slots[i].receiving # 0
      /\ slots' = Remove(i)
      /\ size' = size - 2
      /\ open' = open \ {slots[i].fd, slots[i + 1].fd}
      /\ disturbed' = disturbed
           \cup {d \in {"server"} : isServer}
           \cup {d \in {"message"} : \E j \in {size - 2, size - 1} :
                                      slots[j].receiving \notin {0, Unset}}
      /\ UNCHANGED <<allocated, conns>>

Next ==
  \/ Accept
  \/ \E i \in 1 .. size - 1 : Receive(i) \/ Received(i) \/ Close(i)

Spec == Init /\ [][Next]_vars

-----------------------------------------------------------------------------
(* Correctness *)

(* Every variable has its type. *)
TypeOK ==
  /\ slots \in [Indices -> Entry] /\ allocated \in {Capacity, 2 * Capacity}
  /\ size \in Nat \ {0} /\ conns \in 0 .. MaxConns
  /\ open \subseteq Nat /\ disturbed \subseteq Disturbances

(* Every entry and the entry its counter_socket_index names are the two    *)
(* ends of one connection, and know it of each other.                      *)
PairsIntact ==
  \A i \in 1 .. size - 1 :
    LET e == slots[i]
    IN  /\ e.counter = (IF i % 2 = 1 THEN i + 1 ELSE i - 1)
        /\ e.counter < size
        /\ slots[e.counter].fd = e.peer /\ slots[e.counter].peer = e.fd

(* Every open socket is polled, none twice, and no closed one. *)
AllPolled ==
  /\ \A fd \in open : \E i \in 0 .. size - 1 : slots[i].fd = fd
  /\ \A i, j \in 0 .. size - 1 : slots[i].fd = slots[j].fd => i = j
  /\ \A i \in 0 .. size - 1 : slots[i].fd \in open

(* A connection receives into a message of its own, if it has any:         *)
(* "whenever we start reading from a socket, it means that the content      *)
(* belongs to an atomic operation which may not be interleaved with        *)
(* others" (message.c).                                                    *)
OwnMessage ==
  \A i \in 1 .. size - 1 : slots[i].receiving \in {0, Unset, slots[i].fd}

(* Up to twice the capacity the memory is enough, however often the pool   *)
(* shrinks and grows past the capacity.                                    *)
MemoryEnough == size <= 2 * Capacity => size <= allocated

(* In whatever order clients come and go, while pairs are moved into the   *)
(* holes and the memory grows, the pool stays whole, as long as none of    *)
(* the Disturbances that matter has happened.                              *)
PoolSound ==
  /\ MemoryEnough
  /\ disturbed \subseteq {"message"} => PairsIntact /\ AllPolled
  /\ disturbed = {} => OwnMessage

=============================================================================
