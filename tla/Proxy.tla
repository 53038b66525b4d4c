------------------------------- MODULE Proxy -------------------------------
(***************************************************************************)
(* The message loop of the proxy (main and prepare_events in proxy2.c,     *)
(* check_request and check_response in message.c, the request lists of     *)
(* socket_pool.c), driving a scheduler plug-in that keeps the promise of   *)
(* module Dispatcher.                                                      *)
(*                                                                         *)
(* A connection is a pair of sockets.  Each socket has a list of request   *)
(* states, the messages read from it, oldest first; list.up[c] holds what  *)
(* came from the client, list.down[c] what came from the server.  What is  *)
(* read from one socket is written to the other, a message being forwarded *)
(* while it is still arriving.  A request that the scheduler holds back is *)
(* locked and is passed over.                                              *)
(*                                                                         *)
(* Every handler of the single-threaded loop is one step; the order of the *)
(* handlers, the parts in which TCP moves a message and the choices of the *)
(* peers are left open.  A peer sends its next message when the proxy      *)
(* reads it: network delay before the proxy adds no behaviour.             *)
(***************************************************************************)
EXTENDS Integers, Sequences, FiniteSets, SequencesExt

CONSTANTS
  Conns,       \* connections
  Apps,        \* applications
  AppOf,       \* [Conns -> Apps], by the address of the client
  Tags,        \* BMI tags; a client uses a tag for one request at a time
  Kinds,       \* requests that occur: subset of AllKinds
  Shares,      \* numbers of data messages a transfer may take
  FlowUnits,   \* pieces in which TCP may move one data message
  Depth,       \* slots of the scheduler
  AcceptMeta,  \* sch_accept_meta
  Whole,       \* is an answer there in one piece when it is peeked at?
  MayClose,    \* clients may disconnect
  MaxRequests  \* bound: scheduled requests

(* "meta" is what is_meta names; "other" is any operation beside those and *)
(* I/O, which no scheduler sees.                                           *)
AllKinds == {"read", "write", "small", "meta", "other"}

ASSUME ProxyAssumption ==
  /\ AppOf \in [Conns -> Apps]
  /\ Kinds \subseteq AllKinds
  /\ Shares \subseteq Nat
  /\ {FlowUnits, Depth} \subseteq Nat \ {0}
  /\ {AcceptMeta, MayClose} \cup Whole \subseteq BOOLEAN
  /\ MaxRequests \in Nat

VARIABLES
  list,     \* [Way -> [Conns -> Seq(request_state)]]: req_state_data
  recv,     \* [Way -> [Conns -> Pointer]]: current_receive_item
  send,     \* [Way -> [Conns -> Pointer]]: current_send_item of the peer socket
  incomplete, \* [Conns -> BOOLEAN]: incomplete_mode of the server's socket
  open,     \* the connections in the socket pool
  fault,    \* an assertion failed, exit(), a bad pointer was used or a message
            \* was taken for one of another kind
  waiting, serving, arrived,  \* the scheduler, see Dispatcher
  call      \* [Conns -> [Tags -> Call]]: what client and server have seen

Sched == INSTANCE Dispatcher

scheduler == <<waiting, serving, arrived>>
vars == <<list, recv, send, incomplete, open, fault, scheduler, call>>

Way == {"up", "down"}

(* A request state.  It is named by its tag and its rank among the states  *)
(* of that tag; size is 0 while job_size is not known.  final stands for   *)
(* op = WRITE_COMPLETION, last_flow or meta_response, got for got_size of  *)
(* the queue item, in data messages.                                       *)
State(tag, rank, op, size) ==
  [tag |-> tag, rank |-> rank, op |-> op, size |-> size, tail |-> 0,
   head |-> 0, locked |-> FALSE, final |-> FALSE, item |-> -1, got |-> 0]

Nil == <<>>
Name(m) == <<m.tag, m.rank>>
InUse(t, s) == \E i \in DOMAIN s : s[i].tag = t
At(name, s) == SelectInSeq(s, LAMBDA m : Name(m) = name)

(* find_request(index, tag, 1) *)
FindRequest(t, s) == SelectInSeq(s, LAMBDA m : m.tag = t)

(* Variants named ...Wrong are errors a change of the code could make; no   *)
(* definition uses them, and the README says which property notices each.  *)

(* The lock is not looked at. *)
SendableWrong(m) == m.tail # m.head

(* list_req_state_buffer_nonempty_nonlock_comp *)
Sendable(m) == m.tail # m.head /\ ~m.locked

(* The oldest message goes first even in the middle of another one; the    *)
(* newest goes first.                                                      *)
UpdateSendOldestWrong(now, s) ==
  LET i == SelectInSeq(s, Sendable) IN IF i = 0 THEN now ELSE Name(s[i])
UpdateSendNewestWrong(now, s) ==
  LET i == SelectLastInSeq(s, Sendable)
  IN  IF now # Nil \/ i = 0 THEN now ELSE Name(s[i])

(* update_socket_current_send: keep the message being sent, else take the  *)
(* first that has something to send and is not locked.                     *)
UpdateSend(now, s) ==
  LET i == SelectInSeq(s, Sendable)
  IN  IF now # Nil \/ i = 0 THEN now ELSE Name(s[i])

(* What the peers know of a request: share is the number of data messages  *)
(* it moves, begun of them have been started by their sender and landed of *)
(* them have reached the other end.                                        *)
Call(kind, share) ==
  [kind |-> kind, stage |-> "asked", begun |-> 0, landed |-> 0,
   share |-> IF kind \in {"read", "write"} THEN share ELSE 0]
NoCall ==
  [kind |-> "none", stage |-> "none", begun |-> 0, landed |-> 0, share |-> 0]

Scheduled(kind) ==
  kind \in {"read", "write", "small"} \/ (kind = "meta" /\ AcceptMeta)

Init ==
  /\ list = [w \in Way |-> [c \in Conns |-> <<>>]]
  /\ recv = [w \in Way |-> [c \in Conns |-> Nil]]
  /\ send = [w \in Way |-> [c \in Conns |-> Nil]]
  /\ incomplete = [c \in Conns |-> FALSE]
  /\ open = Conns
  /\ fault = FALSE
  /\ Sched!Init
  /\ call = [c \in Conns |-> [t \in Tags |-> NoCall]]

-----------------------------------------------------------------------------
(* Completion: the scheduler hands the slot on *)

Item(m, c) == [id |-> m.item, app |-> AppOf[c]]

(* The request keeps its lock. *)
UnlockWrong(lists, ids) == lists

(* new_dispatched->locked = 0 *)
Unlock(lists, ids) ==
  [lists EXCEPT !.up = [c \in Conns |-> [i \in DOMAIN @[c] |->
     IF @[c][i].item \in ids THEN [@[c][i] EXCEPT !.locked = FALSE]
                             ELSE @[c][i]]]]

(* A locked request state is waiting for item id. *)
Expected(lists, id) ==
  \E c \in open : \E i \in DOMAIN lists.up[c] :
    lists.up[c][i].item = id /\ lists.up[c][i].locked

(* The server has answered request t of connection c in full: the request  *)
(* gives up its slot and the request the scheduler names is unlocked.  The *)
(* code uses current_item unchecked, and asserts that the request it       *)
(* unlocks is locked.                                                      *)
Complete(c, t, lists) ==
  LET request == lists.up[c][FindRequest(t, lists.up[c])]
      granted == {r.id : r \in serving' \ serving}
  IN  \/ /\ Item(request, c) \in serving
         /\ Sched!HandOver(Item(request, c)) \/ Sched!Free(Item(request, c))
         /\ list' = Unlock(lists, granted)
         /\ fault' = \E id \in granted : ~Expected(lists, id)
      \/ /\ Item(request, c) \notin serving
         /\ fault' = TRUE
         /\ list' = lists
         /\ UNCHANGED scheduler

(* After every recv the other socket looks for something to send. *)
Refresh(w, c) == send' = [send EXCEPT ![w][c] = UpdateSend(@, list'[w][c])]

-----------------------------------------------------------------------------
(* Messages from the client: check_request *)

(* A request of a tag that no request state of the server side bears.  It  *)
(* is read in one piece.  A request that finds its tag in use is taken for *)
(* a data message of the earlier one.                                      *)
RecvRequest(c, t, kind, share) ==
  LET rs     == [State(t, 0, kind, 1) EXCEPT !.tail = 1]
      answer == State(t, 0, kind, 0)  \* create_counter_rs
      put(m) == [list EXCEPT !.up[c] = Append(@, m),
                             !.down[c] = Append(@, answer)]
  IN  /\ recv.up[c] = Nil
      /\ call[c][t] = NoCall
      /\ call' = [call EXCEPT ![c][t] = Call(kind, share)]
      /\ fault' = InUse(t, list.down[c])
      /\ IF Scheduled(kind)
         THEN /\ arrived < MaxRequests
              /\ \/ /\ Sched!Release(AppOf[c])
                    /\ list' = put([rs EXCEPT !.item = arrived])
                 \/ /\ Sched!Hold(AppOf[c])
                    /\ list' = put([rs EXCEPT !.item = arrived,
                                              !.locked = TRUE])
         ELSE /\ list' = put(rs)
              /\ UNCHANGED scheduler
      /\ Refresh("up", c)
      /\ UNCHANGED <<recv, incomplete, open>>

(* A data message of a write begins. *)
RecvClientFlow(c, t, units) ==
  LET rs == [State(t, call[c][t].begun + 1, "flow", FlowUnits)
               EXCEPT !.tail = units]
  IN  /\ recv.up[c] = Nil
      /\ call[c][t].kind = "write"
      /\ call[c][t].stage = "granted"
      /\ call[c][t].begun < call[c][t].share
      /\ call' = [call EXCEPT ![c][t].begun = @ + 1]
      /\ fault' = ~InUse(t, list.down[c])
      /\ list' = [list EXCEPT !.up[c] = Append(@, rs)]
      /\ recv' = [recv EXCEPT !.up[c] =
                    IF units = FlowUnits THEN Nil ELSE Name(rs)]
      /\ Refresh("up", c)
      /\ UNCHANGED <<incomplete, open, scheduler>>

(* The rest of it arrives. *)
RecvClientRest(c) ==
  LET i == At(recv.up[c], list.up[c])
  IN  /\ recv.up[c] # Nil
      /\ list' = [list EXCEPT !.up[c][i].tail = FlowUnits]
      /\ recv' = [recv EXCEPT !.up[c] = Nil]
      /\ Refresh("up", c)
      /\ UNCHANGED <<incomplete, open, fault, scheduler, call>>

-----------------------------------------------------------------------------
(* Messages from the server: check_response *)

(* The first answer fills the request state made for it.  It is the last   *)
(* one for a metadata or other request (meta_response), a small I/O (op    *)
(* becomes WRITE_COMPLETION) and a read that gets no data (last_flow).     *)
(* The scheduler is told of a metadata answer whether it has accepted the  *)
(* request or not.  An answer that is not there in full is read and        *)
(* forwarded like any message, but what it means is never looked at: the   *)
(* -3 that asks for another try is stored in an inner variable ret.        *)
RecvAnswer(c, t, whole) ==
  LET i     == FindRequest(t, list.down[c])
      kind  == call[c][t].kind
      last  == kind \in {"meta", "other", "small"}
               \/ (kind = "read" /\ call[c][t].share = 0)
      size  == IF whole THEN 1 ELSE 2
      lists == [list EXCEPT !.down[c][i] =
                  [@ EXCEPT !.size = size, !.tail = 1, !.final = whole /\ last]]
  IN  /\ recv.down[c] = Nil
      /\ call[c][t].stage = "served"
      /\ i # 0 /\ list.down[c][i].size = 0
      /\ call' = [call EXCEPT ![c][t].stage =
                    IF last THEN "over" ELSE "replied"]
      /\ recv' = [recv EXCEPT !.down[c] =
                    IF whole THEN Nil ELSE Name(lists.down[c][i])]
      /\ incomplete' = [incomplete EXCEPT ![c] = ~whole]
      /\ IF whole /\ last /\ kind # "other"
         THEN Complete(c, t, lists)
         ELSE list' = lists /\ UNCHANGED <<fault, scheduler>>
      /\ Refresh("down", c)
      /\ UNCHANGED open

(* A data message of a read has been read in full: got_size grows, and     *)
(* with the last one the read is complete.                                 *)
FlowRead(c, name, lists) ==
  LET t    == name[1]
      q    == FindRequest(t, lists.up[c])
      i    == At(name, lists.down[c])
      more == lists.up[c][q].got + 1
      last == more = call[c][t].share
      read == [lists EXCEPT !.up[c][q].got = more, !.down[c][i].final = last]
  IN  /\ call' = [call EXCEPT ![c][t].begun = more,
                              ![c][t].stage = IF last THEN "over" ELSE @]
      /\ IF last THEN Complete(c, t, read)
                 ELSE list' = read /\ UNCHANGED <<fault, scheduler>>

(* A data message of a read begins.  In incomplete mode it is taken for    *)
(* the rest of the last message, whose buffer is full: the proxy exits.    *)
RecvServerFlow(c, t, units) ==
  LET rs    == [State(t, call[c][t].begun + 1, "flow", FlowUnits)
                  EXCEPT !.tail = units]
      lists == [list EXCEPT !.down[c] = Append(@, rs)]
  IN  /\ recv.down[c] = Nil
      /\ call[c][t].kind = "read" /\ call[c][t].stage = "replied"
      /\ recv' = [recv EXCEPT !.down[c] =
                    IF units = FlowUnits THEN Nil ELSE Name(rs)]
      /\ CASE incomplete[c] ->
                fault' = TRUE /\ UNCHANGED <<list, scheduler, call>>
           [] ~incomplete[c] /\ units = FlowUnits ->
                FlowRead(c, Name(rs), lists)
           [] OTHER ->
                list' = lists /\ UNCHANGED <<fault, scheduler, call>>
      /\ Refresh("down", c)
      /\ UNCHANGED <<incomplete, open>>

(* The rest of a message arrives. *)
RecvServerRest(c) ==
  LET i    == At(recv.down[c], list.down[c])
      full == [list EXCEPT !.down[c][i].tail = list.down[c][i].size]
  IN  /\ recv.down[c] # Nil
      /\ recv' = [recv EXCEPT !.down[c] = Nil]
      /\ IF list.down[c][i].op = "flow"
         THEN FlowRead(c, recv.down[c], full)
         ELSE list' = full /\ UNCHANGED <<fault, scheduler, call>>
      /\ Refresh("down", c)
      /\ UNCHANGED <<incomplete, open>>

(* The server has all data of a write: the write is complete.  If this     *)
(* message is not there in full, the op of its new request state is never  *)
(* set and is what the memory held before.                                 *)
RecvWriteCompletion(c, t, whole) ==
  LET rs(f) == [State(t, 1, "completion", IF whole THEN 1 ELSE 2)
                  EXCEPT !.tail = 1, !.final = f]
      lists(f) == [list EXCEPT !.down[c] = Append(@, rs(f))]
  IN  /\ recv.down[c] = Nil
      /\ call[c][t].kind = "write"
      /\ call[c][t].stage \in {"replied", "granted"}
      /\ call[c][t].landed = call[c][t].share
      /\ call' = [call EXCEPT ![c][t].stage = "over"]
      /\ recv' = [recv EXCEPT !.down[c] = IF whole THEN Nil ELSE <<t, 1>>]
      /\ incomplete' = [incomplete EXCEPT ![c] = ~whole]
      /\ IF whole
         THEN Complete(c, t, lists(TRUE))
         ELSE /\ \E f \in BOOLEAN : list' = lists(f)
              /\ UNCHANGED <<fault, scheduler>>
      /\ Refresh("down", c)
      /\ UNCHANGED open

-----------------------------------------------------------------------------
(* Forwarding *)

(* Message m ends the client's call k. *)
Ends(k, m) ==
  \/ k.kind \in {"meta", "other", "small"}
  \/ m.op = "completion"
  \/ k.kind = "read" /\ k.landed + (IF m.op = "flow" THEN 1 ELSE 0) = k.share

(* Message m has reached the peer on its way w. *)
Reached(k, w, m) ==
  LET ends == w = "down" /\ Ends(k, m)
  IN  CASE ends                      -> NoCall
        [] m.op = "flow" /\ ~ends    -> [k EXCEPT !.landed = @ + 1]
        [] w = "up" /\ m.op # "flow" -> [k EXCEPT !.stage = "served"]
        [] OTHER -> [k EXCEPT !.stage =
                       IF k.kind = "write" /\ @ = "replied" THEN "granted" ELSE @]

(* The n-th of the positions kept, counted from the front. *)
Nth(n, kept) == CHOOSE i \in kept : Cardinality({j \in kept : j <= i}) = n

(* List s without the request states of tag t. *)
Without(t, s) ==
  LET kept == {i \in DOMAIN s : s[i].tag # t}
  IN  [n \in 1 .. Cardinality(kept) |-> s[Nth(n, kept)]]

(* One side forgets the tag, the other does not. *)
CleanUpWrong(lists, c, t) ==
  [lists EXCEPT !.up[c] = Without(t, @)]

(* clean_up_request_state *)
CleanUp(lists, c, t) ==
  [lists EXCEPT !.up[c] = Without(t, @), !.down[c] = Without(t, @)]

(* The size of the message is taken for what has been read of it. *)
ReadySizeWrong(m) == m.size - m.head

(* ready_size, what is there to be sent of m *)
ReadySize(m) == m.tail - m.head

(* The socket at the end of way w takes some of its current_send_item.     *)
(* When the message is out the next one is looked for, and after a message *)
(* that ends its request both lists forget the tag.                        *)
SendPart(w, c, units) ==
  LET i     == At(send[w][c], list[w][c])
      m     == list[w][c][i]
      out   == m.head + units = m.size
      lists == [list EXCEPT ![w][c][i].head = @ + units]
  IN  /\ send[w][c] # Nil
      /\ units <= ReadySize(m)
      /\ list' = IF out /\ m.final THEN CleanUp(lists, c, m.tag) ELSE lists
      /\ send' = [send EXCEPT ![w][c] =
                    UpdateSend(IF out THEN Nil ELSE @, list'[w][c])]
      /\ call' = IF out THEN [call EXCEPT ![c][m.tag] = Reached(@, w, m)]
                        ELSE call
      /\ UNCHANGED <<recv, incomplete, open, fault, scheduler>>

(* prepare_events, before every poll: each socket that sends nothing looks *)
(* for something to send.  (The other sockets keep what they have.)        *)
PrepareEvents ==
  /\ send' = [w \in Way |-> [c \in Conns |->
                UpdateSend(send[w][c], list[w][c])]]
  /\ send' # send
  /\ UNCHANGED <<list, recv, incomplete, open, fault, scheduler, call>>

-----------------------------------------------------------------------------

(* The client disconnects (main, recv returning 0, remove_socket_by_index  *)
(* for both sockets).  The scheduler is not told.                          *)
Close(c) ==
  /\ MayClose
  /\ open' = open \ {c}
  /\ list' = [w \in Way |-> [list[w] EXCEPT ![c] = <<>>]]
  /\ recv' = [w \in Way |-> [recv[w] EXCEPT ![c] = Nil]]
  /\ send' = [w \in Way |-> [send[w] EXCEPT ![c] = Nil]]
  /\ call' = [call EXCEPT ![c] = [t \in Tags |-> NoCall]]
  /\ UNCHANGED <<incomplete, fault, scheduler>>

Receive(c) ==
  \/ \E t \in Tags : \/ \E units \in 1 .. FlowUnits :
                           RecvClientFlow(c, t, units) \/ RecvServerFlow(c, t, units)
                     \/ \E whole \in Whole : \/ RecvAnswer(c, t, whole)
                                             \/ RecvWriteCompletion(c, t, whole)
  \/ RecvClientRest(c)
  \/ RecvServerRest(c)

Send(w, c) == \E units \in 1 .. FlowUnits : SendPart(w, c, units)

(* What the proxy and the server do of their own accord. *)
Progress ==
  \/ \E c \in open : Receive(c) \/ \E w \in Way : Send(w, c)
  \/ PrepareEvents

(* What the clients decide. *)
Client ==
  \E c \in open :
    \/ \E t \in Tags, kind \in Kinds, share \in Shares :
         RecvRequest(c, t, kind, share)
    \/ Close(c)

Next == ~fault /\ (Progress \/ Client)

Spec == Init /\ [][Next]_vars

(* poll returns while a socket is ready, and both peers go on with the     *)
(* transfers they have begun.  Which socket is served is not assumed, nor  *)
(* that a client ever sends a request.                                     *)
FairSpec == Spec /\ WF_vars(~fault /\ Progress)

-----------------------------------------------------------------------------
(* Correctness *)

(* The lists, the pointers into them and the peers' records have their     *)
(* types, and a message is sent no further than it has been read.          *)
TypeOK ==
  /\ \A w \in Way, c \in Conns :
       /\ \A i \in DOMAIN list[w][c] :
            LET m == list[w][c][i]
            IN  /\ m.tag \in Tags /\ m.rank \in Nat /\ m.got \in Nat
                /\ m.op \in AllKinds \cup {"flow", "completion"}
                /\ m.size \in {0, 1, 2, FlowUnits}
                /\ 0 <= m.head /\ m.head <= m.tail /\ m.tail <= m.size
                /\ m.item \in -1 .. MaxRequests - 1
                /\ {m.locked, m.final} \subseteq BOOLEAN
       /\ {recv[w][c], send[w][c]} \subseteq {Nil} \cup (Tags \X Nat)
  /\ incomplete \in [Conns -> BOOLEAN]
  /\ open \subseteq Conns
  /\ fault \in BOOLEAN
  /\ waiting \cup serving \subseteq [id : 0 .. MaxRequests - 1, app : Apps]
  /\ arrived \in 0 .. MaxRequests

(* The server has request t of connection c and has not finished with it. *)
ServerHolds(c, t) == call[c][t].stage \in {"served", "replied", "granted"}

(* What the depth of the scheduler is for: whatever the loop forwards, the *)
(* server never works on more than Depth scheduled requests.               *)
DepthAtServer ==
  Cardinality({p \in Conns \X Tags : /\ ServerHolds(p[1], p[2])
                                     /\ Scheduled(call[p[1]][p[2]].kind)})
    <= Depth

(* The request states that have an item of the scheduler. *)
WithItem(locked) ==
  {p \in UNION {{<<c, i>> : i \in DOMAIN list.up[c]} : c \in Conns} :
     /\ list.up[p[1]][p[2]].item >= 0
     /\ list.up[p[1]][p[2]].locked = locked}

ItemAt(p) == Item(list.up[p[1]][p[2]], p[1])

(* No client has disconnected. *)
Undisturbed == open = Conns

(* The requests the scheduler counts as served are those the loop has      *)
(* released and the server has not finished with, and the ones it holds    *)
(* back are the locked ones: however the messages of several requests are  *)
(* interleaved, each request takes and returns its slot once.  After a     *)
(* disconnection the scheduler still knows at least these.                 *)
SchedulerMatchesLists ==
  LET held     == {ItemAt(p) : p \in WithItem(TRUE)}
      released == {ItemAt(p) : p \in {q \in WithItem(FALSE) :
                     call[q[1]][list.up[q[1]][q[2]].tag].stage # "over"}}
  IN  /\ held \subseteq waiting /\ released \subseteq serving
      /\ Undisturbed => held = waiting /\ released = serving

(* A message that has been sent in part is the one its socket goes on      *)
(* with, so that messages are never mixed on the wire, even when an older  *)
(* request is unlocked meanwhile.                                          *)
MessagesWhole ==
  \A w \in Way, c \in Conns : \A i \in DOMAIN list[w][c] :
    LET m == list[w][c][i]
    IN  0 < m.head /\ m.head < m.size => send[w][c] = Name(m)

(* The messages of one tag leave in the order they came. *)
TagInOrder ==
  \A w \in Way, c \in Conns : \A i, j \in DOMAIN list[w][c] :
    LET m == list[w][c][i]  n == list[w][c][j]
    IN  i < j /\ m.tag = n.tag /\ n.head > 0 => m.head = m.size

(* clean_up_request_state frees every state of a tag: none of them is      *)
(* still being read or sent then, and a locked one is never being sent.    *)
PointersValid ==
  \A w \in Way, c \in Conns :
    /\ recv[w][c] # Nil => At(recv[w][c], list[w][c]) # 0
    /\ send[w][c] # Nil =>
         LET i == At(send[w][c], list[w][c])
         IN  i # 0 /\ ~list[w][c][i].locked

(* When the client has its whole answer, and only then, the proxy has      *)
(* forgotten the tag: no message is dropped unsent, and a request that     *)
(* uses the tag again is not taken for data of the old one.                *)
TagForgotten ==
  \A c \in Conns, t \in Tags :
    IF call[c][t] = NoCall
    THEN \A w \in Way : ~InUse(t, list[w][c])
    ELSE \A w \in Way : InUse(t, list[w][c])

(* While no client disconnects, no assertion of the loop fails, it does    *)
(* not give up with exit(-1), it uses no current_item that is NULL or has  *)
(* no slot, and it takes no request for data nor data for a request.       *)
NoFault == Undisturbed => ~fault

(* Every request is answered. *)
Answered ==
  \A c \in Conns, t \in Tags : call[c][t] # NoCall ~> call[c][t] = NoCall

(* The comment in struct scheduler_method: the unfinished items of         *)
(* disconnected sockets should not keep their seats.                       *)
SeatsFreed ==
  \A r \in waiting \cup serving : \E p \in WithItem(TRUE) \cup WithItem(FALSE) :
    ItemAt(p).id = r.id

=============================================================================
