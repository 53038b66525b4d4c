# A verification development for PVFS2-Proxy2

`proxy2` sits between PVFS2 clients and one PVFS2 server.  It forwards messages,
and a scheduler plug-in decides when a request may go on to the server.  This
directory models the proxy, its scheduler plug-ins and their helpers in TLA+, checks the
models with TLC, and proves with TLAPS, for all values of the constants, the central
properties of six of the eight linked plug-ins, of the socket pool and of the message loop.

1. [The system](#1-the-system)
2. [The modules and how they follow the code](#2-the-modules-and-how-they-follow-the-code)
3. [What each run checks](#3-what-each-run-checks)
4. [What is proved](#4-what-is-proved)
5. [Disagreements with the code's own comments](#5-disagreements-with-the-codes-own-comments)
6. [What is not modelled](#6-what-is-not-modelled)
7. [Plan](#7-plan)

## 1. The system

| component | state | operations | talks to |
|---|---|---|---|
| message loop (`proxy2.c` `main`, `prepare_events`; `message.c`) | per socket: `current_receive_item`, `current_send_item`, `incomplete_mode`; per message: `struct request_state` | `check_request`, `check_response`, the receive and send halves of the loop, `clean_up_request_state`, closing | socket pool (direct access), plug-in (function table) |
| socket pool (`socket_pool.c`) | array of sockets in pairs, a list of request states for each | add a pair, remove by index or by descriptor, grow, `find_request` | message loop; plug-ins hold its indices |
| plug-in interface (`scheduler_main.h`) | `static_methods[scheduler_index]` | `sch_enqueue`, `sch_dequeue`, `sch_update_on_request_completion`, `sch_current_size` | called by the message loop |
| SFQD (`scheduler_SFQD.c`), the default | sorted list, virtual time, last finish tags, depth | the interface | list (`llist.c`) |
| SFQD_Full | the same, plus small-request counter and slots per item; accepts metadata requests | the interface | list |
| SFQD2, SFQD3 | two size classes with a queue each; a queue per application and a throughput difference that stops dispatch | the interface, `sch_calculate_diff` | heap (SFQD2), list |
| DSFQ, vDSFQ, vDSFQ2 | SFQ with delays computed from what other proxies report; broadcast buffers | the interface; threads: accept, broadcast trigger, broadcast worker, timeout | each other's proxies over TCP |
| 2LSFQD | upper-level queue with deadlines and credits, SFQD below | the interface (self-dispatching); threads: replenish, window | its own threads under one mutex |
| heap, list, dictionary | containers | insert, delete, sort, search | plug-ins, configuration |
| share arithmetic (`utility.c`) | none | `get_my_share`, `logical_to_physical_size` | `check_request`, plug-ins |
| configuration (`config.c`, `iniparser.c`, `options.c`) | applications, weights, scheduler settings | read at start | all |
| statistics (`performance.c`, `cost_model_history.c`, `logging.c`, `dump.c`) | counters | report | message loop |

**Which behaviour is hard.**  The loop is single-threaded, so the difficulty lies in the
order of its handlers.  A message arrives and leaves in any number of parts; a
socket carries the messages of several requests; a completion on one connection
unlocks a request of another one through a pointer; request states are freed
while both sockets hold pointers into their lists; a client may go away at any
time.  The scheduler is called from five places that must agree on which call
takes a slot and which gives it back.  Only DSFQ, its two variants, 2LSFQD and
the reporter have threads.

**What makes each component correct.**

* Plug-ins: at most `depth` requests at the server; no slot lost or given twice;
  no slot idle while a request waits; every request released in the end; one
  application's requests in order; service in proportion to the weights.
* Message loop: messages leave whole, and those of a tag in order; each request is
  completed at the scheduler once; a tag is forgotten by both sockets exactly
  when its request is over; no assertion or `exit(-1)` is reached; every request
  is answered.
* Socket pool: indices name the connection they were taken for; closing one pair
  leaves every other pair intact; growing loses nothing.
* Threads of DSFQ and 2LSFQD: no signal is lost, buffers are not refilled
  while they are being sent, every lock is released.

`PROJECT.json` lists every hazard found in the code, at its line, with the properties
that would notice it going wrong, or the reason why none does yet.

## 2. The modules and how they follow the code

| module | what it is |
|---|---|
| `Dispatcher` | abstract: what a work-conserving plug-in that counts one slot per request promises |
| `SFQD` | the default plug-in |
| `SFQDService`, `MCSFQD` | SFQD observed by a history variable: bytes that overtake a waiting request; its instance for TLC |
| `SFQDFull`, `MCSFQDFull` | the plug-in with large and metadata requests |
| `SFQD2` | the plug-in with a queue and a depth for small and one for large requests |
| `SFQD3` | the plug-in that throttles an application ahead of its share of the throughput |
| `TwoLSFQD` | the two-level plug-in: credits, deadlines, and three threads under one mutex |
| `TimeWindow` | how `TwoLSFQD`'s window thread computes the threshold |
| `Broadcast` | the threads with which DSFQ, vDSFQ and vDSFQ2 tell the other proxies what they serve |
| `DSFQ`, `VDSFQ`, `VDSFQ2` | the distributed plug-ins; each contains `Broadcast` |
| `Rendezvous` | how the proxies of these plug-ins connect to each other at the start |
| `Proxy`, `MCProxy` | the message loop over any plug-in that keeps the promise of `Dispatcher` |
| `SocketPool` | the table of connections: pairs, growth, and holes filled with the last pair |
| `Heap`, `ListSort` | the binomial heap of SFQD2 and SFQD3, the merge sort of the lists |
| `Share` | `get_my_share`: how many bytes of a request this server answers |
| `Locations` | which application a client's address belongs to |
| `MCBroadcast`, `MCPlugins`, `MCContainers` | instances for TLC of several of these modules, one part of the state space per subject |
| `SFQD_proofs`, `SFQDFull_proofs`, `DSFQ_proofs`, `VDSFQ_proofs`, `TwoLSFQD_proofs`, `Proxy_proofs` | theorems about the module they are named after, `SFQD_proofs` about `SFQDService` too |
| `Containers_proofs` | theorems about `SocketPool`, `Share`, `Locations`, `TimeWindow`, `ListSort` and `Heap`, and about `MCContainers`, which holds them |
| `Plugins_proofs` | theorems about `SFQD3` and `SFQD2`, and those about `TwoLSFQD` carried over to the instance in `MCPlugins` |

`DSFQ_proofs` likewise carries the theorems of `VDSFQ_proofs` over to the instances in `MCBroadcast`.

The parts fit together by assume and guarantee: `SFQD`, `DSFQ`, `VDSFQ` and
`VDSFQ2` implement `Dispatcher` (proved for every depth, weight and request size), and `Proxy` contains `Dispatcher` as an instance whose actions its handlers call.  That every
step of the loop, with clients that disconnect and messages in pieces, is a step of
that instance is proved (`UsesInterface`), so the promise holds behind the loop as well.
`Proxy` never looks at tags or weights, so what it shows holds for every plug-in shown
to implement `Dispatcher`.  SFQD_Full, SFQD2, SFQD3 and 2LSFQD promise something else
(several slots for a request, two depths, throttling, self-dispatching) and are
specified on their own.

**One run, several subjects.**  `MCBroadcast`, `MCPlugins` and `MCContainers` check modules that
do not interact.  The variable `subject` is chosen in the first state; only that part
moves, so the state space is the sum, not the product, of the parts.

**Variants.**  The modules define operators whose names end in `Wrong`.  Each is an
error that a change of the code could make (a slot freed although it is handed
on, a lock not looked at, ...).  No other definition uses them.  Put in the place
of the operator they are named after, each makes TLC report a property violated,
so that property depends on what the code does there; the pairs are listed under
"mutants" in `PROJECT.json`.

### Dispatcher

Three variables: `waiting`, `serving`, `arrived`.  `Release` and `Hold` are the two answers
of `sch_enqueue`; `HandOver` and `Free` the two of `sch_dequeue` on a completion.

### SFQD

| variable | code |
|---|---|
| `queue`, `sorted` | `sfqd_llist_queue` and the flag that it has been sorted since the last insertion |
| `virtualTime`, `lastFinish`, `depth`, `itemId` | `sfqd_virtual_time`, `sfqd_last_finish_tags`, `sfqd_current_depth`, `sfqd_item_id` |
| `current` | `rs->current_item` of the requests that are released and not finished |

`EnqueueDispatch` is `sfqd_enqueue` answering 1 followed by the `sfqd_dequeue(NEW_IO)` of
`check_request`, which binds *whatever* item is returned to the new request; that
this is always the request's own item is the property `OwnItem`, not part of the
model.  `EnqueueHold` is the answer 0.  `CompleteDispatch` and `CompleteIdle` are
`sfqd_dequeue(COMPLETE_IO)` with something and with nothing in the list.  A handler
runs to its end before the next one starts, hence each is one step.  Because the
list is sorted stably before an item is taken, a set ordered by start tag and item
id stands for it.  Tags are unbounded integers; in the code they are `int`.

### SFQDFull

As SFQD, with `smallIOs` and the slots of an item (1 or `Factor`).  `MayGo` is the scan
in `sfqdfull_enqueue`, `TakeFirstFit` the one in `sfqdfull_dequeue`; they are written apart
because they are apart in the code.  An item carries its connection (`sock`), and an application has
any number of them (`AppOf`).  `Before` is the order of the list: `list_sfqd_sort_comp` casts the
item to the struct of SFQD, in which the second `int` is the start tag; in this plug-in's struct it is
`request_socket`, so the list is in the order of the clients' descriptors, and of one client in the order of
arrival, since the sort is stable.  `TentativeDepth` and `ReduceDepth` are what an item
adds to the depth when it goes and takes off when it is answered.

### Proxy

| variable | code |
|---|---|
| `list[way][c]` | `req_state_data` of the client's socket (`"up"`) and of the server's (`"down"`) |
| `recv`, `send` | `current_receive_item`; `current_send_item` of the socket at the other end |
| `incomplete` | `incomplete_mode` of the server's socket |
| `open`, `fault` | connections in the pool; an assertion, `exit(-1)` or bad pointer was met, or a message was taken for one of another kind |
| `waiting`, `serving`, `arrived` | the plug-in (`Dispatcher`) |
| `call` | environment: how far each request has come for the client and the server |

A request state is a record named by its tag and its rank among the states of that
tag, which stands for its address.  Sizes are counted in units: a request or an
answer is one, a data message `FlowUnits`.  The handlers are those of the loop:
`RecvRequest` (`check_request`, the whole request with its call to the scheduler),
`RecvClientFlow` and `RecvClientRest` (data of a write), `RecvAnswer`, `RecvServerFlow`,
`RecvServerRest` and `RecvWriteCompletion` (`check_response` and the receive half of
`main`, with the completion of the request in the same step, as in the code),
`SendPart` (send half, with `clean_up_request_state`), `PrepareEvents`, `Close`.

The peers follow the PVFS2 protocol as the code relies on it: the server answers
a request that has reached it; a write's data follows its answer and is closed
by a completion message; a read's data follows its answer; a client does not
use a tag again before the answer is complete.  These definitions (`Call`, `NoCall`,
`Ends`, `Reached`, `Client`) are marked external.  A peer produces a message when the
proxy reads it, which hides nothing from the proxy, since it cannot tell
when a message was sent.

### SFQD2

One record entry per class for the queue, virtual time, finish tags and depth.  A request
carries two classes: `class`, from its length when it is enqueued, and `done`, from
the size the message loop reports with its completion.  They need not agree
(`scheduler_SFQD2.c:480`): `CompleteDispatch` and `CompleteIdle` give the slot back to `done`.
`crossed` remembers that this has happened.

### SFQD3

A queue, depth and virtual time per application, `throughput` and `diff`.  An application may be
served if it has something queued, a slot, and `diff <= MaxDiff` (`Eligible`).  `Complete` is the
completion as the loop reports it: the differences are computed anew, applications that have
dropped below the limit get requests with `DIFF_CHANGE` until nothing is returned, and
then the completion hands its own slot on.  `StartCounting` is the first answer, from
which throughput is counted.

### TwoLSFQD

| variable | code |
|---|---|
| `creditQueue`, `credits`, `turn` | the lists of the first level, `sarc_credits`, `queue_index` |
| `edf`, `late` | `iedf_llist_queue` and how many of its items are past their deadline |
| `outstanding`, `threshold` | `timewindow_current_queue_length`, `timewindow_queue_threshold` |
| `dispatched`, `unlocked` | items with `dispatched = 1`; requests that are let go and not answered |
| `calls` | the calls the thread that holds the mutex has not finished |

The levels call each other: sending requests may refill the credits, which lets
requests into the second level, which sends them.  `calls` is the stack of these calls
(`Drain`, `Enqueued`, `Arrived`, `Serve`); `Work` takes one step of the call on top, and a thread
can begin (`Arrive`, `Complete`, `Replenish`, `Window`) only while the stack is empty, that is, the mutex
is free.  `Window` chooses the new threshold freely.  How it is computed is in
`TimeWindow`: each application's case analysis, with ratios whose denominator may be 0 and
which then compare as the infinity or NaN of the code's floats.

### Broadcast, DSFQ, VDSFQ, VDSFQ2

`Broadcast` is the coordinator and the worker thread with the three flags
`threshold_ready`, `broadcast_begin` and `broadcast_complete`.  What a thread does between taking the mutex
and releasing it, or waiting on a condition, is one step; a signal moves a thread that
sleeps on the condition to the test of its loop, and is lost if nobody sleeps.  `Send` is
done without the mutex.

`DSFQ` adds the queue (as in SFQD), the bytes counted for the next report (`pending`,
`ioCounter`) and the receiver: `Receive` takes a peer's report, `Apply` adds it to
`dsfq_delay_values` one application at a time, as the receiver takes the queue mutex anew
for each.  A request takes over the delay of its application when it is tagged (`Tag`).
`asked`, `told`, `heard` and `charged` are history variables that follow the bytes.

`VDSFQ` announces each application once (`local`, `left`), by the number of new ones or by a request
after the timer (`Tick`) has expired; a request is delayed in proportion to `remote`.
Its list is a sequence, sorted (`Sorted`) when a request is held back and not when one is taken.
`VDSFQ2` is the same code with other names and a default threshold of one application, and
is written as an instance of `VDSFQ`.

### Rendezvous

`dsfq_init` and the accepting thread of every proxy: `Listen`, `Connect` to one after the other,
`Await`, and `StartAccepting`, `Accept`, `StopAccepting` under the mutex that the thread keeps until
everyone has connected.

### SocketPool

`slots` is the memory of `socket_state_list` with what it still holds above `pool_size`; an entry has its
socket, the socket at the other end, the index of that one, and whose message
`current_receive_item` is.  `allocated` is the number of entries there is memory for.  `Accept` adds a pair
without looking at `allocated`, as `add_socket_to_pool` does; the memory grows when `size` passes `Capacity`, which
never changes.  `Close` moves the last pair into the hole.  A new pair inherits what the entry held: what an
earlier pair left, or what `malloc` returned (`Unset`: NULL if the constant `Zeroed` is TRUE, otherwise something
that is not NULL).  An entry past the memory is kept in `slots` as well; what its writing damages elsewhere is not modelled.

`disturbed` remembers which of three things have happened: the server closed first in the middle of a message
(`"server"`), a pair was closed while the last one was receiving (`"message"`), an entry was written past the memory
(`"memory"`).  What the code does then is part of the model.  The parts of `PoolSound` are each stated up to
the disturbances that break them; without the condition on `disturbed` TLC finds each of them broken.
A descriptor is not used again in the model after its socket has closed.

### Heap, ListSort, Share, Locations

`Heap` is the forest of binomial trees with the cached minimum (`heap_insert`, `heap_peek`, `heap_take` and the union
under them), `contents` what has been put in and not taken.  A list of nodes linked by `next` is a sequence, `kids` has
the list under each node, and a node without one is what `heap_insert` makes of it; `parent` is not kept, since only
functions without a caller read it.  `ListSort` is the merge sort of `llist.c`, pass by pass.
The loops of both are functions from the number of rounds to the state they leave.  `Share` is `get_my_share` over file layouts of up to three servers, next to a
definition that counts the bytes of the request one by one.  `Locations` is how
`config.c` reads an address or a range, and looks an address up.

## 3. What each run checks

Runs that should pass:

| run | question | bounds | states |
|---|---|---|---|
| `sfqd` | `SlotsExact`, `WorkConserving`, `OwnItem`, `EmptyListNeverSorted`, `HeadsNearVirtualTime`, `OvertakingBounded`, `VirtualTimeMonotone`, `HeldIsReleased`, and `KeepsPromise` (refinement of `Dispatcher`) | 2 applications of weight 1 and 2, depth 2, sizes 1000 and 6000, 6 requests | 208,483 |
| `full` | `SlotsAccounted`, `SmallCounted`, `OwnItem`, `ConnectionInOrder`, `NoStall`, `HeldIsReleased` | 3 connections of 2 applications, depth 3, factor 2, hard blocking, lengths below and above the threshold, 5 requests | 86,407 |
| `proxy` | `DepthAtServer`, `SchedulerMatchesLists`, `MessagesWhole`, `TagInOrder`, `PointersValid`, `TagForgotten`, `NoFault` | 2 connections of 2 applications, 2 tags each, reads, writes and unscheduled operations, 1 data message of 2 units, depth 2, 3 scheduled requests, disconnections | 467,660 |
| `proxy_live` | `Answered` | depth 1, one tag, transfers of 0 or 1 data messages, small I/O, 4 scheduled requests | 4,519 |
| `broadcast` | `BytesReportedOnce`, `BytesChargedOnce`, `NoStrandedBroadcast`, `EveryPeerTold` of DSFQ; `Announcements` of vDSFQ and vDSFQ2; `PromisesKept` (refinement of `Dispatcher`) of all three; `AllStart` of the start | 2 applications of weight 1 and 2, 2 peers, depth 1; DSFQ: threshold 5 bytes, requests of 3, 4 requests, 1 report; virtual plug-ins: 3 requests, thresholds of 2 and of 1 application; start: 3 proxies | 196,378 |
| `plugins` | `OnlyThrottled` of SFQD3, `ClassesSound` of SFQD2, `TwoLevels` of 2LSFQD | 2 applications; SFQD3: depths 2 and 1, sizes 2 and 5, limit 2, 5 requests; SFQD2: limits 1 and 2, a kind of request for each change of class and for none, 4 requests; 2LSFQD: 3 connections, sizes 1 and 2, threshold at most 2, 3 requests | 200,913 |
| `containers` | `PoolSound`; `HelpersSound` of the heap, the sort, the share, the locations and the time window | capacity 4, 4 clients, memory that is not zeroed; heap keys 1 to 7; lists of up to 6 items with 3 tags; requests in 12 bytes over 1 to 3 servers with strips of 2 or 3, 4 file sizes; octets 1, 2 and 30; windows with thresholds 1, 2, 4 and counts 0, 1, 10 | 586,151 |

Each run also has a `TypeOK` or `TypesOK`.  The bounds on arrivals (`MaxItems`, `MaxRequests`) and, in the
other runs, `MaxReports`, `VItems`, `CItems`, `TItems` and `MaxConns` are the only counters cut off, and the system stops when they are reached and everything is
answered; therefore deadlock is not checked, and that no request is stuck is
stated by `HeldIsReleased`, `NoStall` and `Answered`.

*Why the bounds are enough.*  Six requests on two slots leave four in the list, so
that an application has a backlog while the other one's requests overtake it, with
equal and with different start tags; `1000 < REDUCER` and `6000` cover both branches
of `get_finish_tag`, and 6000 divided by weight 2 is not a whole number of units.
Depth 3 with factor 2 makes a large request wait for one free slot while a small
one passes it; with three connections one application has two, and the order of the descriptors differs from that
of arrival within it and across applications.  Three scheduled requests on two slots is the least with
which a completion on one connection unlocks a request on the other, or on the
same one in the middle of a data message; two tags on a connection are the least
with which messages of different requests interleave on one socket; two units are
the least for a message to be sent while it is arriving.  In the `proxy` run the
connections (each with its application) and the tags are symmetric.

Two requests of 3 bytes reach the threshold of 5, and the other two arrive
while the broadcast of the first two is under way, so that a second broadcast falls due
before the first is over; two peers are the least with which one buffer is empty and the
other is not.  In the virtual plug-ins two applications reach the threshold together, or
one of them goes out by the timer.  Three proxies are the least that can wait in a circle.
In SFQD3 a request of 5 bytes puts its application ahead of its share by more than the limit of 2,
and the answers of the other one bring it back.  In 2LSFQD three requests let one wait for
credits, one wait for the threshold and one be at the server; with three connections
they may belong to one client or to several, and the connections are symmetric.
A pool of capacity 4 holds one pair and the listening socket, grows with the second
pair (between its two entries, at an odd capacity before the first), passes its old capacity again after
shrinking, and with four clients its nine entries pass twice the capacity, and a pair is moved
that has been moved before.  A heap of seven keys holds trees of three degrees, so that
the union meets the case of three trees of one degree.

*Fairness.*  `SFQD` and `SFQDFull` assume weak fairness of each completion: the server
answers what it was given; nothing is assumed of arrivals.  `DSFQ` assumes weak fairness of
the coordinator (`Launch`), of the other steps of the two threads (`OtherBroadcast`) and of `Send` to each
peer: the threads are scheduled and the peers read their sockets; nothing is assumed
of clients, server and receiver.  `Rendezvous` assumes weak fairness of each proxy's
steps: every proxy is started at some time and its two threads run.  `Proxy` assumes
weak fairness of one disjunction: while some socket can be served, `poll` returns and
the loop serves some socket.  Which one is left open, so no property depends on
the order in which the pool is scanned.  This suffices for `Answered` because the number
of scheduled requests is bounded, and every handler but a new request takes the system
nearer to the end of the requests it has; the run leaves out unscheduled requests, which
are not bounded.  In `proxy_live` only one tag is used so that the graph of the
temporal check stays small; interleaving of tags is the subject of `proxy`.

What some of the properties say beyond their names:

* `HeadsNearVirtualTime`: the oldest waiting item of every application starts at or after
  the virtual time and within one of the application's own requests of it.  Neither
  half holds if the start tag leaves out the virtual time, or the last finish tag.
* `OvertakingBounded`: a waiting request is overtaken by another application with no more
  bytes than the weighted equal of the backlog it found, plus one request of
  each side.  The factor 2 is the loss of the integer division in `get_finish_tag`
  (an item that costs 1 may be up to 2 units long, less one byte).
* `SchedulerMatchesLists`: the plug-in's view (what waits, what is served) and the loop's
  (what is locked, what is at the server) are the same set, request by request, while
  nobody disconnects; afterwards the loop's is contained in the plug-in's.
* `TagForgotten`: a tag is in both lists from its request to the end of its answer, and in
  neither outside.  Both directions matter: `find_request` by tag decides whether a
  message is a new request, data or an answer.
* `BytesReportedOnce`, `BytesChargedOnce`: a byte asked of this proxy is, for every peer, in exactly one of three
  places; a byte a peer reports is charged to one request, in the buffer of the receiver,
  or in `dsfq_delay_values`.  They relate what three threads do under two mutexes.
* `NoStrandedBroadcast`, `EveryPeerTold`: no thread sleeps on a flag that is set, no buffer is refilled while it is
  being sent, and a reached threshold is reported in the end, whatever arrives meanwhile.
* `Announcements`: each application is announced to each peer exactly once and each peer's announcement
  counts once, although the timer sets its flag without a mutex; no broadcast is empty; with
  the threshold of vDSFQ2 none waits for the timer.
* `ConnectionInOrder`: of one connection and one size class; of one application on two connections it is false,
  since the list goes by descriptors (`full_order`).
* `PoolSound`: with the memory enough up to twice the capacity (`MemoryEnough`), however often the pool shrinks and grows;
  past that it is not, and the entries are related to each other only while it is.
* `ClassesSound`: with completions counted in the other class the two depths together are still exact
  and every request keeps its item.  Each depth by itself is exact only while the
  classes agree; `DepthsBounded` (section 4) bounds it in any case.
* `OnlyThrottled`: after the `DIFF_CHANGE` calls and the completion nothing that could go is left behind.
* `TwoLevels`: whenever the mutex is free, neither level holds back what it could let go
  (`NothingHeldBack`), and if each connection has one request at a time the count of requests at the
  server is exact and no queued item is freed (`LetGoCounted`).
* `HelpersSound`: the heap keeps the shape of a binomial heap and finds the first key; the sort is stable; a
  share is never smaller than the bytes the server has to answer, and equal to them
  outside the exceptions the definition names; a client inside a range gets its
  application; the time window always finds a threshold in range.
* `NoFault` and the equality in `SchedulerMatchesLists` are stated while no client has disconnected, because of
  the disagreement that `proxy_seats` shows.

## 4. What is proved

`SFQD_proofs` proves, for every set of applications, every weight, depth, request size and
`REDUCER` allowed by `SFQDAssumption` (all positive integers, sizes at most `MaxSize`):

| theorem | states |
|---|---|
| `Typing` | `Spec => []TypeOK` |
| `SlotAccounting` | `Spec => []SlotsExact` |
| `NoIdleSlot` | `Spec => []WorkConserving` |
| `OwnItemAlways` | `Spec => []OwnItem` |
| `SortSafe` | `Spec => []EmptyListNeverSorted` |
| `VirtualTimeNeverBack` | `Spec => VirtualTimeMonotone` |
| `BackloggedTogether` | `Spec => []HeadsNearVirtualTime` |
| `Refinement` | `Spec => KeepsPromise` |
| `OvertakenByAShare` | `ServiceSpec => []OvertakingBounded`, of `SFQDService` |

*Argument.*  The first five follow from the inductive invariant `Inv`.  `OwnItem` is not
inductive alone: `EnqueueDispatch` binds the head of the list, and the head is the
new item only because a slot is free, so the list was empty (`WorkConserving`).
`SlotsExact` needs that a queued item's id is in use nowhere else (`Ids`).
`VirtualTimeMonotone` needs that no queued item starts before the virtual time
(`Tags`).  `HeadsNearVirtualTime` needs more, `FairInv`: the items of one application form a
chain, each starting where an earlier one ends, with its last end at the last
finish tag (`Chain`); and an application with nothing queued has its finish tag within one
request of the virtual time (`Near`).  When an item leaves, its successor
starts at its end, one request further than the new virtual time.  For the
refinement, the head of the list is the oldest item of its application
(`HeadIsOldest`, from `Chain` and `TagCostPositive`), and mapping requests to their ids and
applications keeps their number (`ServingCount`).

`OvertakenByAShare` says how many bytes of another application can go ahead of a waiting request.  The
invariant (`Waits`) has for every waiting item `x` and every other application `c` two tags `b` and `p` (`Between`):
`b` is the virtual time at which `x` came, and `p` is where the items of `c` that have been released since have taken its
tags, not beyond what `c` may get next.  The bytes are at most those that `c` can be charged for `p - b`
(`BytesFor`); `x` starts at most its application's backlog and one request after `b`; and `p` is at most one request of `c` after the start of `x`,
since the head of the list starts first.  `Spans` gives the first bound: the last finish tag of an application is the
start of its oldest item plus the cost of its queue.  That cost is a sum over a finite set; what the proof needs of such
sums (they grow by one term at a time) is shown by induction over the size of the set.

### The other plug-ins

| module | theorems | for all values of the constants with |
|---|---|---|
| `SFQDFull_proofs` | `SlotsExact`, `SmallExact`, `OwnItemAlways`, `ConnectionOrder`, `NeverStalls`, `Typing` | `Balanced`: hard blocking on, or large blocking off; `SmallExact` needs `Factor > 1`, `NeverStalls` needs `Factor <= Depth` |
| `Plugins_proofs`, SFQD3 | `NothingElseDelays`, `DepthsKept`, `Typing3` | finitely many applications, positive weights, any depths and `MaxDiff` |
| `Plugins_proofs`, SFQD2 | `ClassesAlwaysSound`, `DepthsBounded`, `Typing2` | costs and limits natural numbers, any kinds of requests |
| `Plugins_proofs`, 2LSFQD | `TwoLevelsAgree` | as `TwoLSFQD_proofs` |
| `Plugins_proofs`, all three | `AllTyped` | all of these |
| `DSFQ_proofs` | `ReportedOnce`, `ChargedOnce`, `NothingStranded`, `Refinement`, `Typing` | `DSFQAssumption` |
| `DSFQ_proofs`, all three | `AllTyped`, `AnnouncementsMade`, `AllKeepPromise` | `DSFQAssumption`, `VirtualAssumption` |
| `VDSFQ_proofs` | `ToldOnce`, `NewsOnly`, `CountedOnce`, `NeverLeftToTimer` | finitely many applications and peers, any positive threshold; `NeverLeftToTimer` with the threshold 1 of vDSFQ2 |
| `VDSFQ_proofs`, the queue | `Refinement`, `Typing` | in addition any depth, positive weights, any sizes |
| `TwoLSFQD_proofs` | `HeldBackInTime`, `CountedWhenLetGo`, `Typing` | any applications, credits and thresholds, if a request never needs more credits than a refill gives |

*SFQDFull.*  `Inv` is the run's invariants with the ids of items (`Ids`).  The two scans for the first item that fits are written apart in the code; `ScansAgree` shows that the
item the second one returns is the one the first one stopped at, since both go by an
order in which no two items are equal.  `ClassNotPassed` is why the requests of one connection and size stay in order whatever
their tags: an item that fits is not passed over for one of its size behind it, and the list has the items of a
connection in the order they came.  `GivenIsTakenBack` needs `Balanced`: otherwise a large request takes slots by
one option and gives them back by another, and `SlotsAccounted` is false.

*SFQD3.*  The invariant `Throttle` is `OnlyThrottled` with the types, the ids of items and the bound on every depth.
Of the parts the hardest is that nothing is left behind (`NoneLeftBehind`) after `Complete`, which releases any number of items
of several applications and then at most one more.  The loop of `DIFF_CHANGE` calls takes the first free slots of a
queue, or the whole queue (`FirstCount`: the ranks of the items in the heap are the numbers below their count), so that afterwards
no application but that of the completed request has both a free slot and a request that may go (`WokenFacts`), and that
one has a single slot, which the last call fills.  `TakesKeep` counts the requests that replace the completed one.  The
differences are integers because the sum of the weights is not zero (`SumOfType`, a fold over the applications).

*SFQD2.*  `SlotsTogether` is inductive only with the bound on both depths: a class that has lost a
slot to the other one may count below zero and never above its limit
(`Bounded`).  Completions by class are counted by adding or removing one element of the set of released
requests of a class (`InClass`).

*DSFQ.*  `Inv` has a part per mutex: `QueueInv` (as for SFQD, under the queue mutex), `CountInv` (counts,
flags and buffers, under the broadcast mutex) and `ReceiveInv` (delays and reports).  No action
disturbs more than the parts whose mutex it takes, and each part is shown to depend
on its own variables only.  `NothingStranded` rests on `ready = (ioCounter >= Threshold)`: the flag is a function of the counter
although one thread raises it and another one clears it.

*VDSFQ.*  `CountInv` and `ReceiveInv` as for DSFQ.  `CountInv` adds `LeftMeansNews`: after the coordinator has cleared
`vdsfq_left2`, the flag is set again only by a new application; therefore the timer
never causes an empty broadcast.  `QueueInv` adds that the list is in order (`Ascending`) in every state, although an item that is
let go at once is appended to it unsorted: a free slot means that the list is empty.  That sorting
after an append gives the same items in order (`SortedFacts`) needs no induction: the new item goes before the
first one that starts later, and that place exists (`PlaceForItem`).  `SameNext` and `SameNext2` show that the instances which the run
checks take the steps these theorems are about, `PartsInv` has the invariant of the part that is the subject.

*2LSFQD.*  At the free mutex the properties are plain; the work is to say what is true while calls are
unfinished.  `Spent` and `Served` say of every application with credits, and of a queue with
room at the server, that a call on the stack will still see to it.  For `CountedWhenLetGo`, `Answers` says that what an
unfinished call is going to store about its item is still true when it does: nothing above
that call on the stack sends an item that it has found unsent.  `Typing` needs that the ids on the lists and in unfinished
calls have been given out (`InIds`).  `SameSpec` shows that the instance which the run checks is the one these theorems are about.

### The socket pool, the helpers and the message loop

`Containers_proofs` proves `PoolStaysWhole` (`Spec => []PoolSound`) and `Typing` for every capacity of at least 2 and any number of clients.
Both hold for memory that is zeroed and for memory that is not, and for more clients than the memory is enough for:
`PoolSound` promises memory up to twice the capacity only, `Typing` that there is never more.
The invariant has a layer for each kind of damage.  `Types` always holds and gives `MemoryEnough`: while the memory has
its first size, the entries in use are within it.  `Paired` holds until a server closes first or the memory is exceeded, and
adds what makes moving a pair safe: clients have odd indices and the sockets to the server even ones, none with
a number still to come (`Numbers`).  `Apart` holds as long as in addition no pair closes while the last one receives: the entries
above `pool_size`, from which a new pair inherits, are then not in the middle of a message (`Unused`).

The same module proves each part of `HelpersSound` for every input; the model checker evaluates them for those of the run's bounds:

| theorem | states |
|---|---|
| `ShareAlwaysSound` | `ShareSound(r)` for every strip size, number of servers, offset, length and file size |
| `RangeAlwaysSound` | `RangeSound(loc)` for all octets, every range whose ends are in order and every single address |
| `WindowAlwaysSound` | `WindowSound(w, classes)` for all counts, times and any number of applications, with a positive deadline and infinite threshold |
| `SortAlwaysSound` | `SortedFrom(list, Sort(list))` for every list that is not empty and whose items are numbered in their order |
| `HeapAlwaysSound` | `H!Spec => []H!HeapSound` for any set of positive keys and any series of operations |
| `HelpersAlwaysSound` | `MCSpec => []HelpersSound`: all of them together, for every value of the constants |
| `PoolBesideOthers` | `MCSpec => []PoolSound`: the run's model implements the specification of the pool |

The bytes of a server, in the order of the file, are its own bytes from 0 on (`BelowCounts`, `PlaceInFile`); so what a request asks
of it is what lies between the numbers of its bytes before the offset and before the end (`MineCounted`).  `get_my_share`
calculates that difference exactly if the request leaves its first stripe (`AcrossExact`), and not less within one (`WithinEnough`).
For the window, `Less` is a total order of the ratios that are numbers, though one number has many ratios (`LessOrders`), so there is a
least among those asked for (`LeastRatio`).  `Measured`, which `WindowSound` assumes of its classes, is needed: 0 / 0 satisfies no comparison.

*The loops.*  The sort and the heap are loops over lists of any length, and nothing about them can be had by unfolding a definition.
`SetClosure` is the induction: a set with 0 and the successors of its elements has all natural numbers.  From it
follow that the function which a definition `after[n] == ...` chooses exists (`LoopExists`), and that what the first
round has and every round keeps, all rounds have (`LoopKeeps`).

*The sort.*  Both merge loops, of the sort and of the heap, decide between two lists by a condition `C`; `Mergeable`
says what `C` and an order `R` must have to do with each other, and `MergeByKeeps` that the merged list is in order then, with
nothing lost.  For the sort `R` is the order by tag and then by number (`Lex`).  After n passes the list consists of
runs in that order, the items of one run before those of the next where tags are equal (`Stable`), and there is one run only or
at least n runs fewer than items (`RunsAt`); so as many passes as items are enough.  The result has no item more than
the list because both have distinct items and the same ones (`SameLength`).

*The heap.*  `Trees(N, Rt, l)` is the shape: each node that is not a root is in one list, that of an earlier node, and the
i-th in a list of d has d - i.  It survives a link of two roots of one degree (`TreesLink`), a new root (`TreesAdd`) and the removal of a
root whose list is promoted (`TreesRemove`).  What the loop of `__heap_union` relies on is in `Levels`: degrees increase up to the tree it
looks at, from there on they do not decrease, and behind it no three are equal.  A tree before it may have its degree, but only
if the next one has it too and the one after that does not; then the link is certain, and the degree grows.  Without the test of the third
tree it would link where `LevelsLink` does not allow it; that is the mutant of the run.  At the last tree `Levels` says that all degrees increase (`LevelsDone`).  The first root is the first
of all nodes since no node is before all roots (`RootBefore`, a least counterexample).  `HeapInv` adds the cached node and the counter, and that the
nodes outside the heap have empty lists, on which `heap_insert` depends in the model.

`Proxy_proofs` proves for every set of connections, applications and tags, every depth, message size and
number of data messages, with disconnections allowed:

| theorem | states |
|---|---|
| `UsesInterface` | `Spec => Sched!Spec`: the loop calls the plug-in only as `Dispatcher` provides |
| `DepthKept` | never more than `Depth` requests released, and a request waits only at that limit |
| `NeverOvertakenByOwn` | what waits is younger than everything released of its application |
| `TypesKept` | `Spec => []TypeOK`, with `head <= tail <= size` for every buffer |
| `DepthReachesServer` | `Spec => []DepthAtServer` |
| `SchedulerAgrees` | `Spec => []SchedulerMatchesLists` |
| `MessagesStayWhole` | `Spec => []MessagesWhole` |
| `TagsStayInOrder` | `Spec => []TagInOrder` |
| `PointersStayValid` | `Spec => []PointersValid` |
| `TagsAreForgotten` | `Spec => []TagForgotten` |
| `NeverFaults` | `Spec => []NoFault` |

The first three hold without a condition, also when answers come in pieces.  `DepthKept` and `NeverOvertakenByOwn`
are proved of `Dispatcher` and carried over by the first: they hold of any plug-in that
keeps the promise, and `Refinement` (of `SFQD` and of `DSFQ`) shows which do.

The other eight, which are all the safety properties of the run `proxy`, assume `Scope`: answers are there in one
piece when they are peeked at, and no metadata request occurs that the scheduler has not accepted.  Without
either half they are false: the runs `proxy_split` and `proxy_meta` show it.

*Argument.*  The inductive invariant `IInv` says of every list (`Side`) what each message can be, seen from how
far the peers are with the call of its tag (`MsgOK`), that the ranks of a tag ascend (`Ranked`) and none that has been
begun is missing (`AllThere`), that the two pointers name states of the list (`Pointed`), and that a message which has
begun to leave has nothing unsent of its tag before it (`SentInOrder`).  A call is in one of the stages the protocol
allows (`CallOK`).  `AllThere` is what the code relies on without saying so: `find_request` by tag finds the
request itself because the request is never freed before its last answer has been sent, and the last answer is the
last message of its tag, so that `clean_up_request_state` frees nothing unsent.
`Booked` relates all lists to the scheduler: items are unique over connections, a locked state's item waits and an unlocked
one's is served until the call is over.  `DepthAtServer` follows by counting: the requests at the server inject into those
that are served (`HasSlot`, `IInvDepth`).

There is one lemma for each handler (`RequestStep`, `ClientFlowStep`, ..., `CloseStep`).  Those that receive share `Kept` (what the
step leaves alone) and either `QuietStep` (the scheduler is not called) or `CompletingStep` (it is told of a completion, and a
request of some connection is unlocked); `SendStep` distinguishes whether a message is out and whether it is the last
one of its tag.  What `Without` (the filter in `clean_up_request_state`) does to positions and their order is `WithoutTag`, by
induction over the positions kept.

The proof of `SendStep` found a fault of the model: the arms of the CASE in `Reached` overlapped for a last data message, so
that its value was not determined by the definition (TLC takes the first arm that applies, which was the one that is
meant).  They are now disjoint.

`MaxItems` and the other bounds of section 3 are part of the specifications the theorems are about,
but may be any natural number.

*Only model-checked:*

* `Rendezvous`, whose one property is that all proxies start;
* all liveness (`HeldIsReleased`, `Answered`, `EveryPeerTold`, `AllStart`), which is beyond the proof system's reach together
  with fairness and ENABLED.

## 5. Disagreements with the code's own comments

Five runs state something the repository says of itself and end in a counterexample.

* `full_shipped` (`NoStall`).  `weights.ini` gives SFQD_Full a depth of 8; the large factor is not set
  there and defaults to 10.  With hard blocking, the default, a request above the threshold
  asks for 10 of 8 slots: it waits at an idle server and no event releases it.
* `full_order` (`ReleasedByTag`).  `llist.c` calls the order of the list "ordered first by tag".  SFQD_Full uses the
  comparison written for SFQD's items, whose struct has one `int` less: what it compares is the client's descriptor.  In the
  trace a completion releases a large item of socket 5 before one of socket 7 with a smaller tag.
* `proxy_seats` (`SeatsFreed`).  `scheduler_main.h` notes that a disconnected socket's items should be removed,
  as otherwise they occupy the seats and block the I/O.  The close path does not
  tell the plug-in.
* `proxy_meta` (`NoFault`).  `message.c` notes that every scheduler should skip a completion of size -1.
  SFQD does not, and a metadata answer, which `check_response` reports also for schedulers
  that do not accept metadata, makes it dereference a NULL item.
* `proxy_split` (`TagForgotten`).  When an answer is only partly there, -3 goes to an inner variable
  `ret` and the caller's "did not receive enough data" branch is never reached.

The `proxy` and `proxy_live` runs take the complementary case: metadata accepted (or not used),
answers whole (`Whole = {TRUE}`), so that they show what else could go wrong.

Consequences that no comment denies, or that were seen with configurations of their own, are
listed among the hazards and left out of the properties by a condition named there:

* SFQD_Full: a large completion frees several slots but releases one item; with
  `hardblock=0`, `enablelargeblock=1` the depth leaks (outside `Balanced`).
* 2LSFQD: `twolsfqd_edf_enqueue` finds its answer by connection (`scheduler_2LSFQD.c:731`), so with two requests of one client
  in flight a request can be let go while its item waits (outside `~shared`).  A request longer than a
  full credit is never let go.  `timewindow_dispatched` is not reset (594, 1236).  A percentile of 0
  makes the division at 1260 an infinity or NaN, and a ratio below -1000 is not
  foreseen at 1272; `WindowSound` states what remains true.
* SFQD_Full: a large request is passed over by small ones as long as they arrive; the runs end the arrivals.
* SFQD2: a small request completed as a large one, as a write to several servers may be, leaves the small class at its limit
  with nothing at the server, and the next small request waits until a large one is reported as small (outside `~crossed`).
* Socket pool, each with its element of `disturbed`: if the server closes first in the middle of a message, the client of the next pair is removed
  (`proxy2.c:656`, `"server"`).  Nothing sets `current_receive_item` of a new entry, so a pair that closes in the middle of a
  message hands it to the next client at that index, and of a pair that is moved the old index keeps the message (`"message"`).
  `pool_capacity` never changes, so the memory is doubled only once, and past twice the capacity (10000 in `main`)
  entries are written behind it (`"memory"`), although `add_socket_to_pool` says that it "increases the pool size when
  necessary".
* Configuration: `check_edge` tests the upper edge twice by the same condition (`config.c:318`), and of a range written in exactly 15
  characters only the first address counts (`config.c:181`); `RangeSound` names both.
* Share: `get_my_share` is called without its last argument, and may answer too much for a request that ends
  in the middle of a strip; `ShareSound` names when.
* DSFQ: the rest of a report that arrived in part would be received at a byte offset added to a pointer to
  messages (`scheduler_DSFQ.c:873`).
* `performance.c:203` walks the pool in its own thread without a lock.

## 6. What is not modelled

* Byte sizes in `Proxy`: `got_size` counts data messages and a read is over when it has its share; that the
  share is right is the subject of `Share`.
* Partly arrived BMI headers and a server that closes: both end the process (`exit(-1)`).
* Reports between proxies that are sent or received in pieces: a report is 8 bytes per application
  and the sockets block.
* `config_tag` port rewriting, statistics, response-time history and cost models, logging and dumps: they steer nothing
  in the shipped configuration.
* `remove_socket`, `heap_decrease`, `heap_delete`, `heap_uncache_min`: no linked code calls them.
* The statistics behind 2LSFQD's window (averages, the 95th percentile): free inputs of `TimeWindow`.
* The weights' effect with more than two applications is covered by the proofs, not by TLC.
* The overflow of `int` tags.
* Reading the configuration file (`iniparser.c` and `dictionary.c` are third-party code); its results are the
  constants of the modules.
* The components whose status in `PROJECT.json` is `not_modelled`, with the reason given there.  `proxy2.i.c`,
  `scheduler_IEDF.c` and `scheduler_DSFQ_Full.c` are not linked into the program; benchmarks and scripts are not part of it.

## 7. Plan

What would come next:

1. Reports between proxies in pieces: the resume offsets of sender and receiver as state of
   `Broadcast`, with the two sides of one connection composed.
2. Tags modulo 2^32, with the order of the queue where they wrap.
3. What three or more proxies of DSFQ promise together: that the delays of all bring the shares of an application
   over all servers near its weight.
