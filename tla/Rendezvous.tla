----------------------------- MODULE Rendezvous -----------------------------
(***************************************************************************)
(* How the proxies of DSFQ, vDSFQ and vDSFQ2 find each other when they     *)
(* start (dsfq_init, dsfq_proxy_accept_work and their copies).  A proxy    *)
(* listens, starts a thread that accepts one connection per other proxy,   *)
(* connects to the others one after the other, trying each again until it  *)
(* answers, and then waits for the accepting thread.  No proxy that has    *)
(* started stops.                                                          *)
(***************************************************************************)
EXTENDS Integers, FiniteSets, Sequences

CONSTANT
  Names  \* the proxies in the order of the file system configuration

Proxies == {Names[i] : i \in DOMAIN Names}

(* other_server_names: dsfq_parse_server_config leaves its own name out. *)
Others(p) == SelectSeq(Names, LAMBDA q : q # p)

VARIABLES
  main,      \* [Proxies -> where dsfq_init is]
  acceptor,  \* [Proxies -> where dsfq_proxy_accept_work is]
  connected, \* [Proxies -> how many of the others it has connected to]
  backlog,   \* [Proxies -> proxies that have connected and are not accepted]
  accepted   \* [Proxies -> proxies in receive_sockets]

vars == <<main, acceptor, connected, backlog, accepted>>

Init ==
  /\ main = [p \in Proxies |-> "down"]
  /\ acceptor = [p \in Proxies |-> "none"]
  /\ connected = [p \in Proxies |-> 0]
  /\ backlog = [p \in Proxies |-> {}]
  /\ accepted = [p \in Proxies |-> {}]

(* accept_ready *)
Ready(p) == acceptor[p] = "done"

-----------------------------------------------------------------------------

(* The socket is bound and listens; the accepting thread is created. *)
Listen(p) ==
  /\ main[p] = "down"
  /\ main' = [main EXCEPT ![p] = "connecting"]
  /\ acceptor' = [acceptor EXCEPT ![p] = "created"]
  /\ UNCHANGED <<connected, backlog, accepted>>

(* The next of the others answers.  Until it does, proxy_retry changes     *)
(* nothing.                                                                *)
Connect(p) ==
  LET q == Others(p)[connected[p] + 1]
  IN  /\ main[p] = "connecting" /\ connected[p] < Len(Others(p))
      /\ main[q] # "down"
      /\ connected' = [connected EXCEPT ![p] = @ + 1]
      /\ backlog' = [backlog EXCEPT ![q] = @ \cup {p}]
      /\ UNCHANGED <<main, acceptor, accepted>>

(* All connections are made: dsfq_init takes the mutex, unless the         *)
(* accepting thread holds it, and looks at accept_ready.                   *)
Await(p) ==
  /\ \/ main[p] = "connecting" /\ connected[p] = Len(Others(p))
     \/ main[p] = "woken"
  /\ acceptor[p] # "accepting"
  /\ main' = [main EXCEPT ![p] = IF Ready(p) THEN "running" ELSE "asleep"]
  /\ UNCHANGED <<acceptor, connected, backlog, accepted>>

(* The thread takes the mutex and keeps it. *)
StartAccepting(p) ==
  /\ acceptor[p] = "created"
  /\ acceptor' = [acceptor EXCEPT ![p] = "accepting"]
  /\ UNCHANGED <<main, connected, backlog, accepted>>

Accept(p) ==
  /\ acceptor[p] = "accepting"
  /\ \E q \in backlog[p] :
       /\ backlog' = [backlog EXCEPT ![p] = @ \ {q}]
       /\ accepted' = [accepted EXCEPT ![p] = @ \cup {q}]
  /\ UNCHANGED <<main, acceptor, connected>>

(* dsfq_init is not woken. *)
StopAcceptingWrong(p) ==
  /\ acceptor[p] = "accepting"
  /\ Cardinality(accepted[p]) = Len(Others(p))
  /\ acceptor' = [acceptor EXCEPT ![p] = "done"]
  /\ UNCHANGED <<main, connected, backlog, accepted>>

(* As many have been accepted as there are others: accept_ready = 1 and a  *)
(* signal.                                                                 *)
StopAccepting(p) ==
  /\ acceptor[p] = "accepting"
  /\ Cardinality(accepted[p]) = Len(Others(p))
  /\ acceptor' = [acceptor EXCEPT ![p] = "done"]
  /\ main' = [main EXCEPT ![p] = IF @ = "asleep" THEN "woken" ELSE @]
  /\ UNCHANGED <<connected, backlog, accepted>>

Step(p) ==
  \/ Listen(p) \/ Connect(p) \/ Await(p)
  \/ StartAccepting(p) \/ Accept(p) \/ StopAccepting(p)

Next == \E p \in Proxies : Step(p)

(* Every proxy is started, and its two threads run. *)
Fairness == \A p \in Proxies : WF_vars(Step(p))

Spec == Init /\ [][Next]_vars

-----------------------------------------------------------------------------
(* Correctness *)

(* Whatever the order in which they are started, all proxies come up,      *)
(* every one with a socket from each of the others: the blocking retries   *)
(* do not make a circle, and no one sleeps through its signal.             *)
AllWiredUp ==
  \A p \in Proxies :
    /\ main[p] = "running"
    /\ accepted[p] = Proxies \ {p}
    /\ backlog[p] = {}

=============================================================================
