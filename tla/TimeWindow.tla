------------------------------ MODULE TimeWindow ------------------------------
(***************************************************************************)
(* How 2LSFQD finds the threshold for the next time window                 *)
(* (twolsfqd_time_window): what module TwoLSFQD leaves open.  Each         *)
(* application compares how long its requests took with its deadline, and  *)
(* the expected load with what the server has done in the window, and asks *)
(* for a threshold; the least of them is taken.                            *)
(*                                                                         *)
(* The code calculates with floats.  Here a number is a ratio, and one     *)
(* with denominator 0 compares as the infinity, or the NaN, that the       *)
(* division yields in C.                                                   *)
(***************************************************************************)
EXTENDS Integers, Sequences

CONSTANTS
  Deadline,  \* iedf_deadlines[i] in milliseconds
  Infinite   \* twolsfqd_edf_infinite

Ratio(m, n) == [num |-> m, den |-> n]
Whole(n)    == Ratio(n, 1)
Less(p, q)  == p.num * q.den < q.num * p.den
Times(p, n) == Ratio(p.num * n, p.den)
Raised(p, q) == IF Less(p, q) THEN q ELSE p   \* if (p < q) p = q
Ceiling(p)  == -((-p.num) \div p.den)

(* What is counted in a window: the threshold, the longest queue of the    *)
(* server, the requests completed, those at the server, those due in the   *)
(* next window, and all that wait or have arrived.                         *)
Windows(limits, counts) ==
  {w \in [limit : limits, longest : counts, completed : counts,
          running : counts, soon : counts, queued : counts] : w.soon <= w.queued}

(* An application: the threshold it has asked for, the average time its    *)
(* requests waited and the 95th percentile of the response times.          *)
Classes(asked, waits, percentiles) ==
  [asked : asked, waiting : waits, percentile : percentiles]

LowerLength(w) == w.running + w.soon
UpperLength(w) == w.running + w.queued
Completed(w)   == IF w.completed = 0 THEN 1 ELSE w.completed
LowerBound(w)  == Ratio(LowerLength(w) * w.limit, Completed(w))
UpperBound(w)  == Ratio(UpperLength(w) * w.limit, Completed(w))

(* e_i: how far the response times may grow. *)
Headroom(c) ==
  LET slack  == Deadline - c.waiting
      first  == Ratio(slack, c.percentile)
      second == IF Less(Whole(1000), first) THEN Ratio(slack, Deadline) ELSE first
      third  == IF Less(second, Whole(-1000)) THEN Ratio(11, 10) ELSE second
  IN  Raised(third, Ratio(1, 1000))

Underloaded(c) == Less(c.asked, Whole(Infinite))

(* next_timewindow_RT *)
Target(w, c) ==
  Raised(Times(Headroom(c), IF Underloaded(c) THEN w.limit ELSE w.longest), Ratio(1, 100))

(* The cases the code numbers from 1 to 6, each without those before it. *)
Case1(w, c) == Underloaded(c) /\ Less(Target(w, c), LowerBound(w))
Case2(w, c) == Underloaded(c) /\ Less(UpperBound(w), Target(w, c))
Case3(w, c) == Underloaded(c) /\ (Less(Target(w, c), Whole(w.limit)) \/ w.longest >= w.limit)
Case4(w, c) == Underloaded(c) /\ Target(w, c).den # 0
Case5(w, c) ==
  ~Underloaded(c) /\ (10 * LowerLength(w) < 9 * Completed(w) \/ LowerLength(w) < 1)
Case6(w, c) == ~Underloaded(c) /\ 10 * UpperLength(w) >= 9 * Completed(w)

(* What the application asks for now; <<>> if the proxy exits. *)
Asks(w, c) ==
  IF Case1(w, c) THEN <<Whole(Infinite)>>
  ELSE IF Case2(w, c) THEN <<Raised(UpperBound(w), Ratio(1, 100))>>
  ELSE IF Case3(w, c) THEN <<Target(w, c)>>
  ELSE IF Case4(w, c) THEN <<c.asked>>
  ELSE IF Case5(w, c) THEN <<Raised(Target(w, c), Raised(LowerBound(w), Ratio(1, 100)))>>
  ELSE IF Case6(w, c) THEN <<Whole(Infinite)>>
  ELSE <<>>

(* overload: no application has found a threshold it can live with. *)
Overload(w, classes) ==
  \A i \in DOMAIN classes :
    \/ Case1(w, classes[i])
    \/ ~Underloaded(classes[i]) /\ ~Case5(w, classes[i])

(* timewindow_queue_threshold for the next window. *)
Threshold(w, classes) ==
  LET wanted == {Asks(w, classes[i])[1] : i \in DOMAIN classes} \cup {Whole(Infinite)}
  IN  Ceiling(CHOOSE p \in wanted : \A q \in wanted : ~Less(q, p))

-----------------------------------------------------------------------------
(* Correctness *)

(* 0 / 0: no response time, and the wait was as long as the deadline. *)
Measured(c) == c.percentile > 0 \/ c.waiting # Deadline

(* The requests took longer than the deadline allows, and not so much      *)
(* longer that the code takes the ratio for an error.                      *)
Late(c) ==
  /\ Deadline - c.waiting < c.percentile
  /\ Deadline - c.waiting >= -1000 * c.percentile

(* Unless an application has nothing but 0 / 0 to decide by: the code      *)
(* never exits with "cannot decide", the threshold is between 1 and the    *)
(* infinite one, only the infinite one means overload, and an application  *)
(* whose requests are late asks for less than the present threshold, if it *)
(* does not give up.                                                       *)
WindowSound(w, classes) ==
  (\A i \in DOMAIN classes : Measured(classes[i])) =>
    /\ \A i \in DOMAIN classes : Asks(w, classes[i]) # <<>>
    /\ Threshold(w, classes) \in 1 .. Infinite
    /\ Overload(w, classes) => Threshold(w, classes) = Infinite
    /\ \A i \in DOMAIN classes :
         Underloaded(classes[i]) /\ Late(classes[i]) /\ ~Case1(w, classes[i])
           => Less(Asks(w, classes[i])[1], Whole(w.limit))

=============================================================================
