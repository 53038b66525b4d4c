------------------------------- MODULE Share -------------------------------
(***************************************************************************)
(* What part of a request falls to this server (get_my_share, utility.c).  *)
(* A file is cut into strips that go to the servers in turn; one strip     *)
(* from each server is a stripe.  A plug-in takes the answer for the       *)
(* number of bytes it will see, and gives the slot of the request back     *)
(* when it has seen exactly so many.                                       *)
(***************************************************************************)
EXTENDS Integers, FiniteSets

(* A request: strip size, number of servers, offset and length, the server *)
(* asked about, and the size of its part of the file.                      *)
Requests(strips, counts, span, sizes) ==
  {r \in [strip : strips, servers : counts, offset : 0 .. span, ask : 1 .. span,
          server : 0 .. 2, size : sizes] : r.server < r.servers}

Stripe(r)  == r.strip * r.servers
Skipped(r) == r.offset % Stripe(r)   \* left_over_first
Shift(r)   == Skipped(r) % r.strip   \* small_first_left_over
Passed(r)  == r.offset \div Stripe(r)  \* offset_nr_whole_strip

Smaller(m, n) == IF m < n THEN m ELSE n
Larger(m, n) == IF m > n THEN m ELSE n

(* my_offset: where the server's part is taken to begin in its own file. *)
MyOffset(r) ==
  Passed(r) * r.strip + (IF Skipped(r) <= r.server * r.strip THEN 0 ELSE Shift(r))

WithinStripe(r) == r.ask + r.offset <= (Passed(r) + 1) * Stripe(r)

(* The exits called "failure" in the comments of the code. *)
Fails(r) ==
  /\ WithinStripe(r)
  /\ \/ Skipped(r) > (r.server + 1) * r.strip
     \/ (Shift(r) + r.ask) \div r.strip + 1 = 1 /\ Shift(r) + r.ask > r.strip

(* The case of one stripe; server is counted from the one with the offset. *)
ShareWithin(r) ==
  LET server == r.server - Skipped(r) \div r.strip
      total  == Shift(r) + r.ask
  IN  IF total \div r.strip + 1 = 1 THEN r.ask
      ELSE IF total >= server * r.strip
           THEN IF server = 0 THEN r.strip - Shift(r) ELSE r.strip
           ELSE total % r.strip

(* How far the first left bytes of a stripe reach into the server's strip. *)
Reach(r, left) ==
  Larger(0, Smaller(left - r.server * r.strip, r.strip))

(* The case of several stripes: whole ones, the rest of the first and the  *)
(* beginning of the last.                                                  *)
ShareAcross(r) ==
  LET rest == r.ask - (IF Skipped(r) > 0 THEN Stripe(r) - Skipped(r) ELSE 0)
  IN  (rest \div Stripe(r)) * r.strip + (IF Skipped(r) > 0 THEN r.strip ELSE 0)
      + Reach(r, rest % Stripe(r)) - Reach(r, Skipped(r))

(* get_my_share *)
MyShare(r) ==
  Smaller(IF WithinStripe(r) THEN ShareWithin(r) ELSE ShareAcross(r),
          Larger(r.size - MyOffset(r), 0))

-----------------------------------------------------------------------------
(* Correctness *)

ServerOf(r, b) == (b \div r.strip) % r.servers
LocalByte(r, b) == (b \div Stripe(r)) * r.strip + (b % r.strip)

(* The bytes of the request that the server has. *)
Mine(r) == {b \in r.offset .. r.offset + r.ask - 1 :
              ServerOf(r, b) = r.server /\ LocalByte(r, b) < r.size}

Asked(r) == \E b \in r.offset .. r.offset + r.ask - 1 : ServerOf(r, b) = r.server

(* The server has everything that is asked of it. *)
NoEnd(r) == \A b \in r.offset .. r.offset + r.ask - 1 :
              ServerOf(r, b) = r.server => LocalByte(r, b) < r.size

LastByte(r) == r.offset + r.ask - 1

(* For a server that is asked at all the code does not give up, and the    *)
(* answer is never too small: a request is not completed while bytes are   *)
(* on their way.  It is exact, unless the file ends or the request ends in *)
(* the middle of this server's strip without leaving the stripe; then the  *)
(* answer may be too large, and the slot of the request is never free      *)
(* again.                                                                  *)
ShareSound(r) ==
  Asked(r) =>
    /\ ~Fails(r)
    /\ MyShare(r) >= Cardinality(Mine(r))
    /\ (NoEnd(r) /\ (WithinStripe(r) => ServerOf(r, LastByte(r)) # r.server
                                        \/ (LastByte(r) + 1) % r.strip = 0
                                        \/ r.server = Skipped(r) \div r.strip))
         => MyShare(r) = Cardinality(Mine(r))

=============================================================================
