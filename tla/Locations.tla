------------------------------ MODULE Locations ------------------------------
(***************************************************************************)
(* Which application a client belongs to (config.c).  An application has a *)
(* list of locations, each an address or a range of addresses written with *)
(* a dash, and a client belongs to the first application with a location   *)
(* that its address is in.  An address is a sequence of four octets; of    *)
(* its text only the length matters.                                       *)
(***************************************************************************)
EXTENDS Integers, Sequences

CONSTANT Octets  \* the octets that occur, a subset of 0 .. 255

Addresses == [1 .. 4 -> Octets]
Location(first, last) == [single |-> FALSE, first |-> first, last |-> last]
Single(address) == [single |-> TRUE, first |-> address, last |-> address]

Digits(octet) == IF octet < 10 THEN 1 ELSE IF octet < 100 THEN 2 ELSE 3
TextLength(a) == Digits(a[1]) + Digits(a[2]) + Digits(a[3]) + Digits(a[4]) + 3

(* split_into_ranges takes a text of 16 characters for a range.  Of a      *)
(* shorter one set_IP_numbers reads the first address.                     *)
IsRange(loc) == ~loc.single /\ TextLength(loc.first) + 1 + TextLength(loc.last) >= 16

(* check_edge from octet i on with TOP: the edge of the range against a    *)
(* client's address that has met it so far; an edge that is equal is in.   *)
EdgeTop(i, edge, ip) ==
  \A j \in i .. 4 : (\A k \in i .. j - 1 : edge[k] = ip[k]) => edge[j] <= ip[j]

(* The same with BOTTOM: both conditions of the code are that the edge is  *)
(* above, and what does not meet them falls out of the loop with the same  *)
(* answer.                                                                 *)
EdgeBottom(i, edge, ip) == TRUE

(* The octet in which first and last differ first, 5 if they are equal. *)
RangeStart(loc) ==
  CHOOSE i \in 1 .. 5 :
    /\ i < 5 => loc.first[i] # loc.last[i]
    /\ \A j \in 1 .. i - 1 : loc.first[j] = loc.last[j]

(* in_range, where 0 is true. *)
InRange(ip, loc) ==
  LET i == RangeStart(loc)
  IN  IF ~IsRange(loc) THEN ip = loc.first
      ELSE /\ \A j \in 1 .. i - 1 : ip[j] = loc.first[j]
           /\ i < 5 =>
                /\ loc.first[i] <= ip[i] /\ ip[i] <= loc.last[i]
                /\ loc.first[i] = ip[i] => EdgeTop(i + 1, loc.first, ip)
                /\ loc.last[i] = ip[i] => EdgeBottom(i + 1, loc.last, ip)

(* ip_weight: the first of the applications, each a sequence of locations; *)
(* without one the proxy exits, 0 here.                                    *)
Application(ip, apps) ==
  LET Has(a) == \E j \in DOMAIN apps[a] : InRange(ip, apps[a][j])
  IN  IF \E a \in DOMAIN apps : Has(a)
      THEN CHOOSE a \in DOMAIN apps : Has(a) /\ \A b \in 1 .. a - 1 : ~Has(b)
      ELSE 0

-----------------------------------------------------------------------------
(* Correctness *)

Before(a, b) == \E i \in 1 .. 4 : a[i] < b[i] /\ \A j \in 1 .. i - 1 : a[j] = b[j]

(* The client's address and the last address of the range agree as far as  *)
(* the octet that decides.                                                 *)
OnUpperEdge(ip, loc) == \A j \in 1 .. RangeStart(loc) : j < 5 => ip[j] = loc.last[j]

(* Of two applications, one with a range and one with a client's address,  *)
(* the client belongs to the first exactly if its address is in the range. *)
(* There are two exceptions: of a range written in 15 characters only the  *)
(* first address counts, and an address above the range is taken for one   *)
(* inside if it agrees with the upper end up to the first octet in which   *)
(* the ends differ.                                                        *)
RangeSound(loc) ==
  \A ip \in Addresses :
    LET app  == Application(ip, << <<loc>>, <<Single(ip)>> >>)
        here == ~Before(ip, loc.first) /\ ~Before(loc.last, ip)
    IN  /\ app \in {1, 2}
        /\ IsRange(loc) /\ here => app = 1
        /\ app = 1 => here \/ (~Before(ip, loc.first) /\ OnUpperEdge(ip, loc))
        /\ ~IsRange(loc) => (app = 1 <=> ip = loc.first)

=============================================================================
