---------------------------- MODULE MCSFQDFull ----------------------------
(* Model values for SFQDFull: two applications of different weight, the    *)
(* first with a connection on either side of the second's, a metadata      *)
(* request and a write above the threshold.                                *)
EXTENDS SFQDFull, TLC

CONSTANTS a, b

MCApps == {a, b}
MCWeight == (a :> 1) @@ (b :> 2)
MCSocks == {5, 7, 9}
MCAppOf == (5 :> a) @@ (7 :> b) @@ (9 :> a)
MCLengths == {10240, 70000}
=============================================================================
