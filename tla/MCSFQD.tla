------------------------------ MODULE MCSFQD ------------------------------
(* Model values for SFQD with the bytes that SFQDService follows: two      *)
(* applications of different weight, request sizes below and above weight  *)
(* * REDUCER for both.                                                     *)
EXTENDS SFQDService, TLC

CONSTANTS a, b

MCApps == {a, b}
MCWeight == (a :> 1) @@ (b :> 2)
MCSizes == {1000, 6000}

(* Fairness, as for SFQD itself, is that of the completions. *)
MCSpec == ServiceSpec /\ Fairness
=============================================================================
