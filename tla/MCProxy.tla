------------------------------ MODULE MCProxy ------------------------------
(* Model values for Proxy: two connections of two applications, two tags.  *)
EXTENDS Proxy, TLC

CONSTANTS c1, c2, a1, a2, t1, t2

MCConns == {c1, c2}
MCApps == {a1, a2}
MCAppOf == (c1 :> a1) @@ (c2 :> a2)
MCTags == {t1, t2}

(* The connections, each with its application, and the tags can be swapped. *)
MCSymmetry ==
  {p @@ q : p \in {(c1 :> c1) @@ (c2 :> c2) @@ (a1 :> a1) @@ (a2 :> a2),
                   (c1 :> c2) @@ (c2 :> c1) @@ (a1 :> a2) @@ (a2 :> a1)},
            q \in Permutations(MCTags)}
=============================================================================
