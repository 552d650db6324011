------------------------------ MODULE MCVisits ------------------------------
(* One browser with two tabs, and two products that are shipped.           *)
EXTENDS Visits, TLC

CONSTANTS b1, t1, t2, p1, p2, o1, o2

MCOwner == (t1 :> b1) @@ (t2 :> b1)
MCOptionsOf == (p1 :> {o1}) @@ (p2 :> {o2})

\* The tabs are alike, and so are the products, each with its option.
Symmetry ==
  Permutations({t1, t2}) \cup
    {(p1 :> p2) @@ (p2 :> p1) @@ (o1 :> o2) @@ (o2 :> o1)}
=============================================================================
