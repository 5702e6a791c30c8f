----------------------------- MODULE MCCheckout ------------------------------
(***************************************************************************)
(* TLC instances of Checkout.                                              *)
(***************************************************************************)
EXTENDS Checkout, TLC

CONSTANTS k1, k2, r1, r2, r3

TwoKeys == {k1, k2}

\* The retry of r2 may overlap the request of r1.
MCRequests == {r1, r2, r3}
MCKeyOf == (r1 :> k1) @@ (r2 :> k1) @@ (r3 :> k2)

=============================================================================
