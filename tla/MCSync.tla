------------------------------- MODULE MCSync --------------------------------
(***************************************************************************)
(* TLC instances of StripeSync.                                            *)
(***************************************************************************)
EXTENDS StripeSync, TLC

CONSTANTS h1, h2

TwoHandlers == {h1, h2}
MCLiveStatuses == {"trialing", "active"}

Symmetry == Permutations(TwoHandlers)

=============================================================================
