------------------------------ MODULE MCLedger ------------------------------
(***************************************************************************)
(* TLC instance of AICreditLedger.                                         *)
(***************************************************************************)
EXTENDS AICreditLedger, TLC

CONSTANTS k1, k2, k3, p1, p2, a1, a2

MCKeys == {k1, k2, k3}
MCPeriods == {p1, p2}
MCAdjKeys == {a1, a2}
MCBaseLimits == {1, 2, NoLimit}
MCDeltas == {-1, 1}

Symmetry == Permutations(MCKeys) \cup Permutations(MCPeriods) \cup Permutations(MCAdjKeys)

=============================================================================
