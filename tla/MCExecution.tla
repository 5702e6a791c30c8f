---------------------------- MODULE MCExecution -----------------------------
(***************************************************************************)
(* TLC instances of AIExecution: two racing requests, the smallest number  *)
(* that a duplicate or a retry needs.                                      *)
(***************************************************************************)
EXTENDS AIExecution

CONSTANTS k1, r1, r2, p1, a1

OneKey == {k1}
NoKeys == {}
MCRequests == {r1, r2}
MCPeriods == {p1}
MCAdjKeys == {a1}
MCBaseLimits == {0, 1}
MCDeltas == {1}
MCProviderErrors == {"provider_temporary", "provider_blocked"}

=============================================================================
