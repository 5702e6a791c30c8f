---------------------------- MODULE MCProcessing -----------------------------
(***************************************************************************)
(* TLC instances of ReportProcessing.                                      *)
(***************************************************************************)
EXTENDS ReportProcessing

CONSTANTS j1, c1, c2, w1, w2

OneJob == {j1}
TwoCallers == {c1, c2}
TwoWorkers == {w1, w2}

=============================================================================
