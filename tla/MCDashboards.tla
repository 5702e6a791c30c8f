---------------------------- MODULE MCDashboards -----------------------------
(***************************************************************************)
(* Two dashboards under a limit of one or none, two jobs and two requests: *)
(* two creations race for the last place, and a materialization races      *)
(* another one, a deletion, a new job, or changes that take the mapping    *)
(* away and back again.  The mapping is the attribute that changes: one    *)
(* title is enough for that.                                               *)
(***************************************************************************)
EXTENDS Dashboards, TLC

CONSTANTS d1, d2, t1, j1, j2, r1, r2

MCBoards == {d1, d2}
MCTitles == {t1}
MCJobs == {j1, j2}
MCRequests == {r1, r2}
MCLimits == {0, 1}

Symmetry == Permutations(MCJobs) \cup Permutations(MCRequests)
=============================================================================
