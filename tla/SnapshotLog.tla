----------------------------- MODULE SnapshotLog -----------------------------
(***************************************************************************)
(* What the dashboards of one business promise: a limited number of them,  *)
(* and for each a log of numbered snapshots.  Every operation is atomic: a *)
(* snapshot is of the dashboard as it is when the snapshot is appended, of *)
(* exactly the reports its insights are mapped to, all of them processed,  *)
(* and never of what the snapshot before it already shows.                 *)
(***************************************************************************)
EXTENDS Naturals, FiniteSets

CONSTANTS Boards,      \* dashboards that may come to exist
          Titles,
          Jobs,        \* report processing jobs
          MaxVersion,  \* bound: snapshots of a dashboard
          NoInsight, NoSnapshot, NoLimit

VARIABLES rows,        \* a dashboard's title and mapping, or what it is instead
          log,         \* the snapshots of each dashboard by version
          ready,       \* jobs whose report is processed
          limit        \* dashboards the subscription allows

Versions == 1..MaxVersion

Mappings == {NoInsight} \cup ((SUBSET Jobs) \ {{}})

Content(row, sources) == [title |-> row.title, mapped |-> row.mapped, sources |-> sources]

Live == {d \in Boards : rows[d].state = "live"}

Absent(state) == [state |-> state, title |-> CHOOSE t \in Titles : TRUE, mapped |-> NoInsight]

Init ==
    /\ rows = [d \in Boards |-> Absent("none")]
    /\ log = [d \in Boards |-> [v \in Versions |-> NoSnapshot]]
    /\ ready = {}
    /\ limit \in Nat \cup {NoLimit}

Create(d) ==
    /\ rows[d].state = "none"
    /\ limit # NoLimit => Cardinality(Live) < limit
    /\ \E t \in Titles, m \in Mappings :
         rows' = [rows EXCEPT ![d] = [state |-> "live", title |-> t, mapped |-> m]]
    /\ UNCHANGED <<log, ready, limit>>

Change(d) ==
    /\ rows[d].state = "live"
    /\ \E t \in Titles, m \in Mappings :
         rows' = [rows EXCEPT ![d] = [state |-> "live", title |-> t, mapped |-> m]]
    /\ UNCHANGED <<log, ready, limit>>

Remove(d) ==
    /\ rows[d].state = "live"
    /\ rows' = [rows EXCEPT ![d] = Absent("deleted")]
    /\ log' = [log EXCEPT ![d] = [v \in Versions |-> NoSnapshot]]
    /\ UNCHANGED <<ready, limit>>

Materialize(d, v) ==
    /\ rows[d].state = "live"
    /\ log[d][v] = NoSnapshot
    /\ \E S \in (SUBSET ready) \ {{}} :
         /\ rows[d].mapped # NoInsight => S = rows[d].mapped
         /\ v > 1 => log[d][v - 1] \notin {NoSnapshot, Content(rows[d], S)}
         /\ log' = [log EXCEPT ![d][v] = Content(rows[d], S)]
    /\ UNCHANGED <<rows, ready, limit>>

Process(j) == /\ ready' = ready \cup {j}
              /\ UNCHANGED <<rows, log, limit>>

Resubscribe == /\ limit' \in Nat \cup {NoLimit}
               /\ UNCHANGED <<rows, log, ready>>

Next ==
    \/ \E d \in Boards : \/ Create(d) \/ Change(d) \/ Remove(d)
                         \/ \E v \in Versions : Materialize(d, v)
    \/ \E j \in Jobs : Process(j)
    \/ Resubscribe

Spec == Init /\ [][Next]_<<rows, log, ready, limit>>

=============================================================================
