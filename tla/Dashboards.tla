----------------------------- MODULE Dashboards ------------------------------
(***************************************************************************)
(* Dashboards of one business and their snapshots: the requests that       *)
(* create, change, delete and materialize dashboards and open the analysis *)
(* of a snapshot, interleaved where each of them waits for PostgreSQL or   *)
(* S3, over the rows they share.                                           *)
(*                                                                         *)
(* materialize holds no lock while it reads the processed reports: it      *)
(* keeps what it read of the dashboard, locks the row afterwards, and      *)
(* compares.  Only the subscription's row serialises creations.            *)
(***************************************************************************)
EXTENDS Naturals, FiniteSets

CONSTANTS Boards,      \* dashboards that may come to exist
          Titles,
          Jobs,        \* report processing jobs
          Requests,    \* concurrent API requests
          Limits,      \* values of limit_value, NoLimit among them or not
          MaxVersion,  \* bound: snapshots of a dashboard
          MaxRev,      \* bound: changes of a dashboard
          NoInsight,   \* insight_configuration is NULL
          NoSnapshot,
          NoLimit      \* limit_value is NULL

ASSUME DashboardsAssumption ==
    /\ IsFiniteSet(Boards) /\ Boards # {} /\ Titles # {} /\ Limits \subseteq Nat \cup {NoLimit}
    /\ MaxVersion \in Nat /\ MaxRev \in Nat
    /\ \A S \in SUBSET Jobs : NoInsight # S
    /\ NoLimit \notin Nat

VARIABLES rows,        \* the rows of dashboards
          snapshots,   \* the rows of dashboard_snapshots, by dashboard and version
          analyses,    \* conversations of purpose dashboard_analysis, by snapshot
          ready,       \* jobs that are completed
          sub,         \* what the current subscription grants
          req          \* API requests

vars == <<rows, snapshots, analyses, ready, sub, req>>

Versions == 1..MaxVersion

\* The jobs that the datasets of an insight configuration name.
Mappings == {NoInsight} \cup ((SUBSET Jobs) \ {{}})

\* rev stands for updated_at.
Row == [state : {"none", "live", "deleted"}, title : Titles, mapped : Mappings,
        rev : Nat]

\* A payload: the definition and what is aggregated from the sources.  A job's
\* artifacts are fixed once it is completed, so its identifier stands for them.
Payload == [title : Titles, mapped : Mappings, sources : SUBSET Jobs]

\* allowed: access is active and the entitlement for dashboards enabled.
Sub == [allowed : BOOLEAN, limit : Limits]

\* row is the Dashboard of the session as loaded, title and mapped the values
\* to write, version the latest snapshot seen under the lock.
Request == [pc      : {"idle", "create", "change", "read", "insert", "analyse"},
            board   : Boards,
            row     : Row,
            title   : Titles,
            mapped  : Mappings,
            sources : SUBSET Jobs,
            version : 0..MaxVersion]

\* Every stored value has its form; an insight configuration is absent or names
\* at least one job.
TypeOK ==
    /\ rows \in [Boards -> Row]
    /\ snapshots \in [Boards -> [Versions -> Payload \cup {NoSnapshot}]]
    /\ analyses \in [Boards -> [Versions -> Nat]]
    /\ ready \subseteq Jobs
    /\ sub \in Sub
    /\ req \in [Requests -> Request]

NoRow == [state |-> "none", title |-> CHOOSE t \in Titles : TRUE, mapped |-> NoInsight,
          rev |-> 0]

Idle == [pc |-> "idle", board |-> CHOOSE d \in Boards : TRUE, row |-> NoRow,
         title |-> NoRow.title, mapped |-> NoInsight, sources |-> {}, version |-> 0]

Init ==
    /\ rows = [d \in Boards |-> NoRow]
    /\ snapshots = [d \in Boards |-> [v \in Versions |-> NoSnapshot]]
    /\ analyses = [d \in Boards |-> [v \in Versions |-> 0]]
    /\ ready = {}
    /\ sub \in Sub
    /\ req = [r \in Requests |-> Idle]

-----------------------------------------------------------------------------
(***************************************************************************)
(* The surroundings.                                                       *)
(***************************************************************************)

Ends(r) == req' = [req EXCEPT ![r] = Idle]

\* A creation holds the lock on the subscription until it commits.
SubFree == \A r \in Requests : req[r].pc # "create"

\* A materialization holds the lock on the dashboard until it commits.
RowFree(d) == \A r \in Requests : req[r].pc = "insert" => req[r].board # d

\* The webhooks change the plan or the status of the subscription's row.
SyncSubscription ==
    /\ SubFree
    /\ sub' \in Sub
    /\ UNCHANGED <<rows, snapshots, analyses, ready, req>>

\* The period of the subscription ends, whoever holds its row.
Expire ==
    /\ sub.allowed
    /\ sub' = [sub EXCEPT !.allowed = FALSE]
    /\ UNCHANGED <<rows, snapshots, analyses, ready, req>>

Process(j) ==
    /\ j \notin ready
    /\ ready' = ready \cup {j}
    /\ UNCHANGED <<rows, snapshots, analyses, sub, req>>

\* S3 fails, an artifact is invalid, the database rolls back, or the process
\* dies: nothing has been written.
Fail(r) ==
    /\ req[r].pc # "idle"
    /\ Ends(r)
    /\ UNCHANGED <<rows, snapshots, analyses, ready, sub>>

-----------------------------------------------------------------------------
(***************************************************************************)
(* DashboardService.                                                       *)
(***************************************************************************)

Live == {d \in Boards : rows[d].state = "live"}

\* EntitlementService.require with the usage just counted.
Require == /\ sub.allowed
           /\ sub.limit # NoLimit => Cardinality(Live) < sub.limit

\* Faulty variant: the subscription is read without FOR UPDATE.
CreateUnlocked(r, d) ==
    /\ req[r].pc = "idle" /\ rows[d].state = "none"
    /\ Require
    /\ \E t \in Titles, m \in Mappings :
         req' = [req EXCEPT ![r] = [Idle EXCEPT !.pc = "create", !.board = d,
                                                   !.title = t, !.mapped = m]]
    /\ UNCHANGED <<rows, snapshots, analyses, ready, sub>>

\* create, up to the insertion; a refusal changes nothing.
Create(r, d) ==
    /\ req[r].pc = "idle" /\ rows[d].state = "none"
    /\ SubFree
    /\ Require
    /\ \E t \in Titles, m \in Mappings :
         req' = [req EXCEPT ![r] = [Idle EXCEPT !.pc = "create", !.board = d,
                                                   !.title = t, !.mapped = m]]
    /\ UNCHANGED <<rows, snapshots, analyses, ready, sub>>

CreateCommit(r) ==
    LET d == req[r].board IN
    /\ req[r].pc = "create"
    /\ rows' = [rows EXCEPT ![d] =
                  [state |-> "live", title |-> req[r].title, mapped |-> req[r].mapped,
                   rev |-> 0]]
    /\ Ends(r)
    /\ UNCHANGED <<snapshots, analyses, ready, sub>>

\* update, up to the flush: the row is loaded without a lock and the fields of
\* the payload set; a payload cannot take an insight configuration away.
Change(r, d) ==
    /\ req[r].pc = "idle" /\ rows[d].state = "live" /\ rows[d].rev < MaxRev
    /\ \E t \in Titles, m \in Mappings :
         /\ m = NoInsight => rows[d].mapped = NoInsight
         /\ req' = [req EXCEPT ![r] = [Idle EXCEPT !.pc = "change", !.board = d,
                                           !.row = rows[d], !.title = t, !.mapped = m]]
    /\ UNCHANGED <<rows, snapshots, analyses, ready, sub>>

\* Only the attributes that differ from the loaded ones are written.
Merged(old, loaded, value) == IF value = loaded THEN old ELSE value

\* The flush and the commit; the update of a row that is gone fails.
ChangeCommit(r) ==
    LET d == req[r].board
        loaded == req[r].row
        written == [state |-> "live",
                    title |-> Merged(rows[d].title, loaded.title, req[r].title),
                    mapped |-> Merged(rows[d].mapped, loaded.mapped, req[r].mapped),
                    rev |-> rows[d].rev + 1]
        nothing == req[r].title = loaded.title /\ req[r].mapped = loaded.mapped
    IN
    /\ req[r].pc = "change"
    /\ nothing \/ RowFree(d)
    /\ rows' = IF nothing \/ rows[d].state # "live" THEN rows
               ELSE [rows EXCEPT ![d] = written]
    /\ Ends(r)
    /\ UNCHANGED <<snapshots, analyses, ready, sub>>

\* delete: the foreign keys cascade to snapshots and their conversations.
Delete(d) ==
    /\ rows[d].state = "live" /\ RowFree(d)
    /\ rows' = [rows EXCEPT ![d] = [NoRow EXCEPT !.state = "deleted"]]
    /\ snapshots' = [snapshots EXCEPT ![d] = [v \in Versions |-> NoSnapshot]]
    /\ analyses' = [analyses EXCEPT ![d] = [v \in Versions |-> 0]]
    /\ UNCHANGED <<ready, sub, req>>

-----------------------------------------------------------------------------
(***************************************************************************)
(* DashboardSnapshotService.materialize.                                   *)
(***************************************************************************)

\* DashboardSnapshotSourceMismatchError otherwise.
Matches(mapped, sources) == mapped # NoInsight => mapped = sources

\* Up to the commit that closes the read transaction.
Capture(r, d, sources) ==
    /\ req[r].pc = "idle" /\ rows[d].state = "live"
    /\ sources # {} /\ sources \subseteq ready
    /\ Matches(rows[d].mapped, sources)
    /\ req' = [req EXCEPT ![r] = [Idle EXCEPT !.pc = "read", !.board = d,
                                                 !.row = rows[d], !.sources = sources]]
    /\ UNCHANGED <<rows, snapshots, analyses, ready, sub>>

\* The highest version of a dashboard that has a snapshot, 0 if none has.
IsLatest(d, v) ==
    /\ v \in Versions => snapshots[d][v] # NoSnapshot
    /\ \A w \in Versions : w > v => snapshots[d][w] = NoSnapshot

\* Faulty variant: the locked row is not compared with the captured one.
UnchangedAssumed(r) == rows[req[r].board].state = "live"

\* The locked row is still the captured one; otherwise the request ends with
\* DashboardSnapshotNotFoundError or DashboardSnapshotConflictError.
Unchanged(r) == rows[req[r].board] = req[r].row

\* The artifacts are read; the row is locked and compared; the jobs are locked
\* (they are completed for good); the latest snapshot is read.
Lock(r) ==
    LET d == req[r].board IN
    /\ req[r].pc = "read" /\ RowFree(d)
    /\ \/ /\ Unchanged(r)
          /\ \E v \in 0..MaxVersion :
               /\ IsLatest(d, v)
               /\ req' = [req EXCEPT ![r] = [@ EXCEPT !.pc = "insert", !.version = v]]
       \/ ~Unchanged(r) /\ Ends(r)
    /\ UNCHANGED <<rows, snapshots, analyses, ready, sub>>

\* build_dashboard_snapshot_payload, from what was captured.
Built(r) == [title |-> req[r].row.title, mapped |-> req[r].row.mapped,
             sources |-> req[r].sources]

\* The latest snapshot has the content hash of the payload.
Replayed(r) == req[r].version > 0 /\ snapshots[req[r].board][req[r].version] = Built(r)

\* version = latest.version + 1, or 1.
NextVersion(r) == req[r].version + 1

\* Replay, or insertion of the snapshot and its sources, and the commit.
Insert(r) ==
    LET d == req[r].board IN
    /\ req[r].pc = "insert"
    /\ \/ Replayed(r) /\ UNCHANGED snapshots
       \/ /\ ~Replayed(r) /\ NextVersion(r) \in Versions
          /\ snapshots' = [snapshots EXCEPT ![d][NextVersion(r)] = Built(r)]
    /\ Ends(r)
    /\ UNCHANGED <<rows, analyses, ready, sub>>

-----------------------------------------------------------------------------
(***************************************************************************)
(* AIConversationService.get_or_create_dashboard_analysis.                 *)
(***************************************************************************)

\* The snapshot exists and shows insights, and no conversation is found.
Analyse(r, d, v) ==
    /\ req[r].pc = "idle"
    /\ snapshots[d][v] # NoSnapshot /\ snapshots[d][v].mapped # NoInsight
    /\ analyses[d][v] = 0
    /\ req' = [req EXCEPT ![r] = [Idle EXCEPT !.pc = "analyse", !.board = d,
                                                 !.version = v]]
    /\ UNCHANGED <<rows, snapshots, analyses, ready, sub>>

\* Faulty variant: no unique index.
DuplicateNever(d, v) == snapshots[d][v] = NoSnapshot

\* The insertion violates ux_ai_conversations_dashboard_analysis, or the foreign
\* key of a snapshot that is gone: the conversation of the winner is adopted, or
\* the request fails.
Duplicate(d, v) == analyses[d][v] > 0 \/ snapshots[d][v] = NoSnapshot

AnalyseCommit(r) ==
    LET d == req[r].board
        v == req[r].version IN
    /\ req[r].pc = "analyse"
    /\ analyses' = IF Duplicate(d, v) THEN analyses
                   ELSE [analyses EXCEPT ![d][v] = @ + 1]
    /\ Ends(r)
    /\ UNCHANGED <<rows, snapshots, ready, sub>>

Next ==
    \/ SyncSubscription \/ Expire
    \/ \E j \in Jobs : Process(j)
    \/ \E d \in Boards : Delete(d)
    \/ \E r \in Requests :
         \/ \E d \in Boards : \/ Create(r, d) \/ Change(r, d)
                              \/ \E S \in SUBSET Jobs : Capture(r, d, S)
                              \/ \E v \in Versions : Analyse(r, d, v)
         \/ CreateCommit(r) \/ ChangeCommit(r) \/ Lock(r) \/ Insert(r)
         \/ AnalyseCommit(r) \/ Fail(r)

Spec == Init /\ [][Next]_vars

-----------------------------------------------------------------------------
(***************************************************************************)
(* Properties.                                                             *)
(***************************************************************************)

\* The abstract specification sees neither requests nor updated_at.
Log == INSTANCE SnapshotLog WITH
         rows <- [d \in Boards |-> [state |-> rows[d].state, title |-> rows[d].title,
                                    mapped |-> rows[d].mapped]],
         log <- snapshots, limit <- sub.limit

\* Seen from outside every operation is atomic: a snapshot is of the dashboard
\* as it is when it is committed, although the dashboard was read before the
\* artifacts and without a lock.
ImplementsLog == Log!Spec

\* "preventing concurrent requests from exceeding a finite plan cap": a
\* dashboard is inserted only below the limit that holds at that moment.
LimitRespected ==
    [][\A d \in Boards : rows[d].state = "none" /\ rows'[d].state = "live" =>
          (sub.limit # NoLimit => Cardinality(Live) < sub.limit)]_vars

\* The versions of a dashboard are 1, 2, 3 ... without a gap, and a dashboard
\* that is gone has none.
VersionsDense ==
    \A d \in Boards, v \in Versions : snapshots[d][v] # NoSnapshot =>
       /\ rows[d].state = "live"
       /\ v > 1 => snapshots[d][v - 1] # NoSnapshot

\* A repeated request is replayed: no two consecutive snapshots show the same.
NoEcho ==
    \A d \in Boards, v \in Versions :
       snapshots[d][v] # NoSnapshot /\ v > 1 => snapshots[d][v - 1] # snapshots[d][v]

\* A snapshot is built from completed jobs, and one with insights from exactly
\* the jobs its own insight configuration is mapped to.
MappedSources ==
    \A d \in Boards, v \in Versions : snapshots[d][v] # NoSnapshot =>
       /\ snapshots[d][v].sources \subseteq ready
       /\ snapshots[d][v].mapped \in {NoInsight, snapshots[d][v].sources}

\* Whatever requests race, a snapshot has at most one analysis, and none
\* outlives its snapshot.
OneAnalysis ==
    \A d \in Boards, v \in Versions :
       /\ analyses[d][v] <= 1
       /\ analyses[d][v] > 0 => /\ snapshots[d][v] # NoSnapshot
                                /\ snapshots[d][v].mapped # NoInsight

=============================================================================
