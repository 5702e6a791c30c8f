--------------------------- MODULE DashboardsProofs ---------------------------
(***************************************************************************)
(* Proofs about Dashboards, for any sets of dashboards, titles, jobs and   *)
(* requests and any bounds.  The invariant says what a request knows       *)
(* across the steps at which it holds a lock, and of a captured dashboard  *)
(* what it knows without one.                                              *)
(***************************************************************************)
EXTENDS Dashboards, FiniteSetTheorems, TLAPS

BelowLimit == sub.limit # NoLimit => Cardinality(Live) < sub.limit

\* The lock on the subscription makes the usage counted by a creation hold
\* until it commits.
CreateInv(r) ==
    req[r].pc = "create" => rows[req[r].board].state = "none" /\ BelowLimit

\* What was checked when the dashboard was captured.
CapturedInv(r) ==
    req[r].pc \in {"read", "insert"} =>
       /\ req[r].row.state = "live"
       /\ req[r].sources # {} /\ req[r].sources \subseteq ready
       /\ Matches(req[r].row.mapped, req[r].sources)

\* What the lock on the dashboard's row adds.
InsertInv(r) ==
    req[r].pc = "insert" =>
       rows[req[r].board] = req[r].row /\ IsLatest(req[r].board, req[r].version)

\* A snapshot that a request has seen stays, or its dashboard is gone for good.
AnalyseInv(r) ==
    req[r].pc = "analyse" =>
       /\ req[r].version \in Versions
       /\ \/ rows[req[r].board].state = "deleted"
          \/ /\ snapshots[req[r].board][req[r].version] # NoSnapshot
             /\ snapshots[req[r].board][req[r].version].mapped # NoInsight

OneCreate ==
    \A r, s \in Requests : req[r].pc = "create" /\ req[s].pc = "create" => r = s

OneInsert ==
    \A r, s \in Requests :
       req[r].pc = "insert" /\ req[s].pc = "insert" /\ req[r].board = req[s].board => r = s

\* The inductive invariant.
Inv ==
    /\ TypeOK
    /\ \A r \in Requests : CreateInv(r) /\ CapturedInv(r) /\ InsertInv(r) /\ AnalyseInv(r)
    /\ OneCreate /\ OneInsert
    /\ VersionsDense /\ NoEcho /\ MappedSources /\ OneAnalysis

-----------------------------------------------------------------------------
(***************************************************************************)
(* Types.                                                                  *)
(***************************************************************************)

LEMMA IdleType == NoRow \in Row /\ Idle \in Request /\ NoInsight \in Mappings
<1>1. (CHOOSE t \in Titles : TRUE) \in Titles /\ (CHOOSE d \in Boards : TRUE) \in Boards
  BY DashboardsAssumption
<1>2. NoRow \in Row /\ NoInsight \in Mappings
  BY <1>1 DEF NoRow, Row, Mappings
<1>3. NoRow.title \in Titles
  BY <1>1 DEF NoRow
<1>4. 0 \in 0..MaxVersion
  BY DashboardsAssumption
<1> QED
  BY <1>1, <1>2, <1>3, <1>4 DEF Idle, Request

\* What the steps that only move a request write.
LEMMA MoveType ==
    ASSUME TypeOK, NEW r \in Requests, NEW new \in Request, req' = [req EXCEPT ![r] = new],
           UNCHANGED <<rows, snapshots, analyses, ready, sub>>
    PROVE  /\ TypeOK' /\ req'[r] = new /\ \A s \in Requests \ {r} : req'[s] = req[s]
BY DEF TypeOK

LEMMA EndsType ==
    ASSUME TypeOK, NEW r \in Requests, Ends(r)
    PROVE  /\ req' \in [Requests -> Request] /\ req'[r].pc = "idle"
           /\ \A s \in Requests \ {r} : req'[s] = req[s]
BY IdleType DEF Ends, TypeOK, Idle

LEMMA CreateMove ==
    ASSUME TypeOK, NEW r \in Requests, NEW d \in Boards, Create(r, d)
    PROVE  /\ TypeOK' /\ req'[r].pc = "create" /\ req'[r].board = d
           /\ \A s \in Requests \ {r} : req'[s] = req[s]
<1>1. PICK t \in Titles, m \in Mappings :
        req' = [req EXCEPT ![r] = [Idle EXCEPT !.pc = "create", !.board = d,
                                                 !.title = t, !.mapped = m]]
  BY DEF Create
<1> DEFINE new == [Idle EXCEPT !.pc = "create", !.board = d, !.title = t, !.mapped = m]
<1>2. new \in Request /\ new.pc = "create" /\ new.board = d
  BY IdleType DEF Request, Idle
<1> HIDE DEF new
<1> QED
  BY <1>1, <1>2, MoveType DEF Create, new

LEMMA ChangeMove ==
    ASSUME TypeOK, NEW r \in Requests, NEW d \in Boards, Change(r, d)
    PROVE  /\ TypeOK' /\ req'[r].pc = "change"
           /\ \A s \in Requests \ {r} : req'[s] = req[s]
<1>1. PICK t \in Titles, m \in Mappings :
        req' = [req EXCEPT ![r] = [Idle EXCEPT !.pc = "change", !.board = d,
                                                 !.row = rows[d], !.title = t, !.mapped = m]]
  BY DEF Change
<1> DEFINE new == [Idle EXCEPT !.pc = "change", !.board = d,
                               !.row = rows[d], !.title = t, !.mapped = m]
<1>2. rows[d] \in Row
  BY DEF TypeOK
<1>3. new \in Request /\ new.pc = "change"
  BY <1>2, IdleType DEF Request, Idle
<1> HIDE DEF new
<1> QED
  BY <1>1, <1>3, MoveType DEF Change, new

LEMMA CaptureMove ==
    ASSUME TypeOK, NEW r \in Requests, NEW d \in Boards, NEW S \in SUBSET Jobs, Capture(r, d, S)
    PROVE  /\ TypeOK' /\ req'[r].pc = "read"
           /\ req'[r].row = rows[d] /\ req'[r].sources = S
           /\ \A s \in Requests \ {r} : req'[s] = req[s]
<1> DEFINE new == [Idle EXCEPT !.pc = "read", !.board = d, !.row = rows[d], !.sources = S]
<1>1. rows[d] \in Row
  BY DEF TypeOK
<1>2. new \in Request /\ new.pc = "read" /\ new.row = rows[d] /\ new.sources = S
  BY <1>1, IdleType DEF Request, Idle
<1>3. req' = [req EXCEPT ![r] = new] /\ UNCHANGED <<rows, snapshots, analyses, ready, sub>>
  BY DEF Capture
<1> HIDE DEF new
<1> QED
  BY <1>2, <1>3, MoveType

LEMMA LockMove ==
    ASSUME TypeOK, NEW r \in Requests, Lock(r)
    PROVE  /\ TypeOK' /\ \A s \in Requests \ {r} : req'[s] = req[s]
           /\ \/ req'[r].pc = "idle"
              \/ /\ req'[r].pc = "insert" /\ Unchanged(r)
                 /\ req'[r].board = req[r].board /\ req'[r].row = req[r].row
                 /\ req'[r].sources = req[r].sources
                 /\ IsLatest(req[r].board, req'[r].version)
<1>1. CASE Ends(r)
  BY <1>1, EndsType DEF Lock, TypeOK
<1>2. ASSUME Unchanged(r), NEW v \in 0..MaxVersion, IsLatest(req[r].board, v),
             req' = [req EXCEPT ![r] = [@ EXCEPT !.pc = "insert", !.version = v]]
      PROVE  /\ TypeOK' /\ \A s \in Requests \ {r} : req'[s] = req[s]
             /\ req'[r].pc = "insert"
             /\ req'[r].board = req[r].board /\ req'[r].row = req[r].row
             /\ req'[r].sources = req[r].sources /\ req'[r].version = v
  <2> DEFINE new == [req[r] EXCEPT !.pc = "insert", !.version = v]
  <2>1. req[r] \in Request
    BY DEF TypeOK
  <2>2. /\ new \in Request /\ new.pc = "insert" /\ new.board = req[r].board
        /\ new.row = req[r].row /\ new.sources = req[r].sources /\ new.version = v
    BY <2>1 DEF Request
  <2>3. req' = [req EXCEPT ![r] = new] /\ UNCHANGED <<rows, snapshots, analyses, ready, sub>>
    BY <1>2 DEF Lock, TypeOK
  <2> HIDE DEF new
  <2> QED
    BY <2>2, <2>3, MoveType
<1> QED
  BY <1>1, <1>2 DEF Lock

LEMMA AnalyseMove ==
    ASSUME TypeOK, NEW r \in Requests, NEW d \in Boards, NEW v \in Versions, Analyse(r, d, v)
    PROVE  /\ TypeOK' /\ req'[r].pc = "analyse" /\ req'[r].board = d /\ req'[r].version = v
           /\ \A s \in Requests \ {r} : req'[s] = req[s]
<1> DEFINE new == [Idle EXCEPT !.pc = "analyse", !.board = d, !.version = v]
<1>1. v \in 0..MaxVersion
  BY DashboardsAssumption DEF Versions
<1>2. new \in Request /\ new.pc = "analyse" /\ new.board = d /\ new.version = v
  BY <1>1, IdleType DEF Request, Idle
<1>3. req' = [req EXCEPT ![r] = new] /\ UNCHANGED <<rows, snapshots, analyses, ready, sub>>
  BY DEF Analyse
<1> HIDE DEF new
<1> QED
  BY <1>2, <1>3, MoveType

\* The step of a creation that writes.
LEMMA CreateWrites ==
    ASSUME TypeOK, NEW r \in Requests, CreateCommit(r)
    PROVE  /\ TypeOK' /\ req[r].pc = "create" /\ req'[r].pc = "idle"
           /\ \A s \in Requests \ {r} : req'[s] = req[s]
           /\ rows'[req[r].board].state = "live"
           /\ \A d \in Boards \ {req[r].board} : rows'[d] = rows[d]
<1>1. req[r] \in Request /\ req[r].board \in Boards
  BY DEF TypeOK, Request
<1> DEFINE new == [state |-> "live", title |-> req[r].title, mapped |-> req[r].mapped,
                   rev |-> 0]
<1>2. new \in Row /\ new.state = "live"
  BY <1>1 DEF Request, Row
<1>3. rows' = [rows EXCEPT ![req[r].board] = new]
  BY DEF CreateCommit
<1> HIDE DEF new
<1>4. rows' \in [Boards -> Row] /\ rows'[req[r].board] = new
  BY <1>1, <1>2, <1>3 DEF TypeOK
<1>5. \A d \in Boards \ {req[r].board} : rows'[d] = rows[d]
  BY <1>3 DEF TypeOK
<1> QED
  BY <1>2, <1>4, <1>5, EndsType DEF CreateCommit, TypeOK

\* The step of a change that writes.
LEMMA ChangeWrites ==
    ASSUME TypeOK, NEW r \in Requests, ChangeCommit(r)
    PROVE  /\ TypeOK' /\ req[r].pc = "change" /\ req'[r].pc = "idle"
           /\ \A s \in Requests \ {r} : req'[s] = req[s]
           /\ \A d \in Boards : rows'[d].state = rows[d].state
           /\ \/ rows' = rows
              \/ /\ RowFree(req[r].board) /\ rows[req[r].board].state = "live"
                 /\ \A d \in Boards \ {req[r].board} : rows'[d] = rows[d]
                 /\ \E row \in Row : row.state = "live" /\ rows' = [rows EXCEPT ![req[r].board] = row]
<1> DEFINE d == req[r].board
           loaded == req[r].row
           new == [state |-> "live",
                   title |-> Merged(rows[d].title, loaded.title, req[r].title),
                   mapped |-> Merged(rows[d].mapped, loaded.mapped, req[r].mapped),
                   rev |-> rows[d].rev + 1]
<1>1. req[r] \in Request /\ d \in Boards /\ rows[d] \in Row
  BY DEF TypeOK, Request
<1>2. new \in Row /\ new.state = "live"
  <2>1. Merged(rows[d].title, loaded.title, req[r].title) \in Titles
    BY <1>1 DEF Merged, Request, Row
  <2>2. Merged(rows[d].mapped, loaded.mapped, req[r].mapped) \in Mappings
    BY <1>1 DEF Merged, Request, Row
  <2>3. rows[d].rev + 1 \in Nat
    BY <1>1 DEF Row
  <2> QED
    BY <2>1, <2>2, <2>3 DEF Row
<1>3. \/ rows' = rows
      \/ RowFree(d) /\ rows[d].state = "live" /\ rows' = [rows EXCEPT ![d] = new]
  BY DEF ChangeCommit
<1> HIDE DEF new
<1>4. rows' \in [Boards -> Row] /\ \A b \in Boards : rows'[b].state = rows[b].state
  BY <1>1, <1>2, <1>3 DEF TypeOK
<1>5. rows' = [rows EXCEPT ![d] = new] => \A b \in Boards \ {d} : rows'[b] = rows[b]
  BY DEF TypeOK
<1> QED
  BY <1>2, <1>3, <1>4, <1>5, EndsType DEF ChangeCommit, TypeOK

LEMMA DeleteWrites ==
    ASSUME TypeOK, NEW d \in Boards, Delete(d)
    PROVE  /\ TypeOK' /\ rows[d].state = "live" /\ rows'[d].state = "deleted"
           /\ \A b \in Boards \ {d} :
                rows'[b] = rows[b] /\ snapshots'[b] = snapshots[b] /\ analyses'[b] = analyses[b]
           /\ \A v \in Versions : snapshots'[d][v] = NoSnapshot /\ analyses'[d][v] = 0
<1> DEFINE new == [NoRow EXCEPT !.state = "deleted"]
<1>1. new \in Row /\ new.state = "deleted"
  BY IdleType DEF Row
<1>2. rows' = [rows EXCEPT ![d] = new]
  BY DEF Delete
<1> HIDE DEF new
<1>3. rows' \in [Boards -> Row] /\ rows'[d].state = "deleted" /\ \A b \in Boards \ {d} : rows'[b] = rows[b]
  BY <1>1, <1>2 DEF TypeOK
<1>4. /\ snapshots' \in [Boards -> [Versions -> Payload \cup {NoSnapshot}]]
      /\ \A b \in Boards \ {d} : snapshots'[b] = snapshots[b]
      /\ \A v \in Versions : snapshots'[d][v] = NoSnapshot
  BY DEF Delete, TypeOK
<1>5. /\ analyses' \in [Boards -> [Versions -> Nat]]
      /\ \A b \in Boards \ {d} : analyses'[b] = analyses[b]
      /\ \A v \in Versions : analyses'[d][v] = 0
  BY DEF Delete, TypeOK
<1> QED
  BY <1>3, <1>4, <1>5 DEF Delete, TypeOK

\* An insertion replays the latest snapshot or writes the version after it.
LEMMA InsertWrites ==
    ASSUME TypeOK, NEW r \in Requests, Insert(r)
    PROVE  /\ TypeOK' /\ req[r].pc = "insert" /\ req'[r].pc = "idle"
           /\ \A s \in Requests \ {r} : req'[s] = req[s]
           /\ \/ snapshots' = snapshots
              \/ /\ ~Replayed(r) /\ NextVersion(r) \in Versions
                 /\ \A d \in Boards, v \in Versions :
                      snapshots'[d][v] = IF d = req[r].board /\ v = NextVersion(r)
                                         THEN Built(r) ELSE snapshots[d][v]
<1> DEFINE d == req[r].board
           v == NextVersion(r)
           new == Built(r)
<1>1. req[r] \in Request /\ d \in Boards
  BY DEF TypeOK, Request
<1>2. new \in Payload
  BY <1>1 DEF Built, Payload, Request, Row
<1>3. CASE UNCHANGED snapshots
  BY <1>3, EndsType DEF Insert, TypeOK
<1>4. CASE ~Replayed(r) /\ v \in Versions /\ snapshots' = [snapshots EXCEPT ![d][v] = new]
  <2> HIDE DEF new, v
  <2>1. snapshots' = [snapshots EXCEPT ![d] = [snapshots[d] EXCEPT ![v] = new]]
    BY <1>4 DEF TypeOK
  <2>2. [snapshots[d] EXCEPT ![v] = new] \in [Versions -> Payload \cup {NoSnapshot}]
    BY <1>1, <1>2, <1>4 DEF TypeOK
  <2>3. snapshots' \in [Boards -> [Versions -> Payload \cup {NoSnapshot}]]
    BY <2>1, <2>2 DEF TypeOK
  <2>4. \A b \in Boards, w \in Versions :
          snapshots'[b][w] = IF b = d /\ w = v THEN new ELSE snapshots[b][w]
    BY <1>1, <1>4, <2>1 DEF TypeOK
  <2>5. TypeOK' /\ req[r].pc = "insert" /\ req'[r].pc = "idle" /\ \A s \in Requests \ {r} : req'[s] = req[s]
    BY <2>3, EndsType DEF Insert, TypeOK
  <2> QED
    BY <1>4, <2>4, <2>5 DEF new, v
<1> QED
  BY <1>3, <1>4 DEF Insert

LEMMA AnalysisWrites ==
    ASSUME TypeOK, NEW r \in Requests, AnalyseCommit(r), req[r].version \in Versions
    PROVE  /\ TypeOK' /\ req[r].pc = "analyse" /\ req'[r].pc = "idle"
           /\ \A s \in Requests \ {r} : req'[s] = req[s]
           /\ \/ analyses' = analyses
              \/ /\ ~Duplicate(req[r].board, req[r].version)
                 /\ \A d \in Boards, v \in Versions :
                      analyses'[d][v] = IF d = req[r].board /\ v = req[r].version
                                        THEN analyses[d][v] + 1 ELSE analyses[d][v]
<1> DEFINE d == req[r].board
           v == req[r].version
<1>1. d \in Boards /\ analyses[d][v] + 1 \in Nat
  BY DEF TypeOK, Request
<1>2. CASE Duplicate(d, v)
  BY <1>2, EndsType DEF AnalyseCommit, TypeOK
<1>3. CASE ~Duplicate(d, v)
  <2>1. analyses' = [analyses EXCEPT ![d] = [analyses[d] EXCEPT ![v] = analyses[d][v] + 1]]
    BY <1>1, <1>3 DEF AnalyseCommit, TypeOK
  <2>2. [analyses[d] EXCEPT ![v] = analyses[d][v] + 1] \in [Versions -> Nat]
    BY <1>1 DEF TypeOK
  <2>3. analyses' \in [Boards -> [Versions -> Nat]]
    BY <2>1, <2>2 DEF TypeOK
  <2>4. \A b \in Boards, w \in Versions :
          analyses'[b][w] = IF b = d /\ w = v THEN analyses[b][w] + 1 ELSE analyses[b][w]
    BY <1>1, <2>1 DEF TypeOK
  <2>5. TypeOK' /\ req[r].pc = "analyse" /\ req'[r].pc = "idle" /\ \A s \in Requests \ {r} : req'[s] = req[s]
    BY <2>3, EndsType DEF AnalyseCommit, TypeOK
  <2> QED
    BY <1>3, <2>4, <2>5
<1> QED
  BY <1>2, <1>3

-----------------------------------------------------------------------------
(***************************************************************************)
(* Every step keeps the invariant.                                         *)
(***************************************************************************)

\* The usage only shrinks under the lock on the subscription.
LEMMA LimitKept ==
    ASSUME TypeOK, BelowLimit, sub'.limit = sub.limit,
           \A d \in Boards : rows'[d].state = "live" => rows[d].state = "live"
    PROVE  BelowLimit'
<1>1. Live \in SUBSET Boards /\ Live' \in SUBSET Live
  BY DEF Live
<1>2. IsFiniteSet(Live)
  BY <1>1, FS_Subset, DashboardsAssumption
<1>3. IsFiniteSet(Live') /\ Cardinality(Live') <= Cardinality(Live)
  BY <1>1, <1>2, FS_Subset
<1>4. Cardinality(Live) \in Nat /\ Cardinality(Live') \in Nat
  BY <1>2, <1>3, FS_CardinalityType
<1>5. sub.limit # NoLimit => sub.limit \in Nat
  BY DashboardsAssumption DEF TypeOK, Sub
<1> QED
  BY <1>3, <1>4, <1>5 DEF BelowLimit

RequestInv(r) == CreateInv(r) /\ CapturedInv(r) /\ InsertInv(r) /\ AnalyseInv(r)

\* A step that only moves a request.
LEMMA MoveInv ==
    ASSUME Inv, TypeOK', NEW r \in Requests,
           UNCHANGED <<rows, snapshots, analyses, ready, sub>>,
           \A s \in Requests \ {r} : req'[s] = req[s],
           req'[r].pc = "create" => /\ rows[req'[r].board].state = "none" /\ BelowLimit
                                    /\ \A s \in Requests \ {r} : req[s].pc # "create",
           req'[r].pc \in {"read", "insert"} =>
              /\ req'[r].row.state = "live"
              /\ req'[r].sources # {} /\ req'[r].sources \subseteq ready
              /\ Matches(req'[r].row.mapped, req'[r].sources),
           req'[r].pc = "insert" =>
              /\ rows[req'[r].board] = req'[r].row /\ IsLatest(req'[r].board, req'[r].version)
              /\ RowFree(req'[r].board),
           req'[r].pc = "analyse" =>
              /\ req'[r].version \in Versions
              /\ snapshots[req'[r].board][req'[r].version] # NoSnapshot
              /\ snapshots[req'[r].board][req'[r].version].mapped # NoInsight
    PROVE  Inv'
<1>1. UNCHANGED BelowLimit
  BY DEF BelowLimit, Live
<1>2. \A s \in Requests \ {r} : RequestInv(s)'
  BY <1>1 DEF Inv, RequestInv, CreateInv, CapturedInv, InsertInv, AnalyseInv, IsLatest, Matches
<1>3. RequestInv(r)'
  <2>1. CreateInv(r)'
    BY <1>1 DEF CreateInv
  <2>2. CapturedInv(r)'
    BY DEF CapturedInv, Matches
  <2>3. InsertInv(r)'
    BY DEF InsertInv, IsLatest
  <2>4. AnalyseInv(r)'
    BY DEF AnalyseInv
  <2> QED
    BY <2>1, <2>2, <2>3, <2>4 DEF RequestInv
<1>4. OneCreate' /\ OneInsert'
  <2>1. OneCreate'
    BY DEF Inv, OneCreate
  <2>2. OneInsert'
    BY DEF Inv, OneInsert, RowFree
  <2> QED
    BY <2>1, <2>2
<1>5. VersionsDense' /\ NoEcho' /\ MappedSources' /\ OneAnalysis'
  BY DEF Inv, VersionsDense, NoEcho, MappedSources, OneAnalysis
<1> QED
  BY <1>2, <1>3, <1>4, <1>5 DEF Inv, RequestInv

\* When a request ends, the others have the locks they had.
LEMMA EndsAlone ==
    ASSUME Inv, NEW r \in Requests, req'[r].pc = "idle",
           \A s \in Requests \ {r} : req'[s] = req[s]
    PROVE  OneCreate' /\ OneInsert' /\ RequestInv(r)'
<1>1. OneCreate'
  BY DEF Inv, OneCreate
<1>2. OneInsert'
  BY DEF Inv, OneInsert
<1>3. RequestInv(r)'
  BY DEF RequestInv, CreateInv, CapturedInv, InsertInv, AnalyseInv
<1> QED
  BY <1>1, <1>2, <1>3

LEMMA MovesInv ==
    ASSUME Inv, NEW r \in Requests,
           \/ Lock(r) \/ Fail(r)
           \/ \E d \in Boards : \/ Create(r, d) \/ Change(r, d)
                                \/ \E S \in SUBSET Jobs : Capture(r, d, S)
                                \/ \E v \in Versions : Analyse(r, d, v)
    PROVE  Inv'
<1>0. TypeOK
  BY DEF Inv
<1>1. ASSUME NEW d \in Boards, Create(r, d) PROVE Inv'
  <2>1. UNCHANGED <<rows, snapshots, analyses, ready, sub>> /\ rows[d].state = "none"
    BY <1>1 DEF Create
  <2>2. BelowLimit /\ \A s \in Requests : req[s].pc # "create"
    BY <1>1 DEF Create, Require, BelowLimit, SubFree
  <2> QED
    BY <1>0, <1>1, <2>1, <2>2, CreateMove, MoveInv
<1>2. ASSUME NEW d \in Boards, Change(r, d) PROVE Inv'
  <2>1. UNCHANGED <<rows, snapshots, analyses, ready, sub>>
    BY <1>2 DEF Change
  <2> QED
    BY <1>0, <1>2, <2>1, ChangeMove, MoveInv
<1>3. ASSUME NEW d \in Boards, NEW S \in SUBSET Jobs, Capture(r, d, S) PROVE Inv'
  <2>1. UNCHANGED <<rows, snapshots, analyses, ready, sub>>
    BY <1>3 DEF Capture
  <2>2. rows[d].state = "live" /\ S # {} /\ S \subseteq ready /\ Matches(rows[d].mapped, S)
    BY <1>3 DEF Capture
  <2> QED
    BY <1>0, <1>3, <2>1, <2>2, CaptureMove, MoveInv
<1>4. ASSUME NEW d \in Boards, NEW v \in Versions, Analyse(r, d, v) PROVE Inv'
  <2>1. /\ UNCHANGED <<rows, snapshots, analyses, ready, sub>>
        /\ snapshots[d][v] # NoSnapshot /\ snapshots[d][v].mapped # NoInsight
    BY <1>4 DEF Analyse
  <2> QED
    BY <1>0, <1>4, <2>1, AnalyseMove, MoveInv
<1>5. CASE Lock(r)
  <2>1. /\ UNCHANGED <<rows, snapshots, analyses, ready, sub>>
        /\ RowFree(req[r].board) /\ req[r].pc = "read"
    BY <1>5 DEF Lock
  <2>2. /\ req[r].row.state = "live" /\ req[r].sources # {} /\ req[r].sources \subseteq ready
        /\ Matches(req[r].row.mapped, req[r].sources)
    BY <2>1 DEF Inv, CapturedInv
  <2>3. Unchanged(r) => rows[req[r].board] = req[r].row
    BY DEF Unchanged
  <2> QED
    BY <1>0, <1>5, <2>1, <2>2, <2>3, LockMove, MoveInv
<1>6. CASE Fail(r)
  <2>1. UNCHANGED <<rows, snapshots, analyses, ready, sub>> /\ Ends(r)
    BY <1>6 DEF Fail
  <2>2. TypeOK'
    BY <1>0, <2>1, EndsType DEF TypeOK
  <2> QED
    BY <1>0, <2>1, <2>2, EndsType, MoveInv
<1> QED
  BY <1>1, <1>2, <1>3, <1>4, <1>5, <1>6

LEMMA CreateInvStep ==
    ASSUME Inv, NEW r \in Requests, CreateCommit(r)
    PROVE  Inv'
<1> DEFINE d == req[r].board
<1>1. /\ TypeOK' /\ req[r].pc = "create" /\ req'[r].pc = "idle" /\ d \in Boards
      /\ \A s \in Requests \ {r} : req'[s] = req[s]
      /\ rows'[d].state = "live" /\ \A b \in Boards \ {d} : rows'[b] = rows[b]
      /\ UNCHANGED <<snapshots, analyses, ready, sub>>
  BY CreateWrites DEF Inv, CreateCommit, TypeOK, Request
<1>2. rows[d].state = "none"
  BY <1>1 DEF Inv, CreateInv
<1>3. ASSUME NEW s \in Requests \ {r} PROVE RequestInv(s)'
  <2>1. req[s].pc # "create" /\ req[s].board \in Boards
    BY <1>1 DEF Inv, OneCreate, TypeOK, Request
  <2>2. CapturedInv(s)'
    BY <1>1 DEF Inv, CapturedInv, Matches
  <2>3. InsertInv(s)'
    <3>1. req[s].pc = "insert" => req[s].board # d
      BY <1>2 DEF Inv, CapturedInv, InsertInv
    <3> QED
      BY <1>1, <2>1, <3>1 DEF Inv, InsertInv, IsLatest
  <2>4. AnalyseInv(s)'
    <3>1. req[s].pc = "analyse" => req[s].board # d
      BY <1>1, <1>2 DEF Inv, AnalyseInv, VersionsDense
    <3> QED
      BY <1>1, <2>1, <3>1 DEF Inv, AnalyseInv
  <2> QED
    BY <1>1, <2>1, <2>2, <2>3, <2>4 DEF RequestInv, CreateInv
<1>4. OneCreate' /\ OneInsert' /\ RequestInv(r)'
  BY <1>1, EndsAlone
<1>5. VersionsDense' /\ NoEcho' /\ MappedSources' /\ OneAnalysis'
  <2>1. VersionsDense'
    BY <1>1 DEF Inv, VersionsDense
  <2> QED
    BY <1>1, <2>1 DEF Inv, NoEcho, MappedSources, OneAnalysis
<1> QED
  BY <1>1, <1>3, <1>4, <1>5 DEF Inv, RequestInv

LEMMA ChangeInvStep ==
    ASSUME Inv, NEW r \in Requests, ChangeCommit(r)
    PROVE  Inv'
<1> DEFINE d == req[r].board
<1>1. /\ TypeOK' /\ req'[r].pc = "idle" /\ d \in Boards
      /\ \A s \in Requests \ {r} : req'[s] = req[s]
      /\ \A b \in Boards : rows'[b].state = rows[b].state
      /\ \/ rows' = rows
         \/ RowFree(d) /\ \A b \in Boards \ {d} : rows'[b] = rows[b]
      /\ UNCHANGED <<snapshots, analyses, ready, sub>>
  BY ChangeWrites DEF Inv, ChangeCommit, TypeOK, Request
<1>2. ASSUME NEW s \in Requests \ {r} PROVE RequestInv(s)'
  <2>1. req[s].board \in Boards
    BY DEF Inv, TypeOK, Request
  <2>2. CreateInv(s)'
    BY <1>1, <2>1, LimitKept DEF Inv, CreateInv
  <2>3. CapturedInv(s)'
    BY <1>1 DEF Inv, CapturedInv, Matches
  <2>4. InsertInv(s)'
    BY <1>1, <2>1 DEF Inv, InsertInv, IsLatest, RowFree
  <2>5. AnalyseInv(s)'
    BY <1>1, <2>1 DEF Inv, AnalyseInv
  <2> QED
    BY <2>2, <2>3, <2>4, <2>5 DEF RequestInv
<1>3. OneCreate' /\ OneInsert' /\ RequestInv(r)'
  BY <1>1, EndsAlone
<1>4. VersionsDense' /\ NoEcho' /\ MappedSources' /\ OneAnalysis'
  BY <1>1 DEF Inv, VersionsDense, NoEcho, MappedSources, OneAnalysis
<1> QED
  BY <1>1, <1>2, <1>3, <1>4 DEF Inv, RequestInv

LEMMA DeleteInvStep ==
    ASSUME Inv, NEW d \in Boards, Delete(d)
    PROVE  Inv'
<1>1. /\ TypeOK' /\ rows[d].state = "live" /\ rows'[d].state = "deleted" /\ RowFree(d)
      /\ \A b \in Boards \ {d} :
           rows'[b] = rows[b] /\ snapshots'[b] = snapshots[b] /\ analyses'[b] = analyses[b]
      /\ \A v \in Versions : snapshots'[d][v] = NoSnapshot /\ analyses'[d][v] = 0
      /\ UNCHANGED <<ready, sub, req>>
  BY DeleteWrites DEF Inv, Delete
<1>2. ASSUME NEW s \in Requests PROVE RequestInv(s)'
  <2>1. req[s].board \in Boards
    BY DEF Inv, TypeOK, Request
  <2>2. CreateInv(s)'
    BY <1>1, <2>1, LimitKept DEF Inv, CreateInv
  <2>3. CapturedInv(s)'
    BY <1>1 DEF Inv, CapturedInv, Matches
  <2>4. InsertInv(s)'
    BY <1>1, <2>1 DEF Inv, InsertInv, IsLatest, RowFree
  <2>5. AnalyseInv(s)'
    BY <1>1, <2>1 DEF Inv, AnalyseInv
  <2> QED
    BY <2>2, <2>3, <2>4, <2>5 DEF RequestInv
<1>3. OneCreate' /\ OneInsert'
  BY <1>1 DEF Inv, OneCreate, OneInsert
<1>4. VersionsDense'
  BY <1>1 DEF Inv, VersionsDense
<1>5. NoEcho'
  BY <1>1 DEF Inv, NoEcho
<1>6. MappedSources'
  BY <1>1 DEF Inv, MappedSources
<1>7. OneAnalysis'
  BY <1>1 DEF Inv, OneAnalysis
<1> QED
  BY <1>1, <1>2, <1>3, <1>4, <1>5, <1>6, <1>7 DEF Inv, RequestInv

LEMMA InsertInvStep ==
    ASSUME Inv, NEW r \in Requests, Insert(r)
    PROVE  Inv'
<1> DEFINE d == req[r].board
           v == NextVersion(r)
<1>1. /\ TypeOK' /\ req[r].pc = "insert" /\ req'[r].pc = "idle" /\ d \in Boards
      /\ \A s \in Requests \ {r} : req'[s] = req[s]
      /\ req[r].version \in 0..MaxVersion
      /\ UNCHANGED <<rows, analyses, ready, sub>>
  BY InsertWrites DEF Inv, Insert, TypeOK, Request
<1>2. /\ rows[d] = req[r].row /\ rows[d].state = "live" /\ IsLatest(d, req[r].version)
      /\ req[r].sources \subseteq ready /\ Matches(req[r].row.mapped, req[r].sources)
  BY <1>1 DEF Inv, InsertInv, CapturedInv
<1>3. OneCreate' /\ OneInsert' /\ RequestInv(r)'
  BY <1>1, EndsAlone
<1>4. CASE snapshots' = snapshots
  <2>1. ASSUME NEW s \in Requests \ {r} PROVE RequestInv(s)'
    <3>1. CreateInv(s)' /\ CapturedInv(s)'
      BY <1>1 DEF Inv, CreateInv, BelowLimit, Live, CapturedInv, Matches
    <3>2. InsertInv(s)' /\ AnalyseInv(s)'
      BY <1>1, <1>4 DEF Inv, InsertInv, IsLatest, AnalyseInv
    <3> QED
      BY <3>1, <3>2 DEF RequestInv
  <2>2. VersionsDense' /\ NoEcho' /\ MappedSources' /\ OneAnalysis'
    BY <1>1, <1>4 DEF Inv, VersionsDense, NoEcho, MappedSources, OneAnalysis
  <2> QED
    BY <1>1, <1>3, <2>1, <2>2 DEF Inv, RequestInv
<1>5. CASE /\ ~Replayed(r) /\ v \in Versions
           /\ \A b \in Boards, w \in Versions :
                snapshots'[b][w] = IF b = d /\ w = v THEN Built(r) ELSE snapshots[b][w]
  <2>1. v = req[r].version + 1 /\ v \in Nat /\ req[r].version \in Nat /\ v - 1 = req[r].version
    BY <1>1, DashboardsAssumption DEF NextVersion
  <2>2. /\ \A w \in Versions : w >= v => snapshots[d][w] = NoSnapshot
        /\ v > 1 => /\ v - 1 \in Versions /\ snapshots[d][v - 1] # NoSnapshot
                    /\ snapshots[d][v - 1] # Built(r)
    <3>1. \A w \in Versions : w >= v => w > req[r].version
      BY <2>1 DEF Versions
    <3>2. v > 1 => v - 1 \in Versions /\ req[r].version > 0
      BY <1>5, <2>1, DashboardsAssumption DEF Versions
    <3> QED
      BY <1>2, <1>5, <2>1, <3>1, <3>2 DEF IsLatest, Replayed
  <2>3. ASSUME NEW s \in Requests \ {r} PROVE RequestInv(s)'
    <3>1. req[s].board \in Boards
      BY DEF Inv, TypeOK, Request
    <3>2. CreateInv(s)' /\ CapturedInv(s)'
      BY <1>1 DEF Inv, CreateInv, BelowLimit, Live, CapturedInv, Matches
    <3>3. InsertInv(s)'
      <4>1. req[s].pc = "insert" => req[s].board # d
        BY <1>1 DEF Inv, OneInsert
      <4> QED
        BY <1>1, <1>5, <3>1, <4>1 DEF Inv, InsertInv, IsLatest
    <3>4. AnalyseInv(s)'
      <4>1. req[s].pc = "analyse" /\ req[s].board = d => req[s].version # v
        BY <1>2, <1>5, <2>1, <2>2 DEF Inv, AnalyseInv, Versions
      <4> QED
        BY <1>1, <1>5, <3>1, <4>1 DEF Inv, AnalyseInv
    <3> QED
      BY <3>2, <3>3, <3>4 DEF RequestInv
  <2>4. VersionsDense'
    <3> SUFFICES ASSUME NEW b \in Boards, NEW w \in Versions, snapshots'[b][w] # NoSnapshot
                 PROVE  /\ rows'[b].state = "live"
                        /\ w > 1 => snapshots'[b][w - 1] # NoSnapshot
      BY DEF VersionsDense
    <3>1. w > 1 => w - 1 \in Versions /\ w - 1 # w
      BY DashboardsAssumption DEF Versions
    <3>2. CASE b = d /\ w = v
      BY <1>1, <1>2, <1>5, <2>2, <3>1, <3>2
    <3>3. CASE ~(b = d /\ w = v)
      <4>1. snapshots[b][w] # NoSnapshot
        BY <1>5, <3>3
      <4>2. rows[b].state = "live" /\ (w > 1 => snapshots[b][w - 1] # NoSnapshot)
        BY <4>1 DEF Inv, VersionsDense
      <4>3. ~(b = d /\ w - 1 = v)
        BY <2>1, <2>2, <4>1 DEF Versions
      <4> QED
        BY <1>1, <1>5, <3>1, <4>2, <4>3
    <3> QED
      BY <3>2, <3>3
  <2>5. NoEcho'
    <3> SUFFICES ASSUME NEW b \in Boards, NEW w \in Versions, snapshots'[b][w] # NoSnapshot, w > 1
                 PROVE  snapshots'[b][w - 1] # snapshots'[b][w]
      BY DEF NoEcho
    <3>1. w - 1 \in Versions /\ w - 1 # w
      BY DashboardsAssumption DEF Versions
    <3>2. CASE b = d /\ w = v
      BY <1>5, <2>2, <3>1, <3>2
    <3>3. CASE ~(b = d /\ w = v)
      <4>1. snapshots[b][w] # NoSnapshot /\ snapshots'[b][w] = snapshots[b][w]
        BY <1>5, <3>3
      <4>2. snapshots[b][w - 1] # snapshots[b][w]
        BY <4>1 DEF Inv, NoEcho
      <4>3. ~(b = d /\ w - 1 = v)
        BY <2>1, <2>2, <4>1 DEF Versions
      <4> QED
        BY <1>5, <3>1, <4>1, <4>2, <4>3
    <3> QED
      BY <3>2, <3>3
  <2>6. MappedSources'
    <3>1. /\ Built(r).sources \subseteq ready
          /\ Built(r).mapped \in {NoInsight, Built(r).sources}
      BY <1>2 DEF Built, Matches
    <3> HIDE DEF d, v
    <3> QED
      BY <1>1, <1>5, <3>1 DEF Inv, MappedSources
  <2>7. OneAnalysis'
    <3>1. ~(analyses[d][v] > 0)
      BY <1>1, <1>5, <2>1, <2>2 DEF Inv, OneAnalysis
    <3> HIDE DEF d, v
    <3> QED
      BY <1>1, <1>5, <3>1 DEF Inv, OneAnalysis
  <2> QED
    BY <1>1, <1>3, <2>3, <2>4, <2>5, <2>6, <2>7 DEF Inv, RequestInv
<1> QED
  BY <1>4, <1>5, InsertWrites DEF Inv

LEMMA AnalysisInvStep ==
    ASSUME Inv, NEW r \in Requests, AnalyseCommit(r)
    PROVE  Inv'
<1> DEFINE d == req[r].board
           v == req[r].version
<1>1. req[r].pc = "analyse" /\ v \in Versions /\ UNCHANGED <<rows, snapshots, ready, sub>>
  BY DEF AnalyseCommit, Inv, AnalyseInv
<1>2. /\ TypeOK' /\ req'[r].pc = "idle" /\ d \in Boards
      /\ \A s \in Requests \ {r} : req'[s] = req[s]
  BY <1>1, AnalysisWrites DEF Inv, TypeOK, Request
<1>3. OneCreate' /\ OneInsert' /\ RequestInv(r)'
  BY <1>2, EndsAlone
<1>4. ASSUME NEW s \in Requests \ {r} PROVE RequestInv(s)'
  <2>1. CreateInv(s)' /\ CapturedInv(s)'
    BY <1>1, <1>2 DEF Inv, CreateInv, BelowLimit, Live, CapturedInv, Matches
  <2>2. InsertInv(s)' /\ AnalyseInv(s)'
    BY <1>1, <1>2 DEF Inv, InsertInv, IsLatest, AnalyseInv
  <2> QED
    BY <2>1, <2>2 DEF RequestInv
<1>5. VersionsDense' /\ NoEcho' /\ MappedSources'
  BY <1>1 DEF Inv, VersionsDense, NoEcho, MappedSources
<1>6. OneAnalysis'
  <2>1. CASE analyses' = analyses
    BY <1>1, <2>1 DEF Inv, OneAnalysis
  <2>2. CASE /\ ~Duplicate(d, v)
             /\ \A b \in Boards, w \in Versions :
                  analyses'[b][w] = IF b = d /\ w = v THEN analyses[b][w] + 1 ELSE analyses[b][w]
    <3>1. analyses[d][v] = 0 /\ snapshots[d][v] # NoSnapshot
      BY <1>1, <1>2, <2>2 DEF Duplicate, Inv, TypeOK
    <3>2. snapshots[d][v].mapped # NoInsight
      <4>1. rows[d].state = "live"
        BY <1>1, <1>2, <3>1 DEF Inv, VersionsDense
      <4> QED
        BY <1>1, <4>1 DEF Inv, AnalyseInv
    <3> HIDE DEF d, v
    <3> QED
      BY <1>1, <2>2, <3>1, <3>2 DEF Inv, OneAnalysis
  <2> QED
    BY <1>1, <2>1, <2>2, AnalysisWrites DEF Inv
<1> QED
  BY <1>2, <1>3, <1>4, <1>5, <1>6 DEF Inv, RequestInv

LEMMA SubscriptionInvStep ==
    ASSUME Inv, SyncSubscription \/ Expire
    PROVE  Inv'
<1>1. TypeOK /\ UNCHANGED <<rows, snapshots, analyses, ready, req>>
  BY DEF SyncSubscription, Expire, Inv
<1>2. sub' \in Sub
  BY <1>1 DEF SyncSubscription, Expire, TypeOK, Sub
<1>3. \A s \in Requests : CreateInv(s)'
  <2>1. CASE SyncSubscription
    BY <1>1, <2>1 DEF SyncSubscription, SubFree, CreateInv
  <2>2. CASE Expire
    <3>1. sub'.limit = sub.limit
      BY <1>1, <2>2 DEF Expire, TypeOK, Sub
    <3> QED
      BY <1>1, <3>1, LimitKept DEF Inv, CreateInv
  <2> QED
    BY <2>1, <2>2
<1>4. \A s \in Requests : CapturedInv(s)' /\ InsertInv(s)' /\ AnalyseInv(s)'
  BY <1>1 DEF Inv, CapturedInv, Matches, InsertInv, IsLatest, AnalyseInv
<1>5. OneCreate' /\ OneInsert' /\ VersionsDense' /\ NoEcho' /\ MappedSources' /\ OneAnalysis'
  BY <1>1 DEF Inv, OneCreate, OneInsert, VersionsDense, NoEcho, MappedSources, OneAnalysis
<1> QED
  BY <1>1, <1>2, <1>3, <1>4, <1>5 DEF Inv, TypeOK

LEMMA ProcessInvStep ==
    ASSUME Inv, NEW j \in Jobs, Process(j)
    PROVE  Inv'
<1>1. /\ TypeOK' /\ ready \subseteq ready' /\ UNCHANGED <<rows, snapshots, analyses, sub, req>>
  BY DEF Process, Inv, TypeOK
<1>2. \A s \in Requests : CapturedInv(s)'
  BY <1>1 DEF Inv, CapturedInv, Matches
<1>3. \A s \in Requests : CreateInv(s)' /\ InsertInv(s)' /\ AnalyseInv(s)'
  BY <1>1 DEF Inv, CreateInv, BelowLimit, Live, InsertInv, IsLatest, AnalyseInv
<1>4. OneCreate' /\ OneInsert' /\ VersionsDense' /\ NoEcho' /\ OneAnalysis'
  BY <1>1 DEF Inv, OneCreate, OneInsert, VersionsDense, NoEcho, OneAnalysis
<1>5. MappedSources'
  BY <1>1 DEF Inv, MappedSources
<1> QED
  BY <1>1, <1>2, <1>3, <1>4, <1>5 DEF Inv

LEMMA InvStep == Inv /\ [Next]_vars => Inv'
<1> SUFFICES ASSUME Inv, [Next]_vars PROVE Inv'
  OBVIOUS
<1>1. CASE UNCHANGED vars
  <2>1. UNCHANGED <<rows, snapshots, analyses, ready, sub, req>>
    BY <1>1 DEF vars
  <2>2. TypeOK' /\ OneCreate' /\ OneInsert'
    BY <2>1 DEF Inv, TypeOK, OneCreate, OneInsert
  <2>3. \A s \in Requests : CreateInv(s)' /\ CapturedInv(s)' /\ InsertInv(s)' /\ AnalyseInv(s)'
    BY <2>1 DEF Inv, CreateInv, BelowLimit, Live, CapturedInv, Matches, InsertInv, IsLatest,
                AnalyseInv
  <2>4. VersionsDense' /\ NoEcho' /\ MappedSources' /\ OneAnalysis'
    BY <2>1 DEF Inv, VersionsDense, NoEcho, MappedSources, OneAnalysis
  <2> QED
    BY <2>2, <2>3, <2>4 DEF Inv
<1>2. CASE Next
  BY <1>2, MovesInv, CreateInvStep, ChangeInvStep, DeleteInvStep, InsertInvStep,
     AnalysisInvStep, SubscriptionInvStep, ProcessInvStep DEF Next
<1> QED
  BY <1>1, <1>2

LEMMA InvInit == Init => Inv
<1> SUFFICES ASSUME Init PROVE Inv
  OBVIOUS
<1>1. TypeOK
  BY IdleType DEF Init, TypeOK
<1>2. \A r \in Requests : req[r].pc = "idle"
  BY DEF Init, Idle
<1>3. \A d \in Boards, v \in Versions : snapshots[d][v] = NoSnapshot /\ analyses[d][v] = 0
  BY DEF Init
<1>4. \A r \in Requests : CreateInv(r) /\ CapturedInv(r) /\ InsertInv(r) /\ AnalyseInv(r)
  BY <1>2 DEF CreateInv, CapturedInv, InsertInv, AnalyseInv
<1>5. OneCreate /\ OneInsert /\ VersionsDense /\ NoEcho /\ MappedSources /\ OneAnalysis
  BY <1>2, <1>3 DEF OneCreate, OneInsert, VersionsDense, NoEcho, MappedSources, OneAnalysis
<1> QED
  BY <1>1, <1>4, <1>5 DEF Inv

\* The inductive invariant holds in every behaviour.
THEOREM DashboardsInvariant == Spec => []Inv
BY InvInit, InvStep, PTL DEF Spec

-----------------------------------------------------------------------------
(***************************************************************************)
(* The theorems.                                                           *)
(***************************************************************************)

\* The rows and the local state of the requests always have their types; the
\* stored insight configuration is NULL or names at least one job.
THEOREM DashboardsTypeOK == Spec => []TypeOK
<1>1. Inv => TypeOK
  BY DEF Inv
<1> QED
  BY <1>1, DashboardsInvariant, PTL

\* materialize numbers the snapshots of a dashboard without gaps, and deleting
\* the dashboard leaves none, whatever requests race.
THEOREM SnapshotVersionsDense == Spec => []VersionsDense
<1>1. Inv => VersionsDense
  BY DEF Inv
<1> QED
  BY <1>1, DashboardsInvariant, PTL

\* materialize never stores the content of the latest snapshot again.
THEOREM SnapshotsDiffer == Spec => []NoEcho
<1>1. Inv => NoEcho
  BY DEF Inv
<1> QED
  BY <1>1, DashboardsInvariant, PTL

\* A snapshot with insights shows exactly the completed jobs that its own
\* insight configuration names.
THEOREM SnapshotSourcesMapped == Spec => []MappedSources
<1>1. Inv => MappedSources
  BY DEF Inv
<1> QED
  BY <1>1, DashboardsInvariant, PTL

\* get_or_create_dashboard_analysis creates at most one conversation for a
\* snapshot that exists and has insights.
THEOREM SnapshotHasOneAnalysis == Spec => []OneAnalysis
<1>1. Inv => OneAnalysis
  BY DEF Inv
<1> QED
  BY <1>1, DashboardsInvariant, PTL

\* However many creations race, each one is committed below the limit that the
\* subscription grants at that moment.
THEOREM DashboardLimit == Spec => LimitRespected
<1> DEFINE Below == \A d \in Boards : rows[d].state = "none" /\ rows'[d].state = "live" =>
                       (sub.limit # NoLimit => Cardinality(Live) < sub.limit)
<1>1. Inv /\ [Next]_vars => [Below]_vars
  <2> SUFFICES ASSUME Inv, Next, NEW d \in Boards, rows[d].state = "none", rows'[d].state = "live"
               PROVE  BelowLimit
    BY DEF BelowLimit
  <2>0. TypeOK
    BY DEF Inv
  <2>1. CASE UNCHANGED rows
    BY <2>1
  <2>2. ASSUME NEW b \in Boards, Delete(b) PROVE BelowLimit
    BY <2>0, <2>2, DeleteWrites
  <2>3. ASSUME NEW r \in Requests, ChangeCommit(r) PROVE BelowLimit
    BY <2>0, <2>3, ChangeWrites
  <2>4. ASSUME NEW r \in Requests, CreateCommit(r) PROVE BelowLimit
    BY <2>4 DEF CreateCommit, Inv, CreateInv
  <2> QED
    BY <2>1, <2>2, <2>3, <2>4
       DEF Next, SyncSubscription, Expire, Process, Create, Change, Capture, Analyse, Lock,
           Insert, AnalyseCommit, Fail
<1> QED
  BY <1>1, DashboardsInvariant, PTL DEF Spec, LimitRespected

-----------------------------------------------------------------------------
(***************************************************************************)
(* The refinement.                                                         *)
(***************************************************************************)

LogVars == <<[d \in Boards |-> [state |-> rows[d].state, title |-> rows[d].title,
                                mapped |-> rows[d].mapped]], snapshots, ready, sub.limit>>

LEMMA LogInit == Init => Log!Init
<1> SUFFICES ASSUME Init PROVE Log!Init
  OBVIOUS
<1>1. sub.limit \in Nat \cup {NoLimit}
  BY DashboardsAssumption DEF Init, Sub
<1>2. [d \in Boards |-> [state |-> rows[d].state, title |-> rows[d].title,
                         mapped |-> rows[d].mapped]] = [d \in Boards |-> Log!Absent("none")]
  BY DEF Init, NoRow, Log!Absent
<1> QED
  BY <1>1, <1>2 DEF Init, Log!Init, Log!Versions, Versions

\* A step that changes neither a row nor a snapshot.
LEMMA LogStutter ==
    ASSUME UNCHANGED <<rows, snapshots, ready>>, sub'.limit = sub.limit
    PROVE  UNCHANGED LogVars
BY DEF LogVars

\* A row as the abstract specification sees it.
Seen(row) == [state |-> row.state, title |-> row.title, mapped |-> row.mapped]

SeenRows == [d \in Boards |-> Seen(rows[d])]

\* FiniteSets is the same in both modules.
LEMMA SameCardinality == \A S : Log!Cardinality(S) = Cardinality(S)
BY DEF Log!Cardinality, Cardinality

LEMMA LogCreate ==
    ASSUME Inv, NEW r \in Requests, CreateCommit(r), NEW d \in Boards, d = req[r].board
    PROVE  Log!Create(d)
<1> DEFINE new == [state |-> "live", title |-> req[r].title, mapped |-> req[r].mapped,
                   rev |-> 0]
<1>1. /\ req[r].title \in Titles /\ req[r].mapped \in Mappings
      /\ rows[d].state = "none" /\ BelowLimit /\ rows \in [Boards -> Row]
  BY DEF Inv, CreateCommit, CreateInv, TypeOK, Request
<1>2. rows' = [rows EXCEPT ![d] = new] /\ UNCHANGED <<snapshots, ready, sub>>
  BY DEF CreateCommit
<1>3. Seen(new) = [state |-> "live", title |-> req[r].title, mapped |-> req[r].mapped]
  BY DEF Seen
<1>4. SeenRows' = [SeenRows EXCEPT ![d] = Seen(new)]
  BY <1>1, <1>2 DEF SeenRows
<1>5. Log!Live = Live
  BY DEF Log!Live, Live
<1>6. req[r].mapped \in Log!Mappings
  BY <1>1 DEF Log!Mappings, Mappings
<1>7. SeenRows[d].state = "none"
  BY <1>1 DEF SeenRows, Seen
<1>8. sub.limit # NoLimit => Log!Cardinality(Log!Live) < sub.limit
  BY <1>1, <1>5, SameCardinality DEF BelowLimit
<1>9. \E t \in Titles, m \in Log!Mappings :
        SeenRows' = [SeenRows EXCEPT ![d] = [state |-> "live", title |-> t, mapped |-> m]]
  BY <1>1, <1>3, <1>4, <1>6
<1> QED
  BY <1>2, <1>7, <1>8, <1>9 DEF Log!Create, SeenRows, Seen

LEMMA LogChange ==
    ASSUME Inv, NEW r \in Requests, ChangeCommit(r), NEW d \in Boards, d = req[r].board
    PROVE  Log!Change(d) \/ UNCHANGED LogVars
<1>1. d \in Boards /\ rows \in [Boards -> Row] /\ UNCHANGED <<snapshots, ready, sub>>
  BY DEF Inv, ChangeCommit, TypeOK, Request
<1>2. CASE rows' = rows
  BY <1>1, <1>2, LogStutter
<1>3. ASSUME rows[d].state = "live",
             NEW row \in Row, row.state = "live", rows' = [rows EXCEPT ![d] = row]
      PROVE  Log!Change(d)
  <2>1. Seen(row) = [state |-> "live", title |-> row.title, mapped |-> row.mapped]
    BY <1>3 DEF Seen
  <2>2. row.title \in Titles /\ row.mapped \in Log!Mappings
    BY DEF Row, Mappings, Log!Mappings
  <2>3. SeenRows' = [SeenRows EXCEPT ![d] = Seen(row)]
    BY <1>1, <1>3 DEF SeenRows
  <2> QED
    BY <1>1, <1>3, <2>1, <2>2, <2>3 DEF Log!Change, SeenRows, Seen
<1> QED
  BY <1>2, <1>3, ChangeWrites DEF Inv

LEMMA LogRemove ==
    ASSUME Inv, NEW d \in Boards, Delete(d)
    PROVE  Log!Remove(d)
<1> DEFINE new == [NoRow EXCEPT !.state = "deleted"]
<1>1. rows \in [Boards -> Row] /\ UNCHANGED <<ready, sub>> /\ rows[d].state = "live"
  BY DEF Inv, Delete, TypeOK
<1>2. rows' = [rows EXCEPT ![d] = new]
  BY DEF Delete
<1>3. Seen(new) = Log!Absent("deleted")
  BY DEF Seen, NoRow, Log!Absent
<1>4. SeenRows' = [SeenRows EXCEPT ![d] = Seen(new)]
  BY <1>1, <1>2 DEF SeenRows
<1>5. snapshots' = [snapshots EXCEPT ![d] = [v \in Log!Versions |-> NoSnapshot]]
  BY DEF Delete, Versions, Log!Versions
<1> QED
  BY <1>1, <1>3, <1>4, <1>5 DEF Log!Remove, SeenRows, Seen

LEMMA LogMaterialize ==
    ASSUME Inv, NEW r \in Requests, Insert(r), NEW d \in Boards, d = req[r].board,
           NEW v, v = NextVersion(r)
    PROVE  (v \in Log!Versions /\ Log!Materialize(d, v)) \/ UNCHANGED LogVars
<1> DEFINE S == req[r].sources
<1>1. /\ req[r].pc = "insert" /\ d \in Boards /\ UNCHANGED <<rows, ready, sub>>
      /\ req[r].version \in 0..MaxVersion
  BY DEF Inv, Insert, TypeOK, Request
<1>2. /\ rows[d] = req[r].row /\ rows[d].state = "live" /\ IsLatest(d, req[r].version)
      /\ S # {} /\ S \subseteq ready /\ Matches(rows[d].mapped, S)
  BY <1>1 DEF Inv, InsertInv, CapturedInv
<1>3. CASE UNCHANGED snapshots
  BY <1>1, <1>3, LogStutter
<1>4. CASE ~Replayed(r) /\ v \in Versions /\ snapshots' = [snapshots EXCEPT ![d][v] = Built(r)]
  <2>1. v = req[r].version + 1 /\ req[r].version \in Nat /\ v - 1 = req[r].version
    BY <1>1, DashboardsAssumption DEF NextVersion
  <2>2. v > req[r].version /\ (v > 1 => req[r].version \in Versions /\ req[r].version > 0)
    BY <1>4, <2>1, DashboardsAssumption DEF Versions
  <2>3. snapshots[d][v] = NoSnapshot /\ (v > 1 => snapshots[d][v - 1] \notin {NoSnapshot, Built(r)})
    BY <1>2, <1>4, <2>1, <2>2 DEF IsLatest, Replayed
  <2>4. SeenRows[d].state = "live" /\ SeenRows[d].mapped = rows[d].mapped
    BY <1>1, <1>2 DEF SeenRows, Seen
  <2>5. Log!Content(SeenRows[d], S) = Built(r)
    BY <1>1, <1>2 DEF SeenRows, Seen, Log!Content, Built
  <2>6. v \in Log!Versions
    BY <1>4 DEF Versions, Log!Versions
  <2>7. S \in (SUBSET ready) \ {{}} /\ (SeenRows[d].mapped # NoInsight => S = SeenRows[d].mapped)
    BY <1>2, <2>4 DEF Matches
  <2>8. UNCHANGED SeenRows /\ UNCHANGED ready /\ sub'.limit = sub.limit
    BY <1>1 DEF SeenRows
  <2>9. \E T \in (SUBSET ready) \ {{}} :
          /\ SeenRows[d].mapped # NoInsight => T = SeenRows[d].mapped
          /\ v > 1 => snapshots[d][v - 1] \notin {NoSnapshot, Log!Content(SeenRows[d], T)}
          /\ snapshots' = [snapshots EXCEPT ![d][v] = Log!Content(SeenRows[d], T)]
    BY <1>4, <2>3, <2>5, <2>7
  <2> HIDE DEF S
  <2> QED
    BY <2>3, <2>4, <2>6, <2>8, <2>9 DEF Log!Materialize, SeenRows, Seen
<1> QED
  BY <1>3, <1>4 DEF Insert

LEMMA LogStep == Inv /\ [Next]_vars => [Log!Next]_LogVars
<1> SUFFICES ASSUME Inv, [Next]_vars PROVE Log!Next \/ UNCHANGED LogVars
  OBVIOUS
<1>0. TypeOK
  BY DEF Inv
<1>1. CASE UNCHANGED vars
  BY <1>1, LogStutter DEF vars
<1>2. CASE SyncSubscription
  <2>1. sub'.limit \in Nat \cup {NoLimit}
    BY <1>2, DashboardsAssumption DEF SyncSubscription, Sub
  <2>2. Log!Resubscribe
    BY <1>2, <2>1 DEF SyncSubscription, Log!Resubscribe
  <2> QED
    BY <2>2 DEF Log!Next
<1>3. CASE Expire
  <2>1. sub'.limit = sub.limit
    BY <1>0, <1>3 DEF Expire, TypeOK, Sub
  <2> QED
    BY <1>3, <2>1, LogStutter DEF Expire
<1>4. ASSUME NEW j \in Jobs, Process(j) PROVE Log!Next
  <2>1. Log!Process(j)
    BY <1>4 DEF Process, Log!Process
  <2> QED
    BY <2>1 DEF Log!Next
<1>5. ASSUME NEW d \in Boards, Delete(d) PROVE Log!Next
  BY <1>5, LogRemove DEF Log!Next
<1>6. ASSUME NEW r \in Requests PROVE \E d \in Boards : d = req[r].board
  BY <1>0 DEF TypeOK, Request
<1>7. ASSUME NEW r \in Requests, CreateCommit(r) PROVE Log!Next
  <2>1. PICK d \in Boards : d = req[r].board
    BY <1>6
  <2>2. Log!Create(d)
    BY <1>7, <2>1, LogCreate
  <2> QED
    BY <2>2 DEF Log!Next
<1>8. ASSUME NEW r \in Requests, ChangeCommit(r) PROVE Log!Next \/ UNCHANGED LogVars
  <2>1. PICK d \in Boards : d = req[r].board
    BY <1>6
  <2>2. Log!Change(d) \/ UNCHANGED LogVars
    BY <1>8, <2>1, LogChange
  <2> QED
    BY <2>2 DEF Log!Next
<1>9. ASSUME NEW r \in Requests, Insert(r) PROVE Log!Next \/ UNCHANGED LogVars
  <2>1. PICK d \in Boards : d = req[r].board
    BY <1>6
  <2>2. PICK v : v = NextVersion(r)
    OBVIOUS
  <2>3. (v \in Log!Versions /\ Log!Materialize(d, v)) \/ UNCHANGED LogVars
    BY <1>9, <2>1, <2>2, LogMaterialize
  <2> QED
    BY <2>3 DEF Log!Next
<1>10. ASSUME UNCHANGED <<rows, snapshots, ready, sub>> PROVE UNCHANGED LogVars
  BY <1>10, LogStutter
<1> HIDE DEF Log!Next
<1> QED
  BY <1>1, <1>2, <1>3, <1>4, <1>5, <1>7, <1>8, <1>9, <1>10
     DEF Next, Create, Change, Capture, Analyse, Lock, AnalyseCommit, Fail

\* DashboardService and DashboardSnapshotService together implement the log of
\* atomic operations: each step of a request is a step of the log or none.
THEOREM DashboardsImplementLog == Spec => ImplementsLog
<1>1. Init => Log!Init
  BY LogInit
<1>2. Inv /\ [Next]_vars => [Log!Next]_LogVars
  BY LogStep
<1> QED
  BY <1>1, <1>2, DashboardsInvariant, PTL DEF Spec, ImplementsLog, Log!Spec, LogVars

=============================================================================
