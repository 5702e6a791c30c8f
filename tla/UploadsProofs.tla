---------------------------- MODULE UploadsProofs -----------------------------
(***************************************************************************)
(* Proofs about Uploads, for any number of files, requests and posts and   *)
(* any times.  The properties rest on what every step leaves of the        *)
(* versions posted so far (Kept): an immutable version keeps its content,  *)
(* is removed only if it is not sound, and never comes back.               *)
(***************************************************************************)
EXTENDS Uploads, TLAPS

\* The version is what verification accepts.
Sound(u, v) == store[u][v].quality = "sound" /\ store[u][v].at <= batch.expires

\* The version has an identifier of its own and has been posted.
Fixed(v) == v # Null /\ v <= posts

\* A verdict is justified by what S3 holds.
Justified(u, row) ==
    /\ row.status = "uploaded" =>
         Fixed(row.version) /\ store[u][row.version].stamp # 0 /\ Sound(u, row.version)
    /\ row.status = "rejected" =>
         Fixed(row.version) /\ store[u][row.version].stamp = 0

NothingYet ==
    batch.status = "none" =>
       /\ uploads = NewUploads /\ jobs = {} /\ flying = {}
       /\ \A r \in Requests : req[r].pc = "idle"

\* Versions are numbered by the posts.
Numbered == \A u \in Files, v \in Versions : v > posts => store[u][v].stamp = 0

OneRequest ==
    \A r, s \in Requests : req[r].pc # "idle" /\ req[s].pc # "idle" => r = s

\* Deletions still under way are of versions that were refused.
FlyingRefused ==
    \A u \in Files, v \in Versions : <<u, v>> \in flying => Fixed(v) /\ ~Sound(u, v)

RequestInv(r) ==
    req[r].pc # "idle" =>
       /\ \A u \in Files : /\ Justified(u, req[r].rows[u])
                           /\ uploads[u].status # "pending" => req[r].rows[u] = uploads[u]
       /\ req[r].pc # "commit" => batch.status = "pending"
       /\ batch.status # "pending" => req[r].rows = uploads
       /\ req[r].pc \in {"read", "delete"} =>
            Fixed(req[r].version) /\ req[r].rows[req[r].next].status = "pending"
       /\ req[r].pc = "read" =>
            /\ store[req[r].next][req[r].version].quality # "headers"
            /\ store[req[r].next][req[r].version].at <= batch.expires
       /\ req[r].pc = "delete" =>
            /\ ~Sound(req[r].next, req[r].version)
            /\ req[r].verdict # "none"

\* The inductive invariant.
Inv ==
    /\ TypeOK /\ NothingYet /\ Numbered /\ OneRequest /\ FlyingRefused
    /\ \A u \in Files : Justified(u, uploads[u])
    /\ \A r \in Requests : RequestInv(r)
    /\ BatchSettledTogether

-----------------------------------------------------------------------------
(***************************************************************************)
(* Types.                                                                  *)
(***************************************************************************)

LEMMA FilesType == 1 \in Files /\ FileCount \in Files /\ Null \in Versions
BY UploadsAssumption DEF Files, Versions, Null

LEMMA IdleType == Idle \in Request /\ NewUploads \in [Files -> Upload]
<1>1. NewUploads \in [Files -> Upload]
  BY FilesType DEF NewUploads, Upload
<1> QED
  BY <1>1, FilesType DEF Idle, Request

LEMMA RemovedType ==
    ASSUME TypeOK, NEW u \in Files, NEW v \in Versions
    PROVE  Removed(u, v) \in [Files -> [Versions -> Object]]
<1>1. [store[u][v] EXCEPT !.stamp = 0] \in Object
  BY DEF TypeOK, Object
<1>2. [store[u] EXCEPT ![v] = [store[u][v] EXCEPT !.stamp = 0]] \in [Versions -> Object]
  BY <1>1 DEF TypeOK
<1>3. Removed(u, v) = 
        [store EXCEPT ![u] = [store[u] EXCEPT ![v] = [store[u][v] EXCEPT !.stamp = 0]]]
  BY DEF TypeOK, Removed
<1> QED
  BY <1>2, <1>3 DEF TypeOK

LEMMA GoesType ==
    ASSUME TypeOK, NEW r \in Requests, NEW rows \in [Files -> Upload], Goes(r, rows)
    PROVE  req' \in [Requests -> Request]
<1>1. req[r] \in Request
  BY DEF TypeOK
<1>2. req[r].next # FileCount => req[r].next + 1 \in Files
  BY <1>1, UploadsAssumption DEF Request, Files
<1>3. [req[r] EXCEPT !.pc = "commit", !.rows = rows] \in Request
  BY <1>1 DEF Request
<1>4. req[r].next # FileCount =>
        [req[r] EXCEPT !.pc = "head", !.next = req[r].next + 1, !.rows = rows] \in Request
  BY <1>1, <1>2 DEF Request
<1>5. CASE req[r].next = FileCount
  <2>1. req' = [req EXCEPT ![r] = [req[r] EXCEPT !.pc = "commit", !.rows = rows]]
    BY <1>5 DEF Goes, TypeOK
  <2> QED
    BY <1>3, <2>1 DEF TypeOK
<1>6. CASE req[r].next # FileCount
  <2>1. req' = [req EXCEPT ![r] =
                  [req[r] EXCEPT !.pc = "head", !.next = req[r].next + 1, !.rows = rows]]
    BY <1>6 DEF Goes, TypeOK
  <2> QED
    BY <1>4, <1>6, <2>1 DEF TypeOK
<1> QED
  BY <1>5, <1>6

LEMMA SettlesType ==
    ASSUME TypeOK, NEW r \in Requests, NEW v \in Versions,
           NEW st \in {"uploaded", "rejected", "expired"}, Settles(r, st, v)
    PROVE  req' \in [Requests -> Request]
<1>1. req[r] \in Request
  BY DEF TypeOK
<1>2. [status |-> st, version |-> v] \in Upload
  BY DEF Upload
<1>3. [req[r].rows EXCEPT ![req[r].next] = [status |-> st, version |-> v]] \in [Files -> Upload]
  BY <1>1, <1>2 DEF Request
<1> QED
  BY <1>3, GoesType DEF Settles

LEMMA NotFoundType ==
    ASSUME TypeOK, NEW r \in Requests, NotFound(r)
    PROVE  req' \in [Requests -> Request]
<1>1. req[r].rows \in [Files -> Upload]
  BY DEF TypeOK, Request
<1> QED
  BY <1>1, GoesType, SettlesType, FilesType DEF NotFound

LEMMA RejectType ==
    ASSUME TypeOK, NEW r \in Requests, NEW v \in Versions,
           NEW verdict \in {"rejected", "expired"}, Reject(r, v, verdict)
    PROVE  req' \in [Requests -> Request]
<1>1. req[r] \in Request
  BY DEF TypeOK
<1>2. [req[r] EXCEPT !.pc = "delete", !.version = v, !.verdict = verdict] \in Request
  BY <1>1 DEF Request
<1> QED
  BY <1>2 DEF Reject, TypeOK

LEMMA IdleAgain ==
    ASSUME TypeOK, NEW r \in Requests, req' = [req EXCEPT ![r] = Idle]
    PROVE  req' \in [Requests -> Request]
BY IdleType DEF TypeOK

LEMMA HeadType ==
    ASSUME TypeOK, NEW r \in Requests, Head(r)
    PROVE  req' \in [Requests -> Request]
<1> DEFINE u == req[r].next
<1>1. CASE Goes(r, req[r].rows)
  <2>1. req[r].rows \in [Files -> Upload]
    BY DEF TypeOK, Request
  <2> QED
    BY <1>1, <2>1, GoesType
<1>2. CASE NotFound(r)
  BY <1>2, NotFoundType
<1>3. ASSUME NEW v \in Versions, HeaderVerdict(u, v) # "none", Reject(r, v, HeaderVerdict(u, v))
      PROVE  req' \in [Requests -> Request]
  <2>1. HeaderVerdict(u, v) \in {"rejected", "expired"}
    BY <1>3 DEF HeaderVerdict
  <2> QED
    BY <1>3, <2>1, RejectType
<1>4. ASSUME NEW v \in Versions,
             req' = [req EXCEPT ![r] = [@ EXCEPT !.pc = "read", !.version = v]]
      PROVE  req' \in [Requests -> Request]
  <2>1. req[r] \in Request
    BY DEF TypeOK
  <2>2. [req[r] EXCEPT !.pc = "read", !.version = v] \in Request
    BY <2>1 DEF Request
  <2> QED
    BY <1>4, <2>2 DEF TypeOK
<1> QED
  BY <1>1, <1>2, <1>3, <1>4, IdleAgain DEF Head

LEMMA ReadType ==
    ASSUME TypeOK, NEW r \in Requests, Read(r)
    PROVE  req' \in [Requests -> Request]
<1>1. req[r].version \in Versions
  BY DEF TypeOK, Request
<1> QED
  BY <1>1, NotFoundType, RejectType, SettlesType DEF Read

LEMMA TypeStep ==
    ASSUME TypeOK, \A r \in Requests : RequestInv(r), [Next]_vars
    PROVE  TypeOK'
<1>1. CASE UNCHANGED vars
  BY <1>1 DEF TypeOK, vars
<1>2. CASE CreateBatch
  <2>1. clock + Lifetime \in Nat
    BY UploadsAssumption DEF TypeOK
  <2>2. batch' \in Batch
    BY <1>2, <2>1 DEF CreateBatch, Batch
  <2>3. checked' \in Int
    BY <1>2 DEF CreateBatch, EnsureBucketSecurity, TypeOK
  <2> QED
    BY <1>2, <2>2, <2>3, IdleType DEF CreateBatch, TypeOK
<1>3. ASSUME NEW u \in Files, NEW q \in Qualities, Post(u, q) PROVE TypeOK'
  <2> DEFINE new == [stamp |-> posts + 1, quality |-> q, at |-> clock]
             v == IF versioned THEN posts + 1 ELSE Null
  <2>1. posts + 1 \in 0..MaxPosts /\ v \in Versions
    BY <1>3, UploadsAssumption, FilesType DEF Post, TypeOK, Versions, Null
  <2>2. new \in Object
    BY <2>1 DEF TypeOK, Object
  <2>3. [store[u] EXCEPT ![v] = new] \in [Versions -> Object]
    BY <2>1, <2>2 DEF TypeOK
  <2>4. store' = [store EXCEPT ![u] = [store[u] EXCEPT ![v] = new]]
    BY <1>3 DEF Post, TypeOK
  <2>5. store' \in [Files -> [Versions -> Object]]
    BY <2>3, <2>4 DEF TypeOK
  <2> QED
    BY <1>3, <2>1, <2>5 DEF Post, TypeOK
<1>4. ASSUME NEW on \in BOOLEAN, SetVersioning(on) PROVE TypeOK'
  BY <1>4 DEF SetVersioning, TypeOK
<1>5. CASE LateDelete
  <2>1. PICK d \in flying : store' = Removed(d[1], d[2]) /\ flying' = flying \ {d}
    BY <1>5 DEF LateDelete
  <2>2. d[1] \in Files /\ d[2] \in Versions
    BY <2>1 DEF TypeOK
  <2> QED
    BY <1>5, <2>1, <2>2, RemovedType DEF LateDelete, TypeOK
<1>6. CASE Tick
  BY <1>6 DEF Tick, TypeOK
<1>7. ASSUME NEW r \in Requests, Begin(r) PROVE TypeOK'
  <2>1. [Idle EXCEPT !.pc = "head", !.now = clock, !.rows = uploads] \in Request
    BY IdleType DEF TypeOK, Request
  <2>2. [Idle EXCEPT !.pc = "commit", !.rows = uploads] \in Request
    BY IdleType DEF TypeOK, Request
  <2>3. req' \in [Requests -> Request]
    BY <1>7, <2>1, <2>2 DEF Begin, TypeOK
  <2>4. checked' \in Int
    BY <1>7 DEF Begin, EnsureBucketSecurity, TypeOK
  <2> QED
    BY <1>7, <2>3, <2>4 DEF Begin, TypeOK
<1>8. ASSUME NEW r \in Requests, Head(r) PROVE TypeOK'
  BY <1>8, HeadType DEF Head, TypeOK
<1>9. ASSUME NEW r \in Requests, Read(r) PROVE TypeOK'
  BY <1>9, ReadType DEF Read, TypeOK
<1>10. ASSUME NEW r \in Requests, Delete(r) PROVE TypeOK'
  <2>1. /\ req[r].next \in Files /\ req[r].version \in Versions
        /\ req[r].verdict \in {"rejected", "expired"}
    BY <1>10 DEF Delete, RequestInv, TypeOK, Request
  <2>2. req' \in [Requests -> Request]
    BY <1>10, <2>1, SettlesType DEF Delete
  <2>3. store' \in [Files -> [Versions -> Object]]
    BY <1>10, <2>1, RemovedType DEF Delete
  <2> QED
    BY <1>10, <2>2, <2>3 DEF Delete, TypeOK
<1>11. ASSUME NEW r \in Requests, DeleteLost(r) PROVE TypeOK'
  <2>1. req[r].next \in Files /\ req[r].version \in Versions
    BY DEF TypeOK, Request
  <2>2. flying' \subseteq Files \X Versions
    BY <1>11, <2>1 DEF DeleteLost, TypeOK
  <2>3. req' \in [Requests -> Request]
    BY <1>11, IdleAgain DEF DeleteLost
  <2> QED
    BY <1>11, <2>2, <2>3 DEF DeleteLost, TypeOK
<1>12. ASSUME NEW r \in Requests, Commit(r) PROVE TypeOK'
  <2> DEFINE rows == req[r].rows
             status == IF batch.status = "pending" THEN BatchStatus(rows) ELSE batch.status
  <2>1. rows \in [Files -> Upload]
    BY DEF TypeOK, Request
  <2>2. BatchStatus(rows) \in {"pending", "complete", "partial", "expired", "rejected"}
    BY DEF BatchStatus
  <2>3. [batch EXCEPT !.status = status] \in Batch
    BY <2>2 DEF TypeOK, Batch
  <2>4. jobs' \subseteq Files
    BY <1>12 DEF Commit, Uploaded, TypeOK
  <2> QED
    BY <1>12, <2>1, <2>3, <2>4, IdleAgain DEF Commit, TypeOK
<1>13. ASSUME NEW r \in Requests, Fail(r) PROVE TypeOK'
  BY <1>13, IdleAgain DEF Fail, TypeOK
<1> QED
  BY <1>1, <1>2, <1>3, <1>4, <1>5, <1>6, <1>7, <1>8, <1>9, <1>10, <1>11, <1>12, <1>13
     DEF Next, Step

-----------------------------------------------------------------------------
(***************************************************************************)
(* What every step leaves of the store.                                    *)
(***************************************************************************)

Kept ==
    /\ posts <= posts'
    /\ batch.status # "none" => batch'.status # "none" /\ batch'.expires = batch.expires
    /\ \A u \in Files, v \in Versions : Fixed(v) =>
         /\ store'[u][v].quality = store[u][v].quality
         /\ store'[u][v].at = store[u][v].at
         /\ \/ store'[u][v].stamp = store[u][v].stamp
            \/ store'[u][v].stamp = 0 /\ ~Sound(u, v)

\* Justified, of a row that is known already, in the next state.
JustifiedNext(u, row) ==
    /\ row.status = "uploaded" =>
         /\ row.version # Null /\ row.version <= posts'
         /\ store'[u][row.version].stamp # 0
         /\ store'[u][row.version].quality = "sound"
         /\ store'[u][row.version].at <= batch'.expires
    /\ row.status = "rejected" =>
         /\ row.version # Null /\ row.version <= posts'
         /\ store'[u][row.version].stamp = 0

LEMMA RemovedAt ==
    ASSUME TypeOK, NEW u \in Files, NEW v \in Versions, NEW w \in Files, NEW x \in Versions
    PROVE  /\ Removed(u, v)[w][x].quality = store[w][x].quality
           /\ Removed(u, v)[w][x].at = store[w][x].at
           /\ Removed(u, v)[w][x].stamp =
                IF w = u /\ x = v THEN 0 ELSE store[w][x].stamp
<1>1. /\ store[w] \in [Versions -> Object] /\ store[u] \in [Versions -> Object]
      /\ store[u][v] \in Object /\ store[w][x] \in Object
  BY DEF TypeOK
<1>2. Removed(u, v)[w] =
        IF w = u THEN [store[u] EXCEPT ![v] = [store[u][v] EXCEPT !.stamp = 0]] ELSE store[w]
  BY <1>1 DEF TypeOK, Removed
<1>3. CASE w = u /\ x = v
  <2>1. Removed(u, v)[w][x] = [store[u][v] EXCEPT !.stamp = 0]
    BY <1>1, <1>2, <1>3
  <2> QED
    BY <1>1, <1>3, <2>1 DEF Object
<1>4. CASE ~(w = u /\ x = v)
  <2>1. Removed(u, v)[w][x] = store[w][x]
    BY <1>1, <1>2, <1>4
  <2> QED
    BY <1>4, <2>1
<1> QED
  BY <1>3, <1>4

LEMMA RemovedKept ==
    ASSUME Inv, NEW u \in Files, NEW v \in Versions, Fixed(v), ~Sound(u, v),
           store' = Removed(u, v), UNCHANGED <<batch, posts>>
    PROVE  Kept /\ Numbered'
<1>1. TypeOK
  BY DEF Inv
<1>2. \A w \in Files, x \in Versions :
        /\ store'[w][x].quality = store[w][x].quality
        /\ store'[w][x].at = store[w][x].at
        /\ store'[w][x].stamp = IF w = u /\ x = v THEN 0 ELSE store[w][x].stamp
  BY <1>1, RemovedAt
<1>3. Numbered'
  BY <1>2 DEF Inv, Numbered
<1>4. posts <= posts'
  BY <1>1 DEF TypeOK
<1> QED
  BY <1>2, <1>3, <1>4 DEF Kept

LEMMA SameKept ==
    ASSUME Inv, UNCHANGED <<store, posts>>,
           batch.status # "none" => batch'.status # "none" /\ batch'.expires = batch.expires
    PROVE  Kept /\ Numbered'
<1>1. posts <= posts'
  BY DEF Inv, TypeOK
<1> QED
  BY <1>1 DEF Kept, Inv, Numbered

LEMMA KeptStep ==
    ASSUME Inv, [Next]_vars
    PROVE  Kept /\ Numbered'
<1>0. TypeOK /\ Numbered
  BY DEF Inv
<1>1. CASE UNCHANGED vars
  BY <1>1, SameKept DEF vars
<1>2. CASE CreateBatch
  BY <1>2, SameKept DEF CreateBatch
<1>3. ASSUME NEW u \in Files, NEW q \in Qualities, Post(u, q) PROVE Kept /\ Numbered'
  <2> DEFINE new == [stamp |-> posts + 1, quality |-> q, at |-> clock]
             v == IF versioned THEN posts + 1 ELSE Null
  <2>1. posts \in Nat /\ posts + 1 \in 0..MaxPosts /\ v \in Versions /\ ~Fixed(v)
    BY <1>0, <1>3, UploadsAssumption, FilesType DEF Post, TypeOK, Versions, Null, Fixed
  <2>2. store' = [store EXCEPT ![u] = [store[u] EXCEPT ![v] = new]]
    BY <1>0, <1>3 DEF Post, TypeOK
  <2>3. \A w \in Files, x \in Versions :
          (x # v \/ w # u) => store'[w][x] = store[w][x]
    BY <1>0, <2>1, <2>2 DEF TypeOK
  <2>4. posts' = posts + 1 /\ batch' = batch
    BY <1>3 DEF Post
  <2>5. Kept
    BY <2>1, <2>3, <2>4 DEF Kept, Fixed
  <2>6. \A x \in Versions : x > posts' => x > posts /\ x # v
    BY <2>1, <2>4, UploadsAssumption DEF Versions, Null
  <2>7. Numbered'
    BY <1>0, <2>3, <2>6 DEF Numbered
  <2> QED
    BY <2>5, <2>7
<1>4. ASSUME NEW on \in BOOLEAN, SetVersioning(on) PROVE Kept /\ Numbered'
  BY <1>4, SameKept DEF SetVersioning
<1>5. CASE LateDelete
  <2>1. PICK d \in flying : store' = Removed(d[1], d[2])
    BY <1>5 DEF LateDelete
  <2>2. d[1] \in Files /\ d[2] \in Versions /\ d = <<d[1], d[2]>>
    BY <1>0, <2>1 DEF TypeOK
  <2>3. Fixed(d[2]) /\ ~Sound(d[1], d[2])
    BY <2>1, <2>2 DEF Inv, FlyingRefused
  <2> QED
    BY <1>5, <2>1, <2>2, <2>3, RemovedKept DEF LateDelete
<1>6. CASE Tick
  BY <1>6, SameKept DEF Tick
<1>7. ASSUME NEW r \in Requests, Begin(r) \/ Head(r) \/ Read(r) \/ DeleteLost(r) \/ Fail(r)
      PROVE  Kept /\ Numbered'
  BY <1>7, SameKept DEF Begin, Head, Read, DeleteLost, Fail
<1>8. ASSUME NEW r \in Requests, Delete(r) PROVE Kept /\ Numbered'
  <2>1. req[r].next \in Files /\ req[r].version \in Versions
    BY <1>0 DEF TypeOK, Request
  <2>2. Fixed(req[r].version) /\ ~Sound(req[r].next, req[r].version)
    BY <1>8 DEF Delete, Inv, RequestInv
  <2> QED
    BY <1>8, <2>1, <2>2, RemovedKept DEF Delete
<1>9. ASSUME NEW r \in Requests, Commit(r) PROVE Kept /\ Numbered'
  <2>1. BatchStatus(req[r].rows) # "none"
    BY DEF BatchStatus
  <2>2. batch.status # "none" => batch'.status # "none" /\ batch'.expires = batch.expires
    BY <1>0, <1>9, <2>1 DEF Commit, TypeOK, Batch
  <2> QED
    BY <1>9, <2>2, SameKept DEF Commit
<1> QED
  BY <1>1, <1>2, <1>3, <1>4, <1>5, <1>6, <1>7, <1>8, <1>9 DEF Next, Step

\* A verdict that is justified stays so.
LEMMA JustifiedKept ==
    ASSUME Kept, batch.status # "none", posts \in Int, posts' \in Int,
           NEW u \in Files, NEW row \in Upload, Justified(u, row)
    PROVE  JustifiedNext(u, row)
<1>1. row.version \in Versions /\ row.version \in Int
  BY UploadsAssumption DEF Upload, Versions, Null
<1> QED
  BY <1>1 DEF Kept, Justified, JustifiedNext, Fixed, Sound

-----------------------------------------------------------------------------
(***************************************************************************)
(* The requests.                                                           *)
(***************************************************************************)

\* A request that does not move keeps its invariant.
LEMMA RequestKept ==
    ASSUME Inv, Kept, posts' \in Int, UNCHANGED <<batch, uploads>>,
           NEW s \in Requests, req'[s] = req[s]
    PROVE  RequestInv(s)'
<1>1. CASE req[s].pc = "idle"
  BY <1>1 DEF RequestInv
<1>2. CASE req[s].pc # "idle"
  <2>1. /\ batch.status # "none" /\ RequestInv(s) /\ posts \in Int /\ req[s] \in Request
        /\ req[s].rows \in [Files -> Upload]
        /\ req[s].version \in Versions /\ req[s].version \in Int /\ req[s].next \in Files
    BY <1>2, UploadsAssumption DEF Inv, NothingYet, TypeOK, Request, Versions, Null
  <2>2. \A u \in Files : JustifiedNext(u, req[s].rows[u])
    BY <1>2, <2>1, JustifiedKept DEF RequestInv
  <2>3. \A u \in Files : Justified(u, req[s].rows[u])'
    BY <2>2 DEF Justified, JustifiedNext, Fixed, Sound
  <2>4. Fixed(req[s].version) =>
          /\ Fixed(req[s].version)'
          /\ store'[req[s].next][req[s].version].quality = store[req[s].next][req[s].version].quality
          /\ store'[req[s].next][req[s].version].at = store[req[s].next][req[s].version].at
    BY <2>1 DEF Kept, Fixed
  <2>5. Fixed(req[s].version) /\ ~Sound(req[s].next, req[s].version)
          => ~Sound(req[s].next, req[s].version)'
    BY <2>4 DEF Sound
  <2> QED
    BY <1>2, <2>1, <2>3, <2>4, <2>5 DEF RequestInv
<1> QED
  BY <1>1, <1>2

LEMMA GoesInv ==
    ASSUME TypeOK, NEW r \in Requests, NEW rows \in [Files -> Upload], Goes(r, rows),
           UNCHANGED <<batch, uploads>>, batch.status = "pending",
           \A u \in Files : /\ JustifiedNext(u, rows[u])
                            /\ uploads[u].status # "pending" => rows[u] = uploads[u]
    PROVE  RequestInv(r)' /\ req'[r].pc # "idle" /\ \A s \in Requests \ {r} : req'[s] = req[s]
<1>1. req[r] \in Request
  BY DEF TypeOK
<1>2. req'[r].pc \in {"head", "commit"} /\ req'[r].rows = rows
  BY <1>1 DEF Goes, TypeOK, Request
<1>3. \A s \in Requests \ {r} : req'[s] = req[s]
  BY DEF Goes, TypeOK
<1>4. \A u \in Files : Justified(u, req[r].rows[u])'
  BY <1>2 DEF Justified, JustifiedNext, Fixed, Sound
<1> QED
  BY <1>2, <1>3, <1>4 DEF RequestInv

\* The rows of a request that is under way, in the next state.
LEMMA RowsKept ==
    ASSUME Inv, Kept, posts' \in Int, NEW r \in Requests, req[r].pc # "idle"
    PROVE  /\ req[r].rows \in [Files -> Upload]
           /\ \A u \in Files :
                 /\ JustifiedNext(u, req[r].rows[u])
                 /\ uploads[u].status # "pending" => req[r].rows[u] = uploads[u]
<1>1. /\ batch.status # "none" /\ RequestInv(r) /\ posts \in Int
      /\ req[r].rows \in [Files -> Upload]
  BY DEF Inv, NothingYet, TypeOK, Request
<1> QED
  BY <1>1, JustifiedKept DEF RequestInv

LEMMA SettlesInv ==
    ASSUME Inv, Kept, posts' \in Int, NEW r \in Requests,
           NEW v \in Versions, NEW st \in {"uploaded", "rejected", "expired"},
           req[r].pc \notin {"idle", "commit"}, req[r].rows[req[r].next].status = "pending",
           UNCHANGED <<batch, uploads>>, Settles(r, st, v),
           JustifiedNext(req[r].next, [status |-> st, version |-> v])
    PROVE  RequestInv(r)' /\ req'[r].pc # "idle" /\ \A s \in Requests \ {r} : req'[s] = req[s]
<1> DEFINE row == [status |-> st, version |-> v]
           rows == [req[r].rows EXCEPT ![req[r].next] = row]
<1>1. TypeOK /\ batch.status = "pending" /\ req[r].next \in Files
  BY DEF Inv, RequestInv, TypeOK, Request
<1>2. row \in Upload
  BY DEF Upload
<1>3. req[r].rows \in [Files -> Upload]
  BY RowsKept
<1>4. rows \in [Files -> Upload]
  BY <1>2, <1>3
<1>5. \A u \in Files : rows[u] = IF u = req[r].next THEN row ELSE req[r].rows[u]
  BY <1>1, <1>3
<1>6. uploads[req[r].next].status = "pending"
  BY <1>1, RowsKept
<1>7. \A u \in Files : /\ JustifiedNext(u, rows[u])
                       /\ uploads[u].status # "pending" => rows[u] = uploads[u]
  BY <1>5, <1>6, RowsKept
<1>8. Goes(r, rows)
  BY DEF Settles
<1> HIDE DEF rows
<1> QED
  BY <1>1, <1>4, <1>7, <1>8, GoesInv

LEMMA NotFoundInv ==
    ASSUME Inv, Kept, posts' \in Int, NEW r \in Requests, NotFound(r),
           req[r].pc \notin {"idle", "commit"}, req[r].rows[req[r].next].status = "pending",
           UNCHANGED <<batch, uploads>>
    PROVE  RequestInv(r)' /\ req'[r].pc # "idle" /\ \A s \in Requests \ {r} : req'[s] = req[s]
<1>1. CASE Overdue(r)
  <2>1. JustifiedNext(req[r].next, [status |-> "expired", version |-> Null])
    BY DEF JustifiedNext
  <2> QED
    BY <1>1, <2>1, FilesType, SettlesInv DEF NotFound
<1>2. CASE ~Overdue(r)
  <2>1. TypeOK /\ batch.status = "pending"
    BY DEF Inv, RequestInv
  <2> QED
    BY <1>2, <2>1, RowsKept, GoesInv DEF NotFound
<1> QED
  BY <1>1, <1>2

\* The request goes on with the same file, having fixed a version.
LEMMA FileInv ==
    ASSUME Inv, Kept, posts' \in Int, NEW r \in Requests,
           UNCHANGED <<batch, uploads, store, posts>>,
           NEW v \in Versions, Fixed(v), NEW pc \in {"read", "delete"},
           req[r].pc \notin {"idle", "commit"}, req[r].rows[req[r].next].status = "pending",
           \A s \in Requests \ {r} : req'[s] = req[s],
           req'[r].pc = pc, req'[r].rows = req[r].rows, req'[r].next = req[r].next,
           req'[r].version = v,
           pc = "read" => /\ store[req[r].next][v].quality # "headers"
                          /\ store[req[r].next][v].at <= batch.expires,
           pc = "delete" => ~Sound(req[r].next, v) /\ req'[r].verdict # "none"
    PROVE  RequestInv(r)' /\ req'[r].pc # "idle" /\ \A s \in Requests \ {r} : req'[s] = req[s]
<1>1. batch.status = "pending"
  BY DEF Inv, RequestInv
<1>2. \A u \in Files : Justified(u, req[r].rows[u])'
  <2>1. \A u \in Files : JustifiedNext(u, req[r].rows[u])
    BY RowsKept
  <2>2. \A u \in Files : JustifiedNext(u, req'[r].rows[u])
    BY <2>1
  <2> QED
    BY <2>2 DEF Justified, JustifiedNext, Fixed, Sound
<1>3. pc = "delete" => ~Sound(req[r].next, req[r].version)'
  BY DEF Sound
<1>4. Fixed(req[r].version)'
  BY DEF Fixed
<1> QED
  BY <1>1, <1>2, <1>3, <1>4, RowsKept DEF RequestInv

LEMMA HeadInv ==
    ASSUME Inv, Kept, posts' \in Int, NEW r \in Requests, Head(r)
    PROVE  /\ RequestInv(r)' /\ \A s \in Requests \ {r} : req'[s] = req[s]
<1> DEFINE u == req[r].next
<1>0. /\ TypeOK /\ req[r].pc = "head" /\ u \in Files /\ batch.status = "pending"
      /\ UNCHANGED <<batch, uploads, store, posts>> /\ req[r] \in Request
  BY DEF Head, Inv, RequestInv, TypeOK, Request
<1>1. CASE Goes(r, req[r].rows)
  BY <1>0, <1>1, RowsKept, GoesInv
<1>2. CASE req[r].rows[u].status = "pending" /\ NotFound(r)
  BY <1>0, <1>2, NotFoundInv
<1>3. CASE req' = [req EXCEPT ![r] = Idle]
  BY <1>0, <1>3 DEF RequestInv, TypeOK, Idle
<1>4. ASSUME NEW v \in Versions, req[r].rows[u].status = "pending",
             IsLatest(u, v), Immutable(v),
             \/ HeaderVerdict(u, v) # "none" /\ Reject(r, v, HeaderVerdict(u, v))
             \/ /\ HeaderVerdict(u, v) = "none"
                /\ req' = [req EXCEPT ![r] = [@ EXCEPT !.pc = "read", !.version = v]]
      PROVE  /\ RequestInv(r)' /\ \A s \in Requests \ {r} : req'[s] = req[s]
  <2>1. Fixed(v)
    <3>1. v \in Int /\ posts \in Int
      BY <1>0, UploadsAssumption DEF Versions, Null, TypeOK
    <3>2. store[u][v].stamp # 0 /\ ~(v > posts)
      BY <1>0, <1>4 DEF IsLatest, Present, Inv, Numbered
    <3> QED
      BY <1>4, <3>1, <3>2 DEF Fixed, Immutable
  <2>2. CASE HeaderVerdict(u, v) # "none" /\ Reject(r, v, HeaderVerdict(u, v))
    <3>1. /\ \A s \in Requests \ {r} : req'[s] = req[s]
          /\ req'[r].pc = "delete" /\ req'[r].rows = req[r].rows /\ req'[r].next = u
          /\ req'[r].version = v /\ req'[r].verdict # "none"
      BY <1>0, <2>2 DEF Reject, TypeOK, Request
    <3>2. store[u][v].at \in Nat /\ batch.expires \in Nat
      BY <1>0 DEF TypeOK, Object, Batch
    <3>3. ~Sound(u, v)
      BY <2>2, <3>2 DEF HeaderVerdict, Sound
    <3> QED
      BY <1>0, <1>4, <2>1, <3>1, <3>3, FileInv
  <2>3. CASE /\ HeaderVerdict(u, v) = "none"
             /\ req' = [req EXCEPT ![r] = [@ EXCEPT !.pc = "read", !.version = v]]
    <3>1. /\ \A s \in Requests \ {r} : req'[s] = req[s]
          /\ req'[r].pc = "read" /\ req'[r].rows = req[r].rows /\ req'[r].next = u
          /\ req'[r].version = v
      BY <1>0, <2>3 DEF TypeOK, Request
    <3>2. store[u][v].at \in Nat /\ batch.expires \in Nat
      BY <1>0 DEF TypeOK, Object, Batch
    <3>3. store[u][v].quality # "headers" /\ store[u][v].at <= batch.expires
      BY <2>3, <3>2 DEF HeaderVerdict
    <3> QED
      BY <1>0, <1>4, <2>1, <3>1, <3>3, FileInv
  <2> QED
    BY <1>4, <2>2, <2>3
<1> QED
  BY <1>1, <1>2, <1>3, <1>4 DEF Head

LEMMA ReadInv ==
    ASSUME Inv, Kept, posts' \in Int, NEW r \in Requests, Read(r)
    PROVE  /\ RequestInv(r)' /\ \A s \in Requests \ {r} : req'[s] = req[s]
<1> DEFINE u == req[r].next
           v == req[r].version
<1>0. /\ TypeOK /\ req[r].pc = "read" /\ u \in Files /\ v \in Versions
      /\ UNCHANGED <<batch, uploads, store, posts>> /\ req[r] \in Request
  BY DEF Read, Inv, TypeOK, Request
<1>1. /\ req[r].rows[u].status = "pending" /\ Fixed(v)
      /\ store[u][v].quality # "headers" /\ store[u][v].at <= batch.expires
  BY <1>0 DEF Inv, RequestInv
<1>2. CASE NotFound(r)
  BY <1>0, <1>1, <1>2, NotFoundInv
<1>3. CASE Suspicious(u, v) /\ Reject(r, v, "rejected")
  <2>1. /\ \A s \in Requests \ {r} : req'[s] = req[s]
        /\ req'[r].pc = "delete" /\ req'[r].rows = req[r].rows /\ req'[r].next = u
        /\ req'[r].version = v /\ req'[r].verdict # "none"
    BY <1>0, <1>3 DEF Reject, TypeOK, Request
  <2>2. ~Sound(u, v)
    BY <1>3 DEF Suspicious, Sound
  <2> QED
    BY <1>0, <1>1, <2>1, <2>2, FileInv
<1>4. CASE v \in Present(u) /\ ~Suspicious(u, v) /\ Settles(r, "uploaded", v)
  <2>1. store[u][v].quality = "sound"
    BY <1>0, <1>1, <1>4 DEF Suspicious, TypeOK, Object, Qualities
  <2>2. JustifiedNext(u, [status |-> "uploaded", version |-> v])
    BY <1>0, <1>1, <1>4, <2>1 DEF JustifiedNext, Present, Fixed
  <2> QED
    BY <1>0, <1>1, <1>4, <2>2, SettlesInv
<1> QED
  BY <1>2, <1>3, <1>4 DEF Read

LEMMA DeleteInv ==
    ASSUME Inv, Kept, posts' \in Int, NEW r \in Requests, Delete(r)
    PROVE  /\ RequestInv(r)' /\ \A s \in Requests \ {r} : req'[s] = req[s]
<1> DEFINE u == req[r].next
           v == req[r].version
<1>0. /\ TypeOK /\ req[r].pc = "delete" /\ u \in Files /\ v \in Versions
      /\ UNCHANGED <<batch, uploads, posts>> /\ req[r] \in Request
  BY DEF Delete, Inv, TypeOK, Request
<1>1. req[r].rows[u].status = "pending" /\ Fixed(v) /\ req[r].verdict # "none"
  BY <1>0 DEF Inv, RequestInv
<1>2. store'[u][v].stamp = 0
  BY <1>0, RemovedAt DEF Delete
<1>3. JustifiedNext(u, [status |-> req[r].verdict, version |-> v])
  BY <1>0, <1>1, <1>2 DEF JustifiedNext, Fixed, Request
<1>4. req[r].verdict \in {"uploaded", "rejected", "expired"}
  BY <1>0, <1>1 DEF Request
<1> QED
  BY <1>0, <1>1, <1>3, <1>4, SettlesInv DEF Delete

\* A call that ends.
LEMMA EndInv ==
    ASSUME TypeOK, NEW r \in Requests, req' = [req EXCEPT ![r] = Idle]
    PROVE  /\ RequestInv(r)' /\ req'[r].pc = "idle"
           /\ \A s \in Requests \ {r} : req'[s] = req[s]
BY DEF RequestInv, TypeOK, Idle

LEMMA BeginInv ==
    ASSUME Inv, NEW r \in Requests, Begin(r)
    PROVE  /\ RequestInv(r)' /\ \A s \in Requests \ {r} : req'[s] = req[s]
<1>1. /\ \A s \in Requests \ {r} : req'[s] = req[s]
      /\ req'[r].rows = uploads /\ req'[r].pc \in {"head", "commit"}
      /\ req'[r].pc # "commit" => batch.status = "pending"
  BY DEF Begin, Inv, TypeOK, Idle
<1>2. UNCHANGED <<batch, uploads, store, posts>> /\ \A u \in Files : Justified(u, uploads[u])
  BY DEF Begin, Inv
<1>3. \A u \in Files : Justified(u, req[r].rows[u])'
  BY <1>1, <1>2 DEF Justified, Fixed, Sound
<1> QED
  BY <1>1, <1>2, <1>3 DEF RequestInv

LEMMA RequestStep ==
    ASSUME Inv, Next, Kept, TypeOK'
    PROVE  (\A s \in Requests : RequestInv(s)') /\ OneRequest'
<1>0. TypeOK /\ OneRequest /\ posts' \in Int
  BY DEF Inv, TypeOK
<1>1. CASE UNCHANGED <<batch, uploads, req>>
  BY <1>0, <1>1, RequestKept DEF OneRequest
<1>2. CASE CreateBatch
  <2>1. \A s \in Requests : req'[s].pc = "idle"
    BY <1>2 DEF CreateBatch, Inv, NothingYet
  <2> QED
    BY <2>1 DEF RequestInv, OneRequest
<1>3. ASSUME NEW r \in Requests, Begin(r)
      PROVE  (\A s \in Requests : RequestInv(s)') /\ OneRequest'
  <2>1. /\ UNCHANGED <<batch, uploads>>
        /\ \A s \in Requests \ {r} : req'[s] = req[s] /\ req[s].pc = "idle"
    BY <1>3, BeginInv DEF Begin, Unlocked
  <2>2. OneRequest'
    BY <2>1 DEF OneRequest
  <2> QED
    BY <1>0, <1>3, <2>1, <2>2, RequestKept, BeginInv
<1>4. ASSUME NEW r \in Requests, Head(r) \/ Read(r) \/ Delete(r)
      PROVE  (\A s \in Requests : RequestInv(s)') /\ OneRequest'
  <2>1. /\ UNCHANGED <<batch, uploads>> /\ req[r].pc # "idle" /\ RequestInv(r)'
        /\ \A s \in Requests \ {r} : req'[s] = req[s]
    BY <1>0, <1>4, HeadInv, ReadInv, DeleteInv DEF Head, Read, Delete
  <2>2. OneRequest'
    BY <1>0, <2>1 DEF OneRequest
  <2> QED
    BY <1>0, <2>1, <2>2, RequestKept
<1>5. ASSUME NEW r \in Requests, DeleteLost(r) \/ Fail(r)
      PROVE  (\A s \in Requests : RequestInv(s)') /\ OneRequest'
  <2>1. /\ UNCHANGED <<batch, uploads>> /\ RequestInv(r)' /\ req'[r].pc = "idle"
        /\ \A s \in Requests \ {r} : req'[s] = req[s]
    BY <1>0, <1>5, EndInv DEF DeleteLost, Fail
  <2>2. OneRequest'
    BY <1>0, <2>1 DEF OneRequest
  <2> QED
    BY <1>0, <2>1, <2>2, RequestKept
<1>6. ASSUME NEW r \in Requests, Commit(r)
      PROVE  (\A s \in Requests : RequestInv(s)') /\ OneRequest'
  <2>1. /\ req[r].pc = "commit" /\ req'[r].pc = "idle"
        /\ \A s \in Requests \ {r} : req'[s] = req[s]
    BY <1>0, <1>6, EndInv DEF Commit
  <2>2. \A s \in Requests : req'[s].pc = "idle"
    BY <1>0, <2>1 DEF OneRequest
  <2> QED
    BY <2>2 DEF RequestInv, OneRequest
<1> QED
  BY <1>1, <1>2, <1>3, <1>4, <1>5, <1>6
     DEF Next, Step, Post, SetVersioning, LateDelete, Tick

-----------------------------------------------------------------------------
(***************************************************************************)
(* The batch and its files.                                                *)
(***************************************************************************)

\* What a commit writes.
LEMMA CommitResult ==
    ASSUME Inv, NEW r \in Requests, Commit(r)
    PROVE  /\ batch'.status # "none" /\ BatchSettledTogether'
           /\ \A u \in Files : uploads[u].status # "pending" => uploads'[u] = uploads[u]
           /\ batch.status # "pending" => batch' = batch
           /\ jobs \subseteq jobs'
<1> DEFINE rows == req[r].rows
<1>0. /\ TypeOK /\ RequestInv(r) /\ BatchSettledTogether /\ req[r].pc = "commit"
      /\ batch.status # "none" /\ rows \in [Files -> Upload] /\ uploads' = rows
  BY DEF Inv, Commit, NothingYet, TypeOK, Request
<1>1. jobs \subseteq jobs' /\ \A u \in Files : uploads[u].status # "pending" => uploads'[u] = uploads[u]
  BY <1>0 DEF RequestInv, Commit
<1>2. CASE batch.status = "pending"
  <2>1. batch'.status = BatchStatus(rows) /\ jobs = {}
    BY <1>0, <1>2 DEF Commit, TypeOK, Batch, BatchSettledTogether
  <2>2. jobs' = IF BatchStatus(rows) = "pending" THEN {} ELSE Uploaded(rows)
    BY <1>2, <2>1 DEF Commit
  <2>3. 1 \in Files
    BY FilesType
  <2>4. BatchStatus(rows) = "pending" <=> \E u \in Files : rows[u].status = "pending"
    BY DEF BatchStatus
  <2>5. BatchStatus(rows) = "complete" <=> \A u \in Files : rows[u].status = "uploaded"
    BY <2>3 DEF BatchStatus
  <2>6. BatchStatus(rows) = "expired" <=> \A u \in Files : rows[u].status = "expired"
    BY <2>3 DEF BatchStatus
  <2>7. BatchStatus(rows) = "rejected" => Uploaded(rows) = {}
    BY DEF BatchStatus, Uploaded
  <2>8. BatchStatus(rows) # "none"
    BY DEF BatchStatus
  <2>9. Uploaded(uploads)' = Uploaded(rows)
    BY <1>0 DEF Uploaded
  <2> HIDE DEF rows
  <2> QED
    BY <1>0, <1>1, <1>2, <2>1, <2>2, <2>4, <2>5, <2>6, <2>7, <2>8, <2>9 DEF BatchSettledTogether
<1>3. CASE batch.status # "pending"
  <2>1. rows = uploads /\ batch' = batch
    BY <1>0, <1>3 DEF RequestInv, Commit, TypeOK, Batch
  <2>2. jobs' = jobs
    BY <1>0, <1>3, <2>1 DEF Commit, BatchSettledTogether
  <2> QED
    BY <1>0, <1>1, <1>3, <2>1, <2>2 DEF BatchSettledTogether
<1> QED
  BY <1>2, <1>3

LEMMA BatchStep ==
    ASSUME Inv, [Next]_vars
    PROVE  BatchSettledTogether' /\ NothingYet'
<1>1. CASE UNCHANGED <<batch, uploads, jobs, req, flying>>
  BY <1>1 DEF Inv, BatchSettledTogether, NothingYet, Uploaded
<1>2. CASE CreateBatch
  <2>1. /\ batch'.status = "pending" /\ jobs' = {}
        /\ \A u \in Files : uploads'[u].status = "pending"
    BY <1>2 DEF CreateBatch, Inv, NothingYet, NewUploads
  <2> QED
    BY <2>1, FilesType DEF BatchSettledTogether, NothingYet
<1>3. CASE /\ UNCHANGED <<batch, uploads, jobs>> /\ batch.status # "none"
  BY <1>3 DEF Inv, BatchSettledTogether, NothingYet, Uploaded
<1>4. ASSUME NEW r \in Requests, Commit(r) PROVE BatchSettledTogether' /\ NothingYet'
  BY <1>4, CommitResult DEF NothingYet
<1>5. CASE LateDelete
  <2>1. batch.status # "none" /\ UNCHANGED <<batch, uploads, jobs>>
    BY <1>5 DEF LateDelete, Inv, NothingYet
  <2> QED
    BY <1>3, <2>1
<1>6. ASSUME NEW r \in Requests,
             Begin(r) \/ Head(r) \/ Read(r) \/ Delete(r) \/ DeleteLost(r) \/ Fail(r)
      PROVE  batch.status # "none" /\ UNCHANGED <<batch, uploads, jobs>>
  <2>1. req[r].pc # "idle" => batch.status # "none"
    BY DEF Inv, NothingYet
  <2> QED
    BY <1>6, <2>1 DEF Begin, Head, Read, Delete, DeleteLost, Fail
<1> QED
  BY <1>1, <1>2, <1>3, <1>4, <1>5, <1>6 DEF Next, Step, Post, SetVersioning, Tick, vars

LEMMA FlyingStep ==
    ASSUME Inv, [Next]_vars, Kept, TypeOK'
    PROVE  FlyingRefused'
<1>0. TypeOK /\ posts \in Int /\ posts' \in Int
  BY DEF Inv, TypeOK
<1>1. ASSUME NEW u \in Files, NEW v \in Versions, Fixed(v), ~Sound(u, v), batch.status # "none"
      PROVE  Fixed(v)' /\ ~Sound(u, v)'
  <2>1. v \in Int
    BY UploadsAssumption DEF Versions, Null
  <2> QED
    BY <1>0, <1>1, <2>1 DEF Kept, Fixed, Sound
<1>2. ASSUME NEW u \in Files, NEW v \in Versions, <<u, v>> \in flying
      PROVE  Fixed(v) /\ ~Sound(u, v) /\ batch.status # "none"
  BY <1>2 DEF Inv, FlyingRefused, NothingYet
<1>3. ASSUME flying' \subseteq flying PROVE FlyingRefused'
  BY <1>1, <1>2, <1>3 DEF FlyingRefused
<1>4. ASSUME NEW r \in Requests, DeleteLost(r) PROVE FlyingRefused'
  <2>1. /\ req[r].next \in Files /\ req[r].version \in Versions
        /\ Fixed(req[r].version) /\ ~Sound(req[r].next, req[r].version)
        /\ batch.status # "none"
    BY <1>4 DEF DeleteLost, Inv, RequestInv, NothingYet, TypeOK, Request
  <2>2. ASSUME NEW u \in Files, NEW v \in Versions, <<u, v>> \in flying'
        PROVE  Fixed(v)' /\ ~Sound(u, v)'
    <3>1. <<u, v>> \in flying \/ (u = req[r].next /\ v = req[r].version)
      BY <1>4, <2>2 DEF DeleteLost
    <3> QED
      BY <1>1, <1>2, <2>1, <3>1
  <2> QED
    BY <2>2 DEF FlyingRefused
<1> QED
  BY <1>3, <1>4 DEF Next, Step, CreateBatch, Post, SetVersioning, LateDelete, Tick,
                    Begin, Head, Read, Delete, Commit, Fail, vars

LEMMA UploadsStep ==
    ASSUME Inv, [Next]_vars, Kept, TypeOK'
    PROVE  \A u \in Files : Justified(u, uploads[u])'
<1>0. TypeOK /\ posts \in Int /\ posts' \in Int
  BY DEF Inv, TypeOK
<1>1. CASE UNCHANGED uploads
  <2>1. CASE batch.status = "none"
    <3>1. \A u \in Files : uploads'[u].status = "pending"
      BY <1>1, <2>1 DEF Inv, NothingYet, NewUploads
    <3> QED
      BY <3>1 DEF Justified
  <2>2. CASE batch.status # "none"
    <3>1. \A u \in Files : JustifiedNext(u, uploads[u])
      BY <1>0, <2>2, JustifiedKept DEF Inv, TypeOK
    <3> QED
      BY <1>1, <3>1 DEF Justified, JustifiedNext, Fixed, Sound
  <2> QED
    BY <2>1, <2>2
<1>2. CASE CreateBatch
  <2>1. \A u \in Files : uploads'[u].status = "pending"
    BY <1>2 DEF CreateBatch, NewUploads
  <2> QED
    BY <2>1 DEF Justified
<1>3. ASSUME NEW r \in Requests, Commit(r)
      PROVE  \A u \in Files : Justified(u, uploads[u])'
  <2>1. req[r].pc # "idle" /\ uploads' = req[r].rows
    BY <1>3 DEF Commit
  <2>2. \A u \in Files : JustifiedNext(u, req[r].rows[u])
    BY <1>0, <2>1, RowsKept
  <2> QED
    BY <2>1, <2>2 DEF Justified, JustifiedNext, Fixed, Sound
<1> QED
  BY <1>1, <1>2, <1>3 DEF Next, Step, Post, SetVersioning, LateDelete, Tick,
                          Begin, Head, Read, Delete, DeleteLost, Fail, vars

-----------------------------------------------------------------------------
(***************************************************************************)
(* The theorems.                                                           *)
(***************************************************************************)

LEMMA InvInit == Init => Inv
<1> SUFFICES ASSUME Init PROVE Inv
  OBVIOUS
<1>1. \A u \in Files, v \in Versions :
        store[u][v] = [stamp |-> 0, quality |-> "sound", at |-> 0]
  BY DEF Init
<1>2. store \in [Files -> [Versions -> Object]]
  <2>1. [stamp |-> 0, quality |-> "sound", at |-> 0] \in Object
    BY DEF Object, Qualities
  <2> QED
    BY <2>1 DEF Init
<1>3. TypeOK
  <2>1. batch \in Batch
    BY DEF Init, Batch
  <2>2. checked \in Int /\ posts \in 0..MaxPosts
    BY UploadsAssumption DEF Init
  <2> QED
    BY <1>2, <2>1, <2>2, IdleType DEF Init, TypeOK
<1>4. \A r \in Requests : req[r].pc = "idle"
  BY DEF Init, Idle
<1>5. \A u \in Files : uploads[u].status = "pending"
  BY DEF Init, NewUploads
<1>6. batch.status = "none" /\ jobs = {} /\ flying = {} /\ uploads = NewUploads
  BY DEF Init
<1> QED
  BY <1>1, <1>3, <1>4, <1>5, <1>6
     DEF Inv, NothingYet, Numbered, OneRequest, FlyingRefused, Justified, RequestInv,
         BatchSettledTogether

LEMMA InvStep == Inv /\ [Next]_vars => Inv'
<1> SUFFICES ASSUME Inv, [Next]_vars PROVE Inv'
  OBVIOUS
<1>1. Kept /\ Numbered'
  BY KeptStep
<1>2. TypeOK'
  BY TypeStep DEF Inv
<1>3. (\A r \in Requests : RequestInv(r)') /\ OneRequest'
  <2>1. CASE Next
    BY <1>1, <1>2, <2>1, RequestStep
  <2>2. CASE UNCHANGED vars
    BY <1>1, <1>2, <2>2, RequestKept DEF vars, Inv, OneRequest, TypeOK
  <2> QED
    BY <2>1, <2>2
<1>4. BatchSettledTogether' /\ NothingYet'
  BY BatchStep
<1> QED
  BY <1>1, <1>2, <1>3, <1>4, FlyingStep, UploadsStep DEF Inv

\* The inductive invariant holds in every behaviour.
THEOREM UploadsInvariant == Spec => []Inv
BY InvInit, InvStep, PTL DEF Spec

\* The rows, the versions S3 holds and the local state of complete_batch always
\* have their types.
THEOREM UploadsTypeOK == Spec => []TypeOK
<1>1. Inv => TypeOK
  BY DEF Inv
<1> QED
  BY <1>1, UploadsInvariant, PTL

\* A verified upload stays readable whatever is posted, rolled back or deleted
\* late, however many requests, files and posts there are.
THEOREM VerifiedStaysReadable == Spec => []VerifiedIsReadable
<1>1. Inv => VerifiedIsReadable
  <2> SUFFICES ASSUME Inv, NEW u \in Files, uploads[u].status = "uploaded"
               PROVE  /\ uploads[u].version \in Present(u)
                      /\ store[u][uploads[u].version].quality = "sound"
                      /\ store[u][uploads[u].version].at <= batch.expires
    BY DEF VerifiedIsReadable
  <2>1. uploads[u].version \in Versions
    BY DEF Inv, TypeOK, Upload
  <2> QED
    BY <2>1 DEF Inv, Justified, Sound, Present
<1> QED
  BY <1>1, UploadsInvariant, PTL

\* The version for which _reject_object rejected an upload never is in S3 again.
THEOREM RejectedStaysRemoved == Spec => []RejectedIsRemoved
<1>1. Inv => RejectedIsRemoved
  BY DEF Inv, Justified, Fixed, RejectedIsRemoved, Present
<1> QED
  BY <1>1, UploadsInvariant, PTL

\* Batch, uploads and jobs agree after every commit of complete_batch.
THEOREM BatchAgrees == Spec => []BatchSettledTogether
<1>1. Inv => BatchSettledTogether
  BY DEF Inv
<1> QED
  BY <1>1, UploadsInvariant, PTL

\* No call of complete_batch changes a verdict, a result or a job that an
\* earlier call committed.
THEOREM VerdictsAreFinal == Spec => VerdictIsFinal
<1> DEFINE Final == /\ \A u \in Files : uploads[u].status # "pending" => uploads'[u] = uploads[u]
                    /\ batch.status \notin {"none", "pending"} => batch' = batch
                    /\ jobs \subseteq jobs'
<1>1. Inv /\ [Next]_vars => [Final]_vars
  <2> SUFFICES ASSUME Inv, Next PROVE Final
    OBVIOUS
  <2>1. CASE UNCHANGED <<uploads, batch, jobs>>
    BY <2>1
  <2>2. CASE CreateBatch
    <3>1. batch.status = "none" /\ \A u \in Files : uploads[u].status = "pending"
      BY <2>2 DEF CreateBatch, Inv, NothingYet, NewUploads
    <3> QED
      BY <2>2, <3>1 DEF CreateBatch
  <2>3. ASSUME NEW r \in Requests, Commit(r) PROVE Final
    BY <2>3, CommitResult
  <2> HIDE DEF Final
  <2> QED
    BY <2>1, <2>2, <2>3 DEF Next, Step, Post, SetVersioning, LateDelete, Tick,
                            Begin, Head, Read, Delete, DeleteLost, Fail
<1> QED
  BY <1>1, UploadsInvariant, PTL DEF Spec, VerdictIsFinal

=============================================================================
