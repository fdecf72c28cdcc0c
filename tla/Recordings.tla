------------------------------ MODULE Recordings ------------------------------
(***************************************************************************)
(* Call recordings in the backend: the upload the voice agent sends when a *)
(* session ends and the portal's DELETE (handlers_recording.go), the table *)
(* call_recordings (call_recordings.go), the object store (storage.go) and *)
(* the retention worker (retention.go).  MinIO and PostgreSQL are external.*)
(*                                                                         *)
(* A request or a pass is cut into the statements and storage requests it  *)
(* makes, and any of them may fail or be the last one before its process   *)
(* ends.  A storage request that fails may have taken effect or not.       *)
(* Time is counted in days.  The audio, its type and its size are left     *)
(* out.  Storage is configured: without it an upload is refused.           *)
(***************************************************************************)
EXTENDS Integers, Sequences, FiniteSets, Functions

CONSTANTS
    Uploads,     \* uploads the voice agent sends; one names its row, too
    CallOf,      \* the call FindCallByVoiceSession finds for an upload
    KeyOf,       \* the storage key: call and second of the upload
    Workers,     \* retention workers, one per backend process
    Days,        \* values recording_retention_days takes; 0: keep for ever
    BatchSize,   \* RetentionWorker.BatchSize
    MaxDay,      \* bound: the last day
    MaxFaults    \* bound: failed requests and ended processes

ASSUME ConstantsAssumption ==
    /\ DOMAIN CallOf = Uploads /\ DOMAIN KeyOf = Uploads
    /\ Days \subseteq Nat
    /\ BatchSize \in Nat \ {0}
    /\ {MaxDay, MaxFaults} \subseteq Nat

VARIABLES
    clock,    \* now()
    rows,     \* call_recordings
    linked,   \* calls whose recording_url is set
    objects,  \* keys the store holds
    upload,   \* POST /internal/voice/recordings: how far it is
    tx,       \* rows its open transaction has archived, and locks
    delete,   \* DELETE /recordings/{id}: how far it is
    pass,     \* the retention worker's pass: what is left, and its next step
    left,     \* history: uploads whose key a failed request dealt with
    faults    \* history: faults so far

vars == <<clock, rows, linked, objects, upload, tx, delete, pass, left, faults>>

Idle  == [step |-> "idle", todo |-> <<>>]
NoRow == [status |-> "none", deleted |-> "no", due |-> 0]

\* due = 0 is a NULL retention_due_at; deleted says who set deleted_at.
Row == [status: {"none", "available", "archived"},
        deleted: {"no", "operator", "retention"},
        due: Nat]

TypeOK ==
    /\ clock \in 0..MaxDay
    /\ rows \in [Uploads -> Row]
    /\ linked \subseteq Range(CallOf)
    /\ objects \subseteq Range(KeyOf)
    /\ upload \in [Uploads -> {"idle", "stored", "tx", "created", "done"}]
    /\ tx \in [Uploads -> SUBSET Uploads]
    /\ delete \in [Uploads -> {"idle", "marked", "done"}]
    /\ \A w \in Workers :
          /\ pass[w].step \in {"idle", "object", "mark"}
          /\ pass[w].todo \in Seq(Uploads)
          /\ (pass[w].step = "idle") <=> (pass[w].todo = <<>>)
    /\ left \subseteq Uploads
    /\ faults \in 0..MaxFaults

Init ==
    /\ clock = 0
    /\ rows = [u \in Uploads |-> NoRow]
    /\ linked = {}
    /\ objects = {}
    /\ upload = [u \in Uploads |-> "idle"]
    /\ tx = [u \in Uploads |-> {}]
    /\ delete = [u \in Uploads |-> "idle"]
    /\ pass = [w \in Workers |-> Idle]
    /\ left = {}
    /\ faults = 0

NewDay ==
    /\ clock < MaxDay
    /\ clock' = clock + 1
    /\ UNCHANGED <<rows, linked, objects, upload, tx, delete, pass, left, faults>>

Fault ==
    /\ faults < MaxFaults
    /\ faults' = faults + 1

----------------------------------------------------------------------------
(* The object store, and the statements more than one caller uses.          *)

PutObject(u) == objects' = objects \cup {KeyOf[u]}

DeleteObject(u) == objects' = objects \ {KeyOf[u]}

Exists(u) == rows[u].status # "none"
Live(u)   == Exists(u) /\ rows[u].deleted = "no"

\* Another transaction's uncommitted UPDATE holds the row.
Locked(u) == \E v \in Uploads : u \in tx[v]

SoftDeleteCallRecording(u, who) ==
    rows' = [rows EXCEPT ![u].deleted = who]

----------------------------------------------------------------------------
(* handleInternalRecording.  The upload is never sent again.                *)

\* No call is linked to the session, or the body is empty or unreadable.
UploadRefused(u) ==
    /\ upload[u] = "idle"
    /\ upload' = [upload EXCEPT ![u] = "done"]
    /\ UNCHANGED <<clock, rows, linked, objects, tx, delete, pass, left, faults>>

UploadStores(u) ==
    /\ upload[u] = "idle"
    /\ PutObject(u)
    /\ upload' = [upload EXCEPT ![u] = "stored"]
    /\ UNCHANGED <<clock, rows, linked, tx, delete, pass, left, faults>>

\* The rows of the call that are served now are archived with the new row.
Superseded(u) ==
    {v \in Uploads : /\ CallOf[v] = CallOf[u]
                     /\ Live(v)
                     /\ rows[v].status = "available"}

UploadArchives(u) ==
    /\ upload[u] = "stored"
    /\ \A v \in Superseded(u) : ~ Locked(v)
    /\ tx' = [tx EXCEPT ![u] = Superseded(u)]
    /\ upload' = [upload EXCEPT ![u] = "tx"]
    /\ UNCHANGED <<clock, rows, linked, objects, delete, pass, left, faults>>

\* A bug to look for: Status is not given its default.
NewRowNoStatus(days) ==
    [status |-> "", deleted |-> "no", due |-> IF days > 0 THEN clock + days ELSE 0]

NewRow(days) ==
    [status |-> "available", deleted |-> "no",
     due |-> IF days > 0 THEN clock + days ELSE 0]

\* retentionDays stays 0 when the tenant's settings cannot be read.
UploadCommits(u) ==
    /\ upload[u] = "tx"
    /\ \E days \in Days \cup {0} :
          rows' = [v \in Uploads |->
                      IF v = u THEN NewRow(days)
                      ELSE IF v \in tx[u] THEN [rows[v] EXCEPT !.status = "archived"]
                      ELSE rows[v]]
    /\ tx' = [tx EXCEPT ![u] = {}]
    /\ upload' = [upload EXCEPT ![u] = "created"]
    /\ UNCHANGED <<clock, linked, objects, delete, pass, left, faults>>

\* SetCallRecording.
UploadLinks(u) ==
    /\ upload[u] = "created"
    /\ linked' = linked \cup {CallOf[u]}
    /\ upload' = [upload EXCEPT ![u] = "done"]
    /\ UNCHANGED <<clock, rows, objects, tx, delete, pass, left, faults>>

UploadStoreFails(u) ==
    /\ upload[u] = "idle"
    /\ Fault
    /\ PutObject(u) \/ UNCHANGED objects
    /\ left' = left \cup {u}
    /\ upload' = [upload EXCEPT ![u] = "done"]
    /\ UNCHANGED <<clock, rows, linked, tx, delete, pass>>

\* A statement fails or the process ends; the transaction is rolled back.
UploadFails(u) ==
    /\ upload[u] \in {"stored", "tx", "created"}
    /\ Fault
    /\ left' = IF upload[u] = "created" THEN left ELSE left \cup {u}
    /\ tx' = [tx EXCEPT ![u] = {}]
    /\ upload' = [upload EXCEPT ![u] = "done"]
    /\ UNCHANGED <<clock, rows, linked, objects, delete, pass>>

----------------------------------------------------------------------------
(* handleDeleteRecording.  GetCallRecordingByID also finds a deleted row;   *)
(* SoftDeleteCallRecording then changes nothing and the request fails.      *)

DeleteMarks(u) ==
    /\ delete[u] = "idle"
    /\ Live(u)
    /\ ~ Locked(u)
    /\ SoftDeleteCallRecording(u, "operator")
    /\ delete' = [delete EXCEPT ![u] = "marked"]
    /\ UNCHANGED <<clock, linked, objects, upload, tx, pass, left, faults>>

\* A bug to look for: the object is left to the worker.
DeleteLeavesObject(u) ==
    /\ delete[u] = "marked"
    /\ delete' = [delete EXCEPT ![u] = "done"]
    /\ UNCHANGED <<clock, rows, linked, objects, upload, tx, pass, left, faults>>

DeleteErases(u) ==
    /\ delete[u] = "marked"
    /\ DeleteObject(u)
    /\ delete' = [delete EXCEPT ![u] = "done"]
    /\ UNCHANGED <<clock, rows, linked, upload, tx, pass, left, faults>>

\* The error is logged, or the process ends before the request is made.
DeleteFails(u) ==
    /\ delete[u] = "marked"
    /\ Fault
    /\ DeleteObject(u) \/ UNCHANGED objects
    /\ left' = left \cup {u}
    /\ delete' = [delete EXCEPT ![u] = "done"]
    /\ UNCHANGED <<clock, rows, linked, upload, tx, pass>>

----------------------------------------------------------------------------
(* RetentionWorker.                                                         *)

PastDue(u) == rows[u].due # 0 /\ rows[u].due <= clock

\* Bugs to look for: the list forgets that a NULL due date is none, or shows
\* only what the portal shows.
ListForgetsNull == {u \in Uploads : Live(u) /\ rows[u].due <= clock}
ListAvailable ==
    {u \in Uploads : Live(u) /\ PastDue(u) /\ rows[u].status = "available"}

ListExpiredRecordings == {u \in Uploads : Live(u) /\ PastDue(u)}

\* ORDER BY retention_due_at LIMIT BatchSize; rows due together in any order.
IsBatch(s, set) ==
    /\ IsInjective(s)
    /\ Len(s) = IF Cardinality(set) < BatchSize THEN Cardinality(set) ELSE BatchSize
    /\ \A i, j \in DOMAIN s : i < j => rows[s[i]].due <= rows[s[j]].due
    /\ \A i \in DOMAIN s, u \in set \ Range(s) : rows[s[i]].due <= rows[u].due

Batches(set) == {s \in UNION {[1..n -> set] : n \in 1..BatchSize} : IsBatch(s, set)}

\* The loop goes on with the next recording.
Continue(w) ==
    LET rest == Tail(pass[w].todo)
    IN  pass' = [pass EXCEPT ![w] =
                    IF rest = <<>> THEN Idle ELSE [step |-> "object", todo |-> rest]]

\* An empty list, or none because the query failed, ends the pass at once.
PassLists(w) ==
    /\ pass[w].step = "idle"
    /\ \E s \in Batches(ListExpiredRecordings) :
          pass' = [pass EXCEPT ![w] = [step |-> "object", todo |-> s]]
    /\ UNCHANGED <<clock, rows, linked, objects, upload, tx, delete, left, faults>>

PassErases(w) ==
    /\ pass[w].step = "object"
    /\ DeleteObject(Head(pass[w].todo))
    /\ pass' = [pass EXCEPT ![w].step = "mark"]
    /\ UNCHANGED <<clock, rows, linked, upload, tx, delete, left, faults>>

\* A bug to look for: the row is marked although its object was not erased.
PassEraseFailsMarks(w) ==
    /\ pass[w].step = "object"
    /\ Fault
    /\ DeleteObject(Head(pass[w].todo)) \/ UNCHANGED objects
    /\ pass' = [pass EXCEPT ![w].step = "mark"]
    /\ UNCHANGED <<clock, rows, linked, upload, tx, delete, left>>

PassEraseFails(w) ==
    /\ pass[w].step = "object"
    /\ Fault
    /\ DeleteObject(Head(pass[w].todo)) \/ UNCHANGED objects
    /\ Continue(w)
    /\ UNCHANGED <<clock, rows, linked, upload, tx, delete, left>>

\* ErrNotFound, if someone else has deleted the row, is only logged.
PassMarks(w) ==
    LET u == Head(pass[w].todo)
    IN  /\ pass[w].step = "mark"
        /\ ~ Locked(u)
        /\ \/ Live(u) /\ SoftDeleteCallRecording(u, "retention")
           \/ ~ Live(u) /\ UNCHANGED rows
        /\ Continue(w)
        /\ UNCHANGED <<clock, linked, objects, upload, tx, delete, left, faults>>

PassMarkFails(w) ==
    /\ pass[w].step = "mark"
    /\ Fault
    /\ Continue(w)
    /\ UNCHANGED <<clock, rows, linked, objects, upload, tx, delete, left>>

\* The worker's process ends; the next one begins with a pass of its own.
PassEnds(w) ==
    /\ pass[w].step # "idle"
    /\ Fault
    /\ pass' = [pass EXCEPT ![w] = Idle]
    /\ UNCHANGED <<clock, rows, linked, objects, upload, tx, delete, left>>

----------------------------------------------------------------------------
UploadStep(u) ==
    \/ UploadRefused(u) \/ UploadStores(u) \/ UploadArchives(u)
    \/ UploadCommits(u) \/ UploadLinks(u)
    \/ UploadStoreFails(u) \/ UploadFails(u)

DeleteStep(u) == DeleteMarks(u) \/ DeleteErases(u) \/ DeleteFails(u)

PassStep(w) ==
    \/ PassLists(w) \/ PassErases(w) \/ PassEraseFails(w)
    \/ PassMarks(w) \/ PassMarkFails(w) \/ PassEnds(w)

Next ==
    \/ NewDay
    \/ \E u \in Uploads : UploadStep(u) \/ DeleteStep(u)
    \/ \E w \in Workers : PassStep(w)

Spec == Init /\ [][Next]_vars

\* A request's goroutine goes on to its end, and the ticker starts the worker
\* again and again.  Nothing makes an operator or the voice agent send one.
Fairness ==
    /\ \A u \in Uploads :
          /\ WF_vars(UploadArchives(u)) /\ WF_vars(UploadCommits(u))
          /\ WF_vars(UploadLinks(u))    /\ WF_vars(DeleteErases(u))
    /\ \A w \in Workers :
          WF_vars(PassLists(w)) /\ WF_vars(PassErases(w)) /\ WF_vars(PassMarks(w))

FairSpec == Spec /\ Fairness

----------------------------------------------------------------------------
(* Properties.                                                              *)

\* The recording the portal links to can be played: until its retention is
\* over, the object of a row that is not deleted is in the store, whatever
\* requests and passes have failed half way (the order PutObject, INSERT of
\* handleInternalRecording, and the filter of ListExpiredRecordings).
Playable ==
    \A u \in Uploads : Live(u) /\ ~ PastDue(u) => KeyOf[u] \in objects

\* A row the retention worker has marked has no object: the worker keeps the
\* row when the store fails (retention.go, "No marcamos como deleted en BD").
RetentionErases ==
    \A u \in Uploads : rows[u].deleted = "retention" => KeyOf[u] \notin objects

\* An object without a live row belongs to a request under way, or was left
\* behind by one that failed; the working order of the handlers and of two
\* workers' passes with stale lists never produces an orphan by itself.
OrphansComeFromFaults ==
    \A u \in Uploads :
        KeyOf[u] \in objects =>
            \/ Live(u)
            \/ upload[u] \in {"stored", "tx"}
            \/ delete[u] = "marked"
            \/ u \in left

\* Every recording whose retention is over is deleted, archived ones too
\* (call_recordings.go: "el worker las limpia con la retención normal"),
\* once the store, the database and the process stop failing.
ExpiredIsErased ==
    \A u \in Uploads :
        (Exists(u) /\ PastDue(u)) ~> (rows[u].deleted # "no")

\* Rows and objects account for each other: retention leaves no object behind
\* its mark, and only a failed request leaves one without a row.
ObjectsAccounted == RetentionErases /\ OrphansComeFromFaults
=============================================================================
