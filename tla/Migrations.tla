------------------------------ MODULE Migrations ------------------------------
(***************************************************************************)
(* Migrate (db/db.go): every process of the backend reads the versions     *)
(* applied so far once, and then applies the missing files in order, each  *)
(* in a transaction that also records its version.  Several processes may  *)
(* start together; PostgreSQL's transactions are external: an INSERT of a  *)
(* key another transaction inserted waits for that transaction's end, and  *)
(* a transaction whose process dies is rolled back.                        *)
(*                                                                         *)
(* A file is its place in the sorted list.  What its statements do is left *)
(* out; they may fail, also because another process already ran them.      *)
(***************************************************************************)
EXTENDS Integers, Sequences, FiniteSets

CONSTANTS
    Replicas,      \* processes that start
    Files,         \* number of migration files
    MaxStops       \* bound: processes killed and files that fail

ASSUME MigrationsAssumption == {Files, MaxStops} \subseteq Nat

VARIABLES
    schema,    \* history: files whose statements are in the database, in order
    recorded,  \* schema_migrations
    replica,   \* where each process is in Migrate
    stops      \* history: failures so far

migVars == <<schema, recorded, replica, stops>>

Versions == 1..Files
Starting == [step |-> "start", seen |-> {}, file |-> 1]

MigTypeOK ==
    /\ schema \in Seq(Versions)
    /\ recorded \subseteq Versions
    /\ replica \in [Replicas -> [step: {"start", "next", "body", "record", "commit",
                                        "serving", "failed"},
                                 seen: SUBSET Versions, file: 1..(Files + 1)]]
    /\ stops \in 0..MaxStops

MigInit ==
    /\ schema = <<>>
    /\ recorded = {}
    /\ replica = [r \in Replicas |-> Starting]
    /\ stops = 0

Goto(r, step) == replica' = [replica EXCEPT ![r].step = step]

\* A bug to look for: the versions already applied are not read.
ReadNothing(r) ==
    /\ replica[r].step = "start"
    /\ replica' = [replica EXCEPT ![r].step = "next"]
    /\ UNCHANGED <<schema, recorded, stops>>

ReadApplied(r) ==
    /\ replica[r].step = "start"
    /\ replica' = [replica EXCEPT ![r].step = "next", ![r].seen = recorded]
    /\ UNCHANGED <<schema, recorded, stops>>

\* A bug to look for: the loop ends one file early.
NextFileButLast(r) ==
    LET f == replica[r].file
    IN  /\ replica[r].step = "next"
        /\ \/ f >= Files /\ Goto(r, "serving")
           \/ f < Files /\ f \notin replica[r].seen /\ Goto(r, "body")
           \/ f < Files /\ f \in replica[r].seen /\ replica' = [replica EXCEPT ![r].file = f + 1]
        /\ UNCHANGED <<schema, recorded, stops>>

\* The loop over the files: skip, begin a transaction, or end.
NextFile(r) ==
    LET f == replica[r].file
    IN  /\ replica[r].step = "next"
        /\ \/ f > Files /\ Goto(r, "serving")
           \/ f <= Files /\ f \notin replica[r].seen /\ Goto(r, "body")
           \/ f <= Files /\ f \in replica[r].seen /\ replica' = [replica EXCEPT ![r].file = f + 1]
        /\ UNCHANGED <<schema, recorded, stops>>

\* A bug to look for: a failed file is skipped.
SkipFile(r) == replica' = [replica EXCEPT ![r].step = "next", ![r].file = @ + 1]

\* Migrate returns the error and the process ends.
MigrateFails(r) == Goto(r, "failed")

RunBody(r) ==
    /\ replica[r].step = "body"
    /\ \/ /\ Goto(r, "record")
          /\ UNCHANGED stops
       \/ /\ stops < MaxStops \/ replica[r].file \in recorded
          /\ stops' = IF stops < MaxStops THEN stops + 1 ELSE stops
          /\ MigrateFails(r)
    /\ UNCHANGED <<schema, recorded>>

Inserting(f) == {r \in Replicas : replica[r].step = "commit" /\ replica[r].file = f}

\* The primary key: a version that is there fails the transaction, one that
\* another transaction inserted keeps this one waiting.
RecordVersion(r) ==
    /\ replica[r].step = "record"
    /\ Inserting(replica[r].file) = {}
    /\ IF replica[r].file \in recorded THEN MigrateFails(r) ELSE Goto(r, "commit")
    /\ UNCHANGED <<schema, recorded, stops>>

\* The statements and the version become visible together.
Commit(r) ==
    /\ replica[r].step = "commit"
    /\ schema' = Append(schema, replica[r].file)
    /\ recorded' = recorded \cup {replica[r].file}
    /\ replica' = [replica EXCEPT ![r].step = "next", ![r].file = @ + 1]
    /\ UNCHANGED stops

\* The process is killed; its transaction is rolled back.
Killed(r) ==
    /\ replica[r].step # "failed"
    /\ stops < MaxStops
    /\ stops' = stops + 1
    /\ Goto(r, "failed")
    /\ UNCHANGED <<schema, recorded>>

\* The container is started again.
RestartReplica(r) ==
    /\ replica[r].step = "failed"
    /\ replica' = [replica EXCEPT ![r] = Starting]
    /\ UNCHANGED <<schema, recorded, stops>>

MigProceeds(r) ==
    ReadApplied(r) \/ NextFile(r) \/ RunBody(r) \/ RecordVersion(r) \/ Commit(r)
        \/ RestartReplica(r)

MigNext == \E r \in Replicas : MigProceeds(r) \/ Killed(r)

MigSpec == MigInit /\ [][MigNext]_migVars

----------------------------------------------------------------------------
(* Properties.                                                              *)

\* The files are applied once each and in order, whichever processes start,
\* fail and are killed while others migrate, and a version is recorded exactly
\* when its statements are in the database.
AppliedInOrder ==
    /\ \A i \in DOMAIN schema : schema[i] = i
    /\ recorded = 1..Len(schema)

\* A process that serves requests has the whole schema.
ServesOnCompleteSchema ==
    \A r \in Replicas : replica[r].step = "serving" => recorded = Versions

\* Processes that lose the race for a file and end with an error are started
\* again and come up: every process that began to migrate serves in the end.
EveryReplicaServes ==
    \A r \in Replicas : replica[r].step # "start" ~> replica[r].step = "serving"

\* However many processes start at once, die or meet a failing file, the files
\* are applied once, in order, and nobody serves before the last (Migrate).
SchemaInv == MigTypeOK /\ AppliedInOrder /\ ServesOnCompleteSchema
=============================================================================
