---------------------------- MODULE KnowledgeBase ----------------------------
(***************************************************************************)
(* The knowledge base: the upload that creates a document and answers, the *)
(* goroutine that ingests it (kb/ingest.go) batch by batch under a context *)
(* of five minutes, its deletion, and the statements on kb_documents and   *)
(* kb_chunks (store/knowledge_base.go).  The embeddings service is         *)
(* external.  How a text is cut into chunks is in module Chunker; here a   *)
(* document is a number of batches of chunks.                              *)
(***************************************************************************)
EXTENDS Integers, FiniteSets

CONSTANTS
    Docs,
    MaxBatches,   \* bound: batches of a document
    MaxKbFaults   \* bound: failed statements, expired contexts and restarts

ASSUME KbAssumption == {MaxBatches, MaxKbFaults} \subseteq Nat

VARIABLES
    doc,      \* kb_documents: status and chunk_count (in batches)
    chunks,   \* kb_chunks: the batches of each document that are stored
    job,      \* the goroutine of Ingest
    kbFaults,
    excused   \* history: documents a fault kept from their final status

kbVars == <<doc, chunks, job, kbFaults, excused>>

NoDoc == [status |-> "none", count |-> 0]
NoJob == [step |-> "none", batches |-> 0, done |-> 0, live |-> FALSE]

KbTypeOK ==
    /\ doc \in [Docs -> [status: {"none", "pending", "processing", "ready", "failed", "deleted"},
                         count: 0..MaxBatches]]
    /\ chunks \in [Docs -> SUBSET (1..MaxBatches)]
    /\ job \in [Docs -> [step: {"none", "start", "embed", "insert", "fail", "finish"},
                         batches: 0..MaxBatches, done: 0..MaxBatches, live: BOOLEAN]]
    /\ kbFaults \in 0..MaxKbFaults
    /\ excused \subseteq Docs

KbInit ==
    /\ doc = [d \in Docs |-> NoDoc]
    /\ chunks = [d \in Docs |-> {}]
    /\ job = [d \in Docs |-> NoJob]
    /\ kbFaults = 0
    /\ excused = {}

Stored(d) == doc[d].status \notin {"none", "deleted"}

KbFault(d) ==
    /\ kbFaults < MaxKbFaults
    /\ kbFaults' = kbFaults + 1
    /\ excused' = excused \cup {d}

NoFault == UNCHANGED <<kbFaults, excused>>

KbGoto(d, step) == job' = [job EXCEPT ![d].step = step]

\* handleUploadKBDocument: the row, the answer, the goroutine.
UploadKBDocument(d, n) ==
    /\ doc[d].status = "none"
    /\ doc' = [doc EXCEPT ![d].status = "pending"]
    /\ job' = [job EXCEPT ![d] = [step |-> "start", batches |-> n, done |-> 0, live |-> TRUE]]
    /\ NoFault /\ UNCHANGED chunks

\* The document goes, and its chunks with it (ON DELETE CASCADE).
DeleteKBDocument(d) ==
    /\ Stored(d)
    /\ doc' = [doc EXCEPT ![d] = [status |-> "deleted", count |-> 0]]
    /\ chunks' = [chunks EXCEPT ![d] = {}]
    /\ NoFault /\ UNCHANGED job

\* The five minutes are over: every later request and statement fails.
IngestDeadline(d) ==
    /\ job[d].step # "none" /\ job[d].live
    /\ KbFault(d)
    /\ job' = [job EXCEPT ![d].live = FALSE]
    /\ UNCHANGED <<doc, chunks>>

\* UPDATE kb_documents; no row and no context are errors.
MarkKBDocumentStatus(d, status, count) ==
    \/ /\ job[d].live
       /\ doc' = IF Stored(d) THEN [doc EXCEPT ![d] = [status |-> status, count |-> count]] ELSE doc
       /\ NoFault
    \/ /\ ~ job[d].live
       /\ NoFault /\ UNCHANGED doc
    \/ /\ job[d].live /\ KbFault(d)
       /\ UNCHANGED doc

\* Marked processing and cut into chunks; an error of the statement ends the
\* goroutine, a text without chunks fails.
IngestStarts(d) ==
    /\ job[d].step = "start"
    /\ MarkKBDocumentStatus(d, "processing", 0)
    /\ IF doc' = doc
       THEN KbGoto(d, "none")
       ELSE KbGoto(d, IF job[d].batches = 0 THEN "fail" ELSE "embed")
    /\ UNCHANGED chunks

\* A bug to look for: a batch without vectors is passed over.
EmbedFailureSkipped(d) ==
    job' = [job EXCEPT ![d].done = @ + 1,
                       ![d].step = IF job[d].done + 1 = job[d].batches THEN "finish" ELSE "embed"]

EmbedFailure(d) == KbGoto(d, "fail")

Embed(d) ==
    /\ job[d].step = "embed"
    /\ \/ /\ job[d].live
          /\ KbGoto(d, "insert")
       \/ EmbedFailure(d)
    /\ NoFault /\ UNCHANGED <<doc, chunks>>

BatchDone(d) ==
    job' = [job EXCEPT ![d].done = @ + 1,
                       ![d].step = IF job[d].done + 1 = job[d].batches THEN "finish" ELSE "embed"]

\* A bug to look for: chunks without the foreign key.
AcceptsAll(d) == TRUE

AcceptsChunks(d) == Stored(d)

\* One transaction for the batch; document_id is a foreign key.
InsertKBChunks(d) ==
    /\ job[d].step = "insert"
    /\ \/ /\ job[d].live /\ AcceptsChunks(d)
          /\ chunks' = [chunks EXCEPT ![d] = @ \cup {job[d].done + 1}]
          /\ BatchDone(d)
          /\ NoFault
       \/ /\ ~ (job[d].live /\ AcceptsChunks(d))
          /\ KbGoto(d, "fail")
          /\ NoFault /\ UNCHANGED chunks
       \/ /\ job[d].live /\ AcceptsChunks(d)
          /\ KbFault(d)
          /\ KbGoto(d, "fail")
          /\ \/ UNCHANGED chunks
             \/ chunks' = [chunks EXCEPT ![d] = @ \cup {job[d].done + 1}]  \* lost answer of COMMIT
    /\ UNCHANGED doc

\* A bug to look for: the error is logged and the status left.
IngestReturns(d) ==
    /\ job[d].step = "fail"
    /\ KbGoto(d, "none")
    /\ NoFault /\ UNCHANGED <<doc, chunks>>

IngestFails(d) ==
    /\ job[d].step = "fail"
    /\ MarkKBDocumentStatus(d, "failed", job[d].done)
    /\ KbGoto(d, "none")
    /\ UNCHANGED chunks

IngestEnds(d) ==
    /\ job[d].step = "finish"
    /\ MarkKBDocumentStatus(d, "ready", job[d].done)
    /\ KbGoto(d, "none")
    /\ UNCHANGED chunks

\* The process ends; no document is taken up again.
KbRestart ==
    /\ kbFaults < MaxKbFaults
    /\ kbFaults' = kbFaults + 1
    /\ excused' = excused \cup {d \in Docs : job[d].step # "none"}
    /\ job' = [d \in Docs |-> NoJob]
    /\ UNCHANGED <<doc, chunks>>

IngestProceeds(d) ==
    IngestStarts(d) \/ Embed(d) \/ InsertKBChunks(d) \/ IngestFails(d) \/ IngestEnds(d)

KbNext ==
    \/ \E d \in Docs :
          \/ \E n \in 0..MaxBatches : UploadKBDocument(d, n)
          \/ DeleteKBDocument(d) \/ IngestDeadline(d) \/ IngestProceeds(d)
    \/ KbRestart

KbSpec == KbInit /\ [][KbNext]_kbVars

----------------------------------------------------------------------------
(* Properties.                                                              *)

\* A document shown as ready has all its chunks, and a failed one says how
\* many it has, less only a batch whose COMMIT was not answered.
StatusTellsTheChunks ==
    \A d \in Docs :
        /\ doc[d].status = "ready" => chunks[d] = 1..doc[d].count /\ doc[d].count > 0
        /\ doc[d].status = "failed" => 1..doc[d].count \subseteq chunks[d]
        /\ doc[d].status = "failed" /\ d \notin excused => chunks[d] = 1..doc[d].count

\* A deleted document leaves nothing that a search could find, although its
\* ingest goes on.
DeletedLeavesNothing ==
    \A d \in Docs : doc[d].status = "deleted" => chunks[d] = {}

\* Every uploaded document gets its final status or is deleted; only a failed
\* statement, a restart or the end of the five minutes leaves it pending or
\* processing (the last because the same context is used to mark it failed).
UploadsAreSettled ==
    \A d \in Docs :
        doc[d].status \in {"pending", "processing"}
            ~> (doc[d].status \in {"ready", "failed", "deleted"} \/ d \in excused)

\* What the portal shows of a document is what a search can find, after
\* failures, restarts and a deletion in the middle (Ingest).
KbInv == KbTypeOK /\ StatusTellsTheChunks /\ DeletedLeavesNothing
=============================================================================
