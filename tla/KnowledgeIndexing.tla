-------------------------- MODULE KnowledgeIndexing --------------------------
(***************************************************************************)
(* The index of one document of the knowledge base: the HTTP routes that   *)
(* upload it, index it again and delete it; the BullMQ job, whose id is    *)
(* the id of the document; the handlers that run indexDocument; and the    *)
(* rows of the document and of its chunks.                                 *)
(*                                                                         *)
(* An action is one await.  updateKnowledgeDocument is a read and a write  *)
(* that writes back what it has read; replaceKnowledgeChunks deletes the   *)
(* rows it sees and commits later, as PostgreSQL's READ COMMITTED lets it. *)
(* All chunks of one pass over the document are one element here, a batch. *)
(***************************************************************************)
EXTENDS Naturals, FiniteSets

CONSTANTS
    Workers,      \* job handlers of the Worker processes
    MaxReindex,   \* bound: requests to index the document again
    MaxDeletes,   \* bound: requests to delete it
    MaxStalls,    \* BullMQ's maxStalledCount
    MaxCrashes,   \* bound: Worker processes that die
    MayStallAlive \* may BullMQ take the job from a handler that is alive?

ASSUME KnowledgeIndexingAssumption ==
    /\ MaxReindex \in Nat
    /\ MaxDeletes \in Nat
    /\ MaxStalls \in Nat
    /\ MaxCrashes \in Nat
    /\ MayStallAlive \in BOOLEAN

VARIABLES
    doc,       \* knowledge_documents row: exists, status, count
    chunks,    \* knowledge_chunks rows: the batches that are committed
    batches,   \* how many batches were ever committed
    job,       \* the BullMQ job of the document: state, owner, stalls
    handler,   \* handler[w]: pc, row (what it has read), old (rows it deletes)
    uploader,  \* where the upload request is
    reindexer, \* the reindex requests, one after the other: pc, row, calls
    deletes,   \* how many delete requests have come
    crashes    \* how many Worker processes have died

vars == <<doc, chunks, batches, job, handler, uploader, reindexer, deletes,
          crashes>>

requests == <<uploader, reindexer, deletes>>

-----------------------------------------------------------------------------
Nobody == "nobody"

NoRow == [exists |-> FALSE, status |-> "pending", count |-> 0]

DocumentStatus == {"pending", "indexing", "ready", "failed"}

Row == [exists : BOOLEAN, status : DocumentStatus, count : 0..1]

HandlerPC == {"idle", "read", "markRead", "markWrite", "index", "delete",
              "insert", "readyRead", "readyWrite", "clear", "clearCommit",
              "failRead", "failWrite", "ack"}

JobState == {"none", "waiting", "active", "failed"}

FreshHandler == [pc |-> "idle", row |-> NoRow, old |-> {}]

Init ==
    /\ doc = NoRow
    /\ chunks = {}
    /\ batches = 0
    /\ job = [state |-> "none", owner |-> Nobody, stalls |-> 0]
    /\ handler = [w \in Workers |-> FreshHandler]
    /\ uploader = "create"
    /\ reindexer = [pc |-> "idle", row |-> NoRow, calls |-> 0]
    /\ deletes = 0
    /\ crashes = 0

\* The UPDATE of updateKnowledgeDocument: the columns it is not given come
\* from the row that was read; no row, no effect.
UpdateDocument(status, count) ==
    doc' = IF doc.exists THEN [doc EXCEPT !.status = status, !.count = count]
                         ELSE doc

\* enqueueDocumentIndex: BullMQ ignores an id it still has, failed jobs too.
Enqueue ==
    job' = IF job.state = "none"
             THEN [state |-> "waiting", owner |-> Nobody, stalls |-> 0]
             ELSE job

-----------------------------------------------------------------------------
(* The routes.                                                             *)

\* POST /knowledge/documents/upload: the row, then the job.
UploadCreate ==
    /\ uploader = "create"
    /\ uploader' = "enqueue"
    /\ doc' = [exists |-> TRUE, status |-> "pending", count |-> 0]
    /\ UNCHANGED <<chunks, batches, job, handler, reindexer, deletes, crashes>>

UploadEnqueue ==
    /\ uploader = "enqueue"
    /\ uploader' = "done"
    /\ Enqueue
    /\ UNCHANGED <<doc, chunks, batches, handler, reindexer, deletes, crashes>>

\* POST .../reindex: updateKnowledgeDocument(pending), 404 without a row ...
ReindexRead ==
    /\ reindexer.pc = "idle"
    /\ reindexer.calls < MaxReindex
    /\ doc.exists
    /\ reindexer' = [pc |-> "write", row |-> doc, calls |-> reindexer.calls + 1]
    /\ UNCHANGED <<doc, chunks, batches, job, handler, uploader, deletes, crashes>>

ReindexWrite ==
    /\ reindexer.pc = "write"
    /\ reindexer' = [reindexer EXCEPT !.pc = IF doc.exists THEN "enqueue"
                                                           ELSE "idle"]
    /\ UpdateDocument("pending", reindexer.row.count)
    /\ UNCHANGED <<chunks, batches, job, handler, uploader, deletes, crashes>>

\* ... then the job.
ReindexEnqueue ==
    /\ reindexer.pc = "enqueue"
    /\ reindexer' = [reindexer EXCEPT !.pc = "idle"]
    /\ Enqueue
    /\ UNCHANGED <<doc, chunks, batches, handler, uploader, deletes, crashes>>

\* DELETE: one transaction for the chunks and the row.
Delete ==
    /\ deletes < MaxDeletes
    /\ doc.exists
    /\ deletes' = deletes + 1
    /\ doc' = NoRow
    /\ chunks' = {}
    /\ UNCHANGED <<batches, job, handler, uploader, reindexer, crashes>>

Request == UploadCreate \/ UploadEnqueue \/ ReindexRead \/ ReindexWrite
               \/ ReindexEnqueue \/ Delete

-----------------------------------------------------------------------------
(* The job and its handlers.                                               *)

Goes(w, from, to) ==
    handler[w].pc = from /\ handler' = [handler EXCEPT ![w].pc = to]

\* What most steps of a handler leave alone.
handlerFrame == <<job, requests, crashes>>

Take(w) ==
    /\ job.state = "waiting"
    /\ Goes(w, "idle", "read")
    /\ job' = [job EXCEPT !.state = "active", !.owner = w]
    /\ UNCHANGED <<doc, chunks, batches, requests, crashes>>

\* getKnowledgeDocument: a document that was deleted needs no work.
ReadDocument(w) ==
    /\ \/ doc.exists  /\ Goes(w, "read", "markRead")
       \/ ~doc.exists /\ Goes(w, "read", "ack")
    /\ UNCHANGED <<doc, chunks, batches, handlerFrame>>

\* The read of an updateKnowledgeDocument; without a row it does nothing.
ReadRow(w, from, to, none) ==
    /\ handler[w].pc = from
    /\ handler' = [handler EXCEPT ![w].row = doc,
                                  ![w].pc = IF doc.exists THEN to ELSE none]
    /\ UNCHANGED <<doc, chunks, batches, handlerFrame>>

\* status = indexing
MarkRead(w) == ReadRow(w, "markRead", "markWrite", "index")

MarkWrite(w) ==
    /\ Goes(w, "markWrite", "index")
    /\ UpdateDocument("indexing", handler[w].row.count)
    /\ UNCHANGED <<chunks, batches, handlerFrame>>

\* Parsing, splitting and embedding succeed or throw.
Index(w) ==
    /\ \/ Goes(w, "index", "delete")
       \/ Goes(w, "index", "clear")
    /\ UNCHANGED <<doc, chunks, batches, handlerFrame>>

\* replaceKnowledgeChunks: the rows the DELETE sees ...
DeleteOldChunks(w) ==
    /\ \/ handler[w].pc = "delete" /\ handler' = [handler EXCEPT
            ![w].pc = "insert", ![w].old = chunks]
       \/ handler[w].pc = "clear" /\ handler' = [handler EXCEPT
            ![w].pc = "clearCommit", ![w].old = chunks]
    /\ UNCHANGED <<doc, chunks, batches, handlerFrame>>

\* Mutant: the new chunks are added to the old ones.
CommitMoreChunks(w) ==
    /\ Goes(w, "insert", "readyRead")
    /\ batches' = batches + 1
    /\ chunks' = chunks \cup {batches'}
    /\ UNCHANGED <<doc, handlerFrame>>

\* ... are gone at the COMMIT, and the new ones are there.
CommitChunks(w) ==
    /\ Goes(w, "insert", "readyRead")
    /\ batches' = batches + 1
    /\ chunks' = (chunks \ handler[w].old) \cup {batches'}
    /\ UNCHANGED <<doc, handlerFrame>>

\* status = ready, with the number of chunks
ReadyRead(w) == ReadRow(w, "readyRead", "readyWrite", "ack")

ReadyWrite(w) ==
    /\ Goes(w, "readyWrite", "ack")
    /\ UpdateDocument("ready", 1)
    /\ UNCHANGED <<chunks, batches, handlerFrame>>

\* The catch: no chunks, ...
CommitNoChunks(w) ==
    /\ Goes(w, "clearCommit", "failRead")
    /\ chunks' = chunks \ handler[w].old
    /\ UNCHANGED <<doc, batches, handlerFrame>>

\* Mutant: the catch does not tell the row.
FailQuietly(w) == ReadRow(w, "failRead", "ack", "ack")

\* ... status = failed.
FailRead(w) == ReadRow(w, "failRead", "failWrite", "ack")

FailWrite(w) ==
    /\ Goes(w, "failWrite", "ack")
    /\ UpdateDocument("failed", 0)
    /\ UNCHANGED <<chunks, batches, handlerFrame>>

\* BullMQ removes the finished job, if the handler still owns it.
Acknowledge(w) ==
    /\ handler[w].pc = "ack"
    /\ handler' = [handler EXCEPT ![w] = FreshHandler]
    /\ job' = IF job.owner = w
                THEN [state |-> "none", owner |-> Nobody, stalls |-> 0]
                ELSE job
    /\ UNCHANGED <<doc, chunks, batches, requests, crashes>>

\* A Worker process dies; its open transaction is rolled back.
Crash(w) ==
    /\ crashes < MaxCrashes
    /\ handler[w].pc # "idle"
    /\ crashes' = crashes + 1
    /\ handler' = [handler EXCEPT ![w] = FreshHandler]
    /\ UNCHANGED <<doc, chunks, batches, job, requests>>

\* BullMQ finds the lock of an active job expired: its owner is dead, or did
\* not renew it in time.  The job waits again, or fails and is kept.
Stall ==
    /\ job.state = "active"
    /\ MayStallAlive \/ handler[job.owner].pc = "idle"
    /\ job' = IF job.stalls < MaxStalls
                THEN [state |-> "waiting", owner |-> Nobody,
                      stalls |-> job.stalls + 1]
                ELSE [job EXCEPT !.state = "failed", !.owner = Nobody]
    /\ UNCHANGED <<doc, chunks, batches, handler, requests, crashes>>

IndexDocument(w) ==
    \/ ReadDocument(w) \/ MarkRead(w) \/ MarkWrite(w) \/ Index(w)
    \/ DeleteOldChunks(w) \/ CommitChunks(w) \/ ReadyRead(w) \/ ReadyWrite(w)
    \/ CommitNoChunks(w) \/ FailRead(w) \/ FailWrite(w) \/ Acknowledge(w)

Quiet ==
    /\ \A w \in Workers : handler[w].pc = "idle"
    /\ job.state \in {"none", "failed"}
    /\ uploader = "done"
    /\ reindexer.pc = "idle"
    /\ UNCHANGED vars

Next ==
    \/ Request
    \/ \E w \in Workers : Take(w) \/ IndexDocument(w) \/ Crash(w)
    \/ Stall
    \/ Quiet

Spec == Init /\ [][Next]_vars

\* A request in progress is finished, the job is taken, handled and, when its
\* handler has died, found stalled.
Fairness ==
    /\ WF_vars(UploadEnqueue \/ ReindexWrite \/ ReindexEnqueue)
    /\ WF_vars(\E w \in Workers : Take(w))
    /\ \A w \in Workers : WF_vars(IndexDocument(w))
    /\ WF_vars(Stall)

FairSpec == Spec /\ Fairness

-----------------------------------------------------------------------------
(* Properties.                                                             *)

\* The types of the variables, and the job has an owner while it is active.
TypeOK ==
    /\ doc \in Row
    /\ batches \in Nat
    /\ chunks \subseteq 1..batches
    /\ job \in [state : JobState, owner : Workers \cup {Nobody},
               stalls : 0..MaxStalls]
    /\ IF job.state = "active" THEN job.owner \in Workers
                               ELSE job.owner = Nobody
    /\ handler \in [Workers -> [pc : HandlerPC, row : Row,
                                old : SUBSET (1..batches)]]
    /\ uploader \in {"create", "enqueue", "done"}
    /\ reindexer \in [pc : {"idle", "write", "enqueue"}, row : Row,
                     calls : 0..MaxReindex]
    /\ deletes \in 0..MaxDeletes
    /\ crashes \in 0..MaxCrashes

\* What a search may rely on (it looks at documents that are ready): a ready
\* document has the chunks of exactly one pass, as many as its row says, and
\* a failed document has none, whoever died or asked again meanwhile.
StatusMatchesChunks ==
    doc.exists =>
        /\ doc.status = "ready" => Cardinality(chunks) = 1 /\ doc.count = 1
        /\ doc.status = "failed" => chunks = {} /\ doc.count = 0

\* A document does not stay in "indexing" when its handler dies.
IndexingEnds ==
    (doc.exists /\ doc.status = "indexing")
        ~> ~(doc.exists /\ doc.status = "indexing")

\* A document shown as queued is queued: when no request is in progress, the
\* job of a pending document is waiting or in work.
PendingIsQueued ==
    (/\ uploader = "done"
     /\ reindexer.pc = "idle"
     /\ doc.exists
     /\ doc.status = "pending") => job.state \in {"waiting", "active"}

=============================================================================
