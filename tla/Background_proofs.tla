--------------------------- MODULE Background_proofs ---------------------------
(***************************************************************************)
(* Proofs about what goes on behind the requests, for any constants: the   *)
(* jobs of the knowledge base, the loop of the agent, and the start and    *)
(* the end of the processes, each on its own, and at the end the four      *)
(* parts of MCBackground side by side.  The lock of a run has a module of  *)
(* its own.  What rests on fairness is left to TLC: IndexingEnds,          *)
(* AlLoopEnds and PrShutdownEnds.                                          *)
(***************************************************************************)
EXTENDS MCBackground, RunLock_proofs, FiniteSetTheorems, SequenceTheorems

(***************************************************************************)
(* The jobs of the knowledge base, for any number of Workers, requests,    *)
(* deaths and stalls.                                                      *)
(***************************************************************************)

\* A handler after the mark: the document is no longer shown as it was.
Marked == {"index", "delete", "insert", "readyRead", "readyWrite", "clear",
           "clearCommit", "failRead", "failWrite"}

\* Before the upload there is nothing.
NothingYet ==
    uploader = "create" =>
        ~doc.exists /\ job.state = "none" /\ reindexer.pc = "idle"

\* Only the owner of the active job is at work.
OneHandler ==
    \A w \in Workers :
        handler[w].pc # "idle" => job.state = "active" /\ job.owner = w

\* What a handler can rely on between its steps: nobody else writes chunks or
\* a final status, except that a request deletes everything.
HandlerOrder ==
    \A w \in Workers :
        /\ handler[w].pc \in {"insert", "clearCommit"} =>
             chunks \subseteq handler[w].old
        /\ handler[w].pc \in {"readyRead", "readyWrite"} /\ doc.exists =>
             chunks = {batches}
        /\ handler[w].pc \in {"failRead", "failWrite"} => chunks = {}
        /\ handler[w].pc \in Marked /\ doc.exists =>
             doc.status \in {"pending", "indexing"}

\* StatusMatchesChunks without counting: the chunks are the last batch.
LastBatch ==
    doc.exists =>
        /\ doc.status = "ready" => chunks = {batches} /\ doc.count = 1
        /\ doc.status = "failed" => chunks = {} /\ doc.count = 0

IInv == TypeOK /\ NothingYet /\ OneHandler /\ HandlerOrder /\ LastBatch

-----------------------------------------------------------------------------
\* The initial state has the types.
LEMMA InitTypes == Init => TypeOK
BY KnowledgeIndexingAssumption
   DEF Init, TypeOK, NoRow, Row, DocumentStatus, JobState, HandlerPC,
       FreshHandler, Nobody

\* A step of the routes keeps the types.
LEMMA RequestTypes == ASSUME TypeOK, Request PROVE TypeOK'
<1> USE KnowledgeIndexingAssumption
    DEF TypeOK, NoRow, Row, DocumentStatus, JobState, Nobody, Enqueue,
        UpdateDocument
<1>1. CASE UploadCreate
  BY <1>1 DEF UploadCreate
<1>2. CASE UploadEnqueue
  BY <1>2 DEF UploadEnqueue
<1>3. CASE ReindexRead
  BY <1>3 DEF ReindexRead
<1>4. CASE ReindexWrite
  BY <1>4 DEF ReindexWrite
<1>5. CASE ReindexEnqueue
  BY <1>5 DEF ReindexEnqueue
<1>6. CASE Delete
  BY <1>6 DEF Delete
<1> QED
  BY <1>1, <1>2, <1>3, <1>4, <1>5, <1>6 DEF Request

\* A handler that goes on keeps its types.
LEMMA GoesTypes ==
    ASSUME TypeOK, NEW w \in Workers, NEW from, NEW to \in HandlerPC,
           Goes(w, from, to)
    PROVE  handler' \in [Workers -> [pc : HandlerPC, row : Row,
                                     old : SUBSET (1..batches)]]
BY DEF TypeOK, Goes

\* So does one that reads the row.
LEMMA ReadRowTypes ==
    ASSUME TypeOK, NEW w \in Workers, NEW from, NEW to \in HandlerPC,
           NEW none \in HandlerPC, ReadRow(w, from, to, none)
    PROVE  TypeOK'
BY DEF TypeOK, ReadRow, handlerFrame, requests

\* A step of indexDocument keeps the types.
LEMMA HandlerTypes ==
    ASSUME TypeOK, NEW w \in Workers, Take(w) \/ IndexDocument(w) \/ Crash(w)
    PROVE  TypeOK'
<1> USE KnowledgeIndexingAssumption DEF handlerFrame, requests
<1>1. CASE Take(w)
  <2>1. handler' \in [Workers -> [pc : HandlerPC, row : Row,
                                  old : SUBSET (1..batches)]]
    BY <1>1, GoesTypes DEF Take, HandlerPC
  <2> QED
    BY <1>1, <2>1 DEF Take, TypeOK, JobState
<1>2. CASE ReadDocument(w)
  BY <1>2, GoesTypes DEF ReadDocument, HandlerPC, TypeOK
<1>3. CASE MarkRead(w) \/ ReadyRead(w) \/ FailRead(w)
  BY <1>3, ReadRowTypes DEF MarkRead, ReadyRead, FailRead, HandlerPC
<1>4. CASE MarkWrite(w) \/ ReadyWrite(w) \/ FailWrite(w)
  <2>1. handler' \in [Workers -> [pc : HandlerPC, row : Row,
                                  old : SUBSET (1..batches)]]
    BY <1>4, GoesTypes DEF MarkWrite, ReadyWrite, FailWrite, HandlerPC
  <2>2. doc' \in Row
    <3>1. doc \in Row /\ handler[w].row.count \in 0..1
      BY DEF TypeOK, Row
    <3>2. ASSUME NEW status \in DocumentStatus, NEW count \in 0..1,
                 UpdateDocument(status, count)
          PROVE  doc' \in Row
      BY <3>1, <3>2 DEF UpdateDocument, Row
    <3> QED
      BY <1>4, <3>1, <3>2
         DEF MarkWrite, ReadyWrite, FailWrite, DocumentStatus
  <2> QED
    BY <1>4, <2>1, <2>2 DEF MarkWrite, ReadyWrite, FailWrite, TypeOK
<1>5. CASE Index(w)
  BY <1>5, GoesTypes DEF Index, HandlerPC, TypeOK
<1>6. CASE DeleteOldChunks(w)
  BY <1>6 DEF DeleteOldChunks, TypeOK, HandlerPC
<1>7. CASE CommitChunks(w)
  <2>1. batches' = batches + 1 /\ batches \in Nat /\ chunks \subseteq 1..batches
        /\ chunks' \subseteq chunks \cup {batches'}
    BY <1>7 DEF CommitChunks, TypeOK
  <2>2. handler' \in [Workers -> [pc : HandlerPC, row : Row,
                                  old : SUBSET (1..batches)]]
    BY <1>7, GoesTypes DEF CommitChunks, HandlerPC
  <2>3. handler' \in [Workers -> [pc : HandlerPC, row : Row,
                                  old : SUBSET (1..batches')]]
    <3>1. 1..batches \subseteq 1..batches'
      BY <2>1
    <3> QED
      BY <2>2, <3>1
  <2>4. batches' \in Nat /\ chunks' \subseteq 1..batches'
    BY <2>1
  <2> QED
    BY <1>7, <2>3, <2>4 DEF CommitChunks, TypeOK
<1>8. CASE CommitNoChunks(w)
  BY <1>8, GoesTypes DEF CommitNoChunks, HandlerPC, TypeOK
<1>9. CASE Acknowledge(w)
  BY <1>9 DEF Acknowledge, TypeOK, FreshHandler, HandlerPC, JobState, NoRow,
              Row, DocumentStatus, Nobody
<1>10. CASE Crash(w)
  BY <1>10 DEF Crash, TypeOK, FreshHandler, HandlerPC, NoRow, Row,
               DocumentStatus
<1> QED
  BY <1>1, <1>2, <1>3, <1>4, <1>5, <1>6, <1>7, <1>8, <1>9, <1>10
     DEF IndexDocument

\* Every step keeps the types.
LEMMA NextTypes == TypeOK /\ [Next]_vars => TypeOK'
<1> SUFFICES ASSUME TypeOK, [Next]_vars PROVE TypeOK'
  OBVIOUS
<1>1. CASE Stall
  <2>1. job.stalls \in 0..MaxStalls /\ MaxStalls \in Nat
    BY KnowledgeIndexingAssumption DEF TypeOK
  <2>2. CASE job.stalls < MaxStalls
    <3>1. job' = [state |-> "waiting", owner |-> Nobody,
                  stalls |-> job.stalls + 1]
      BY <1>1, <2>2 DEF Stall
    <3>2. job.stalls + 1 \in 0..MaxStalls
      BY <2>1, <2>2
    <3> QED
      BY <1>1, <3>1, <3>2 DEF Stall, TypeOK, JobState, requests
  <2>3. CASE ~(job.stalls < MaxStalls)
    <3>1. job' = [job EXCEPT !.state = "failed", !.owner = Nobody]
      BY <1>1, <2>3 DEF Stall
    <3> QED
      BY <1>1, <3>1 DEF Stall, TypeOK, JobState, requests
  <2> QED
    BY <2>2, <2>3
<1>2. CASE Quiet \/ UNCHANGED vars
  BY <1>2 DEF Quiet, vars, TypeOK
<1> QED
  BY <1>1, <1>2, RequestTypes, HandlerTypes DEF Next

(***************************************************************************)
(* The variables keep their types: the job has an owner exactly while it   *)
(* is active, and no handler deletes a batch that was never committed.     *)
(***************************************************************************)
THEOREM IndexingTypeCorrect == Spec => []TypeOK
BY InitTypes, NextTypes, PTL DEF Spec

-----------------------------------------------------------------------------
\* The initial state satisfies the invariant.
LEMMA InitInvariant == Init => IInv
<1> SUFFICES ASSUME Init PROVE IInv
  OBVIOUS
<1>1. \A w \in Workers : handler[w].pc = "idle"
  BY DEF Init, FreshHandler
<1> QED
  BY <1>1, InitTypes
     DEF Init, IInv, NothingYet, OneHandler, HandlerOrder, LastBatch, NoRow,
         Marked

\* A step of the routes: it writes no chunks and no final status, and the
\* request that deletes everything also deletes the row.
LEMMA RequestStep ==
    ASSUME IInv, Request
    PROVE  NothingYet' /\ OneHandler' /\ HandlerOrder' /\ LastBatch'
<1> USE DEF IInv, NothingYet, OneHandler, HandlerOrder, LastBatch
<1>1. CASE UploadCreate
  <2>1. \A w \in Workers : handler[w].pc = "idle"
    BY <1>1 DEF UploadCreate
  <2> QED
    BY <1>1, <2>1 DEF UploadCreate, Marked
<1>2. CASE UploadEnqueue
  BY <1>2 DEF UploadEnqueue, Enqueue
<1>3. CASE ReindexRead
  BY <1>3 DEF ReindexRead
<1>4. CASE ReindexWrite
  BY <1>4 DEF ReindexWrite, UpdateDocument, TypeOK, Row
<1>5. CASE ReindexEnqueue
  BY <1>5 DEF ReindexEnqueue, Enqueue
<1>6. CASE Delete
  BY <1>6 DEF Delete, NoRow
<1> QED
  BY <1>1, <1>2, <1>3, <1>4, <1>5, <1>6 DEF Request

\* The other handlers are idle while one is at work.
LEMMA OthersIdle ==
    ASSUME IInv, NEW w \in Workers, handler[w].pc # "idle"
    PROVE  /\ job.state = "active" /\ job.owner = w
           /\ \A v \in Workers \ {w} : handler[v].pc = "idle"
BY DEF IInv, OneHandler

\* A step of a handler that goes on, when what it found and what it leaves
\* behind agree with the invariant.
LEMMA OneStep ==
    ASSUME IInv, NEW w \in Workers, handler[w].pc # "idle",
           UNCHANGED <<job, uploader, reindexer>>, doc'.exists = doc.exists,
           NEW h, handler' = [handler EXCEPT ![w] = h],
           h.pc \in {"insert", "clearCommit"} => chunks' \subseteq h.old,
           h.pc \in {"readyRead", "readyWrite"} /\ doc.exists =>
               chunks' = {batches'},
           h.pc \in {"failRead", "failWrite"} => chunks' = {},
           h.pc \in Marked /\ doc.exists => doc'.status \in {"pending", "indexing"},
           LastBatch'
    PROVE  NothingYet' /\ OneHandler' /\ HandlerOrder' /\ LastBatch'
<1>1. handler'[w] = h /\ \A v \in Workers \ {w} : handler'[v].pc = "idle"
  BY OthersIdle DEF IInv, TypeOK
<1>2. OneHandler'
  BY <1>1, OthersIdle DEF OneHandler
<1>3. HandlerOrder'
  BY <1>1 DEF HandlerOrder, Marked
<1>4. NothingYet'
  BY DEF IInv, NothingYet
<1> QED
  BY <1>2, <1>3, <1>4

\* What the invariant says of the handler that makes the step.
LEMMA AtWork ==
    ASSUME IInv, NEW w \in Workers
    PROVE  /\ handler[w].pc \in {"insert", "clearCommit"} =>
                chunks \subseteq handler[w].old
           /\ handler[w].pc \in {"readyRead", "readyWrite"} /\ doc.exists =>
                chunks = {batches}
           /\ handler[w].pc \in {"failRead", "failWrite"} => chunks = {}
           /\ handler[w].pc \in Marked /\ doc.exists =>
                doc.status \in {"pending", "indexing"}
           /\ LastBatch
           /\ TypeOK
BY DEF IInv, HandlerOrder

\* A handler that takes the job finds all others idle.
LEMMA TakeStep ==
    ASSUME IInv, NEW w \in Workers, Take(w)
    PROVE  NothingYet' /\ OneHandler' /\ HandlerOrder' /\ LastBatch'
<1>1. \A v \in Workers : handler[v].pc = "idle"
  BY DEF Take, IInv, OneHandler
<1>2. /\ handler'[w].pc = "read"
      /\ \A v \in Workers \ {w} : handler'[v] = handler[v]
  BY DEF Take, Goes, IInv, TypeOK
<1> QED
  BY <1>1, <1>2
     DEF Take, requests, IInv, TypeOK, NothingYet, OneHandler, HandlerOrder,
         LastBatch, Marked

\* A handler that is through, or dies, leaves nothing behind.
LEMMA LeaveStep ==
    ASSUME IInv, NEW w \in Workers, Acknowledge(w) \/ Crash(w)
    PROVE  NothingYet' /\ OneHandler' /\ HandlerOrder' /\ LastBatch'
<1>1. handler[w].pc # "idle"
  BY DEF Acknowledge, Crash
<1>2. \A v \in Workers : handler'[v].pc = "idle"
  BY <1>1, OthersIdle DEF Acknowledge, Crash, IInv, TypeOK, FreshHandler
<1>3. NothingYet'
  BY <1>1, OthersIdle DEF Acknowledge, Crash, requests, IInv, NothingYet
<1> QED
  BY <1>2, <1>3
     DEF Acknowledge, Crash, requests, IInv, OneHandler, HandlerOrder,
         LastBatch, Marked

\* OneStep for a handler that only goes on.
LEMMA GoesStep ==
    ASSUME IInv, NEW w \in Workers, NEW from, NEW to, Goes(w, from, to),
           from # "idle",
           UNCHANGED <<job, uploader, reindexer>>, doc'.exists = doc.exists,
           to \notin {"insert", "clearCommit"},
           to \in {"readyRead", "readyWrite"} /\ doc.exists =>
               chunks' = {batches'},
           to \in {"failRead", "failWrite"} => chunks' = {},
           to \in Marked /\ doc.exists => doc'.status \in {"pending", "indexing"},
           LastBatch'
    PROVE  NothingYet' /\ OneHandler' /\ HandlerOrder' /\ LastBatch'
<1> DEFINE h == [handler[w] EXCEPT !.pc = to]
<1>1. handler' = [handler EXCEPT ![w] = h] /\ handler[w].pc = from
  BY DEF Goes
<1>2. h.pc = to
  BY AtWork DEF TypeOK
<1> HIDE DEF h
<1> QED
  BY <1>1, <1>2, OneStep

\* The steps of indexDocument, one by one.
LEMMA IndexStep ==
    ASSUME IInv, NEW w \in Workers, IndexDocument(w), ~Acknowledge(w)
    PROVE  NothingYet' /\ OneHandler' /\ HandlerOrder' /\ LastBatch'
<1> USE DEF handlerFrame, requests, LastBatch
<1>2. ASSUME NEW from, NEW to \in HandlerPC, NEW none \in HandlerPC,
             ReadRow(w, from, to, none)
      PROVE  \E h : /\ handler' = [handler EXCEPT ![w] = h]
                    /\ h.pc = IF doc.exists THEN to ELSE none
                    /\ handler[w].pc = from
                    /\ UNCHANGED <<doc, chunks, batches, job, uploader, reindexer>>
  <2>1. handler' = [handler EXCEPT ![w] = [handler[w] EXCEPT !.row = doc,
                       !.pc = IF doc.exists THEN to ELSE none]]
    BY <1>2 DEF ReadRow
  <2>2. [handler[w] EXCEPT !.row = doc,
            !.pc = IF doc.exists THEN to ELSE none].pc
          = IF doc.exists THEN to ELSE none
    BY AtWork DEF TypeOK
  <2> QED
    BY <1>2, <2>1, <2>2 DEF ReadRow
<1>3. CASE ReadDocument(w)
  <2>1. PICK to \in {"markRead", "ack"} : Goes(w, "read", to)
    BY <1>3 DEF ReadDocument
  <2> QED
    BY GoesStep, <1>3, <2>1, AtWork DEF ReadDocument, HandlerPC, Marked
<1>4. CASE MarkRead(w)
  <2>1. PICK h : /\ handler' = [handler EXCEPT ![w] = h]
                 /\ h.pc = IF doc.exists THEN "markWrite" ELSE "index"
                 /\ handler[w].pc = "markRead"
                 /\ UNCHANGED <<doc, chunks, batches, job, uploader, reindexer>>
    BY <1>2, <1>4 DEF MarkRead, HandlerPC
  <2> QED
    BY <2>1, OneStep, AtWork DEF Marked
<1>5. CASE MarkWrite(w)
  <2>1. /\ doc'.exists = doc.exists
        /\ doc.exists => doc'.status = "indexing"
    BY <1>5, AtWork DEF MarkWrite, UpdateDocument, TypeOK, Row
  <2> QED
    BY GoesStep, <1>5, <2>1, AtWork DEF MarkWrite, HandlerPC, Marked
<1>6. CASE Index(w)
  <2>1. PICK to \in {"delete", "clear"} : Goes(w, "index", to)
    BY <1>6 DEF Index
  <2>2. doc.exists => doc.status \in {"pending", "indexing"}
    BY <2>1, AtWork DEF Goes, Marked
  <2>3. LastBatch'
    BY <1>6, <2>2, AtWork DEF Index
  <2> QED
    BY GoesStep, <1>6, <2>1, <2>2, <2>3 DEF Index, Marked
<1>7. CASE DeleteOldChunks(w)
  <2>1. PICK to \in {"insert", "clearCommit"} :
           /\ handler[w].pc \in {"delete", "clear"}
           /\ handler' = [handler EXCEPT ![w] =
                             [handler[w] EXCEPT !.pc = to, !.old = chunks]]
    BY <1>7 DEF DeleteOldChunks
  <2>2. /\ [handler[w] EXCEPT !.pc = to, !.old = chunks].pc = to
        /\ [handler[w] EXCEPT !.pc = to, !.old = chunks].old = chunks
    BY AtWork DEF TypeOK
  <2> QED
    BY <1>7, <2>1, <2>2, OneStep, AtWork DEF DeleteOldChunks, Marked
<1>8. CASE CommitChunks(w)
  <2>1. chunks' = {batches'}
    BY <1>8, AtWork DEF CommitChunks, Goes
  <2>2. doc.exists => doc.status \in {"pending", "indexing"}
    BY <1>8, AtWork DEF CommitChunks, Goes, Marked
  <2>3. LastBatch'
    BY <1>8, <2>2, AtWork DEF CommitChunks
  <2> QED
    BY GoesStep, <1>8, <2>1, <2>2, <2>3 DEF CommitChunks, Marked
<1>9. CASE ReadyRead(w)
  <2>1. PICK h : /\ handler' = [handler EXCEPT ![w] = h]
                 /\ h.pc = IF doc.exists THEN "readyWrite" ELSE "ack"
                 /\ handler[w].pc = "readyRead"
                 /\ UNCHANGED <<doc, chunks, batches, job, uploader, reindexer>>
    BY <1>2, <1>9 DEF ReadyRead, HandlerPC
  <2> QED
    BY <2>1, OneStep, AtWork DEF Marked
<1>10. CASE ReadyWrite(w)
  <2>1. /\ doc'.exists = doc.exists
        /\ doc.exists => doc'.status = "ready" /\ doc'.count = 1
    BY <1>10, AtWork DEF ReadyWrite, UpdateDocument, TypeOK, Row
  <2>2. doc.exists => chunks' = {batches'}
    BY <1>10, AtWork DEF ReadyWrite, Goes
  <2> QED
    BY GoesStep, <1>10, <2>1, <2>2 DEF ReadyWrite, HandlerPC, Marked
<1>11. CASE CommitNoChunks(w)
  <2>1. chunks' = {}
    BY <1>11, AtWork DEF CommitNoChunks, Goes
  <2>2. doc.exists => doc.status \in {"pending", "indexing"}
    BY <1>11, AtWork DEF CommitNoChunks, Goes, Marked
  <2>3. LastBatch'
    BY <1>11, <2>2, AtWork DEF CommitNoChunks
  <2> QED
    BY GoesStep, <1>11, <2>1, <2>2, <2>3 DEF CommitNoChunks, Marked
<1>12. CASE FailRead(w)
  <2>1. PICK h : /\ handler' = [handler EXCEPT ![w] = h]
                 /\ h.pc = IF doc.exists THEN "failWrite" ELSE "ack"
                 /\ handler[w].pc = "failRead"
                 /\ UNCHANGED <<doc, chunks, batches, job, uploader, reindexer>>
    BY <1>2, <1>12 DEF FailRead, HandlerPC
  <2> QED
    BY <2>1, OneStep, AtWork DEF Marked
<1>13. CASE FailWrite(w)
  <2>1. /\ doc'.exists = doc.exists
        /\ doc.exists => doc'.status = "failed" /\ doc'.count = 0
    BY <1>13, AtWork DEF FailWrite, UpdateDocument, TypeOK, Row
  <2>2. chunks' = {}
    BY <1>13, AtWork DEF FailWrite, Goes
  <2> QED
    BY GoesStep, <1>13, <2>1, <2>2 DEF FailWrite, HandlerPC, Marked
<1> QED
  BY <1>3, <1>4, <1>5, <1>6, <1>7, <1>8, <1>9, <1>10, <1>11, <1>12, <1>13
     DEF IndexDocument

\* Every step keeps the invariant, if BullMQ takes a job only from the dead.
LEMMA InvariantStep == ~MayStallAlive /\ IInv /\ [Next]_vars => IInv'
<1> SUFFICES ASSUME ~MayStallAlive, IInv, [Next]_vars PROVE IInv'
  OBVIOUS
<1>1. TypeOK'
  BY NextTypes DEF IInv
<1>2. NothingYet' /\ OneHandler' /\ HandlerOrder' /\ LastBatch'
  <2>1. CASE Stall
    BY <2>1 DEF Stall, requests, IInv, TypeOK, NothingYet, OneHandler,
                HandlerOrder, LastBatch
  <2>2. CASE Quiet \/ UNCHANGED vars
    BY <2>2 DEF Quiet, vars, IInv, NothingYet, OneHandler, HandlerOrder,
                LastBatch
  <2>3. CASE Request
    BY <2>3, RequestStep
  <2>4. ASSUME NEW w \in Workers, Take(w) \/ IndexDocument(w) \/ Crash(w)
        PROVE  NothingYet' /\ OneHandler' /\ HandlerOrder' /\ LastBatch'
    BY <2>4, TakeStep, LeaveStep, IndexStep
  <2> QED
    BY <2>1, <2>2, <2>3, <2>4 DEF Next
<1> QED
  BY <1>1, <1>2 DEF IInv

(***************************************************************************)
(* However many requests come, Workers die and jobs are run again: a ready *)
(* document has the chunks of one pass, a failed one has none - as long as *)
(* BullMQ takes no job from a handler that is alive.                       *)
(***************************************************************************)
THEOREM StatusTellsChunks == ~MayStallAlive => (Spec => []StatusMatchesChunks)
<1> SUFFICES ASSUME ~MayStallAlive PROVE Spec => []StatusMatchesChunks
  OBVIOUS
<1>1. Init => IInv
  BY InitInvariant
<1>2. IInv /\ [Next]_vars => IInv'
  BY InvariantStep
<1>3. IInv => StatusMatchesChunks
  <2>1. Cardinality({batches}) = 1
    BY FS_Singleton
  <2> QED
    BY <2>1 DEF IInv, LastBatch, StatusMatchesChunks
<1> QED
  BY <1>1, <1>2, <1>3, PTL DEF Spec

-----------------------------------------------------------------------------
(***************************************************************************)
(* The loop of the agent, for any maxIterations and any number of calls.   *)
(***************************************************************************)

\* How far the graph is in its iterations, by the node it is at: an
\* iteration is one visit of the agent and one of the tools, a summary comes
\* at the end, and only an answer below maxIterations leads to the tools.
AlStepsCounted ==
    /\ alNode # "recursion"
    /\ alNode = "new" => alSteps = 0 /\ alCurrent = 0
    /\ alNode = "agent" => alSteps = 2 * alCurrent /\ alCurrent < alMax
    /\ alNode = "tools" => alSteps = 2 * alCurrent + 1 /\ alCurrent + 1 < alMax
    /\ alNode = "summarize" => alSteps = 2 * alCurrent + 2 /\ alCurrent + 1 < alMax

-----------------------------------------------------------------------------
\* The announced calls stay a sequence when one of them changes its status.
LEMMA AlCallUpdated ==
    ASSUME AlTypeOK, NEW c \in AlThisAnswer,
           NEW s \in {"ready", "checking", "executing"} \cup AlClosed
    PROVE  /\ [alCalls EXCEPT ![c] = s] \in Seq({"ready", "checking", "executing"} \cup AlClosed)
           /\ Len([alCalls EXCEPT ![c] = s]) = Len(alCalls)
<1>1. c \in 1..Len(alCalls)
  BY LenProperties DEF AlTypeOK, AlThisAnswer
<1> QED
  BY <1>1, ExceptSeq DEF AlTypeOK

\* The initial state has the types.
LEMMA AlInitTypes == AlInit => AlTypeOK
<1> SUFFICES ASSUME AlInit PROVE AlTypeOK
  OBVIOUS
<1>1. /\ alCalls \in Seq({"ready", "checking", "executing"} \cup AlClosed)
      /\ alFirst \in 1..(Len(alCalls) + 1)
  BY EmptySeq DEF AlInit
<1>2. alMax \in 1..AlMaxIterations /\ alCurrent \in Nat /\ alIteration \in Nat /\ alSteps \in Nat
  BY AgentLoopAssumption DEF AlInit
<1> QED
  BY <1>1, <1>2 DEF AlInit, AlTypeOK

\* A step of the loop keeps the types.
LEMMA AlLoopTypes == ASSUME AlTypeOK, AlLoop PROVE AlTypeOK'
<1>1. ASSUME NEW n \in 1..AlMaxCalls, AlModelCallsTools(n) PROVE AlTypeOK'
  <2>1. /\ [i \in 1..n |-> "ready"] \in Seq({"ready", "checking", "executing"} \cup AlClosed)
        /\ Len([i \in 1..n |-> "ready"]) = n
    BY AgentLoopAssumption
  <2>2. /\ alCalls' \in Seq({"ready", "checking", "executing"} \cup AlClosed)
        /\ Len(alCalls') = Len(alCalls) + n
    BY <1>1, <2>1, ConcatProperties DEF AlModelCallsTools, AlTypeOK
  <2>3. alFirst' \in 1..(Len(alCalls') + 1)
    BY <1>1, <2>2, AgentLoopAssumption DEF AlModelCallsTools, AlTypeOK
  <2>4. alNode' \in AlNodes \cup AlEnds /\ alIteration' \in Nat /\ alSteps' \in Nat
    BY <1>1 DEF AlModelCallsTools, AlTypeOK, AlAfterCalls, AlNodes, AlEnds
  <2> QED
    BY <1>1, <2>2, <2>3, <2>4 DEF AlModelCallsTools, AlTypeOK
<1>2. ASSUME NEW text \in BOOLEAN, AlModelAnswers(text) PROVE AlTypeOK'
  BY <1>2 DEF AlModelAnswers, AlTypeOK, AlNodes, AlEnds
<1>3. CASE AlModelFails
  BY <1>3 DEF AlModelFails, AlTypeOK, AlNodes, AlEnds
<1>4. ASSUME NEW c \in AlThisAnswer, AlToolStart(c) PROVE AlTypeOK'
  BY <1>4, AlCallUpdated DEF AlToolStart, AlTypeOK, AlRest, AlNodes, AlEnds
<1>5. ASSUME NEW c \in AlThisAnswer, NEW tool \in AlToolNames, AlToolChecked(c, tool) PROVE AlTypeOK'
  <2>1. PICK status \in AlChecks(tool) :
          /\ alCalls' = [alCalls EXCEPT ![c] = status]
          /\ alNode' = IF status = "hard" THEN "failed" ELSE alNode
    BY <1>5 DEF AlToolChecked
  <2>2. status \in {"ready", "checking", "executing"} \cup AlClosed
    BY DEF AlChecks, AlClosed
  <2> QED
    BY <1>5, <2>1, <2>2, AlCallUpdated DEF AlToolChecked, AlTypeOK, AlRest, AlNodes, AlEnds
<1>6. ASSUME NEW c \in AlThisAnswer, AlToolTimesOut(c) PROVE AlTypeOK'
  <2>1. c \in Nat
    BY DEF AlThisAnswer, AlTypeOK
  <2> QED
    BY <1>6, <2>1, AlCallUpdated DEF AlToolTimesOut, AlTypeOK, AlRest, AlClosed
<1>7. CASE AlToolsDone
  BY <1>7 DEF AlToolsDone, AlTypeOK, AlNextIteration, AlNodes, AlEnds
<1>8. ASSUME NEW text \in BOOLEAN, AlSummarize(text) PROVE AlTypeOK'
  BY <1>8 DEF AlSummarize, AlTypeOK, AlNodes, AlEnds
<1>9. CASE AlRecursionError
  BY <1>9 DEF AlRecursionError, AlTypeOK, AlRest, AlNodes, AlEnds
<1>10. CASE AlStop
  <2>1. AlExecuting \subseteq Nat
    BY DEF AlExecuting, AlThisAnswer, AlTypeOK
  <2>2. alZombies' \in SUBSET Nat
    BY <1>10, <2>1 DEF AlStop, AlTypeOK
  <2>3. alNode' \in AlEnds
    BY <1>10 DEF AlStop, AlEnds
  <2> QED
    BY <1>10, <2>2, <2>3 DEF AlStop, AlTypeOK, AlRest
<1> QED
  BY <1>1, <1>2, <1>3, <1>4, <1>5, <1>6, <1>7, <1>8, <1>9, <1>10 DEF AlLoop

\* What the tools and the user do keeps the types.
LEMMA AlOutsideTypes == ASSUME AlTypeOK, AlOutside PROVE AlTypeOK'
<1>1. ASSUME NEW c \in AlThisAnswer, AlToolFails(c) PROVE AlTypeOK'
  BY <1>1, AlCallUpdated DEF AlToolFails, AlTypeOK, AlRest, AlClosed, AlNodes, AlEnds
<1>2. ASSUME NEW c \in AlThisAnswer, NEW partial \in BOOLEAN, AlToolReturns(c, partial) PROVE AlTypeOK'
  BY <1>2, AlCallUpdated DEF AlToolReturns, AlTypeOK, AlRest, AlClosed
<1>3. ASSUME NEW c \in alZombies, AlZombieEnds(c) PROVE AlTypeOK'
  BY <1>3 DEF AlZombieEnds, AlTypeOK, AlRest
<1>4. CASE AlCancel
  BY <1>4 DEF AlCancel, AlTypeOK
<1> QED
  BY <1>1, <1>2, <1>3, <1>4 DEF AlOutside

\* Every step keeps the types.
LEMMA AlStepTypes == AlTypeOK /\ [AlNext]_alVars => AlTypeOK'
<1> SUFFICES ASSUME AlTypeOK, [AlNext]_alVars PROVE AlTypeOK'
  OBVIOUS
<1>1. ASSUME NEW max \in 1..AlMaxIterations, NEW replay \in BOOLEAN, AlRun(max, replay) PROVE AlTypeOK'
  BY <1>1 DEF AlRun, AlTypeOK, AlNodes
<1>2. CASE UNCHANGED alVars
  BY <1>2 DEF alVars, AlTypeOK
<1> QED
  BY <1>1, <1>2, AlLoopTypes, AlOutsideTypes DEF AlNext

-----------------------------------------------------------------------------
AlMessagesSet == [kind : {"answer", "tool"}, calls : Nat]

\* The first n messages of h are a history a provider takes: an answer is
\* followed at once by the messages of its calls, in order.
AlAnswered(h, n) ==
    \A i \in 1..n : h[i].kind = "answer" =>
        \A k \in 1..h[i].calls :
            /\ i + k \in 1..n
            /\ h[i + k].kind = "tool"
            /\ k > 1 => h[i + k].calls = h[i + k - 1].calls + 1

\* While the tools run only the last answer waits for its messages, and it
\* called exactly the calls that are open now.
AlHistoryGrows ==
    /\ alHistory \in Seq(AlMessagesSet)
    /\ alNode \in {"new", "agent", "summarize"} => AlAnswered(alHistory, Len(alHistory))
    /\ alNode = "tools" =>
         /\ Len(alHistory) # 0
         /\ AlAnswered(alHistory, Len(alHistory) - 1)
         /\ alHistory[Len(alHistory)] = AlAnswerMessage(Len(alCalls) + 1 - alFirst)

\* What holds of the first messages of a history holds of one that goes on.
LEMMA AlAnsweredKept ==
    ASSUME NEW h \in Seq(AlMessagesSet), NEW g, NEW n \in Nat, n <= Len(h), AlAnswered(h, n),
           \A i \in 1..n : g[i] = h[i]
    PROVE  AlAnswered(g, n)
<1> SUFFICES ASSUME NEW i \in 1..n, g[i].kind = "answer", NEW k \in 1..g[i].calls
             PROVE  /\ i + k \in 1..n
                    /\ g[i + k].kind = "tool"
                    /\ k > 1 => g[i + k].calls = g[i + k - 1].calls + 1
  BY DEF AlAnswered
<1>1. g[i] = h[i] /\ h[i] \in AlMessagesSet
  BY ElementOfSeq
<1>2. /\ i + k \in 1..n
      /\ h[i + k].kind = "tool"
      /\ k > 1 => h[i + k].calls = h[i + k - 1].calls + 1
  BY <1>1 DEF AlAnswered
<1>3. h[i].calls \in Nat
  BY <1>1 DEF AlMessagesSet
<1>4. k \in Nat /\ (k > 1 => i + k - 1 \in 1..n)
  BY <1>1, <1>2, <1>3
<1> QED
  BY <1>2, <1>4

\* An answer with calls leads from a history that is answered to one that
\* waits for the messages of these calls.
LEMMA AlCallsOpenHistory ==
    ASSUME AlTypeOK, AlHistoryGrows, NEW n \in 1..AlMaxCalls, AlModelCallsTools(n)
    PROVE  AlHistoryGrows'
<1>1. /\ alHistory \in Seq(AlMessagesSet) /\ AlAnswerMessage(n) \in AlMessagesSet
      /\ alNode = "agent" /\ AlAnswered(alHistory, Len(alHistory))
  BY AgentLoopAssumption DEF AlHistoryGrows, AlModelCallsTools, AlAnswerMessage, AlMessagesSet
<1>2. alHistory' = Append(alHistory, AlAnswerMessage(n))
  BY DEF AlModelCallsTools
<1>3. /\ alHistory' \in Seq(AlMessagesSet) /\ Len(alHistory') = Len(alHistory) + 1
      /\ \A i \in 1..Len(alHistory) : alHistory'[i] = alHistory[i]
      /\ alHistory'[Len(alHistory) + 1] = AlAnswerMessage(n)
  BY <1>1, <1>2, AppendProperties
<1>4. Len(alCalls') = Len(alCalls) + n /\ alFirst' = Len(alCalls) + 1
  <2>1. /\ [i \in 1..n |-> "ready"] \in Seq({"ready", "checking", "executing"} \cup AlClosed)
        /\ Len([i \in 1..n |-> "ready"]) = n
    BY AgentLoopAssumption
  <2> QED
    BY <2>1, ConcatProperties DEF AlModelCallsTools, AlTypeOK
<1>5. AlAnswered(alHistory', Len(alHistory') - 1)
  <2>1. Len(alHistory') - 1 = Len(alHistory) /\ Len(alHistory) \in Nat
    BY <1>1, <1>3, LenProperties
  <2> QED
    BY <1>1, <1>3, <2>1, AlAnsweredKept
<1>6. alNode' \in {"tools", "failed"}
  BY DEF AlModelCallsTools, AlAfterCalls
<1>7. QED
  <2>1. /\ Len(alHistory) \in Nat /\ Len(alCalls) \in Nat
        /\ Len(alCalls') + 1 - alFirst' = n
    BY <1>1, <1>4, LenProperties DEF AlTypeOK
  <2> QED
    BY <1>1, <1>3, <1>5, <1>6, <2>1 DEF AlHistoryGrows

\* The messages of the calls answer the last answer.
LEMMA AlToolsCloseHistory ==
    ASSUME AlTypeOK, AlHistoryGrows, AlToolsDone
    PROVE  AlHistoryGrows'
<1> DEFINE n == Len(alHistory)
           m == Len(alCalls) + 1 - alFirst
           answers == [i \in 1..m |-> AlToolMessage(alFirst + i - 1)]
<1>1. /\ alHistory \in Seq(AlMessagesSet) /\ n \in Nat /\ n # 0
      /\ AlAnswered(alHistory, n - 1) /\ alHistory[n] = AlAnswerMessage(m)
  BY LenProperties DEF AlHistoryGrows, AlToolsDone
<1>2. m \in Nat /\ alFirst \in Nat /\ alFirst > 0
  BY LenProperties DEF AlTypeOK
<1>3. Len(AlMessages) = m /\ \A i \in 1..m : AlMessages[i] = alFirst + i - 1
  BY <1>2 DEF AlMessages
<1>4. /\ answers \in Seq(AlMessagesSet) /\ Len(answers) = m
      /\ \A i \in 1..m : answers[i] = AlToolMessage(alFirst + i - 1)
  BY <1>2 DEF AlToolMessage, AlMessagesSet
<1>5. alHistory' = alHistory \o answers
  BY <1>3 DEF AlToolsDone
<1>6. /\ alHistory' \in Seq(AlMessagesSet) /\ Len(alHistory') = n + m
      /\ \A i \in 1..n : alHistory'[i] = alHistory[i]
      /\ \A i \in 1..m : alHistory'[n + i] = AlToolMessage(alFirst + i - 1)
  <2> HIDE DEF answers
  <2>1. /\ alHistory \o answers \in Seq(AlMessagesSet) /\ Len(alHistory \o answers) = n + Len(answers)
        /\ \A i \in 1..(n + Len(answers)) :
             (alHistory \o answers)[i] = IF i <= n THEN alHistory[i] ELSE answers[i - n]
    BY <1>1, <1>4, ConcatProperties
  <2>2. \A i \in 1..m : n + i \in 1..(n + m) /\ ~(n + i <= n) /\ (n + i) - n = i
    BY <1>1, <1>2
  <2> HIDE DEF n, m
  <2>3. \A i \in 1..m : alHistory'[n + i] = answers[i]
    BY <1>4, <1>5, <2>1, <2>2
  <2>4. \A i \in 1..n : i \in 1..(n + m) /\ i <= n
    BY <1>1, <1>2
  <2> QED
    BY <1>4, <1>5, <2>1, <2>3, <2>4
<1>7. AlAnswered(alHistory', n + m)
  <2> HIDE DEF n, m
  <2> SUFFICES ASSUME NEW i \in 1..(n + m), alHistory'[i].kind = "answer",
                      NEW k \in 1..alHistory'[i].calls
               PROVE  /\ i + k \in 1..(n + m)
                      /\ alHistory'[i + k].kind = "tool"
                      /\ k > 1 => alHistory'[i + k].calls = alHistory'[i + k - 1].calls + 1
    BY DEF AlAnswered
  <2>1. CASE i < n
    <3>1. AlAnswered(alHistory', n - 1)
      BY <1>1, <1>6, AlAnsweredKept DEF n
    <3>2. /\ i + k \in 1..(n - 1)
          /\ alHistory'[i + k].kind = "tool"
          /\ k > 1 => alHistory'[i + k].calls = alHistory'[i + k - 1].calls + 1
      BY <1>1, <2>1, <3>1 DEF AlAnswered
    <3> QED
      BY <1>1, <1>2, <3>2
  <2>2. CASE i = n
    <3>1. k \in 1..m
      BY <1>1, <1>6, <2>2 DEF AlAnswerMessage
    <3>2. alHistory'[n + k] = AlToolMessage(alFirst + k - 1)
      BY <1>6, <3>1
    <3>3. k > 1 => alHistory'[n + k - 1] = AlToolMessage(alFirst + (k - 1) - 1)
      <4>1. k > 1 => k - 1 \in 1..m /\ n + k - 1 = n + (k - 1)
        BY <1>1, <1>2, <3>1
      <4> QED
        BY <1>6, <4>1
    <3> QED
      BY <1>1, <1>2, <2>2, <3>1, <3>2, <3>3 DEF AlToolMessage
  <2>3. CASE i > n
    <3>1. i - n \in 1..m /\ i = n + (i - n)
      BY <1>1, <1>2, <2>3
    <3>2. alHistory'[i] = AlToolMessage(alFirst + (i - n) - 1)
      BY <1>6, <3>1
    <3> QED
      BY <3>2 DEF AlToolMessage
  <2> QED
    BY <1>1, <1>2, <2>1, <2>2, <2>3
<1>8. alNode' \in {"agent", "summarize"}
  BY DEF AlToolsDone
<1> HIDE DEF n, m
<1> QED
  BY <1>6, <1>7, <1>8 DEF AlHistoryGrows

\* A call that changes its status leaves the history as it is.
LEMMA AlCallKeepsHistory ==
    ASSUME AlTypeOK, AlHistoryGrows, NEW c \in AlThisAnswer,
           NEW s \in {"ready", "checking", "executing"} \cup AlClosed,
           alNode = "tools", alCalls' = [alCalls EXCEPT ![c] = s],
           alFirst' = alFirst, alHistory' = alHistory, alNode' \in {"tools", "failed"}
    PROVE  AlHistoryGrows'
<1>1. Len(alCalls') = Len(alCalls)
  BY AlCallUpdated
<1> QED
  BY <1>1 DEF AlHistoryGrows, AlAnswered

\* An answer without calls, or none, ends the loop.
LEMMA AlAnswerEnds ==
    ASSUME AlHistoryGrows, alNode' \in {"completed", "failed"},
           alHistory' \in {alHistory, Append(alHistory, AlAnswerMessage(0))}
    PROVE  AlHistoryGrows'
<1>1. AlAnswerMessage(0) \in AlMessagesSet
  BY DEF AlAnswerMessage, AlMessagesSet
<1>2. alHistory' \in Seq(AlMessagesSet)
  BY <1>1, AppendProperties DEF AlHistoryGrows
<1> QED
  BY <1>2 DEF AlHistoryGrows

\* Every step keeps the history one a provider takes.
LEMMA AlStepHistory == AlTypeOK /\ AlHistoryGrows /\ [AlNext]_alVars => AlHistoryGrows'
<1> SUFFICES ASSUME AlTypeOK, AlHistoryGrows, [AlNext]_alVars PROVE AlHistoryGrows'
  OBVIOUS
<1> USE DEF AlActive, AlNodes
<1>1. ASSUME NEW max \in 1..AlMaxIterations, NEW replay \in BOOLEAN, AlRun(max, replay)
      PROVE  AlHistoryGrows'
  BY <1>1 DEF AlRun, AlHistoryGrows, AlAnswered
<1>2. ASSUME NEW n \in 1..AlMaxCalls, AlModelCallsTools(n) PROVE AlHistoryGrows'
  BY <1>2, AlCallsOpenHistory
<1>3. ASSUME NEW text \in BOOLEAN, AlModelAnswers(text) PROVE AlHistoryGrows'
  BY <1>3, AlAnswerEnds DEF AlModelAnswers
<1>4. CASE AlModelFails
  BY <1>4 DEF AlModelFails, AlHistoryGrows
<1>5. ASSUME NEW c \in AlThisAnswer, AlToolStart(c) \/ AlToolTimesOut(c) \/ AlToolFails(c)
      PROVE  AlHistoryGrows'
  BY <1>5, AlCallKeepsHistory DEF AlToolStart, AlToolTimesOut, AlToolFails, AlRest, AlClosed
<1>6. ASSUME NEW c \in AlThisAnswer, NEW tool \in AlToolNames, AlToolChecked(c, tool)
      PROVE  AlHistoryGrows'
  <2>1. PICK status \in AlChecks(tool) :
          /\ alCalls' = [alCalls EXCEPT ![c] = status]
          /\ alNode' = IF status = "hard" THEN "failed" ELSE alNode
    BY <1>6 DEF AlToolChecked
  <2>2. status \in {"ready", "checking", "executing"} \cup AlClosed
    BY DEF AlChecks, AlClosed
  <2> QED
    BY <1>6, <2>1, <2>2, AlCallKeepsHistory DEF AlToolChecked, AlRest
<1>7. ASSUME NEW c \in AlThisAnswer, NEW partial \in BOOLEAN, AlToolReturns(c, partial)
      PROVE  AlHistoryGrows'
  BY <1>7, AlCallKeepsHistory DEF AlToolReturns, AlRest, AlClosed
<1>8. CASE AlToolsDone
  BY <1>8, AlToolsCloseHistory
<1>9. ASSUME NEW text \in BOOLEAN, AlSummarize(text) PROVE AlHistoryGrows'
  BY <1>9, AlAnswerEnds DEF AlSummarize
<1>10. CASE AlRecursionError
  BY <1>10 DEF AlRecursionError, AlRest, AlHistoryGrows
<1>11. CASE AlStop
  BY <1>11 DEF AlStop, AlRest, AlHistoryGrows
<1>12. CASE (\E c \in alZombies : AlZombieEnds(c)) \/ AlCancel \/ UNCHANGED alVars
  <2>1. alHistory' = alHistory /\ alNode' = alNode /\ alCalls' = alCalls /\ alFirst' = alFirst
    BY <1>12 DEF AlZombieEnds, AlCancel, alVars, AlRest
  <2> QED
    BY <2>1 DEF AlHistoryGrows
<1> QED
  BY <1>1, <1>2, <1>3, <1>4, <1>5, <1>6, <1>7, <1>8, <1>9, <1>10, <1>11, <1>12
  DEF AlNext, AlLoop, AlOutside

-----------------------------------------------------------------------------
\* Every step keeps the count.
LEMMA AlStepCounts == AlTypeOK /\ AlStepsCounted /\ [AlNext]_alVars => AlStepsCounted'
<1> SUFFICES ASSUME AlTypeOK, AlStepsCounted, [AlNext]_alVars PROVE AlStepsCounted'
  OBVIOUS
<1> USE DEF AlStepsCounted, AlActive, AlNodes
<1>1. ASSUME NEW max \in 1..AlMaxIterations, NEW replay \in BOOLEAN, AlRun(max, replay)
      PROVE  AlStepsCounted'
  BY <1>1, AgentLoopAssumption DEF AlRun
<1>2. ASSUME NEW n \in 1..AlMaxCalls, AlModelCallsTools(n) PROVE AlStepsCounted'
  BY <1>2, AgentLoopAssumption DEF AlModelCallsTools, AlAfterCalls, AlTypeOK
<1>3. ASSUME NEW text \in BOOLEAN, AlModelAnswers(text) PROVE AlStepsCounted'
  BY <1>3 DEF AlModelAnswers
<1>4. CASE AlModelFails
  BY <1>4 DEF AlModelFails
<1>5. ASSUME NEW c \in AlThisAnswer, AlToolStart(c) PROVE AlStepsCounted'
  BY <1>5 DEF AlToolStart, AlRest
<1>6. ASSUME NEW c \in AlThisAnswer, NEW tool \in AlToolNames, AlToolChecked(c, tool)
      PROVE  AlStepsCounted'
  BY <1>6 DEF AlToolChecked, AlRest
<1>7. ASSUME NEW c \in AlThisAnswer, AlToolTimesOut(c) PROVE AlStepsCounted'
  BY <1>7 DEF AlToolTimesOut, AlRest
<1>8. CASE AlToolsDone
  BY <1>8, AgentLoopAssumption DEF AlToolsDone, AlNextIteration, AlTypeOK
<1>9. ASSUME NEW text \in BOOLEAN, AlSummarize(text) PROVE AlStepsCounted'
  BY <1>9 DEF AlSummarize
<1>10. ~AlRecursionError
  BY AgentLoopAssumption DEF AlRecursionError, AlRecursionLimit, AlTypeOK
<1>11. CASE AlStop
  BY <1>11 DEF AlStop, AlRest
<1>12. CASE AlOutside
  BY <1>12 DEF AlOutside, AlToolFails, AlToolReturns, AlZombieEnds, AlCancel, AlRest
<1>13. CASE UNCHANGED alVars
  BY <1>13 DEF alVars
<1> QED
  BY <1>1, <1>2, <1>3, <1>4, <1>5, <1>6, <1>7, <1>8, <1>9, <1>10, <1>11, <1>12, <1>13
  DEF AlNext, AlLoop

\* What the loop does, whether its promises settle or not.
AlMoves == AlInit /\ [][AlNext]_alVars

AlIInv == AlTypeOK /\ AlStepsCounted /\ AlHistoryGrows

LEMMA AlInvariant == AlMoves => []AlIInv
<1>1. AlInit => AlIInv
  <2>1. <<>> \in Seq(AlMessagesSet) /\ Len(<<>>) = 0
    BY EmptySeq
  <2>2. AlInit => AlStepsCounted /\ AlHistoryGrows
    BY <2>1 DEF AlInit, AlStepsCounted, AlHistoryGrows, AlAnswered
  <2> QED
    BY <2>2, AlInitTypes DEF AlIInv
<1>2. AlIInv /\ [AlNext]_alVars => AlIInv'
  BY AlStepTypes, AlStepCounts, AlStepHistory DEF AlIInv
<1> QED
  BY <1>1, <1>2, PTL DEF AlMoves

LEMMA AlIInvTells == AlIInv => AlTypeOK /\ AlNoRecursionError /\ AlHistoryAnswered
<1>1. AlStepsCounted => AlNoRecursionError
  BY DEF AlStepsCounted, AlNoRecursionError
<1>2. AlHistoryGrows => AlHistoryAnswered
  BY LenProperties DEF AlHistoryGrows, AlAnswered, AlHistoryAnswered
<1> QED
  BY <1>1, <1>2 DEF AlIInv

\* The variables of the loop keep their types, whatever the model and the
\* tools do (LangChainAgentService.run).
THEOREM AlTypeCorrect == AlSpec => []AlTypeOK
BY AlInvariant, AlIInvTells, PTL DEF AlSpec, AlMoves

\* The recursion limit of the graph, maxIterations * 2 + 4, is never met
\* (executeGraph): maxIterations ends the loop before.
THEOREM AlRecursionLimitIsFar == AlSpec => []AlNoRecursionError
BY AlInvariant, AlIInvTells, PTL DEF AlSpec, AlMoves

\* A provider is never sent a tool call without its tool message
\* (callModelInner, after governedTools), whatever the tools did.
THEOREM AlProviderTakesHistory == AlSpec => []AlHistoryAnswered
BY AlInvariant, AlIInvTells, PTL DEF AlSpec, AlMoves

-----------------------------------------------------------------------------
(***************************************************************************)
(* The start and the end of the processes, for any number of runs, starts  *)
(* and failures.                                                           *)
(***************************************************************************)

(* The inductive invariant.                                                *)

\* What a process has opened when it serves.
PrNeeds(p) ==
    IF p = "api"
    THEN {"agentStore", "redis", "runQueue", "knowledgeQueue", "authStore"}
    ELSE {"agentStore", "redis"}

\* The place of the last step of a start.
PrLast(p) == IF p = "api" THEN 9 ELSE 6

PrServes(p) == prPhase[p] \in {"serving", "draining"}

\* A start has opened what the steps before its next one open, and a process
\* that serves has gone through all of them.
PrBootIsAt(p) ==
    /\ prPhase[p] = "down" => prAt[p] = 1
    /\ prPhase[p] = "booting" =>
        /\ prAt[p] \in 1..PrLast(p)
        /\ \A i \in 1..(prAt[p] - 1) :
              PrOpens(PrBootOf(p)[i]) \subseteq prOpen[p]
    /\ PrServes(p) => prAt[p] = 1 /\ PrNeeds(p) \subseteq prOpen[p]

PrBootIsInOrder == \A p \in PrProcesses : PrBootIsAt(p)

\* A close has closed what the steps before its next one close, but for what
\* is stuck.
PrCloseIsInOrder ==
    \A p \in PrProcesses :
        IF prPhase[p] = "closing"
        THEN /\ prAt[p] \in 1..6
             /\ prStuck[p] =
                   prOpen[p] \cap {PrCloseOrder[i] : i \in 1..(prAt[p] - 1)}
        ELSE prStuck[p] = {}

\* The API has been started through, and may be closing.
PrIsUp == PrServes("api") \/ prPhase["api"] = "closing"

\* Where a run can be, in view of what the processes do.
PrRunHasItsProcess ==
    \A r \in PrRuns :
        /\ prRun[r].place = "job" => PrServes("worker")
        /\ prRun[r].place = "request" => PrServes("api")
        /\ prRun[r].place \in {"abandoned", "running", "aborted", "unwinding"} => PrIsUp

\* An execution that shutdown has listed unwinds before the close goes on, unless
\* a cancelRun has thrown.
PrShutdownHolds ==
    /\ prShut.runs # {} => prPhase["api"] = "closing"
    /\ (\E r \in prShut.runs : PrExecuting(r)) /\ ~prShut.thrown =>
          prAt["api"] = 1 /\ PrConnected

\* A run is older than the API that finds it at its start, and an API that serves
\* has lost none but its own.
PrLeftoversAreOlder ==
    \A r \in PrRuns :
        /\ prRun[r].born <= prBoots["api"]
        /\ prPhase["api"] = "booting" /\ prRun[r].place # "none" =>
              prRun[r].born < prBoots["api"]
        /\ prRun[r].place \in {"request", "abandoned", "running", "aborted"} =>
              prRun[r].born = prBoots["api"]
        /\ prRun[r].place = "lost" =>
              /\ PrServes("api") => prRun[r].born = prBoots["api"]
              /\ prPhase["api"] = "booting" => prAt["api"] < PrLast("api")
        /\ prRun[r].taken # 0 => prRun[r].born < prRun[r].taken
        /\ prRun[r].place = "none" => prRun[r].taken = 0

PrIInv ==
    /\ PrTypeOK /\ PrBootIsInOrder /\ PrCloseIsInOrder /\ PrRunHasItsProcess
    /\ PrShutdownHolds /\ PrLeftoversAreOlder

-----------------------------------------------------------------------------
(* The two starts, step by step.                                           *)

PrSteps == {"storage", "authStore", "agentStore", "redis", "runQueue",
            "knowledgeQueue", "coordinator", "cleanup", "listen",
            "bullWorker", "monitorQueue"}

\* Two parts of a start, one after the other.
LEMMA PrConcat ==
    ASSUME NEW s \in Seq(PrSteps), NEW t \in Seq(PrSteps)
    PROVE  /\ s \o t \in Seq(PrSteps)
           /\ Len(s \o t) = Len(s) + Len(t)
           /\ \A i \in 1..Len(s) : (s \o t)[i] = s[i]
           /\ \A i \in 1..Len(t) : (s \o t)[Len(s) + i] = t[i]
BY ConcatProperties

LEMMA PrApiContainerBootIs ==
    LET c == PrContainerBoot("api") IN
        /\ c \in Seq(PrSteps) /\ Len(c) = 4
        /\ c[1] = "redis" /\ c[2] = "runQueue" /\ c[3] = "knowledgeQueue"
        /\ c[4] = "coordinator"
<1> DEFINE r == <<"redis">>  q == <<"runQueue", "knowledgeQueue">>
           k == <<"coordinator">>  rq == r \o q  c == rq \o k
<1>1. PrContainerBoot("api") = c
  BY DEF PrContainerBoot
<1>2. r \in Seq(PrSteps) /\ Len(r) = 1 /\ r[1] = "redis"
  BY DEF PrSteps
<1>3. /\ q \in Seq(PrSteps) /\ Len(q) = 2
      /\ q[1] = "runQueue" /\ q[2] = "knowledgeQueue"
  BY DEF PrSteps
<1>4. k \in Seq(PrSteps) /\ Len(k) = 1 /\ k[1] = "coordinator"
  BY DEF PrSteps
<1> HIDE DEF r, q, k
<1>5. /\ rq \in Seq(PrSteps) /\ Len(rq) = Len(r) + Len(q)
      /\ \A i \in 1..Len(r) : rq[i] = r[i]
      /\ \A i \in 1..Len(q) : rq[Len(r) + i] = q[i]
  BY <1>2, <1>3, PrConcat
<1> HIDE DEF rq
<1>6. /\ c \in Seq(PrSteps) /\ Len(c) = Len(rq) + Len(k)
      /\ \A i \in 1..Len(rq) : c[i] = rq[i]
      /\ \A i \in 1..Len(k) : c[Len(rq) + i] = k[i]
  BY <1>4, <1>5, PrConcat
<1> HIDE DEF c
<1> QED
  BY <1>1, <1>2, <1>3, <1>4, <1>5, <1>6

LEMMA PrWorkerContainerBootIs ==
    LET c == PrContainerBoot("worker") IN
        /\ c \in Seq(PrSteps) /\ Len(c) = 2
        /\ c[1] = "redis" /\ c[2] = "coordinator"
<1> DEFINE r == <<"redis">>  q == << >>  k == <<"coordinator">>
           rq == r \o q  c == rq \o k
<1>1. PrContainerBoot("worker") = c
  BY DEF PrContainerBoot
<1>2. r \in Seq(PrSteps) /\ Len(r) = 1 /\ r[1] = "redis"
  BY DEF PrSteps
<1>3. q \in Seq(PrSteps) /\ Len(q) = 0
  OBVIOUS
<1>4. k \in Seq(PrSteps) /\ Len(k) = 1 /\ k[1] = "coordinator"
  BY DEF PrSteps
<1> HIDE DEF r, q, k
<1>5. /\ rq \in Seq(PrSteps) /\ Len(rq) = Len(r) + Len(q)
      /\ \A i \in 1..Len(r) : rq[i] = r[i]
      /\ \A i \in 1..Len(q) : rq[Len(r) + i] = q[i]
  BY <1>2, <1>3, PrConcat
<1> HIDE DEF rq
<1>6. /\ c \in Seq(PrSteps) /\ Len(c) = Len(rq) + Len(k)
      /\ \A i \in 1..Len(rq) : c[i] = rq[i]
      /\ \A i \in 1..Len(k) : c[Len(rq) + i] = k[i]
  BY <1>4, <1>5, PrConcat
<1> HIDE DEF c
<1> QED
  BY <1>1, <1>2, <1>3, <1>4, <1>5, <1>6

\* A start is two steps or one, the store, the container and two steps.
LEMMA PrBootIs ==
    ASSUME NEW a \in Seq(PrSteps), NEW c \in Seq(PrSteps),
           NEW d \in Seq(PrSteps)
    PROVE  LET b == a \o PrStoreBoot \o c \o d IN
              /\ Len(b) = Len(a) + 1 + Len(c) + Len(d)
              /\ \A i \in 1..Len(a) : b[i] = a[i]
              /\ b[Len(a) + 1] = "agentStore"
              /\ \A i \in 1..Len(c) : b[Len(a) + 1 + i] = c[i]
              /\ \A i \in 1..Len(d) : b[Len(a) + 1 + Len(c) + i] = d[i]
<1> DEFINE s == PrStoreBoot  as == a \o s  asc == as \o c  b == asc \o d
<1>1. s \in Seq(PrSteps) /\ Len(s) = 1 /\ s[1] = "agentStore"
  BY DEF PrSteps, PrStoreBoot
<1> HIDE DEF s
<1>2. /\ as \in Seq(PrSteps) /\ Len(as) = Len(a) + Len(s)
      /\ \A i \in 1..Len(a) : as[i] = a[i]
      /\ \A i \in 1..Len(s) : as[Len(a) + i] = s[i]
  BY <1>1, PrConcat
<1> HIDE DEF as
<1>3. /\ asc \in Seq(PrSteps) /\ Len(asc) = Len(as) + Len(c)
      /\ \A i \in 1..Len(as) : asc[i] = as[i]
      /\ \A i \in 1..Len(c) : asc[Len(as) + i] = c[i]
  BY <1>2, PrConcat
<1> HIDE DEF asc
<1>4. /\ b \in Seq(PrSteps) /\ Len(b) = Len(asc) + Len(d)
      /\ \A i \in 1..Len(asc) : b[i] = asc[i]
      /\ \A i \in 1..Len(d) : b[Len(asc) + i] = d[i]
  BY <1>3, PrConcat
<1> HIDE DEF b
<1>5. Len(a) \in Nat /\ Len(c) \in Nat /\ Len(d) \in Nat
  OBVIOUS
<1>6. Len(as) = Len(a) + 1 /\ Len(asc) = Len(a) + 1 + Len(c)
  BY <1>1, <1>2, <1>3, <1>5
<1>7. Len(b) = Len(a) + 1 + Len(c) + Len(d)
  BY <1>4, <1>5, <1>6
<1>8. ASSUME NEW i \in 1..Len(a) PROVE b[i] = a[i]
  <2>1. i \in 1..Len(as) /\ i \in 1..Len(asc)
    BY <1>5, <1>6
  <2> QED
    BY <2>1, <1>2, <1>3, <1>4
<1>9. b[Len(a) + 1] = "agentStore"
  <2>1. Len(a) + 1 \in 1..Len(as) /\ Len(a) + 1 \in 1..Len(asc)
    BY <1>5, <1>6
  <2>2. as[Len(a) + 1] = s[1]
    <3>1. 1 \in 1..Len(s)
      BY <1>1
    <3> QED
      BY <3>1, <1>2
  <2> QED
    BY <2>1, <2>2, <1>1, <1>3, <1>4
<1>10. ASSUME NEW i \in 1..Len(c) PROVE b[Len(a) + 1 + i] = c[i]
  <2>1. Len(a) + 1 + i \in 1..Len(asc)
    BY <1>5, <1>6
  <2>2. asc[Len(as) + i] = c[i]
    BY <1>3
  <2> QED
    BY <2>1, <2>2, <1>4, <1>6
<1>11. ASSUME NEW i \in 1..Len(d) PROVE b[Len(a) + 1 + Len(c) + i] = d[i]
  BY <1>4, <1>6
<1> QED
  BY <1>7, <1>8, <1>9, <1>10, <1>11 DEF b, asc, as, s

LEMMA PrApiBootIs ==
    LET b == PrBootOf("api") IN
        /\ Len(b) = 9 /\ b = PrApiBoot
        /\ b[1] = "storage" /\ b[2] = "authStore" /\ b[3] = "agentStore"
        /\ b[4] = "redis" /\ b[5] = "runQueue" /\ b[6] = "knowledgeQueue"
        /\ b[7] = "coordinator" /\ b[8] = "cleanup" /\ b[9] = "listen"
<1> DEFINE a == <<"storage", "authStore">>  c == PrContainerBoot("api")
           d == <<"cleanup", "listen">>  b == a \o PrStoreBoot \o c \o d
<1>1. PrBootOf("api") = b /\ PrApiBoot = b
  BY DEF PrBootOf, PrApiBoot
<1>2. /\ a \in Seq(PrSteps) /\ Len(a) = 2
      /\ a[1] = "storage" /\ a[2] = "authStore"
  BY DEF PrSteps
<1>3. d \in Seq(PrSteps) /\ Len(d) = 2 /\ d[1] = "cleanup" /\ d[2] = "listen"
  BY DEF PrSteps
<1>4. /\ c \in Seq(PrSteps) /\ Len(c) = 4
      /\ c[1] = "redis" /\ c[2] = "runQueue" /\ c[3] = "knowledgeQueue"
      /\ c[4] = "coordinator"
  BY PrApiContainerBootIs
<1> HIDE DEF a, c, d
<1>5. /\ Len(b) = Len(a) + 1 + Len(c) + Len(d)
      /\ \A i \in 1..Len(a) : b[i] = a[i]
      /\ b[Len(a) + 1] = "agentStore"
      /\ \A i \in 1..Len(c) : b[Len(a) + 1 + i] = c[i]
      /\ \A i \in 1..Len(d) : b[Len(a) + 1 + Len(c) + i] = d[i]
  BY <1>2, <1>3, <1>4, PrBootIs
<1> HIDE DEF b
<1>6. b[1] = a[1] /\ b[2] = a[2] /\ b[2 + 1] = "agentStore"
  BY <1>2, <1>5
<1>7. /\ b[2 + 1 + 1] = c[1] /\ b[2 + 1 + 2] = c[2] /\ b[2 + 1 + 3] = c[3]
      /\ b[2 + 1 + 4] = c[4]
  BY <1>2, <1>4, <1>5
<1>8. b[2 + 1 + 4 + 1] = d[1] /\ b[2 + 1 + 4 + 2] = d[2]
  BY <1>2, <1>3, <1>4, <1>5
<1> QED
  BY <1>1, <1>2, <1>3, <1>4, <1>5, <1>6, <1>7, <1>8

LEMMA PrWorkerBootIs ==
    LET b == PrBootOf("worker") IN
        /\ Len(b) = 6
        /\ b[1] = "storage" /\ b[2] = "agentStore" /\ b[3] = "redis"
        /\ b[4] = "coordinator" /\ b[5] = "bullWorker" /\ b[6] = "monitorQueue"
<1> DEFINE a == <<"storage">>  c == PrContainerBoot("worker")
           d == <<"bullWorker", "monitorQueue">>
           b == a \o PrStoreBoot \o c \o d
<1>1. PrBootOf("worker") = b
  BY DEF PrBootOf, PrWorkerBoot
<1>2. a \in Seq(PrSteps) /\ Len(a) = 1 /\ a[1] = "storage"
  BY DEF PrSteps
<1>3. /\ d \in Seq(PrSteps) /\ Len(d) = 2
      /\ d[1] = "bullWorker" /\ d[2] = "monitorQueue"
  BY DEF PrSteps
<1>4. /\ c \in Seq(PrSteps) /\ Len(c) = 2
      /\ c[1] = "redis" /\ c[2] = "coordinator"
  BY PrWorkerContainerBootIs
<1> HIDE DEF a, c, d
<1>5. /\ Len(b) = Len(a) + 1 + Len(c) + Len(d)
      /\ \A i \in 1..Len(a) : b[i] = a[i]
      /\ b[Len(a) + 1] = "agentStore"
      /\ \A i \in 1..Len(c) : b[Len(a) + 1 + i] = c[i]
      /\ \A i \in 1..Len(d) : b[Len(a) + 1 + Len(c) + i] = d[i]
  BY <1>2, <1>3, <1>4, PrBootIs
<1> HIDE DEF b
<1>6. b[1] = a[1] /\ b[1 + 1] = "agentStore"
  BY <1>2, <1>5
<1>7. b[1 + 1 + 1] = c[1] /\ b[1 + 1 + 2] = c[2]
  BY <1>2, <1>4, <1>5
<1>8. b[1 + 1 + 2 + 1] = d[1] /\ b[1 + 1 + 2 + 2] = d[2]
  BY <1>2, <1>3, <1>4, <1>5
<1> QED
  BY <1>1, <1>2, <1>3, <1>4, <1>5, <1>6, <1>7, <1>8

\* The cleanup is the last step but one of the API's start, and the step that
\* makes a process serve is the last one of its start.
LEMMA PrBootSteps ==
    /\ PrBootOf("api") = PrApiBoot
    /\ Len(PrBootOf("api")) = 9 /\ Len(PrBootOf("worker")) = 6
    /\ \A i \in 1..9 :
          /\ PrBootOf("api")[i] = "cleanup" <=> i = 8
          /\ PrBootOf("api")[i] \in {"listen", "monitorQueue"} <=> i = 9
    /\ \A i \in 1..6 :
          /\ PrBootOf("worker")[i] # "cleanup"
          /\ PrBootOf("worker")[i] \in {"listen", "monitorQueue"} <=> i = 6
<1>1. \A i \in 1..9 : i = 1 \/ i = 2 \/ i = 3 \/ i = 4 \/ i = 5 \/ i = 6
                      \/ i = 7 \/ i = 8 \/ i = 9
  OBVIOUS
<1> QED
  BY <1>1, PrApiBootIs, PrWorkerBootIs

\* The steps before it open what the process needs to serve.
LEMMA PrBootOpens ==
    ASSUME NEW p \in PrProcesses, NEW open,
           \A i \in 1..(Len(PrBootOf(p)) - 1) :
              PrOpens(PrBootOf(p)[i]) \subseteq open
    PROVE  PrNeeds(p) \subseteq open
<1>1. CASE p = "api"
  <2>1. \A i \in 1..8 : PrBootOf("api")[i] \in PrConnections =>
                          PrBootOf("api")[i] \in open
    BY <1>1, PrApiBootIs DEF PrOpens
  <2> QED
    BY <1>1, <2>1, PrApiBootIs DEF PrNeeds, PrConnections
<1>2. CASE p = "worker"
  <2>1. \A i \in 1..5 : PrBootOf("worker")[i] \in PrConnections =>
                          PrBootOf("worker")[i] \in open
    BY <1>2, PrWorkerBootIs DEF PrOpens
  <2> QED
    BY <1>2, <2>1, PrWorkerBootIs DEF PrNeeds, PrConnections
<1> QED
  BY <1>1, <1>2 DEF PrProcesses

-----------------------------------------------------------------------------
(* The invariant is inductive.                                             *)

PrPlaces == {"none", "request", "abandoned", "queued", "job", "running",
             "aborted", "unwinding", "ended", "lost"}

PrRow == [place : PrPlaces, born : 0..PrMaxBoots, taken : 0..PrMaxBoots]

PrShutRow == [runs : SUBSET PrRuns, left : SUBSET PrRuns, at : SUBSET PrRuns,
              thrown : BOOLEAN]

PrStreamRow == [PrRuns -> {"none", "open", "late"}]

\* The close begins with the coordinator.
LEMMA PrCoordinatorIsFirst ==
    ASSUME PrTypeOK, NEW p \in PrProcesses
    PROVE  PrAtCoordinator(p) <=> prPhase[p] = "closing" /\ prAt[p] = 1
<1>1. prAt[p] \in 1..(Len(PrApiBoot) + 1)
  BY DEF PrTypeOK
<1>2. prAt[p] \in 1..10
  <2>1. Len(PrApiBoot) = 9
    BY PrBootSteps
  <2> QED
    BY <1>1, <2>1
<1>3. /\ Len(PrCloseOrder) = 5 /\ PrCloseOrder[1] = "coordinator"
      /\ PrCloseOrder[2] # "coordinator" /\ PrCloseOrder[3] # "coordinator"
      /\ PrCloseOrder[4] # "coordinator" /\ PrCloseOrder[5] # "coordinator"
  BY DEF PrCloseOrder
<1>4. prAt[p] <= 5 => prAt[p] = 1 \/ prAt[p] = 2 \/ prAt[p] = 3 \/ prAt[p] = 4
                      \/ prAt[p] = 5
  BY <1>2
<1> QED
  BY <1>2, <1>3, <1>4 DEF PrAtCoordinator

\* The process that ends leaves nothing behind but its runs.
LEMMA PrEndKeeps ==
    ASSUME PrIInv, NEW p \in PrProcesses, PrEnd(p),
           prFailures' \in 0..PrMaxFailures
    PROVE  PrIInv'
<1> USE DEF PrIInv, PrEnd, PrProcesses
<1>1. PrTypeOK'
  <2>1. prRun' \in [PrRuns -> PrRow]
    <3>1. prRun \in [PrRuns -> PrRow]
      BY DEF PrTypeOK, PrRow, PrPlaces
    <3>2. ASSUME NEW r \in PrRuns
          PROVE  [prRun[r] EXCEPT !.place = PrLoses(p, r)] \in PrRow
      <4>1. prRun[r] \in PrRow
        BY <3>1
      <4>2. PrLoses(p, r) \in PrPlaces
        BY <4>1 DEF PrLoses, PrRow, PrPlaces
      <4> QED
        BY <4>1, <4>2 DEF PrRow
    <3> QED
      BY <3>2
  <2>2. prShut' \in PrShutRow /\ prStream' \in PrStreamRow
    BY DEF PrTypeOK, PrShutRow, PrStreamRow, PrNoShutdown
  <2>3. Len(PrApiBoot) = 9
    BY PrBootSteps
  <2>4. /\ prPhase' \in [PrProcesses -> {"down", "booting", "serving", "draining", "closing"}]
        /\ prAt' \in [PrProcesses -> 1..(Len(PrApiBoot) + 1)]
        /\ prOpen' \in [PrProcesses -> SUBSET PrConnections]
        /\ prStuck' \in [PrProcesses -> SUBSET PrConnections]
        /\ prBoots' \in [PrProcesses -> 0..PrMaxBoots]
    BY <2>3 DEF PrTypeOK
  <2> QED
    BY <2>1, <2>2, <2>4 DEF PrTypeOK, PrRow, PrPlaces, PrShutRow, PrStreamRow
<1>2. PrBootIsInOrder'
  BY DEF PrBootIsInOrder, PrBootIsAt, PrServes, PrTypeOK
<1>3. PrCloseIsInOrder'
  BY DEF PrCloseIsInOrder, PrTypeOK
<1>4. PrRunHasItsProcess'
  BY DEF PrRunHasItsProcess, PrIsUp, PrServes, PrTypeOK, PrLoses
<1>5. PrShutdownHolds'
  <2>1. CASE p = "api"
    BY <2>1 DEF PrShutdownHolds, PrNoShutdown
  <2>2. CASE p = "worker"
    <3>1. /\ prShut' = prShut /\ prPhase'["api"] = prPhase["api"]
          /\ prAt'["api"] = prAt["api"] /\ prOpen'["api"] = prOpen["api"]
      BY <2>2 DEF PrTypeOK
    <3>2. \A r \in PrRuns : PrExecuting(r)' => PrExecuting(r)
      BY <2>2 DEF PrExecuting, PrLoses, PrTypeOK
    <3>3. prShut.runs \subseteq PrRuns
      BY DEF PrTypeOK
    <3> QED
      BY <3>1, <3>2, <3>3 DEF PrShutdownHolds, PrConnected
  <2> QED
    BY <2>1, <2>2
<1>6. PrLeftoversAreOlder'
  <2>1. \A r \in PrRuns : /\ prRun'[r].born = prRun[r].born
                         /\ prRun'[r].taken = prRun[r].taken
                         /\ prRun'[r].place = PrLoses(p, r)
    BY DEF PrTypeOK
  <2>2. prBoots' = prBoots
    OBVIOUS
  <2>3. CASE p = "api"
    <3>1. prPhase'["api"] = "down"
      BY <2>3 DEF PrTypeOK
    <3> QED
      BY <2>1, <2>2, <2>3, <3>1 DEF PrLeftoversAreOlder, PrServes, PrLoses
  <2>4. CASE p = "worker"
    <3>1. prPhase'["api"] = prPhase["api"] /\ prAt'["api"] = prAt["api"]
      BY <2>4 DEF PrTypeOK
    <3> QED
      BY <2>1, <2>2, <2>4, <3>1 DEF PrLeftoversAreOlder, PrServes, PrLoses
  <2> QED
    BY <2>3, <2>4
<1> QED
  BY <1>1, <1>2, <1>3, <1>4, <1>5, <1>6

\* A run goes on to another place, or stays, and the processes do not move; what
\* shutdown has listed and what it has thrown stays.
LEMMA PrMoveKeeps ==
    ASSUME PrIInv, NEW r \in PrRuns,
           NEW place \in PrPlaces, PrMove(r, place),
           prRun[r].place # "none" \/ prPhase["api"] = "closing", place # "none",
           place = "job" => PrServes("worker"), place # "request",
           place \in {"abandoned", "running", "aborted", "unwinding"} => PrIsUp,
           place \in {"abandoned", "running", "aborted", "lost"} =>
              PrIsUp /\ prRun[r].born = prBoots["api"],
           r \in prShut.runs /\ place \in {"running", "aborted", "unwinding"} =>
              PrExecuting(r),
           prFailures' \in 0..PrMaxFailures,
           prShut' \in PrShutRow, prShut'.runs = prShut.runs,
           prShut.thrown => prShut'.thrown, prStream' \in PrStreamRow,
           UNCHANGED <<prPhase, prAt, prOpen, prStuck, prBoots>>
    PROVE  PrIInv'
<1> USE DEF PrIInv
<1>a. prRun' \in [PrRuns -> PrRow]
  BY DEF PrTypeOK, PrMove, PrRow, PrPlaces
<1>b. \A q \in PrRuns \ {r} : prRun'[q] = prRun[q]
  BY DEF PrTypeOK, PrMove
<1>c. /\ prRun'[r].place = place /\ prRun'[r].born = prRun[r].born
      /\ prRun'[r].taken = prRun[r].taken
  BY DEF PrTypeOK, PrMove
<1>1. PrTypeOK'
  BY <1>a DEF PrTypeOK, PrRow, PrPlaces, PrShutRow, PrStreamRow
<1>2. PrBootIsInOrder' /\ PrCloseIsInOrder'
  BY DEF PrBootIsInOrder, PrBootIsAt, PrCloseIsInOrder, PrServes
<1>3. PrRunHasItsProcess'
  <2>2. PrIsUp' = PrIsUp /\ PrServes("worker")' = PrServes("worker")
          /\ PrServes("api")' = PrServes("api")
    BY DEF PrIsUp, PrServes
  <2> QED
    BY <1>b, <1>c, <2>2 DEF PrRunHasItsProcess
<1>4. PrShutdownHolds'
  <2>1. \A q \in prShut.runs : PrExecuting(q)' => PrExecuting(q)
    <3> SUFFICES ASSUME NEW q \in prShut.runs, PrExecuting(q)'
                 PROVE  PrExecuting(q)
      OBVIOUS
    <3>1. q \in PrRuns
      BY DEF PrTypeOK
    <3>2. CASE q = r
      BY <1>c, <3>2 DEF PrExecuting
    <3>3. CASE q # r
      BY <1>b, <3>1, <3>3 DEF PrExecuting
    <3> QED
      BY <3>2, <3>3
  <2> QED
    BY <2>1 DEF PrShutdownHolds, PrConnected
<1>5. PrLeftoversAreOlder'
  <2>3. prPhase["api"] = "booting" => prRun[r].place # "none"
    OBVIOUS
  <2>4. PrIsUp => prPhase["api"] # "booting"
    BY DEF PrIsUp, PrServes
  <2> QED
    BY <1>b, <1>c, <2>3, <2>4 DEF PrLeftoversAreOlder, PrServes
<1> QED
  BY <1>1, <1>2, <1>3, <1>4, <1>5

\* Nothing moves but what shutdown or a stream knows.
LEMMA PrStayKeeps ==
    ASSUME PrIInv, prFailures' \in 0..PrMaxFailures,
           prShut' \in PrShutRow, prShut'.runs = prShut.runs,
           prShut.thrown => prShut'.thrown, prStream' \in PrStreamRow,
           UNCHANGED <<prPhase, prAt, prOpen, prStuck, prBoots, prRun>>
    PROVE  PrIInv'
<1> USE DEF PrIInv
<1>1. PrTypeOK'
  BY DEF PrTypeOK, PrShutRow, PrStreamRow
<1>2. PrBootIsInOrder' /\ PrCloseIsInOrder'
  BY DEF PrBootIsInOrder, PrBootIsAt, PrCloseIsInOrder, PrServes
<1>3. PrRunHasItsProcess' /\ PrLeftoversAreOlder'
  BY DEF PrRunHasItsProcess, PrLeftoversAreOlder, PrIsUp, PrServes
<1>4. PrShutdownHolds'
  BY DEF PrShutdownHolds, PrConnected, PrExecuting
<1> QED
  BY <1>1, <1>2, <1>3, <1>4

LEMMA PrIInvStep ==
    PrIInv /\ [PrNext]_prVars => PrIInv'
<1> SUFFICES ASSUME PrIInv, [PrNext]_prVars PROVE PrIInv'
  OBVIOUS
<1>f. /\ prFailures \in 0..PrMaxFailures
      /\ PrFails => prFailures' \in 0..PrMaxFailures
  BY ProcessesAssumption DEF PrIInv, PrTypeOK, PrFails
<1>n. /\ Len(PrApiBoot) = 9 /\ PrBootOf("api") = PrApiBoot
      /\ \A p \in PrProcesses : Len(PrBootOf(p)) = PrLast(p)
  BY PrBootSteps DEF PrProcesses, PrLast
<1>1. ASSUME NEW p \in PrProcesses, PrCrash(p) PROVE PrIInv'
  BY <1>1, <1>f, PrEndKeeps DEF PrCrash
<1>2. ASSUME NEW p \in PrProcesses, PrStart(p) PROVE PrIInv'
  <2> USE <1>2 DEF PrIInv, PrStart, PrProcesses
  <2>1. PrTypeOK'
    BY ProcessesAssumption DEF PrTypeOK
  <2>2. PrBootIsInOrder'
    <3>1. \A q \in PrProcesses \ {p} : PrBootIsAt(q)'
      BY DEF PrBootIsInOrder, PrBootIsAt, PrServes, PrTypeOK
    <3>2. prPhase'[p] = "booting" /\ prAt'[p] = 1
      BY DEF PrBootIsInOrder, PrBootIsAt, PrTypeOK
    <3>3. PrBootIsAt(p)'
      BY <3>2 DEF PrBootIsAt, PrServes, PrLast
    <3> QED
      BY <3>1, <3>3 DEF PrBootIsInOrder
  <2>3. PrCloseIsInOrder'
    BY DEF PrCloseIsInOrder, PrTypeOK
  <2>4. PrRunHasItsProcess'
    BY DEF PrRunHasItsProcess, PrIsUp, PrServes, PrTypeOK
  <2>5. PrLeftoversAreOlder'
    BY DEF PrLeftoversAreOlder, PrRunHasItsProcess, PrIsUp, PrBootIsInOrder,
           PrBootIsAt, PrServes, PrTypeOK, PrLast
  <2>6. PrShutdownHolds'
    BY DEF PrShutdownHolds, PrConnected, PrExecuting, PrTypeOK
  <2> QED
    BY <2>1, <2>2, <2>3, <2>4, <2>5, <2>6
<1>3. ASSUME NEW p \in PrProcesses, PrBootStep(p) PROVE PrIInv'
  <2> USE <1>3 DEF PrIInv, PrProcesses
  <2>a. /\ prPhase[p] = "booting" /\ prAt[p] \in 1..PrLast(p)
        /\ prOpen' =
              [prOpen EXCEPT ![p] = @ \cup PrOpens(PrBootOf(p)[prAt[p]])]
        /\ UNCHANGED <<prStuck, prBoots, prShut, prStream, prFailures>>
    BY DEF PrBootStep, PrStep, PrBootIsInOrder, PrBootIsAt
  <2>b. /\ PrStep(p) = "cleanup" <=> p = "api" /\ prAt[p] = 8
        /\ PrStep(p) \in {"listen", "monitorQueue"} <=> prAt[p] = PrLast(p)
    <3>1. CASE p = "api"
      BY <2>a, <3>1, PrBootSteps DEF PrStep, PrLast
    <3>2. CASE p = "worker"
      BY <2>a, <3>2, PrBootSteps DEF PrStep, PrLast
    <3> QED
      BY <3>1, <3>2
  <2>c. /\ prPhase' = [prPhase EXCEPT ![p] =
                         IF prAt[p] = PrLast(p) THEN "serving" ELSE "booting"]
        /\ prAt' = [prAt EXCEPT ![p] =
                      IF prAt[p] = PrLast(p) THEN 1 ELSE prAt[p] + 1]
        /\ prRun' = IF p = "api" /\ prAt[p] = 8
                    THEN PrTakenByCleanup ELSE prRun
    BY <2>a, <2>b, <1>n DEF PrBootStep
  <2>1. PrTypeOK'
    <3>1. prRun' \in [PrRuns -> PrRow]
      <4>1. prRun \in [PrRuns -> PrRow] /\ prBoots["api"] \in 0..PrMaxBoots
        BY DEF PrTypeOK, PrRow, PrPlaces
      <4>2. ASSUME NEW r \in PrRuns PROVE PrTakenByCleanup[r] \in PrRow
        BY <4>1 DEF PrTakenByCleanup, PrRow, PrPlaces
      <4>3. PrTakenByCleanup \in [PrRuns -> PrRow]
        BY <4>2 DEF PrTakenByCleanup
      <4> QED
        BY <2>c, <4>1, <4>3
    <3>2. prAt' \in [PrProcesses -> 1..10]
      <4>1. prAt \in [PrProcesses -> 1..10]
        BY <1>n DEF PrTypeOK
      <4>2. 1 \in 1..10 /\ prAt[p] + 1 \in 1..10
        BY <2>a DEF PrLast
      <4> QED
        BY <2>c, <4>1, <4>2
    <3>3. prOpen' \in [PrProcesses -> SUBSET PrConnections]
      BY <2>a DEF PrTypeOK, PrOpens
    <3> QED
      BY <2>a, <2>c, <3>1, <3>2, <3>3, <1>n DEF PrTypeOK, PrRow, PrPlaces
  <2>2. PrBootIsInOrder'
    <3>1. \A q \in PrProcesses \ {p} : PrBootIsAt(q)'
      BY <2>a, <2>c DEF PrTypeOK, PrBootIsInOrder, PrBootIsAt, PrServes
    <3>2. \A i \in 1..prAt[p] : PrOpens(PrBootOf(p)[i]) \subseteq prOpen'[p]
      <4> SUFFICES ASSUME NEW i \in 1..prAt[p]
                   PROVE  PrOpens(PrBootOf(p)[i]) \subseteq prOpen'[p]
        OBVIOUS
      <4>1. prOpen'[p] = prOpen[p] \cup PrOpens(PrBootOf(p)[prAt[p]])
        BY <2>a DEF PrTypeOK
      <4>2. prAt[p] \in Nat
        BY <1>n DEF PrTypeOK
      <4>3. i < prAt[p] => PrOpens(PrBootOf(p)[i]) \subseteq prOpen[p]
        BY <2>a, <4>2 DEF PrBootIsInOrder, PrBootIsAt
      <4> QED
        BY <4>1, <4>2, <4>3
    <3>3. CASE prAt[p] = PrLast(p)
      <4>1. prPhase'[p] = "serving" /\ prAt'[p] = 1
        BY <2>c, <3>3 DEF PrTypeOK
      <4>2. PrNeeds(p) \subseteq prOpen'[p]
        <5>1. \A i \in 1..(Len(PrBootOf(p)) - 1) :
                 PrOpens(PrBootOf(p)[i]) \subseteq prOpen'[p]
          BY <3>2, <3>3, <1>n DEF PrLast
        <5> QED
          BY <5>1, PrBootOpens
      <4> QED
        BY <3>1, <4>1, <4>2 DEF PrBootIsInOrder, PrBootIsAt, PrServes
    <3>4. CASE prAt[p] # PrLast(p)
      <4>1. prPhase'[p] = "booting" /\ prAt'[p] = prAt[p] + 1
        BY <2>c, <3>4 DEF PrTypeOK
      <4>2. prAt'[p] \in 1..PrLast(p) /\ prAt'[p] - 1 = prAt[p]
        BY <2>a, <3>4, <4>1 DEF PrLast
      <4> QED
        BY <3>1, <3>2, <4>1, <4>2 DEF PrBootIsInOrder, PrBootIsAt, PrServes
    <3> QED
      BY <3>3, <3>4
  <2>3. PrCloseIsInOrder'
    BY <2>a, <2>c DEF PrCloseIsInOrder, PrTypeOK
  <2>4. PrRunHasItsProcess'
    <3>1. \A r \in PrRuns :
              prRun'[r].place \in {"job", "request", "abandoned", "running", "aborted", "unwinding"}
                => prRun'[r].place = prRun[r].place
      <4>1. prRun \in [PrRuns -> PrRow]
        BY DEF PrTypeOK, PrRow, PrPlaces
      <4> QED
        BY <2>c, <4>1 DEF PrTakenByCleanup, PrRow
    <3>2. \A q \in PrProcesses : PrServes(q) => prPhase'[q] = prPhase[q]
      BY <2>a, <2>c DEF PrServes, PrTypeOK
    <3>3. prPhase["api"] = "closing" => prPhase'["api"] = "closing"
      BY <2>a, <2>c DEF PrTypeOK
    <3> QED
      BY <3>1, <3>2, <3>3 DEF PrRunHasItsProcess, PrIsUp, PrServes
  <2>6. PrShutdownHolds'
    <3>1. CASE p = "api"
      BY <2>a, <3>1 DEF PrShutdownHolds
    <3>2. CASE p = "worker"
      <4>1. /\ prPhase'["api"] = prPhase["api"] /\ prAt'["api"] = prAt["api"]
            /\ prOpen'["api"] = prOpen["api"] /\ prRun' = prRun
        BY <2>a, <2>c, <3>2 DEF PrTypeOK
      <4> QED
        BY <2>a, <4>1 DEF PrShutdownHolds, PrConnected, PrExecuting
    <3> QED
      BY <3>1, <3>2
  <2>5. PrLeftoversAreOlder'
    <3>1. prRun \in [PrRuns -> PrRow] /\ prBoots["api"] \in 0..PrMaxBoots
      BY DEF PrTypeOK, PrRow, PrPlaces
    <3>2. CASE p = "worker"
      BY <2>a, <2>c, <3>2 DEF PrLeftoversAreOlder, PrServes, PrTypeOK
    <3>3. CASE p = "api" /\ prAt["api"] = 8
      <4>1. prPhase'["api"] = "booting"
        BY <2>c, <3>3 DEF PrTypeOK, PrLast
      <4>2. ASSUME NEW r \in PrRuns
            PROVE  /\ prRun'[r].born = prRun[r].born
                   /\ prRun'[r].place = "none" <=> prRun[r].place = "none"
                   /\ prRun'[r].place # "lost"
                   /\ \/ prRun'[r].taken = prRun[r].taken
                      \/ /\ prRun'[r].taken = prBoots["api"]
                         /\ prRun[r].place # "none"
        BY <2>c, <3>1, <3>3 DEF PrTakenByCleanup, PrRow, PrPlaces
      <4>3. prPhase["api"] = "booting" /\ UNCHANGED prBoots
        BY <2>a, <3>3
      <4>4. \A r \in PrRuns : prRun'[r].place \notin {"request", "abandoned", "running", "aborted"}
        BY <2>c, <3>1, <3>3, <4>3
           DEF PrTakenByCleanup, PrRow, PrPlaces, PrRunHasItsProcess, PrIsUp, PrServes
      <4> QED
        BY <4>1, <4>2, <4>3, <4>4 DEF PrLeftoversAreOlder, PrServes
    <3>4. CASE p = "api" /\ prAt["api"] # 8
      <4>1. UNCHANGED <<prRun, prBoots>> /\ prPhase["api"] = "booting"
        BY <2>a, <2>c, <3>4
      <4>2. CASE prAt["api"] = 9
        BY <2>c, <3>4, <4>1, <4>2 DEF PrLeftoversAreOlder, PrServes,
           PrTypeOK, PrLast
      <4>3. CASE prAt["api"] < 8
        <5>1. prPhase'["api"] = "booting" /\ prAt'["api"] < 9
          BY <2>a, <2>c, <3>4, <4>3 DEF PrTypeOK, PrLast
        <5> QED
          BY <4>1, <5>1 DEF PrLeftoversAreOlder, PrServes, PrLast
      <4> QED
        BY <2>a, <3>4, <4>2, <4>3 DEF PrLast
    <3> QED
      BY <3>2, <3>3, <3>4
  <2> QED
    BY <2>1, <2>2, <2>3, <2>4, <2>5, <2>6
<1>4. ASSUME NEW p \in PrProcesses, PrBootFails(p) PROVE PrIInv'
  <2>1. CASE PrEnd(p)
    BY <1>4, <2>1, <1>f, PrEndKeeps DEF PrBootFails
  <2>2. CASE ~PrEnd(p)
    <3> USE <1>4, <2>2, <1>f DEF PrIInv, PrBootFails, PrProcesses
    <3>1. PrTypeOK'
      BY <1>n DEF PrTypeOK
    <3>2. PrBootIsInOrder' /\ PrCloseIsInOrder'
      BY DEF PrBootIsInOrder, PrBootIsAt, PrCloseIsInOrder, PrServes, PrTypeOK
    <3>3. PrRunHasItsProcess' /\ PrLeftoversAreOlder'
      BY DEF PrRunHasItsProcess, PrLeftoversAreOlder, PrIsUp, PrServes, PrTypeOK
    <3>4. PrShutdownHolds'
      BY DEF PrShutdownHolds, PrConnected, PrExecuting, PrTypeOK
    <3> QED
      BY <3>1, <3>2, <3>3, <3>4
  <2> QED
    BY <2>1, <2>2
<1>5. ASSUME NEW p \in PrProcesses, PrSignal(p) PROVE PrIInv'
  <2> USE <1>5 DEF PrIInv, PrSignal, PrProcesses
  <2>1. PrTypeOK'
    BY DEF PrTypeOK
  <2>2. PrBootIsInOrder' /\ PrCloseIsInOrder'
    BY DEF PrBootIsInOrder, PrBootIsAt, PrCloseIsInOrder, PrServes, PrTypeOK
  <2>3. PrRunHasItsProcess' /\ PrLeftoversAreOlder'
    BY DEF PrRunHasItsProcess, PrLeftoversAreOlder, PrIsUp, PrServes, PrTypeOK
  <2>4. PrShutdownHolds'
    BY DEF PrShutdownHolds, PrConnected, PrExecuting, PrTypeOK
  <2> QED
    BY <2>1, <2>2, <2>3, <2>4
<1>t. prShut \in PrShutRow /\ prStream \in PrStreamRow
  BY DEF PrIInv, PrTypeOK, PrShutRow, PrStreamRow
<1>r. \A r \in PrRuns : prRun[r].place \in PrPlaces
  BY DEF PrIInv, PrTypeOK, PrRow, PrPlaces
<1>6. ASSUME NEW r \in PrRuns, PrShutdownCancels(r) \/ PrCancelWrites(r)
      PROVE  PrIInv'
  <2>1. prPhase["api"] = "closing" /\ PrIsUp
    BY <1>6 DEF PrShutdownCancels, PrCancelWrites, PrAtCoordinator, PrIsUp
  <2>2. /\ prShut' \in PrShutRow /\ prShut'.runs = prShut.runs
        /\ prShut.thrown => prShut'.thrown
    <3>1. /\ prShut.left \ {r} \in SUBSET PrRuns /\ {r} \in SUBSET PrRuns
          /\ prShut.runs \in SUBSET PrRuns
      BY <1>t DEF PrShutRow
    <3>2. \/ prShut' = [prShut EXCEPT !.left = @ \ {r}]
          \/ prShut' = [prShut EXCEPT !.left = @ \ {r}, !.at = {r}]
          \/ prShut' = [prShut EXCEPT !.thrown = TRUE]
          \/ prShut' = [prShut EXCEPT !.at = {}]
      BY <1>6 DEF PrShutdownCancels, PrCancelWrites
    <3> QED
      BY <1>t, <3>1, <3>2 DEF PrShutRow
  <2>3. /\ prFailures' \in 0..PrMaxFailures
        /\ UNCHANGED <<prPhase, prAt, prOpen, prStuck, prBoots, prStream>>
    BY <1>6, <1>f DEF PrShutdownCancels, PrCancelWrites
  <2>4. CASE UNCHANGED prRun
    BY <2>2, <2>3, <2>4, <1>t, PrStayKeeps
  <2>5. CASE prRun[r].place = "running" /\ PrMove(r, "aborted")
    <3>1. prRun[r].born = prBoots["api"] /\ PrExecuting(r)
      BY <2>5 DEF PrIInv, PrLeftoversAreOlder, PrExecuting
    <3> QED
      BY <2>1, <2>2, <2>3, <2>5, <3>1, <1>t, PrMoveKeeps DEF PrRow, PrPlaces
  <2>6. CASE PrMove(r, PrCancelled(prRun[r].place))
    <3>1. PrCancelled(prRun[r].place) \in {"unwinding", "job", "ended"}
      BY DEF PrCancelled
    <3>2. PrCancelled(prRun[r].place) = "unwinding" => PrExecuting(r)
      BY DEF PrCancelled, PrExecuting
    <3>3. PrCancelled(prRun[r].place) = "job" => PrServes("worker")
      BY DEF PrCancelled, PrIInv, PrRunHasItsProcess
    <3> QED
      BY <2>1, <2>2, <2>3, <2>6, <3>1, <3>2, <3>3, <1>t, PrMoveKeeps DEF PrRow, PrPlaces
  <2>7. PrMove(r, prRun[r].place) => UNCHANGED prRun
    BY DEF PrMove, PrIInv, PrTypeOK
  <2> QED
    BY <1>6, <2>4, <2>5, <2>6, <2>7 DEF PrShutdownCancels, PrCancelWrites
<1>7. ASSUME NEW p \in PrProcesses, PrCloseStep(p) PROVE PrIInv'
  <2> USE <1>7, <1>f DEF PrIInv, PrCloseStep, PrProcesses
  <2>0. Len(PrCloseOrder) = 5
    BY DEF PrCloseOrder
  <2>1. PrTypeOK'
    <3>1. prAt' \in [PrProcesses -> 1..10]
      <4>1. prAt \in [PrProcesses -> 1..10] /\ prAt[p] + 1 \in 1..10
        BY <2>0, <1>n DEF PrTypeOK
      <4> QED
        BY <4>1
    <3>2. /\ prOpen' \in [PrProcesses -> SUBSET PrConnections]
          /\ prStuck' \in [PrProcesses -> SUBSET PrConnections]
      BY DEF PrTypeOK
    <3> QED
      BY <3>1, <3>2, <1>n DEF PrTypeOK
  <2>2. PrBootIsInOrder'
    BY DEF PrBootIsInOrder, PrBootIsAt, PrServes, PrTypeOK
  <2>3. PrCloseIsInOrder'
    <3> DEFINE done(i) == {PrCloseOrder[j] : j \in 1..(i - 1)}
    <3>1. /\ prAt[p] \in 1..5 /\ prAt'[p] = prAt[p] + 1
          /\ prStuck[p] = prOpen[p] \cap done(prAt[p])
          /\ prPhase'[p] = "closing"
      <4>1. prAt[p] \in 1..5
        BY <2>0, <1>n DEF PrTypeOK
      <4>2. prAt'[p] = prAt[p] + 1 /\ prPhase'[p] = "closing"
        BY DEF PrTypeOK
      <4> QED
        BY <4>1, <4>2 DEF PrCloseIsInOrder
    <3>2. \A i \in 1..5 : /\ done(i + 1) = done(i) \cup {PrCloseOrder[i]}
                         /\ PrCloseOrder[i] \notin done(i)
      <4>1. \A i, j \in 1..5 : PrCloseOrder[i] = PrCloseOrder[j] => i = j
        BY DEF PrCloseOrder
      <4> SUFFICES ASSUME NEW i \in 1..5
                   PROVE  /\ done(i + 1) = done(i) \cup {PrCloseOrder[i]}
                          /\ PrCloseOrder[i] \notin done(i)
        OBVIOUS
      <4>2. i \notin 1..(i - 1) /\ 1..(i - 1) \subseteq 1..5
        OBVIOUS
      <4>3. \A j : j \in 1..((i + 1) - 1) <=> j \in 1..(i - 1) \/ j = i
        OBVIOUS
      <4>4. PrCloseOrder[i] \notin done(i)
        BY <4>1, <4>2
      <4>5. done(i + 1) = done(i) \cup {PrCloseOrder[i]}
        BY <4>3
      <4> QED
        BY <4>4, <4>5
    <3>3. prStuck'[p] = prOpen'[p] \cap done(prAt'[p])
      <4> DEFINE c == PrCloseOrder[prAt[p]]
      <4>1. \/ prOpen'[p] = prOpen[p] \ {c} /\ prStuck'[p] = prStuck[p]
            \/ /\ prOpen'[p] = prOpen[p]
               /\ prStuck'[p] = prStuck[p] \cup (prOpen[p] \cap {c})
        BY DEF PrTypeOK
      <4>2. done(prAt'[p]) = done(prAt[p]) \cup {c} /\ c \notin done(prAt[p])
        BY <3>1, <3>2
      <4> HIDE DEF c, done
      <4> QED
        BY <3>1, <4>1, <4>2
    <3>4. \A q \in PrProcesses \ {p} :
              /\ prOpen'[q] = prOpen[q] /\ prAt'[q] = prAt[q]
              /\ prPhase'[q] = prPhase[q] /\ prStuck'[q] = prStuck[q]
      BY DEF PrTypeOK
    <3>5. ASSUME NEW q \in PrProcesses \ {p}
          PROVE  IF prPhase'[q] = "closing"
                 THEN prAt'[q] \in 1..6 /\ prStuck'[q] = prOpen'[q] \cap done(prAt'[q])
                 ELSE prStuck'[q] = {}
      BY <3>4 DEF PrCloseIsInOrder
    <3>6. prAt'[p] \in 1..6
      BY <3>1
    <3> QED
      BY <3>1, <3>3, <3>5, <3>6 DEF PrCloseIsInOrder
  <2>4. PrRunHasItsProcess' /\ PrLeftoversAreOlder'
    BY DEF PrRunHasItsProcess, PrLeftoversAreOlder, PrIsUp, PrServes, PrTypeOK
  <2>5. PrShutdownHolds'
    <3>1. CASE p = "worker"
      <4>1. prAt'["api"] = prAt["api"] /\ prOpen'["api"] = prOpen["api"]
        BY <3>1 DEF PrTypeOK
      <4> QED
        BY <4>1 DEF PrShutdownHolds, PrConnected, PrExecuting
    <3>2. CASE p = "api"
      <4>1. prAt["api"] = 1 <=> PrAtCoordinator("api")
        BY <3>2, PrCoordinatorIsFirst
      <4>2. (\E r \in prShut.runs : PrExecuting(r)) => prShut.thrown
        BY <3>2, <4>1 DEF PrShutdownWaits, PrShutdownHolds
      <4> QED
        BY <3>2, <4>2 DEF PrShutdownHolds, PrExecuting
    <3> QED
      BY <3>1, <3>2
  <2> QED
    BY <2>1, <2>2, <2>3, <2>4, <2>5
<1>8. ASSUME NEW p \in PrProcesses, PrExit(p) PROVE PrIInv'
  BY <1>8, <1>f, PrEndKeeps DEF PrExit
<1>9. CASE PrApiDrains
  <2> USE <1>9 DEF PrIInv, PrApiDrains, PrProcesses
  <2>0. /\ prPhase' = [prPhase EXCEPT !["api"] = "closing"]
        /\ prAt' = [prAt EXCEPT !["api"] = 1]
        /\ prShut' \in PrShutRow
        /\ \A r \in PrRuns : prRun[r].place # "request"
    BY DEF PrDrained, PrConversing, PrNoShutdown, PrShutRow
  <2>1. PrTypeOK'
    <3>1. prAt' \in [PrProcesses -> 1..(Len(PrApiBoot) + 1)]
      BY <2>0, <1>n DEF PrTypeOK
    <3>2. prPhase' \in [PrProcesses -> {"down", "booting", "serving", "draining", "closing"}]
      BY <2>0 DEF PrTypeOK
    <3> QED
      BY <2>0, <3>1, <3>2 DEF PrTypeOK, PrShutRow
  <2>2. PrBootIsInOrder' /\ PrCloseIsInOrder'
    BY <2>0 DEF PrBootIsInOrder, PrBootIsAt, PrCloseIsInOrder, PrServes, PrTypeOK
  <2>3. PrRunHasItsProcess' /\ PrLeftoversAreOlder'
    BY <2>0 DEF PrRunHasItsProcess, PrLeftoversAreOlder, PrIsUp, PrServes, PrTypeOK
  <2>4. PrShutdownHolds'
    <3>1. PrConnected' /\ prPhase'["api"] = "closing" /\ prAt'["api"] = 1
      BY <2>0 DEF PrBootIsInOrder, PrBootIsAt, PrNeeds, PrServes, PrTypeOK, PrConnected
    <3> QED
      BY <3>1 DEF PrShutdownHolds
  <2> QED
    BY <2>1, <2>2, <2>3, <2>4
<1>10. CASE PrWorkerDrains
  <2>1. CASE PrEnd("worker")
    BY <1>10, <2>1, <1>f, PrEndKeeps DEF PrWorkerDrains, PrProcesses
  <2>2. CASE ~PrEnd("worker")
    <3> USE <1>10, <2>2 DEF PrIInv, PrWorkerDrains, PrDrained, PrJobs,
                            PrProcesses
    <3>1. PrTypeOK'
      BY <1>n DEF PrTypeOK
    <3>2. PrBootIsInOrder'
      BY DEF PrBootIsInOrder, PrBootIsAt, PrServes, PrTypeOK
    <3>5. PrCloseIsInOrder'
      <4>1. prPhase'["worker"] = "closing" /\ prAt'["worker"] = 1
            /\ prStuck'["worker"] = {}
        BY DEF PrCloseIsInOrder, PrTypeOK
      <4>2. prPhase'["api"] = prPhase["api"] /\ prAt'["api"] = prAt["api"]
            /\ prStuck'["api"] = prStuck["api"]
            /\ prOpen'["api"] = prOpen["api"]
        BY DEF PrTypeOK
      <4> QED
        BY <4>1, <4>2 DEF PrCloseIsInOrder
    <3>3. PrRunHasItsProcess' /\ PrLeftoversAreOlder'
      BY DEF PrRunHasItsProcess, PrLeftoversAreOlder, PrIsUp, PrServes, PrTypeOK
    <3>4. PrShutdownHolds'
      BY DEF PrShutdownHolds, PrConnected, PrExecuting, PrTypeOK
    <3> QED
      BY <3>1, <3>2, <3>3, <3>4, <3>5
  <2> QED
    BY <2>1, <2>2
<1>11. ASSUME NEW r \in PrRuns, PrRequest(r) PROVE PrIInv'
  <2> USE <1>11 DEF PrIInv, PrRequest, PrProcesses
  <2>1. PrTypeOK'
    <3> DEFINE row == [prRun[r] EXCEPT !.place = "request", !.born = prBoots["api"]]
    <3>1. prRun \in [PrRuns -> PrRow] /\ prBoots["api"] \in 0..PrMaxBoots
      BY DEF PrTypeOK, PrRow, PrPlaces
    <3>2. row \in PrRow
      BY <3>1 DEF PrRow, PrPlaces
    <3>3. prRun' = [prRun EXCEPT ![r] = row]
      OBVIOUS
    <3>4. prRun' \in [PrRuns -> PrRow]
      BY <3>1, <3>2, <3>3
    <3> QED
      BY <3>4 DEF PrTypeOK, PrRow, PrPlaces
  <2>2. PrBootIsInOrder' /\ PrCloseIsInOrder'
    BY DEF PrBootIsInOrder, PrBootIsAt, PrCloseIsInOrder, PrServes
  <2>3. PrRunHasItsProcess'
    BY DEF PrRunHasItsProcess, PrIsUp, PrServes, PrTypeOK
  <2>4. PrLeftoversAreOlder'
    <3>1. \A q \in PrRuns \ {r} : prRun'[q] = prRun[q]
      BY DEF PrTypeOK
    <3>2. /\ prRun'[r].place = "request" /\ prRun'[r].born = prBoots["api"]
          /\ prRun'[r].taken = prRun[r].taken
      BY DEF PrTypeOK
    <3>3. prRun[r].taken = 0
      BY DEF PrLeftoversAreOlder
    <3> QED
      BY <3>1, <3>2, <3>3 DEF PrLeftoversAreOlder, PrServes, PrTypeOK
  <2>5. PrShutdownHolds'
    BY DEF PrShutdownHolds
  <2> QED
    BY <2>1, <2>2, <2>3, <2>4, <2>5
<1>12. ASSUME NEW r \in PrRuns, PrEndOfRequest(r) PROVE PrIInv'
  <2>1. PrIsUp /\ prRun[r].born = prBoots["api"]
    BY <1>12 DEF PrEndOfRequest, PrIInv, PrRunHasItsProcess, PrIsUp, PrLeftoversAreOlder
  <2>2. PICK place \in {"queued", "running", "ended", "lost"} :
           PrMove(r, place) /\ (place = "running" => r \notin prShut.runs)
    BY <1>12 DEF PrEndOfRequest
  <2> QED
    BY <1>12, <2>1, <2>2, <1>f, <1>t, PrMoveKeeps DEF PrEndOfRequest, PrRow, PrPlaces
<1>13. ASSUME NEW r \in PrRuns, PrTake(r) PROVE PrIInv'
  BY <1>13, <1>f, <1>t, PrMoveKeeps DEF PrTake, PrServes, PrRow, PrPlaces
<1>14. ASSUME NEW r \in PrRuns, PrJobEnds(r) PROVE PrIInv'
  BY <1>14, <1>f, <1>t, PrMoveKeeps DEF PrJobEnds, PrRow, PrPlaces
<1>15. ASSUME NEW r \in PrRuns, PrCancel(r) PROVE PrIInv'
  <2>1. PrIsUp /\ prRun[r].place # "none" /\ r \notin prShut.runs
    BY <1>15 DEF PrCancel, PrIsUp, PrServes, PrIInv, PrShutdownHolds
  <2> QED
    BY <1>15, <2>1, <1>f, <1>t, PrMoveKeeps DEF PrCancel, PrRow, PrPlaces
<1>16. ASSUME NEW r \in PrRuns, PrExecutionEnds(r) PROVE PrIInv'
  <2>1. PrIsUp /\ PrExecuting(r)
    BY <1>16 DEF PrExecutionEnds, PrExecuting, PrIInv, PrRunHasItsProcess
  <2>2. prRun[r].place = "aborted" => prRun[r].born = prBoots["api"]
    BY DEF PrIInv, PrLeftoversAreOlder
  <2> QED
    BY <1>16, <2>1, <2>2, <1>f, <1>t, PrMoveKeeps DEF PrExecutionEnds, PrRow, PrPlaces
<1>17. ASSUME NEW r \in PrRuns, PrExecutionRejects(r) PROVE PrIInv'
  <2>0. prFailures' \in 0..PrMaxFailures
    BY <1>17, <1>f DEF PrExecutionRejects
  <2>1. CASE PrEnd("api")
    BY <2>0, <2>1, PrEndKeeps DEF PrProcesses
  <2>2. CASE ~PrEnd("api")
    <3>1. PrIsUp /\ prRun[r].place # "none"
      BY <1>17 DEF PrExecutionRejects, PrExecuting, PrIInv, PrRunHasItsProcess
    <3>2. /\ PrLoses("api", r) \in {"lost", "ended"}
          /\ PrLoses("api", r) = "lost" => prRun[r].born = prBoots["api"]
      BY <1>17 DEF PrExecutionRejects, PrExecuting, PrLoses, PrIInv, PrLeftoversAreOlder
    <3> QED
      BY <1>17, <2>0, <2>2, <3>1, <3>2, <1>t, PrMoveKeeps DEF PrExecutionRejects, PrRow, PrPlaces
  <2> QED
    BY <2>1, <2>2
<1>18. ASSUME NEW r \in PrRuns, PrStreamOpens(r) \/ PrStreamEnds(r) PROVE PrIInv'
  <2>1. prStream' \in PrStreamRow
    BY <1>18, <1>t DEF PrStreamOpens, PrStreamEnds, PrStreamRow
  <2> QED
    BY <1>18, <2>1, <1>f, <1>t, PrStayKeeps DEF PrStreamOpens, PrStreamEnds
<1>19. ASSUME NEW r \in PrRuns, PrClientLeaves(r) PROVE PrIInv'
  <2>1. prStream' \in PrStreamRow
    BY <1>19, <1>t DEF PrClientLeaves, PrStreamRow
  <2>2. CASE UNCHANGED prRun
    BY <1>19, <2>1, <2>2, <1>f, <1>t, PrStayKeeps DEF PrClientLeaves
  <2>3. CASE prRun[r].place = "request" /\ PrMove(r, "abandoned")
    <3>1. PrIsUp /\ prRun[r].born = prBoots["api"]
      BY <2>3 DEF PrIInv, PrRunHasItsProcess, PrIsUp, PrLeftoversAreOlder
    <3> QED
      BY <1>19, <2>1, <2>3, <3>1, <1>f, <1>t, PrMoveKeeps DEF PrClientLeaves, PrRow, PrPlaces
  <2> QED
    BY <1>19, <2>2, <2>3 DEF PrClientLeaves
<1>20. CASE UNCHANGED prVars
  BY <1>20, <1>f, <1>t, PrStayKeeps DEF prVars
<1> QED
  BY <1>1, <1>2, <1>3, <1>4, <1>5, <1>6, <1>7, <1>8, <1>9, <1>10, <1>11,
     <1>12, <1>13, <1>14, <1>15, <1>16, <1>17, <1>18, <1>19, <1>20 DEF PrNext

LEMMA PrInitially == PrInit => PrIInv
<1> SUFFICES ASSUME PrInit PROVE PrIInv
  OBVIOUS
<1> USE ProcessesAssumption DEF PrInit
<1>1. PrTypeOK
  BY PrBootSteps DEF PrTypeOK, PrNoShutdown
<1>2. PrBootIsInOrder /\ PrCloseIsInOrder
  BY DEF PrBootIsInOrder, PrBootIsAt, PrCloseIsInOrder, PrServes
<1>3. \A r \in PrRuns : /\ prRun[r].place = "none" /\ prRun[r].born = 0
                       /\ prRun[r].taken = 0
  OBVIOUS
<1>4. prPhase["api"] = "down" /\ prBoots["api"] = 0
  BY DEF PrProcesses
<1>5. PrRunHasItsProcess /\ PrShutdownHolds
  BY <1>3 DEF PrRunHasItsProcess, PrShutdownHolds, PrNoShutdown
<1>6. PrLeftoversAreOlder
  BY <1>3, <1>4 DEF PrLeftoversAreOlder
<1> QED
  BY <1>1, <1>2, <1>5, <1>6 DEF PrIInv

\* What the processes do, whether their work goes on or not.
PrMoves == PrInit /\ [][PrNext]_prVars

LEMMA PrInvariant == PrMoves => []PrIInv
BY PrInitially, PrIInvStep, PTL DEF PrMoves

\* The variables of the processes keep their types.
THEOREM PrTypeCorrect == PrSpec => []PrTypeOK
<1>1. PrIInv => PrTypeOK
  BY DEF PrIInv
<1> QED
  BY <1>1, PrInvariant, PTL DEF PrSpec, PrMoves

LEMMA PrIInvConnects == PrIInv => PrConnectionsFitTheWork
<1> SUFFICES ASSUME PrIInv PROVE PrConnectionsFitTheWork
  OBVIOUS
<1> USE DEF PrIInv, PrProcesses, PrBootIsInOrder, PrBootIsAt, PrNeeds,
            PrRunHasItsProcess
<1>1. PrJobs # {} => {"agentStore", "redis"} \subseteq prOpen["worker"]
  BY DEF PrJobs
<1>2. (\E r \in PrRuns : prRun[r].place = "request") =>
        {"agentStore", "redis", "runQueue", "knowledgeQueue", "authStore"}
          \subseteq prOpen["api"]
  OBVIOUS
<1>3. /\ (\E r \in PrRuns : prRun[r].place = "running" /\ prPhase["api"] # "closing") => PrConnected
      /\ (\E r \in prShut.runs : PrExecuting(r)) /\ ~prShut.thrown => PrConnected
  BY DEF PrIsUp, PrServes, PrConnected, PrShutdownHolds
<1>4. ASSUME NEW p \in PrProcesses, prPhase[p] = "closing",
             prAt[p] > Len(PrCloseOrder)
      PROVE  prOpen[p] \cap {PrCloseOrder[i] : i \in 1..Len(PrCloseOrder)}
               = prStuck[p]
  <2>1. Len(PrCloseOrder) = 5
    BY DEF PrCloseOrder
  <2>2. prAt[p] = 6
    BY <1>4, <2>1 DEF PrCloseIsInOrder
  <2> QED
    BY <1>4, <2>1, <2>2 DEF PrCloseIsInOrder
<1> QED
  BY <1>1, <1>2, <1>3, <1>4 DEF PrConnectionsFitTheWork

(***************************************************************************)
(* A handler, a request that is waited for, an execution of an API that    *)
(* serves, and one that shutdown cancels, have the connections they work   *)
(* with, however starts fail, signals come and closes throw, unless a      *)
(* cancelRun of the shutdown throws; and when closeRuntimeResources is     *)
(* through, what is still open is what did not close.                      *)
(***************************************************************************)
THEOREM PrWorkIsConnected == PrSpec => []PrConnectionsFitTheWork
BY PrInvariant, PrIInvConnects, PTL DEF PrSpec, PrMoves

LEMMA PrIInvSettles == PrIInv => PrLeftoversAreSettled
BY DEF PrIInv, PrLeftoversAreOlder, PrServes, PrLeftoversAreSettled

(***************************************************************************)
(* An API that serves has settled what an earlier one lost, and its        *)
(* cleanup took no run of its own for a leftover: a run is created after   *)
(* the cleanup of the API that creates it.                                 *)
(***************************************************************************)
THEOREM PrNoneIsLeftOver == PrSpec => []PrLeftoversAreSettled
BY PrInvariant, PrIInvSettles, PTL DEF PrSpec, PrMoves

-----------------------------------------------------------------------------
(***************************************************************************)
(* The four parts side by side.                                            *)
(***************************************************************************)

\* A step of one part is a step of that part and leaves the others alone.
LEMMA BackgroundParts ==
    ASSUME [MCNext]_allVars
    PROVE  /\ [LockNext]_lockVars /\ [Next]_vars /\ [AlNext]_alVars
           /\ [PrNext]_prVars
<1> USE DEF Only, Still, Parts
<1>1. CASE part = "lock" /\ LockNext /\ Only("lock")
  BY <1>1
<1>2. CASE part = "knowledge" /\ Next /\ Only("knowledge")
  BY <1>2
<1>3. CASE part = "agent" /\ AlNext /\ Only("agent")
  BY <1>3
<1>4. CASE part = "processes" /\ PrNext /\ Only("processes")
  BY <1>4
<1>5. CASE UNCHANGED allVars
  BY <1>5 DEF allVars
<1> QED
  BY <1>1, <1>2, <1>3, <1>4, <1>5 DEF MCNext

\* A behaviour of the whole is one of each part, but for the fairness.
LEMMA BackgroundIsItsParts == MCSpec => LockSpec /\ Spec /\ AlMoves /\ PrMoves
<1>1. MCInit => LockInit /\ Init /\ AlInit /\ PrInit
  BY DEF MCInit
<1>2. [MCNext]_allVars =>
        [LockNext]_lockVars /\ [Next]_vars /\ [AlNext]_alVars /\ [PrNext]_prVars
  BY BackgroundParts
<1> QED
  BY <1>1, <1>2, PTL DEF MCSpec, LockSpec, Spec, AlMoves, PrMoves

(***************************************************************************)
(* Whichever part runs, the variables of all of them keep their types.     *)
(***************************************************************************)
THEOREM BackgroundTypeCorrect == MCSpec => []BackgroundTypesOK
<1>1. PrIInv => PrTypeOK
  BY DEF PrIInv
<1>2. LockTypeOK /\ TypeOK /\ AlTypeOK /\ PrTypeOK => BackgroundTypesOK
  BY DEF BackgroundTypesOK
<1> QED
  BY <1>1, <1>2, BackgroundIsItsParts, LockTypeCorrect, IndexingTypeCorrect,
     AlInvariant, AlIInvTells, PrInvariant, PTL

(***************************************************************************)
(* The safety of all four parts together: of the lock of a run, of the     *)
(* chunks of a document, of the history and the iterations of the agent,   *)
(* and of the connections and leftovers of the processes.                  *)
(***************************************************************************)
THEOREM BackgroundIsSafe ==
    /\ MCSpec => [](/\ LiveLeaseOwnsKey /\ AtMostOneLiveLease
                    /\ AlHistoryAnswered /\ AlNoRecursionError
                    /\ PrConnectionsFitTheWork /\ PrLeftoversAreSettled)
    /\ ~MayStallAlive => (MCSpec => []StatusMatchesChunks)
<1>1. MCSpec => [](/\ LiveLeaseOwnsKey /\ AtMostOneLiveLease
                   /\ AlHistoryAnswered /\ AlNoRecursionError
                   /\ PrConnectionsFitTheWork /\ PrLeftoversAreSettled)
  BY BackgroundIsItsParts, LockOwnership, LockExclusion, AlInvariant, AlIInvTells,
     PrInvariant, PrIInvConnects, PrIInvSettles, PTL
<1>2. ASSUME ~MayStallAlive PROVE MCSpec => []StatusMatchesChunks
  <2>1. Spec => []StatusMatchesChunks
    BY <1>2, StatusTellsChunks
  <2> QED
    BY <2>1, BackgroundIsItsParts, PTL
<1> QED
  BY <1>1, <1>2
==============================================================================
