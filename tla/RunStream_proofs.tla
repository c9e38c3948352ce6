--------------------------- MODULE RunStream_proofs ---------------------------
(***************************************************************************)
(* Proofs about what a browser sees of a run, for any number of deltas and *)
(* reloads, wherever the run is executed.  EarlyStreamEnds rests on        *)
(* fairness and is left to TLC.                                            *)
(***************************************************************************)
EXTENDS RunStream, SequenceTheorems, TLAPS

-----------------------------------------------------------------------------
(* A publication has at most two events: what the fold over them is.       *)

LEMMA FoldNone ==
    ASSUME NEW b, NEW q, DOMAIN q = {}
    PROVE  FoldLeft(Receive, b, q) = b
<1> DEFINE IsIter(g) ==
             g = [s \in SUBSET (DOMAIN q) |->
                    IF s = {} THEN b
                    ELSE Receive(g[s \ {Max(s)}], q[Max(s)])]
           iter == CHOOSE g : IsIter(g)
<1>1. IsIter([s \in SUBSET {} |-> b])
  OBVIOUS
<1>2. IsIter(iter)
  <2> HIDE DEF IsIter
  <2> QED
    BY <1>1
<1>3. FoldLeft(Receive, b, q) = iter[DOMAIN q]
  BY DEF FoldLeft, MapThenFoldSet
<1> QED
  BY <1>2, <1>3

LEMMA FoldOne ==
    ASSUME NEW b, NEW q, DOMAIN q = {1}
    PROVE  FoldLeft(Receive, b, q) = Receive(b, q[1])
<1> DEFINE IsIter(g) ==
             g = [s \in SUBSET (DOMAIN q) |->
                    IF s = {} THEN b
                    ELSE Receive(g[s \ {Max(s)}], q[Max(s)])]
           iter == CHOOSE g : IsIter(g)
           one == [s \in SUBSET {1} |-> IF s = {} THEN b
                                        ELSE Receive(b, q[1])]
<1>0. Max({1}) = 1 /\ {1} \ {1} = {} /\ {1} # {}
  BY DEF Max
<1>1. IsIter(one)
  <2>1. \A s \in SUBSET {1} : s = {} \/ s = {1}
    OBVIOUS
  <2>2. one[{}] = b /\ one[{1}] = Receive(b, q[1])
    BY <1>0
  <2>3. \A s \in SUBSET {1} :
          one[s] = IF s = {} THEN b
                   ELSE Receive(one[s \ {Max(s)}], q[Max(s)])
    <3> HIDE DEF one
    <3>1. {1} \ {Max({1})} = {}
      BY <1>0
    <3> QED
      BY <1>0, <2>1, <2>2, <3>1
  <2> QED
    BY <2>3
<1>2. IsIter(iter)
  <2> HIDE DEF IsIter, one
  <2> QED
    BY <1>1
<1>3. FoldLeft(Receive, b, q) = iter[DOMAIN q]
  BY DEF FoldLeft, MapThenFoldSet
<1> HIDE DEF iter
<1>4. iter[{1}] = Receive(iter[{}], q[1]) /\ iter[{}] = b
  <2>1. \A s \in SUBSET {1} :
          iter[s] = IF s = {} THEN b
                    ELSE Receive(iter[s \ {Max(s)}], q[Max(s)])
    BY <1>2
  <2> QED
    BY <1>0, <2>1
<1> QED
  BY <1>3, <1>4

LEMMA FoldTwo ==
    ASSUME NEW b, NEW q, DOMAIN q = {1, 2}
    PROVE  FoldLeft(Receive, b, q) = Receive(Receive(b, q[1]), q[2])
<1> DEFINE IsIter(g) ==
             g = [s \in SUBSET (DOMAIN q) |->
                    IF s = {} THEN b
                    ELSE Receive(g[s \ {Max(s)}], q[Max(s)])]
           iter == CHOOSE g : IsIter(g)
           one(i) == Receive(b, q[i])
           two == [s \in SUBSET {1, 2} |->
                     IF s = {} THEN b ELSE IF s = {1} THEN one(1)
                     ELSE IF s = {2} THEN one(2) ELSE Receive(one(1), q[2])]
<1>0. Max({1}) = 1 /\ Max({2}) = 2 /\ Max({1, 2}) = 2
  BY DEF Max
<1>1. IsIter(two)
  <2>1. \A s \in SUBSET {1, 2} : s = {} \/ s = {1} \/ s = {2} \/ s = {1, 2}
    OBVIOUS
  <2>2. /\ {1} \ {1} = {} /\ {2} \ {2} = {} /\ {1, 2} \ {2} = {1}
        /\ {1, 2} # {1} /\ {1, 2} # {2} /\ {1} # {2} /\ {1, 2} # {}
    OBVIOUS
  <2>3. /\ two[{}] = b /\ two[{1}] = one(1) /\ two[{2}] = one(2)
        /\ two[{1, 2}] = Receive(one(1), q[2])
    BY <2>2
  <2>4. \A s \in SUBSET {1, 2} :
          two[s] = IF s = {} THEN b
                   ELSE Receive(two[s \ {Max(s)}], q[Max(s)])
    <3> HIDE DEF two
    <3> QED
      BY <1>0, <2>1, <2>2, <2>3
  <2> QED
    BY <2>4
<1>2. IsIter(iter)
  <2> HIDE DEF IsIter, two
  <2> QED
    BY <1>1
<1>3. FoldLeft(Receive, b, q) = iter[DOMAIN q]
  BY DEF FoldLeft, MapThenFoldSet
<1> HIDE DEF iter
<1>4. /\ iter[{1, 2}] = Receive(iter[{1}], q[2])
      /\ iter[{1}] = Receive(iter[{}], q[1]) /\ iter[{}] = b
  <2>1. {1} \ {1} = {} /\ {1, 2} \ {2} = {1} /\ {1, 2} # {}
    OBVIOUS
  <2>2. \A s \in SUBSET {1, 2} :
          iter[s] = IF s = {} THEN b
                    ELSE Receive(iter[s \ {Max(s)}], q[Max(s)])
    BY <1>2
  <2> QED
    BY <1>0, <2>1, <2>2
<1> QED
  BY <1>3, <1>4

-----------------------------------------------------------------------------
(* The types, in full.                                                     *)

Statuses == {"absent", "running", "completed", "failed", "cancelled"}

EventTypes ==
    {"none", "session.message.created", "session.message.updated",
     "message.part.delta", "message.part.updated", "process.step",
     "agent_state", "final_answer", "run_completed", "error", "cancelled"}

Events == [type : EventTypes, onMessage : BOOLEAN, version : Int,
           text : Seq(Int), status : Statuses, open : BOOLEAN]

Messages == [known : BOOLEAN, status : Statuses, text : Seq(Int),
             version : Int, stepOpen : BOOLEAN]

Stages == Listening \cup {"open", "reload", "ended"}

Conns == [stage : Stages, sawRunning : BOOLEAN, snap : Messages,
          fresh : BOOLEAN, early : BOOLEAN, by : Events]

\* A message of the page: one that is not known is blank.
IsMessage(m) == m \in Messages /\ (~m.known => m = NoMessage)

-----------------------------------------------------------------------------
(* What an event does to the message of the page.                          *)

LEMMA NoMessageIs ==
    /\ NoMessage \in Messages /\ ~NoMessage.known
    /\ NoMessage.text = <<>> /\ NoMessage.version = -1
    /\ NoMessage.stepOpen = FALSE /\ NoMessage.status = "absent"
BY DEF NoMessage, Messages, Statuses, NoVersion

LEMMA NewMessageIs ==
    ASSUME NEW m, IsMessage(m), NEW e \in Events
    PROVE  /\ MessageFor(m, e) \in Messages
           /\ MessageFor(m, e).version = m.version
           /\ MessageFor(m, e).text = m.text
           /\ MessageFor(m, e).stepOpen = m.stepOpen
           /\ IsPartEvent(e) \/ e.type = "final_answer" =>
                 MessageFor(m, e).known
           /\ ~MessageFor(m, e).known => MessageFor(m, e) = NoMessage
           /\ m.known => MessageFor(m, e) = m
           /\ MessageFor(m, e).known =>
                 m.known \/ IsPartEvent(e) \/ e.type = "final_answer"
<1> DEFINE new == [NoMessage EXCEPT !.known = TRUE, !.status = "running"]
<1>1. CASE ~m.known /\ (IsPartEvent(e) \/ e.type = "final_answer")
  <2>1. MessageFor(m, e) = new
    BY <1>1 DEF MessageFor
  <2>2. m = NoMessage
    BY <1>1 DEF IsMessage
  <2>3. /\ new \in Messages /\ new.known /\ new.version = NoMessage.version
        /\ new.text = NoMessage.text /\ new.stepOpen = NoMessage.stepOpen
    BY NoMessageIs DEF Messages, Statuses
  <2> HIDE DEF new
  <2> QED
    BY <1>1, <2>1, <2>2, <2>3
<1>2. CASE ~(~m.known /\ (IsPartEvent(e) \/ e.type = "final_answer"))
  <2>1. MessageFor(m, e) = m
    BY <1>2 DEF MessageFor
  <2> QED
    BY <1>2, <2>1 DEF IsMessage
<1> QED
  BY <1>1, <1>2

\* A record of the message.
LEMMA AppliedRecord ==
    ASSUME NEW m, IsMessage(m), NEW e \in Events,
           e.type \in {"session.message.created", "session.message.updated"}
    PROVE  LET n == ApplyEvent(m, e) IN
             /\ n \in Messages /\ n.known /\ n.version = m.version
             /\ n.text = e.text /\ n.stepOpen = m.stepOpen
             /\ e.status = "completed" => n.status = "completed"
<1> DEFINE t == UpsertRecord(m, e)
<1>1. /\ t \in Messages /\ t.known /\ t.version = m.version /\ t.text = e.text
      /\ t.stepOpen = m.stepOpen /\ t.status = e.status
  BY DEF UpsertRecord, IsMessage, Messages, Events
<1>2. ApplyEvent(m, e) = IF e.onMessage THEN Reduce(t, e) ELSE t
  BY <1>1 DEF ApplyEvent
<1> HIDE DEF t
<1>3. Reduce(t, e) = SetOtherStatus(t)
  BY DEF Reduce, IsDuplicateOrOlderPartVersion, IsPartEvent
<1> DEFINE u == SetOtherStatus(t)
<1>4. /\ u \in Messages /\ u.known /\ u.version = t.version /\ u.text = t.text
      /\ u.stepOpen = t.stepOpen
      /\ t.status = "completed" => u.status = "completed"
  BY <1>1 DEF SetOtherStatus, Messages, Statuses
<1> HIDE DEF u
<1> QED
  BY <1>1, <1>2, <1>3, <1>4 DEF u

\* A delta, or the part as it is: only what is newer counts.
LEMMA AppliedPart ==
    ASSUME NEW m, IsMessage(m), NEW e \in Events, IsPartEvent(e), e.onMessage
    PROVE  LET n == ApplyEvent(m, e)
               newer == e.version = NoVersion \/ e.version > m.version
           IN /\ n \in Messages /\ n.known /\ n.stepOpen = m.stepOpen
              /\ ~newer => n.version = m.version /\ n.text = m.text
              /\ newer /\ e.version = NoVersion => n.version = m.version
              /\ newer /\ e.version # NoVersion => n.version = e.version
              /\ newer /\ e.type = "message.part.delta" =>
                    n.text = m.text \o e.text
              /\ newer /\ e.type = "message.part.updated" => n.text = e.text
<1> DEFINE t == MessageFor(m, e)
<1>1. /\ t \in Messages /\ t.known /\ t.version = m.version /\ t.text = m.text
      /\ t.stepOpen = m.stepOpen
  BY NewMessageIs
<1>2. ApplyEvent(m, e) = Reduce(t, e)
  BY <1>1 DEF ApplyEvent, IsPartEvent
<1> HIDE DEF t
<1>3. CASE ~(e.version = NoVersion \/ e.version > m.version)
  <2>1. Reduce(t, e) = t
    BY <1>1, <1>3 DEF Reduce, IsDuplicateOrOlderPartVersion, Messages, Events, NoVersion
  <2> QED
    BY <1>1, <1>2, <1>3, <2>1
<1>4. CASE e.version = NoVersion \/ e.version > m.version
  <2>1. ~IsDuplicateOrOlderPartVersion(t, e)
    BY <1>1, <1>4 DEF IsDuplicateOrOlderPartVersion, Messages, Events, NoVersion
  <2>2. CASE e.type = "message.part.delta"
    <3> DEFINE u == [t EXCEPT !.text = @ \o e.text, !.version = VersionAfter(t, e)]
    <3>1. Reduce(t, e) = u
      BY <2>1, <2>2 DEF Reduce
    <3>2. t.text \o e.text \in Seq(Int) /\ VersionAfter(t, e) \in Int
      BY <1>1 DEF Messages, Events, VersionAfter
    <3>3. /\ u \in Messages /\ u.known /\ u.text = m.text \o e.text
          /\ u.version = VersionAfter(t, e) /\ u.stepOpen = m.stepOpen
      BY <1>1, <3>2 DEF Messages
    <3> HIDE DEF u
    <3> QED
      BY <1>1, <1>2, <1>4, <2>2, <3>1, <3>3 DEF VersionAfter
  <2>3. CASE e.type = "message.part.updated"
    <3> DEFINE u == [t EXCEPT !.text = e.text, !.version = VersionAfter(t, e)]
    <3>1. Reduce(t, e) = u
      BY <2>1, <2>3 DEF Reduce
    <3>2. e.text \in Seq(Int) /\ VersionAfter(t, e) \in Int
      BY <1>1 DEF Messages, Events, VersionAfter
    <3>3. /\ u \in Messages /\ u.known /\ u.text = e.text
          /\ u.version = VersionAfter(t, e) /\ u.stepOpen = m.stepOpen
      BY <1>1, <3>2 DEF Messages
    <3> HIDE DEF u
    <3> QED
      BY <1>1, <1>2, <1>4, <2>3, <3>1, <3>3 DEF VersionAfter
  <2> QED
    BY <2>2, <2>3 DEF IsPartEvent
<1> QED
  BY <1>3, <1>4

\* final_answer.
LEMMA AppliedAnswer ==
    ASSUME NEW m, IsMessage(m), NEW e \in Events, e.type = "final_answer",
           e.onMessage
    PROVE  LET n == ApplyEvent(m, e) IN
             /\ n \in Messages /\ n.known /\ n.version = m.version
             /\ n.text = e.text /\ n.stepOpen = m.stepOpen
<1> DEFINE t == MessageFor(m, e)
           u == [t EXCEPT !.text = e.text, !.status = "completed"]
<1>1. /\ t \in Messages /\ t.known /\ t.version = m.version
      /\ t.stepOpen = m.stepOpen
  BY NewMessageIs
<1>2. ApplyEvent(m, e) = Reduce(t, e)
  BY <1>1 DEF ApplyEvent
<1> HIDE DEF t
<1>3. Reduce(t, e) = u
  BY DEF Reduce, IsDuplicateOrOlderPartVersion, IsPartEvent
<1>4. /\ u \in Messages /\ u.known /\ u.version = m.version
      /\ u.text = e.text /\ u.stepOpen = m.stepOpen
  BY <1>1 DEF Messages, Events, Statuses
<1> HIDE DEF u
<1> QED
  BY <1>2, <1>3, <1>4

\* The other events leave the text alone, and a completed message completed
\* unless they are terminal.
LEMMA AppliedOther ==
    ASSUME NEW m, IsMessage(m), NEW e \in Events,
           ~IsPartEvent(e),
           e.type \notin {"session.message.created", "session.message.updated",
                          "final_answer"}
    PROVE  LET n == ApplyEvent(m, e) IN
             /\ IsMessage(n) /\ n.version = m.version /\ n.text = m.text
             /\ n.known = m.known
             /\ n.stepOpen = IF e.type = "process.step" /\ m.known /\ e.onMessage
                             THEN e.open ELSE m.stepOpen
             /\ e.type = "error" /\ m.known /\ e.onMessage => n.status = "failed"
             /\ e.type = "cancelled" /\ m.known /\ e.onMessage =>
                   n.status = "cancelled"
             /\ m.status = "completed" /\ e.type \notin {"error", "cancelled"} =>
                   n.status = "completed"
<1>1. MessageFor(m, e) = m
  BY DEF MessageFor
<1>2. ApplyEvent(m, e) = IF m.known /\ e.onMessage THEN Reduce(m, e) ELSE m
  BY <1>1 DEF ApplyEvent
<1>3. ~IsDuplicateOrOlderPartVersion(m, e)
  BY DEF IsDuplicateOrOlderPartVersion
<1>4. CASE ~(m.known /\ e.onMessage)
  BY <1>2, <1>4
<1>5. CASE m.known /\ e.onMessage
  <2>0. m \in Messages /\ ApplyEvent(m, e) = Reduce(m, e) /\ e.open \in BOOLEAN
    BY <1>2, <1>5 DEF IsMessage, Events
  <2>1. CASE e.type = "process.step"
    <3>1. Reduce(m, e) = [m EXCEPT !.stepOpen = e.open]
      BY <1>3, <2>1 DEF Reduce
    <3> QED
      BY <1>5, <2>0, <2>1, <3>1 DEF Messages, IsMessage
  <2>2. CASE e.type = "error"
    <3>1. Reduce(m, e) = [m EXCEPT !.status = "failed"]
      BY <1>3, <2>2 DEF Reduce
    <3> QED
      BY <1>5, <2>0, <2>2, <3>1 DEF Messages, IsMessage, Statuses
  <2>3. CASE e.type = "cancelled"
    <3>1. Reduce(m, e) = [m EXCEPT !.status = "cancelled"]
      BY <1>3, <2>3 DEF Reduce
    <3> QED
      BY <1>5, <2>0, <2>3, <3>1 DEF Messages, IsMessage, Statuses
  <2>4. CASE e.type \notin {"process.step", "error", "cancelled"}
    <3>1. Reduce(m, e) = SetOtherStatus(m)
      BY <1>3, <2>4 DEF Reduce, IsPartEvent
    <3> QED
      BY <1>5, <2>0, <2>4, <3>1 DEF Messages, IsMessage, Statuses, SetOtherStatus
  <2> QED
    BY <2>1, <2>2, <2>3, <2>4
<1> QED
  BY <1>4, <1>5

-----------------------------------------------------------------------------
(* The rows, the draft, the executor and the calls of cancelRun.           *)

RowsTyped ==
    /\ place \in Places
    /\ run \in [status : {"running"} \cup Ended, linked : BOOLEAN]
    /\ msg \in [status : Statuses, text : Texts]
    /\ stepOpen \in BOOLEAN
    /\ draft \in [exists : BOOLEAN, version : Nat, text : Texts]
    /\ flag \in BOOLEAN
    /\ exec \in [pc : ExecPC, deltas : 0..MaxDeltas, version : Int]
    /\ cancel \in [Processes -> [pc : CancelPC, linked : BOOLEAN, text : Texts]]

\* Where the executor is before it asks for the text of the answer.
BeforeText == Generating \cup {"cancelling", "text"}

\* The draft is the deltas, until the answer replaces them, under a version
\* of its own; between the script and the event it is one delta ahead.
DraftTold ==
    /\ exec.pc \in {"create", "draft"} => exec.deltas = 0
    /\ exec.pc = "emit" =>
         /\ draft.version = exec.deltas + 1 /\ exec.version = draft.version
         /\ draft.text = Streamed(draft.version)
         /\ exec.deltas < MaxDeltas
    /\ exec.pc # "emit" =>
         \/ draft.version = exec.deltas /\ draft.text = Streamed(draft.version)
         \/ /\ draft.version = exec.deltas + 1 /\ draft.text = Answer
            /\ exec.pc \notin BeforeText
    /\ exec.pc = "emitText" => exec.version \in {NoVersion, draft.version}

\* What a message holds before anything but the executor has written it.
Plain == {<<>>, Answer, Failure}

\* Who may have ended the run and the message.
EndsTold ==
    /\ exec.pc \in {"create", "draft", "link"} =>
         run.status \in {"running", "cancelled"}
    /\ exec.pc = "create" => msg.status = "absent"
    /\ exec.pc = "announceEnd" => msg.status = "completed"
    /\ exec.pc = "cancelling" => ~NobodyCancels
    /\ run.status # "running" =>
         ~NobodyCancels \/ exec.pc \in {"finally", "done"}
    /\ NobodyCancels => msg.text \in Plain
    /\ \A p \in Processes : cancel[p].pc = "updated" => msg.status = "cancelled"
    /\ place = "api" => cancel["worker"].pc = "idle"

\* A run of a worker has its message from the start, and as long as the
\* message is running, so is the run, and nobody but the executor has
\* written the message or its draft.
WorkerTold ==
    place = "worker" =>
      /\ run.linked
      /\ exec.pc \notin {"create", "draft", "link", "announce"}
      /\ run.status # "running" => msg.status # "running"
      /\ \/ cancel["worker"].pc \in {"idle", "done", "threw"}
         \/ exec.pc = "cancelling"
      /\ \A p \in Processes : cancel[p].pc # "idle" => cancel[p].linked
      /\ msg.status = "running" =>
           /\ draft.exists
           /\ msg.text = <<>>
           /\ \A p \in Processes :
                cancel[p].pc \in {"idle", "flag", "message", "steps", "write"}
           /\ exec.pc \notin {"announceEnd", "endRun", "failRun", "finally",
                              "done"}
           /\ exec.pc \in {"emitText", "close", "settle"} =>
                draft.text = Answer /\ draft.version = exec.deltas + 1
           /\ exec.pc \notin {"emitText", "close", "settle"} =>
                draft.text = Streamed(draft.version)
           /\ exec.pc = "emitText" => exec.version = draft.version

RowsIInv == RowsTyped /\ DraftTold /\ EndsTold /\ WorkerTold

LEMMA StreamedIs ==
    ASSUME NEW v \in Nat
    PROVE  /\ Streamed(v) \in Seq(1..v) /\ Streamed(v) \in Seq(Int)
           /\ Len(Streamed(v)) = v /\ DOMAIN Streamed(v) = 1..v
           /\ \A i \in 1..v : Streamed(v)[i] = i
           /\ Append(Streamed(v), v + 1) = Streamed(v + 1)
           /\ Streamed(v) \o <<v + 1>> = Streamed(v + 1)
<1>1. /\ Streamed(v) \in Seq(1..v) /\ Streamed(v) \in Seq(Int)
      /\ Len(Streamed(v)) = v /\ DOMAIN Streamed(v) = 1..v
      /\ \A i \in 1..v : Streamed(v)[i] = i
  BY DEF Streamed
<1>2. Append(Streamed(v), v + 1) = Streamed(v + 1)
  BY <1>1 DEF Streamed
<1>3. Streamed(v) \o <<v + 1>> = Streamed(v + 1)
  BY <1>1 DEF Streamed
<1> QED
  BY <1>1, <1>2, <1>3

LEMMA TextsAre ==
    /\ Answer \in Texts /\ Failure \in Texts /\ <<>> \in Texts
    /\ \A v \in 0..MaxDeltas : Streamed(v) \in Texts
    /\ \A t \in Texts : t \in Seq(Int)
    /\ Answer \in Seq(Int) /\ Failure \in Seq(Int) /\ <<>> \in Seq(Int)
<1> USE RunStreamAssumption
<1>1. Answer \in Seq(Int) /\ Failure \in Seq(Int) /\ <<>> \in Seq(Int)
  BY DEF Answer, Failure
<1>2. <<>> \in Seq(1..MaxDeltas)
  OBVIOUS
<1>3. \A v \in 0..MaxDeltas : Streamed(v) \in Seq(1..MaxDeltas)
  BY DEF Streamed
<1>4. \A t \in Seq(1..MaxDeltas) : t \in Seq(Int)
  OBVIOUS
<1> QED
  BY <1>1, <1>2, <1>3, <1>4 DEF Texts


\* The rows keep their types, whatever the step.
LEMMA RowsTypesStep == RowsIInv /\ [Next]_vars => RowsTyped'
<1> SUFFICES ASSUME RowsIInv, [Next]_vars PROVE RowsTyped'
  OBVIOUS
<1>0. RowsTyped /\ DraftTold
  BY DEF RowsIInv
<1>1. CASE Execute
  <2>1. CASE CreateMessage
    BY <2>1, <1>0, RunStreamAssumption, TextsAre DEF CreateMessage,
       Goes, watch, execFrame, RowsTyped, ExecPC, CancelPC, Generating,
       Ended, Statuses, Processes
  <2>2. CASE EnsureDraft
    BY <2>2, <1>0, RunStreamAssumption, TextsAre DEF EnsureDraft, Goes,
       watch, execFrame, RowsTyped, ExecPC, CancelPC, Generating, Ended,
       Statuses, Processes
  <2>3. CASE LinkMessage
    BY <2>3, <1>0, RunStreamAssumption DEF LinkMessage, Goes, watch,
       execFrame, RowsTyped, ExecPC, CancelPC, Generating, Ended,
       Statuses, Processes
  <2>4. CASE AnnounceMessage
    BY <2>4, <1>0, RunStreamAssumption DEF AnnounceMessage, Goes, rows,
       execFrame, RowsTyped, ExecPC, CancelPC, Generating, Ended,
       Statuses, Processes
  <2>5. CASE AppendDelta
    <3>1. draft.text = Streamed(exec.deltas) /\ exec.deltas + 1 \in 0..MaxDeltas
      BY <2>5, <1>0, RunStreamAssumption
         DEF AppendDelta, DraftTold, BeforeText, Generating, RowsTyped
    <3>2. Append(draft.text, exec.deltas + 1) \in Texts
      <4>1. exec.deltas \in Nat
        BY <1>0, RunStreamAssumption DEF RowsTyped
      <4>2. Append(draft.text, exec.deltas + 1) = Streamed(exec.deltas + 1)
        BY <3>1, <4>1, StreamedIs
      <4> QED
        BY <3>1, <4>2, TextsAre
    <3>3. draft' \in [exists : BOOLEAN, version : Nat, text : Texts]
      <4> DEFINE new == Append(draft.text, exec.deltas + 1)
      <4>1. new \in Texts /\ draft.version + 1 \in Nat
        BY <1>0, <3>2 DEF RowsTyped
      <4>2. draft' = [draft EXCEPT !.version = @ + 1, !.text = new]
        BY <2>5 DEF AppendDelta
      <4> HIDE DEF new
      <4> QED
        BY <1>0, <4>1, <4>2 DEF RowsTyped
    <3>4. exec' \in [pc : ExecPC, deltas : 0..MaxDeltas, version : Int]
      <4>1. "emit" \in ExecPC /\ draft.version + 1 \in Int
        BY <1>0 DEF RowsTyped, ExecPC, Generating
      <4> QED
        BY <2>5, <1>0, <4>1 DEF AppendDelta, RowsTyped
    <3> QED
      BY <2>5, <1>0, <3>3, <3>4 DEF AppendDelta, execFrame, watch, RowsTyped
  <2>6. CASE EmitDelta
    <3>1. exec.deltas + 1 \in 0..MaxDeltas
      BY <2>6, <1>0, RunStreamAssumption DEF EmitDelta, DraftTold, RowsTyped
    <3>2. exec' \in [pc : ExecPC, deltas : 0..MaxDeltas, version : Int]
      BY <2>6, <1>0, <3>1 DEF EmitDelta, RowsTyped, ExecPC, Generating
    <3> QED
      BY <2>6, <1>0, <3>2 DEF EmitDelta, rows, execFrame, RowsTyped
  <2>7. CASE OpenStep
    BY <2>7, <1>0, RunStreamAssumption DEF OpenStep, Goes, GuardPasses,
       execFrame, Aborted, RowsTyped, ExecPC, CancelPC, Generating,
       Ended, Statuses, Processes
  <2>8. CASE GuardAborts
    BY <2>8, <1>0, RunStreamAssumption DEF GuardAborts, Goes, Aborted,
       rows, watch, execFrame, RowsTyped, ExecPC, CancelPC, Generating,
       Ended, Statuses, Processes
  <2>9. CASE GuardCancels
    BY <2>9, <1>0, RunStreamAssumption DEF GuardCancels, Goes, Aborted,
       rows, watch, RowsTyped, ExecPC, CancelPC, Generating, Ended,
       Statuses, Processes
  <2>10. CASE GuardCancelled
    BY <2>10, <1>0, RunStreamAssumption DEF GuardCancelled, Goes, rows,
       watch, execFrame, RowsTyped, ExecPC, CancelPC, Generating, Ended,
       Statuses, Processes
  <2>11. CASE AgentFails
    BY <2>11, <1>0, RunStreamAssumption DEF AgentFails, Goes, rows,
       watch, execFrame, RowsTyped, ExecPC, CancelPC, Generating, Ended,
       Statuses, Processes
  <2>12. CASE AgentAnswers
    BY <2>12, <1>0, RunStreamAssumption DEF AgentAnswers, Goes,
       GuardPasses, rows, watch, execFrame, Aborted, RowsTyped, ExecPC,
       CancelPC, Generating, Ended, Statuses, Processes
  <2>13. CASE SetAnswerText
    <3>1. exec' \in [pc : ExecPC, deltas : 0..MaxDeltas, version : Int]
      <4>1. "emitText" \in ExecPC /\ NoVersion \in Int /\ draft.version + 1 \in Int
        BY <1>0 DEF RowsTyped, ExecPC, NoVersion
      <4> QED
        BY <2>13, <1>0, <4>1 DEF SetAnswerText, RowsTyped
    <3>2. /\ msg' \in [status : Statuses, text : Texts]
          /\ draft' \in [exists : BOOLEAN, version : Nat, text : Texts]
      <4>1. Answer \in Texts /\ draft.version + 1 \in Nat
        BY <1>0, TextsAre DEF RowsTyped
      <4>2. CASE msg.status = "running"
        BY <2>13, <1>0, <4>1, <4>2 DEF SetAnswerText, RowsTyped
      <4>3. CASE msg.status # "running"
        BY <2>13, <1>0, <4>1, <4>3 DEF SetAnswerText, RowsTyped
      <4> QED
        BY <4>2, <4>3
    <3> QED
      BY <2>13, <1>0, <3>1, <3>2 DEF SetAnswerText, watch, execFrame, RowsTyped
  <2>14. CASE EmitText
    BY <2>14, <1>0, RunStreamAssumption DEF EmitText, Goes, rows,
       execFrame, RowsTyped, ExecPC, CancelPC, Generating, Ended,
       Statuses, Processes
  <2>15. CASE CloseSteps
    BY <2>15, <1>0, RunStreamAssumption DEF CloseSteps, Goes, execFrame,
       RowsTyped, ExecPC, CancelPC, Generating, Ended, Statuses,
       Processes
  <2>16. CASE CompleteMessage
    <3>1. msg' \in [status : Statuses, text : Texts]
      BY <2>16, <1>0, TextsAre DEF CompleteMessage, RowsTyped, Statuses
    <3>2. exec' \in [pc : ExecPC, deltas : 0..MaxDeltas, version : Int]
      BY <2>16, <1>0 DEF CompleteMessage, Goes, RowsTyped, ExecPC
    <3> QED
      BY <2>16, <1>0, <3>1, <3>2 DEF CompleteMessage, watch, execFrame, RowsTyped
  <2>17. CASE AnnounceEnd
    BY <2>17, <1>0, RunStreamAssumption DEF AnnounceEnd, Goes, rows,
       execFrame, RowsTyped, ExecPC, CancelPC, Generating, Ended,
       Statuses, Processes
  <2>18. CASE CompleteRun
    BY <2>18, <1>0, RunStreamAssumption DEF CompleteRun, Goes, EndRun,
       watch, execFrame, RowsTyped, ExecPC, CancelPC, Generating, Ended,
       Statuses, Processes
  <2>19. CASE CatchCancelled
    BY <2>19, <1>0, RunStreamAssumption DEF CatchCancelled, Goes, rows,
       watch, execFrame, RowsTyped, ExecPC, CancelPC, Generating, Ended,
       Statuses, Processes
  <2>20. CASE CatchError
    BY <2>20, <1>0, RunStreamAssumption DEF CatchError, Goes, rows,
       execFrame, RowsTyped, ExecPC, CancelPC, Generating, Ended,
       Statuses, Processes
  <2>21. CASE FailSteps
    BY <2>21, <1>0, RunStreamAssumption DEF FailSteps, Goes, execFrame,
       RowsTyped, ExecPC, CancelPC, Generating, Ended, Statuses,
       Processes
  <2>22. CASE FailMessage
    <3>1. msg' \in [status : Statuses, text : Texts]
      BY <2>22, <1>0, TextsAre DEF FailMessage, RowsTyped, Statuses
    <3>2. exec' \in [pc : ExecPC, deltas : 0..MaxDeltas, version : Int]
      BY <2>22, <1>0 DEF FailMessage, Goes, RowsTyped, ExecPC
    <3> QED
      BY <2>22, <1>0, <3>1, <3>2 DEF FailMessage, watch, execFrame, RowsTyped
  <2>23. CASE FailRun
    BY <2>23, <1>0, RunStreamAssumption DEF FailRun, Goes, EndRun,
       watch, execFrame, RowsTyped, ExecPC, CancelPC, Generating, Ended,
       Statuses, Processes
  <2>24. CASE RemoveDraft
    BY <2>24, <1>0, RunStreamAssumption DEF RemoveDraft, Goes, watch,
       execFrame, RowsTyped, ExecPC, CancelPC, Generating, Ended,
       Statuses, Processes
  <2> QED
    BY <1>1, <2>1, <2>2, <2>3, <2>4, <2>5, <2>6, <2>7, <2>8, <2>9,
       <2>10, <2>11, <2>12, <2>13, <2>14, <2>15, <2>16, <2>17, <2>18,
       <2>19, <2>20, <2>21, <2>22, <2>23, <2>24 DEF Execute
<1>2. CASE RequestCancel
  <2>1. cancel' = [cancel EXCEPT !["api"] =
                     [cancel["api"] EXCEPT !.pc = "flag", !.linked = run.linked]]
    BY <1>2, <1>0 DEF RequestCancel, RowsTyped, Processes
  <2>2. [cancel["api"] EXCEPT !.pc = "flag", !.linked = run.linked]
          \in [pc : CancelPC, linked : BOOLEAN, text : Texts]
    BY <1>0 DEF RowsTyped, Processes, CancelPC
  <2> QED
    BY <1>2, <1>0, <2>1, <2>2 DEF RequestCancel, rows, watch, cancelFrame,
       RowsTyped, Processes
<1>3. CASE Route
  BY <1>0, <1>3 DEF Route, Subscribe, ReadRun, ReadRow, ReadDraft, WriteSnapshot,
     LoadSession, rows, RowsTyped
<1>4. CASE Reload
  BY <1>4, <1>0, RunStreamAssumption DEF Reload, rows, RowsTyped, ExecPC,
     CancelPC, Generating, Ended, Statuses, Processes
<1>5. ASSUME NEW p \in Processes, Cancel(p) PROVE RowsTyped'
  <2>1. CASE SetFlag(p)
    BY <2>1, <1>0, RunStreamAssumption DEF SetFlag, CancelGoes, watch,
       cancelFrame, RowsTyped, ExecPC, CancelPC, Generating, Ended,
       Statuses, Processes
  <2>2. CASE ReadMessage(p)
    BY <2>2, <1>0, RunStreamAssumption DEF ReadMessage, rows, watch,
       cancelFrame, RowsTyped, ExecPC, CancelPC, Generating, Ended,
       Statuses, Processes
  <2>3. CASE CancelSteps(p)
    <3>1. cancel' \in [Processes -> [pc : CancelPC, linked : BOOLEAN, text : Texts]]
      BY <2>3, <1>0 DEF CancelSteps, CancelGoes, RowsTyped, CancelPC
    <3> QED
      BY <2>3, <1>0, <3>1 DEF CancelSteps, cancelFrame, RowsTyped
  <2>4. CASE CancelMessage(p)
    BY <2>4, <1>0, RunStreamAssumption DEF CancelMessage, CancelGoes,
       watch, cancelFrame, RowsTyped, ExecPC, CancelPC, Generating,
       Ended, Statuses, Processes
  <2>5. CASE AnnounceMessageCancelled(p)
    BY <2>5, <1>0, RunStreamAssumption DEF AnnounceMessageCancelled,
       CancelGoes, rows, cancelFrame, RowsTyped, ExecPC, CancelPC,
       Generating, Ended, Statuses, Processes
  <2>6. CASE CancelDraft(p)
    <3>1. cancel' \in [Processes -> [pc : CancelPC, linked : BOOLEAN, text : Texts]]
      BY <2>6, <1>0 DEF CancelDraft, CancelGoes, RowsTyped, CancelPC
    <3> QED
      BY <2>6, <1>0, <3>1 DEF CancelDraft, cancelFrame, watch, RowsTyped
  <2>7. CASE AnnounceCancelled(p)
    BY <2>7, <1>0, RunStreamAssumption DEF AnnounceCancelled,
       CancelGoes, rows, cancelFrame, RowsTyped, ExecPC, CancelPC,
       Generating, Ended, Statuses, Processes
  <2>8. CASE CancelRun(p)
    BY <2>8, <1>0, RunStreamAssumption DEF CancelRun, CancelGoes,
       EndRun, watch, cancelFrame, RowsTyped, ExecPC, CancelPC,
       Generating, Ended, Statuses, Processes
  <2> QED
    BY <1>5, <2>1, <2>2, <2>3, <2>4, <2>5, <2>6, <2>7, <2>8 DEF Cancel
<1>6. ASSUME NEW p \in Processes, Deliver(p) PROVE RowsTyped'
  BY <1>6, <1>0, RunStreamAssumption DEF Deliver, rows, RowsTyped, ExecPC,
     CancelPC, Generating, Ended, Statuses, Processes
<1>7. CASE UNCHANGED vars
  BY <1>7, <1>0, RunStreamAssumption DEF vars, rows, watch, RowsTyped,
     ExecPC, CancelPC, Generating, Ended, Statuses, Processes
<1> QED
  BY <1>1, <1>2, <1>3, <1>4, <1>5, <1>6, <1>7 DEF Next, Done

LEMMA DraftStep == RowsIInv /\ [Next]_vars => DraftTold'
<1> SUFFICES ASSUME RowsIInv, [Next]_vars PROVE DraftTold'
  OBVIOUS
<1>0. RowsTyped /\ DraftTold
  BY DEF RowsIInv
<1>1. CASE Execute
  <2>1. CASE CreateMessage
    BY <2>1, <1>0 DEF CreateMessage, Goes, watch, execFrame, RowsTyped,
       DraftTold, BeforeText, Generating
  <2>2. CASE EnsureDraft
    BY <2>2, <1>0 DEF EnsureDraft, Goes, watch, execFrame, RowsTyped,
       DraftTold, BeforeText, Generating, Streamed
  <2>3. CASE LinkMessage
    BY <2>3, <1>0 DEF LinkMessage, Goes, watch, execFrame, RowsTyped,
       DraftTold, BeforeText, Generating
  <2>4. CASE AnnounceMessage
    BY <2>4, <1>0 DEF AnnounceMessage, Goes, rows, execFrame, RowsTyped,
       DraftTold, BeforeText, Generating
  <2>5. CASE AppendDelta
    BY <2>5, <1>0, RunStreamAssumption, StreamedIs DEF AppendDelta,
       watch, execFrame, RowsTyped, DraftTold, BeforeText, Generating
  <2>6. CASE EmitDelta
    BY <2>6, <1>0, RunStreamAssumption DEF EmitDelta, rows, execFrame,
       RowsTyped, DraftTold, BeforeText, Generating
  <2>7. CASE OpenStep
    BY <2>7, <1>0 DEF OpenStep, Goes, GuardPasses, execFrame, Aborted,
       RowsTyped, DraftTold, BeforeText, Generating
  <2>8. CASE GuardAborts
    BY <2>8, <1>0 DEF GuardAborts, Goes, Aborted, rows, watch,
       execFrame, RowsTyped, DraftTold, BeforeText, Generating
  <2>9. CASE GuardCancels
    BY <2>9, <1>0 DEF GuardCancels, Goes, Aborted, rows, watch,
       RowsTyped, DraftTold, BeforeText, Generating
  <2>10. CASE GuardCancelled
    BY <2>10, <1>0 DEF GuardCancelled, Goes, rows, watch, execFrame,
       RowsTyped, DraftTold, BeforeText, Generating
  <2>11. CASE AgentFails
    BY <2>11, <1>0 DEF AgentFails, Goes, rows, watch, execFrame,
       RowsTyped, DraftTold, BeforeText, Generating
  <2>12. CASE AgentAnswers
    BY <2>12, <1>0 DEF AgentAnswers, Goes, GuardPasses, rows, watch,
       execFrame, Aborted, RowsTyped, DraftTold, BeforeText, Generating
  <2>13. CASE SetAnswerText
    <3>0. /\ draft.version = exec.deltas /\ draft.text = Streamed(draft.version)
          /\ draft.version \in Nat
      BY <2>13, <1>0 DEF SetAnswerText, DraftTold, BeforeText, RowsTyped
    <3>1. exec'.pc = "emitText" /\ exec'.deltas = exec.deltas
      BY <2>13, <1>0 DEF SetAnswerText, RowsTyped
    <3>2. \/ /\ draft'.version = exec.deltas + 1 /\ draft'.text = Answer
             /\ exec'.version = draft'.version
          \/ draft' = draft /\ exec'.version = NoVersion
      <4>1. CASE msg.status = "running"
        <5>1. /\ draft' = [draft EXCEPT !.version = @ + 1, !.text = Answer]
              /\ exec' = [exec EXCEPT !.pc = "emitText",
                                      !.version = draft.version + 1]
          BY <2>13, <4>1 DEF SetAnswerText
        <5>2. draft'.version = draft.version + 1 /\ draft'.text = Answer
          BY <1>0, <5>1 DEF RowsTyped
        <5>3. exec'.version = draft.version + 1
          BY <1>0, <5>1 DEF RowsTyped
        <5> QED
          BY <3>0, <5>2, <5>3
      <4>2. CASE msg.status # "running"
        BY <2>13, <1>0, <3>0, <4>2 DEF SetAnswerText, RowsTyped
      <4> QED
        BY <4>1, <4>2
    <3> QED
      BY <3>0, <3>1, <3>2 DEF DraftTold, BeforeText, Generating
  <2>14. CASE EmitText
    BY <2>14, <1>0 DEF EmitText, Goes, rows, execFrame, RowsTyped,
       DraftTold, BeforeText, Generating
  <2>15. CASE CloseSteps
    BY <2>15, <1>0 DEF CloseSteps, Goes, execFrame, RowsTyped,
       DraftTold, BeforeText, Generating
  <2>16. CASE CompleteMessage
    BY <2>16, <1>0 DEF CompleteMessage, Goes, watch, execFrame,
       RowsTyped, DraftTold, BeforeText, Generating
  <2>17. CASE AnnounceEnd
    BY <2>17, <1>0 DEF AnnounceEnd, Goes, rows, execFrame, RowsTyped,
       DraftTold, BeforeText, Generating
  <2>18. CASE CompleteRun
    BY <2>18, <1>0 DEF CompleteRun, Goes, EndRun, watch, execFrame,
       RowsTyped, DraftTold, BeforeText, Generating
  <2>19. CASE CatchCancelled
    BY <2>19, <1>0 DEF CatchCancelled, Goes, rows, watch, execFrame,
       RowsTyped, DraftTold, BeforeText, Generating
  <2>20. CASE CatchError
    BY <2>20, <1>0 DEF CatchError, Goes, rows, execFrame, RowsTyped,
       DraftTold, BeforeText, Generating
  <2>21. CASE FailSteps
    BY <2>21, <1>0 DEF FailSteps, Goes, execFrame, RowsTyped, DraftTold,
       BeforeText, Generating
  <2>22. CASE FailMessage
    BY <2>22, <1>0 DEF FailMessage, Goes, watch, execFrame, RowsTyped,
       DraftTold, BeforeText, Generating
  <2>23. CASE FailRun
    BY <2>23, <1>0 DEF FailRun, Goes, EndRun, watch, execFrame,
       RowsTyped, DraftTold, BeforeText, Generating
  <2>24. CASE RemoveDraft
    BY <2>24, <1>0 DEF RemoveDraft, Goes, watch, execFrame, RowsTyped,
       DraftTold, BeforeText, Generating
  <2> QED
    BY <1>1, <2>1, <2>2, <2>3, <2>4, <2>5, <2>6, <2>7, <2>8, <2>9,
       <2>10, <2>11, <2>12, <2>13, <2>14, <2>15, <2>16, <2>17, <2>18,
       <2>19, <2>20, <2>21, <2>22, <2>23, <2>24 DEF Execute
<1>2. CASE RequestCancel
  BY <1>2, <1>0 DEF RequestCancel, rows, watch, cancelFrame, RowsTyped,
     DraftTold, BeforeText, Generating
<1>3. CASE Route
  BY <1>0, <1>3 DEF Route, Subscribe, ReadRun, ReadRow, ReadDraft, WriteSnapshot,
     LoadSession, rows, DraftTold, BeforeText, Generating
<1>4. CASE Reload
  BY <1>4, <1>0 DEF Reload, rows, RowsTyped, DraftTold, BeforeText,
     Generating
<1>5. ASSUME NEW p \in Processes, Cancel(p) PROVE DraftTold'
  <2>1. CASE SetFlag(p)
    BY <2>1, <1>0 DEF SetFlag, CancelGoes, watch, cancelFrame,
       RowsTyped, DraftTold, BeforeText, Generating
  <2>2. CASE ReadMessage(p)
    BY <2>2, <1>0 DEF ReadMessage, rows, watch, cancelFrame, RowsTyped,
       DraftTold, BeforeText, Generating
  <2>3. CASE CancelSteps(p)
    BY <2>3, <1>0 DEF CancelSteps, CancelGoes, cancelFrame, RowsTyped,
       DraftTold, BeforeText, Generating
  <2>4. CASE CancelMessage(p)
    BY <2>4, <1>0 DEF CancelMessage, CancelGoes, watch, cancelFrame,
       RowsTyped, DraftTold, BeforeText, Generating
  <2>5. CASE AnnounceMessageCancelled(p)
    BY <2>5, <1>0 DEF AnnounceMessageCancelled, CancelGoes, rows,
       cancelFrame, RowsTyped, DraftTold, BeforeText, Generating
  <2>6. CASE CancelDraft(p)
    BY <2>6, <1>0 DEF CancelDraft, CancelGoes, watch, cancelFrame,
       RowsTyped, DraftTold, BeforeText, Generating
  <2>7. CASE AnnounceCancelled(p)
    BY <2>7, <1>0 DEF AnnounceCancelled, CancelGoes, rows, cancelFrame,
       RowsTyped, DraftTold, BeforeText, Generating
  <2>8. CASE CancelRun(p)
    BY <2>8, <1>0 DEF CancelRun, CancelGoes, EndRun, watch, cancelFrame,
       RowsTyped, DraftTold, BeforeText, Generating
  <2> QED
    BY <1>5, <2>1, <2>2, <2>3, <2>4, <2>5, <2>6, <2>7, <2>8 DEF Cancel
<1>6. ASSUME NEW p \in Processes, Deliver(p) PROVE DraftTold'
  BY <1>6, <1>0 DEF Deliver, rows, RowsTyped, DraftTold, BeforeText,
     Generating
<1>7. CASE UNCHANGED vars
  BY <1>7, <1>0 DEF vars, rows, watch, RowsTyped, DraftTold, BeforeText,
     Generating
<1> QED
  BY <1>1, <1>2, <1>3, <1>4, <1>5, <1>6, <1>7 DEF Next, Done

LEMMA EndsStep == RowsIInv /\ [Next]_vars => EndsTold'
<1> SUFFICES ASSUME RowsIInv, [Next]_vars PROVE EndsTold'
  OBVIOUS
<1>0. RowsTyped /\ EndsTold
  BY DEF RowsIInv
<1>1. CASE Execute
  <2>1. CASE CreateMessage
    <3>1. msg'.text \in Plain
      BY <2>1 DEF CreateMessage, Plain
    <3>2. exec'.pc = "draft" /\ msg'.status = "running"
      BY <2>1, <1>0 DEF CreateMessage, Goes, RowsTyped
    <3>3. run.status = "running" \/ ~NobodyCancels
      BY <2>1, <1>0 DEF CreateMessage, Goes, EndsTold
    <3>4. msg.status # "cancelled"
      BY <2>1, <1>0 DEF CreateMessage, Goes, EndsTold
    <3> QED
      BY <2>1, <1>0, <3>1, <3>2, <3>3, <3>4 DEF CreateMessage, Goes, watch,
         execFrame, EndsTold, NobodyCancels
  <2>2. CASE EnsureDraft
    BY <2>2, <1>0, RunStreamAssumption DEF EnsureDraft, Goes, watch,
       execFrame, RowsTyped, EndsTold, NobodyCancels, Processes, Plain,
       Ended
  <2>3. CASE LinkMessage
    BY <2>3, <1>0, RunStreamAssumption DEF LinkMessage, Goes, watch,
       execFrame, RowsTyped, EndsTold, NobodyCancels, Processes, Plain,
       Ended
  <2>4. CASE AnnounceMessage
    BY <2>4, <1>0, RunStreamAssumption DEF AnnounceMessage, Goes, rows,
       execFrame, RowsTyped, EndsTold, NobodyCancels, Processes, Plain,
       Ended
  <2>5. CASE AppendDelta
    BY <2>5, <1>0, RunStreamAssumption DEF AppendDelta, watch,
       execFrame, RowsTyped, EndsTold, NobodyCancels, Processes, Plain,
       Ended
  <2>6. CASE EmitDelta
    BY <2>6, <1>0, RunStreamAssumption DEF EmitDelta, rows, execFrame,
       RowsTyped, EndsTold, NobodyCancels, Processes, Plain, Ended
  <2>7. CASE OpenStep
    BY <2>7, <1>0, RunStreamAssumption DEF OpenStep, Goes, GuardPasses,
       execFrame, Aborted, RowsTyped, EndsTold, NobodyCancels,
       Processes, Plain, Ended
  <2>8. CASE GuardAborts
    BY <2>8, <1>0, RunStreamAssumption DEF GuardAborts, Goes, Aborted,
       rows, watch, execFrame, RowsTyped, EndsTold, NobodyCancels,
       Processes, Plain, Ended
  <2>9. CASE GuardCancels
    BY <2>9, <1>0, RunStreamAssumption DEF GuardCancels, Goes, Aborted,
       rows, watch, RowsTyped, EndsTold, NobodyCancels, Processes,
       Plain, Ended
  <2>10. CASE GuardCancelled
    BY <2>10, <1>0, RunStreamAssumption DEF GuardCancelled, Goes, rows,
       watch, execFrame, RowsTyped, EndsTold, NobodyCancels, Processes,
       Plain, Ended
  <2>11. CASE AgentFails
    BY <2>11, <1>0, RunStreamAssumption DEF AgentFails, Goes, rows,
       watch, execFrame, RowsTyped, EndsTold, NobodyCancels, Processes,
       Plain, Ended
  <2>12. CASE AgentAnswers
    BY <2>12, <1>0, RunStreamAssumption DEF AgentAnswers, Goes,
       GuardPasses, rows, watch, execFrame, Aborted, RowsTyped,
       EndsTold, NobodyCancels, Processes, Plain, Ended
  <2>13. CASE SetAnswerText
    BY <2>13, <1>0, RunStreamAssumption DEF SetAnswerText, watch,
       execFrame, RowsTyped, EndsTold, NobodyCancels, Processes, Plain,
       Ended
  <2>14. CASE EmitText
    BY <2>14, <1>0, RunStreamAssumption DEF EmitText, Goes, rows,
       execFrame, RowsTyped, EndsTold, NobodyCancels, Processes, Plain,
       Ended
  <2>15. CASE CloseSteps
    BY <2>15, <1>0, RunStreamAssumption DEF CloseSteps, Goes, execFrame,
       RowsTyped, EndsTold, NobodyCancels, Processes, Plain, Ended
  <2>16. CASE CompleteMessage
    BY <2>16, <1>0, RunStreamAssumption DEF CompleteMessage, Goes,
       watch, execFrame, RowsTyped, EndsTold, NobodyCancels, Processes,
       Plain, Ended
  <2>17. CASE AnnounceEnd
    BY <2>17, <1>0, RunStreamAssumption DEF AnnounceEnd, Goes, rows,
       execFrame, RowsTyped, EndsTold, NobodyCancels, Processes, Plain,
       Ended
  <2>18. CASE CompleteRun
    BY <2>18, <1>0, RunStreamAssumption DEF CompleteRun, Goes, EndRun,
       watch, execFrame, RowsTyped, EndsTold, NobodyCancels, Processes,
       Plain, Ended
  <2>19. CASE CatchCancelled
    BY <2>19, <1>0, RunStreamAssumption DEF CatchCancelled, Goes, rows,
       watch, execFrame, RowsTyped, EndsTold, NobodyCancels, Processes,
       Plain, Ended
  <2>20. CASE CatchError
    BY <2>20, <1>0, RunStreamAssumption DEF CatchError, Goes, rows,
       execFrame, RowsTyped, EndsTold, NobodyCancels, Processes, Plain,
       Ended
  <2>21. CASE FailSteps
    BY <2>21, <1>0, RunStreamAssumption DEF FailSteps, Goes, execFrame,
       RowsTyped, EndsTold, NobodyCancels, Processes, Plain, Ended
  <2>22. CASE FailMessage
    BY <2>22, <1>0, RunStreamAssumption DEF FailMessage, Goes, watch,
       execFrame, RowsTyped, EndsTold, NobodyCancels, Processes, Plain,
       Ended
  <2>23. CASE FailRun
    BY <2>23, <1>0, RunStreamAssumption DEF FailRun, Goes, EndRun,
       watch, execFrame, RowsTyped, EndsTold, NobodyCancels, Processes,
       Plain, Ended
  <2>24. CASE RemoveDraft
    BY <2>24, <1>0, RunStreamAssumption DEF RemoveDraft, Goes, watch,
       execFrame, RowsTyped, EndsTold, NobodyCancels, Processes, Plain,
       Ended
  <2> QED
    BY <1>1, <2>1, <2>2, <2>3, <2>4, <2>5, <2>6, <2>7, <2>8, <2>9,
       <2>10, <2>11, <2>12, <2>13, <2>14, <2>15, <2>16, <2>17, <2>18,
       <2>19, <2>20, <2>21, <2>22, <2>23, <2>24 DEF Execute
<1>2. CASE RequestCancel
  BY <1>2, <1>0, RunStreamAssumption DEF RequestCancel, rows, watch,
     cancelFrame, RowsTyped, EndsTold, NobodyCancels, Processes, Plain,
     Ended
<1>3. CASE Route
  BY <1>0, <1>3 DEF Route, Subscribe, ReadRun, ReadRow, ReadDraft, WriteSnapshot,
     LoadSession, rows, EndsTold, NobodyCancels
<1>4. CASE Reload
  BY <1>4, <1>0, RunStreamAssumption DEF Reload, rows, RowsTyped,
     EndsTold, NobodyCancels, Processes, Plain, Ended
<1>5. ASSUME NEW p \in Processes, Cancel(p) PROVE EndsTold'
  <2>1. CASE SetFlag(p)
    BY <2>1, <1>0, RunStreamAssumption DEF SetFlag, CancelGoes, watch,
       cancelFrame, RowsTyped, EndsTold, NobodyCancels, Processes,
       Plain, Ended
  <2>2. CASE ReadMessage(p)
    BY <2>2, <1>0, RunStreamAssumption DEF ReadMessage, rows, watch,
       cancelFrame, RowsTyped, EndsTold, NobodyCancels, Processes,
       Plain, Ended
  <2>3. CASE CancelSteps(p)
    BY <2>3, <1>0, RunStreamAssumption DEF CancelSteps, CancelGoes,
       cancelFrame, RowsTyped, EndsTold, NobodyCancels, Processes,
       Plain, Ended
  <2>4. CASE CancelMessage(p)
    BY <2>4, <1>0, RunStreamAssumption DEF CancelMessage, CancelGoes,
       watch, cancelFrame, RowsTyped, EndsTold, NobodyCancels,
       Processes, Plain, Ended
  <2>5. CASE AnnounceMessageCancelled(p)
    BY <2>5, <1>0, RunStreamAssumption DEF AnnounceMessageCancelled,
       CancelGoes, rows, cancelFrame, RowsTyped, EndsTold,
       NobodyCancels, Processes, Plain, Ended
  <2>6. CASE CancelDraft(p)
    BY <2>6, <1>0, RunStreamAssumption DEF CancelDraft, CancelGoes,
       watch, cancelFrame, RowsTyped, EndsTold, NobodyCancels,
       Processes, Plain, Ended
  <2>7. CASE AnnounceCancelled(p)
    BY <2>7, <1>0, RunStreamAssumption DEF AnnounceCancelled,
       CancelGoes, rows, cancelFrame, RowsTyped, EndsTold,
       NobodyCancels, Processes, Plain, Ended
  <2>8. CASE CancelRun(p)
    BY <2>8, <1>0, RunStreamAssumption DEF CancelRun, CancelGoes,
       EndRun, watch, cancelFrame, RowsTyped, EndsTold, NobodyCancels,
       Processes, Plain, Ended
  <2> QED
    BY <1>5, <2>1, <2>2, <2>3, <2>4, <2>5, <2>6, <2>7, <2>8 DEF Cancel
<1>6. ASSUME NEW p \in Processes, Deliver(p) PROVE EndsTold'
  BY <1>6, <1>0, RunStreamAssumption DEF Deliver, rows, RowsTyped,
     EndsTold, NobodyCancels, Processes, Plain, Ended
<1>7. CASE UNCHANGED vars
  BY <1>7, <1>0, RunStreamAssumption DEF vars, rows, watch, RowsTyped,
     EndsTold, NobodyCancels, Processes, Plain, Ended
<1> QED
  BY <1>1, <1>2, <1>3, <1>4, <1>5, <1>6, <1>7 DEF Next, Done

LEMMA WorkerStep == RowsIInv /\ [Next]_vars => WorkerTold'
<1> SUFFICES ASSUME RowsIInv, [Next]_vars PROVE WorkerTold'
  OBVIOUS
<1>0. RowsTyped /\ DraftTold /\ EndsTold /\ WorkerTold
  BY DEF RowsIInv
<1>1. CASE Execute
  <2>1. CASE CreateMessage
    BY <2>1, <1>0, RunStreamAssumption DEF CreateMessage, Goes, watch,
       execFrame, RowsTyped, WorkerTold, Processes
  <2>2. CASE EnsureDraft
    BY <2>2, <1>0, RunStreamAssumption DEF EnsureDraft, Goes, watch,
       execFrame, RowsTyped, WorkerTold, Processes
  <2>3. CASE LinkMessage
    BY <2>3, <1>0, RunStreamAssumption DEF LinkMessage, Goes, watch,
       execFrame, RowsTyped, WorkerTold, Processes
  <2>4. CASE AnnounceMessage
    BY <2>4, <1>0, RunStreamAssumption DEF AnnounceMessage, Goes, rows,
       execFrame, RowsTyped, WorkerTold, Processes
  <2>5. CASE AppendDelta
    <3>1. draft.text = Streamed(draft.version) /\ draft.version \in Nat
          /\ exec.deltas = draft.version
      BY <2>5, <1>0 DEF AppendDelta, DraftTold, BeforeText, Generating, RowsTyped
    <3>2. draft' = [draft EXCEPT !.version = @ + 1,
                                  !.text = Streamed(draft.version + 1)]
      BY <2>5, <3>1, StreamedIs DEF AppendDelta
    <3> QED
      BY <2>5, <1>0, <3>2 DEF AppendDelta, watch, execFrame, RowsTyped, WorkerTold,
         Processes
  <2>6. CASE EmitDelta
    BY <2>6, <1>0, RunStreamAssumption DEF EmitDelta, rows, execFrame,
       RowsTyped, WorkerTold, Processes
  <2>7. CASE OpenStep
    BY <2>7, <1>0, RunStreamAssumption DEF OpenStep, Goes, GuardPasses,
       execFrame, Aborted, RowsTyped, WorkerTold, Processes
  <2>8. CASE GuardAborts
    BY <2>8, <1>0, RunStreamAssumption DEF GuardAborts, Goes, Aborted,
       rows, watch, execFrame, RowsTyped, WorkerTold, Processes
  <2>9. CASE GuardCancels
    BY <2>9, <1>0, RunStreamAssumption DEF GuardCancels, Goes, Aborted,
       rows, watch, RowsTyped, WorkerTold, Processes
  <2>10. CASE GuardCancelled
    BY <2>10, <1>0, RunStreamAssumption DEF GuardCancelled, Goes, rows,
       watch, execFrame, RowsTyped, WorkerTold, Processes
  <2>11. CASE AgentFails
    BY <2>11, <1>0, RunStreamAssumption DEF AgentFails, Goes, rows,
       watch, execFrame, RowsTyped, WorkerTold, Processes
  <2>12. CASE AgentAnswers
    BY <2>12, <1>0, RunStreamAssumption DEF AgentAnswers, Goes,
       GuardPasses, rows, watch, execFrame, Aborted, RowsTyped,
       WorkerTold, Processes
  <2>13. CASE SetAnswerText
    <3>0. draft.version = exec.deltas
      BY <2>13, <1>0 DEF SetAnswerText, DraftTold, BeforeText, RowsTyped
    <3>1. CASE msg.status = "running"
      <4>1. /\ draft' = [draft EXCEPT !.version = @ + 1, !.text = Answer]
            /\ exec' = [exec EXCEPT !.pc = "emitText", !.version = draft.version + 1]
            /\ UNCHANGED msg
        BY <2>13, <3>1 DEF SetAnswerText
      <4>2. /\ draft'.text = Answer /\ draft'.version = exec'.deltas + 1
            /\ exec'.version = draft'.version /\ draft'.exists = draft.exists
            /\ exec'.pc = "emitText"
        BY <1>0, <3>0, <4>1 DEF RowsTyped
      <4> QED
        BY <2>13, <1>0, <3>1, <4>1, <4>2 DEF SetAnswerText, watch, execFrame,
           WorkerTold
    <3>2. CASE msg.status # "running"
      BY <2>13, <1>0, <3>2 DEF SetAnswerText, watch, execFrame, RowsTyped, WorkerTold
    <3> QED
      BY <3>1, <3>2
  <2>14. CASE EmitText
    BY <2>14, <1>0, RunStreamAssumption DEF EmitText, Goes, rows,
       execFrame, RowsTyped, WorkerTold, Processes
  <2>15. CASE CloseSteps
    BY <2>15, <1>0, RunStreamAssumption DEF CloseSteps, Goes, execFrame,
       RowsTyped, WorkerTold, Processes
  <2>16. CASE CompleteMessage
    BY <2>16, <1>0, RunStreamAssumption DEF CompleteMessage, Goes,
       watch, execFrame, RowsTyped, WorkerTold, Processes
  <2>17. CASE AnnounceEnd
    BY <2>17, <1>0, RunStreamAssumption DEF AnnounceEnd, Goes, rows,
       execFrame, RowsTyped, WorkerTold, Processes
  <2>18. CASE CompleteRun
    BY <2>18, <1>0, RunStreamAssumption DEF CompleteRun, Goes, EndRun,
       watch, execFrame, RowsTyped, WorkerTold, Processes
  <2>19. CASE CatchCancelled
    BY <2>19, <1>0, RunStreamAssumption DEF CatchCancelled, Goes, rows,
       watch, execFrame, RowsTyped, WorkerTold, Processes
  <2>20. CASE CatchError
    BY <2>20, <1>0, RunStreamAssumption DEF CatchError, Goes, rows,
       execFrame, RowsTyped, WorkerTold, Processes
  <2>21. CASE FailSteps
    BY <2>21, <1>0, RunStreamAssumption DEF FailSteps, Goes, execFrame,
       RowsTyped, WorkerTold, Processes
  <2>22. CASE FailMessage
    BY <2>22, <1>0, RunStreamAssumption DEF FailMessage, Goes, watch,
       execFrame, RowsTyped, WorkerTold, Processes
  <2>23. CASE FailRun
    BY <2>23, <1>0, RunStreamAssumption DEF FailRun, Goes, EndRun,
       watch, execFrame, RowsTyped, WorkerTold, Processes
  <2>24. CASE RemoveDraft
    BY <2>24, <1>0, RunStreamAssumption DEF RemoveDraft, Goes, watch,
       execFrame, RowsTyped, WorkerTold, Processes
  <2> QED
    BY <1>1, <2>1, <2>2, <2>3, <2>4, <2>5, <2>6, <2>7, <2>8, <2>9,
       <2>10, <2>11, <2>12, <2>13, <2>14, <2>15, <2>16, <2>17, <2>18,
       <2>19, <2>20, <2>21, <2>22, <2>23, <2>24 DEF Execute
<1>2. CASE RequestCancel
  BY <1>2, <1>0, RunStreamAssumption DEF RequestCancel, rows, watch,
     cancelFrame, RowsTyped, WorkerTold, Processes
<1>3. CASE Route
  BY <1>0, <1>3 DEF Route, Subscribe, ReadRun, ReadRow, ReadDraft, WriteSnapshot,
     LoadSession, rows, WorkerTold
<1>4. CASE Reload
  BY <1>4, <1>0, RunStreamAssumption DEF Reload, rows, RowsTyped,
     WorkerTold, Processes
<1>5. ASSUME NEW p \in Processes, Cancel(p) PROVE WorkerTold'
  <2>1. CASE SetFlag(p)
    BY <2>1, <1>0, RunStreamAssumption DEF SetFlag, CancelGoes, watch,
       cancelFrame, RowsTyped, WorkerTold, Processes
  <2>2. CASE ReadMessage(p)
    BY <2>2, <1>0, RunStreamAssumption DEF ReadMessage, rows, watch,
       cancelFrame, RowsTyped, WorkerTold, Processes
  <2>3. CASE CancelSteps(p)
    BY <2>3, <1>0, RunStreamAssumption DEF CancelSteps, CancelGoes,
       cancelFrame, RowsTyped, WorkerTold, Processes
  <2>4. CASE CancelMessage(p)
    BY <2>4, <1>0, RunStreamAssumption DEF CancelMessage, CancelGoes,
       watch, cancelFrame, RowsTyped, WorkerTold, Processes
  <2>5. CASE AnnounceMessageCancelled(p)
    BY <2>5, <1>0, RunStreamAssumption DEF AnnounceMessageCancelled,
       CancelGoes, rows, cancelFrame, RowsTyped, WorkerTold, Processes
  <2>6. CASE CancelDraft(p)
    BY <2>6, <1>0, RunStreamAssumption DEF CancelDraft, CancelGoes,
       watch, cancelFrame, RowsTyped, WorkerTold, Processes
  <2>7. CASE AnnounceCancelled(p)
    BY <2>7, <1>0, RunStreamAssumption DEF AnnounceCancelled,
       CancelGoes, rows, cancelFrame, RowsTyped, WorkerTold, Processes
  <2>8. CASE CancelRun(p)
    BY <2>8, <1>0, RunStreamAssumption DEF CancelRun, CancelGoes,
       EndRun, watch, cancelFrame, RowsTyped, WorkerTold, Processes
  <2> QED
    BY <1>5, <2>1, <2>2, <2>3, <2>4, <2>5, <2>6, <2>7, <2>8 DEF Cancel
<1>6. ASSUME NEW p \in Processes, Deliver(p) PROVE WorkerTold'
  BY <1>6, <1>0, RunStreamAssumption DEF Deliver, rows, RowsTyped,
     WorkerTold, Processes
<1>7. CASE UNCHANGED vars
  BY <1>7, <1>0, RunStreamAssumption DEF vars, rows, watch, RowsTyped,
     WorkerTold, Processes
<1> QED
  BY <1>1, <1>2, <1>3, <1>4, <1>5, <1>6, <1>7 DEF Next, Done


-----------------------------------------------------------------------------
(* How the rows move: forwards only.                                       *)

\* The last version of the draft that has been published.
Published == IF exec.pc \in {"emit", "emitText"} THEN draft.version - 1
                                                 ELSE draft.version

RowsMove ==
    /\ place' = place
    /\ draft'.version >= draft.version
    /\ exec'.deltas >= exec.deltas
    /\ msg.status \in Ended => msg'.status = msg.status
    /\ NobodyCancels' => NobodyCancels
    /\ exec'.pc \in Generating => exec.pc \in Generating

\* The same for the message of a worker that goes on running.
WorkerMoves ==
    place = "worker" /\ msg'.status = "running" =>
      /\ msg.status = "running"
      /\ Published' >= Published
      /\ exec.pc \in {"close", "settle"} =>
           draft' = draft /\ exec'.pc \in {"close", "settle"}
      /\ exec.pc = "settle" => exec'.pc = "settle"
      /\ \/ draft'.version = draft.version /\ draft'.text = draft.text
         \/ /\ draft'.version = draft.version + 1
            /\ draft.text = Streamed(draft.version)

LEMMA RowsMoveStep == RowsIInv /\ [Next]_vars => RowsMove
<1> SUFFICES ASSUME RowsIInv, [Next]_vars PROVE RowsMove
  OBVIOUS
<1>0. RowsTyped /\ DraftTold /\ EndsTold
  BY DEF RowsIInv
<1>00. /\ draft.version \in Int /\ exec.deltas \in Int /\ msg.status \in Statuses
  BY <1>0, RunStreamAssumption DEF RowsTyped
<1>1. CASE Execute
  <2>1. CASE CreateMessage
    BY <2>1, <1>0, <1>00 DEF CreateMessage, Goes, watch, execFrame,
       RowsTyped, RowsMove, Generating, Ended, NobodyCancels, Processes,
       EndsTold
  <2>2. CASE EnsureDraft
    BY <2>2, <1>0, <1>00 DEF EnsureDraft, Goes, watch, execFrame,
       RowsTyped, RowsMove, Generating, Ended, NobodyCancels, Processes,
       DraftTold, BeforeText
  <2>3. CASE LinkMessage
    BY <2>3, <1>0, <1>00 DEF LinkMessage, Goes, watch, execFrame,
       RowsTyped, RowsMove, Generating, Ended, NobodyCancels, Processes
  <2>4. CASE AnnounceMessage
    BY <2>4, <1>0, <1>00 DEF AnnounceMessage, Goes, rows, execFrame,
       RowsTyped, RowsMove, Generating, Ended, NobodyCancels, Processes
  <2>5. CASE AppendDelta
    BY <2>5, <1>0, <1>00 DEF AppendDelta, watch, execFrame, RowsTyped,
       RowsMove, Generating, Ended, NobodyCancels, Processes
  <2>6. CASE EmitDelta
    BY <2>6, <1>0, <1>00 DEF EmitDelta, rows, execFrame, RowsTyped,
       RowsMove, Generating, Ended, NobodyCancels, Processes
  <2>7. CASE OpenStep
    BY <2>7, <1>0, <1>00 DEF OpenStep, Goes, GuardPasses, execFrame,
       Aborted, RowsTyped, RowsMove, Generating, Ended, NobodyCancels,
       Processes
  <2>8. CASE GuardAborts
    BY <2>8, <1>0, <1>00 DEF GuardAborts, Goes, Aborted, rows, watch,
       execFrame, RowsTyped, RowsMove, Generating, Ended, NobodyCancels,
       Processes
  <2>9. CASE GuardCancels
    BY <2>9, <1>0, <1>00 DEF GuardCancels, Goes, Aborted, rows, watch,
       RowsTyped, RowsMove, Generating, Ended, NobodyCancels, Processes
  <2>10. CASE GuardCancelled
    BY <2>10, <1>0, <1>00 DEF GuardCancelled, Goes, rows, watch,
       execFrame, RowsTyped, RowsMove, Generating, Ended, NobodyCancels,
       Processes
  <2>11. CASE AgentFails
    BY <2>11, <1>0, <1>00 DEF AgentFails, Goes, rows, watch, execFrame,
       RowsTyped, RowsMove, Generating, Ended, NobodyCancels, Processes
  <2>12. CASE AgentAnswers
    BY <2>12, <1>0, <1>00 DEF AgentAnswers, Goes, GuardPasses, rows,
       watch, execFrame, Aborted, RowsTyped, RowsMove, Generating,
       Ended, NobodyCancels, Processes
  <2>13. CASE SetAnswerText
    <3>1. exec'.pc = "emitText" /\ exec'.deltas = exec.deltas
      BY <2>13, <1>0 DEF SetAnswerText, RowsTyped
    <3>2. msg'.status = msg.status
      BY <2>13, <1>0 DEF SetAnswerText, RowsTyped
    <3>3. draft'.version >= draft.version
      <4>1. CASE msg.status = "running"
        <5>1. draft' = [draft EXCEPT !.version = @ + 1, !.text = Answer]
          BY <2>13, <4>1 DEF SetAnswerText
        <5>2. draft'.version = draft.version + 1
          BY <1>0, <5>1 DEF RowsTyped
        <5> QED
          BY <1>00, <5>2
      <4>2. CASE msg.status # "running"
        BY <2>13, <1>00, <4>2 DEF SetAnswerText
      <4> QED
        BY <4>1, <4>2
    <3> QED
      BY <2>13, <1>00, <3>1, <3>2, <3>3 DEF SetAnswerText, watch, execFrame,
         RowsMove, Generating, NobodyCancels
  <2>14. CASE EmitText
    BY <2>14, <1>0, <1>00 DEF EmitText, Goes, rows, execFrame,
       RowsTyped, RowsMove, Generating, Ended, NobodyCancels, Processes
  <2>15. CASE CloseSteps
    BY <2>15, <1>0, <1>00 DEF CloseSteps, Goes, execFrame, RowsTyped,
       RowsMove, Generating, Ended, NobodyCancels, Processes
  <2>16. CASE CompleteMessage
    BY <2>16, <1>0, <1>00 DEF CompleteMessage, Goes, watch, execFrame,
       RowsTyped, RowsMove, Generating, Ended, NobodyCancels, Processes
  <2>17. CASE AnnounceEnd
    BY <2>17, <1>0, <1>00 DEF AnnounceEnd, Goes, rows, execFrame,
       RowsTyped, RowsMove, Generating, Ended, NobodyCancels, Processes
  <2>18. CASE CompleteRun
    BY <2>18, <1>0, <1>00 DEF CompleteRun, Goes, EndRun, watch,
       execFrame, RowsTyped, RowsMove, Generating, Ended, NobodyCancels,
       Processes
  <2>19. CASE CatchCancelled
    BY <2>19, <1>0, <1>00 DEF CatchCancelled, Goes, rows, watch,
       execFrame, RowsTyped, RowsMove, Generating, Ended, NobodyCancels,
       Processes
  <2>20. CASE CatchError
    BY <2>20, <1>0, <1>00 DEF CatchError, Goes, rows, execFrame,
       RowsTyped, RowsMove, Generating, Ended, NobodyCancels, Processes
  <2>21. CASE FailSteps
    BY <2>21, <1>0, <1>00 DEF FailSteps, Goes, execFrame, RowsTyped,
       RowsMove, Generating, Ended, NobodyCancels, Processes
  <2>22. CASE FailMessage
    BY <2>22, <1>0, <1>00 DEF FailMessage, Goes, watch, execFrame,
       RowsTyped, RowsMove, Generating, Ended, NobodyCancels, Processes
  <2>23. CASE FailRun
    BY <2>23, <1>0, <1>00 DEF FailRun, Goes, EndRun, watch, execFrame,
       RowsTyped, RowsMove, Generating, Ended, NobodyCancels, Processes
  <2>24. CASE RemoveDraft
    BY <2>24, <1>0, <1>00 DEF RemoveDraft, Goes, watch, execFrame,
       RowsTyped, RowsMove, Generating, Ended, NobodyCancels, Processes
  <2> QED
    BY <1>1, <2>1, <2>2, <2>3, <2>4, <2>5, <2>6, <2>7, <2>8, <2>9,
       <2>10, <2>11, <2>12, <2>13, <2>14, <2>15, <2>16, <2>17, <2>18,
       <2>19, <2>20, <2>21, <2>22, <2>23, <2>24 DEF Execute
<1>2. CASE RequestCancel
  BY <1>2, <1>0, <1>00 DEF RequestCancel, rows, watch, cancelFrame,
     RowsTyped, RowsMove, Generating, Ended, NobodyCancels, Processes
<1>3. CASE Route
  BY <1>0, <1>00, <1>3 DEF Route, Subscribe, ReadRun, ReadRow, ReadDraft,
     WriteSnapshot, LoadSession, rows, RowsMove, NobodyCancels
<1>4. CASE Reload
  BY <1>4, <1>0, <1>00 DEF Reload, rows, RowsTyped, RowsMove, Generating,
     Ended, NobodyCancels, Processes
<1>5. ASSUME NEW p \in Processes, Cancel(p) PROVE RowsMove
  <2>1. CASE SetFlag(p)
    BY <2>1, <1>0, <1>00 DEF SetFlag, CancelGoes, watch, cancelFrame,
       RowsTyped, RowsMove, Generating, Ended, NobodyCancels, Processes
  <2>2. CASE ReadMessage(p)
    BY <2>2, <1>0, <1>00 DEF ReadMessage, rows, watch, cancelFrame,
       RowsTyped, RowsMove, Generating, Ended, NobodyCancels, Processes
  <2>3. CASE CancelSteps(p)
    BY <2>3, <1>0, <1>00 DEF CancelSteps, CancelGoes, cancelFrame,
       RowsTyped, RowsMove, Generating, Ended, NobodyCancels, Processes
  <2>4. CASE CancelMessage(p)
    BY <2>4, <1>0, <1>00 DEF CancelMessage, CancelGoes, watch,
       cancelFrame, RowsTyped, RowsMove, Generating, Ended,
       NobodyCancels, Processes
  <2>5. CASE AnnounceMessageCancelled(p)
    BY <2>5, <1>0, <1>00 DEF AnnounceMessageCancelled, CancelGoes, rows,
       cancelFrame, RowsTyped, RowsMove, Generating, Ended,
       NobodyCancels, Processes
  <2>6. CASE CancelDraft(p)
    BY <2>6, <1>0, <1>00 DEF CancelDraft, CancelGoes, watch,
       cancelFrame, RowsTyped, RowsMove, Generating, Ended,
       NobodyCancels, Processes
  <2>7. CASE AnnounceCancelled(p)
    BY <2>7, <1>0, <1>00 DEF AnnounceCancelled, CancelGoes, rows,
       cancelFrame, RowsTyped, RowsMove, Generating, Ended,
       NobodyCancels, Processes
  <2>8. CASE CancelRun(p)
    BY <2>8, <1>0, <1>00 DEF CancelRun, CancelGoes, EndRun, watch,
       cancelFrame, RowsTyped, RowsMove, Generating, Ended,
       NobodyCancels, Processes
  <2> QED
    BY <1>5, <2>1, <2>2, <2>3, <2>4, <2>5, <2>6, <2>7, <2>8 DEF Cancel
<1>6. ASSUME NEW p \in Processes, Deliver(p) PROVE RowsMove
  BY <1>6, <1>0, <1>00 DEF Deliver, rows, RowsTyped, RowsMove, Generating,
     Ended, NobodyCancels, Processes
<1>7. CASE UNCHANGED vars
  BY <1>7, <1>0, <1>00 DEF vars, rows, watch, RowsTyped, RowsMove,
     Generating, Ended, NobodyCancels, Processes
<1> QED
  BY <1>1, <1>2, <1>3, <1>4, <1>5, <1>6, <1>7 DEF Next, Done

LEMMA WorkerMovesStep == RowsIInv /\ [Next]_vars => WorkerMoves
<1> SUFFICES ASSUME RowsIInv, [Next]_vars PROVE WorkerMoves
  OBVIOUS
<1>0. RowsTyped /\ DraftTold /\ WorkerTold
  BY DEF RowsIInv
<1>00. /\ draft.version \in Int /\ exec.deltas \in Int
  BY <1>0, RunStreamAssumption DEF RowsTyped
<1>1. CASE Execute
  <2>1. CASE CreateMessage
    BY <2>1, <1>0, <1>00 DEF CreateMessage, Goes, watch, execFrame,
       RowsTyped, WorkerMoves, WorkerTold, Published
  <2>2. CASE EnsureDraft
    BY <2>2, <1>0, <1>00 DEF EnsureDraft, Goes, watch, execFrame,
       RowsTyped, WorkerMoves, WorkerTold, Published
  <2>3. CASE LinkMessage
    BY <2>3, <1>0, <1>00 DEF LinkMessage, Goes, watch, execFrame,
       RowsTyped, WorkerMoves, WorkerTold, Published
  <2>4. CASE AnnounceMessage
    BY <2>4, <1>0, <1>00 DEF AnnounceMessage, Goes, rows, execFrame,
       RowsTyped, WorkerMoves, WorkerTold, Published
  <2>5. CASE AppendDelta
    BY <2>5, <1>0, <1>00 DEF AppendDelta, watch, execFrame, RowsTyped,
       WorkerMoves, WorkerTold, Published, DraftTold, BeforeText,
       Generating
  <2>6. CASE EmitDelta
    BY <2>6, <1>0, <1>00 DEF EmitDelta, rows, execFrame, RowsTyped,
       WorkerMoves, WorkerTold, Published
  <2>7. CASE OpenStep
    BY <2>7, <1>0, <1>00 DEF OpenStep, Goes, GuardPasses, execFrame,
       Aborted, RowsTyped, WorkerMoves, WorkerTold, Published
  <2>8. CASE GuardAborts
    BY <2>8, <1>0, <1>00 DEF GuardAborts, Goes, Aborted, rows, watch,
       execFrame, RowsTyped, WorkerMoves, WorkerTold, Published
  <2>9. CASE GuardCancels
    BY <2>9, <1>0, <1>00 DEF GuardCancels, Goes, Aborted, rows, watch,
       RowsTyped, WorkerMoves, WorkerTold, Published
  <2>10. CASE GuardCancelled
    BY <2>10, <1>0, <1>00 DEF GuardCancelled, Goes, rows, watch,
       execFrame, RowsTyped, WorkerMoves, WorkerTold, Published
  <2>11. CASE AgentFails
    BY <2>11, <1>0, <1>00 DEF AgentFails, Goes, rows, watch, execFrame,
       RowsTyped, WorkerMoves, WorkerTold, Published
  <2>12. CASE AgentAnswers
    BY <2>12, <1>0, <1>00 DEF AgentAnswers, Goes, GuardPasses, rows,
       watch, execFrame, Aborted, RowsTyped, WorkerMoves, WorkerTold,
       Published
  <2>13. CASE SetAnswerText
    <3>0. /\ draft.version = exec.deltas /\ draft.text = Streamed(draft.version)
      BY <2>13, <1>0 DEF SetAnswerText, DraftTold, BeforeText
    <3>1. CASE msg.status = "running"
      <4>1. /\ draft' = [draft EXCEPT !.version = @ + 1, !.text = Answer]
            /\ exec' = [exec EXCEPT !.pc = "emitText",
                                    !.version = draft.version + 1]
        BY <2>13, <3>1 DEF SetAnswerText
      <4>2. draft'.version = draft.version + 1 /\ exec'.pc = "emitText"
        BY <1>0, <4>1 DEF RowsTyped
      <4> QED
        BY <2>13, <1>00, <3>0, <3>1, <4>2 DEF SetAnswerText, WorkerMoves, Published
    <3>2. CASE msg.status # "running"
      <4>1. msg'.status = msg.status
        BY <2>13, <1>0, <3>2 DEF SetAnswerText, RowsTyped
      <4> QED
        BY <3>2, <4>1 DEF WorkerMoves
    <3> QED
      BY <3>1, <3>2
  <2>14. CASE EmitText
    BY <2>14, <1>0, <1>00 DEF EmitText, Goes, rows, execFrame,
       RowsTyped, WorkerMoves, WorkerTold, Published
  <2>15. CASE CloseSteps
    BY <2>15, <1>0, <1>00 DEF CloseSteps, Goes, execFrame, RowsTyped,
       WorkerMoves, WorkerTold, Published
  <2>16. CASE CompleteMessage
    BY <2>16, <1>0, <1>00 DEF CompleteMessage, Goes, watch, execFrame,
       RowsTyped, WorkerMoves, WorkerTold, Published
  <2>17. CASE AnnounceEnd
    BY <2>17, <1>0, <1>00 DEF AnnounceEnd, Goes, rows, execFrame,
       RowsTyped, WorkerMoves, WorkerTold, Published
  <2>18. CASE CompleteRun
    BY <2>18, <1>0, <1>00 DEF CompleteRun, Goes, EndRun, watch,
       execFrame, RowsTyped, WorkerMoves, WorkerTold, Published
  <2>19. CASE CatchCancelled
    BY <2>19, <1>0, <1>00 DEF CatchCancelled, Goes, rows, watch,
       execFrame, RowsTyped, WorkerMoves, WorkerTold, Published
  <2>20. CASE CatchError
    BY <2>20, <1>0, <1>00 DEF CatchError, Goes, rows, execFrame,
       RowsTyped, WorkerMoves, WorkerTold, Published
  <2>21. CASE FailSteps
    BY <2>21, <1>0, <1>00 DEF FailSteps, Goes, execFrame, RowsTyped,
       WorkerMoves, WorkerTold, Published
  <2>22. CASE FailMessage
    BY <2>22, <1>0, <1>00 DEF FailMessage, Goes, watch, execFrame,
       RowsTyped, WorkerMoves, WorkerTold, Published
  <2>23. CASE FailRun
    BY <2>23, <1>0, <1>00 DEF FailRun, Goes, EndRun, watch, execFrame,
       RowsTyped, WorkerMoves, WorkerTold, Published
  <2>24. CASE RemoveDraft
    BY <2>24, <1>0, <1>00 DEF RemoveDraft, Goes, watch, execFrame,
       RowsTyped, WorkerMoves, WorkerTold, Published
  <2> QED
    BY <1>1, <2>1, <2>2, <2>3, <2>4, <2>5, <2>6, <2>7, <2>8, <2>9,
       <2>10, <2>11, <2>12, <2>13, <2>14, <2>15, <2>16, <2>17, <2>18,
       <2>19, <2>20, <2>21, <2>22, <2>23, <2>24 DEF Execute
<1>2. CASE RequestCancel
  BY <1>2, <1>0, <1>00 DEF RequestCancel, rows, watch, cancelFrame,
     RowsTyped, WorkerMoves, WorkerTold, Published
<1>3. CASE Route
  BY <1>0, <1>00, <1>3 DEF Route, Subscribe, ReadRun, ReadRow, ReadDraft,
     WriteSnapshot, LoadSession, rows, WorkerMoves, Published
<1>4. CASE Reload
  BY <1>4, <1>0, <1>00 DEF Reload, rows, RowsTyped, WorkerMoves,
     WorkerTold, Published
<1>5. ASSUME NEW p \in Processes, Cancel(p) PROVE WorkerMoves
  <2>1. CASE SetFlag(p)
    BY <2>1, <1>0, <1>00 DEF SetFlag, CancelGoes, watch, cancelFrame,
       RowsTyped, WorkerMoves, WorkerTold, Published
  <2>2. CASE ReadMessage(p)
    BY <2>2, <1>0, <1>00 DEF ReadMessage, rows, watch, cancelFrame,
       RowsTyped, WorkerMoves, WorkerTold, Published
  <2>3. CASE CancelSteps(p)
    BY <2>3, <1>0, <1>00 DEF CancelSteps, CancelGoes, cancelFrame,
       RowsTyped, WorkerMoves, WorkerTold, Published
  <2>4. CASE CancelMessage(p)
    BY <2>4, <1>0, <1>00 DEF CancelMessage, CancelGoes, watch,
       cancelFrame, RowsTyped, WorkerMoves, WorkerTold, Published
  <2>5. CASE AnnounceMessageCancelled(p)
    BY <2>5, <1>0, <1>00 DEF AnnounceMessageCancelled, CancelGoes, rows,
       cancelFrame, RowsTyped, WorkerMoves, WorkerTold, Published
  <2>6. CASE CancelDraft(p)
    BY <2>6, <1>0, <1>00 DEF CancelDraft, CancelGoes, watch,
       cancelFrame, RowsTyped, WorkerMoves, WorkerTold, Published
  <2>7. CASE AnnounceCancelled(p)
    BY <2>7, <1>0, <1>00 DEF AnnounceCancelled, CancelGoes, rows,
       cancelFrame, RowsTyped, WorkerMoves, WorkerTold, Published
  <2>8. CASE CancelRun(p)
    BY <2>8, <1>0, <1>00 DEF CancelRun, CancelGoes, EndRun, watch,
       cancelFrame, RowsTyped, WorkerMoves, WorkerTold, Published
  <2> QED
    BY <1>5, <2>1, <2>2, <2>3, <2>4, <2>5, <2>6, <2>7, <2>8 DEF Cancel
<1>6. ASSUME NEW p \in Processes, Deliver(p) PROVE WorkerMoves
  BY <1>6, <1>0, <1>00 DEF Deliver, rows, RowsTyped, WorkerMoves,
     WorkerTold, Published
<1>7. CASE UNCHANGED vars
  BY <1>7, <1>0, <1>00 DEF vars, rows, watch, RowsTyped, WorkerMoves,
     WorkerTold, Published
<1> QED
  BY <1>1, <1>2, <1>3, <1>4, <1>5, <1>6, <1>7 DEF Next, Done


-----------------------------------------------------------------------------
(* What the events on their way say, and that it stays true.               *)

EventTold(p, e) ==
    /\ e.version \in NoVersion..draft.version
    /\ e.type # "cancelled" => e.onMessage
    /\ e.type = "message.part.delta" =>
         e.version \in 1..exec.deltas /\ e.text = <<e.version>>
    /\ e.type = "final_answer" => e.text = Answer
    /\ e.type = "session.message.updated" =>
         /\ e.status \in Ended /\ e.status = msg.status
         /\ e.status = "completed" => e.text = Answer
    /\ e.type = "run_completed" => msg.status = "completed"
    /\ NobodyCancels /\ e.type # "message.part.delta" => e.text \in Plain
    /\ IsTerminalEvent(e) => ~Undisturbed
    /\ place = "api" => p = "api"
    /\ place = "worker" /\ p = "api" =>
         /\ ~NobodyCancels
         /\ e.type \in {"process.step", "agent_state",
                        "session.message.updated", "cancelled"}

\* While the message of a worker is running, nothing but its text is told,
\* and the steps that a call of cancelRun has closed.
EventOfWorker(p, e) ==
    place = "worker" /\ msg.status = "running" =>
      /\ p = "api" => e.type \in {"process.step", "agent_state"}
      /\ e.type \notin {"session.message.created", "session.message.updated"}
      /\ IsPartEvent(e) => e.version \in 1..Published
      /\ e.type = "message.part.updated" =>
           /\ e.version = draft.version /\ e.text = Answer
           /\ exec.pc \in {"close", "settle"}
      /\ e.type = "final_answer" => exec.pc = "settle"

LEMMA StillTold ==
    ASSUME RowsIInv, [Next]_vars, NEW p \in Processes, NEW e \in Events,
           EventTold(p, e), EventOfWorker(p, e)
    PROVE  EventTold(p, e)' /\ EventOfWorker(p, e)'
<1>1. RowsMove /\ WorkerMoves
  BY RowsMoveStep, WorkerMovesStep
<1>2. /\ draft.version \in Int /\ draft'.version \in Int
      /\ exec.deltas \in Int /\ exec'.deltas \in Int
  BY RowsTypesStep, RunStreamAssumption DEF RowsIInv, RowsTyped
<1>3. EventTold(p, e)'
  <2>1. (e.version \in NoVersion..draft.version)'
    BY <1>1, <1>2 DEF EventTold, RowsMove, NoVersion, Events
  <2>2. e.type = "message.part.delta" =>
          e.version \in 1..exec'.deltas /\ e.text = <<e.version>>
    BY <1>1, <1>2 DEF EventTold, RowsMove
  <2>3. NobodyCancels' => NobodyCancels
    BY <1>1 DEF RowsMove
  <2>4. Undisturbed' => Undisturbed
    BY <1>1 DEF RowsMove, Undisturbed
  <2>5. /\ e.type = "session.message.updated" => e.status = msg'.status
        /\ e.type = "run_completed" => msg'.status = "completed"
    BY <1>1 DEF EventTold, RowsMove, Ended
  <2>6. place' = place
    BY <1>1 DEF RowsMove
  <2> QED
    BY <2>1, <2>2, <2>3, <2>4, <2>5, <2>6 DEF EventTold
<1>4. EventOfWorker(p, e)'
  <2> SUFFICES ASSUME place = "worker", msg'.status = "running"
               PROVE  EventOfWorker(p, e)'
    BY <1>1 DEF RowsMove, EventOfWorker
  <2>1. msg.status = "running" /\ Published' >= Published
    BY <1>1 DEF WorkerMoves
  <2>2. IsPartEvent(e) => e.version \in 1..Published'
    BY <1>2, <2>1 DEF EventOfWorker, Published
  <2>3. e.type = "message.part.updated" =>
          draft' = draft /\ exec'.pc \in {"close", "settle"}
    BY <1>1, <2>1 DEF EventOfWorker, WorkerMoves
  <2>4. e.type = "final_answer" => exec'.pc = "settle"
    BY <1>1, <2>1 DEF EventOfWorker, WorkerMoves
  <2> QED
    BY <2>1, <2>2, <2>3, <2>4 DEF EventOfWorker
<1> QED
  BY <1>3, <1>4

-----------------------------------------------------------------------------
(* The events the program makes.                                           *)

LEMMA EventIs ==
    ASSUME NEW t \in EventTypes
    PROVE  /\ Event(t) \in Events /\ Event(t).type = t /\ Event(t).onMessage
           /\ Event(t).version = -1 /\ Event(t).text = <<>>
           /\ Event(t).status = "running" /\ Event(t).open = FALSE
BY DEF Event, Events, Statuses, NoVersion

LEMMA EventsAre ==
    /\ Created \in Events /\ Created.type = "session.message.created"
    /\ Created.version = -1 /\ Created.text = <<>> /\ Created.onMessage
    /\ \A s \in Statuses, t \in Seq(Int) :
         /\ Updated(s, t) \in Events
         /\ Updated(s, t).type = "session.message.updated"
         /\ Updated(s, t).version = -1 /\ Updated(s, t).onMessage
         /\ Updated(s, t).status = s /\ Updated(s, t).text = t
    /\ \A v \in Int, d \in Int :
         /\ Delta(d, v) \in Events /\ Delta(d, v).type = "message.part.delta"
         /\ Delta(d, v).version = v /\ Delta(d, v).text = <<d>>
         /\ Delta(d, v).onMessage
    /\ \A v \in Int, t \in Seq(Int) :
         /\ PartUpdated(t, v) \in Events
         /\ PartUpdated(t, v).type = "message.part.updated"
         /\ PartUpdated(t, v).version = v /\ PartUpdated(t, v).text = t
         /\ PartUpdated(t, v).onMessage
    /\ \A b \in BOOLEAN :
         /\ Step(b) \in Events /\ Step(b).type = "process.step"
         /\ Step(b).version = -1 /\ Step(b).text = <<>> /\ Step(b).onMessage
         /\ Step(b).open = b
    /\ FinalAnswer \in Events /\ FinalAnswer.type = "final_answer"
    /\ FinalAnswer.version = -1 /\ FinalAnswer.text = Answer
    /\ FinalAnswer.onMessage
    /\ \A b \in BOOLEAN :
         /\ Cancelled(b) \in Events /\ Cancelled(b).type = "cancelled"
         /\ Cancelled(b).version = -1 /\ Cancelled(b).text = <<>>
         /\ Cancelled(b).onMessage = b
    /\ AgentState \in Events /\ AgentState.type = "agent_state"
    /\ AgentState.version = -1 /\ AgentState.text = <<>>
    /\ AgentState.onMessage
    /\ RunCompleted \in Events /\ RunCompleted.type = "run_completed"
    /\ RunCompleted.version = -1 /\ RunCompleted.text = <<>>
    /\ RunCompleted.onMessage
    /\ Error \in Events /\ Error.type = "error" /\ Error.version = -1
    /\ Error.text = <<>> /\ Error.onMessage
<1> USE EventIs DEF EventTypes, Events
<1>1. /\ Created \in Events /\ Created.type = "session.message.created"
      /\ Created.version = -1 /\ Created.text = <<>> /\ Created.onMessage
  BY DEF Created
<1>2. ASSUME NEW s \in Statuses, NEW t \in Seq(Int)
      PROVE  /\ Updated(s, t) \in Events
             /\ Updated(s, t).type = "session.message.updated"
             /\ Updated(s, t).version = -1 /\ Updated(s, t).onMessage
             /\ Updated(s, t).status = s /\ Updated(s, t).text = t
  BY DEF Updated
<1>3. ASSUME NEW v \in Int, NEW d \in Int
      PROVE  /\ Delta(d, v) \in Events
             /\ Delta(d, v).type = "message.part.delta"
             /\ Delta(d, v).version = v /\ Delta(d, v).text = <<d>>
             /\ Delta(d, v).onMessage
  <2>1. <<d>> \in Seq(Int)
    OBVIOUS
  <2> QED
    BY <2>1 DEF Delta
<1>4. ASSUME NEW v \in Int, NEW t \in Seq(Int)
      PROVE  /\ PartUpdated(t, v) \in Events
             /\ PartUpdated(t, v).type = "message.part.updated"
             /\ PartUpdated(t, v).version = v /\ PartUpdated(t, v).text = t
             /\ PartUpdated(t, v).onMessage
  BY DEF PartUpdated
<1>5. ASSUME NEW b \in BOOLEAN
      PROVE  /\ Step(b) \in Events /\ Step(b).type = "process.step"
             /\ Step(b).version = -1 /\ Step(b).text = <<>>
             /\ Step(b).onMessage /\ Step(b).open = b
  BY DEF Step
<1>6. /\ FinalAnswer \in Events /\ FinalAnswer.type = "final_answer"
      /\ FinalAnswer.version = -1 /\ FinalAnswer.text = Answer
      /\ FinalAnswer.onMessage
  BY TextsAre DEF FinalAnswer
<1>7. ASSUME NEW b \in BOOLEAN
      PROVE  /\ Cancelled(b) \in Events /\ Cancelled(b).type = "cancelled"
             /\ Cancelled(b).version = -1 /\ Cancelled(b).text = <<>>
             /\ Cancelled(b).onMessage = b
  BY DEF Cancelled
<1>8. /\ AgentState \in Events /\ AgentState.type = "agent_state"
      /\ AgentState.version = -1 /\ AgentState.text = <<>>
      /\ AgentState.onMessage
  BY DEF AgentState
<1>9. /\ RunCompleted \in Events /\ RunCompleted.type = "run_completed"
      /\ RunCompleted.version = -1 /\ RunCompleted.text = <<>>
      /\ RunCompleted.onMessage
      /\ Error \in Events /\ Error.type = "error" /\ Error.version = -1
      /\ Error.text = <<>> /\ Error.onMessage
  BY DEF RunCompleted, Error
<1> HIDE EventIs DEF EventTypes, Events
<1> QED
  BY <1>1, <1>2, <1>3, <1>4, <1>5, <1>6, <1>7, <1>8, <1>9

\* A publication of at most two events, all of them true.
IsTold(p, e) == EventTold(p, e) /\ EventOfWorker(p, e)

IsOpenStep(e) == e.type = "process.step" /\ e.open

\* What is said in one place only.
Says(e) ==
    /\ IsPartEvent(e) => EmitDelta \/ EmitText
    /\ e.type = "final_answer" => CloseSteps
    /\ e.type = "run_completed" => AnnounceEnd
    /\ e.type = "error" => CatchError
    /\ IsOpenStep(e) => OpenStep

Tells(p, q) ==
    /\ q \in Seq(Events) /\ Len(q) <= 2
    /\ Publish(p, q)
    /\ \A i \in 1..Len(q) : IsTold(p, q[i])' /\ Says(q[i])

LEMMA TellsOne ==
    ASSUME NEW p, NEW e \in Events, Publish(p, <<e>>), IsTold(p, e)', Says(e)
    PROVE  \E q : Tells(p, q)
<1>1. <<e>> \in Seq(Events) /\ Len(<<e>>) = 1 /\ <<e>>[1] = e
  OBVIOUS
<1>2. \A i \in 1..Len(<<e>>) :
        IsTold(p, <<e>>[i])' /\ Says(<<e>>[i])
  <2>1. ASSUME NEW i \in 1..Len(<<e>>)
        PROVE  IsTold(p, <<e>>[i])' /\ Says(<<e>>[i])
    <3>1. <<e>>[i] = e
      BY <1>1
    <3> QED
      BY <3>1
  <2> QED
    BY <2>1
<1>3. Tells(p, <<e>>)
  BY <1>1, <1>2 DEF Tells
<1> QED
  BY <1>3


LEMMA TellsTwo ==
    ASSUME NEW p, NEW e \in Events, NEW f \in Events, Publish(p, <<e, f>>),
           IsTold(p, e)', IsTold(p, f)', Says(e), Says(f)
    PROVE  \E q : Tells(p, q)
<1>1. /\ <<e, f>> \in Seq(Events) /\ Len(<<e, f>>) = 2
      /\ <<e, f>>[1] = e /\ <<e, f>>[2] = f
  OBVIOUS
<1>2. \A i \in 1..Len(<<e, f>>) :
        IsTold(p, <<e, f>>[i])' /\ Says(<<e, f>>[i])
  <2>1. ASSUME NEW i \in 1..Len(<<e, f>>)
        PROVE  IsTold(p, <<e, f>>[i])' /\ Says(<<e, f>>[i])
    <3>1. <<e, f>>[i] = e \/ <<e, f>>[i] = f
      BY <1>1
    <3> QED
      BY <3>1
  <2> QED
    BY <2>1
<1>3. Tells(p, <<e, f>>)
  BY <1>1, <1>2 DEF Tells
<1> QED
  BY <1>3

LEMMA TellsNone ==
    ASSUME NEW p, Publish(p, <<>>)
    PROVE  \E q : Tells(p, q)
<1>1. Tells(p, <<>>)
  BY DEF Tells
<1> QED
  BY <1>1

\* The steps that are closed, and an event behind them.
LEMMA ClosedAre ==
    /\ ~stepOpen => ClosedSteps = <<>>
    /\ stepOpen => ClosedSteps = <<Step(FALSE)>>
    /\ \A e : ~stepOpen => Append(ClosedSteps, e) = <<e>>
    /\ \A e : stepOpen => Append(ClosedSteps, e) = <<Step(FALSE), e>>
<1>1. /\ ~stepOpen => ClosedSteps = <<>>
      /\ stepOpen => ClosedSteps = <<Step(FALSE)>>
  BY DEF ClosedSteps
<1>2. \A e : Append(<<>>, e) = <<e>>
  OBVIOUS
<1>3. ASSUME NEW e, NEW f PROVE Append(<<f>>, e) = <<f, e>>
  <2> DEFINE q == Append(<<f>>, e)
             r == <<f, e>>
  <2>1. q \in Seq({e, f}) /\ Len(q) = 2 /\ q[1] = f /\ q[2] = e
    OBVIOUS
  <2>2. r \in Seq({e, f}) /\ Len(r) = 2 /\ r[1] = f /\ r[2] = e
    OBVIOUS
  <2> HIDE DEF q, r
  <2>3. \A i \in 1..2 : i = 1 \/ i = 2
    OBVIOUS
  <2>4. \A i \in 1..Len(q) : q[i] = r[i]
    BY <2>1, <2>2, <2>3
  <2>5. q = r
    BY <2>1, <2>2, <2>4, SeqEqual
  <2> QED
    BY <2>5 DEF q, r
<1> QED
  BY <1>1, <1>2, <1>3

WatchMoves ==
    \/ UNCHANGED watch
    \/ \E p \in Processes : \E q : Tells(p, q)
    \/ \E p \in Processes : Deliver(p)
    \/ Route
    \/ Reload

LEMMA WatchStep == RowsIInv /\ RowsIInv' /\ [Next]_vars => WatchMoves
<1> SUFFICES ASSUME RowsIInv, RowsIInv', [Next]_vars PROVE WatchMoves
  OBVIOUS
<1>0. /\ RowsTyped /\ DraftTold /\ EndsTold /\ WorkerTold
      /\ RowsTyped' /\ EndsTold' /\ WorkerTold'
  BY DEF RowsIInv
<1>00. /\ place \in Processes /\ place' = place
  BY <1>0, RowsMoveStep, RunStreamAssumption DEF RowsTyped, RowsMove
<1>01. draft.version \in Nat /\ draft'.version \in Nat
  BY <1>0 DEF RowsTyped

<1>1. CASE Execute
  <2>1. CASE CreateMessage
    BY <2>1 DEF CreateMessage, watch, WatchMoves
  <2>2. CASE EnsureDraft
    BY <2>2 DEF EnsureDraft, watch, WatchMoves
  <2>3. CASE LinkMessage
    BY <2>3 DEF LinkMessage, watch, WatchMoves
  <2>4. CASE AnnounceMessage
    <3>0. PICK p \in Processes : p = place
      BY <1>00
    <3>1. PICK e : e = Created
      OBVIOUS
    <3>2. /\ e \in Events
          /\ e.type = "session.message.created" /\ e.version = -1
          /\ e.text = <<>> /\ e.onMessage
      BY <1>0, <1>01, <3>1, EventsAre DEF RowsTyped, Processes, Statuses
    <3>3. IsTold(p, e)' /\ Says(e)
      <4>1. EventTold(p, e)'
        BY <2>4, <1>0, <1>00, <1>01, <3>0, <3>2
           DEF AnnounceMessage, Goes, EventTold, IsTerminalEvent, Undisturbed, NobodyCancels,
               Generating, NoVersion, Plain, RowsTyped
      <4>2. EventOfWorker(p, e)'
        BY <2>4, <1>0, <1>00, <1>01, <3>0, <3>2
           DEF AnnounceMessage, Goes, EventOfWorker, IsPartEvent, WorkerTold, Plain, RowsTyped
      <4>3. Says(e)
        BY <2>4, <3>2 DEF Says, IsPartEvent, IsOpenStep
      <4> QED
        BY <4>1, <4>2, <4>3 DEF IsTold
    <3>4. Publish(p, <<e>>)
      BY <2>4, <3>0, <3>1 DEF AnnounceMessage
    <3> QED
      BY <3>2, <3>3, <3>4, TellsOne DEF WatchMoves
  <2>5. CASE AppendDelta
    BY <2>5 DEF AppendDelta, watch, WatchMoves
  <2>6. CASE EmitDelta
    <3>0. PICK p \in Processes : p = place
      BY <1>00
    <3>1. PICK e : e = Delta(exec.deltas + 1, exec.version)
      OBVIOUS
    <3>2. /\ exec.deltas \in Nat /\ exec.version = exec.deltas + 1
          /\ draft.version = exec.deltas + 1
      BY <2>6, <1>0, RunStreamAssumption DEF EmitDelta, DraftTold, RowsTyped
    <3>3. /\ e \in Events /\ e.type = "message.part.delta" /\ e.onMessage
          /\ e.version = exec.deltas + 1 /\ e.text = <<e.version>>
      BY <3>1, <3>2, EventsAre
    <3>4. /\ exec'.pc = "agent" /\ exec'.deltas = exec.deltas + 1
          /\ draft' = draft /\ place' = place
      BY <2>6, <1>0, <1>00 DEF EmitDelta, rows, RowsTyped
    <3>5. IsTold(p, e)' /\ Says(e)
      <4>1. EventTold(p, e)'
        BY <3>0, <3>2, <3>3, <3>4 DEF EventTold, IsTerminalEvent, NoVersion
      <4>2. EventOfWorker(p, e)'
        BY <3>0, <3>2, <3>3, <3>4 DEF EventOfWorker, IsPartEvent, Published
      <4>3. Says(e)
        BY <2>6, <3>3 DEF Says, IsPartEvent, IsOpenStep
      <4> QED
        BY <4>1, <4>2, <4>3 DEF IsTold
    <3>6. Publish(p, <<e>>)
      BY <2>6, <3>0, <3>1 DEF EmitDelta
    <3> QED
      BY <3>3, <3>5, <3>6, TellsOne DEF WatchMoves
  <2>7. CASE OpenStep
    <3>0. PICK p \in Processes : p = place
      BY <1>00
    <3>1. PICK e : e = Step(TRUE)
      OBVIOUS
    <3>2. /\ e \in Events
          /\ e.type = "process.step" /\ e.version = -1
          /\ e.text = <<>> /\ e.onMessage
      BY <1>0, <1>01, <3>1, EventsAre DEF RowsTyped, Processes, Statuses
    <3>3. IsTold(p, e)' /\ Says(e)
      <4>1. EventTold(p, e)'
        BY <2>7, <1>0, <1>00, <1>01, <3>0, <3>2
           DEF OpenStep, Goes, EventTold, IsTerminalEvent, Undisturbed, NobodyCancels,
               Generating, NoVersion, Plain, RowsTyped
      <4>2. EventOfWorker(p, e)'
        BY <2>7, <1>0, <1>00, <1>01, <3>0, <3>2
           DEF OpenStep, Goes, EventOfWorker, IsPartEvent, WorkerTold, Plain, RowsTyped
      <4>3. Says(e)
        BY <2>7, <3>2 DEF Says, IsPartEvent, IsOpenStep
      <4> QED
        BY <4>1, <4>2, <4>3 DEF IsTold
    <3>4. Publish(p, <<e>>)
      BY <2>7, <3>0, <3>1 DEF OpenStep
    <3> QED
      BY <3>2, <3>3, <3>4, TellsOne DEF WatchMoves
  <2>8. CASE GuardAborts
    BY <2>8 DEF GuardAborts, watch, WatchMoves
  <2>9. CASE GuardCancels
    BY <2>9 DEF GuardCancels, watch, WatchMoves
  <2>10. CASE GuardCancelled
    BY <2>10 DEF GuardCancelled, watch, WatchMoves
  <2>11. CASE AgentFails
    BY <2>11 DEF AgentFails, watch, WatchMoves
  <2>12. CASE AgentAnswers
    BY <2>12 DEF AgentAnswers, watch, WatchMoves
  <2>13. CASE SetAnswerText
    BY <2>13 DEF SetAnswerText, watch, WatchMoves
  <2>14. CASE EmitText
    <3>0. PICK p \in Processes : p = place
      BY <1>00
    <3>1. PICK e : e = PartUpdated(Answer, exec.version)
      OBVIOUS
    <3>2. /\ exec.version \in Int /\ exec.version \in {NoVersion, draft.version}
          /\ exec.deltas \in Nat
      BY <2>14, <1>0, RunStreamAssumption DEF EmitText, Goes, DraftTold, RowsTyped
    <3>3. /\ e \in Events /\ e.type = "message.part.updated" /\ e.onMessage
          /\ e.version = exec.version /\ e.text = Answer
      BY <3>1, <3>2, EventsAre, TextsAre
    <3>4. /\ exec.pc = "emitText" /\ exec'.pc = "close"
          /\ exec'.deltas = exec.deltas
          /\ draft' = draft /\ place' = place /\ msg' = msg
      BY <2>14, <1>0, <1>00 DEF EmitText, Goes, rows, RowsTyped
    <3>5. IsTold(p, e)' /\ Says(e)
      <4>1. EventTold(p, e)'
        BY <1>01, <3>0, <3>2, <3>3, <3>4
           DEF EventTold, IsTerminalEvent, NoVersion, Plain
      <4>2. EventOfWorker(p, e)'
        BY <1>0, <3>0, <3>2, <3>3, <3>4
           DEF EventOfWorker, IsPartEvent, Published, WorkerTold
      <4>3. Says(e)
        BY <2>14, <3>3 DEF Says, IsPartEvent, IsOpenStep
      <4> QED
        BY <4>1, <4>2, <4>3 DEF IsTold
    <3>6. Publish(p, <<e>>)
      BY <2>14, <3>0, <3>1 DEF EmitText
    <3> QED
      BY <3>3, <3>5, <3>6, TellsOne DEF WatchMoves
  <2>15. CASE CloseSteps
    <3>0. PICK p \in Processes : p = place
      BY <1>00
    <3>1. PICK e, f : e = FinalAnswer /\ f = Step(FALSE)
      OBVIOUS
    <3>2. /\ e \in Events
          /\ e.type = "final_answer" /\ e.version = -1
          /\ e.text = Answer /\ e.onMessage
          /\ f \in Events
          /\ f.type = "process.step" /\ f.version = -1 /\ ~f.open
          /\ f.text = <<>> /\ f.onMessage
      BY <3>1, EventsAre
    <3>3. IsTold(p, e)' /\ Says(e)
      <4>1. EventTold(p, e)'
        BY <2>15, <1>0, <1>00, <1>01, <3>0, <3>2
           DEF CloseSteps, Goes, EventTold, IsTerminalEvent, Undisturbed, NobodyCancels,
               Generating, NoVersion, Plain, RowsTyped
      <4>2. EventOfWorker(p, e)'
        BY <2>15, <1>0, <1>00, <1>01, <3>0, <3>2
           DEF CloseSteps, Goes, EventOfWorker, IsPartEvent, WorkerTold, Plain, RowsTyped
      <4>3. Says(e)
        BY <2>15, <3>2 DEF Says, IsPartEvent, IsOpenStep
      <4> QED
        BY <4>1, <4>2, <4>3 DEF IsTold
    <3>4. IsTold(p, f)' /\ Says(f)
      <4>1. EventTold(p, f)'
        BY <2>15, <1>0, <1>00, <1>01, <3>0, <3>2
           DEF CloseSteps, Goes, EventTold, IsTerminalEvent, Undisturbed, NobodyCancels,
               Generating, NoVersion, Plain, RowsTyped
      <4>2. EventOfWorker(p, f)'
        BY <2>15, <1>0, <1>00, <1>01, <3>0, <3>2
           DEF CloseSteps, Goes, EventOfWorker, IsPartEvent, WorkerTold, Plain, RowsTyped
      <4>3. Says(f)
        BY <2>15, <3>2 DEF Says, IsPartEvent, IsOpenStep
      <4> QED
        BY <4>1, <4>2, <4>3 DEF IsTold
    <3>5. CASE stepOpen
      <4>1. Publish(p, <<f, e>>)
        BY <2>15, <3>0, <3>1, <3>5, ClosedAre DEF CloseSteps
      <4> QED
        BY <3>2, <3>3, <3>4, <4>1, TellsTwo DEF WatchMoves
    <3>6. CASE ~stepOpen
      <4>1. Publish(p, <<e>>)
        BY <2>15, <3>0, <3>1, <3>6, ClosedAre DEF CloseSteps
      <4> QED
        BY <3>2, <3>3, <4>1, TellsOne DEF WatchMoves
    <3> QED
      BY <3>5, <3>6 DEF RowsTyped
  <2>16. CASE CompleteMessage
    BY <2>16 DEF CompleteMessage, watch, WatchMoves
  <2>17. CASE AnnounceEnd
    <3>0. PICK p \in Processes : p = place
      BY <1>00
    <3>1. PICK e, f : e = Updated("completed", Answer) /\ f = RunCompleted
      OBVIOUS
    <3>2. /\ e \in Events
          /\ e.type = "session.message.updated" /\ e.version = -1
          /\ e.text = Answer /\ e.onMessage /\ e.status = "completed"
          /\ f \in Events
          /\ f.type = "run_completed" /\ f.version = -1
          /\ f.text = <<>> /\ f.onMessage
      BY <3>1, EventsAre, TextsAre DEF Statuses
    <3>3. IsTold(p, e)' /\ Says(e)
      <4>1. EventTold(p, e)'
        BY <2>17, <1>0, <1>00, <1>01, <3>0, <3>2
           DEF AnnounceEnd, Goes, EventTold, IsTerminalEvent, Undisturbed, NobodyCancels,
               Generating, NoVersion, Plain, Ended, EndsTold, rows, RowsTyped
      <4>2. EventOfWorker(p, e)'
        BY <2>17, <1>0, <1>00, <1>01, <3>0, <3>2
           DEF AnnounceEnd, Goes, EventOfWorker, IsPartEvent, WorkerTold, Plain, Ended, EndsTold, rows, RowsTyped
      <4>3. Says(e)
        BY <2>17, <3>2 DEF Says, IsPartEvent, IsOpenStep
      <4> QED
        BY <4>1, <4>2, <4>3 DEF IsTold
    <3>4. IsTold(p, f)' /\ Says(f)
      <4>1. EventTold(p, f)'
        BY <2>17, <1>0, <1>00, <1>01, <3>0, <3>2
           DEF AnnounceEnd, Goes, EventTold, IsTerminalEvent, Undisturbed, NobodyCancels,
               Generating, NoVersion, Plain, EndsTold, rows, RowsTyped
      <4>2. EventOfWorker(p, f)'
        BY <2>17, <1>0, <1>00, <1>01, <3>0, <3>2
           DEF AnnounceEnd, Goes, EventOfWorker, IsPartEvent, WorkerTold, Plain, EndsTold, rows, RowsTyped
      <4>3. Says(f)
        BY <2>17, <3>2 DEF Says, IsPartEvent, IsOpenStep
      <4> QED
        BY <4>1, <4>2, <4>3 DEF IsTold
    <3>5. Publish(p, <<e, f>>)
      BY <2>17, <3>0, <3>1 DEF AnnounceEnd
    <3> QED
      BY <3>2, <3>3, <3>4, <3>5, TellsTwo DEF WatchMoves
  <2>18. CASE CompleteRun
    BY <2>18 DEF CompleteRun, watch, WatchMoves
  <2>19. CASE CatchCancelled
    BY <2>19 DEF CatchCancelled, watch, WatchMoves
  <2>20. CASE CatchError
    <3>0. PICK p \in Processes : p = place
      BY <1>00
    <3>1. PICK e : e = Error
      OBVIOUS
    <3>2. /\ e \in Events
          /\ e.type = "error" /\ e.version = -1
          /\ e.text = <<>> /\ e.onMessage
      BY <1>0, <1>01, <3>1, EventsAre DEF RowsTyped, Processes, Statuses
    <3>3. IsTold(p, e)' /\ Says(e)
      <4>1. EventTold(p, e)'
        BY <2>20, <1>0, <1>00, <1>01, <3>0, <3>2
           DEF CatchError, Goes, EventTold, IsTerminalEvent, Undisturbed, NobodyCancels,
               Generating, NoVersion, Plain, RowsTyped
      <4>2. EventOfWorker(p, e)'
        BY <2>20, <1>0, <1>00, <1>01, <3>0, <3>2
           DEF CatchError, Goes, EventOfWorker, IsPartEvent, WorkerTold, Plain, RowsTyped
      <4>3. Says(e)
        BY <2>20, <3>2 DEF Says, IsPartEvent, IsOpenStep
      <4> QED
        BY <4>1, <4>2, <4>3 DEF IsTold
    <3>4. Publish(p, <<e>>)
      BY <2>20, <3>0, <3>1 DEF CatchError
    <3> QED
      BY <3>2, <3>3, <3>4, TellsOne DEF WatchMoves
  <2>21. CASE FailSteps
    <3>0. PICK p \in Processes : p = place
      BY <1>00
    <3>1. PICK f : f = Step(FALSE)
      OBVIOUS
    <3>2. /\ f \in Events
          /\ f.type = "process.step" /\ f.version = -1 /\ ~f.open
          /\ f.text = <<>> /\ f.onMessage
      BY <3>1, EventsAre
    <3>3. IsTold(p, f)' /\ Says(f)
      <4>1. EventTold(p, f)'
        BY <2>21, <1>0, <1>00, <1>01, <3>0, <3>2
           DEF FailSteps, Goes, EventTold, IsTerminalEvent, Undisturbed, NobodyCancels,
               Generating, NoVersion, Plain, RowsTyped
      <4>2. EventOfWorker(p, f)'
        BY <2>21, <1>0, <1>00, <1>01, <3>0, <3>2
           DEF FailSteps, Goes, EventOfWorker, IsPartEvent, WorkerTold, Plain, RowsTyped
      <4>3. Says(f)
        BY <2>21, <3>2 DEF Says, IsPartEvent, IsOpenStep
      <4> QED
        BY <4>1, <4>2, <4>3 DEF IsTold
    <3>5. CASE stepOpen
      <4>1. Publish(p, <<f>>)
        BY <2>21, <3>0, <3>1, <3>5, ClosedAre DEF FailSteps
      <4> QED
        BY <3>2, <3>3, <4>1, TellsOne DEF WatchMoves
    <3>6. CASE ~stepOpen
      <4>1. Publish(p, <<>>)
        BY <2>21, <3>0, <3>6, ClosedAre DEF FailSteps
      <4> QED
        BY <4>1, TellsNone DEF WatchMoves
    <3> QED
      BY <3>5, <3>6 DEF RowsTyped
  <2>22. CASE FailMessage
    <3>0. PICK p \in Processes : p = place
      BY <1>00
    <3>1. CASE UNCHANGED watch
      BY <3>1 DEF WatchMoves
    <3>2. CASE ~UNCHANGED watch
      <4>1. PICK e : e = Updated("failed", Failure)
        OBVIOUS
      <4>2. /\ e \in Events
            /\ e.type = "session.message.updated" /\ e.version = -1
            /\ e.text = Failure /\ e.onMessage /\ e.status = "failed"
        BY <4>1, EventsAre, TextsAre DEF Statuses
      <4>3. /\ Publish(p, <<e>>) /\ msg'.status = "failed"
            /\ exec.pc = "failMessage" /\ exec'.pc = "failRun"
        BY <2>22, <1>0, <3>0, <3>2, <4>1 DEF FailMessage, Goes, watch, RowsTyped
      <4>4. IsTold(p, e)' /\ Says(e)
        <5>1. EventTold(p, e)'
          BY <1>00, <1>01, <3>0, <4>2, <4>3
             DEF EventTold, IsTerminalEvent, NoVersion, Ended, Plain
        <5>2. EventOfWorker(p, e)'
          BY <4>3 DEF EventOfWorker
        <5>3. Says(e)
          BY <4>2 DEF Says, IsPartEvent, IsOpenStep
        <5> QED
          BY <5>1, <5>2, <5>3 DEF IsTold
      <4> QED
        BY <4>2, <4>3, <4>4, TellsOne DEF WatchMoves
    <3> QED
      BY <3>1, <3>2
  <2>23. CASE FailRun
    BY <2>23 DEF FailRun, watch, WatchMoves
  <2>24. CASE RemoveDraft
    BY <2>24 DEF RemoveDraft, watch, WatchMoves
  <2> QED
    BY <1>1, <2>1, <2>2, <2>3, <2>4, <2>5, <2>6, <2>7, <2>8, <2>9,
       <2>10, <2>11, <2>12, <2>13, <2>14, <2>15, <2>16, <2>17, <2>18,
       <2>19, <2>20, <2>21, <2>22, <2>23, <2>24 DEF Execute
<1>2. CASE RequestCancel
  BY <1>2 DEF RequestCancel, watch, WatchMoves
<1>3. CASE Route
  BY <1>3 DEF WatchMoves
<1>4. CASE Reload
  BY <1>4 DEF WatchMoves
<1>5. ASSUME NEW p \in Processes, Cancel(p) PROVE WatchMoves
  <2>1. CASE SetFlag(p)
    BY <2>1 DEF SetFlag, watch, WatchMoves
  <2>2. CASE ReadMessage(p)
    BY <2>2 DEF ReadMessage, watch, WatchMoves
  <2>3. CASE CancelSteps(p)
    <3>1. PICK e, f : e = AgentState /\ f = Step(FALSE)
      OBVIOUS
    <3>2. /\ e \in Events
          /\ e.type = "agent_state" /\ e.version = -1
          /\ e.text = <<>> /\ e.onMessage
          /\ f \in Events
          /\ f.type = "process.step" /\ f.version = -1 /\ ~f.open
          /\ f.text = <<>> /\ f.onMessage
      BY <3>1, EventsAre
    <3>3. IsTold(p, e)' /\ Says(e)
      <4>1. EventTold(p, e)'
        BY <2>3, <1>0, <1>00, <1>01, <1>5, <3>2
           DEF CancelSteps, CancelGoes, EndsTold, EventTold, IsTerminalEvent, Undisturbed, NobodyCancels,
               Generating, NoVersion, Processes, RowsTyped
      <4>2. EventOfWorker(p, e)'
        BY <2>3, <1>0, <1>00, <1>01, <1>5, <3>2
           DEF CancelSteps, CancelGoes, EndsTold, EventOfWorker, IsPartEvent, WorkerTold, Processes, RowsTyped
      <4>3. Says(e)
        BY <2>3, <3>2 DEF Says, IsPartEvent, IsOpenStep
      <4> QED
        BY <4>1, <4>2, <4>3 DEF IsTold
    <3>4. IsTold(p, f)' /\ Says(f)
      <4>1. EventTold(p, f)'
        BY <2>3, <1>0, <1>00, <1>01, <1>5, <3>2
           DEF CancelSteps, CancelGoes, EndsTold, EventTold, IsTerminalEvent, Undisturbed, NobodyCancels,
               Generating, NoVersion, Processes, RowsTyped
      <4>2. EventOfWorker(p, f)'
        BY <2>3, <1>0, <1>00, <1>01, <1>5, <3>2
           DEF CancelSteps, CancelGoes, EndsTold, EventOfWorker, IsPartEvent, WorkerTold, Processes, RowsTyped
      <4>3. Says(f)
        BY <2>3, <3>2 DEF Says, IsPartEvent, IsOpenStep
      <4> QED
        BY <4>1, <4>2, <4>3 DEF IsTold
    <3>5. CASE stepOpen
      <4>1. Publish(p, <<f, e>>)
        BY <2>3, <3>1, <3>5, ClosedAre DEF CancelSteps
      <4> QED
        BY <3>2, <3>3, <3>4, <4>1, TellsTwo DEF WatchMoves
    <3>6. CASE ~stepOpen
      <4>1. Publish(p, <<e>>)
        BY <2>3, <3>1, <3>6, ClosedAre DEF CancelSteps
      <4> QED
        BY <3>2, <3>3, <4>1, TellsOne DEF WatchMoves
    <3> QED
      BY <3>5, <3>6 DEF RowsTyped
  <2>4. CASE CancelMessage(p)
    BY <2>4 DEF CancelMessage, watch, WatchMoves
  <2>5. CASE AnnounceMessageCancelled(p)
    <3>1. PICK e : e = Updated("cancelled", cancel[p].text)
      OBVIOUS
    <3>2. /\ e \in Events
          /\ e.type = "session.message.updated" /\ e.version = -1
          /\ e.onMessage /\ e.status = "cancelled"
      <4>1. cancel[p].text \in Seq(Int)
        BY <1>0, <1>5, TextsAre DEF RowsTyped
      <4> QED
        BY <3>1, <4>1, EventsAre DEF Statuses
    <3>3. IsTold(p, e)' /\ Says(e)
      <4>1. EventTold(p, e)'
        BY <2>5, <1>0, <1>00, <1>01, <1>5, <3>2
           DEF AnnounceMessageCancelled, CancelGoes, EndsTold, EventTold, IsTerminalEvent, Undisturbed, NobodyCancels,
               Generating, NoVersion, Processes, Ended, rows, RowsTyped
      <4>2. EventOfWorker(p, e)'
        BY <2>5, <1>0, <1>00, <1>01, <1>5, <3>2
           DEF AnnounceMessageCancelled, CancelGoes, EndsTold, EventOfWorker, IsPartEvent, WorkerTold, Processes, Ended, rows, RowsTyped
      <4>3. Says(e)
        BY <2>5, <3>2 DEF Says, IsPartEvent, IsOpenStep
      <4> QED
        BY <4>1, <4>2, <4>3 DEF IsTold
    <3>4. Publish(p, <<e>>)
      BY <2>5, <3>1 DEF AnnounceMessageCancelled
    <3> QED
      BY <3>2, <3>3, <3>4, TellsOne DEF WatchMoves
  <2>6. CASE CancelDraft(p)
    BY <2>6 DEF CancelDraft, watch, WatchMoves
  <2>7. CASE AnnounceCancelled(p)
    <3>1. PICK e : e = Cancelled(cancel[p].linked)
      OBVIOUS
    <3>2. /\ e \in Events
          /\ e.type = "cancelled" /\ e.version = -1 /\ e.text = <<>>
      BY <1>0, <1>5, <3>1, EventsAre DEF RowsTyped
    <3>3. IsTold(p, e)' /\ Says(e)
      <4>1. EventTold(p, e)'
        BY <2>7, <1>0, <1>00, <1>01, <1>5, <3>2
           DEF AnnounceCancelled, CancelGoes, EndsTold, EventTold, IsTerminalEvent, Undisturbed, NobodyCancels,
               Generating, NoVersion, Processes, rows, RowsTyped
      <4>2. EventOfWorker(p, e)'
        BY <2>7, <1>0, <1>00, <1>01, <1>5, <3>2
           DEF AnnounceCancelled, CancelGoes, EndsTold, EventOfWorker, IsPartEvent, WorkerTold, Processes, rows, RowsTyped
      <4>3. Says(e)
        BY <2>7, <3>2 DEF Says, IsPartEvent, IsOpenStep
      <4> QED
        BY <4>1, <4>2, <4>3 DEF IsTold
    <3>4. Publish(p, <<e>>)
      BY <2>7, <3>1 DEF AnnounceCancelled
    <3> QED
      BY <3>2, <3>3, <3>4, TellsOne DEF WatchMoves
  <2>8. CASE CancelRun(p)
    BY <2>8 DEF CancelRun, watch, WatchMoves
  <2> QED
    BY <1>5, <2>1, <2>2, <2>3, <2>4, <2>5, <2>6, <2>7, <2>8 DEF Cancel
<1>6. ASSUME NEW p \in Processes, Deliver(p) PROVE WatchMoves
  BY <1>6 DEF WatchMoves
<1>7. CASE UNCHANGED vars
  BY <1>7 DEF vars, rows, watch, WatchMoves
<1> QED
  BY <1>1, <1>2, <1>3, <1>4, <1>5, <1>6, <1>7 DEF Next, Done


-----------------------------------------------------------------------------
(* What the connection and the page get to hear.                           *)

\* Any event: the types, and no version but its own.
LEMMA Applied ==
    ASSUME NEW m, IsMessage(m), NEW e \in Events,
           e.type # "cancelled" => e.onMessage
    PROVE  /\ IsMessage(ApplyEvent(m, e))
           /\ ApplyEvent(m, e).version \in {m.version, e.version}
<1>1. CASE e.type \in {"session.message.created", "session.message.updated"}
  BY <1>1, AppliedRecord DEF IsMessage
<1>2. CASE IsPartEvent(e)
  BY <1>2, AppliedPart DEF IsMessage, IsPartEvent
<1>3. CASE e.type = "final_answer"
  BY <1>3, AppliedAnswer DEF IsMessage
<1>4. CASE ~IsPartEvent(e) /\ e.type \notin
             {"session.message.created", "session.message.updated", "final_answer"}
  BY <1>4, AppliedOther
<1> QED
  BY <1>1, <1>2, <1>3, <1>4

LEMMA Received ==
    ASSUME NEW c \in Conns, NEW m, NEW e \in Events
    PROVE  LET r == Receive(<<c, m>>, e) IN
             /\ r = <<r[1], r[2]>> /\ r[1] \in Conns
             /\ r[1].snap = c.snap /\ r[1].fresh = c.fresh
             /\ r[1].early = c.early
             /\ c.stage \notin Listening => r = <<c, m>>
             /\ c.stage \in Listening => r[2] = ApplyEvent(m, e)
             /\ c.stage \in Listening /\ IsTerminalEvent(e) =>
                  r[1].stage = "ended" /\ r[1].by = e
             /\ ~IsTerminalEvent(e) => r[1] = c
             /\ r[1].stage \in {c.stage, "ended"}
<1> DEFINE d == [c EXCEPT !.stage = "ended", !.by = e]
<1>1. /\ d \in Conns /\ d.snap = c.snap /\ d.fresh = c.fresh
      /\ d.early = c.early /\ d.stage = "ended" /\ d.by = e
  BY DEF Conns, Stages
<1>2. Receive(<<c, m>>, e) =
        IF c.stage \notin Listening THEN <<c, m>>
        ELSE <<IF IsTerminalEvent(e) THEN d ELSE c, ApplyEvent(m, e)>>
  BY DEF Receive
<1> HIDE DEF d
<1> QED
  BY <1>1, <1>2

WatchTyped ==
    /\ wire \in [Processes -> Seq(Events)]
    /\ conn \in Conns /\ IsMessage(conn.snap)
    /\ IsMessage(page)

EventsTold == \A p \in Processes : \A i \in 1..Len(wire[p]) :
                IsTold(p, wire[p][i])

\* Whatever holds of the connection and the page, and is kept by every event
\* that is told, holds after a publication.
LEMMA PublishKeeps ==
    ASSUME NEW S, NEW p, NEW q, Tells(p, q),
           S \subseteq Conns \X Messages,
           <<conn, page>> \in S,
           \A cm \in S : \A i \in 1..Len(q) : Receive(cm, q[i]) \in S
    PROVE  <<conn', page'>> \in S
<1> DEFINE heard == IF p = "api" THEN FoldLeft(Receive, <<conn, page>>, q)
                                ELSE <<conn, page>>
<1>1. conn' = heard[1] /\ page' = heard[2]
  BY DEF Tells, Publish
<1>2. heard \in S
  <2> HIDE DEF heard
  <2>1. q \in Seq(Events) /\ Len(q) \in 0..2
    <3>1. q \in Seq(Events) /\ Len(q) <= 2
      BY DEF Tells
    <3>2. Len(q) \in Nat
      BY <3>1, LenProperties
    <3>3. \A n \in Nat : n <= 2 => n \in 0..2
      OBVIOUS
    <3> QED
      BY <3>1, <3>2, <3>3
  <2>2. CASE p # "api"
    BY <2>2 DEF heard
  <2>3. CASE p = "api" /\ Len(q) = 0
    <3>1. DOMAIN q = {}
      BY <2>1, <2>3
    <3> QED
      BY <2>3, <3>1, FoldNone DEF heard
  <2>4. CASE p = "api" /\ Len(q) = 1
    <3>1. DOMAIN q = {1} /\ 1 \in 1..Len(q)
      BY <2>1, <2>4
    <3> QED
      BY <2>4, <3>1, FoldOne DEF heard
  <2>5. CASE p = "api" /\ Len(q) = 2
    <3>1. DOMAIN q = {1, 2} /\ 1 \in 1..Len(q) /\ 2 \in 1..Len(q)
      BY <2>1, <2>5
    <3>2. Receive(<<conn, page>>, q[1]) \in S
      BY <3>1
    <3>3. Receive(Receive(<<conn, page>>, q[1]), q[2]) \in S
      BY <3>1, <3>2
    <3> QED
      BY <2>5, <3>1, <3>3, FoldTwo DEF heard
  <2> QED
    BY <2>1, <2>2, <2>3, <2>4, <2>5
<1> HIDE DEF heard
<1>3. heard = <<heard[1], heard[2]>>
  BY <1>2
<1> QED
  BY <1>1, <1>2, <1>3

\* The wires after a publication, and after a delivery.
LEMMA PublishedWire ==
    ASSUME wire \in [Processes -> Seq(Events)], NEW p \in Processes, NEW q,
           Tells(p, q)
    PROVE  /\ wire' \in [Processes -> Seq(Events)]
           /\ wire'[p] = wire[p] \o q
           /\ \A r \in Processes : r # p => wire'[r] = wire[r]
<1>1. q \in Seq(Events) /\ wire' = [wire EXCEPT ![p] = wire[p] \o q]
  BY DEF Tells, Publish
<1>2. wire[p] \o q \in Seq(Events)
  BY <1>1
<1> QED
  BY <1>1, <1>2

LEMMA DeliveredWire ==
    ASSUME wire \in [Processes -> Seq(Events)], NEW p \in Processes, Deliver(p)
    PROVE  /\ wire' \in [Processes -> Seq(Events)]
           /\ wire[p] # <<>> /\ Len(wire[p]) \in Nat \ {0}
           /\ wire[p][1] \in Events
           /\ wire'[p] = Tail(wire[p])
           /\ Len(wire'[p]) = Len(wire[p]) - 1
           /\ \A i \in 1..Len(wire'[p]) : wire'[p][i] = wire[p][i + 1]
           /\ \A r \in Processes : r # p => wire'[r] = wire[r]
           /\ <<conn', page'>> = Receive(<<conn, page>>, wire[p][1]) \/
              conn \notin Conns
<1>1. /\ wire[p] # <<>> /\ wire[p] \in Seq(Events)
      /\ wire' = [wire EXCEPT ![p] = Tail(wire[p])]
      /\ conn' = Receive(<<conn, page>>, Head(wire[p]))[1]
      /\ page' = Receive(<<conn, page>>, Head(wire[p]))[2]
  BY DEF Deliver
<1>2. /\ Tail(wire[p]) \in Seq(Events) /\ Len(wire[p]) \in Nat \ {0}
      /\ Head(wire[p]) = wire[p][1] /\ wire[p][1] \in Events
      /\ Len(Tail(wire[p])) = Len(wire[p]) - 1
      /\ \A i \in 1..Len(Tail(wire[p])) : Tail(wire[p])[i] = wire[p][i + 1]
  BY <1>1
<1>3. conn \in Conns =>
        <<conn', page'>> = Receive(<<conn, page>>, wire[p][1])
  BY <1>1, <1>2, Received
<1> QED
  BY <1>1, <1>2, <1>3


VersionsTold ==
    /\ page.version \in NoVersion..draft.version
    /\ conn.snap.version \in NoVersion..draft.version

WatchIInv == WatchTyped /\ EventsTold /\ VersionsTold

\* What was told stays told; what is new is told by WatchStep.
LEMMA EventsToldStep ==
    RowsIInv /\ RowsIInv' /\ WatchIInv /\ [Next]_vars =>
      wire' \in [Processes -> Seq(Events)] /\ EventsTold'
<1> SUFFICES ASSUME RowsIInv, RowsIInv', WatchIInv, [Next]_vars
             PROVE  wire' \in [Processes -> Seq(Events)] /\ EventsTold'
  OBVIOUS
<1>0. /\ wire \in [Processes -> Seq(Events)]
      /\ \A p \in Processes : \A i \in 1..Len(wire[p]) : IsTold(p, wire[p][i])
  BY DEF WatchIInv, WatchTyped, EventsTold
<1>1. ASSUME NEW p \in Processes, NEW i \in 1..Len(wire[p])
      PROVE  wire[p][i] \in Events /\ IsTold(p, wire[p][i])
  <2>1. wire[p] \in Seq(Events)
    BY <1>0
  <2> QED
    BY <1>0, <2>1
<1>2. ASSUME NEW p \in Processes, NEW e \in Events, IsTold(p, e)
      PROVE  IsTold(p, e)'
  BY <1>2, StillTold DEF IsTold
<1>3. WatchMoves
  BY WatchStep
<1>4. CASE wire' = wire
  <2>1. ASSUME NEW p \in Processes, NEW i \in 1..Len(wire'[p])
        PROVE  IsTold(p, wire[p][i])'
    <3>1. PICK e \in Events : e = wire[p][i]
      BY <1>1, <1>4, <2>1
    <3>2. IsTold(p, e)'
      BY <1>1, <1>2, <1>4, <2>1, <3>1
    <3>3. e = wire'[p][i]
      BY <1>4, <3>1
    <3> QED
      BY <3>2, <3>3
  <2> QED
    BY <1>0, <1>4, <2>1 DEF EventsTold
<1>5. ASSUME NEW p \in Processes, NEW q, Tells(p, q)
      PROVE  wire' \in [Processes -> Seq(Events)] /\ EventsTold'
  <2>1. /\ wire' \in [Processes -> Seq(Events)]
        /\ wire'[p] = wire[p] \o q
        /\ \A r \in Processes : r # p => wire'[r] = wire[r]
    BY <1>0, <1>5, PublishedWire
  <2>2. q \in Seq(Events) /\ \A i \in 1..Len(q) : IsTold(p, q[i])'
    BY <1>5 DEF Tells
  <2>3. wire[p] \in Seq(Events)
    BY <1>0
  <2>4. ASSUME NEW r \in Processes, NEW i \in 1..Len(wire'[r])
        PROVE  IsTold(r, wire[r][i])'
    <3>1. CASE r = p /\ i > Len(wire[p])
      <4>1. wire'[r][i] = q[i - Len(wire[p])] /\ i - Len(wire[p]) \in 1..Len(q)
        BY <2>1, <2>2, <2>3, <2>4, <3>1
      <4>2. PICK e : e = q[i - Len(wire[p])]
        OBVIOUS
      <4>3. IsTold(p, e)'
        BY <2>2, <4>1, <4>2
      <4> QED
        BY <3>1, <4>1, <4>2, <4>3
    <3>2. CASE ~(r = p /\ i > Len(wire[p]))
      <4>1. wire'[r][i] = wire[r][i] /\ i \in 1..Len(wire[r])
        BY <2>1, <2>2, <2>3, <2>4, <3>2
      <4>2. PICK e \in Events : e = wire[r][i]
        BY <1>1, <4>1
      <4>3. IsTold(r, e)'
        BY <1>1, <1>2, <4>1, <4>2
      <4> QED
        BY <4>1, <4>2, <4>3
    <3> QED
      BY <3>1, <3>2
  <2> QED
    BY <2>1, <2>4 DEF EventsTold
<1>6. ASSUME NEW p \in Processes, Deliver(p)
      PROVE  wire' \in [Processes -> Seq(Events)] /\ EventsTold'
  <2>1. /\ wire' \in [Processes -> Seq(Events)]
        /\ Len(wire[p]) \in Nat \ {0}
        /\ Len(wire'[p]) = Len(wire[p]) - 1
        /\ \A i \in 1..Len(wire'[p]) : wire'[p][i] = wire[p][i + 1]
        /\ \A r \in Processes : r # p => wire'[r] = wire[r]
    BY <1>0, <1>6, DeliveredWire
  <2>2. ASSUME NEW r \in Processes, NEW i \in 1..Len(wire'[r])
        PROVE  IsTold(r, wire[r][i])'
    <3>1. PICK j \in 1..Len(wire[r]) : wire'[r][i] = wire[r][j]
      <4>1. CASE r = p
        <5>1. i + 1 \in 1..Len(wire[p])
          BY <2>1, <2>2, <4>1
        <5> QED
          BY <2>1, <2>2, <4>1, <5>1
      <4>2. CASE r # p
        BY <2>1, <2>2, <4>2
      <4> QED
        BY <4>1, <4>2
    <3>2. PICK e \in Events : e = wire[r][j]
      BY <1>1
    <3>3. IsTold(r, e)'
      BY <1>1, <1>2, <3>2
    <3> QED
      BY <3>1, <3>2, <3>3
  <2> QED
    BY <2>1, <2>2 DEF EventsTold
<1>7. CASE UNCHANGED watch \/ Route \/ Reload
  <2>1. wire' = wire
    BY <1>7 DEF watch, Route, Subscribe, ReadRun, ReadRow, ReadDraft,
       WriteSnapshot, LoadSession, Reload
  <2> QED
    BY <1>4, <2>1
<1> QED
  BY <1>3, <1>5, <1>6, <1>7 DEF WatchMoves



-----------------------------------------------------------------------------
(* The route: what it reads and writes.                                    *)

LEMMA SnapshotIs ==
    ASSUME NEW s \in Statuses, NEW t \in Texts, NEW v \in Int, RowsTyped
    PROVE  /\ Snapshot(s, t, v) \in Messages /\ IsMessage(Snapshot(s, t, v))
           /\ Snapshot(s, t, v).text = t /\ Snapshot(s, t, v).version = v
           /\ Snapshot(s, t, v).known /\ Snapshot(s, t, v).stepOpen = stepOpen
<1>1. t \in Seq(Int) /\ stepOpen \in BOOLEAN
  BY TextsAre DEF RowsTyped
<1> QED
  BY <1>1 DEF Snapshot, Messages, IsMessage

LEMMA SettledIs ==
    ASSUME NEW c \in Conns
    PROVE  LET d == Settled(c) IN
             /\ d \in Conns /\ d.snap = c.snap /\ d.fresh = c.fresh
             /\ ~c.sawRunning => d.stage = "ended" /\ d.early = c.early
             /\ c.sawRunning => d.stage = "live" /\ d.early = Undisturbed
<1>1. Undisturbed \in BOOLEAN
  BY DEF Undisturbed, NobodyCancels
<1> DEFINE u == Undisturbed
<1> HIDE DEF u
<1>2. u \in BOOLEAN
  BY <1>1 DEF u
<1>3. Settled(c) = IF c.sawRunning THEN [c EXCEPT !.stage = "live", !.early = u]
                                   ELSE [c EXCEPT !.stage = "ended"]
  BY DEF Settled, u
<1>4. {"live", "ended"} \subseteq Stages
  BY DEF Stages, Listening
<1>5. CASE c.sawRunning
  <2>1. Settled(c) = [c EXCEPT !.stage = "live", !.early = u]
    BY <1>3, <1>5
  <2> QED
    BY <1>2, <1>4, <1>5, <2>1 DEF Conns, u
<1>6. CASE ~c.sawRunning
  <2>1. Settled(c) = [c EXCEPT !.stage = "ended"]
    BY <1>3, <1>6
  <2> QED
    BY <1>4, <1>6, <2>1 DEF Conns
<1> QED
  BY <1>5, <1>6

LEMMA NewConnectionIs ==
    /\ NewConnection \in Conns /\ NewConnection.snap = NoMessage
    /\ NewConnection.stage = "open" /\ ~NewConnection.fresh
    /\ ~NewConnection.early
    /\ \A s \in Stages, b \in BOOLEAN :
         LET d == [NewConnection EXCEPT !.stage = s, !.sawRunning = b] IN
           /\ d \in Conns /\ d.snap = NoMessage /\ d.stage = s
           /\ ~d.fresh /\ ~d.early /\ d.sawRunning = b
<1>1. Event("none") \in Events
  BY EventIs DEF EventTypes
<1>2. /\ NewConnection \in Conns /\ NewConnection.snap = NoMessage
      /\ NewConnection.stage = "open" /\ ~NewConnection.fresh
      /\ ~NewConnection.early
  BY <1>1, NoMessageIs DEF NewConnection, Conns, Stages
<1> QED
  BY <1>2 DEF Conns

LEMMA ApplySnapshotIs ==
    ASSUME NEW m, NEW s PROVE ApplySnapshot(m, s) \in {m, s}
BY DEF ApplySnapshot

\* What each step of the route leaves in the connection and the page.
LEMMA RouteIs ==
    ASSUME RowsIInv, WatchTyped, Route \/ Reload
    PROVE  /\ UNCHANGED <<place, rows, exec, cancel, wire>>
           /\ conn' \in Conns
           /\ IsMessage(conn'.snap) /\ IsMessage(page')
           /\ \/ conn'.snap = conn.snap
              \/ /\ conn'.snap.version = NoVersion
                 /\ conn'.snap.text \in {msg.text, <<>>}
              \/ /\ conn'.snap.version = draft.version
                 /\ conn'.snap.text = draft.text
           /\ \/ page' \in {page, conn.snap}
              \/ page'.version = NoVersion /\ page'.text \in {msg.text, <<>>}
<1>0. RowsTyped /\ DraftTold
  BY DEF RowsIInv
<1>00. /\ conn \in Conns /\ IsMessage(conn.snap) /\ IsMessage(page)
  BY DEF WatchTyped
<1>000. NoVersion \in Int /\ draft.version \in Int
  BY <1>0 DEF NoVersion, RowsTyped
<1>1. CASE Subscribe
  <2>1. conn' \in Conns /\ conn'.snap = conn.snap
    <3> DEFINE f == exec.deltas = 0 /\ exec.pc \in Generating
    <3>1. f \in BOOLEAN
      OBVIOUS
    <3>2. conn' = [conn EXCEPT !.stage = "subscribed", !.fresh = f]
      BY <1>1 DEF Subscribe
    <3> HIDE DEF f
    <3> QED
      BY <1>00, <3>1, <3>2 DEF Conns, Stages, Listening
  <2> QED
    BY <1>1, <1>00, <2>1 DEF Subscribe
<1>2. CASE ReadRun
  <2> DEFINE b == run.status = "running"
             c == [conn EXCEPT !.sawRunning = b]
  <2>1. c \in Conns /\ c.snap = conn.snap
    BY <1>00 DEF Conns
  <2>2. conn' = IF run.linked THEN [c EXCEPT !.stage = "row"] ELSE Settled(c)
    BY <1>2 DEF ReadRun
  <2> HIDE DEF c
  <2>3. [c EXCEPT !.stage = "row"] \in Conns /\ [c EXCEPT !.stage = "row"].snap = c.snap
    BY <2>1 DEF Conns, Stages, Listening
  <2>4. conn' \in Conns /\ conn'.snap = conn.snap
    BY <2>1, <2>2, <2>3, SettledIs
  <2> QED
    BY <1>2, <1>00, <2>4 DEF ReadRun
<1>3. CASE ReadRow
  <2> DEFINE s == Snapshot(msg.status, msg.text, NoVersion)
  <2>1. IsMessage(s) /\ s \in Messages /\ s.version = NoVersion /\ s.text = msg.text
    BY <1>0, <1>000, SnapshotIs DEF RowsTyped
  <2>2. conn' = IF msg.status = "running" THEN [conn EXCEPT !.stage = "draft"]
                ELSE [conn EXCEPT !.stage = "write", !.snap = s]
    BY <1>3 DEF ReadRow
  <2> HIDE DEF s
  <2>3. conn' \in Conns /\ conn'.snap \in {conn.snap, s}
    BY <1>00, <2>1, <2>2 DEF Conns, Stages, Listening
  <2> QED
    BY <1>3, <1>00, <2>1, <2>3 DEF ReadRow
<1>4. CASE ReadDraft
  <2> DEFINE s == IF draft.exists
                    THEN Snapshot("running", draft.text, draft.version)
                    ELSE Snapshot("running", <<>>, NoVersion)
  <2>0. "running" \in Statuses /\ draft.text \in Texts /\ <<>> \in Texts
    BY <1>0, TextsAre DEF RowsTyped, Statuses
  <2>1. /\ IsMessage(s) /\ s \in Messages
        /\ \/ s.version = NoVersion /\ s.text = <<>>
           \/ s.version = draft.version /\ s.text = draft.text
    BY <1>0, <1>000, <2>0, SnapshotIs
  <2>2. conn' = [conn EXCEPT !.stage = "write", !.snap = s]
    BY <1>4 DEF ReadDraft
  <2> HIDE DEF s
  <2>3. conn' \in Conns /\ conn'.snap = s
    BY <1>00, <2>1, <2>2 DEF Conns, Stages, Listening
  <2> QED
    BY <1>4, <1>00, <2>1, <2>3 DEF ReadDraft
<1>5. CASE WriteSnapshot
  <2>1. conn' \in Conns /\ conn'.snap = conn.snap
    BY <1>5, <1>00, SettledIs DEF WriteSnapshot
  <2>2. page' \in {page, conn.snap}
    BY <1>5, ApplySnapshotIs DEF WriteSnapshot
  <2> QED
    BY <1>5, <1>00, <2>1, <2>2 DEF WriteSnapshot
<1>6. CASE LoadSession
  <2> DEFINE s == Snapshot(msg.status, msg.text, NoVersion)
  <2>1. IsMessage(s) /\ s.version = NoVersion /\ s.text = msg.text
    BY <1>0, <1>000, SnapshotIs DEF RowsTyped
  <2>2. /\ IsMessage(NoMessage) /\ NoMessage.version = NoVersion
        /\ NoMessage.text = <<>>
    BY NoMessageIs DEF IsMessage, NoVersion
  <2>3. page' \in {s, NoMessage}
    BY <1>6 DEF LoadSession
  <2> HIDE DEF s
  <2>4. conn' \in Conns /\ conn'.snap = conn.snap
    BY <1>6, <1>00 DEF LoadSession, Conns, Stages
  <2> QED
    BY <1>6, <1>00, <2>1, <2>2, <2>3, <2>4 DEF LoadSession
<1>7. CASE Reload
  <2>1. conn' \in Conns /\ conn'.snap = NoMessage
    <3>1. PICK s \in Stages : s = "reload"
      BY DEF Stages
    <3>2. PICK b \in BOOLEAN : b = (run.status = "running")
      OBVIOUS
    <3>3. conn' = [NewConnection EXCEPT !.stage = s, !.sawRunning = b]
      BY <1>7, <3>1, <3>2 DEF Reload
    <3> QED
      BY <3>3, NewConnectionIs
  <2>2. /\ IsMessage(NoMessage) /\ NoMessage.version = NoVersion
        /\ NoMessage.text = <<>>
    BY NoMessageIs DEF IsMessage, NoVersion
  <2> QED
    BY <1>7, <1>00, <2>1, <2>2 DEF Reload
<1> QED
  BY <1>1, <1>2, <1>3, <1>4, <1>5, <1>6, <1>7 DEF Route

\* An invariant of the connection and the page, given as a set: every event
\* that is told keeps it, and so does the route.
LEMMA HearingKeeps ==
    ASSUME RowsIInv, RowsIInv', WatchTyped, EventsTold, [Next]_vars,
           NEW S, S \subseteq Conns \X Messages,
           <<conn, page>> \in S,
           \A cm \in S, e \in Events, p \in Processes :
             IsTold(p, e) \/ IsTold(p, e)' => Receive(cm, e) \in S,
           Route \/ Reload => <<conn', page'>> \in S
    PROVE  <<conn', page'>> \in S
<1>1. WatchMoves
  BY WatchStep
<1>2. CASE UNCHANGED watch
  BY <1>2 DEF watch
<1>3. ASSUME NEW p \in Processes, NEW q, Tells(p, q)
      PROVE  <<conn', page'>> \in S
  <2>1. \A i \in 1..Len(q) : q[i] \in Events /\ IsTold(p, q[i])'
    BY <1>3 DEF Tells
  <2>2. ASSUME NEW cm \in S, NEW i \in 1..Len(q)
        PROVE  Receive(cm, q[i]) \in S
    <3>1. PICK e \in Events : e = q[i]
      BY <2>1
    <3>2. IsTold(p, e)'
      BY <2>1, <3>1
    <3> QED
      BY <3>1, <3>2
  <2> QED
    BY <1>3, <2>2, PublishKeeps
<1>4. ASSUME NEW p \in Processes, Deliver(p)
      PROVE  <<conn', page'>> \in S
  <2>1. /\ wire[p][1] \in Events /\ Len(wire[p]) \in Nat \ {0}
        /\ <<conn', page'>> = Receive(<<conn, page>>, wire[p][1])
    BY <1>4, DeliveredWire DEF WatchTyped
  <2>2. IsTold(p, wire[p][1])
    BY <2>1 DEF EventsTold
  <2> QED
    BY <2>1, <2>2
<1> QED
  BY <1>1, <1>2, <1>3, <1>4 DEF WatchMoves

LEMMA WatchIStep == RowsIInv /\ RowsIInv' /\ WatchIInv /\ [Next]_vars => WatchIInv'
<1> SUFFICES ASSUME RowsIInv, RowsIInv', WatchIInv, [Next]_vars
             PROVE  WatchIInv'
  OBVIOUS
<1>0. /\ wire \in [Processes -> Seq(Events)] /\ conn \in Conns
      /\ IsMessage(conn.snap) /\ IsMessage(page)
      /\ WatchTyped /\ VersionsTold /\ EventsTold
  BY DEF WatchIInv, WatchTyped
<1>1. wire' \in [Processes -> Seq(Events)] /\ EventsTold'
  BY EventsToldStep
<1>2. /\ draft.version \in Nat /\ draft'.version \in Nat
      /\ draft'.version >= draft.version
  BY RowsMoveStep DEF RowsIInv, RowsTyped, RowsMove
<1> DEFINE v == draft'.version
           S == {cm \in Conns \X Messages :
                   /\ IsMessage(cm[1].snap) /\ IsMessage(cm[2])
                   /\ cm[1].snap.version \in NoVersion..v
                   /\ cm[2].version \in NoVersion..v}
<1>3. <<conn, page>> \in S
  <2>1. page \in Messages
    BY <1>0 DEF IsMessage
  <2>2. /\ page.version \in NoVersion..v
        /\ conn.snap.version \in NoVersion..v
    BY <1>0, <1>2 DEF VersionsTold, NoVersion
  <2> QED
    BY <1>0, <2>1, <2>2
<1>4. ASSUME NEW e \in Events, NEW p, IsTold(p, e) \/ IsTold(p, e)'
      PROVE  (e.type # "cancelled" => e.onMessage) /\ e.version \in NoVersion..v
  BY <1>2, <1>4 DEF IsTold, EventTold, NoVersion
<1>5. ASSUME NEW cm \in S, NEW e \in Events,
             e.type # "cancelled" => e.onMessage, e.version \in NoVersion..v
      PROVE  Receive(cm, e) \in S
  <2> DEFINE c == cm[1]
             m == cm[2]
             r == Receive(cm, e)
  <2>1. /\ cm = <<c, m>> /\ c \in Conns /\ IsMessage(c.snap) /\ IsMessage(m)
        /\ c.snap.version \in NoVersion..v /\ m.version \in NoVersion..v
    OBVIOUS
  <2>2. /\ r = <<r[1], r[2]>> /\ r[1] \in Conns /\ r[1].snap = c.snap
        /\ r[2] = m \/ r[2] = ApplyEvent(m, e)
    BY <2>1, Received
  <2>3. /\ IsMessage(ApplyEvent(m, e))
        /\ ApplyEvent(m, e).version \in {m.version, e.version}
    BY <1>5, <2>1, Applied
  <2>4. r[2] \in Messages /\ IsMessage(r[2]) /\ r[2].version \in NoVersion..v
    BY <1>5, <2>1, <2>2, <2>3 DEF IsMessage
  <2> HIDE DEF r, c, m
  <2>5. r \in S
    BY <2>1, <2>2, <2>4
  <2> QED
    BY <2>5 DEF r
<1>6. <<conn', page'>> \in S
  <2>1. ASSUME Route \/ Reload PROVE <<conn', page'>> \in S
    <3>1. /\ conn' \in Conns /\ IsMessage(conn'.snap) /\ IsMessage(page')
          /\ \/ conn'.snap = conn.snap
             \/ conn'.snap.version \in {NoVersion, draft.version}
          /\ page' \in {page, conn.snap} \/ page'.version = NoVersion
      BY <1>0, <2>1, RouteIs
    <3>2. /\ page.version \in NoVersion..v /\ conn.snap.version \in NoVersion..v
          /\ NoVersion \in NoVersion..v /\ draft.version \in NoVersion..v
      BY <1>0, <1>2 DEF VersionsTold, NoVersion
    <3>3. /\ conn'.snap.version \in NoVersion..v
          /\ page'.version \in NoVersion..v
      BY <3>1, <3>2
    <3>4. page' \in Messages
      BY <3>1 DEF IsMessage
    <3> QED
      BY <3>1, <3>3, <3>4
  <2>2. S \subseteq Conns \X Messages
    OBVIOUS
  <2> HIDE DEF S
  <2>3. ASSUME NEW cm \in S, NEW e \in Events, NEW p \in Processes,
               IsTold(p, e) \/ IsTold(p, e)'
        PROVE  Receive(cm, e) \in S
    BY <1>4, <1>5, <2>3
  <2> QED
    BY <1>0, <1>3, <2>1, <2>2, <2>3, HearingKeeps
<1>7. /\ conn' \in Conns /\ IsMessage(conn'.snap) /\ IsMessage(page')
      /\ conn'.snap.version \in NoVersion..v /\ page'.version \in NoVersion..v
  BY <1>6
<1> QED
  BY <1>1, <1>7 DEF WatchIInv, WatchTyped, VersionsTold


StreamIInv == RowsIInv /\ WatchIInv

LEMMA StreamInitially == Init => StreamIInv
<1> SUFFICES ASSUME Init PROVE StreamIInv
  OBVIOUS
<1>1. RowsTyped
  <2>1. /\ place \in Places /\ stepOpen \in BOOLEAN /\ flag \in BOOLEAN
        /\ run \in [status : {"running"} \cup Ended, linked : BOOLEAN]
    BY DEF Init
  <2>2. msg \in [status : Statuses, text : Texts]
    BY TextsAre DEF Init, Statuses
  <2>3. draft \in [exists : BOOLEAN, version : Nat, text : Texts]
    BY TextsAre DEF Init
  <2>4. exec \in [pc : ExecPC, deltas : 0..MaxDeltas, version : Int]
    BY RunStreamAssumption DEF Init, ExecPC, Generating, NoVersion
  <2>5. cancel \in [Processes -> [pc : CancelPC, linked : BOOLEAN, text : Texts]]
    BY TextsAre DEF Init, CancelPC
  <2> QED
    BY <2>1, <2>2, <2>3, <2>4, <2>5 DEF RowsTyped
<1>2. Streamed(0) = <<>>
  BY DEF Streamed
<1>3. DraftTold
  BY <1>2 DEF Init, DraftTold, NoVersion
<1>4. EndsTold
  BY DEF Init, EndsTold, NobodyCancels, Plain, Processes
<1>5. WorkerTold
  BY <1>2 DEF Init, WorkerTold, Processes
<1>6. WatchTyped
  <2>1. wire \in [Processes -> Seq(Events)]
    BY DEF Init
  <2>2. conn = NewConnection /\ page = NoMessage
    BY DEF Init
  <2> QED
    BY <2>1, <2>2, NewConnectionIs, NoMessageIs DEF WatchTyped, IsMessage
<1>7. EventsTold
  BY DEF Init, EventsTold
<1>8. VersionsTold
  <2>1. /\ page.version = -1 /\ conn.snap.version = -1 /\ draft.version = 0
    BY NewConnectionIs, NoMessageIs DEF Init
  <2> QED
    BY <2>1 DEF VersionsTold, NoVersion
<1> QED
  BY <1>1, <1>3, <1>4, <1>5, <1>6, <1>7, <1>8
     DEF StreamIInv, RowsIInv, WatchIInv

LEMMA StreamStep == StreamIInv /\ [Next]_vars => StreamIInv'
<1>1. RowsIInv /\ [Next]_vars => RowsIInv'
  BY RowsTypesStep, DraftStep, EndsStep, WorkerStep DEF RowsIInv
<1> QED
  BY <1>1, WatchIStep DEF StreamIInv

THEOREM StreamInductive == Spec => []StreamIInv
BY StreamInitially, StreamStep, PTL DEF Spec

(***************************************************************************)
(* The variables keep their types, and neither the page nor a snapshot on  *)
(* its way ever claims a version of the draft that has not been written    *)
(* (appendAnswerDelta returns the version the event then carries).         *)
(***************************************************************************)
THEOREM StreamTypeCorrect == Spec => []TypeOK
<1>1. StreamIInv => TypeOK
  <2> SUFFICES ASSUME StreamIInv PROVE TypeOK
    OBVIOUS
  <2>1. RowsTyped /\ DraftTold /\ WatchTyped /\ VersionsTold
    BY DEF StreamIInv, RowsIInv, WatchIInv
  <2>2. draft.version \in 0..(MaxDeltas + 1)
    BY <2>1, RunStreamAssumption DEF RowsTyped, DraftTold
  <2>3. conn.stage \in Listening \cup {"open", "reload", "ended"}
    BY <2>1 DEF WatchTyped, Conns, Stages
  <2>4. /\ run.status \in {"running"} \cup Ended /\ run.linked \in BOOLEAN
        /\ msg.status \in {"absent", "running"} \cup Ended /\ msg.text \in Texts
    BY <2>1 DEF RowsTyped, Statuses, Ended
  <2>5. /\ place \in Places /\ stepOpen \in BOOLEAN /\ draft.text \in Texts
        /\ exec.pc \in ExecPC /\ exec.deltas \in 0..MaxDeltas
        /\ \A p \in Processes : cancel[p].pc \in CancelPC /\ cancel[p].text \in Texts
    BY <2>1 DEF RowsTyped
  <2> QED
    BY <2>1, <2>2, <2>3, <2>4, <2>5 DEF TypeOK, VersionsTold
<1> QED
  BY <1>1, StreamInductive, PTL



-----------------------------------------------------------------------------
(* No delta twice: the deltas of a text are in their order, and none is    *)
(* newer than the version the message has.                                 *)

TextFits(m) ==
    /\ \A i, j \in 1..Len(m.text) : i < j => m.text[i] < m.text[j]
    /\ \A i \in 1..Len(m.text) : m.text[i] <= m.version \/ m.text[i] <= 0

NoRepeat == NobodyCancels => TextFits(page) /\ TextFits(conn.snap)

LEMMA PlainFits ==
    ASSUME NEW m, m.text \in Plain
    PROVE  TextFits(m)
BY DEF TextFits, Plain, Answer, Failure

LEMMA StreamedFits ==
    ASSUME NEW m, m.version \in Nat, m.text = Streamed(m.version)
    PROVE  TextFits(m)
<1>1. /\ Len(m.text) = m.version
      /\ \A i \in 1..m.version : m.text[i] = i
  BY StreamedIs
<1> QED
  BY <1>1 DEF TextFits

LEMMA AppliedFits ==
    ASSUME NEW m, IsMessage(m), TextFits(m), NEW e \in Events,
           e.type # "cancelled" => e.onMessage,
           e.type = "message.part.delta" =>
             e.version \in Nat \ {0} /\ e.text = <<e.version>>,
           e.type # "message.part.delta" => e.text \in Plain
    PROVE  TextFits(ApplyEvent(m, e))
<1> DEFINE n == ApplyEvent(m, e)
<1>0. m \in Messages /\ m.text \in Seq(Int) /\ m.version \in Int
  BY DEF IsMessage, Messages
<1>1. CASE e.type \in {"session.message.created", "session.message.updated",
                       "final_answer"}
  <2>1. n.text = e.text
    BY <1>1, AppliedRecord, AppliedAnswer
  <2>2. n.text \in Plain
    BY <1>1, <2>1
  <2> HIDE DEF n
  <2> QED
    BY <2>2, PlainFits DEF n
<1>2. CASE IsPartEvent(e) /\ ~(e.version = NoVersion \/ e.version > m.version)
  <2>1. n.version = m.version /\ n.text = m.text
    BY <1>2, AppliedPart DEF IsPartEvent
  <2> QED
    BY <2>1 DEF TextFits
<1>3. CASE e.type = "message.part.updated" /\ (e.version = NoVersion \/ e.version > m.version)
  <2>1. n.text = e.text
    BY <1>3, AppliedPart DEF IsPartEvent
  <2>2. n.text \in Plain
    BY <1>3, <2>1
  <2> HIDE DEF n
  <2> QED
    BY <2>2, PlainFits DEF n
<1>4. CASE e.type = "message.part.delta" /\ (e.version = NoVersion \/ e.version > m.version)
  <2>1. e.version \in Nat \ {0} /\ e.text = <<e.version>>
    BY <1>4
  <2>2. /\ n.version = e.version /\ n.text = m.text \o <<e.version>>
        /\ e.version > m.version
    <3>1. IsPartEvent(e) /\ e.onMessage
      BY <1>4 DEF IsPartEvent
    <3>2. e.version # NoVersion /\ e.version > m.version
      BY <1>4, <2>1 DEF NoVersion
    <3>3. n.version = e.version /\ n.text = m.text \o e.text
      BY <1>4, <3>1, <3>2, AppliedPart
    <3> QED
      BY <2>1, <3>2, <3>3
  <2>3. /\ Len(n.text) = Len(m.text) + 1 /\ Len(m.text) \in Nat
        /\ \A i \in 1..Len(m.text) : n.text[i] = m.text[i] /\ m.text[i] \in Int
        /\ n.text[Len(m.text) + 1] = e.version
    BY <1>0, <2>1, <2>2
  <2> HIDE DEF n
  <2>4. \A i \in 1..Len(m.text) : m.text[i] < e.version
    BY <1>0, <2>1, <2>2, <2>3 DEF TextFits
  <2>5. \A i, j \in 1..Len(n.text) : i < j => n.text[i] < n.text[j]
    BY <2>3, <2>4 DEF TextFits
  <2>6. \A i \in 1..Len(n.text) : n.text[i] <= n.version \/ n.text[i] <= 0
    BY <1>0, <2>1, <2>2, <2>3, <2>4
  <2> QED
    BY <2>5, <2>6 DEF TextFits, n
<1>5. CASE ~IsPartEvent(e) /\ e.type \notin
             {"session.message.created", "session.message.updated", "final_answer"}
  <2>1. n.version = m.version /\ n.text = m.text
    BY <1>5, AppliedOther
  <2> QED
    BY <2>1 DEF TextFits
<1> QED
  BY <1>1, <1>2, <1>3, <1>4, <1>5 DEF IsPartEvent

LEMMA NoRepeatStep ==
    StreamIInv /\ StreamIInv' /\ NoRepeat /\ [Next]_vars => NoRepeat'
<1> SUFFICES ASSUME StreamIInv, StreamIInv', NoRepeat, [Next]_vars,
                    NobodyCancels'
             PROVE  TextFits(page)' /\ TextFits(conn.snap)'
  BY DEF NoRepeat
<1>0. /\ RowsIInv /\ RowsIInv' /\ WatchTyped /\ EventsTold
      /\ RowsTyped /\ DraftTold /\ EndsTold
  BY DEF StreamIInv, RowsIInv, WatchIInv
<1>1. NobodyCancels
  BY <1>0, RowsMoveStep DEF RowsMove
<1>2. TextFits(page) /\ TextFits(conn.snap)
  BY <1>1 DEF NoRepeat
<1> DEFINE S == {cm \in Conns \X Messages :
                   /\ IsMessage(cm[2]) /\ TextFits(cm[2])
                   /\ TextFits(cm[1].snap)}
<1>3. S \subseteq Conns \X Messages /\ <<conn, page>> \in S
  BY <1>0, <1>2 DEF WatchTyped, IsMessage
<1>4. ASSUME NEW cm \in S, NEW e \in Events, NEW p \in Processes,
             IsTold(p, e) \/ IsTold(p, e)'
      PROVE  Receive(cm, e) \in S
  <2> DEFINE c == cm[1]
             m == cm[2]
             r == Receive(cm, e)
  <2>1. /\ cm = <<c, m>> /\ c \in Conns /\ IsMessage(m) /\ m \in Messages
        /\ TextFits(m) /\ TextFits(c.snap)
    OBVIOUS
  <2>2. /\ r = <<r[1], r[2]>> /\ r[1] \in Conns /\ r[1].snap = c.snap
        /\ r[2] = m \/ r[2] = ApplyEvent(m, e)
    BY <2>1, Received
  <2>3. /\ e.type # "cancelled" => e.onMessage
        /\ e.type = "message.part.delta" =>
             e.version \in Nat \ {0} /\ e.text = <<e.version>>
        /\ e.type # "message.part.delta" => e.text \in Plain
    BY <1>1, <1>4 DEF IsTold, EventTold
  <2>4. IsMessage(ApplyEvent(m, e)) /\ TextFits(ApplyEvent(m, e))
    BY <2>1, <2>3, Applied, AppliedFits
  <2>5. IsMessage(r[2]) /\ r[2] \in Messages /\ TextFits(r[2])
    BY <2>1, <2>2, <2>4 DEF IsMessage
  <2> HIDE DEF r, c, m
  <2>6. r \in S
    BY <2>1, <2>2, <2>5
  <2> QED
    BY <2>6 DEF r
<1>5. ASSUME Route \/ Reload PROVE <<conn', page'>> \in S
  <2>1. /\ conn' \in Conns /\ IsMessage(page')
        /\ \/ conn'.snap = conn.snap
           \/ conn'.snap.text \in {msg.text, <<>>}
           \/ /\ conn'.snap.version = draft.version
              /\ conn'.snap.text = draft.text
        /\ page' \in {page, conn.snap} \/ page'.text \in {msg.text, <<>>}
    BY <1>0, <1>5, RouteIs
  <2>2. msg.text \in Plain /\ <<>> \in Plain
    BY <1>0, <1>1 DEF EndsTold, Plain
  <2>3. draft.text \in Plain \/ draft.text = Streamed(draft.version)
    BY <1>0 DEF DraftTold, Plain
  <2>4. draft.version \in Nat
    BY <1>0 DEF RowsTyped
  <2>5. TextFits(conn'.snap)
    BY <1>2, <2>1, <2>2, <2>3, <2>4, PlainFits, StreamedFits
  <2>6. TextFits(page') /\ page' \in Messages
    BY <1>2, <2>1, <2>2, PlainFits DEF IsMessage
  <2> QED
    BY <2>1, <2>5, <2>6
<1>6. <<conn', page'>> \in S
  <2> HIDE DEF S
  <2> QED
    BY <1>0, <1>3, <1>4, <1>5, HearingKeeps
<1> QED
  BY <1>6

(***************************************************************************)
(* However often the events of the executor arrive, before, during and     *)
(* after the snapshot, and however often the page is loaded again: as long *)
(* as nobody cancels the run, no delta is shown twice.                     *)
(***************************************************************************)
THEOREM NothingTwice == Spec => []NoDeltaTwice
<1>1. Init => NoRepeat
  <2>1. NoMessage.text \in Plain
    BY NoMessageIs DEF Plain
  <2>2. Init => page = NoMessage /\ conn.snap = NoMessage
    BY NewConnectionIs DEF Init
  <2> QED
    BY <2>1, <2>2, PlainFits DEF NoRepeat
<1>2. StreamIInv /\ NoRepeat => NoDeltaTwice
  <2> SUFFICES ASSUME StreamIInv, TextFits(page)
               PROVE  \A i, j \in DOMAIN page.text :
                        page.text[i] = page.text[j] => i = j
    BY DEF NoRepeat, NoDeltaTwice
  <2>1. page.text \in Seq(Int)
    BY DEF StreamIInv, WatchIInv, WatchTyped, IsMessage, Messages
  <2>2. DOMAIN page.text = 1..Len(page.text) /\ Len(page.text) \in Nat
    BY <2>1
  <2>3. \A i \in 1..Len(page.text) : page.text[i] \in Int
    BY <2>1
  <2> QED
    BY <2>2, <2>3 DEF TextFits
<1> QED
  BY <1>1, <1>2, NoRepeatStep, StreamInductive, PTL DEF Spec


==============================================================================
