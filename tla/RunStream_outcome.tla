--------------------------- MODULE RunStream_outcome ---------------------------
(***************************************************************************)
(* What a page shows while the answer is generated, and in the end: the    *)
(* proofs of FreshTextExact and EndShowsOutcome, on the inductive          *)
(* invariant of RunStream_proofs.                                          *)
(***************************************************************************)
EXTENDS RunStream_proofs

-----------------------------------------------------------------------------
(* The text of a run in a worker.                                          *)

\* Newer parts come later, and no part comes after the final answer.
Ordered(w) ==
    \A i, j \in 1..Len(w) : i < j /\ IsPartEvent(w[j]) =>
      /\ w[i].type # "final_answer"
      /\ IsPartEvent(w[i]) => w[i].version < w[j].version

LEMMA OrderedTail ==
    ASSUME NEW w \in Seq(Events), Ordered(w), NEW t \in Seq(Events),
           Len(t) = Len(w) - 1, \A i \in 1..Len(t) : t[i] = w[i + 1]
    PROVE  Ordered(t)
<1>0. Len(w) \in Nat /\ \A i \in 1..Len(t) : i + 1 \in 1..Len(w)
  OBVIOUS
<1>1. ASSUME NEW i \in 1..Len(t), NEW j \in 1..Len(t), i < j, IsPartEvent(t[j])
      PROVE  /\ t[i].type # "final_answer"
             /\ IsPartEvent(t[i]) => t[i].version < t[j].version
  <2>1. i + 1 \in 1..Len(w) /\ t[i] = w[i + 1]
    BY <1>0
  <2>2. j + 1 \in 1..Len(w) /\ t[j] = w[j + 1]
    BY <1>0
  <2>3. i + 1 < j + 1
    <3>1. i \in Int /\ j \in Int
      OBVIOUS
    <3> QED
      BY <1>1, <3>1
  <2> QED
    BY <1>1, <2>1, <2>2, <2>3 DEF Ordered
<1> QED
  BY <1>1 DEF Ordered

LEMMA OrderedMore ==
    ASSUME NEW w \in Seq(Events), Ordered(w), NEW q \in Seq(Events),
           \A i \in 1..Len(q) : ~IsPartEvent(q[i])
    PROVE  Ordered(w \o q)
<1> DEFINE t == w \o q
<1>1. /\ Len(t) = Len(w) + Len(q) /\ Len(w) \in Nat /\ Len(q) \in Nat
      /\ \A i \in 1..Len(w) : t[i] = w[i]
      /\ \A i \in 1..Len(t) : i > Len(w) =>
           i - Len(w) \in 1..Len(q) /\ t[i] = q[i - Len(w)]
  OBVIOUS
<1> HIDE DEF t
<1>2. ASSUME NEW i \in 1..Len(t), NEW j \in 1..Len(t), i < j, IsPartEvent(t[j])
      PROVE  /\ t[i].type # "final_answer"
             /\ IsPartEvent(t[i]) => t[i].version < t[j].version
  <2>1. j <= Len(w)
    BY <1>1, <1>2
  <2>2. /\ i \in 1..Len(w) /\ j \in 1..Len(w)
        /\ t[i] = w[i] /\ t[j] = w[j]
    BY <1>1, <1>2, <2>1
  <2> QED
    BY <1>2, <2>2 DEF Ordered
<1>3. Ordered(t)
  BY <1>2 DEF Ordered
<1> QED
  BY <1>3 DEF t

LEMMA OrderedPart ==
    ASSUME NEW w \in Seq(Events), Ordered(w), NEW e \in Events,
           \A i \in 1..Len(w) :
             /\ w[i].type # "final_answer"
             /\ IsPartEvent(w[i]) => w[i].version < e.version
    PROVE  Ordered(w \o <<e>>)
<1> DEFINE t == w \o <<e>>
<1>1. /\ Len(t) = Len(w) + 1 /\ Len(w) \in Nat
      /\ \A i \in 1..Len(w) : t[i] = w[i]
      /\ t[Len(w) + 1] = e
  OBVIOUS
<1> HIDE DEF t
<1>2. ASSUME NEW i \in 1..Len(t), NEW j \in 1..Len(t), i < j, IsPartEvent(t[j])
      PROVE  /\ t[i].type # "final_answer"
             /\ IsPartEvent(t[i]) => t[i].version < t[j].version
  <2>1. i \in 1..Len(w) /\ t[i] = w[i]
    BY <1>1, <1>2
  <2>2. CASE j \in 1..Len(w)
    <3>1. t[j] = w[j]
      BY <1>1, <2>2
    <3> QED
      BY <1>2, <2>1, <2>2, <3>1 DEF Ordered
  <2>3. CASE j \notin 1..Len(w)
    <3>1. t[j] = e
      BY <1>1, <1>2, <2>3
    <3> QED
      BY <2>1, <3>1
  <2> QED
    BY <2>2, <2>3
<1>3. Ordered(t)
  BY <1>2 DEF Ordered
<1> QED
  BY <1>3 DEF t

\* The published version moves with the events of the parts only.
LEMMA PublishedStep ==
    RowsIInv /\ [Next]_vars /\ place = "worker" /\ msg'.status = "running" =>
      Published' = Published \/ EmitDelta \/ EmitText
<1> SUFFICES ASSUME RowsIInv, [Next]_vars, place = "worker",
                    msg'.status = "running"
             PROVE  Published' = Published \/ EmitDelta \/ EmitText
  OBVIOUS
<1>0. RowsTyped /\ DraftTold /\ WorkerTold /\ msg.status = "running"
  BY WorkerMovesStep DEF RowsIInv, WorkerMoves
<1>00. draft.version \in Int
  BY <1>0 DEF RowsTyped
<1>1. CASE Execute
  <2>1. CASE CreateMessage
    BY <2>1, <1>0, <1>00 DEF CreateMessage, Goes, watch, execFrame,
       RowsTyped, WorkerTold, Published
  <2>2. CASE EnsureDraft
    BY <2>2, <1>0, <1>00 DEF EnsureDraft, Goes, watch, execFrame,
       RowsTyped, WorkerTold, Published
  <2>3. CASE LinkMessage
    BY <2>3, <1>0, <1>00 DEF LinkMessage, Goes, watch, execFrame,
       RowsTyped, WorkerTold, Published
  <2>4. CASE AnnounceMessage
    BY <2>4, <1>0, <1>00 DEF AnnounceMessage, Goes, rows, execFrame,
       RowsTyped, WorkerTold, Published
  <2>5. CASE AppendDelta
    <3>1. draft'.version = draft.version + 1 /\ exec'.pc = "emit"
      <4>1. draft' = [draft EXCEPT !.version = draft.version + 1,
                                   !.text = Append(@, exec.deltas + 1)]
        BY <2>5 DEF AppendDelta
      <4>2. draft'.version = draft.version + 1
        BY <1>0, <4>1 DEF RowsTyped
      <4> QED
        BY <2>5, <1>0, <4>2 DEF AppendDelta, RowsTyped
    <3>2. exec.pc = "agent"
      BY <2>5 DEF AppendDelta
    <3> QED
      BY <1>00, <3>1, <3>2 DEF Published
  <2>6. CASE EmitDelta
    BY <2>6
  <2>7. CASE OpenStep
    BY <2>7, <1>0, <1>00 DEF OpenStep, Goes, GuardPasses, execFrame,
       Aborted, RowsTyped, WorkerTold, Published
  <2>8. CASE GuardAborts
    BY <2>8, <1>0, <1>00 DEF GuardAborts, Goes, Aborted, rows, watch,
       execFrame, RowsTyped, WorkerTold, Published
  <2>9. CASE GuardCancels
    BY <2>9, <1>0, <1>00 DEF GuardCancels, Goes, Aborted, rows, watch,
       RowsTyped, WorkerTold, Published
  <2>10. CASE GuardCancelled
    BY <2>10, <1>0, <1>00 DEF GuardCancelled, Goes, rows, watch,
       execFrame, RowsTyped, WorkerTold, Published
  <2>11. CASE AgentFails
    BY <2>11, <1>0, <1>00 DEF AgentFails, Goes, rows, watch, execFrame,
       RowsTyped, WorkerTold, Published
  <2>12. CASE AgentAnswers
    BY <2>12, <1>0, <1>00 DEF AgentAnswers, Goes, GuardPasses, rows,
       watch, execFrame, Aborted, RowsTyped, WorkerTold, Published
  <2>13. CASE SetAnswerText
    <3>1. draft'.version = draft.version + 1 /\ exec'.pc = "emitText"
      <4>1. /\ draft' = [draft EXCEPT !.version = @ + 1, !.text = Answer]
            /\ exec' = [exec EXCEPT !.pc = "emitText",
                                    !.version = draft.version + 1]
        BY <2>13, <1>0 DEF SetAnswerText
      <4> QED
        BY <1>0, <4>1 DEF RowsTyped
    <3>2. exec.pc = "text"
      BY <2>13 DEF SetAnswerText
    <3> QED
      BY <1>00, <3>1, <3>2 DEF Published
  <2>14. CASE EmitText
    BY <2>14
  <2>15. CASE CloseSteps
    BY <2>15, <1>0, <1>00 DEF CloseSteps, Goes, execFrame, RowsTyped,
       WorkerTold, Published
  <2>16. CASE CompleteMessage
    BY <2>16, <1>0, <1>00 DEF CompleteMessage, Goes, watch, execFrame,
       RowsTyped, WorkerTold, Published
  <2>17. CASE AnnounceEnd
    BY <2>17, <1>0, <1>00 DEF AnnounceEnd, Goes, rows, execFrame,
       RowsTyped, WorkerTold, Published
  <2>18. CASE CompleteRun
    BY <2>18, <1>0, <1>00 DEF CompleteRun, Goes, EndRun, watch,
       execFrame, RowsTyped, WorkerTold, Published
  <2>19. CASE CatchCancelled
    BY <2>19, <1>0, <1>00 DEF CatchCancelled, Goes, rows, watch,
       execFrame, RowsTyped, WorkerTold, Published
  <2>20. CASE CatchError
    BY <2>20, <1>0, <1>00 DEF CatchError, Goes, rows, execFrame,
       RowsTyped, WorkerTold, Published
  <2>21. CASE FailSteps
    BY <2>21, <1>0, <1>00 DEF FailSteps, Goes, execFrame, RowsTyped,
       WorkerTold, Published
  <2>22. CASE FailMessage
    BY <2>22, <1>0, <1>00 DEF FailMessage, Goes, watch, execFrame,
       RowsTyped, WorkerTold, Published
  <2>23. CASE FailRun
    BY <2>23, <1>0, <1>00 DEF FailRun, Goes, EndRun, watch, execFrame,
       RowsTyped, WorkerTold, Published
  <2>24. CASE RemoveDraft
    BY <2>24, <1>0, <1>00 DEF RemoveDraft, Goes, watch, execFrame,
       RowsTyped, WorkerTold, Published
  <2> QED
    BY <1>1, <2>1, <2>2, <2>3, <2>4, <2>5, <2>6, <2>7, <2>8, <2>9,
       <2>10, <2>11, <2>12, <2>13, <2>14, <2>15, <2>16, <2>17, <2>18,
       <2>19, <2>20, <2>21, <2>22, <2>23, <2>24 DEF Execute
<1>2. CASE RequestCancel
  BY <1>2, <1>0, <1>00 DEF RequestCancel, rows, watch, cancelFrame,
     RowsTyped, WorkerTold, Published
<1>3. CASE Route
  BY <1>0, <1>3 DEF Route, Subscribe, ReadRun, ReadRow, ReadDraft,
     WriteSnapshot, LoadSession, rows, Published
<1>4. CASE Reload
  BY <1>4, <1>0, <1>00 DEF Reload, rows, RowsTyped, WorkerTold, Published
<1>5. ASSUME NEW p \in Processes, Cancel(p) PROVE Published' = Published
  <2>1. CASE SetFlag(p)
    BY <2>1, <1>0, <1>00 DEF SetFlag, CancelGoes, watch, cancelFrame,
       RowsTyped, WorkerTold, Published
  <2>2. CASE ReadMessage(p)
    BY <2>2, <1>0, <1>00 DEF ReadMessage, rows, watch, cancelFrame,
       RowsTyped, WorkerTold, Published
  <2>3. CASE CancelSteps(p)
    BY <2>3, <1>0, <1>00 DEF CancelSteps, CancelGoes, cancelFrame,
       RowsTyped, WorkerTold, Published
  <2>4. CASE CancelMessage(p)
    BY <2>4, <1>0, <1>00 DEF CancelMessage, CancelGoes, watch,
       cancelFrame, RowsTyped, WorkerTold, Published
  <2>5. CASE AnnounceMessageCancelled(p)
    BY <2>5, <1>0, <1>00 DEF AnnounceMessageCancelled, CancelGoes, rows,
       cancelFrame, RowsTyped, WorkerTold, Published
  <2>6. CASE CancelDraft(p)
    BY <2>6, <1>0, <1>00 DEF CancelDraft, CancelGoes, watch,
       cancelFrame, RowsTyped, WorkerTold, Published
  <2>7. CASE AnnounceCancelled(p)
    BY <2>7, <1>0, <1>00 DEF AnnounceCancelled, CancelGoes, rows,
       cancelFrame, RowsTyped, WorkerTold, Published
  <2>8. CASE CancelRun(p)
    BY <2>8, <1>0, <1>00 DEF CancelRun, CancelGoes, EndRun, watch,
       cancelFrame, RowsTyped, WorkerTold, Published
  <2> QED
    BY <1>5, <2>1, <2>2, <2>3, <2>4, <2>5, <2>6, <2>7, <2>8 DEF Cancel
<1>6. ASSUME NEW p \in Processes, Deliver(p) PROVE Published' = Published
  BY <1>6, <1>0, <1>00 DEF Deliver, rows, RowsTyped, WorkerTold, Published
<1>7. CASE UNCHANGED vars
  BY <1>7, <1>0, <1>00 DEF vars, rows, watch, RowsTyped, WorkerTold,
     Published
<1> QED
  BY <1>1, <1>2, <1>3, <1>4, <1>5, <1>6, <1>7 DEF Next, Done

\* The text a version stands for does not change any more.
LEMMA TextKept ==
    ASSUME StreamIInv, StreamIInv', [Next]_vars, place = "worker",
           msg'.status = "running",
           NEW v \in NoVersion..draft.version
    PROVE  TextAt(v)' = TextAt(v)
<1>1. WorkerMoves /\ draft.version \in Int /\ draft'.version \in Int
  BY WorkerMovesStep DEF StreamIInv, RowsIInv, RowsTyped
<1>2. CASE draft'.version = draft.version /\ draft'.text = draft.text
  BY <1>2 DEF TextAt
<1>3. CASE draft'.version = draft.version + 1 /\ draft.text = Streamed(draft.version)
  <2>1. v # draft'.version
    BY <1>1, <1>3 DEF NoVersion
  <2> QED
    BY <1>3, <2>1 DEF TextAt
<1> QED
  BY <1>1, <1>2, <1>3 DEF WorkerMoves

LEMMA TextAtStart ==
    ASSUME StreamIInv
    PROVE  TextAt(NoVersion) = <<>>
<1>1. draft.version # NoVersion
  BY DEF StreamIInv, RowsIInv, RowsTyped, NoVersion
<1>2. Streamed(NoVersion) = <<>>
  BY DEF Streamed, NoVersion
<1> QED
  BY <1>1, <1>2 DEF TextAt

\* The publication of a part by a worker.
LEMMA PartPublished ==
    ASSUME StreamIInv, StreamIInv', place = "worker", msg.status = "running",
           msg'.status = "running", EmitDelta \/ EmitText
    PROVE  \E e \in Events :
             /\ IsPartEvent(e)
             /\ e.version = Published' /\ Published' = Published + 1
             /\ wire'["worker"] = wire["worker"] \o <<e>>
             /\ wire'["api"] = wire["api"]
             /\ conn' = conn /\ page' = page /\ draft' = draft
             /\ \A i \in 1..Len(wire["worker"]) :
                  /\ wire["worker"][i].type # "final_answer"
                  /\ IsPartEvent(wire["worker"][i]) =>
                       wire["worker"][i].version < e.version
<1>0. /\ RowsTyped /\ DraftTold /\ WorkerTold /\ EventsTold
      /\ wire \in [Processes -> Seq(Events)]
  BY DEF StreamIInv, RowsIInv, WatchIInv, WatchTyped
<1>00. "worker" \in Processes /\ "api" \in Processes
  BY DEF Processes
<1>1. /\ exec.version = draft.version /\ draft' = draft
      /\ Published = draft.version - 1 /\ Published' = draft.version
      /\ draft.version \in Nat /\ exec.deltas \in Nat
      /\ exec.pc \in {"emit", "emitText"}
  <2>1. CASE EmitDelta
    BY <1>0, <2>1, RunStreamAssumption
       DEF EmitDelta, rows, RowsTyped, DraftTold, Published
  <2>2. CASE EmitText
    BY <1>0, <2>2, RunStreamAssumption
       DEF EmitText, Goes, rows, RowsTyped, WorkerTold, Published
  <2> QED
    BY <2>1, <2>2
<1>2. \E e \in Events : /\ IsPartEvent(e) /\ e.version = exec.version
                        /\ Publish("worker", <<e>>)
  <2>1. CASE EmitDelta
    <3>1. PICK e : e = Delta(exec.deltas + 1, exec.version)
      OBVIOUS
    <3>2. Publish("worker", <<e>>)
      BY <2>1, <3>1 DEF EmitDelta
    <3>3. e \in Events /\ IsPartEvent(e) /\ e.version = exec.version
      BY <1>1, <3>1, EventsAre DEF IsPartEvent
    <3> QED
      BY <3>2, <3>3
  <2>2. CASE EmitText
    <3>1. PICK e : e = PartUpdated(Answer, exec.version)
      OBVIOUS
    <3>2. Publish("worker", <<e>>)
      BY <2>2, <3>1 DEF EmitText
    <3>3. e \in Events /\ IsPartEvent(e) /\ e.version = exec.version
      BY <1>1, <3>1, EventsAre, TextsAre DEF IsPartEvent
    <3> QED
      BY <3>2, <3>3
  <2> QED
    BY <2>1, <2>2
<1>3. PICK e \in Events : /\ IsPartEvent(e) /\ e.version = exec.version
                          /\ Publish("worker", <<e>>)
  BY <1>2
<1>4. /\ wire'["worker"] = wire["worker"] \o <<e>>
      /\ wire'["api"] = wire["api"] /\ conn' = conn /\ page' = page
  BY <1>0, <1>00, <1>3 DEF Publish
<1>5. ASSUME NEW i \in 1..Len(wire["worker"])
      PROVE  /\ wire["worker"][i].type # "final_answer"
             /\ IsPartEvent(wire["worker"][i]) =>
                  wire["worker"][i].version < e.version
  <2>1. EventOfWorker("worker", wire["worker"][i])
    BY <1>0, <1>00, <1>5 DEF EventsTold, IsTold
  <2> QED
    BY <1>1, <1>3, <2>1 DEF EventOfWorker
<1>6. Published' = Published + 1 /\ e.version = Published'
  BY <1>1, <1>3
<1> WITNESS e \in Events
<1> QED
  BY <1>1, <1>3, <1>4, <1>5, <1>6

WireInOrder ==
    place = "worker" /\ msg.status = "running" => Ordered(wire["worker"])

LEMMA WireInOrderStep ==
    StreamIInv /\ StreamIInv' /\ WireInOrder /\ [Next]_vars => WireInOrder'
<1> SUFFICES ASSUME StreamIInv, StreamIInv', WireInOrder, [Next]_vars,
                    place' = "worker", msg'.status = "running"
             PROVE  Ordered(wire'["worker"])
  BY DEF WireInOrder
<1>0. /\ RowsIInv /\ RowsIInv' /\ wire \in [Processes -> Seq(Events)]
      /\ wire["worker"] \in Seq(Events)
  BY DEF StreamIInv, WatchIInv, WatchTyped, Processes
<1>1. place = "worker" /\ msg.status = "running"
  BY <1>0, RowsMoveStep, WorkerMovesStep DEF RowsMove, WorkerMoves
<1>2. Ordered(wire["worker"])
  BY <1>1 DEF WireInOrder
<1>3. CASE EmitDelta \/ EmitText
  BY <1>0, <1>1, <1>2, <1>3, PartPublished, OrderedPart
<1>4. CASE ~(EmitDelta \/ EmitText)
  <2>1. WatchMoves
    BY <1>0, WatchStep
  <2>2. ASSUME NEW p \in Processes, NEW q, Tells(p, q)
        PROVE  Ordered(wire'["worker"])
    <3>1. /\ wire'[p] = wire[p] \o q
          /\ \A r \in Processes : r # p => wire'[r] = wire[r]
      BY <1>0, <2>2, PublishedWire
    <3>2. q \in Seq(Events) /\ \A i \in 1..Len(q) : ~IsPartEvent(q[i])
      BY <1>4, <2>2 DEF Tells, Says
    <3>3. CASE p = "worker"
      BY <1>0, <1>2, <3>1, <3>2, <3>3, OrderedMore
    <3>4. CASE p # "worker"
      BY <1>2, <3>1, <3>4 DEF Processes
    <3> QED
      BY <3>3, <3>4
  <2>3. ASSUME NEW p \in Processes, Deliver(p)
        PROVE  Ordered(wire'["worker"])
    <3>1. /\ wire' \in [Processes -> Seq(Events)]
          /\ Len(wire'[p]) = Len(wire[p]) - 1
          /\ \A i \in 1..Len(wire'[p]) : wire'[p][i] = wire[p][i + 1]
          /\ \A r \in Processes : r # p => wire'[r] = wire[r]
      BY <1>0, <2>3, DeliveredWire
    <3>2. CASE p = "worker"
      <4>1. wire'["worker"] \in Seq(Events)
        BY <3>1 DEF Processes
      <4> QED
        BY <1>0, <1>2, <3>1, <3>2, <4>1, OrderedTail
    <3>3. CASE p # "worker"
      BY <1>2, <3>1, <3>3 DEF Processes
    <3> QED
      BY <3>2, <3>3
  <2>4. CASE UNCHANGED watch \/ Route \/ Reload
    BY <1>2, <2>4 DEF watch, Route, Subscribe, ReadRun, ReadRow, ReadDraft,
       WriteSnapshot, LoadSession, Reload
  <2> QED
    BY <2>1, <2>2, <2>3, <2>4 DEF WatchMoves
<1> QED
  BY <1>3, <1>4


-----------------------------------------------------------------------------
(* The page of a connection that heard every delta.                        *)

Pending(v) == \E i \in 1..Len(wire["worker"]) :
                /\ IsPartEvent(wire["worker"][i])
                /\ wire["worker"][i].version = v

\* A page that has just been loaded, and nothing is missing: what was
\* published is shown or on its way.
Unheard ==
    conn.stage = "open" => page.version = NoVersion /\ page.text = <<>>

Exact ==
    conn.fresh /\ conn.stage \in Listening =>
      /\ \A v \in 1..Published : v <= page.version \/ Pending(v)
      /\ page.text = TextAt(page.version)
      /\ conn.stage = "write" =>
           /\ conn.snap.version \in Nat
           /\ conn.snap.text = TextAt(conn.snap.version)

FreshView == place = "worker" /\ msg.status = "running" => Unheard /\ Exact

\* The events of the API process do not touch the text.
LEMMA ApiKeepsText ==
    ASSUME StreamIInv, StreamIInv', place = "worker", place' = "worker",
           msg.status = "running", msg'.status = "running",
           (\E q : Tells("api", q)) \/ Deliver("api")
    PROVE  conn' = conn /\ page'.version = page.version /\ page'.text = page.text
<1>0. /\ wire \in [Processes -> Seq(Events)] /\ EventsTold
      /\ conn \in Conns /\ IsMessage(page) /\ "api" \in Processes
  BY DEF StreamIInv, WatchIInv, WatchTyped, Processes
<1> DEFINE S == {cm \in Conns \X Messages :
                   /\ cm[1] = conn /\ IsMessage(cm[2])
                   /\ cm[2].version = page.version /\ cm[2].text = page.text}
<1>1. S \subseteq Conns \X Messages /\ <<conn, page>> \in S
  BY <1>0 DEF IsMessage
<1>2. ASSUME NEW cm \in S, NEW e \in Events,
             e.type \in {"process.step", "agent_state"}, e.onMessage
      PROVE  Receive(cm, e) \in S
  <2> DEFINE c == cm[1]
             m == cm[2]
             r == Receive(cm, e)
  <2>1. /\ cm = <<c, m>> /\ c \in Conns /\ IsMessage(m) /\ c = conn
        /\ m.version = page.version /\ m.text = page.text /\ m \in Messages
    OBVIOUS
  <2>2. ~IsTerminalEvent(e)
    BY <1>2 DEF IsTerminalEvent
  <2>3. /\ r = <<r[1], r[2]>> /\ r[1] = c
        /\ r[2] = m \/ r[2] = ApplyEvent(m, e)
    BY <2>1, <2>2, Received
  <2>4. /\ IsMessage(ApplyEvent(m, e))
        /\ ApplyEvent(m, e).version = m.version
        /\ ApplyEvent(m, e).text = m.text
    BY <1>2, <2>1, AppliedOther DEF IsPartEvent
  <2> HIDE DEF r, c, m
  <2>5. r \in S
    BY <2>1, <2>3, <2>4 DEF IsMessage
  <2> QED
    BY <2>5 DEF r
<1>3. <<conn', page'>> \in S
  <2> HIDE DEF S
  <2>1. ASSUME NEW q, Tells("api", q) PROVE <<conn', page'>> \in S
    <3>1. \A i \in 1..Len(q) : q[i] \in Events /\ IsTold("api", q[i])'
      BY <2>1 DEF Tells
    <3>2. ASSUME NEW cm \in S, NEW i \in 1..Len(q)
          PROVE  Receive(cm, q[i]) \in S
      <4>1. PICK e \in Events : e = q[i]
        BY <3>1
      <4>2. IsTold("api", e)'
        BY <3>1, <4>1
      <4>3. e.type \in {"process.step", "agent_state"} /\ e.onMessage
        BY <4>2 DEF IsTold, EventTold, EventOfWorker
      <4> QED
        BY <1>2, <4>1, <4>3
    <3> QED
      BY <1>1, <2>1, <3>2, PublishKeeps
  <2>2. CASE Deliver("api")
    <3>1. /\ wire["api"][1] \in Events /\ Len(wire["api"]) \in Nat \ {0}
          /\ <<conn', page'>> = Receive(<<conn, page>>, wire["api"][1])
      BY <1>0, <2>2, DeliveredWire
    <3>2. IsTold("api", wire["api"][1])
      BY <1>0, <3>1 DEF EventsTold
    <3>3. /\ wire["api"][1].type \in {"process.step", "agent_state"}
          /\ wire["api"][1].onMessage
      BY <3>2 DEF IsTold, EventTold, EventOfWorker
    <3> QED
      BY <1>1, <1>2, <3>1, <3>3
  <2> QED
    BY <2>1, <2>2
<1> QED
  BY <1>3

\* The worker's next event, for a page that has missed nothing.
LEMMA NextPart ==
    ASSUME StreamIInv, WireInOrder, place = "worker", msg.status = "running",
           \A v \in 1..Published : v <= page.version \/ Pending(v),
           page.text = TextAt(page.version),
           wire["worker"] # <<>>,
           NEW e \in Events, e = wire["worker"][1], IsPartEvent(e),
           NEW m, m = ApplyEvent(page, e)
    PROVE  /\ m.version >= page.version /\ m.version >= e.version
           /\ m.version \in Int
           /\ m.text = TextAt(m.version)
<1>0. /\ IsMessage(page) /\ page \in Messages /\ Ordered(wire["worker"])
      /\ wire["worker"] \in Seq(Events) /\ EventsTold /\ VersionsTold
      /\ RowsTyped /\ DraftTold /\ WorkerTold
  BY DEF StreamIInv, RowsIInv, WatchIInv, WatchTyped, WireInOrder, IsMessage,
     Processes
<1>1. 1 \in 1..Len(wire["worker"]) /\ "worker" \in Processes
  BY <1>0 DEF Processes
<1>2. EventTold("worker", e) /\ EventOfWorker("worker", e)
  BY <1>0, <1>1 DEF EventsTold, IsTold
<1>3. /\ e.onMessage /\ e.version \in 1..Published /\ e.version \in Int
      /\ page.version \in Int /\ draft.version \in Int /\ exec.deltas \in Int
      /\ Published \in Int /\ Published <= draft.version
      /\ 1 <= e.version /\ e.version <= Published
  BY <1>0, <1>2, RunStreamAssumption
     DEF EventTold, EventOfWorker, IsPartEvent, RowsTyped, Published, Messages
<1>30. e.version # NoVersion
  BY <1>3 DEF NoVersion
<1>31. IsPartEvent(e) /\ e.onMessage
  BY <1>3
<1>4. CASE e.version <= page.version
  <2>1. ~(e.version = NoVersion \/ e.version > page.version)
    BY <1>3, <1>30, <1>4
  <2>2. m.version = page.version /\ m.text = page.text
    BY <1>0, <1>31, <2>1, AppliedPart
  <2> QED
    BY <1>3, <1>4, <2>2
<1>5. CASE e.version > page.version /\ e.type = "message.part.delta"
  <2>1. m.version = e.version /\ m.text = page.text \o e.text
    BY <1>0, <1>30, <1>31, <1>5, AppliedPart
  <2>2. e.version \in 1..exec.deltas /\ e.text = <<e.version>>
    BY <1>2, <1>5 DEF EventTold
  <2>3. PICK n \in Nat : n = e.version - 1
    BY <1>3
  <2>4. page.text = Streamed(n)
    <3>1. CASE n = 0
      <4>1. page.version \in {NoVersion, 0}
        BY <1>0, <1>3, <1>5, <2>3, <3>1 DEF VersionsTold, NoVersion
      <4>2. page.text = Streamed(page.version)
        BY <1>3, <2>3, <3>1, <4>1 DEF TextAt, NoVersion
      <4> QED
        BY <3>1, <4>1, <4>2 DEF Streamed, NoVersion
    <3>2. CASE n # 0
      <4>1. n \in 1..Published
        BY <1>3, <2>3, <3>2 DEF Published
      <4>2. ~Pending(n)
        <5>1. ASSUME NEW i \in 1..Len(wire["worker"]),
                     IsPartEvent(wire["worker"][i]),
                     wire["worker"][i].version = n
              PROVE  FALSE
          <6>1. i # 1 /\ 1 < i
            BY <1>0, <1>3, <2>3, <5>1
          <6> QED
            BY <1>0, <1>1, <1>3, <2>3, <5>1, <6>1 DEF Ordered
        <5> QED
          BY <5>1 DEF Pending
      <4>3. page.version = n
        BY <1>3, <1>5, <2>3, <4>1, <4>2
      <4> QED
        BY <1>3, <2>3, <4>3 DEF TextAt
    <3> QED
      BY <3>1, <3>2
  <2>5. m.text = Streamed(e.version)
    <3>1. e.version = n + 1
      BY <1>3, <2>3
    <3> QED
      BY <2>1, <2>2, <2>4, <3>1, StreamedIs
  <2>6. TextAt(e.version) = Streamed(e.version)
    BY <1>0, <1>3, <2>2 DEF TextAt, DraftTold
  <2> QED
    BY <1>3, <1>5, <2>1, <2>5, <2>6
<1>6. CASE e.version > page.version /\ e.type = "message.part.updated"
  <2>1. m.version = e.version /\ m.text = e.text
    BY <1>0, <1>30, <1>31, <1>6, AppliedPart
  <2>2. e.version = draft.version /\ e.text = draft.text
    BY <1>0, <1>2, <1>6 DEF EventOfWorker, WorkerTold
  <2> QED
    BY <1>3, <1>6, <2>1, <2>2 DEF TextAt
<1> QED
  BY <1>3, <1>4, <1>5, <1>6 DEF IsPartEvent

\* The same for the events that are not about a part of the text.
LEMMA NextOther ==
    ASSUME StreamIInv, WireInOrder, place = "worker", msg.status = "running",
           \A v \in 1..Published : v <= page.version \/ Pending(v),
           page.text = TextAt(page.version),
           wire["worker"] # <<>>,
           NEW e \in Events, e = wire["worker"][1], ~IsPartEvent(e),
           NEW m, m = ApplyEvent(page, e)
    PROVE  m.version = page.version /\ m.text = page.text
<1>0. /\ IsMessage(page) /\ page \in Messages /\ Ordered(wire["worker"])
      /\ wire["worker"] \in Seq(Events) /\ EventsTold /\ VersionsTold
      /\ RowsTyped /\ DraftTold /\ WorkerTold
  BY DEF StreamIInv, RowsIInv, WatchIInv, WatchTyped, WireInOrder, IsMessage,
     Processes
<1>1. 1 \in 1..Len(wire["worker"]) /\ "worker" \in Processes
  BY <1>0 DEF Processes
<1>2. EventTold("worker", e) /\ EventOfWorker("worker", e)
  BY <1>0, <1>1 DEF EventsTold, IsTold
<1>3. CASE e.type # "final_answer"
  <2>1. e.type \notin {"session.message.created", "session.message.updated",
                       "final_answer"}
    BY <1>2, <1>3 DEF EventOfWorker
  <2> QED
    BY <1>0, <2>1, AppliedOther
<1>4. CASE e.type = "final_answer"
  <2>1. e.onMessage /\ e.text = Answer /\ exec.pc = "settle"
    BY <1>2, <1>4 DEF EventTold, EventOfWorker
  <2>2. m.version = page.version /\ m.text = Answer
    BY <1>0, <1>4, <2>1, AppliedAnswer
  <2>3. /\ draft.text = Answer /\ draft.version = exec.deltas + 1
        /\ draft.version \in 1..Published
    BY <1>0, <2>1, RunStreamAssumption DEF WorkerTold, RowsTyped, Published
  <2>4. ~Pending(draft.version)
    <3>1. ASSUME NEW i \in 1..Len(wire["worker"]),
                 IsPartEvent(wire["worker"][i])
          PROVE  FALSE
      <4>1. i # 1 /\ 1 < i
        BY <1>0, <3>1
      <4> QED
        BY <1>0, <1>1, <1>4, <3>1, <4>1 DEF Ordered
    <3> QED
      BY <3>1 DEF Pending
  <2>5. page.version = draft.version
    BY <1>0, <2>3, <2>4 DEF VersionsTold, NoVersion, RowsTyped, Messages
  <2> QED
    BY <2>2, <2>3, <2>5 DEF TextAt
<1> QED
  BY <1>3, <1>4

LEMMA WorkerTellsText ==
    ASSUME StreamIInv, WireInOrder, FreshView, place = "worker",
           msg.status = "running", Deliver("worker")
    PROVE  (Unheard /\ Exact)'
<1>0. /\ wire \in [Processes -> Seq(Events)] /\ conn \in Conns
      /\ IsMessage(page) /\ "worker" \in Processes
      /\ Unheard /\ Exact
  BY DEF StreamIInv, WatchIInv, WatchTyped, FreshView, Processes
<1>1. PICK e \in Events : e = wire["worker"][1]
  BY <1>0, DeliveredWire
<1>2. /\ <<conn', page'>> = Receive(<<conn, page>>, e)
      /\ Len(wire["worker"]) \in Nat \ {0} /\ wire["worker"] # <<>>
      /\ Len(wire'["worker"]) = Len(wire["worker"]) - 1
      /\ \A i \in 1..Len(wire'["worker"]) :
           wire'["worker"][i] = wire["worker"][i + 1]
  BY <1>0, <1>1, DeliveredWire
<1>3. /\ exec' = exec /\ draft' = draft
      /\ \A v : TextAt(v)' = TextAt(v)
      /\ Published' = Published
  BY DEF Deliver, rows, TextAt, Published
<1>4. CASE conn.stage \notin Listening
  <2>1. conn' = conn /\ page' = page
    BY <1>0, <1>2, <1>4, Received
  <2> QED
    BY <1>0, <1>4, <2>1 DEF Unheard, Exact
<1>5. CASE conn.stage \in Listening
  <2>1. /\ page' = ApplyEvent(page, e) /\ conn'.fresh = conn.fresh
        /\ conn'.stage \in {conn.stage, "ended"}
        /\ conn'.stage = "ended" \/ conn' = conn
    BY <1>0, <1>2, <1>5, Received
  <2>2. Unheard'
    BY <1>5, <2>1 DEF Unheard, Listening
  <2>3. ASSUME conn'.fresh, conn'.stage \in Listening
        PROVE  /\ \A v \in 1..Published : v <= page'.version \/ Pending(v)'
               /\ page'.text = TextAt(page'.version)
               /\ conn' = conn
    <3>1. conn' = conn /\ conn.fresh
      BY <2>1, <2>3 DEF Listening
    <3>2. /\ \A v \in 1..Published : v <= page.version \/ Pending(v)
          /\ page.text = TextAt(page.version)
      BY <1>0, <1>5, <3>1 DEF Exact
    <3>3. /\ page'.version >= page.version
          /\ IsPartEvent(e) => page'.version >= e.version
          /\ page'.text = TextAt(page'.version)
          /\ page.version \in Int /\ page'.version \in Int
      <4>0. page.version \in Int
        BY <1>0 DEF IsMessage, Messages
      <4>1. CASE IsPartEvent(e)
        BY <1>1, <1>2, <2>1, <3>2, <4>0, <4>1, NextPart
      <4>2. CASE ~IsPartEvent(e)
        <5>1. page'.version = page.version /\ page'.text = page.text
          BY <1>1, <1>2, <2>1, <3>2, <4>2, NextOther
        <5> QED
          BY <3>2, <4>0, <4>2, <5>1
      <4> QED
        BY <4>1, <4>2
    <3>4. ASSUME NEW v \in 1..Published, ~(v <= page'.version)
          PROVE  Pending(v)'
      <4>0. Published \in Int
        BY DEF StreamIInv, RowsIInv, RowsTyped, Published
      <4>1. ~(v <= page.version)
        BY <3>3, <3>4, <4>0
      <4>2. PICK i \in 1..Len(wire["worker"]) :
              /\ IsPartEvent(wire["worker"][i])
              /\ wire["worker"][i].version = v
        BY <3>2, <3>4, <4>1 DEF Pending
      <4>3. i # 1
        BY <1>1, <3>3, <3>4, <4>2
      <4>4. PICK j \in 1..Len(wire'["worker"]) : j + 1 = i
        BY <1>2, <4>2, <4>3
      <4>5. wire'["worker"][j] = wire["worker"][i]
        BY <1>2, <4>4
      <4> QED
        BY <4>2, <4>4, <4>5 DEF Pending
    <3> QED
      BY <3>1, <3>3, <3>4
  <2>4. Exact'
    <3>1. conn.stage = "write" /\ conn.fresh =>
            /\ conn.snap.version \in Nat
            /\ conn.snap.text = TextAt(conn.snap.version)
      BY <1>0, <1>5 DEF Exact
    <3> QED
      BY <1>3, <2>3, <3>1 DEF Exact
  <2> QED
    BY <2>2, <2>4
<1> QED
  BY <1>4, <1>5

\* The route of a fresh connection.
LEMMA RouteShowsText ==
    ASSUME StreamIInv, FreshView, place = "worker", msg.status = "running",
           Route \/ Reload
    PROVE  (Unheard /\ Exact)'
<1>0. /\ RowsTyped /\ DraftTold /\ WorkerTold /\ WatchTyped /\ VersionsTold
      /\ conn \in Conns /\ IsMessage(page) /\ Unheard /\ Exact
  BY DEF StreamIInv, RowsIInv, WatchIInv, WatchTyped, FreshView
<1>1. /\ exec' = exec /\ draft' = draft /\ wire' = wire
      /\ \A v : TextAt(v)' = TextAt(v)
      /\ \A v : Pending(v)' = Pending(v)
      /\ Published' = Published
  <2>1. exec' = exec /\ draft' = draft /\ wire' = wire
    BY DEF Route, Subscribe, ReadRun, ReadRow, ReadDraft, WriteSnapshot,
       LoadSession, Reload, rows
  <2> QED
    BY <2>1 DEF TextAt, Pending, Published
<1>2. page.version \in Int /\ draft.version \in Int /\ conn.snap.version \in Int
  BY <1>0 DEF IsMessage, Messages, RowsTyped, VersionsTold, NoVersion
<1>3. CASE Subscribe
  <2> DEFINE f == exec.deltas = 0 /\ exec.pc \in Generating
  <2>1. /\ conn' = [conn EXCEPT !.stage = "subscribed", !.fresh = f]
        /\ page' = page /\ conn.stage = "open"
    BY <1>3 DEF Subscribe
  <2>2. conn'.stage = "subscribed" /\ conn'.fresh = f
    BY <1>0, <2>1 DEF Conns
  <2>3. page.version = NoVersion /\ page.text = TextAt(NoVersion)
    BY <1>0, <2>1, TextAtStart DEF Unheard
  <2>4. f => Published = 0
    BY <1>0 DEF DraftTold, BeforeText, Generating, Published
  <2>5. \A v : v \in 1..0 => FALSE
    OBVIOUS
  <2> HIDE DEF f
  <2> QED
    BY <1>1, <2>1, <2>2, <2>3, <2>4, <2>5 DEF Unheard, Exact
<1>4. CASE ReadRun
  <2> DEFINE b == run.status = "running"
             c == [conn EXCEPT !.sawRunning = b]
  <2>1. /\ conn' = [c EXCEPT !.stage = "row"]
        /\ page' = page /\ conn.stage = "subscribed"
    BY <1>0, <1>4 DEF ReadRun, WorkerTold
  <2>2. c \in Conns /\ c.fresh = conn.fresh
    BY <1>0 DEF Conns
  <2> HIDE DEF c
  <2>3. conn'.stage = "row" /\ conn'.fresh = conn.fresh
    BY <2>1, <2>2 DEF Conns
  <2> QED
    BY <1>0, <1>1, <2>1, <2>3 DEF Unheard, Exact, Listening
<1>5. CASE ReadRow
  <2>1. /\ conn' = [conn EXCEPT !.stage = "draft"]
        /\ page' = page /\ conn.stage = "row"
    BY <1>5 DEF ReadRow
  <2>2. conn'.stage = "draft" /\ conn'.fresh = conn.fresh
    BY <1>0, <2>1 DEF Conns
  <2> QED
    BY <1>0, <1>1, <2>1, <2>2 DEF Unheard, Exact, Listening
<1>6. CASE ReadDraft
  <2> DEFINE s == Snapshot("running", draft.text, draft.version)
  <2>1. /\ conn' = [conn EXCEPT !.stage = "write", !.snap = s]
        /\ page' = page /\ conn.stage = "draft"
    BY <1>0, <1>6 DEF ReadDraft, WorkerTold
  <2>2. s.version = draft.version /\ s.text = draft.text
    BY DEF Snapshot
  <2>3. draft.version \in Nat /\ draft.text = TextAt(draft.version)
    BY <1>0 DEF RowsTyped, TextAt
  <2> HIDE DEF s
  <2>4. conn'.stage = "write" /\ conn'.fresh = conn.fresh /\ conn'.snap = s
    BY <1>0, <2>1 DEF Conns
  <2> QED
    BY <1>0, <1>1, <2>1, <2>2, <2>3, <2>4 DEF Unheard, Exact, Listening
<1>7. CASE WriteSnapshot
  <2>1. /\ page' = ApplySnapshot(page, conn.snap) /\ conn' = Settled(conn)
        /\ conn.stage = "write"
    BY <1>7 DEF WriteSnapshot
  <2>2. conn'.stage \in {"live", "ended"} /\ conn'.fresh = conn.fresh
    BY <1>0, <2>1, SettledIs
  <2>3. ASSUME conn'.fresh
        PROVE  /\ \A v \in 1..Published : v <= page'.version \/ Pending(v)
               /\ page'.text = TextAt(page'.version)
    <3>1. /\ \A v \in 1..Published : v <= page.version \/ Pending(v)
          /\ page.text = TextAt(page.version)
          /\ conn.snap.version \in Nat
          /\ conn.snap.text = TextAt(conn.snap.version)
      BY <1>0, <2>1, <2>2, <2>3 DEF Exact, Listening
    <3>2. CASE conn.snap.version < page.version
      <4>1. page' = page
        BY <2>1, <3>1, <3>2 DEF ApplySnapshot, NoVersion
      <4> QED
        BY <3>1, <4>1
    <3>3. CASE ~(conn.snap.version < page.version)
      <4>1. page' = conn.snap
        BY <2>1, <3>3 DEF ApplySnapshot
      <4>2. \A v \in 1..Published :
              v <= page.version => v <= conn.snap.version
        BY <1>2, <3>3 DEF Published
      <4> QED
        BY <3>1, <4>1, <4>2
    <3> QED
      BY <3>2, <3>3
  <2> QED
    BY <1>1, <2>2, <2>3 DEF Unheard, Exact
<1>8. CASE LoadSession
  <2> DEFINE s == Snapshot(msg.status, msg.text, NoVersion)
             g == IF conn.sawRunning THEN "open" ELSE "ended"
  <2>1. page' = s /\ conn' = [conn EXCEPT !.stage = g]
    BY <1>8 DEF LoadSession
  <2>2. s.version = NoVersion /\ s.text = <<>>
    BY <1>0 DEF Snapshot, WorkerTold
  <2>3. g \in {"open", "ended"}
    OBVIOUS
  <2> HIDE DEF s, g
  <2>4. conn'.stage = g
    BY <1>0, <2>1 DEF Conns
  <2> QED
    BY <2>1, <2>2, <2>3, <2>4 DEF Unheard, Exact, Listening
<1>9. CASE Reload
  <2>1. PICK b \in BOOLEAN : b = (run.status = "running")
    OBVIOUS
  <2>2. conn' = [NewConnection EXCEPT !.stage = "reload", !.sawRunning = b]
    BY <1>9, <2>1 DEF Reload
  <2>3. conn'.stage = "reload"
    BY <2>2, NewConnectionIs DEF Stages
  <2> QED
    BY <2>3 DEF Unheard, Exact, Listening
<1> QED
  BY <1>3, <1>4, <1>5, <1>6, <1>7, <1>8, <1>9 DEF Route

LEMMA FreshViewStep ==
    StreamIInv /\ StreamIInv' /\ WireInOrder /\ FreshView /\ [Next]_vars =>
      FreshView'
<1> SUFFICES ASSUME StreamIInv, StreamIInv', WireInOrder, FreshView,
                    [Next]_vars, place' = "worker", msg'.status = "running"
             PROVE  (Unheard /\ Exact)'
  BY DEF FreshView
<1>0. /\ RowsIInv /\ RowsIInv' /\ WatchTyped
      /\ wire \in [Processes -> Seq(Events)]
      /\ "worker" \in Processes /\ "api" \in Processes
      /\ VersionsTold /\ RowsTyped
  BY DEF StreamIInv, WatchIInv, WatchTyped, Processes, RowsIInv
<1>1. place = "worker" /\ msg.status = "running"
  BY <1>0, RowsMoveStep, WorkerMovesStep DEF RowsMove, WorkerMoves
<1>2. Unheard /\ Exact
  BY <1>1 DEF FreshView
<1>3. /\ page.version \in NoVersion..draft.version
      /\ conn.snap.version \in NoVersion..draft.version
  BY <1>0 DEF VersionsTold
<1>4. \A v \in NoVersion..draft.version : TextAt(v)' = TextAt(v)
  BY <1>1, TextKept
<1>5. WatchMoves
  BY <1>0, WatchStep
<1>6. CASE EmitDelta \/ EmitText
  <2>1. PICK e \in Events :
             /\ IsPartEvent(e)
             /\ e.version = Published' /\ Published' = Published + 1
             /\ wire'["worker"] = wire["worker"] \o <<e>>
             /\ conn' = conn /\ page' = page /\ draft' = draft
    BY <1>1, <1>6, PartPublished
  <2>2. /\ wire["worker"] \in Seq(Events)
        /\ \A i \in 1..Len(wire["worker"]) :
             i \in 1..Len(wire'["worker"]) /\ wire'["worker"][i] = wire["worker"][i]
        /\ \E i \in 1..Len(wire'["worker"]) : wire'["worker"][i] = e
    <3>1. wire["worker"] \in Seq(Events)
      BY <1>0
    <3>2. /\ Len(wire'["worker"]) = Len(wire["worker"]) + 1
          /\ wire'["worker"][Len(wire["worker"]) + 1] = e
          /\ Len(wire["worker"]) \in Nat
          /\ \A i \in 1..Len(wire["worker"]) :
               wire'["worker"][i] = wire["worker"][i]
      BY <2>1, <3>1
    <3> QED
      BY <3>1, <3>2
  <2>3. \A v : Pending(v) => Pending(v)'
    BY <2>2 DEF Pending
  <2>4. Pending(e.version)'
    <3>1. PICK i \in 1..Len(wire'["worker"]) : wire'["worker"][i] = e
      BY <2>2
    <3> QED
      BY <2>1, <3>1 DEF Pending
  <2>5. \A v \in 1..Published' : v = e.version \/ v \in 1..Published
    <3>1. Published \in Int /\ Published' \in Int
      BY <1>0, <2>1 DEF RowsTyped, Published
    <3> QED
      BY <2>1, <3>1
  <2>6. Unheard'
    BY <1>2, <2>1 DEF Unheard
  <2>7. ASSUME conn.fresh, conn.stage \in Listening
        PROVE  \A v \in 1..Published' : v <= page.version \/ Pending(v)'
    <3>1. \A v \in 1..Published : v <= page.version \/ Pending(v)
      BY <1>2, <2>7 DEF Exact
    <3> QED
      BY <2>3, <2>4, <2>5, <3>1
  <2>8. Exact'
    BY <1>2, <1>3, <1>4, <2>1, <2>7 DEF Exact
  <2> QED
    BY <2>6, <2>8
<1>7. CASE ~(EmitDelta \/ EmitText)
  <2>1. Published' = Published
    BY <1>0, <1>1, <1>7, PublishedStep
  <2>2. ASSUME conn' = conn, page'.version = page.version,
               page'.text = page.text, \A v : Pending(v) => Pending(v)'
        PROVE  (Unheard /\ Exact)'
    <3>1. Unheard'
      BY <1>2, <2>2 DEF Unheard
    <3>2. ASSUME conn.fresh, conn.stage \in Listening
          PROVE  \A v \in 1..Published' : v <= page'.version \/ Pending(v)'
      BY <1>2, <2>1, <2>2, <3>2 DEF Exact
    <3>3. Exact'
      BY <1>2, <1>3, <1>4, <2>2, <3>2 DEF Exact
    <3> QED
      BY <3>1, <3>3
  <2>3. CASE UNCHANGED watch
    BY <2>2, <2>3 DEF watch, Pending
  <2>4. ASSUME NEW q, Tells("worker", q) PROVE (Unheard /\ Exact)'
    <3>1. conn' = conn /\ page' = page
      BY <2>4 DEF Tells, Publish
    <3>2. wire'["worker"] = wire["worker"] \o q /\ q \in Seq(Events)
      BY <1>0, <2>4, PublishedWire DEF Tells
    <3>3. \A i \in 1..Len(wire["worker"]) :
             i \in 1..Len(wire'["worker"]) /\ wire'["worker"][i] = wire["worker"][i]
      <4>1. wire["worker"] \in Seq(Events)
        BY <1>0
      <4> QED
        BY <3>2, <4>1
    <3>4. \A v : Pending(v) => Pending(v)'
      BY <3>3 DEF Pending
    <3> QED
      BY <2>2, <3>1, <3>4
  <2>5. CASE (\E q : Tells("api", q)) \/ Deliver("api")
    <3>1. /\ conn' = conn /\ page'.version = page.version
          /\ page'.text = page.text
      BY <1>1, <2>5, ApiKeepsText
    <3>2. wire'["worker"] = wire["worker"]
      <4>1. "worker" # "api"
        OBVIOUS
      <4>2. ASSUME NEW q, Tells("api", q)
            PROVE  wire'["worker"] = wire["worker"]
        BY <1>0, <4>1, <4>2, PublishedWire
      <4>3. CASE Deliver("api")
        BY <1>0, <4>1, <4>3, DeliveredWire
      <4> QED
        BY <2>5, <4>2, <4>3
    <3>3. \A v : Pending(v) => Pending(v)'
      BY <3>2 DEF Pending
    <3> QED
      BY <2>2, <3>1, <3>3
  <2>6. CASE Deliver("worker")
    BY <1>1, <2>6, WorkerTellsText
  <2>7. CASE Route \/ Reload
    BY <1>1, <2>7, RouteShowsText
  <2> QED
    BY <1>5, <2>3, <2>4, <2>5, <2>6, <2>7 DEF WatchMoves, Processes
<1> QED
  BY <1>6, <1>7

(***************************************************************************)
(* A page that subscribed before the first delta went out shows exactly    *)
(* the text of the draft at the version it has, whatever is streamed,      *)
(* reloaded or cancelled meanwhile: what the SSE route makes of snapshot   *)
(* and live events, reduceMessageStreamEvent folds without loss or         *)
(* repetition.  Nothing is missing because what was published is shown or  *)
(* on its way (Exact), in the order of the versions (WireInOrder).         *)
(***************************************************************************)
THEOREM FreshPageIsExact == Spec => []FreshTextExact
<1>1. Init => WireInOrder /\ FreshView
  <2> SUFFICES ASSUME Init PROVE WireInOrder /\ FreshView
    OBVIOUS
  <2>1. WireInOrder
    BY DEF Init, WireInOrder, Ordered, Processes
  <2>2. FreshView
    BY NoMessageIs, NewConnectionIs
       DEF Init, FreshView, Unheard, Exact, NoVersion, Listening
  <2> QED
    BY <2>1, <2>2
<1>2. WireInOrder /\ FreshView /\ StreamIInv /\ StreamIInv' /\ [Next]_vars =>
        (WireInOrder /\ FreshView)'
  BY WireInOrderStep, FreshViewStep
<1>3. FreshView => FreshTextExact
  BY DEF FreshView, Exact, FreshTextExact
<1> QED
  BY <1>1, <1>2, <1>3, StreamInductive, PTL DEF Spec

-----------------------------------------------------------------------------
(* Where the executor comes from, and where it goes.                       *)

Opening     == {"create", "draft", "link", "announce"}
BeforeClose == {"agent", "emit", "text", "emitText", "close"}
AfterEnd    == {"endRun", "finally", "done"}

\* The message is linked before the agent starts.
Linked == exec.pc \in Generating \ {"create", "draft", "link"} => run.linked

PcMoves ==
    /\ run.status = "cancelled" => run'.status = "cancelled"
    /\ exec.pc \in Opening =>
         exec'.pc \in Opening \/ AnnounceMessage \/ run.status = "cancelled"
    /\ exec'.pc = "settle" => exec.pc = "settle" \/ CloseSteps
    /\ exec'.pc = "announceEnd" => exec.pc \in {"settle", "announceEnd"}
    /\ place = "worker" /\ exec'.pc \in BeforeClose => exec.pc \in BeforeClose

\* The same for a worker that nobody disturbs: the steps, and the end.
QuietMoves ==
    place = "worker" /\ NobodyCancels' =>
      /\ exec.pc \in BeforeClose /\ exec'.pc \in BeforeClose =>
           stepOpen' = stepOpen \/ OpenStep
      /\ exec.pc \in AfterEnd =>
           /\ exec'.pc \in AfterEnd
           /\ wire'["worker"] = wire["worker"] \/ Deliver("worker")

LEMMA PcStep == RowsIInv /\ RowsIInv' /\ [Next]_vars =>
    PcMoves
<1> SUFFICES ASSUME RowsIInv, RowsIInv', [Next]_vars PROVE PcMoves
  OBVIOUS
<1>0. /\ RowsTyped /\ EndsTold /\ WorkerTold
      /\ NobodyCancels' => NobodyCancels
  BY RowsMoveStep DEF RowsIInv, RowsMove
<1>1. CASE Execute
  <2>1. CASE CreateMessage
    BY <2>1, <1>0
       DEF CreateMessage, Goes, Opening, BeforeClose, PcMoves, RowsTyped,
       WorkerTold, execFrame
  <2>2. CASE EnsureDraft
    BY <2>2, <1>0
       DEF EnsureDraft, Goes, Opening, BeforeClose, PcMoves, RowsTyped,
       WorkerTold, execFrame
  <2>3. CASE LinkMessage
    BY <2>3, <1>0
       DEF LinkMessage, Goes, Opening, BeforeClose, PcMoves, RowsTyped,
       EndsTold, WorkerTold, execFrame
  <2>4. CASE AnnounceMessage
    BY <2>4, <1>0
       DEF AnnounceMessage, Goes, rows, Opening, BeforeClose, PcMoves,
       RowsTyped, WorkerTold, execFrame
  <2>5. CASE AppendDelta
    BY <2>5, <1>0
       DEF AppendDelta, Opening, BeforeClose, PcMoves, RowsTyped, execFrame
  <2>6. CASE EmitDelta
    BY <2>6, <1>0
       DEF EmitDelta, rows, Opening, BeforeClose, PcMoves, RowsTyped, execFrame
  <2>7. CASE OpenStep
    BY <2>7, <1>0
       DEF OpenStep, Goes, Opening, BeforeClose, PcMoves, RowsTyped, execFrame
  <2>8. CASE GuardAborts
    BY <2>8, <1>0
       DEF GuardAborts, Goes, rows, Opening, BeforeClose, PcMoves, RowsTyped,
       execFrame
  <2>9. CASE GuardCancels
    BY <2>9, <1>0
       DEF GuardCancels, Goes, rows, Opening, BeforeClose, PcMoves, RowsTyped,
       execFrame
  <2>10. CASE GuardCancelled
    BY <2>10, <1>0
       DEF GuardCancelled, Goes, rows, Opening, BeforeClose, PcMoves,
       RowsTyped, execFrame
  <2>11. CASE AgentFails
    BY <2>11, <1>0
       DEF AgentFails, Goes, rows, Opening, BeforeClose, PcMoves, RowsTyped,
       execFrame
  <2>12. CASE AgentAnswers
    BY <2>12, <1>0
       DEF AgentAnswers, Goes, rows, Opening, BeforeClose, PcMoves, RowsTyped,
       execFrame
  <2>13. CASE SetAnswerText
    BY <2>13, <1>0
       DEF SetAnswerText, Opening, BeforeClose, PcMoves, RowsTyped, execFrame
  <2>14. CASE EmitText
    BY <2>14, <1>0
       DEF EmitText, Goes, rows, Opening, BeforeClose, PcMoves, RowsTyped,
       execFrame
  <2>15. CASE CloseSteps
    BY <2>15, <1>0
       DEF CloseSteps, Goes, Opening, BeforeClose, PcMoves, RowsTyped,
       execFrame
  <2>16. CASE CompleteMessage
    BY <2>16, <1>0
       DEF CompleteMessage, Goes, Opening, BeforeClose, PcMoves, RowsTyped,
       execFrame
  <2>17. CASE AnnounceEnd
    BY <2>17, <1>0
       DEF AnnounceEnd, Goes, rows, Opening, BeforeClose, PcMoves, RowsTyped,
       execFrame
  <2>18. CASE CompleteRun
    BY <2>18, <1>0
       DEF CompleteRun, Goes, EndRun, Opening, BeforeClose, PcMoves, RowsTyped,
       execFrame
  <2>19. CASE CatchCancelled
    BY <2>19, <1>0
       DEF CatchCancelled, Goes, rows, Opening, BeforeClose, PcMoves,
       RowsTyped, execFrame
  <2>20. CASE CatchError
    BY <2>20, <1>0
       DEF CatchError, Goes, rows, Opening, BeforeClose, PcMoves, RowsTyped,
       execFrame
  <2>21. CASE FailSteps
    BY <2>21, <1>0
       DEF FailSteps, Goes, Opening, BeforeClose, PcMoves, RowsTyped, execFrame
  <2>22. CASE FailMessage
    BY <2>22, <1>0
       DEF FailMessage, Goes, Opening, BeforeClose, PcMoves, RowsTyped,
       execFrame
  <2>23. CASE FailRun
    BY <2>23, <1>0
       DEF FailRun, Goes, EndRun, Opening, BeforeClose, PcMoves, RowsTyped,
       execFrame
  <2>24. CASE RemoveDraft
    BY <2>24, <1>0
       DEF RemoveDraft, Goes, Opening, BeforeClose, PcMoves, RowsTyped,
       execFrame
  <2> QED
    BY <1>1, <2>1, <2>2, <2>3, <2>4, <2>5, <2>6, <2>7, <2>8, <2>9, <2>10, <2>11,
       <2>12, <2>13, <2>14, <2>15, <2>16, <2>17, <2>18, <2>19, <2>20, <2>21,
       <2>22, <2>23, <2>24 DEF Execute
<1>2. CASE RequestCancel
  BY <1>2, <1>0 DEF RequestCancel, rows, cancelFrame, PcMoves, Opening, BeforeClose
<1>3. CASE Route \/ Reload
  BY <1>0, <1>3 DEF Route, Subscribe, ReadRun, ReadRow, ReadDraft,
     WriteSnapshot, LoadSession, Reload, rows, PcMoves, Opening, BeforeClose
<1>4. ASSUME NEW p \in Processes, Cancel(p) PROVE PcMoves
  <2>1. exec' = exec
    BY <1>4 DEF Cancel, SetFlag, ReadMessage, CancelSteps, CancelMessage,
       AnnounceMessageCancelled, CancelDraft, AnnounceCancelled, CancelRun,
       cancelFrame
  <2>2. run.status = "cancelled" => run'.status = "cancelled"
    BY <1>0, <1>4 DEF Cancel, SetFlag, ReadMessage, CancelSteps, CancelMessage,
       AnnounceMessageCancelled, CancelDraft, AnnounceCancelled, CancelRun,
       EndRun, rows, RowsTyped
  <2> QED
    BY <2>1, <2>2 DEF PcMoves
<1>5. ASSUME NEW p \in Processes, Deliver(p) PROVE PcMoves
  BY <1>5 DEF Deliver, rows, PcMoves
<1>6. CASE UNCHANGED vars
  BY <1>6 DEF vars, rows, PcMoves
<1> QED
  BY <1>1, <1>2, <1>3, <1>4, <1>5, <1>6 DEF Next, Done

LEMMA QuietStep == RowsIInv /\ RowsIInv' /\ [Next]_vars =>
    QuietMoves
<1> SUFFICES ASSUME RowsIInv, RowsIInv', [Next]_vars PROVE QuietMoves
  OBVIOUS
<1>0. /\ RowsTyped /\ EndsTold /\ WorkerTold
      /\ NobodyCancels' => NobodyCancels
  BY RowsMoveStep DEF RowsIInv, RowsMove
<1>1. CASE Execute
  <2>1. CASE CreateMessage
    BY <2>1, <1>0
       DEF CreateMessage, Goes, BeforeClose, AfterEnd, QuietMoves, RowsTyped,
       watch, WorkerTold
  <2>2. CASE EnsureDraft
    BY <2>2, <1>0
       DEF EnsureDraft, Goes, BeforeClose, AfterEnd, QuietMoves, RowsTyped,
       watch, WorkerTold
  <2>3. CASE LinkMessage
    BY <2>3, <1>0
       DEF LinkMessage, Goes, BeforeClose, AfterEnd, QuietMoves, RowsTyped,
       watch, WorkerTold
  <2>4. CASE AnnounceMessage
    BY <2>4, <1>0
       DEF AnnounceMessage, Goes, rows, BeforeClose, AfterEnd, QuietMoves,
       RowsTyped, watch, WorkerTold
  <2>5. CASE AppendDelta
    BY <2>5, <1>0
       DEF AppendDelta, BeforeClose, AfterEnd, QuietMoves, RowsTyped, watch
  <2>6. CASE EmitDelta
    BY <2>6, <1>0
       DEF EmitDelta, rows, BeforeClose, AfterEnd, QuietMoves, RowsTyped, watch
  <2>7. CASE OpenStep
    BY <2>7, <1>0
       DEF OpenStep, Goes, BeforeClose, AfterEnd, QuietMoves, RowsTyped, watch
  <2>8. CASE GuardAborts
    BY <2>8, <1>0
       DEF GuardAborts, Goes, rows, BeforeClose, AfterEnd, QuietMoves,
       RowsTyped, watch
  <2>9. CASE GuardCancels
    BY <2>9, <1>0
       DEF GuardCancels, Goes, rows, BeforeClose, AfterEnd, QuietMoves,
       RowsTyped, watch, NobodyCancels, Processes
  <2>10. CASE GuardCancelled
    BY <2>10, <1>0
       DEF GuardCancelled, Goes, rows, BeforeClose, AfterEnd, QuietMoves,
       RowsTyped, watch
  <2>11. CASE AgentFails
    BY <2>11, <1>0
       DEF AgentFails, Goes, rows, BeforeClose, AfterEnd, QuietMoves,
       RowsTyped, watch
  <2>12. CASE AgentAnswers
    BY <2>12, <1>0
       DEF AgentAnswers, Goes, rows, BeforeClose, AfterEnd, QuietMoves,
       RowsTyped, watch
  <2>13. CASE SetAnswerText
    BY <2>13, <1>0
       DEF SetAnswerText, BeforeClose, AfterEnd, QuietMoves, RowsTyped, watch
  <2>14. CASE EmitText
    BY <2>14, <1>0
       DEF EmitText, Goes, rows, BeforeClose, AfterEnd, QuietMoves, RowsTyped,
       watch
  <2>15. CASE CloseSteps
    BY <2>15, <1>0
       DEF CloseSteps, Goes, BeforeClose, AfterEnd, QuietMoves, RowsTyped,
       watch
  <2>16. CASE CompleteMessage
    BY <2>16, <1>0
       DEF CompleteMessage, Goes, BeforeClose, AfterEnd, QuietMoves, RowsTyped,
       watch
  <2>17. CASE AnnounceEnd
    BY <2>17, <1>0
       DEF AnnounceEnd, Goes, rows, BeforeClose, AfterEnd, QuietMoves,
       RowsTyped, watch
  <2>18. CASE CompleteRun
    BY <2>18, <1>0
       DEF CompleteRun, Goes, EndRun, BeforeClose, AfterEnd, QuietMoves,
       RowsTyped, watch, EndsTold
  <2>19. CASE CatchCancelled
    BY <2>19, <1>0
       DEF CatchCancelled, Goes, rows, BeforeClose, AfterEnd, QuietMoves,
       RowsTyped, watch
  <2>20. CASE CatchError
    BY <2>20, <1>0
       DEF CatchError, Goes, rows, BeforeClose, AfterEnd, QuietMoves,
       RowsTyped, watch
  <2>21. CASE FailSteps
    BY <2>21, <1>0
       DEF FailSteps, Goes, BeforeClose, AfterEnd, QuietMoves, RowsTyped, watch
  <2>22. CASE FailMessage
    BY <2>22, <1>0
       DEF FailMessage, Goes, BeforeClose, AfterEnd, QuietMoves, RowsTyped,
       watch
  <2>23. CASE FailRun
    BY <2>23, <1>0
       DEF FailRun, Goes, EndRun, BeforeClose, AfterEnd, QuietMoves, RowsTyped,
       watch
  <2>24. CASE RemoveDraft
    BY <2>24, <1>0
       DEF RemoveDraft, Goes, BeforeClose, AfterEnd, QuietMoves, RowsTyped,
       watch
  <2> QED
    BY <1>1, <2>1, <2>2, <2>3, <2>4, <2>5, <2>6, <2>7, <2>8, <2>9, <2>10, <2>11,
       <2>12, <2>13, <2>14, <2>15, <2>16, <2>17, <2>18, <2>19, <2>20, <2>21,
       <2>22, <2>23, <2>24 DEF Execute
<1>2. CASE RequestCancel
  BY <1>2, <1>0 DEF RequestCancel, NobodyCancels, Processes, QuietMoves, RowsTyped
<1>3. CASE Route \/ Reload
  BY <1>0, <1>3 DEF Route, Subscribe, ReadRun, ReadRow, ReadDraft,
     WriteSnapshot, LoadSession, Reload, rows, QuietMoves, AfterEnd
<1>4. ASSUME NEW p \in Processes, Cancel(p) PROVE QuietMoves
  <2>1. cancel[p].pc # "idle"
    BY <1>4 DEF Cancel, SetFlag, ReadMessage, CancelSteps, CancelMessage,
       AnnounceMessageCancelled, CancelDraft, AnnounceCancelled, CancelRun,
       CancelGoes
  <2> QED
    BY <1>0, <1>4, <2>1 DEF NobodyCancels, QuietMoves
<1>5. ASSUME NEW p \in Processes, Deliver(p) PROVE QuietMoves
  <2>1. exec' = exec /\ stepOpen' = stepOpen
    BY <1>5 DEF Deliver, rows
  <2>2. p # "worker" => wire'["worker"] = wire["worker"]
    BY <1>5 DEF Deliver, Processes
  <2> QED
    BY <1>5, <2>1, <2>2 DEF QuietMoves
<1>6. CASE UNCHANGED vars
  BY <1>6 DEF vars, rows, watch, QuietMoves
<1> QED
  BY <1>1, <1>2, <1>3, <1>4, <1>5, <1>6 DEF Next, Done

LEMMA LinkedStep == RowsIInv /\ Linked /\ [Next]_vars => Linked'
<1> SUFFICES ASSUME RowsIInv, Linked, [Next]_vars PROVE Linked'
  OBVIOUS
<1>0. RowsTyped
  BY DEF RowsIInv
<1>1. CASE Execute
  <2>1. CASE CreateMessage
    BY <2>1, <1>0 DEF CreateMessage, Goes, Linked, Generating, RowsTyped
  <2>2. CASE EnsureDraft
    BY <2>2, <1>0 DEF EnsureDraft, Goes, Linked, Generating, RowsTyped
  <2>3. CASE LinkMessage
    BY <2>3, <1>0 DEF LinkMessage, Goes, Linked, Generating, RowsTyped
  <2>4. CASE AnnounceMessage
    BY <2>4, <1>0
       DEF AnnounceMessage, Goes, rows, Linked, Generating, RowsTyped
  <2>5. CASE AppendDelta
    BY <2>5, <1>0 DEF AppendDelta, Linked, Generating, RowsTyped
  <2>6. CASE EmitDelta
    BY <2>6, <1>0 DEF EmitDelta, rows, Linked, Generating, RowsTyped
  <2>7. CASE OpenStep
    BY <2>7, <1>0 DEF OpenStep, Goes, Linked, Generating, RowsTyped
  <2>8. CASE GuardAborts
    BY <2>8, <1>0 DEF GuardAborts, Goes, rows, Linked, Generating, RowsTyped
  <2>9. CASE GuardCancels
    BY <2>9, <1>0 DEF GuardCancels, Goes, rows, Linked, Generating, RowsTyped
  <2>10. CASE GuardCancelled
    BY <2>10, <1>0
       DEF GuardCancelled, Goes, rows, Linked, Generating, RowsTyped
  <2>11. CASE AgentFails
    BY <2>11, <1>0 DEF AgentFails, Goes, rows, Linked, Generating, RowsTyped
  <2>12. CASE AgentAnswers
    BY <2>12, <1>0 DEF AgentAnswers, Goes, rows, Linked, Generating, RowsTyped
  <2>13. CASE SetAnswerText
    BY <2>13, <1>0 DEF SetAnswerText, Linked, Generating, RowsTyped
  <2>14. CASE EmitText
    BY <2>14, <1>0 DEF EmitText, Goes, rows, Linked, Generating, RowsTyped
  <2>15. CASE CloseSteps
    BY <2>15, <1>0 DEF CloseSteps, Goes, Linked, Generating, RowsTyped
  <2>16. CASE CompleteMessage
    BY <2>16, <1>0 DEF CompleteMessage, Goes, Linked, Generating, RowsTyped
  <2>17. CASE AnnounceEnd
    BY <2>17, <1>0 DEF AnnounceEnd, Goes, rows, Linked, Generating, RowsTyped
  <2>18. CASE CompleteRun
    BY <2>18, <1>0 DEF CompleteRun, Goes, EndRun, Linked, Generating, RowsTyped
  <2>19. CASE CatchCancelled
    BY <2>19, <1>0
       DEF CatchCancelled, Goes, rows, Linked, Generating, RowsTyped
  <2>20. CASE CatchError
    BY <2>20, <1>0 DEF CatchError, Goes, rows, Linked, Generating, RowsTyped
  <2>21. CASE FailSteps
    BY <2>21, <1>0 DEF FailSteps, Goes, Linked, Generating, RowsTyped
  <2>22. CASE FailMessage
    BY <2>22, <1>0 DEF FailMessage, Goes, Linked, Generating, RowsTyped
  <2>23. CASE FailRun
    BY <2>23, <1>0 DEF FailRun, Goes, EndRun, Linked, Generating, RowsTyped
  <2>24. CASE RemoveDraft
    BY <2>24, <1>0 DEF RemoveDraft, Goes, Linked, Generating, RowsTyped
  <2> QED
    BY <1>1, <2>1, <2>2, <2>3, <2>4, <2>5, <2>6, <2>7, <2>8, <2>9, <2>10, <2>11,
       <2>12, <2>13, <2>14, <2>15, <2>16, <2>17, <2>18, <2>19, <2>20, <2>21,
       <2>22, <2>23, <2>24 DEF Execute
<1>2. CASE RequestCancel
  BY <1>2 DEF RequestCancel, rows, cancelFrame, Linked
<1>3. CASE Route \/ Reload
  BY <1>3 DEF Route, Subscribe, ReadRun, ReadRow, ReadDraft,
     WriteSnapshot, LoadSession, Reload, rows, Linked
<1>4. ASSUME NEW p \in Processes, Cancel(p) PROVE Linked'
  <2>1. exec' = exec
    BY <1>4 DEF Cancel, SetFlag, ReadMessage, CancelSteps, CancelMessage,
       AnnounceMessageCancelled, CancelDraft, AnnounceCancelled, CancelRun,
       cancelFrame
  <2>2. run'.linked = run.linked
    BY <1>0, <1>4 DEF Cancel, SetFlag, ReadMessage, CancelSteps, CancelMessage,
       AnnounceMessageCancelled, CancelDraft, AnnounceCancelled, CancelRun,
       EndRun, rows, RowsTyped
  <2> QED
    BY <2>1, <2>2 DEF Linked
<1>5. ASSUME NEW p \in Processes, Deliver(p) PROVE Linked'
  BY <1>5 DEF Deliver, rows, Linked
<1>6. CASE UNCHANGED vars
  BY <1>6 DEF vars, rows, Linked
<1> QED
  BY <1>1, <1>2, <1>3, <1>4, <1>5, <1>6 DEF Next, Done

-----------------------------------------------------------------------------
(* What a connection hears of one publication of the API process.          *)

\* No event takes a message off the page.
LEMMA StaysKnown ==
    ASSUME NEW m, IsMessage(m), m.known, NEW e \in Events,
           e.type # "cancelled" => e.onMessage
    PROVE  ApplyEvent(m, e).known
<1>1. CASE e.type \in {"session.message.created", "session.message.updated"}
  BY <1>1, AppliedRecord
<1>2. CASE IsPartEvent(e)
  BY <1>2, AppliedPart DEF IsPartEvent
<1>3. CASE e.type = "final_answer"
  BY <1>3, AppliedAnswer
<1>4. CASE ~IsPartEvent(e) /\ e.type \notin
             {"session.message.created", "session.message.updated", "final_answer"}
  BY <1>4, AppliedOther
<1> QED
  BY <1>1, <1>2, <1>3, <1>4

\* A connection that is closed hears nothing, and one that stays open has
\* heard no terminal event.
HeardNothing == conn.stage \notin Listening /\ conn' = conn /\ page' = page

HeardOn(q) ==
    /\ conn.stage \in Listening /\ conn' = conn
    /\ \A i \in 1..Len(q) : ~IsTerminalEvent(q[i])

HeardEnd(q) ==
    /\ conn.stage \in Listening /\ conn'.stage = "ended"
    /\ conn'.early = conn.early
    /\ \E i \in 1..Len(q), m \in Messages :
         /\ IsMessage(m) /\ (page.known => m.known)
         /\ IsTerminalEvent(q[i])
         /\ conn'.by = q[i] /\ page' = ApplyEvent(m, q[i])

LEMMA HeardWhole ==
    ASSUME NEW q, Tells("api", q), conn \in Conns, IsMessage(page)
    PROVE  HeardNothing \/ HeardOn(q) \/ HeardEnd(q)
<1>0. /\ q \in Seq(Events)
      /\ \A i \in 1..Len(q) : q[i] \in Events /\ IsTold("api", q[i])'
  BY DEF Tells
<1>1. Len(q) \in 0..2
  <2>1. Len(q) \in Nat /\ Len(q) <= 2
    BY LenProperties DEF Tells
  <2>2. \A n \in Nat : n <= 2 => n \in 0..2
    OBVIOUS
  <2> QED
    BY <2>1, <2>2
<1>2. ASSUME NEW e \in Events, IsTold("api", e)'
      PROVE  e.type # "cancelled" => e.onMessage
  BY <1>2 DEF IsTold, EventTold
<1>3. page \in Messages /\ "ended" \notin Listening
  BY DEF IsMessage, Listening
<1>4. /\ conn' = FoldLeft(Receive, <<conn, page>>, q)[1]
      /\ page' = FoldLeft(Receive, <<conn, page>>, q)[2]
  BY DEF Tells, Publish
<1>5. CASE Len(q) = 0
  <2>1. DOMAIN q = {}
    BY <1>0, <1>5
  <2>2. conn' = conn /\ page' = page
    BY <1>4, <2>1, FoldNone
  <2> QED
    BY <1>5, <2>2 DEF HeardNothing, HeardOn
<1>6. CASE Len(q) = 1
  <2>1. DOMAIN q = {1} /\ 1 \in 1..Len(q)
    BY <1>0, <1>6
  <2>2. PICK e \in Events : e = q[1] /\ IsTold("api", e)'
    BY <1>0, <2>1
  <2> DEFINE r == Receive(<<conn, page>>, e)
  <2>3. conn' = r[1] /\ page' = r[2]
    BY <1>4, <2>1, <2>2, FoldOne
  <2>4. /\ r[1].early = conn.early
        /\ conn.stage \notin Listening => r = <<conn, page>>
        /\ conn.stage \in Listening => r[2] = ApplyEvent(page, e)
        /\ conn.stage \in Listening /\ IsTerminalEvent(e) =>
             r[1].stage = "ended" /\ r[1].by = e
        /\ ~IsTerminalEvent(e) => r[1] = conn
    BY Received
  <2> HIDE DEF r
  <2>5. CASE conn.stage \notin Listening
    BY <2>3, <2>4, <2>5 DEF HeardNothing
  <2>6. CASE conn.stage \in Listening /\ ~IsTerminalEvent(e)
    <3>1. \A i \in 1..Len(q) : i = 1
      BY <1>6
    <3> QED
      BY <2>2, <2>3, <2>4, <2>6, <3>1 DEF HeardOn
  <2>7. CASE conn.stage \in Listening /\ IsTerminalEvent(e)
    <3>1. /\ IsTerminalEvent(q[1]) /\ conn'.by = q[1]
          /\ page' = ApplyEvent(page, q[1])
      BY <2>2, <2>3, <2>4, <2>7
    <3> QED
      BY <1>3, <2>1, <2>3, <2>4, <2>7, <3>1 DEF HeardEnd
  <2> QED
    BY <2>5, <2>6, <2>7
<1>7. CASE Len(q) = 2
  <2>1. DOMAIN q = {1, 2} /\ 1 \in 1..Len(q) /\ 2 \in 1..Len(q)
    BY <1>0, <1>7
  <2>2. PICK e \in Events : e = q[1] /\ IsTold("api", e)'
    BY <1>0, <2>1
  <2>3. PICK f \in Events : f = q[2] /\ IsTold("api", f)'
    BY <1>0, <2>1
  <2> DEFINE r == Receive(<<conn, page>>, e)
             m == r[2]
             s == Receive(<<r[1], m>>, f)
  <2>4. /\ r = <<r[1], m>> /\ r[1] \in Conns
        /\ r[1].early = conn.early
        /\ conn.stage \notin Listening => r = <<conn, page>>
        /\ conn.stage \in Listening => m = ApplyEvent(page, e)
        /\ conn.stage \in Listening /\ IsTerminalEvent(e) =>
             r[1].stage = "ended" /\ r[1].by = e
        /\ ~IsTerminalEvent(e) => r[1] = conn
    BY Received
  <2>5. conn' = s[1] /\ page' = s[2]
    BY <1>4, <2>1, <2>2, <2>3, <2>4, FoldTwo
  <2>6. /\ s[1].early = r[1].early
        /\ r[1].stage \notin Listening => s = <<r[1], m>>
        /\ r[1].stage \in Listening => s[2] = ApplyEvent(m, f)
        /\ r[1].stage \in Listening /\ IsTerminalEvent(f) =>
             s[1].stage = "ended" /\ s[1].by = f
        /\ ~IsTerminalEvent(f) => s[1] = r[1]
    <3> HIDE DEF r
    <3>1. r[1] \in Conns
      BY <2>4
    <3> QED
      BY <3>1, Received
  <2>7. conn.stage \in Listening =>
          IsMessage(m) /\ m \in Messages /\ (page.known => m.known)
    <3>1. e.type # "cancelled" => e.onMessage
      BY <1>2, <2>2
    <3>2. /\ IsMessage(ApplyEvent(page, e))
          /\ page.known => ApplyEvent(page, e).known
      BY <3>1, Applied, StaysKnown
    <3> HIDE DEF m
    <3> QED
      BY <2>4, <3>2 DEF IsMessage, m
  <2> HIDE DEF r, m, s
  <2>8. CASE conn.stage \notin Listening
    <3>1. r[1] = conn /\ m = page
      BY <2>4, <2>8 DEF m
    <3> QED
      BY <2>5, <2>6, <2>8, <3>1 DEF HeardNothing
  <2>9. CASE conn.stage \in Listening /\ IsTerminalEvent(e)
    <3>1. r[1].stage \notin Listening
      BY <1>3, <2>4, <2>9
    <3>2. conn' = r[1] /\ page' = m
      BY <2>5, <2>6, <3>1
    <3>3. /\ IsTerminalEvent(q[1]) /\ conn'.by = q[1]
          /\ page' = ApplyEvent(page, q[1])
      BY <2>2, <2>4, <2>9, <3>2
    <3> QED
      BY <1>3, <2>1, <2>4, <2>9, <3>2, <3>3 DEF HeardEnd
  <2>10. CASE conn.stage \in Listening /\ ~IsTerminalEvent(e) /\ IsTerminalEvent(f)
    <3>1. /\ IsTerminalEvent(q[2]) /\ conn'.by = q[2]
          /\ page' = ApplyEvent(m, q[2]) /\ conn'.stage = "ended"
          /\ conn'.early = conn.early
      BY <2>3, <2>4, <2>5, <2>6, <2>10
    <3> QED
      BY <2>1, <2>7, <2>10, <3>1 DEF HeardEnd
  <2>11. CASE conn.stage \in Listening /\ ~IsTerminalEvent(e) /\ ~IsTerminalEvent(f)
    <3>1. \A i \in 1..Len(q) : i = 1 \/ i = 2
      BY <1>7
    <3>2. conn' = conn
      BY <2>4, <2>5, <2>6, <2>11
    <3> QED
      BY <2>2, <2>3, <2>11, <3>1, <3>2 DEF HeardOn
  <2> QED
    BY <2>8, <2>9, <2>10, <2>11
<1> QED
  BY <1>1, <1>5, <1>6, <1>7

-----------------------------------------------------------------------------
(* A connection of the early kind, until it is closed.                     *)

\* It has the message, unless the API process has not announced it yet.
HasMessage == page.known \/ (place = "api" /\ (\/ exec.pc \in Opening
                                               \/ run.status = "cancelled"))

PageTold ==
    /\ conn.early => conn.stage \in {"live", "ended"}
    /\ conn.stage = "write" => conn.snap.known
    /\ conn.early /\ conn.stage = "live" => HasMessage

\* What the route makes of the early flag, and of the steps.
LEMMA RouteSettles ==
    ASSUME StreamIInv, Linked, PageTold, Route \/ Reload
    PROVE  /\ UNCHANGED <<place, rows, exec, cancel, wire>>
           /\ conn'.early => conn'.stage = "live" /\ Undisturbed
           /\ conn'.stage = "write" => conn'.snap.known
           /\ conn'.early => HasMessage'
           /\ conn'.snap.stepOpen \in {conn.snap.stepOpen, stepOpen, FALSE}
           /\ page'.stepOpen \in
                {page.stepOpen, conn.snap.stepOpen, stepOpen, FALSE}
<1>0. /\ RowsTyped /\ WorkerTold /\ WatchTyped /\ conn \in Conns
      /\ IsMessage(page) /\ IsMessage(conn.snap)
  BY DEF StreamIInv, RowsIInv, WatchIInv, WatchTyped
<1>1. UNCHANGED <<place, rows, exec, cancel, wire>>
  BY DEF Route, Subscribe, ReadRun, ReadRow, ReadDraft, WriteSnapshot,
     LoadSession, Reload, rows
<1>2. HasMessage' = (page'.known \/ (place = "api" /\
                       (exec.pc \in Opening \/ run.status = "cancelled")))
  BY <1>1 DEF HasMessage, rows
<1>3. CASE Subscribe
  <2> DEFINE f == exec.deltas = 0 /\ exec.pc \in Generating
  <2>1. /\ conn' = [conn EXCEPT !.stage = "subscribed", !.fresh = f]
        /\ page' = page /\ conn.stage = "open"
    BY <1>3 DEF Subscribe
  <2>2. /\ conn'.stage = "subscribed" /\ conn'.early = conn.early
        /\ conn'.snap = conn.snap
    BY <1>0, <2>1 DEF Conns
  <2> HIDE DEF f
  <2> QED
    BY <1>1, <2>1, <2>2 DEF PageTold
<1>4. CASE ReadRun
  <2> DEFINE b == run.status = "running"
             c == [conn EXCEPT !.sawRunning = b]
  <2>1. /\ conn' = IF run.linked THEN [c EXCEPT !.stage = "row"] ELSE Settled(c)
        /\ page' = page /\ conn.stage = "subscribed"
    BY <1>4 DEF ReadRun
  <2>2. /\ c \in Conns /\ c.early = conn.early /\ c.snap = conn.snap
    BY <1>0 DEF Conns
  <2>3. ~conn.early
    BY <2>1 DEF PageTold
  <2> HIDE DEF c
  <2>4. CASE run.linked
    <3>1. /\ conn'.stage = "row" /\ conn'.early = conn.early
          /\ conn'.snap = conn.snap
      BY <2>1, <2>2, <2>4 DEF Conns
    <3> QED
      BY <1>1, <2>1, <2>3, <3>1
  <2>5. CASE ~run.linked
    <3>1. conn' = Settled(c)
      BY <2>1, <2>5
    <3>2. /\ conn'.stage \in {"live", "ended"} /\ conn'.snap = conn.snap
          /\ conn'.early => conn'.stage = "live" /\ Undisturbed
      BY <2>2, <2>3, <3>1, SettledIs
    <3>3. Undisturbed => HasMessage'
      <4>1. place = "api"
        BY <1>0, <2>5, RunStreamAssumption
           DEF WorkerTold, RowsTyped, Processes
      <4> QED
        BY <1>2, <2>5, <4>1 DEF Undisturbed, Linked, Generating, Opening
    <3> QED
      BY <1>1, <2>1, <3>2, <3>3
  <2> QED
    BY <2>4, <2>5
<1>5. CASE ReadRow
  <2> DEFINE s == Snapshot(msg.status, msg.text, NoVersion)
  <2>0. NoVersion \in Int
    BY DEF NoVersion
  <2>1. IsMessage(s) /\ s \in Messages /\ s.known /\ s.stepOpen = stepOpen
    BY <1>0, <2>0, SnapshotIs DEF RowsTyped
  <2>2. /\ conn' = IF msg.status = "running" THEN [conn EXCEPT !.stage = "draft"]
                ELSE [conn EXCEPT !.stage = "write", !.snap = s]
        /\ page' = page /\ conn.stage = "row"
    BY <1>5 DEF ReadRow
  <2> HIDE DEF s
  <2>3. /\ conn'.early = conn.early
        /\ \/ conn'.stage = "draft" /\ conn'.snap = conn.snap
           \/ conn'.stage = "write" /\ conn'.snap = s
    BY <1>0, <2>2 DEF Conns
  <2> QED
    BY <1>1, <2>1, <2>2, <2>3 DEF PageTold
<1>6. CASE ReadDraft
  <2> DEFINE s == IF draft.exists
                    THEN Snapshot("running", draft.text, draft.version)
                    ELSE Snapshot("running", <<>>, NoVersion)
  <2>1. s.known /\ s.stepOpen = stepOpen
    BY DEF Snapshot
  <2>2. /\ conn' = [conn EXCEPT !.stage = "write", !.snap = s]
        /\ page' = page /\ conn.stage = "draft"
    BY <1>6 DEF ReadDraft
  <2> HIDE DEF s
  <2>3. conn'.early = conn.early /\ conn'.snap = s
    BY <1>0, <2>2 DEF Conns
  <2> QED
    BY <1>1, <2>1, <2>2, <2>3 DEF PageTold
<1>7. CASE WriteSnapshot
  <2>1. /\ page' = ApplySnapshot(page, conn.snap) /\ conn' = Settled(conn)
        /\ conn.stage = "write"
    BY <1>7 DEF WriteSnapshot
  <2>2. ~conn.early /\ conn.snap.known
    BY <2>1 DEF PageTold
  <2>3. /\ conn'.stage \in {"live", "ended"} /\ conn'.snap = conn.snap
        /\ conn'.early => conn'.stage = "live" /\ Undisturbed
    BY <1>0, <2>1, <2>2, SettledIs
  <2>4. page' \in {page, conn.snap}
    BY <2>1, ApplySnapshotIs
  <2>5. page'.known
    <3>1. CASE conn.snap.version # NoVersion /\ conn.snap.version < page.version
      <4>1. page.version # NoVersion
        BY <1>0, <3>1 DEF StreamIInv, WatchIInv, VersionsTold, NoVersion,
           RowsTyped
      <4>2. page # NoMessage
        BY <4>1, NoMessageIs DEF NoVersion
      <4>3. page.known
        BY <1>0, <4>2 DEF IsMessage
      <4> QED
        BY <2>2, <2>4, <4>3
    <3>2. CASE ~(conn.snap.version # NoVersion /\ conn.snap.version < page.version)
      BY <2>1, <2>2, <3>2 DEF ApplySnapshot
    <3> QED
      BY <3>1, <3>2
  <2> QED
    BY <1>1, <1>2, <2>3, <2>4, <2>5
<1>8. CASE LoadSession
  <2> DEFINE s == Snapshot(msg.status, msg.text, NoVersion)
             g == IF conn.sawRunning THEN "open" ELSE "ended"
  <2>1. /\ page' = s \/ page' = NoMessage
        /\ conn' = [conn EXCEPT !.stage = g] /\ conn.stage = "reload"
    BY <1>8 DEF LoadSession
  <2>2. s.stepOpen = stepOpen /\ NoMessage.stepOpen = FALSE
    BY DEF Snapshot, NoMessage
  <2>3. g \in {"open", "ended"} /\ ~conn.early
    BY <2>1 DEF PageTold
  <2> HIDE DEF s, g
  <2>4. conn'.stage = g /\ conn'.early = conn.early /\ conn'.snap = conn.snap
    BY <1>0, <2>1 DEF Conns
  <2> QED
    BY <1>1, <2>1, <2>2, <2>3, <2>4
<1>9. CASE Reload
  <2>1. PICK b \in BOOLEAN : b = (run.status = "running")
    OBVIOUS
  <2>2. /\ conn' = [NewConnection EXCEPT !.stage = "reload", !.sawRunning = b]
        /\ page' = NoMessage
    BY <1>9, <2>1 DEF Reload
  <2>3. conn'.stage = "reload" /\ ~conn'.early /\ conn'.snap = NoMessage
    BY <2>2, NewConnectionIs DEF Stages
  <2> QED
    BY <1>1, <2>2, <2>3, NoMessageIs
<1> QED
  BY <1>3, <1>4, <1>5, <1>6, <1>7, <1>8, <1>9 DEF Route

LEMMA PageToldStep ==
    StreamIInv /\ StreamIInv' /\ Linked /\ PageTold /\ [Next]_vars => PageTold'
<1> SUFFICES ASSUME StreamIInv, StreamIInv', Linked, PageTold, [Next]_vars
             PROVE  PageTold'
  OBVIOUS
<1>0. /\ RowsIInv /\ RowsIInv' /\ WatchTyped /\ EventsTold /\ WorkerTold
      /\ conn \in Conns /\ IsMessage(page) /\ page \in Messages
      /\ place' = place /\ PcMoves /\ place \in Processes
  BY RowsMoveStep, PcStep, RunStreamAssumption
     DEF StreamIInv, RowsIInv, WatchIInv, WatchTyped, RowsMove, IsMessage,
         RowsTyped
<1>00. {"live", "ended", "write"} \subseteq Stages /\ "ended" # "write"
  BY DEF Stages, Listening
<1>1. CASE AnnounceMessage
  <2>1. place = "api"
    BY <1>0, <1>1 DEF AnnounceMessage, Goes, WorkerTold, Processes
  <2>2. PICK e \in Events : e = Created
    BY EventsAre
  <2>3. e.type = "session.message.created" /\ ~IsTerminalEvent(e)
    BY <2>2, EventsAre DEF IsTerminalEvent
  <2> DEFINE q == <<e>>
             r == Receive(<<conn, page>>, e)
  <2>4. DOMAIN q = {1} /\ q[1] = e
    OBVIOUS
  <2>5. /\ conn' = FoldLeft(Receive, <<conn, page>>, q)[1]
        /\ page' = FoldLeft(Receive, <<conn, page>>, q)[2]
    BY <1>1, <2>1, <2>2 DEF AnnounceMessage, Publish
  <2>6. conn' = r[1] /\ page' = r[2]
    <3> HIDE DEF q
    <3> QED
      BY <2>4, <2>5, FoldOne
  <2>7. r[1] = conn /\ (conn.stage \in Listening => r[2] = ApplyEvent(page, e))
    BY <1>0, <2>3, Received
  <2>8. ApplyEvent(page, e).known
    BY <1>0, <2>3, AppliedRecord
  <2>9. conn' = conn /\ (conn.stage \in Listening => page'.known)
    BY <2>6, <2>7, <2>8
  <2> QED
    BY <2>9 DEF PageTold, HasMessage, Listening
<1>2. CASE Route \/ Reload
  BY <1>2, RouteSettles DEF PageTold
<1>3. CASE ~AnnounceMessage /\ ~(Route \/ Reload)
  <2> DEFINE alt == place' = "api" /\ (exec'.pc \in Opening
                                       \/ run'.status = "cancelled")
             S == {cm \in Conns \X Messages :
                     /\ IsMessage(cm[2])
                     /\ cm[1].early => cm[1].stage \in {"live", "ended"}
                     /\ cm[1].stage = "write" => cm[1].snap.known
                     /\ cm[1].early /\ cm[1].stage = "live" =>
                          cm[2].known \/ alt}
  <2>1. HasMessage => page.known \/ alt
    BY <1>0, <1>3 DEF HasMessage, PcMoves
  <2> HIDE DEF alt
  <2>2. <<conn, page>> \in S
    BY <1>0, <2>1 DEF PageTold
  <2>3. ASSUME NEW cm \in S, NEW e \in Events,
               e.type # "cancelled" => e.onMessage
        PROVE  Receive(cm, e) \in S
    <3> DEFINE c == cm[1]
               m == cm[2]
               r == Receive(cm, e)
    <3>1. /\ cm = <<c, m>> /\ c \in Conns /\ IsMessage(m)
          /\ c.early => c.stage \in {"live", "ended"}
          /\ c.stage = "write" => c.snap.known
          /\ c.early /\ c.stage = "live" => m.known \/ alt
      OBVIOUS
    <3>2. /\ r = <<r[1], r[2]>> /\ r[1] \in Conns /\ r[1].snap = c.snap
          /\ r[1].early = c.early
          /\ r[2] = m \/ r[2] = ApplyEvent(m, e)
          /\ r[1].stage \in {c.stage, "ended"}
      BY <3>1, Received
    <3>3. IsMessage(ApplyEvent(m, e)) /\ (m.known => ApplyEvent(m, e).known)
      BY <2>3, <3>1, Applied, StaysKnown
    <3>4. IsMessage(r[2]) /\ r[2] \in Messages /\ (m.known => r[2].known)
      BY <3>1, <3>2, <3>3 DEF IsMessage
    <3> HIDE DEF r, c, m
    <3>5. r \in S
      BY <1>00, <3>1, <3>2, <3>4
    <3> QED
      BY <3>5 DEF r
  <2>4. S \subseteq Conns \X Messages
    OBVIOUS
  <2>5. <<conn', page'>> \in S
    <3> HIDE DEF S
    <3>1. ASSUME NEW cm \in S, NEW e \in Events, NEW p \in Processes,
                 IsTold(p, e) \/ IsTold(p, e)'
          PROVE  Receive(cm, e) \in S
      <4>1. e.type # "cancelled" => e.onMessage
        BY <3>1 DEF IsTold, EventTold
      <4> QED
        BY <2>3, <4>1
    <3> QED
      BY <1>0, <1>3, <2>2, <2>4, <3>1, HearingKeeps
  <2>6. /\ conn'.early => conn'.stage \in {"live", "ended"}
        /\ conn'.stage = "write" => conn'.snap.known
        /\ conn'.early /\ conn'.stage = "live" => page'.known \/ alt
    BY <2>5
  <2> QED
    BY <2>6 DEF PageTold, HasMessage, alt
<1> QED
  BY <1>1, <1>2, <1>3

\* The API process has told nothing terminal that was not heard at once.
ApiHeard ==
    conn.early /\ conn.stage = "live" =>
      \A i \in 1..Len(wire["api"]) : ~IsTerminalEvent(wire["api"][i])

LEMMA ApiHeardStep ==
    StreamIInv /\ StreamIInv' /\ Linked /\ PageTold /\ ApiHeard
      /\ [Next]_vars => ApiHeard'
<1> SUFFICES ASSUME StreamIInv, StreamIInv', Linked, PageTold, ApiHeard,
                    [Next]_vars, conn'.early, conn'.stage = "live"
             PROVE  \A i \in 1..Len(wire'["api"]) :
                      ~IsTerminalEvent(wire'["api"][i])
  BY DEF ApiHeard
<1>0. /\ RowsIInv /\ RowsIInv' /\ EventsTold /\ conn \in Conns
      /\ wire \in [Processes -> Seq(Events)] /\ IsMessage(page)
      /\ "api" \in Processes /\ "worker" \in Processes /\ "api" # "worker"
      /\ wire["api"] \in Seq(Events)
  BY DEF StreamIInv, WatchIInv, WatchTyped, Processes
<1>00. WatchMoves
  BY <1>0, WatchStep
<1>1. CASE UNCHANGED watch
  BY <1>1 DEF watch, ApiHeard
<1>2. ASSUME NEW q, Tells("worker", q)
      PROVE  \A i \in 1..Len(wire'["api"]) : ~IsTerminalEvent(wire'["api"][i])
  <2>1. conn' = conn /\ wire'["api"] = wire["api"]
    BY <1>0, <1>2, PublishedWire DEF Tells, Publish
  <2> QED
    BY <2>1 DEF ApiHeard
<1>3. ASSUME NEW q, Tells("api", q)
      PROVE  \A i \in 1..Len(wire'["api"]) : ~IsTerminalEvent(wire'["api"][i])
  <2>1. HeardNothing \/ HeardOn(q) \/ HeardEnd(q)
    BY <1>0, <1>3, HeardWhole
  <2>2. HeardOn(q)
    BY <2>1 DEF HeardNothing, HeardEnd, Listening
  <2>3. \A i \in 1..Len(wire["api"]) : ~IsTerminalEvent(wire["api"][i])
    BY <2>2 DEF HeardOn, ApiHeard
  <2>4. wire'["api"] = wire["api"] \o q /\ q \in Seq(Events)
    BY <1>0, <1>3, PublishedWire DEF Tells
  <2>5. \A i \in 1..Len(q) : ~IsTerminalEvent(q[i])
    BY <2>2 DEF HeardOn
  <2>6. ASSUME NEW i \in 1..Len(wire'["api"])
        PROVE  \/ \E j \in 1..Len(wire["api"]) : wire'["api"][i] = wire["api"][j]
               \/ \E j \in 1..Len(q) : wire'["api"][i] = q[j]
    <3>1. CASE i <= Len(wire["api"])
      BY <1>0, <2>4, <2>6, <3>1
    <3>2. CASE ~(i <= Len(wire["api"]))
      <4>1. /\ i - Len(wire["api"]) \in 1..Len(q)
            /\ wire'["api"][i] = q[i - Len(wire["api"])]
        BY <1>0, <2>4, <2>6, <3>2
      <4> QED
        BY <4>1
    <3> QED
      BY <3>1, <3>2
  <2> QED
    BY <2>3, <2>5, <2>6
<1>4. ASSUME NEW p \in Processes, Deliver(p)
      PROVE  \A i \in 1..Len(wire'["api"]) : ~IsTerminalEvent(wire'["api"][i])
  <2>1. PICK e \in Events : e = wire[p][1]
    BY <1>0, <1>4, DeliveredWire
  <2>2. <<conn', page'>> = Receive(<<conn, page>>, e)
    BY <1>0, <1>4, <2>1, DeliveredWire
  <2>3. conn'.stage \in {conn.stage, "ended"} /\ conn'.early = conn.early
    <3> DEFINE r == Receive(<<conn, page>>, e)
    <3>1. conn' = r[1]
      BY <2>2
    <3>2. r[1].stage \in {conn.stage, "ended"} /\ r[1].early = conn.early
      BY <1>0, Received
    <3> HIDE DEF r
    <3> QED
      BY <3>1, <3>2
  <2>4. \A i \in 1..Len(wire["api"]) : ~IsTerminalEvent(wire["api"][i])
    BY <2>3 DEF ApiHeard
  <2>5. \A i \in 1..Len(wire'["api"]) :
          \E j \in 1..Len(wire["api"]) : wire'["api"][i] = wire["api"][j]
    <3>1. CASE p = "api"
      <4>1. /\ Len(wire'["api"]) = Len(wire["api"]) - 1
            /\ Len(wire["api"]) \in Nat \ {0}
            /\ \A i \in 1..Len(wire'["api"]) :
                 wire'["api"][i] = wire["api"][i + 1]
        BY <1>0, <1>4, <3>1, DeliveredWire
      <4>2. \A i \in 1..Len(wire'["api"]) : i + 1 \in 1..Len(wire["api"])
        BY <4>1
      <4> QED
        BY <4>1, <4>2
    <3>2. CASE p # "api"
      BY <1>0, <1>4, <3>2, DeliveredWire
    <3> QED
      BY <3>1, <3>2
  <2> QED
    BY <2>4, <2>5
<1>5. CASE Route \/ Reload
  <2>1. Undisturbed /\ wire' = wire
    BY <1>5, RouteSettles
  <2>2. ASSUME NEW i \in 1..Len(wire["api"])
        PROVE  ~IsTerminalEvent(wire["api"][i])
    BY <1>0, <2>1, <2>2 DEF EventsTold, IsTold, EventTold
  <2> QED
    BY <2>1, <2>2
<1> QED
  BY <1>00, <1>1, <1>2, <1>3, <1>4, <1>5 DEF WatchMoves, Processes

-----------------------------------------------------------------------------
(* The end of a run in a worker: the message, then run_completed.          *)

IsEnd(e) == e.type = "run_completed"

\* What AnnounceEnd leaves on the wire of a worker.
LEMMA EndAnnounced ==
    ASSUME StreamIInv, AnnounceEnd
    PROVE  /\ exec.pc = "announceEnd" /\ exec'.pc = "endRun"
           /\ place = "worker" =>
                /\ conn' = conn /\ page' = page
                /\ \E e, f \in Events :
                     /\ e.type = "session.message.updated" /\ IsEnd(f)
                     /\ wire'["worker"] = wire["worker"] \o <<e, f>>
           /\ place = "api" =>
                /\ wire'["worker"] = wire["worker"]
                /\ <<conn', page'>> =
                     Receive(Receive(<<conn, page>>, Updated("completed", Answer)),
                             RunCompleted)
<1>0. /\ RowsTyped /\ wire \in [Processes -> Seq(Events)]
      /\ conn \in Conns /\ IsMessage(page)
      /\ "api" \in Processes /\ "worker" \in Processes /\ "api" # "worker"
  BY DEF StreamIInv, RowsIInv, WatchIInv, WatchTyped, Processes
<1>1. exec.pc = "announceEnd" /\ exec'.pc = "endRun"
  BY <1>0 DEF AnnounceEnd, Goes, RowsTyped
<1>2. PICK e, f \in Events : e = Updated("completed", Answer) /\ f = RunCompleted
  BY EventsAre, TextsAre DEF Statuses
<1>3. e.type = "session.message.updated" /\ IsEnd(f)
  BY <1>2, EventsAre, TextsAre DEF Statuses, IsEnd
<1> DEFINE q == <<e, f>>
<1>4. Publish(place, q)
  BY <1>2 DEF AnnounceEnd
<1>5. DOMAIN q = {1, 2} /\ q[1] = e /\ q[2] = f
  OBVIOUS
<1>6. ASSUME place = "worker"
      PROVE  /\ conn' = conn /\ page' = page
             /\ wire'["worker"] = wire["worker"] \o q
  BY <1>0, <1>4, <1>6 DEF Publish
<1>7. ASSUME place = "api"
      PROVE  /\ wire'["worker"] = wire["worker"]
             /\ <<conn', page'>> = Receive(Receive(<<conn, page>>, e), f)
  <2> DEFINE r == Receive(<<conn, page>>, e)
             s == Receive(r, f)
  <2>1. wire'["worker"] = wire["worker"]
    BY <1>0, <1>4, <1>7 DEF Publish
  <2>2. /\ conn' = FoldLeft(Receive, <<conn, page>>, q)[1]
        /\ page' = FoldLeft(Receive, <<conn, page>>, q)[2]
    BY <1>4, <1>7 DEF Publish
  <2>3. conn' = s[1] /\ page' = s[2]
    <3> HIDE DEF q
    <3> QED
      BY <1>5, <2>2, FoldTwo
  <2>4. r = <<r[1], r[2]>> /\ r[1] \in Conns
    BY <1>0, Received
  <2>5. s = <<s[1], s[2]>>
    <3> HIDE DEF r
    <3>1. PICK c \in Conns : c = r[1]
      BY <2>4
    <3>2. s = Receive(<<c, r[2]>>, f)
      BY <2>4, <3>1
    <3> HIDE DEF s
    <3> QED
      BY <3>1, <3>2, Received
  <2> HIDE DEF s
  <2>6. <<conn', page'>> = s
    BY <2>3, <2>5
  <2> QED
    BY <2>1, <2>6 DEF s
<1> HIDE DEF q
<1>8. place = "api" =>
        <<conn', page'>> =
          Receive(Receive(<<conn, page>>, Updated("completed", Answer)),
                  RunCompleted)
  BY <1>2, <1>7
<1> QED
  BY <1>1, <1>3, <1>6, <1>7, <1>8 DEF q

\* Only AnnounceEnd brings an end, only OpenStep an open step.
LEMMA NothingNew ==
    ASSUME StreamIInv, StreamIInv', [Next]_vars, ~AnnounceEnd
    PROVE  \A i \in 1..Len(wire'["worker"]) : IsEnd(wire'["worker"][i]) =>
             \/ /\ i \in 1..Len(wire["worker"])
                /\ wire'["worker"][i] = wire["worker"][i]
                /\ \A j \in 1..i : wire'["worker"][j] = wire["worker"][j]
             \/ /\ Deliver("worker")
                /\ i + 1 \in 1..Len(wire["worker"])
                /\ \A j \in 1..i : wire'["worker"][j] = wire["worker"][j + 1]
<1>0. /\ RowsIInv /\ RowsIInv' /\ wire \in [Processes -> Seq(Events)]
      /\ wire["worker"] \in Seq(Events) /\ Len(wire["worker"]) \in Nat
      /\ "api" \in Processes /\ "worker" \in Processes /\ "api" # "worker"
  BY DEF StreamIInv, WatchIInv, WatchTyped, Processes
<1>1. WatchMoves
  BY <1>0, WatchStep
<1> SUFFICES ASSUME NEW i \in 1..Len(wire'["worker"]), IsEnd(wire'["worker"][i])
    PROVE    \/ /\ i \in 1..Len(wire["worker"])
                /\ wire'["worker"][i] = wire["worker"][i]
                /\ \A j \in 1..i : wire'["worker"][j] = wire["worker"][j]
             \/ /\ Deliver("worker")
                /\ i + 1 \in 1..Len(wire["worker"])
                /\ \A j \in 1..i : wire'["worker"][j] = wire["worker"][j + 1]
  OBVIOUS
<1>2. CASE wire'["worker"] = wire["worker"]
  BY <1>2
<1>3. ASSUME NEW q, Tells("worker", q)
      PROVE  /\ i \in 1..Len(wire["worker"])
             /\ wire'["worker"][i] = wire["worker"][i]
             /\ \A j \in 1..i : wire'["worker"][j] = wire["worker"][j]
  <2>1. wire'["worker"] = wire["worker"] \o q /\ q \in Seq(Events)
    BY <1>0, <1>3, PublishedWire DEF Tells
  <2>2. CASE i <= Len(wire["worker"])
    BY <1>0, <2>1, <2>2
  <2>3. CASE ~(i <= Len(wire["worker"]))
    <3>1. /\ i - Len(wire["worker"]) \in 1..Len(q)
          /\ wire'["worker"][i] = q[i - Len(wire["worker"])]
      BY <1>0, <2>1, <2>3
    <3>2. \A k \in 1..Len(q) : ~IsEnd(q[k])
      BY <1>3 DEF Tells, Says, IsEnd
    <3> QED
      BY <3>1, <3>2
  <2> QED
    BY <2>2, <2>3
<1>4. ASSUME NEW q, Tells("api", q) PROVE wire'["worker"] = wire["worker"]
  BY <1>0, <1>4, PublishedWire
<1>5. CASE Deliver("api")
  BY <1>0, <1>2, <1>5, DeliveredWire
<1>6. CASE Deliver("worker")
  <2>1. /\ Len(wire'["worker"]) = Len(wire["worker"]) - 1
        /\ \A j \in 1..Len(wire'["worker"]) :
             wire'["worker"][j] = wire["worker"][j + 1]
    BY <1>0, <1>6, DeliveredWire
  <2>2. /\ i + 1 \in 1..Len(wire["worker"])
        /\ \A j \in 1..i : j \in 1..Len(wire'["worker"])
    BY <1>0, <2>1
  <2> QED
    BY <1>6, <2>1, <2>2
<1>7. CASE UNCHANGED watch \/ Route \/ Reload
  BY <1>2, <1>7 DEF watch, Route, Subscribe, ReadRun, ReadRow, ReadDraft,
     WriteSnapshot, LoadSession, Reload
<1> QED
  BY <1>1, <1>2, <1>3, <1>4, <1>5, <1>6, <1>7 DEF WatchMoves, Processes

\* The record of the message comes right before run_completed.
Preceded ==
    \A i \in 1..Len(wire["worker"]) : i > 1 /\ IsEnd(wire["worker"][i]) =>
      wire["worker"][i - 1].type = "session.message.updated"

LEMMA PrecededStep ==
    StreamIInv /\ StreamIInv' /\ Preceded /\ [Next]_vars => Preceded'
<1> SUFFICES ASSUME StreamIInv, StreamIInv', Preceded, [Next]_vars,
                    NEW i \in 1..Len(wire'["worker"]), i > 1,
                    IsEnd(wire'["worker"][i])
             PROVE  wire'["worker"][i - 1].type = "session.message.updated"
  BY DEF Preceded
<1>0. /\ wire["worker"] \in Seq(Events) /\ Len(wire["worker"]) \in Nat
      /\ wire'["worker"] \in Seq(Events) /\ Len(wire'["worker"]) \in Nat
      /\ place \in Processes
  BY RunStreamAssumption
     DEF StreamIInv, WatchIInv, WatchTyped, Processes, RowsIInv, RowsTyped
<1>1. CASE AnnounceEnd
  <2>1. CASE place = "worker"
    <3>1. PICK e, f \in Events :
            /\ e.type = "session.message.updated" /\ IsEnd(f)
            /\ wire'["worker"] = wire["worker"] \o <<e, f>>
      BY <1>1, <2>1, EndAnnounced
    <3> DEFINE n == Len(wire["worker"])
    <3>2. /\ Len(wire'["worker"]) = n + 2
          /\ \A j \in 1..n : wire'["worker"][j] = wire["worker"][j]
          /\ wire'["worker"][n + 1] = e
          /\ wire'["worker"][n + 2] = f
      BY <1>0, <3>1
    <3>3. CASE i \in 1..n
      <4>1. i - 1 \in 1..n
        BY <1>0, <3>3
      <4> QED
        BY <3>2, <3>3, <4>1 DEF Preceded
    <3>4. CASE i = n + 1
      BY <3>1, <3>2, <3>4 DEF IsEnd
    <3>5. CASE i = n + 2
      <4>1. i - 1 = n + 1
        BY <1>0, <3>5
      <4> QED
        BY <3>1, <3>2, <4>1
    <3> QED
      BY <1>0, <3>2, <3>3, <3>4, <3>5
  <2>2. CASE place = "api"
    <3>1. wire'["worker"] = wire["worker"]
      BY <1>1, <2>2, EndAnnounced
    <3> QED
      BY <3>1 DEF Preceded
  <2> QED
    BY <1>0, <2>1, <2>2 DEF Processes
<1>2. CASE ~AnnounceEnd
  <2>0. i \in 1..i /\ i - 1 \in 1..i
    OBVIOUS
  <2>1. CASE /\ i \in 1..Len(wire["worker"])
             /\ wire'["worker"][i] = wire["worker"][i]
             /\ \A j \in 1..i : wire'["worker"][j] = wire["worker"][j]
    BY <2>0, <2>1 DEF Preceded
  <2>2. CASE /\ i + 1 \in 1..Len(wire["worker"])
             /\ \A j \in 1..i : wire'["worker"][j] = wire["worker"][j + 1]
    <3>1. /\ wire'["worker"][i] = wire["worker"][i + 1]
          /\ wire'["worker"][i - 1] = wire["worker"][(i - 1) + 1]
      BY <2>0, <2>2
    <3>2. (i - 1) + 1 = i /\ (i + 1) - 1 = i /\ i + 1 > 1
      OBVIOUS
    <3> QED
      BY <2>2, <3>1, <3>2 DEF Preceded
  <2> QED
    BY <1>2, <2>1, <2>2, NothingNew
<1> QED
  BY <1>1, <1>2

\* When run_completed is next, the page has heard the record before it.
AnswerAhead ==
    (/\ conn.early /\ conn.stage = "live"
     /\ wire["worker"] # <<>> /\ IsEnd(wire["worker"][1])) =>
      page.status = "completed" /\ page.text = Answer

\* A completed message with its answer stays so, whatever a call of cancelRun
\* in the API process still tells, short of a terminal event.
LEMMA AnswerStays ==
    ASSUME NEW m, IsMessage(m), m.status = "completed", m.text = Answer,
           NEW e \in Events, ~IsTerminalEvent(e), e.onMessage,
           e.type \in {"process.step", "agent_state",
                       "session.message.updated", "cancelled"},
           e.type = "session.message.updated" =>
             e.status = "completed" /\ e.text = Answer
    PROVE  LET n == ApplyEvent(m, e) IN
             IsMessage(n) /\ n.status = "completed" /\ n.text = Answer
<1>1. CASE e.type = "session.message.updated"
  BY <1>1, AppliedRecord DEF IsMessage
<1>2. CASE e.type \in {"process.step", "agent_state"}
  BY <1>2, AppliedOther DEF IsPartEvent
<1>3. CASE e.type = "cancelled"
  BY <1>3 DEF IsTerminalEvent
<1> QED
  BY <1>1, <1>2, <1>3

LEMMA AnswerAheadStep ==
    StreamIInv /\ StreamIInv' /\ Linked /\ PageTold /\ Preceded /\ AnswerAhead
      /\ [Next]_vars => AnswerAhead'
<1> SUFFICES ASSUME StreamIInv, StreamIInv', Linked, PageTold, Preceded,
                    AnswerAhead, [Next]_vars, conn'.early, conn'.stage = "live",
                    wire'["worker"] # <<>>, IsEnd(wire'["worker"][1])
             PROVE  page'.status = "completed" /\ page'.text = Answer
  BY DEF AnswerAhead
<1>0. /\ RowsIInv /\ RowsIInv' /\ EventsTold /\ EventsTold'
      /\ conn \in Conns /\ IsMessage(page) /\ page \in Messages
      /\ wire \in [Processes -> Seq(Events)]
      /\ "api" \in Processes /\ "worker" \in Processes /\ "api" # "worker"
      /\ wire["worker"] \in Seq(Events) /\ wire'["worker"] \in Seq(Events)
  BY DEF StreamIInv, WatchIInv, WatchTyped, Processes, IsMessage
<1>1. /\ 1 \in 1..Len(wire'["worker"]) /\ Len(wire["worker"]) \in Nat
      /\ wire["worker"] # <<>> => 1 \in 1..Len(wire["worker"])
  BY <1>0
<1>2. PICK last \in Events : last = wire'["worker"][1] /\ IsEnd(last)
  BY <1>0, <1>1
<1>3. place' = "worker" /\ msg'.status = "completed"
  <2>1. place' \in Processes
    BY <1>0, RunStreamAssumption DEF RowsIInv, RowsTyped
  <2>2. IsTold("worker", last)'
    BY <1>0, <1>1, <1>2 DEF EventsTold, IsTold, EventTold, EventOfWorker
  <2> QED
    BY <1>0, <1>2, <2>1, <2>2 DEF IsTold, EventTold, IsEnd, Processes
<1>4. place = "worker"
  BY <1>0, <1>3, RowsMoveStep DEF RowsMove
<1>5. CASE AnnounceEnd
  <2>1. PICK e, f \in Events :
          /\ e.type = "session.message.updated" /\ IsEnd(f)
          /\ wire'["worker"] = wire["worker"] \o <<e, f>>
          /\ conn' = conn /\ page' = page
    BY <1>4, <1>5, EndAnnounced
  <2>2. CASE wire["worker"] = <<>>
    <3>1. wire'["worker"][1] = e
      BY <1>0, <2>1, <2>2
    <3> QED
      BY <2>1, <3>1 DEF IsEnd
  <2>3. CASE wire["worker"] # <<>>
    <3>1. wire'["worker"][1] = wire["worker"][1]
      BY <1>0, <1>1, <2>1, <2>3
    <3> QED
      BY <2>1, <2>3, <3>1 DEF AnswerAhead
  <2> QED
    BY <2>2, <2>3
<1>6. CASE ~AnnounceEnd /\ ~Deliver("worker")
  <2>1. wire["worker"] # <<>> /\ IsEnd(wire["worker"][1])
    <3>1. 1 \in 1..Len(wire["worker"]) /\ wire'["worker"][1] = wire["worker"][1]
      BY <1>1, <1>6, NothingNew
    <3> QED
      BY <3>1
  <2>2. ASSUME conn.early, conn.stage = "live"
        PROVE  page.status = "completed" /\ page.text = Answer
    BY <2>1, <2>2 DEF AnswerAhead
  <2>3. msg.status = "completed"
    <3>1. IsTold("worker", wire["worker"][1])
      BY <1>0, <1>1, <2>1 DEF EventsTold
    <3> QED
      BY <2>1, <3>1 DEF IsTold, EventTold, IsEnd
  <2> DEFINE S == {cm \in Conns \X Messages :
                     /\ IsMessage(cm[2])
                     /\ cm[2].status = "completed" /\ cm[2].text = Answer}
  <2>4. ASSUME NEW cm \in S, NEW e \in Events, ~IsTerminalEvent(e),
               IsTold("api", e) \/ IsTold("api", e)'
        PROVE  Receive(cm, e) \in S
    <3>1. /\ e.type \in {"process.step", "agent_state",
                         "session.message.updated", "cancelled"}
          /\ e.onMessage
          /\ e.type = "session.message.updated" =>
               e.status = "completed" /\ e.text = Answer
      BY <1>3, <1>4, <2>3, <2>4 DEF IsTold, EventTold, IsTerminalEvent
    <3> DEFINE c == cm[1]
               m == cm[2]
               r == Receive(cm, e)
    <3>2. /\ cm = <<c, m>> /\ c \in Conns /\ IsMessage(m)
          /\ m.status = "completed" /\ m.text = Answer
      OBVIOUS
    <3>3. /\ r = <<r[1], r[2]>> /\ r[1] \in Conns
          /\ r[2] = m \/ r[2] = ApplyEvent(m, e)
      BY <3>2, Received
    <3>4. /\ IsMessage(ApplyEvent(m, e))
          /\ ApplyEvent(m, e).status = "completed"
          /\ ApplyEvent(m, e).text = Answer
      BY <2>4, <3>1, <3>2, AnswerStays
    <3>5. /\ IsMessage(r[2]) /\ r[2] \in Messages
          /\ r[2].status = "completed" /\ r[2].text = Answer
      BY <3>2, <3>3, <3>4 DEF IsMessage
    <3> HIDE DEF r, c, m
    <3>6. r \in S
      BY <3>3, <3>5
    <3> QED
      BY <3>6 DEF r
  <2>5. S \subseteq Conns \X Messages
    OBVIOUS
  <2>6. page.status = "completed" /\ page.text = Answer => <<conn, page>> \in S
    BY <1>0
  <2>7. <<conn', page'>> \in S =>
          page'.status = "completed" /\ page'.text = Answer
    OBVIOUS
  <2> HIDE DEF S
  <2>8. CASE UNCHANGED watch
    BY <2>2, <2>8 DEF watch
  <2>9. ASSUME NEW q, Tells("worker", q)
        PROVE  page'.status = "completed" /\ page'.text = Answer
    <3>1. conn' = conn /\ page' = page
      BY <1>0, <2>9 DEF Tells, Publish
    <3> QED
      BY <2>2, <3>1
  <2>10. ASSUME NEW q, Tells("api", q)
         PROVE  page'.status = "completed" /\ page'.text = Answer
    <3>1. HeardNothing \/ HeardOn(q) \/ HeardEnd(q)
      BY <1>0, <2>10, HeardWhole
    <3>2. HeardOn(q)
      BY <3>1 DEF HeardNothing, HeardEnd, Listening
    <3>3. <<conn, page>> \in S
      BY <2>2, <2>6, <3>2 DEF HeardOn
    <3>4. ASSUME NEW cm \in S, NEW i \in 1..Len(q)
          PROVE  Receive(cm, q[i]) \in S
      <4>1. PICK e \in Events : e = q[i] /\ IsTold("api", e)'
        BY <2>10 DEF Tells
      <4>2. ~IsTerminalEvent(e)
        BY <3>2, <4>1 DEF HeardOn
      <4> QED
        BY <2>4, <4>1, <4>2
    <3>5. <<conn', page'>> \in S
      BY <2>5, <2>10, <3>3, <3>4, PublishKeeps
    <3> QED
      BY <2>7, <3>5
  <2>11. CASE Deliver("api")
    <3>1. PICK e \in Events : e = wire["api"][1]
      BY <1>0, <2>11, DeliveredWire
    <3>2. /\ <<conn', page'>> = Receive(<<conn, page>>, e)
          /\ 1 \in 1..Len(wire["api"])
      <4>1. /\ <<conn', page'>> = Receive(<<conn, page>>, e)
            /\ Len(wire["api"]) \in Nat \ {0}
        BY <1>0, <2>11, <3>1, DeliveredWire
      <4>2. 1 \in 1..Len(wire["api"])
        BY <4>1
      <4> QED
        BY <4>1, <4>2
    <3>3. IsTold("api", e)
      BY <1>0, <3>1, <3>2 DEF EventsTold
    <3>4. conn' = conn /\ ~IsTerminalEvent(e)
      <4> DEFINE r == Receive(<<conn, page>>, e)
      <4>1. conn' = r[1]
        BY <3>2
      <4>2. /\ r[1].stage \in {conn.stage, "ended"}
            /\ conn.stage \in Listening /\ IsTerminalEvent(e) =>
                 r[1].stage = "ended"
            /\ ~IsTerminalEvent(e) => r[1] = conn
        BY <1>0, Received
      <4> HIDE DEF r
      <4> QED
        BY <4>1, <4>2 DEF Listening
    <3>5. Receive(<<conn, page>>, e) \in S
      BY <2>2, <2>4, <2>6, <3>3, <3>4
    <3> QED
      BY <2>7, <3>2, <3>5
  <2>12. CASE Route \/ Reload
    <3>1. Undisturbed
      BY <2>12, RouteSettles
    <3>2. IsTold("worker", wire["worker"][1])
      BY <1>0, <1>1, <2>1 DEF EventsTold
    <3> QED
      BY <2>1, <3>1, <3>2 DEF IsTold, EventTold, IsEnd, IsTerminalEvent
  <2>13. WatchMoves
    BY <1>0, WatchStep
  <2> QED
    BY <1>6, <2>8, <2>9, <2>10, <2>11, <2>12, <2>13 DEF WatchMoves, Processes
<1>7. CASE ~AnnounceEnd /\ Deliver("worker")
  <2>1. PICK e \in Events : e = wire["worker"][1]
    BY <1>0, <1>7, DeliveredWire
  <2>2. /\ <<conn', page'>> = Receive(<<conn, page>>, e)
        /\ wire'["worker"][1] = wire["worker"][2]
        /\ 2 \in 1..Len(wire["worker"]) /\ 1 \in 1..Len(wire["worker"])
        /\ msg' = msg
    <3>1. /\ Len(wire'["worker"]) = Len(wire["worker"]) - 1
          /\ \A j \in 1..Len(wire'["worker"]) :
               wire'["worker"][j] = wire["worker"][j + 1]
          /\ <<conn', page'>> = Receive(<<conn, page>>, e)
      BY <1>0, <1>7, <2>1, DeliveredWire
    <3>2. wire'["worker"][1] = wire["worker"][1 + 1]
      BY <1>1, <3>1
    <3> QED
      BY <1>1, <1>7, <3>1, <3>2 DEF Deliver, rows
  <2>3. IsTold("worker", e)
    BY <1>0, <2>1, <2>2 DEF EventsTold
  <2>4. e.type = "session.message.updated"
    BY <2>1, <2>2 DEF Preceded
  <2>5. e.status = "completed" /\ e.text = Answer
    BY <1>3, <2>2, <2>3, <2>4 DEF IsTold, EventTold
  <2>6. page' = ApplyEvent(page, e)
    <3> DEFINE r == Receive(<<conn, page>>, e)
    <3>1. conn' = r[1] /\ page' = r[2]
      BY <2>2
    <3>2. /\ r[1].stage \in {conn.stage, "ended"}
          /\ conn.stage \in Listening => r[2] = ApplyEvent(page, e)
      BY <1>0, Received
    <3> HIDE DEF r
    <3> QED
      BY <3>1, <3>2 DEF Listening
  <2> QED
    BY <1>0, <2>4, <2>5, <2>6, AppliedRecord
<1> QED
  BY <1>5, <1>6, <1>7

-----------------------------------------------------------------------------
(* The process steps on the page of a run that a worker finishes alone.    *)

NoStepTold == \A i \in 1..Len(wire["worker"]) : ~IsOpenStep(wire["worker"][i])

\* Every step on the page will be closed by what is on its way.
StepsClosed ==
    \/ ~page.stepOpen /\ NoStepTold
    \/ \E i \in 1..Len(wire["worker"]) :
         /\ wire["worker"][i].type = "process.step"
         /\ wire["worker"][i].onMessage /\ ~wire["worker"][i].open
         /\ \A j \in 1..Len(wire["worker"]) :
              j > i => ~IsOpenStep(wire["worker"][j])

StepsTold ==
    place = "worker" /\ NobodyCancels =>
      /\ exec.pc \in BeforeClose /\ ~stepOpen =>
           ~page.stepOpen /\ ~conn.snap.stepOpen /\ NoStepTold
      /\ \A i \in 1..Len(wire["worker"]) : IsEnd(wire["worker"][i]) =>
           i = Len(wire["worker"]) /\ exec.pc \in AfterEnd
      /\ (/\ conn.early /\ conn.stage = "live"
          /\ \/ exec.pc \in {"settle", "announceEnd"}
             \/ \E i \in 1..Len(wire["worker"]) : IsEnd(wire["worker"][i])) =>
           StepsClosed

LEMMA AppliedStep ==
    ASSUME NEW m, IsMessage(m), NEW e \in Events,
           e.type # "cancelled" => e.onMessage
    PROVE  /\ ~m.stepOpen /\ ~IsOpenStep(e) => ~ApplyEvent(m, e).stepOpen
           /\ m.known /\ e.type = "process.step" /\ ~e.open =>
                ~ApplyEvent(m, e).stepOpen
<1>1. CASE e.type \in {"session.message.created", "session.message.updated"}
  BY <1>1, AppliedRecord
<1>2. CASE IsPartEvent(e)
  <2>1. e.onMessage /\ e.type # "process.step"
    BY <1>2 DEF IsPartEvent
  <2>2. ApplyEvent(m, e).stepOpen = m.stepOpen
    BY <1>2, <2>1, AppliedPart
  <2> QED
    BY <2>1, <2>2
<1>3. CASE e.type = "final_answer"
  BY <1>3, AppliedAnswer
<1>4. CASE ~IsPartEvent(e) /\ e.type \notin
             {"session.message.created", "session.message.updated", "final_answer"}
  BY <1>4, AppliedOther DEF IsOpenStep
<1> QED
  BY <1>1, <1>2, <1>3, <1>4

\* A run that nobody cancels is told by its worker alone.
AloneMoves ==
    \/ conn' = conn /\ page' = page /\ wire'["worker"] = wire["worker"]
    \/ /\ conn' = conn /\ page' = page
       /\ \E q \in Seq(Events) :
            /\ wire'["worker"] = wire["worker"] \o q
            /\ \A i \in 1..Len(q) : Says(q[i])
    \/ Deliver("worker")
    \/ Route
    \/ Reload

LEMMA AloneStep ==
    ASSUME StreamIInv, StreamIInv', [Next]_vars, place = "worker",
           NobodyCancels'
    PROVE  AloneMoves /\ NobodyCancels /\ place' = "worker"
<1>0. /\ RowsIInv /\ RowsIInv' /\ EventsTold
      /\ wire \in [Processes -> Seq(Events)]
      /\ conn \in Conns /\ IsMessage(page)
      /\ "api" \in Processes /\ "worker" \in Processes /\ "api" # "worker"
  BY DEF StreamIInv, WatchIInv, WatchTyped, Processes
<1>1. NobodyCancels /\ place' = "worker"
  BY <1>0, RowsMoveStep DEF RowsMove
<1>2. ASSUME NEW q, Tells("worker", q)
      PROVE  /\ conn' = conn /\ page' = page /\ q \in Seq(Events)
             /\ wire'["worker"] = wire["worker"] \o q
             /\ \A i \in 1..Len(q) : Says(q[i])
  <2>1. conn' = conn /\ page' = page
    BY <1>0, <1>2 DEF Tells, Publish
  <2> QED
    BY <1>0, <1>2, <2>1, PublishedWire DEF Tells
<1>3. ASSUME NEW q, Tells("api", q)
      PROVE  conn' = conn /\ page' = page /\ wire'["worker"] = wire["worker"]
  <2>1. q \in Seq(Events) /\ wire'["worker"] = wire["worker"]
    BY <1>0, <1>3, PublishedWire DEF Tells
  <2>2. ASSUME NEW i \in 1..Len(q) PROVE FALSE
    <3>1. PICK e \in Events : e = q[i] /\ IsTold("api", e)'
      BY <1>3, <2>2 DEF Tells
    <3> QED
      BY <1>1, <3>1 DEF IsTold, EventTold
  <2>3. DOMAIN q = {}
    BY <2>1, <2>2
  <2> QED
    BY <1>3, <2>1, <2>3, FoldNone DEF Tells, Publish
<1>4. ~Deliver("api")
  <2> SUFFICES ASSUME Deliver("api") PROVE FALSE
    OBVIOUS
  <2>1. Len(wire["api"]) \in Nat \ {0}
    BY <1>0, DeliveredWire
  <2>2. 1 \in 1..Len(wire["api"])
    BY <2>1
  <2>3. IsTold("api", wire["api"][1])
    BY <1>0, <2>2 DEF EventsTold
  <2> QED
    BY <1>1, <2>3 DEF IsTold, EventTold
<1>5. WatchMoves
  BY <1>0, WatchStep
<1>6. CASE UNCHANGED watch
  BY <1>1, <1>6 DEF watch, AloneMoves
<1>7. CASE \E q : Tells("worker", q)
  BY <1>1, <1>2, <1>7 DEF AloneMoves
<1>8. CASE \E q : Tells("api", q)
  BY <1>1, <1>3, <1>8 DEF AloneMoves
<1> QED
  BY <1>1, <1>4, <1>5, <1>6, <1>7, <1>8 DEF WatchMoves, AloneMoves, Processes

\* The worker's next event, and the steps.
LEMMA NextStep ==
    ASSUME StreamIInv, Deliver("worker")
    PROVE  \E e \in Events :
             /\ e = wire["worker"][1] /\ (e.type # "cancelled" => e.onMessage)
             /\ conn'.snap = conn.snap
             /\ conn'.early = conn.early /\ conn'.stage \in {conn.stage, "ended"}
             /\ page' = page \/ page' = ApplyEvent(page, e)
             /\ conn.stage \in Listening => page' = ApplyEvent(page, e)
             /\ Len(wire["worker"]) \in Nat \ {0}
             /\ Len(wire'["worker"]) = Len(wire["worker"]) - 1
             /\ \A i \in 1..Len(wire'["worker"]) :
                  /\ i + 1 \in 1..Len(wire["worker"])
                  /\ wire'["worker"][i] = wire["worker"][i + 1]
<1>0. /\ wire \in [Processes -> Seq(Events)] /\ EventsTold
      /\ conn \in Conns /\ IsMessage(page) /\ "worker" \in Processes
  BY DEF StreamIInv, WatchIInv, WatchTyped, Processes
<1>1. PICK e \in Events : e = wire["worker"][1]
  BY <1>0, DeliveredWire
<1>2. /\ <<conn', page'>> = Receive(<<conn, page>>, e)
      /\ Len(wire["worker"]) \in Nat \ {0}
      /\ Len(wire'["worker"]) = Len(wire["worker"]) - 1
      /\ \A i \in 1..Len(wire'["worker"]) :
           wire'["worker"][i] = wire["worker"][i + 1]
  BY <1>0, <1>1, DeliveredWire
<1>3. /\ 1 \in 1..Len(wire["worker"])
      /\ \A i \in 1..Len(wire'["worker"]) : i + 1 \in 1..Len(wire["worker"])
  BY <1>2
<1>4. e.type # "cancelled" => e.onMessage
  BY <1>0, <1>1, <1>3 DEF EventsTold, IsTold, EventTold
<1> DEFINE r == Receive(<<conn, page>>, e)
<1>5. conn' = r[1] /\ page' = r[2]
  BY <1>2
<1>6. /\ r[1].snap = conn.snap /\ r[1].early = conn.early
      /\ r[1].stage \in {conn.stage, "ended"}
      /\ conn.stage \notin Listening => r = <<conn, page>>
      /\ conn.stage \in Listening => r[2] = ApplyEvent(page, e)
  BY <1>0, Received
<1>7. conn.stage \notin Listening => r[2] = page
  BY <1>6
<1> HIDE DEF r
<1> WITNESS e \in Events
<1> QED
  BY <1>1, <1>2, <1>3, <1>4, <1>5, <1>6, <1>7

LEMMA CloseIs ==
    ASSUME StreamIInv, CloseSteps, place = "worker"
    PROVE  /\ exec.pc = "close" /\ exec'.pc = "settle"
           /\ conn' = conn /\ page' = page
           /\ \E e, f \in Events :
                /\ ~IsOpenStep(e) /\ ~IsEnd(e)
                /\ f.type = "process.step" /\ f.onMessage /\ ~f.open
                /\ ~stepOpen => wire'["worker"] = wire["worker"] \o <<e>>
                /\ stepOpen => wire'["worker"] = wire["worker"] \o <<f, e>>
<1>0. /\ RowsTyped /\ wire \in [Processes -> Seq(Events)]
      /\ "worker" \in Processes /\ "api" # "worker"
  BY DEF StreamIInv, RowsIInv, WatchIInv, WatchTyped, Processes
<1>1. PICK e, f \in Events : e = FinalAnswer /\ f = Step(FALSE)
  BY EventsAre
<1>2. /\ ~IsOpenStep(e) /\ ~IsEnd(e)
      /\ f.type = "process.step" /\ f.onMessage /\ ~f.open
  BY <1>1, EventsAre DEF IsOpenStep, IsEnd
<1>3. exec.pc = "close" /\ exec'.pc = "settle"
  BY <1>0 DEF CloseSteps, Goes, RowsTyped
<1>4. Publish("worker", Append(ClosedSteps, e))
  BY <1>1 DEF CloseSteps
<1>5. conn' = conn /\ page' = page
  BY <1>4 DEF Publish
<1>6. wire'["worker"] = wire["worker"] \o Append(ClosedSteps, e)
  BY <1>0, <1>4 DEF Publish
<1>7. ~stepOpen => wire'["worker"] = wire["worker"] \o <<e>>
  BY <1>6, ClosedAre
<1>8. stepOpen => wire'["worker"] = wire["worker"] \o <<f, e>>
  BY <1>1, <1>6, ClosedAre
<1> QED
  BY <1>1, <1>2, <1>3, <1>5, <1>7, <1>8

\* More events that open no step.
LEMMA ClosedMore ==
    ASSUME NEW q \in Seq(Events), wire["worker"] \in Seq(Events),
           wire'["worker"] = wire["worker"] \o q, page' = page,
           \A i \in 1..Len(q) : ~IsOpenStep(q[i])
    PROVE  /\ NoStepTold => NoStepTold'
           /\ StepsClosed => StepsClosed'
<1> DEFINE n == Len(wire["worker"])
<1>1. /\ n \in Nat /\ Len(wire'["worker"]) = n + Len(q) /\ Len(q) \in Nat
      /\ \A i \in 1..n : i \in 1..Len(wire'["worker"])
                         /\ wire'["worker"][i] = wire["worker"][i]
      /\ \A i \in 1..Len(wire'["worker"]) :
           i \in 1..n \/ (/\ i - n \in 1..Len(q)
                          /\ wire'["worker"][i] = q[i - n])
  OBVIOUS
<1> HIDE DEF n
<1>2. NoStepTold => NoStepTold'
  BY <1>1 DEF NoStepTold, n
<1>3. ASSUME NEW i \in 1..n,
             wire["worker"][i].type = "process.step",
             wire["worker"][i].onMessage, ~wire["worker"][i].open,
             \A j \in 1..n : j > i => ~IsOpenStep(wire["worker"][j])
      PROVE  StepsClosed'
  <2>1. ASSUME NEW j \in 1..Len(wire'["worker"]), j > i
        PROVE  ~IsOpenStep(wire'["worker"][j])
    <3>1. CASE j \in 1..n
      BY <1>1, <1>3, <2>1, <3>1
    <3>2. CASE j \notin 1..n
      BY <1>1, <2>1, <3>2
    <3> QED
      BY <3>1, <3>2
  <2>2. i \in 1..Len(wire'["worker"]) /\ wire'["worker"][i] = wire["worker"][i]
    BY <1>1, <1>3
  <2> QED
    BY <1>3, <2>1, <2>2 DEF StepsClosed
<1> QED
  BY <1>2, <1>3 DEF StepsClosed, n

\* The next event is heard.
LEMMA ClosedLess ==
    ASSUME StreamIInv, Deliver("worker"), IsMessage(page)
    PROVE  /\ NoStepTold => NoStepTold' /\ (~page.stepOpen => ~page'.stepOpen)
           /\ StepsClosed /\ page.known /\ conn.stage \in Listening =>
                StepsClosed'
<1>1. PICK e \in Events :
             /\ e = wire["worker"][1] /\ (e.type # "cancelled" => e.onMessage)
             /\ page' = page \/ page' = ApplyEvent(page, e)
             /\ conn.stage \in Listening => page' = ApplyEvent(page, e)
             /\ Len(wire["worker"]) \in Nat \ {0}
             /\ Len(wire'["worker"]) = Len(wire["worker"]) - 1
             /\ \A i \in 1..Len(wire'["worker"]) :
                  /\ i + 1 \in 1..Len(wire["worker"])
                  /\ wire'["worker"][i] = wire["worker"][i + 1]
  BY NextStep
<1>2. NoStepTold => NoStepTold' /\ (~page.stepOpen => ~page'.stepOpen)
  <2> SUFFICES ASSUME NoStepTold
               PROVE  NoStepTold' /\ (~page.stepOpen => ~page'.stepOpen)
    OBVIOUS
  <2>1. 1 \in 1..Len(wire["worker"])
    BY <1>1
  <2>2. ~IsOpenStep(e)
    BY <1>1, <2>1 DEF NoStepTold
  <2>3. ~page.stepOpen => ~page'.stepOpen
    BY <1>1, <2>2, AppliedStep
  <2>4. NoStepTold'
    BY <1>1 DEF NoStepTold
  <2> QED
    BY <2>3, <2>4
<1>3. ASSUME page.known, conn.stage \in Listening,
             NEW i \in 1..Len(wire["worker"]),
             wire["worker"][i].type = "process.step",
             wire["worker"][i].onMessage, ~wire["worker"][i].open,
             \A j \in 1..Len(wire["worker"]) :
               j > i => ~IsOpenStep(wire["worker"][j])
      PROVE  StepsClosed'
  <2>1. CASE i = 1
    <3>1. ~page'.stepOpen
      BY <1>1, <1>3, <2>1, AppliedStep
    <3>2. NoStepTold'
      <4>1. ASSUME NEW j \in 1..Len(wire'["worker"])
            PROVE  ~IsOpenStep(wire'["worker"][j])
        <5>1. j + 1 \in 1..Len(wire["worker"]) /\ j + 1 > 1
          BY <1>1
        <5> QED
          BY <1>1, <1>3, <2>1, <5>1
      <4> QED
        BY <4>1 DEF NoStepTold
    <3> QED
      BY <3>1, <3>2 DEF StepsClosed
  <2>2. CASE i # 1
    <3>1. PICK k \in 1..Len(wire'["worker"]) : k + 1 = i
      BY <1>1, <2>2
    <3>2. wire'["worker"][k] = wire["worker"][i]
      BY <1>1, <3>1
    <3>3. ASSUME NEW j \in 1..Len(wire'["worker"]), j > k
          PROVE  ~IsOpenStep(wire'["worker"][j])
      <4>1. j + 1 \in 1..Len(wire["worker"]) /\ j + 1 > i
        BY <1>1, <3>1, <3>3
      <4> QED
        BY <1>1, <1>3, <4>1
    <3> QED
      BY <1>3, <3>1, <3>2, <3>3 DEF StepsClosed
  <2> QED
    BY <2>1, <2>2
<1> QED
  BY <1>2, <1>3 DEF StepsClosed

\* The steps before they are closed.
LEMMA OpenStepsStep ==
    ASSUME StreamIInv, StreamIInv', Linked, PageTold, StepsTold, [Next]_vars,
           place = "worker", NobodyCancels', exec'.pc \in BeforeClose,
           ~stepOpen'
    PROVE  ~page'.stepOpen /\ ~conn'.snap.stepOpen /\ NoStepTold'
<1>0. /\ RowsIInv /\ RowsIInv' /\ wire["worker"] \in Seq(Events)
      /\ IsMessage(page) /\ IsMessage(conn.snap) /\ RowsTyped
  BY DEF StreamIInv, WatchIInv, WatchTyped, Processes, RowsIInv
<1>1. AloneMoves /\ NobodyCancels
  BY AloneStep
<1>2. exec.pc \in BeforeClose /\ ~stepOpen /\ ~OpenStep
  <2>1. exec.pc \in BeforeClose
    BY <1>0, PcStep DEF PcMoves
  <2>2. ~OpenStep
    BY DEF OpenStep
  <2> QED
    BY <1>0, <2>1, <2>2, QuietStep DEF QuietMoves
<1>3. ~page.stepOpen /\ ~conn.snap.stepOpen /\ NoStepTold
  BY <1>1, <1>2 DEF StepsTold
<1>4. CASE conn' = conn /\ page' = page /\ wire'["worker"] = wire["worker"]
  BY <1>3, <1>4 DEF NoStepTold
<1>5. ASSUME conn' = conn, page' = page, NEW q \in Seq(Events),
             wire'["worker"] = wire["worker"] \o q,
             \A i \in 1..Len(q) : Says(q[i])
      PROVE  ~page'.stepOpen /\ ~conn'.snap.stepOpen /\ NoStepTold'
  <2>1. \A i \in 1..Len(q) : ~IsOpenStep(q[i])
    BY <1>2, <1>5 DEF Says
  <2> QED
    BY <1>0, <1>3, <1>5, <2>1, ClosedMore
<1>6. CASE Deliver("worker")
  <2>1. conn'.snap = conn.snap
    BY <1>6, NextStep
  <2> QED
    BY <1>0, <1>3, <1>6, <2>1, ClosedLess
<1>7. CASE Route \/ Reload
  <2>1. /\ wire' = wire
        /\ conn'.snap.stepOpen \in {conn.snap.stepOpen, stepOpen, FALSE}
        /\ page'.stepOpen \in
             {page.stepOpen, conn.snap.stepOpen, stepOpen, FALSE}
    BY <1>7, RouteSettles
  <2>2. NoStepTold'
    BY <1>3, <2>1 DEF NoStepTold
  <2>3. ~conn'.snap.stepOpen /\ ~page'.stepOpen
    BY <1>2, <1>3, <2>1
  <2> QED
    BY <2>2, <2>3
<1> QED
  BY <1>1, <1>4, <1>5, <1>6, <1>7 DEF AloneMoves

\* run_completed is the last event of a worker.
LEMMA LastStep ==
    ASSUME StreamIInv, StreamIInv', StepsTold, [Next]_vars,
           place = "worker", NobodyCancels',
           NEW i \in 1..Len(wire'["worker"]), IsEnd(wire'["worker"][i])
    PROVE  i = Len(wire'["worker"]) /\ exec'.pc \in AfterEnd
<1>0. /\ RowsIInv /\ RowsIInv' /\ wire["worker"] \in Seq(Events)
      /\ Len(wire["worker"]) \in Nat
  BY DEF StreamIInv, WatchIInv, WatchTyped, Processes
<1>1. NobodyCancels /\ QuietMoves
  BY <1>0, AloneStep, QuietStep
<1>2. \A j \in 1..Len(wire["worker"]) : IsEnd(wire["worker"][j]) =>
        j = Len(wire["worker"]) /\ exec.pc \in AfterEnd
  BY <1>1 DEF StepsTold
<1>3. CASE AnnounceEnd
  <2>1. exec.pc = "announceEnd" /\ exec'.pc = "endRun"
    BY <1>3, EndAnnounced
  <2>2. \A j \in 1..Len(wire["worker"]) : ~IsEnd(wire["worker"][j])
    BY <1>2, <2>1 DEF AfterEnd
  <2>3. PICK e, f \in Events :
          /\ e.type = "session.message.updated" /\ IsEnd(f)
          /\ wire'["worker"] = wire["worker"] \o <<e, f>>
    BY <1>3, EndAnnounced
  <2> DEFINE n == Len(wire["worker"])
  <2>4. /\ Len(wire'["worker"]) = n + 2
        /\ \A j \in 1..n : wire'["worker"][j] = wire["worker"][j]
        /\ wire'["worker"][n + 1] = e
    BY <1>0, <2>3
  <2>5. i \notin 1..n
    BY <2>2, <2>4
  <2>6. i # n + 1
    BY <2>3, <2>4 DEF IsEnd
  <2>7. i = n + 2
    BY <1>0, <2>4, <2>5, <2>6
  <2> QED
    BY <2>1, <2>4, <2>7 DEF AfterEnd
<1>4. CASE ~AnnounceEnd
  <2>1. CASE /\ i \in 1..Len(wire["worker"])
             /\ wire'["worker"][i] = wire["worker"][i]
             /\ \A j \in 1..i : wire'["worker"][j] = wire["worker"][j]
    <3>1. i = Len(wire["worker"]) /\ exec.pc \in AfterEnd
      BY <1>2, <2>1
    <3>2. /\ exec'.pc \in AfterEnd
          /\ wire'["worker"] = wire["worker"] \/ Deliver("worker")
      BY <1>1, <3>1 DEF QuietMoves
    <3>3. CASE Deliver("worker")
      <4>1. Len(wire'["worker"]) = Len(wire["worker"]) - 1
        BY <3>3, NextStep
      <4> QED
        BY <1>0, <3>1, <4>1
    <3> QED
      BY <3>1, <3>2, <3>3
  <2>2. CASE /\ Deliver("worker")
             /\ i + 1 \in 1..Len(wire["worker"])
             /\ \A j \in 1..i : wire'["worker"][j] = wire["worker"][j + 1]
    <3>1. wire'["worker"][i] = wire["worker"][i + 1]
      BY <2>2
    <3>2. i + 1 = Len(wire["worker"]) /\ exec.pc \in AfterEnd
      BY <1>2, <2>2, <3>1
    <3>3. Len(wire'["worker"]) = Len(wire["worker"]) - 1
      BY <2>2, NextStep
    <3>4. exec'.pc \in AfterEnd
      BY <1>1, <3>2 DEF QuietMoves
    <3> QED
      BY <1>0, <3>2, <3>3, <3>4
  <2> QED
    BY <1>4, <2>1, <2>2, NothingNew
<1> QED
  BY <1>3, <1>4

\* The steps once they are closed.
LEMMA ClosedStepsStep ==
    ASSUME StreamIInv, StreamIInv', Linked, PageTold, StepsTold, [Next]_vars,
           place = "worker", NobodyCancels',
           conn'.early, conn'.stage = "live",
           \/ exec'.pc \in {"settle", "announceEnd"}
           \/ \E i \in 1..Len(wire'["worker"]) : IsEnd(wire'["worker"][i])
    PROVE  StepsClosed'
<1>0. /\ RowsIInv /\ RowsIInv' /\ wire["worker"] \in Seq(Events)
      /\ Len(wire["worker"]) \in Nat /\ IsMessage(page) /\ EventsTold
      /\ "worker" \in Processes /\ RowsTyped
  BY DEF StreamIInv, WatchIInv, WatchTyped, Processes, RowsIInv
<1>1. AloneMoves /\ NobodyCancels /\ PcMoves
  BY <1>0, AloneStep, PcStep
<1>2. CASE CloseSteps
  <2>1. PICK e, f \in Events :
          /\ ~IsOpenStep(e)
          /\ f.type = "process.step" /\ f.onMessage /\ ~f.open
          /\ ~stepOpen => wire'["worker"] = wire["worker"] \o <<e>>
          /\ stepOpen => wire'["worker"] = wire["worker"] \o <<f, e>>
    BY <1>2, CloseIs
  <2>2. exec.pc = "close" /\ conn' = conn /\ page' = page
    BY <1>2, CloseIs
  <2>3. CASE ~stepOpen
    <3>1. ~page.stepOpen /\ NoStepTold
      BY <1>1, <2>2, <2>3 DEF StepsTold, BeforeClose
    <3>2. StepsClosed
      BY <3>1 DEF StepsClosed
    <3>3. \A i \in 1..Len(<<e>>) : ~IsOpenStep(<<e>>[i])
      BY <2>1
    <3>4. <<e>> \in Seq(Events)
      OBVIOUS
    <3>5. wire'["worker"] = wire["worker"] \o <<e>>
      BY <2>1, <2>3
    <3> QED
      BY <1>0, <2>2, <3>2, <3>3, <3>4, <3>5, ClosedMore
  <2>4. CASE stepOpen
    <3> DEFINE n == Len(wire["worker"])
    <3>1. /\ Len(wire'["worker"]) = n + 2
          /\ wire'["worker"][n + 1] = f /\ wire'["worker"][n + 2] = e
      BY <1>0, <2>1, <2>4
    <3>2. /\ n + 1 \in 1..Len(wire'["worker"])
          /\ \A j \in 1..Len(wire'["worker"]) : j > n + 1 => j = n + 2
      BY <1>0, <3>1
    <3>3. \A j \in 1..Len(wire'["worker"]) :
            j > n + 1 => ~IsOpenStep(wire'["worker"][j])
      BY <2>1, <3>1, <3>2
    <3>4. /\ wire'["worker"][n + 1].type = "process.step"
          /\ wire'["worker"][n + 1].onMessage /\ ~wire'["worker"][n + 1].open
      BY <2>1, <3>1
    <3> QED
      BY <3>2, <3>3, <3>4 DEF StepsClosed
  <2> QED
    BY <2>3, <2>4
<1>3. CASE AnnounceEnd
  <2>1. PICK e, f \in Events :
          /\ e.type = "session.message.updated" /\ IsEnd(f)
          /\ wire'["worker"] = wire["worker"] \o <<e, f>>
    BY <1>3, EndAnnounced
  <2>2. exec.pc = "announceEnd" /\ conn' = conn /\ page' = page
    BY <1>3, EndAnnounced
  <2>3. StepsClosed
    BY <1>1, <2>2 DEF StepsTold
  <2>4. \A i \in 1..Len(<<e, f>>) : ~IsOpenStep(<<e, f>>[i])
    BY <2>1 DEF IsOpenStep, IsEnd
  <2>5. <<e, f>> \in Seq(Events)
    OBVIOUS
  <2> QED
    BY <1>0, <2>1, <2>2, <2>3, <2>4, <2>5, ClosedMore
<1>4. CASE ~CloseSteps /\ ~AnnounceEnd
  <2>1. \/ exec.pc \in {"settle", "announceEnd"}
        \/ \E i \in 1..Len(wire["worker"]) : IsEnd(wire["worker"][i])
    <3>1. CASE exec'.pc \in {"settle", "announceEnd"}
      BY <1>1, <1>4, <3>1 DEF PcMoves
    <3>2. ASSUME NEW i \in 1..Len(wire'["worker"]), IsEnd(wire'["worker"][i])
          PROVE  \E j \in 1..Len(wire["worker"]) : IsEnd(wire["worker"][j])
      <4>0. i \in 1..i
        OBVIOUS
      <4>1. CASE /\ i \in 1..Len(wire["worker"])
                 /\ wire'["worker"][i] = wire["worker"][i]
        BY <3>2, <4>1
      <4>2. CASE /\ i + 1 \in 1..Len(wire["worker"])
                 /\ \A j \in 1..i : wire'["worker"][j] = wire["worker"][j + 1]
        BY <3>2, <4>0, <4>2
      <4> QED
        BY <1>4, <3>2, <4>1, <4>2, NothingNew
    <3> QED
      BY <3>1, <3>2
  <2>2. ASSUME conn.early, conn.stage = "live" PROVE StepsClosed
    BY <1>1, <2>1, <2>2 DEF StepsTold
  <2>3. ~OpenStep
    <3>1. exec.pc # "agent"
      BY <1>1, <2>1 DEF StepsTold, AfterEnd
    <3> QED
      BY <3>1 DEF OpenStep, Goes
  <2>4. CASE conn' = conn /\ page' = page /\ wire'["worker"] = wire["worker"]
    BY <2>2, <2>4 DEF StepsClosed, NoStepTold
  <2>5. ASSUME conn' = conn, page' = page, NEW q \in Seq(Events),
               wire'["worker"] = wire["worker"] \o q,
               \A i \in 1..Len(q) : Says(q[i])
        PROVE  StepsClosed'
    <3>1. \A i \in 1..Len(q) : ~IsOpenStep(q[i])
      BY <2>3, <2>5 DEF Says
    <3> QED
      BY <1>0, <2>2, <2>5, <3>1, ClosedMore
  <2>6. CASE Deliver("worker")
    <3>1. conn.early /\ conn.stage = "live"
      <4>1. conn'.early = conn.early /\ conn'.stage \in {conn.stage, "ended"}
        BY <2>6, NextStep
      <4> QED
        BY <4>1
    <3>2. page.known
      BY <3>1 DEF PageTold, HasMessage
    <3> QED
      BY <1>0, <2>2, <2>6, <3>1, <3>2, ClosedLess DEF Listening
  <2>7. CASE Route \/ Reload
    <3>1. Undisturbed
      BY <2>7, RouteSettles
    <3>2. PICK i \in 1..Len(wire["worker"]) : IsEnd(wire["worker"][i])
      BY <2>1, <3>1 DEF Undisturbed, Generating
    <3>3. IsTold("worker", wire["worker"][i])
      BY <1>0, <3>2 DEF EventsTold
    <3> QED
      BY <3>1, <3>2, <3>3 DEF IsTold, EventTold, IsEnd, IsTerminalEvent
  <2> QED
    BY <1>1, <2>4, <2>5, <2>6, <2>7 DEF AloneMoves
<1> QED
  BY <1>2, <1>3, <1>4

LEMMA StepsToldStep ==
    StreamIInv /\ StreamIInv' /\ Linked /\ PageTold /\ StepsTold
      /\ [Next]_vars => StepsTold'
<1> SUFFICES ASSUME StreamIInv, StreamIInv', Linked, PageTold, StepsTold,
                    [Next]_vars, place' = "worker", NobodyCancels'
             PROVE  StepsTold'
  BY DEF StepsTold
<1>1. place = "worker"
  BY RowsMoveStep DEF StreamIInv, RowsMove
<1>2. exec'.pc \in BeforeClose /\ ~stepOpen' =>
        ~page'.stepOpen /\ ~conn'.snap.stepOpen /\ NoStepTold'
  BY <1>1, OpenStepsStep
<1>3. \A i \in 1..Len(wire'["worker"]) : IsEnd(wire'["worker"][i]) =>
        i = Len(wire'["worker"]) /\ exec'.pc \in AfterEnd
  BY <1>1, LastStep
<1>4. (/\ conn'.early /\ conn'.stage = "live"
       /\ \/ exec'.pc \in {"settle", "announceEnd"}
          \/ \E i \in 1..Len(wire'["worker"]) : IsEnd(wire'["worker"][i])) =>
        StepsClosed'
  BY <1>1, ClosedStepsStep
<1> QED
  BY <1>2, <1>3, <1>4 DEF StepsTold, IsEnd

-----------------------------------------------------------------------------
(* The end of a connection of the early kind.                              *)

\* The page shows what the terminal event e stands for.
Shows(e) ==
    /\ e.type = "run_completed" =>
         /\ page.status = "completed" /\ page.text = Answer
         /\ place = "worker" /\ NobodyCancels => ~page.stepOpen
    /\ e.type = "error" => page.status = "failed"
    /\ e.type = "cancelled" =>
         (e.onMessage /\ page.known => page.status = "cancelled")

EndShown == IsTerminalEvent(conn.by) /\ Shows(conn.by)

Ending == conn.early /\ conn.stage = "ended" => EndShown

LEMMA ShownBy ==
    ASSUME NEW e, conn'.by = e, IsTerminalEvent(e), Shows(e)'
    PROVE  EndShown'
BY DEF EndShown, Shows

\* A failed or a cancelled run, for a page that had the message m.
LEMMA FailureShown ==
    ASSUME NEW m, IsMessage(m), NEW e \in Events, page' = ApplyEvent(m, e),
           e.type \in {"error", "cancelled"},
           e.type = "error" => m.known /\ e.onMessage
    PROVE  Shows(e)'
<1>1. ~IsPartEvent(e) /\ e.type \notin
        {"session.message.created", "session.message.updated", "final_answer"}
  BY DEF IsPartEvent
<1>2. /\ page'.known = m.known
      /\ e.type = "error" => page'.status = "failed"
      /\ e.type = "cancelled" /\ m.known /\ e.onMessage =>
           page'.status = "cancelled"
  BY <1>1, AppliedOther
<1> QED
  BY <1>2 DEF Shows

\* run_completed leaves the answer, and the steps, as they are.
LEMMA CompletionShown ==
    ASSUME NEW m, IsMessage(m), m.status = "completed", m.text = Answer,
           NEW e \in Events, IsEnd(e)
    PROVE  LET n == ApplyEvent(m, e) IN
             /\ n.status = "completed" /\ n.text = Answer
             /\ n.stepOpen = m.stepOpen
<1>1. ~IsPartEvent(e) /\ e.type \notin
        {"session.message.created", "session.message.updated", "final_answer",
         "process.step", "error", "cancelled"}
  BY DEF IsPartEvent, IsEnd
<1> QED
  BY <1>1, AppliedOther

\* The API process ends a run it executes: the page hears the record of the
\* message, then run_completed.
LEMMA ApiEndShown ==
    ASSUME StreamIInv, StreamIInv', AnnounceEnd, place = "api", place' = "api",
           conn.stage \in Listening
    PROVE  EndShown'
<1>0. conn \in Conns /\ IsMessage(page)
  BY DEF StreamIInv, WatchIInv, WatchTyped
<1>1. PICK e, f \in Events : e = Updated("completed", Answer) /\ f = RunCompleted
  BY EventsAre, TextsAre DEF Statuses
<1>2. /\ e.type = "session.message.updated" /\ e.status = "completed"
      /\ e.text = Answer
      /\ IsEnd(f) /\ IsTerminalEvent(f) /\ ~IsTerminalEvent(e)
  BY <1>1, EventsAre, TextsAre DEF Statuses, IsEnd, IsTerminalEvent
<1>3. PICK m : m = ApplyEvent(page, e)
  OBVIOUS
<1>4. IsMessage(m) /\ m.status = "completed" /\ m.text = Answer
  BY <1>0, <1>2, <1>3, AppliedRecord DEF IsMessage
<1>5. Receive(<<conn, page>>, e) = <<conn, m>>
  <2> DEFINE r == Receive(<<conn, page>>, e)
  <2>1. r = <<r[1], r[2]>> /\ r[1] = conn /\ r[2] = m
    BY <1>0, <1>2, <1>3, Received
  <2> HIDE DEF r
  <2>2. r = <<conn, m>>
    BY <2>1
  <2> QED
    BY <2>2 DEF r
<1> DEFINE s == Receive(<<conn, m>>, f)
<1>6. s[1].by = f /\ s[2] = ApplyEvent(m, f)
  BY <1>0, <1>2, Received
<1>7. <<conn', page'>> = s
  BY <1>1, <1>5, EndAnnounced
<1> HIDE DEF s
<1>8. conn'.by = f /\ page' = ApplyEvent(m, f)
  BY <1>6, <1>7
<1>9. page'.status = "completed" /\ page'.text = Answer
  BY <1>2, <1>4, <1>8, CompletionShown
<1>10. f.type = "run_completed"
  BY <1>2 DEF IsEnd
<1>11. Shows(f)'
  BY <1>9, <1>10 DEF Shows
<1> QED
  BY <1>2, <1>8, <1>11, ShownBy

LEMMA EndingStep ==
    StreamIInv /\ StreamIInv' /\ Linked /\ PageTold /\ ApiHeard /\ AnswerAhead
      /\ StepsTold /\ Ending /\ [Next]_vars => Ending'
<1> SUFFICES ASSUME StreamIInv, StreamIInv', Linked, PageTold, ApiHeard,
                    AnswerAhead, StepsTold, Ending, [Next]_vars,
                    conn'.early, conn'.stage = "ended"
             PROVE  EndShown'
  BY DEF Ending
<1>0. /\ RowsIInv /\ RowsIInv' /\ EventsTold
      /\ conn \in Conns /\ IsMessage(page)
      /\ wire \in [Processes -> Seq(Events)]
      /\ "api" \in Processes /\ "worker" \in Processes /\ "api" # "worker"
      /\ place' = place /\ place \in Processes
      /\ NobodyCancels' => NobodyCancels
  BY RowsMoveStep, RunStreamAssumption
     DEF StreamIInv, WatchIInv, WatchTyped, Processes, RowsIInv, RowsMove,
         RowsTyped
<1>1. WatchMoves
  BY <1>0, WatchStep
<1>2. CASE conn' = conn /\ page' = page
  <2>1. EndShown
    BY <1>2 DEF Ending
  <2> QED
    BY <1>0, <1>2, <2>1 DEF EndShown, Shows
<1>3. ASSUME NEW q, Tells("worker", q) PROVE conn' = conn /\ page' = page
  BY <1>0, <1>3 DEF Tells, Publish
<1>4. ASSUME NEW q, Tells("api", q)
      PROVE  EndShown'
  <2>1. CASE HeardNothing
    BY <1>2, <2>1 DEF HeardNothing
  <2>2. CASE HeardOn(q)
    BY <2>2 DEF HeardOn, Listening
  <2>3. CASE HeardEnd(q)
    <3>1. conn.early /\ conn.stage \in Listening
      BY <2>3 DEF HeardEnd
    <3>2. HasMessage /\ conn.stage = "live"
      BY <3>1 DEF PageTold, Listening
    <3>3. PICK i \in 1..Len(q), m \in Messages :
            /\ IsMessage(m) /\ (page.known => m.known)
            /\ IsTerminalEvent(q[i])
            /\ conn'.by = q[i] /\ page' = ApplyEvent(m, q[i])
      BY <2>3 DEF HeardEnd
    <3>4. PICK e \in Events : e = q[i] /\ IsTold("api", e)' /\ Says(e)
      BY <1>4 DEF Tells
    <3>5. /\ IsTerminalEvent(e) /\ conn'.by = e /\ page' = ApplyEvent(m, e)
          /\ e.type # "cancelled" => e.onMessage
          /\ place = "worker" => e.type = "cancelled"
      BY <1>0, <3>3, <3>4 DEF IsTold, EventTold, IsTerminalEvent
    <3>6. CASE e.type = "error"
      <4>1. exec.pc = "catch" /\ run.status # "cancelled"
        BY <3>4, <3>6 DEF Says, CatchError, Goes
      <4>2. m.known
        BY <3>2, <3>3, <4>1 DEF HasMessage, Opening
      <4>3. Shows(e)'
        BY <3>3, <3>5, <3>6, <4>2, FailureShown
      <4> QED
        BY <3>5, <4>3, ShownBy
    <3>7. CASE e.type = "cancelled"
      <4>1. Shows(e)'
        BY <3>3, <3>5, <3>7, FailureShown
      <4> QED
        BY <3>5, <4>1, ShownBy
    <3>8. CASE e.type = "run_completed"
      <4>1. AnnounceEnd
        BY <3>4, <3>8 DEF Says
      <4>2. place = "api"
        BY <1>0, <3>5, <3>8 DEF Processes
      <4> QED
        BY <1>0, <3>1, <4>1, <4>2, ApiEndShown
    <3> QED
      BY <3>5, <3>6, <3>7, <3>8 DEF IsTerminalEvent
  <2> QED
    BY <1>0, <1>4, <2>1, <2>2, <2>3, HeardWhole
<1>5. CASE Deliver("api")
  <2>1. PICK e \in Events : e = wire["api"][1]
    BY <1>0, <1>5, DeliveredWire
  <2>0. /\ <<conn', page'>> = Receive(<<conn, page>>, e)
        /\ Len(wire["api"]) \in Nat \ {0}
    BY <1>0, <1>5, <2>1, DeliveredWire
  <2> DEFINE r == Receive(<<conn, page>>, e)
  <2>2. <<conn', page'>> = r /\ 1 \in 1..Len(wire["api"])
    BY <2>0
  <2>3. /\ r[1].early = conn.early
        /\ conn.stage \notin Listening => r = <<conn, page>>
        /\ ~IsTerminalEvent(e) => r[1] = conn
    BY <1>0, Received
  <2> HIDE DEF r
  <2>4. conn.early
    BY <2>2, <2>3
  <2>5. CASE conn.stage \notin Listening
    BY <1>2, <2>2, <2>3, <2>5
  <2>6. CASE conn.stage \in Listening
    <3>1. conn.stage = "live"
      BY <2>4, <2>6 DEF PageTold, Listening
    <3>2. ~IsTerminalEvent(e)
      BY <2>1, <2>2, <2>4, <3>1 DEF ApiHeard
    <3>3. conn' = conn
      BY <2>2, <2>3, <3>2
    <3> QED
      BY <3>1, <3>3
  <2> QED
    BY <2>5, <2>6
<1>6. CASE Deliver("worker")
  <2>1. PICK e \in Events : e = wire["worker"][1]
    BY <1>0, <1>6, DeliveredWire
  <2>0. /\ <<conn', page'>> = Receive(<<conn, page>>, e)
        /\ Len(wire["worker"]) \in Nat \ {0} /\ wire["worker"] # <<>>
    BY <1>0, <1>6, <2>1, DeliveredWire
  <2> DEFINE r == Receive(<<conn, page>>, e)
  <2>2. /\ <<conn', page'>> = r /\ 1 \in 1..Len(wire["worker"])
        /\ wire["worker"] # <<>>
    BY <2>0
  <2>3. /\ r[1].early = conn.early
        /\ conn.stage \notin Listening => r = <<conn, page>>
        /\ ~IsTerminalEvent(e) => r[1] = conn
        /\ conn.stage \in Listening => r[2] = ApplyEvent(page, e)
        /\ conn.stage \in Listening /\ IsTerminalEvent(e) => r[1].by = e
    BY <1>0, Received
  <2> HIDE DEF r
  <2>4. conn.early
    BY <2>2, <2>3
  <2>5. CASE conn.stage \notin Listening
    BY <1>2, <2>2, <2>3, <2>5
  <2>6. CASE conn.stage \in Listening
    <3>1. conn.stage = "live" /\ HasMessage
      BY <2>4, <2>6 DEF PageTold, Listening
    <3>2. IsTerminalEvent(e)
      BY <2>2, <2>3, <3>1
    <3>3. conn'.by = e /\ page' = ApplyEvent(page, e)
      BY <2>2, <2>3, <2>6, <3>2
    <3>4. IsTold("worker", e)
      BY <1>0, <2>1, <2>2 DEF EventsTold
    <3>5. place = "worker" /\ (e.type # "cancelled" => e.onMessage)
      BY <1>0, <3>4 DEF IsTold, EventTold, Processes
    <3>6. page.known
      BY <3>1, <3>5 DEF HasMessage
    <3>7. CASE e.type \in {"error", "cancelled"}
      <4>1. Shows(e)'
        BY <1>0, <3>3, <3>5, <3>6, <3>7, FailureShown
      <4> QED
        BY <3>2, <3>3, <4>1, ShownBy
    <3>8. CASE e.type = "run_completed"
      <4>1. IsEnd(e) /\ IsEnd(wire["worker"][1])
        BY <2>1, <3>8 DEF IsEnd
      <4>2. page.status = "completed" /\ page.text = Answer
        BY <2>2, <2>4, <3>1, <4>1 DEF AnswerAhead
      <4>3. /\ page'.status = "completed" /\ page'.text = Answer
            /\ page'.stepOpen = page.stepOpen
        BY <1>0, <3>3, <4>1, <4>2, CompletionShown
      <4>4. ASSUME NobodyCancels' PROVE ~page.stepOpen
        <5>1. 1 = Len(wire["worker"]) /\ StepsClosed
          BY <1>0, <2>2, <2>4, <3>1, <3>5, <4>1, <4>4 DEF StepsTold
        <5>2. \A i \in 1..Len(wire["worker"]) :
                wire["worker"][i].type # "process.step"
          BY <5>1, <4>1 DEF IsEnd
        <5> QED
          BY <5>1, <5>2 DEF StepsClosed
      <4>5. Shows(e)'
        BY <3>8, <4>3, <4>4 DEF Shows
      <4> QED
        BY <3>2, <3>3, <4>5, ShownBy
    <3> QED
      BY <3>2, <3>7, <3>8 DEF IsTerminalEvent
  <2> QED
    BY <2>5, <2>6
<1>7. CASE Route \/ Reload
  <2>1. conn'.early => conn'.stage = "live"
    BY <1>7, RouteSettles
  <2> QED
    BY <2>1
<1> QED
  BY <1>1, <1>2, <1>3, <1>4, <1>5, <1>6, <1>7 DEF WatchMoves, Processes, watch

OutcomeIInv ==
    /\ Linked /\ PageTold /\ ApiHeard
    /\ Preceded /\ AnswerAhead
    /\ StepsTold
    /\ Ending

(***************************************************************************)
(* A page whose connection was set up while the run was generating, and    *)
(* was closed by a terminal event, shows what the event stands for: the    *)
(* answer, with every process step closed, a failed or a cancelled         *)
(* message.  The terminal event of the API process overtakes what is still *)
(* on its way through Redis, and this is harmless, as the subscribers of   *)
(* the API process (notifySubscribers) have heard it before.               *)
(***************************************************************************)
THEOREM EndIsShown == Spec => []EndShowsOutcome
<1>1. Init => OutcomeIInv
  <2> SUFFICES ASSUME Init PROVE OutcomeIInv
    OBVIOUS
  <2>1. /\ conn = NewConnection /\ page = NoMessage /\ stepOpen = FALSE
        /\ \A p \in Processes : wire[p] = <<>>
        /\ wire["api"] = <<>> /\ wire["worker"] = <<>>
    BY DEF Init, Processes
  <2>2. /\ ~conn.early /\ conn.stage = "open" /\ ~conn.snap.stepOpen
        /\ ~page.stepOpen
    BY <2>1, NewConnectionIs, NoMessageIs
  <2>3. Linked
    <3>1. place = "worker" => run.linked
      BY DEF Init
    <3>2. place # "worker" => exec.pc = "create"
      BY DEF Init
    <3> QED
      BY <3>1, <3>2 DEF Linked
  <2>4. PageTold /\ ApiHeard /\ AnswerAhead /\ Ending
    BY <2>2 DEF PageTold, ApiHeard, AnswerAhead, Ending
  <2>5. Preceded
    BY <2>1 DEF Preceded
  <2>6. StepsTold
    BY <2>1, <2>2 DEF StepsTold, NoStepTold
  <2> QED
    BY <2>3, <2>4, <2>5, <2>6 DEF OutcomeIInv
<1>2. OutcomeIInv /\ StreamIInv /\ StreamIInv' /\ [Next]_vars => OutcomeIInv'
  BY LinkedStep, PageToldStep, ApiHeardStep, PrecededStep, AnswerAheadStep,
     StepsToldStep, EndingStep DEF OutcomeIInv, StreamIInv
<1>3. OutcomeIInv => EndShowsOutcome
  <2>1. SUFFICES ASSUME Ending, conn.early, conn.stage = "ended"
                 PROVE  EndShowsOutcome
    BY DEF OutcomeIInv, EndShowsOutcome
  <2>2. IsTerminalEvent(conn.by) /\ Shows(conn.by)
    BY <2>1 DEF Ending, EndShown
  <2>3. CASE conn.by.type = "run_completed"
    BY <2>2, <2>3 DEF Shows, EndShowsOutcome
  <2>4. CASE conn.by.type = "error"
    BY <2>2, <2>4 DEF Shows, EndShowsOutcome
  <2>5. CASE conn.by.type = "cancelled"
    BY <2>2, <2>5 DEF Shows, EndShowsOutcome
  <2> QED
    BY <2>2, <2>3, <2>4, <2>5 DEF IsTerminalEvent
<1> QED
  BY <1>1, <1>2, <1>3, StreamInductive, PTL DEF Spec

==============================================================================
