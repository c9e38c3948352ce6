------------------------------ MODULE RunStream ------------------------------
(***************************************************************************)
(* What a browser sees of one run.  The executor of the run, in a Worker   *)
(* or (regenerateMessage) in the API process, streams text into the Redis  *)
(* draft of the assistant message and publishes events; the SSE route of   *)
(* the API subscribes the connection, then reads a snapshot and writes it  *)
(* between the live events; the page folds all of it into one message.     *)
(*                                                                         *)
(* Events of the API process reach the connection twice: at once through   *)
(* the subscribers of the store, and again through Redis.  Redis Pub/Sub   *)
(* keeps the order of each publisher and forgets what nobody subscribes.   *)
(*                                                                         *)
(* The rows are coarser than in RunExecution: updateMessage is one step.   *)
(***************************************************************************)
EXTENDS Integers, SequencesExt

CONSTANTS
    Places,     \* where the run may be executed, a subset of Processes
    MaxDeltas,  \* bound: deltas the model streams
    MaxReloads, \* bound: how often the page is loaded again
    MayFail,    \* may the agent throw?
    MayCancel   \* may somebody cancel the run?

Processes == {"worker", "api"}

ASSUME RunStreamAssumption ==
    /\ Places \subseteq Processes
    /\ MaxDeltas \in Nat
    /\ MaxReloads \in Nat
    /\ MayFail \in BOOLEAN
    /\ MayCancel \in BOOLEAN

VARIABLES
    place,    \* the process that executes the run
    run,      \* agent_runs row: status, linked (assistantMessageId is set)
    msg,      \* agent_messages row: status, text
    stepOpen, \* is a process step of the message "running"?
    draft,    \* Redis draft: exists, version, text
    flag,     \* the Redis cancel key
    exec,     \* the executor: pc, and the deltas it has published
    cancel,   \* cancel[p]: the call of cancelRun in p: pc, linked, text
    wire,     \* wire[p]: events p has published through Redis, on their way
    conn,     \* the SSE connection, both ends
    page,     \* the assistant message in the browser
    reloads   \* how often the page was loaded again

rows  == <<run, msg, stepOpen, draft, flag>>
watch == <<wire, conn, page>>
vars  == <<place, rows, exec, cancel, watch, reloads>>

-----------------------------------------------------------------------------
(* Data.  A text is the sequence of its deltas 1, 2, ... or one of two     *)
(* other values, the final answer and the text of a failed run.            *)

NoVersion == -1
Answer    == <<0>>
Failure   == <<-1>>

Streamed(v) == [i \in 1..v |-> i]

Texts == {Answer, Failure} \cup Seq(1..MaxDeltas)

Ended == {"completed", "failed", "cancelled"}

NoMessage == [known |-> FALSE, status |-> "absent", text |-> <<>>,
              version |-> NoVersion, stepOpen |-> FALSE]

\* An event with the fields the page looks at; the rest has these values.
Event(type) == [type |-> type, onMessage |-> TRUE, version |-> NoVersion,
                text |-> <<>>, status |-> "running", open |-> FALSE]

Created           == Event("session.message.created")
Updated(s, t)     == [Event("session.message.updated") EXCEPT !.status = s,
                                                              !.text = t]
\* Mutant: the event carries the version the draft had before the delta.
DeltaBefore(d, v) == [Event("message.part.delta") EXCEPT !.text = <<d>>,
                                                         !.version = v - 1]
Delta(d, v)       == [Event("message.part.delta") EXCEPT !.text = <<d>>,
                                                         !.version = v]
PartUpdated(t, v) == [Event("message.part.updated") EXCEPT !.text = t,
                                                           !.version = v]
Step(open)        == [Event("process.step") EXCEPT !.open = open]
AgentState        == Event("agent_state")
FinalAnswer       == [Event("final_answer") EXCEPT !.text = Answer]
RunCompleted      == Event("run_completed")
Error             == Event("error")
Cancelled(linked) == [Event("cancelled") EXCEPT !.onMessage = linked]

\* Mutant: the error event does not end the stream.
IsDoneOrCancelled(e) == e.type \in {"run_completed", "cancelled"}

\* isTerminalStoredEvent
IsTerminalEvent(e) == e.type \in {"run_completed", "error", "cancelled"}

-----------------------------------------------------------------------------
(* The page: applyAgentEvent, and the reducers it calls.                   *)

IsPartEvent(e) == e.type \in {"message.part.delta", "message.part.updated"}

\* Mutant: an event of the version already shown counts as new.
IsOlderPart(m, e) ==
    /\ IsPartEvent(e)
    /\ e.version # NoVersion
    /\ e.version < m.version

IsDuplicateOrOlderPartVersion(m, e) ==
    /\ IsPartEvent(e)
    /\ e.version # NoVersion
    /\ e.version <= m.version

\* createStreamingAssistantMessage, for the events that may create a message.
MessageFor(m, e) ==
    IF ~m.known /\ (IsPartEvent(e) \/ e.type = "final_answer")
      THEN [NoMessage EXCEPT !.known = TRUE, !.status = "running"]
      ELSE m

\* upsertMessageRecord: the record replaces the message, not its version.
UpsertRecord(m, e) ==
    [m EXCEPT !.known = TRUE, !.status = e.status, !.text = e.text]

VersionAfter(m, e) == IF e.version = NoVersion THEN m.version ELSE e.version

\* The end of reduceMessageStreamEvent: events without a meaning of their own.
SetOtherStatus(m) ==
    [m EXCEPT !.status = IF @ = "completed" THEN @ ELSE "running"]

\* reduceMessageStreamEvent, for a message the page has.
Reduce(m, e) ==
    IF IsDuplicateOrOlderPartVersion(m, e) THEN m ELSE
    CASE e.type = "message.part.delta" ->
           [m EXCEPT !.text = @ \o e.text, !.version = VersionAfter(m, e)]
      [] e.type = "message.part.updated" ->
           [m EXCEPT !.text = e.text, !.version = VersionAfter(m, e)]
      [] e.type = "process.step" -> [m EXCEPT !.stepOpen = e.open]
      [] e.type = "final_answer" -> [m EXCEPT !.text = e.text,
                                              !.status = "completed"]
      [] e.type = "error"        -> [m EXCEPT !.status = "failed"]
      [] e.type = "cancelled"    -> [m EXCEPT !.status = "cancelled"]
      [] OTHER                   -> SetOtherStatus(m)

\* applyAgentEvent; an event without messageId touches no message.
ApplyEvent(m, e) ==
    LET target == IF e.type = "session.message.created"
                       \/ e.type = "session.message.updated"
                    THEN UpsertRecord(m, e)
                    ELSE MessageFor(m, e)
    IN IF target.known /\ e.onMessage THEN Reduce(target, e) ELSE target

\* upsertMessageSnapshot
ApplySnapshot(m, snap) ==
    IF snap.version # NoVersion /\ snap.version < m.version THEN m ELSE snap

-----------------------------------------------------------------------------
(* The connection.  writeStoredEvent writes what the page applies; the two *)
(* are one step, as the response stream keeps the order of the writes.     *)

Listening == {"subscribed", "row", "draft", "write", "live"}

\* One event for the connection c and the page's message m.
Receive(cm, e) ==
    LET c == cm[1]
        m == cm[2]
    IN IF c.stage \notin Listening THEN cm
       ELSE << IF IsTerminalEvent(e)
                 THEN [c EXCEPT !.stage = "ended", !.by = e]
                 ELSE c,
               ApplyEvent(m, e) >>

\* appendRunEvent in process p: a local listener hears the events at once,
\* and the event bus publishes them.
Publish(p, events) ==
    LET heard == IF p = "api" THEN FoldLeft(Receive, <<conn, page>>, events)
                              ELSE <<conn, page>>
    IN /\ wire' = [wire EXCEPT ![p] = @ \o events]
       /\ conn' = heard[1]
       /\ page' = heard[2]

\* Redis hands the oldest event of a publisher to the subscribers.
Deliver(p) ==
    LET heard == Receive(<<conn, page>>, Head(wire[p]))
    IN /\ wire[p] # <<>>
       /\ wire' = [wire EXCEPT ![p] = Tail(@)]
       /\ conn' = heard[1]
       /\ page' = heard[2]
       /\ UNCHANGED <<place, rows, exec, cancel, reloads>>

NewConnection == [stage |-> "open", sawRunning |-> TRUE, snap |-> NoMessage,
                  fresh |-> FALSE, early |-> FALSE, by |-> Event("none")]

\* Where the executor is before the agent has given its answer.
Generating == {"create", "draft", "link", "announce", "agent", "emit"}

NobodyCancels == \A p \in Processes : cancel[p].pc = "idle"

\* Is the run still generating, with nobody cancelling it?
Undisturbed == exec.pc \in Generating /\ NobodyCancels

\* The handler has done its reads and writes: only events come from now on,
\* unless the run it has read was over.
Settled(c) == IF c.sawRunning THEN [c EXCEPT !.stage = "live",
                                             !.early = Undisturbed]
                              ELSE [c EXCEPT !.stage = "ended"]

\* coordinator.subscribeRun
Subscribe ==
    /\ conn.stage = "open"
    /\ conn' = [conn EXCEPT !.stage = "subscribed",
                            !.fresh = (exec.deltas = 0 /\ exec.pc \in Generating)]
    /\ UNCHANGED <<place, rows, exec, cancel, wire, page, reloads>>

\* getRun, after the subscription
ReadRun ==
    /\ conn.stage = "subscribed"
    /\ conn' = LET c == [conn EXCEPT !.sawRunning = (run.status = "running")]
               IN IF run.linked THEN [c EXCEPT !.stage = "row"] ELSE Settled(c)
    /\ UNCHANGED <<place, rows, exec, cancel, wire, page, reloads>>

\* getMessageSnapshot: the row, and the draft if the row is running.
Snapshot(status, text, version) ==
    [known |-> TRUE, status |-> status, text |-> text, version |-> version,
     stepOpen |-> stepOpen]

ReadRow ==
    /\ conn.stage = "row"
    /\ conn' = IF msg.status = "running"
                 THEN [conn EXCEPT !.stage = "draft"]
                 ELSE [conn EXCEPT !.stage = "write",
                         !.snap = Snapshot(msg.status, msg.text, NoVersion)]
    /\ UNCHANGED <<place, rows, exec, cancel, wire, page, reloads>>

\* Mutant: the snapshot counts the event that is still to come.
ReadDraftAhead ==
    /\ conn.stage = "draft"
    /\ conn' = [conn EXCEPT !.stage = "write",
                  !.snap = Snapshot("running", draft.text, draft.version + 1)]
    /\ UNCHANGED <<place, rows, exec, cancel, wire, page, reloads>>

\* A draft that is gone leaves the row that was read: running, and empty.
ReadDraft ==
    /\ conn.stage = "draft"
    /\ conn' = [conn EXCEPT !.stage = "write",
                  !.snap = IF draft.exists
                             THEN Snapshot("running", draft.text, draft.version)
                             ELSE Snapshot("running", <<>>, NoVersion)]
    /\ UNCHANGED <<place, rows, exec, cancel, wire, page, reloads>>

\* message.snapshot, unless a terminal event has closed the response.
WriteSnapshot ==
    /\ conn.stage = "write"
    /\ page' = ApplySnapshot(page, conn.snap)
    /\ conn' = Settled(conn)
    /\ UNCHANGED <<place, rows, exec, cancel, wire, reloads>>

\* The page is loaded again: the old connection is gone; recoverActiveRun
\* reads the run ...
Reload ==
    /\ reloads < MaxReloads
    /\ reloads' = reloads + 1
    /\ conn' = [NewConnection EXCEPT !.stage = "reload",
                                     !.sawRunning = (run.status = "running")]
    /\ page' = NoMessage
    /\ UNCHANGED <<place, rows, exec, cancel, wire>>

\* ... and the session with its messages, and streams if the run is running.
LoadSession ==
    /\ conn.stage = "reload"
    /\ page' = IF msg.status = "absent" THEN NoMessage
                 ELSE Snapshot(msg.status, msg.text, NoVersion)
    /\ conn' = [conn EXCEPT !.stage = IF conn.sawRunning THEN "open"
                                                         ELSE "ended"]
    /\ UNCHANGED <<place, rows, exec, cancel, wire, reloads>>

Route == Subscribe \/ ReadRun \/ ReadRow \/ ReadDraft \/ WriteSnapshot
             \/ LoadSession

-----------------------------------------------------------------------------
(* The executor: executeRun, from createMessage on.                        *)

Goes(from, to) == exec.pc = from /\ exec' = [exec EXCEPT !.pc = to]

execFrame == <<place, flag, cancel, reloads>>

\* updateRun(status) of a run that is still running.
EndRun(outcome) ==
    /\ run.status = "running"
    /\ run' = [run EXCEPT !.status = outcome]

\* regenerateMessage comes without an assistant message: it is created, ...
CreateMessage ==
    /\ Goes("create", "draft")
    /\ msg' = [status |-> "running", text |-> <<>>]
    /\ UNCHANGED <<run, stepOpen, draft, watch, execFrame>>

\* ... gets a draft ...
EnsureDraft ==
    /\ Goes("draft", "link")
    /\ draft' = [exists |-> TRUE, version |-> 0, text |-> <<>>]
    /\ UNCHANGED <<run, msg, stepOpen, watch, execFrame>>

\* ... and is linked to the run; updateRun throws if the run is over.
LinkMessage ==
    /\ \/ run.status = "running" /\ Goes("link", "announce")
       \/ run.status # "running" /\ Goes("link", "catch")
    /\ run' = [run EXCEPT !.linked = @ \/ run.status = "running"]
    /\ UNCHANGED <<msg, stepOpen, draft, watch, execFrame>>

AnnounceMessage ==
    /\ Goes("announce", "agent")
    /\ Publish(place, <<Created>>)
    /\ UNCHANGED <<rows, execFrame>>

\* The controller of the run: cancelRun in the same process aborts it.
Aborted == cancel[place].pc \notin {"idle", "flag"}

\* The forced check of the guard lets the next step of the agent happen.
GuardPasses == run.status = "running" /\ ~flag /\ ~Aborted

\* answer_delta: the check is throttled, so a delta may pass after a cancel.
\* The Lua script appends to the last text part, if there is a draft.
AppendDelta ==
    /\ exec.pc = "agent"
    /\ exec.deltas < MaxDeltas
    /\ draft.exists
    /\ draft' = [draft EXCEPT !.version = @ + 1,
                              !.text = Append(@, exec.deltas + 1)]
    /\ exec' = [exec EXCEPT !.pc = "emit", !.version = draft.version + 1]
    /\ UNCHANGED <<run, msg, stepOpen, watch, execFrame>>

\* publishTransientEvent, with the version the script returned.
EmitDelta ==
    /\ exec.pc = "emit"
    /\ exec' = [exec EXCEPT !.pc = "agent", !.deltas = @ + 1]
    /\ Publish(place, <<Delta(exec.deltas + 1, exec.version)>>)
    /\ UNCHANGED <<rows, execFrame>>

\* An event of the agent that starts a process step.
OpenStep ==
    /\ Goes("agent", "agent")
    /\ GuardPasses
    /\ ~stepOpen
    /\ stepOpen' = TRUE
    /\ Publish(place, <<Step(TRUE)>>)
    /\ UNCHANGED <<run, msg, draft, execFrame>>

\* The guard throws: the run is over, or the controller was aborted.
GuardAborts ==
    /\ Goes("agent", "finally")
    /\ run.status # "running" \/ Aborted
    /\ UNCHANGED <<rows, watch, execFrame>>

\* The guard sees the cancel key and calls cancelRun itself.
GuardCancels ==
    /\ Goes("agent", "cancelling")
    /\ run.status = "running" /\ flag /\ ~Aborted
    /\ cancel[place].pc = "idle"
    /\ cancel' = [cancel EXCEPT ![place].pc = "flag",
                                ![place].linked = run.linked]
    /\ UNCHANGED <<place, rows, watch, reloads>>

GuardCancelled ==
    /\ \/ cancel[place].pc = "done"  /\ Goes("cancelling", "finally")
       \/ cancel[place].pc = "threw" /\ Goes("cancelling", "catch")
    /\ UNCHANGED <<rows, watch, execFrame>>

\* The agent throws.
AgentFails ==
    /\ MayFail
    /\ Goes("agent", "catch")
    /\ UNCHANGED <<rows, watch, execFrame>>

\* The agent has its answer, and the guard lets it through.
AgentAnswers ==
    /\ Goes("agent", "text")
    /\ GuardPasses
    /\ UNCHANGED <<rows, watch, execFrame>>

\* setParts writes the answer into the draft, or into the row when the
\* message is no longer running.
SetAnswerText ==
    /\ exec.pc = "text"
    /\ IF msg.status = "running"
         THEN /\ draft' = [draft EXCEPT !.version = @ + 1, !.text = Answer]
              /\ exec' = [exec EXCEPT !.pc = "emitText",
                                      !.version = draft.version + 1]
              /\ UNCHANGED msg
         ELSE /\ msg' = [msg EXCEPT !.text = Answer]
              /\ exec' = [exec EXCEPT !.pc = "emitText", !.version = NoVersion]
              /\ UNCHANGED draft
    /\ UNCHANGED <<run, stepOpen, watch, execFrame>>

\* Mutant: a terminal event of the agent itself is passed on.
EmitTextAndEnd ==
    /\ Goes("emitText", "close")
    /\ Publish(place, <<PartUpdated(Answer, exec.version), RunCompleted>>)
    /\ UNCHANGED <<rows, execFrame>>

EmitText ==
    /\ Goes("emitText", "close")
    /\ Publish(place, <<PartUpdated(Answer, exec.version)>>)
    /\ UNCHANGED <<rows, execFrame>>

\* completeRunning publishes the steps it closes.
ClosedSteps == IF stepOpen THEN <<Step(FALSE)>> ELSE <<>>

\* completeRunning(succeeded), then final_answer.
CloseSteps ==
    /\ Goes("close", "settle")
    /\ stepOpen' = FALSE
    /\ Publish(place, Append(ClosedSteps, FinalAnswer))
    /\ UNCHANGED <<run, msg, draft, flag, execFrame>>

\* updateMessage(completed); a message that is over makes it throw.
CompleteMessage ==
    /\ \/ /\ msg.status = "running"
          /\ Goes("settle", "announceEnd")
          /\ msg' = [status |-> "completed", text |-> Answer]
       \/ /\ msg.status # "running"
          /\ Goes("settle", "catch")
          /\ UNCHANGED msg
    /\ UNCHANGED <<run, stepOpen, draft, watch, execFrame>>

\* session.message.updated and run_completed, before the run is updated.
AnnounceEnd ==
    /\ Goes("announceEnd", "endRun")
    /\ Publish(place, <<Updated("completed", Answer), RunCompleted>>)
    /\ UNCHANGED <<rows, execFrame>>

CompleteRun ==
    /\ \/ EndRun("completed") /\ Goes("endRun", "finally")
       \/ run.status # "running" /\ Goes("endRun", "catch") /\ UNCHANGED run
    /\ UNCHANGED <<msg, stepOpen, draft, watch, execFrame>>

\* The catch: nothing for a cancelled run, otherwise first the error event.
CatchCancelled ==
    /\ Goes("catch", "finally")
    /\ run.status = "cancelled"
    /\ UNCHANGED <<rows, watch, execFrame>>

CatchError ==
    /\ Goes("catch", "failSteps")
    /\ run.status # "cancelled"
    /\ Publish(place, <<Error>>)
    /\ UNCHANGED <<rows, execFrame>>

FailSteps ==
    /\ Goes("failSteps", "failMessage")
    /\ stepOpen' = FALSE
    /\ Publish(place, ClosedSteps)
    /\ UNCHANGED <<run, msg, draft, execFrame>>

\* updateMessage(failed) may throw out of the catch.
FailMessage ==
    /\ \/ /\ msg.status = "running"
          /\ Goes("failMessage", "failRun")
          /\ msg' = [status |-> "failed", text |-> Failure]
          /\ Publish(place, <<Updated("failed", Failure)>>)
       \/ /\ msg.status # "running"
          /\ Goes("failMessage", "finally")
          /\ UNCHANGED <<msg, watch>>
    /\ UNCHANGED <<run, stepOpen, draft, execFrame>>

FailRun ==
    /\ Goes("failRun", "finally")
    /\ EndRun("failed") \/ (run.status # "running" /\ UNCHANGED run)
    /\ UNCHANGED <<msg, stepOpen, draft, watch, execFrame>>

\* The finally block removes the draft.
RemoveDraft ==
    /\ Goes("finally", "done")
    /\ draft' = [draft EXCEPT !.exists = FALSE]
    /\ UNCHANGED <<run, msg, stepOpen, watch, execFrame>>

Execute ==
    \/ CreateMessage \/ EnsureDraft \/ LinkMessage \/ AnnounceMessage
    \/ AppendDelta \/ EmitDelta \/ OpenStep
    \/ GuardAborts \/ GuardCancels \/ GuardCancelled \/ AgentFails
    \/ AgentAnswers \/ SetAnswerText \/ EmitText \/ CloseSteps \/ CompleteMessage
    \/ AnnounceEnd \/ CompleteRun \/ CatchCancelled \/ CatchError
    \/ FailSteps \/ FailMessage \/ FailRun \/ RemoveDraft

-----------------------------------------------------------------------------
(* cancelRun in process p.                                                 *)

CancelGoes(p, from, to) ==
    cancel[p].pc = from /\ cancel' = [cancel EXCEPT ![p].pc = to]

cancelFrame == <<place, exec, reloads>>

\* A request of the browser; a run that is over is left alone.
RequestCancel ==
    /\ MayCancel
    /\ cancel["api"].pc = "idle"
    /\ run.status = "running"
    /\ cancel' = [cancel EXCEPT !["api"].pc = "flag",
                                !["api"].linked = run.linked]
    /\ UNCHANGED <<rows, watch, cancelFrame>>

SetFlag(p) ==
    /\ CancelGoes(p, "flag", "message")
    /\ flag' = TRUE
    /\ UNCHANGED <<run, msg, stepOpen, draft, watch, cancelFrame>>

\* The message that is still running, with the text of its draft.
ReadMessage(p) ==
    /\ cancel[p].pc = "message"
    /\ cancel' = IF cancel[p].linked /\ msg.status = "running"
                   THEN [cancel EXCEPT ![p].pc = "steps",
                           ![p].text = IF draft.exists THEN draft.text
                                                       ELSE msg.text]
                   ELSE [cancel EXCEPT ![p].pc = "announce"]
    /\ UNCHANGED <<rows, watch, cancelFrame>>

CancelSteps(p) ==
    /\ CancelGoes(p, "steps", "write")
    /\ stepOpen' = FALSE
    /\ Publish(p, Append(ClosedSteps, AgentState))
    /\ UNCHANGED <<run, msg, draft, flag, cancelFrame>>

CancelMessage(p) ==
    /\ \/ /\ msg.status = "running" \/ msg.status = "cancelled"
          /\ CancelGoes(p, "write", "updated")
          /\ msg' = [status |-> "cancelled", text |-> cancel[p].text]
       \/ /\ msg.status \in {"completed", "failed"}
          /\ CancelGoes(p, "write", "threw")
          /\ UNCHANGED msg
    /\ UNCHANGED <<run, stepOpen, draft, flag, watch, cancelFrame>>

AnnounceMessageCancelled(p) ==
    /\ CancelGoes(p, "updated", "undraft")
    /\ Publish(p, <<Updated("cancelled", cancel[p].text)>>)
    /\ UNCHANGED <<rows, cancelFrame>>

CancelDraft(p) ==
    /\ CancelGoes(p, "undraft", "announce")
    /\ draft' = [draft EXCEPT !.exists = FALSE]
    /\ UNCHANGED <<run, msg, stepOpen, flag, watch, cancelFrame>>

\* The terminal event goes out before the run is updated, here too.
AnnounceCancelled(p) ==
    /\ CancelGoes(p, "announce", "run")
    /\ Publish(p, <<Cancelled(cancel[p].linked)>>)
    /\ UNCHANGED <<rows, cancelFrame>>

CancelRun(p) ==
    /\ \/ EndRun("cancelled") /\ CancelGoes(p, "run", "done")
       \/ /\ run.status = "cancelled" /\ CancelGoes(p, "run", "done")
          /\ UNCHANGED run
       \/ /\ run.status \in {"completed", "failed"}
          /\ CancelGoes(p, "run", "threw")
          /\ UNCHANGED run
    /\ UNCHANGED <<msg, stepOpen, draft, flag, watch, cancelFrame>>

Cancel(p) ==
    \/ SetFlag(p) \/ ReadMessage(p) \/ CancelSteps(p) \/ CancelMessage(p)
    \/ AnnounceMessageCancelled(p) \/ CancelDraft(p) \/ AnnounceCancelled(p)
    \/ CancelRun(p)

-----------------------------------------------------------------------------
Init ==
    /\ place \in Places
    /\ run = [status |-> "running", linked |-> place = "worker"]
    /\ msg = [status |-> IF place = "worker" THEN "running" ELSE "absent",
              text |-> <<>>]
    /\ stepOpen = FALSE
    /\ draft = [exists |-> place = "worker", version |-> 0, text |-> <<>>]
    /\ flag = FALSE
    /\ exec = [pc |-> IF place = "worker" THEN "agent" ELSE "create",
               deltas |-> 0, version |-> NoVersion]
    /\ cancel = [p \in Processes |->
                   [pc |-> "idle", linked |-> FALSE, text |-> <<>>]]
    /\ wire = [p \in Processes |-> <<>>]
    /\ conn = NewConnection
    /\ page = NoMessage
    /\ reloads = 0

\* The system may come to rest when the run is over and its events are read.
Done ==
    /\ exec.pc = "done"
    /\ \A p \in Processes :
         wire[p] = <<>> /\ cancel[p].pc \in {"idle", "done", "threw"}
    /\ conn.stage \in {"ended", "live"}
    /\ UNCHANGED vars

Next ==
    \/ Execute
    \/ RequestCancel
    \/ Route
    \/ Reload
    \/ \E p \in Processes : Cancel(p) \/ Deliver(p)
    \/ Done

Spec == Init /\ [][Next]_vars

\* Promises settle, the agent answers or throws, Redis delivers.
Fairness ==
    /\ WF_vars(Execute)
    /\ WF_vars(Route)
    /\ \A p \in Processes : WF_vars(Cancel(p)) /\ WF_vars(Deliver(p))

FairSpec == Spec /\ Fairness

-----------------------------------------------------------------------------
(* Properties.                                                             *)

ExecPC == Generating \cup
    {"cancelling", "text", "emitText", "close", "settle", "announceEnd", "endRun",
     "catch", "failSteps", "failMessage", "failRun", "finally", "done"}

CancelPC == {"idle", "flag", "message", "steps", "write", "updated",
             "undraft", "announce", "run", "done", "threw"}

\* Types; a page or a snapshot never claims a version the draft has not had.
TypeOK ==
    /\ place \in Places
    /\ run.status \in {"running"} \cup Ended /\ run.linked \in BOOLEAN
    /\ msg.status \in {"absent", "running"} \cup Ended /\ msg.text \in Texts
    /\ stepOpen \in BOOLEAN
    /\ draft.text \in Texts /\ draft.version \in 0..(MaxDeltas + 1)
    /\ exec.pc \in ExecPC /\ exec.deltas \in 0..MaxDeltas
    /\ \A p \in Processes : cancel[p].pc \in CancelPC /\ cancel[p].text \in Texts
    /\ conn.stage \in Listening \cup {"open", "reload", "ended"}
    /\ \A m \in {page, conn.snap} : m.version \in NoVersion..draft.version

\* The text that had the version v in the draft.
TextAt(v) == IF v = draft.version THEN draft.text ELSE Streamed(v)

\* A page that subscribed before the first delta went out shows, until the
\* message is over, exactly the text of the draft at the version it has: the
\* snapshot and the live events are merged without loss or repetition.  (In
\* the API process a late copy of session.message.created can still empty
\* the text, so this is about Workers; README, known divergences.)
FreshTextExact ==
    (/\ place = "worker"
     /\ conn.fresh
     /\ conn.stage \in Listening
     /\ msg.status = "running"
     /\ page.known) => page.text = TextAt(page.version)

\* Events arrive twice in the process that publishes them, and again in the
\* snapshot; no delta is shown twice as long as nobody cancels the run.
NoDeltaTwice ==
    NobodyCancels =>
        \A i, j \in DOMAIN page.text : page.text[i] = page.text[j] => i = j

\* A connection that was set up while the run was generating and was closed by
\* a terminal event leaves the page with the outcome the event stands for: the
\* final answer and no step in progress, a failed or a cancelled message.
EndShowsOutcome ==
    conn.early /\ conn.stage = "ended" =>
        CASE conn.by.type = "run_completed" ->
               /\ page.status = "completed"
               /\ page.text = Answer
               /\ place = "worker" /\ NobodyCancels => ~page.stepOpen
          [] conn.by.type = "error" -> page.status = "failed"
          [] conn.by.type = "cancelled" ->
               conn.by.onMessage /\ page.known => page.status = "cancelled"

\* The stream of such a connection is closed in the end.
EarlyStreamEnds ==
    conn.early ~> (conn.stage = "ended" \/ ~conn.early)

\* What the SSE route is for: once the snapshot is written, a page shows the
\* text that was generated before it connected.
SnapshotRestoresText ==
    (/\ conn.stage = "live"
     /\ msg.status = "running"
     /\ page.known) => page.text = TextAt(page.version)

\* Every connection is closed once the run is over.
StreamEnds ==
    (run.status # "running") ~> (conn.stage = "ended")

=============================================================================
