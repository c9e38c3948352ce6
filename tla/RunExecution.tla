----------------------------- MODULE RunExecution -----------------------------
(***************************************************************************)
(* The life of one queued run, over the processes and stores it crosses:   *)
(* the API process that starts it (startRun), cancels it (cancelRun) and   *)
(* compensates for it after a restart (cleanupStaleRunningExecutions); the *)
(* BullMQ job; the Workers that execute it (executeQueuedRun, executeRun); *)
(* the PostgreSQL rows of the run, of its assistant message and of its     *)
(* process steps; and the Redis draft, cancel flag and lock.               *)
(*                                                                         *)
(* An action is one await of the code: what happens between two awaits is  *)
(* a step of its process, and the steps of all processes interleave.       *)
(* Reads that decide nothing until the next write are part of that write's *)
(* action.  updateMessage is two actions, a read that checks the           *)
(* transition and a write that does not; updateRun is one (FOR UPDATE).    *)
(*                                                                         *)
(* Published events are the subject of RunStream, not of this module.      *)
(***************************************************************************)
EXTENDS AgentStatus, Naturals, FiniteSets

CONSTANTS
    Workers,            \* job handlers of the Worker processes
    Requests,           \* calls of cancelRun in the API process
    EarlyCancel,        \* may cancelRun be called before startRun returned?
                        \* (the API's shutdown and deleteSession do)
    RedisFails,         \* may Redis fail while startRun uses it?
    MayCompress,        \* may the session need a new summary first?
    MaxTokens,          \* bound: leases the run lock grants (see RunLock)
    MaxExpiries,        \* bound: how often the lock's TTL elapses
    MaxEvents,          \* bound: events one execution of the agent emits
    MaxStalls,          \* BullMQ's maxStalledCount
    MaxWorkerCrashes,   \* bound: Worker processes that die
    MaxApiCrashes       \* bound: API processes that die

ASSUME RunExecutionAssumption ==
    /\ Workers \cap Requests = {}
    /\ "nobody" \notin Workers
    /\ EarlyCancel \in BOOLEAN
    /\ RedisFails \in BOOLEAN
    /\ MayCompress \in BOOLEAN
    /\ MaxTokens \in Nat
    /\ MaxExpiries \in Nat
    /\ MaxEvents \in Nat
    /\ MaxStalls \in Nat
    /\ MaxWorkerCrashes \in Nat
    /\ MaxApiCrashes \in Nat

\* Who can be inside cancelRun: API requests, and Workers whose guard sees
\* the cancel flag.
Cancellers == Workers \cup Requests

VARIABLES
    run,        \* agent_runs row: status, phase, linked and sysLinked (are
                \* assistant_message_id and system_message_id set?)
    msg,        \* assistant agent_messages row: status, parts
    sysmsg,     \* status of the system message that stands for a compression
    stepOpen,   \* is some process step of the message "running"?
    draft,      \* Redis draft of the message: its parts, or NoDraft
    cancelFlag, \* the Redis cancel key of the run
    job,        \* BullMQ job: state, owner, stalls
    key, lease, issued, expired,    \* the run lock, see RunLock
    api,        \* the API process: up, down, booting
    starter,    \* where startRun is
    cleaner,    \* where cleanupStaleRunningExecutions is
    found,      \* what the cleaner has read of the run: linked, sysLinked
    cancel,     \* cancel[c]: where c's call of cancelRun is
    held,       \* held[c]: what c's cancelRun read: linked, sysLinked, parts
    worker,     \* worker[w]: where w's job handler is
    local,      \* local[w]: seen (message status read), bound, emitted
    crashes     \* how often Workers and the API have died

lockVars  == <<key, lease, issued, expired>>
apiVars   == <<api, starter, cleaner, found>>
rowVars   == <<run, msg, sysmsg, stepOpen>>
vars == <<run, msg, sysmsg, stepOpen, draft, cancelFlag, job, key, lease,
          issued, expired, api, starter, cleaner, found, cancel, held, worker,
          local, crashes>>

\* What most steps of a process leave alone.
starterFrame == <<cancelFlag, lockVars, api, cleaner, found, cancel, held,
                  worker, local, crashes>>
cancelFrame  == <<job, lockVars, apiVars, worker, local, crashes>>
workerFrame  == <<cancelFlag, job, lockVars, apiVars, cancel, held, crashes>>
queueFrame   == <<cancelFlag, lockVars, apiVars, cancel, held, crashes>>
cleanerFrame == <<cancelFlag, job, lockVars, starter, cancel, held, worker,
                  local, crashes>>

Lock == INSTANCE RunLock WITH Holders <- Workers

-----------------------------------------------------------------------------
(* The values of the rows.  The parts of a message are told apart by where *)
(* they come from: nothing yet, streamed text, the agent's final answer,   *)
(* the text of a failure, the text the cleanup writes.                     *)

Parts == {"empty", "partial", "answer", "failure", "interrupted"}

NoDraft == "none"

Nobody == "nobody"

RunRow == [status : Status \cup {Absent}, phase : RunPhase \cup {Absent},
           linked : BOOLEAN, sysLinked : BOOLEAN]

MessageRow == [status : Status \cup {Absent}, parts : Parts]

JobState == {"none", "waiting", "active", "gone"}

JobRow == [state : JobState, owner : Workers \cup {Nobody},
           stalls : 0..MaxStalls]

\* What a handler and a call of cancelRun keep in their local variables.
LocalRow == [seen : Status \cup {Absent}, bound : BOOLEAN,
             emitted : 0..MaxEvents]

HeldRow == [linked : BOOLEAN, sysLinked : BOOLEAN, parts : Parts]

StarterPC == {"createRun", "createMessage", "initDraft", "link", "enqueue",
              "failCheck", "failWrite", "failRun", "failDraft",
              "returned", "raised", "killed"}

CleanerPC == {"idle", "scan", "system", "sysCheck", "sysWrite",
              "message", "check", "write", "undraft", "run"}

CancelPC == {"idle", "flag", "system", "sysCheck", "sysWrite", "message",
             "draft", "steps", "check", "write", "undraft", "run", "done",
             "threw"}

\* The awaits of executeRun, and those of executeQueuedRun around it.
ExecuteRunPC ==
    {"guard", "refresh", "sysLink", "summarize", "sysDone", "sysDoneWrite",
     "sysFail", "sysFailWrite", "reguard", "ensure", "answering", "agent",
     "delta", "openStep", "closeStep", "settle", "setText", "rewrite",
     "closeSteps", "completeCheck", "completeWrite", "completeRun", "catch",
     "failSteps", "failText", "failCheck", "failWrite", "failRun", "finally"}

WorkerPC ==
    ExecuteRunPC \cup {"idle", "check", "cancelling", "acquire", "release",
                      "ack"}

TypeOK ==
    /\ run \in RunRow
    /\ msg \in MessageRow
    /\ sysmsg \in Status \cup {Absent}
    /\ stepOpen \in BOOLEAN
    /\ draft \in Parts \cup {NoDraft}
    /\ cancelFlag \in BOOLEAN
    /\ job \in JobRow
    /\ Lock!LockTypeOK
    /\ api \in {"up", "down", "booting"}
    /\ starter \in StarterPC
    /\ cleaner \in CleanerPC
    /\ found \in [linked : BOOLEAN, sysLinked : BOOLEAN]
    /\ cancel \in [Cancellers -> CancelPC]
    /\ held \in [Cancellers -> HeldRow]
    /\ worker \in [Workers -> WorkerPC]
    /\ local \in [Workers -> LocalRow]
    /\ crashes \in [worker : 0..MaxWorkerCrashes, api : 0..MaxApiCrashes]

FreshLocal == [seen |-> Absent, bound |-> FALSE, emitted |-> 0]

NothingHeld == [linked |-> FALSE, sysLinked |-> FALSE, parts |-> "empty"]

Init ==
    /\ run = [status |-> Absent, phase |-> Absent, linked |-> FALSE,
              sysLinked |-> FALSE]
    /\ msg = [status |-> Absent, parts |-> "empty"]
    /\ sysmsg = Absent
    /\ stepOpen = FALSE
    /\ draft = NoDraft
    /\ cancelFlag = FALSE
    /\ job = [state |-> "none", owner |-> Nobody, stalls |-> 0]
    /\ Lock!LockInit
    /\ api = "up"
    /\ starter = "createRun"
    /\ cleaner = "idle"
    /\ found = [linked |-> FALSE, sysLinked |-> FALSE]
    /\ cancel = [c \in Cancellers |-> "idle"]
    /\ held = [c \in Cancellers |-> NothingHeld]
    /\ worker = [w \in Workers |-> "idle"]
    /\ local = [w \in Workers |-> FreshLocal]
    /\ crashes = [worker |-> 0, api |-> 0]

-----------------------------------------------------------------------------
(* PostgreSQL: the two ways a row is updated.                              *)

\* Mutant: updateRun without the transition check.
EndRunBlind(outcome) ==
    run' = [run EXCEPT !.status = outcome, !.phase = outcome]

\* updateRun(status = phase = outcome), if the checks under the row lock pass.
EndRun(outcome) ==
    /\ CanUpdateRun(run, outcome, outcome)
    /\ run' = [run EXCEPT !.status = outcome, !.phase = outcome]

EndRunThrows(outcome) ==
    /\ ~CanUpdateRun(run, outcome, outcome)
    /\ UNCHANGED run

\* updateRun(phase = "answering", assistantMessageId), from startRun and from
\* executeRun.
LinkMessage ==
    /\ CanUpdateRun(run, run.status, "answering")
    /\ run' = [run EXCEPT !.phase = "answering", !.linked = TRUE]

LinkThrows ==
    /\ ~CanUpdateRun(run, run.status, "answering")
    /\ UNCHANGED run

\* The read of updateMessage: it throws unless the transition is legal now.
MayBecome(outcome) == ValidTransition(msg.status, outcome)

\* The write of updateMessage: the row is no longer looked at.
WriteMessage(outcome, parts) == msg' = [status |-> outcome, parts |-> parts]

IsOver == run.status \in Terminal

-----------------------------------------------------------------------------
(* startRun, the queue branch.                                             *)

StarterGoes(from, to) == starter = from /\ starter' = to

\* createRun(running, compressing); the user message is already stored.
StartCreateRun ==
    /\ StarterGoes("createRun", "createMessage")
    /\ run' = [status |-> "running", phase |-> "compressing",
               linked |-> FALSE, sysLinked |-> FALSE]
    /\ UNCHANGED <<msg, sysmsg, stepOpen, draft, job, starterFrame>>

\* createMessage(assistant, running, parts []).
StartCreateMessage ==
    /\ StarterGoes("createMessage", "initDraft")
    /\ WriteMessage("running", "empty")
    /\ UNCHANGED <<run, sysmsg, stepOpen, draft, job, starterFrame>>

\* draftManager.init.
StartInitDraft ==
    /\ StarterGoes("initDraft", "link")
    /\ draft' = "empty"
    /\ UNCHANGED <<rowVars, job, starterFrame>>

\* updateRun(answering, assistantMessageId) throws once the run is over.
StartLink ==
    /\ starter = "link"
    /\ \/ LinkMessage /\ starter' = "enqueue"
       \/ LinkThrows  /\ starter' = "failCheck"
    /\ UNCHANGED <<msg, sysmsg, stepOpen, draft, job, starterFrame>>

\* enqueueRun; the caller gets the run and now knows its id.
StartEnqueue ==
    /\ StarterGoes("enqueue", "returned")
    /\ job' = [job EXCEPT !.state = "waiting"]
    /\ UNCHANGED <<rowVars, draft, starterFrame>>

\* Redis is unavailable: draft init or enqueue throws.  The connection may
\* have broken after BullMQ's add was carried out.
StartRedisFails ==
    /\ RedisFails
    /\ starter \in {"initDraft", "enqueue"}
    /\ starter' = "failCheck"
    /\ \/ UNCHANGED job
       \/ starter = "enqueue" /\ job' = [job EXCEPT !.state = "waiting"]
    /\ UNCHANGED <<rowVars, draft, starterFrame>>

\* The catch of startRun: updateMessage(failed), first its read ...
StartFailCheck ==
    /\ starter = "failCheck"
    /\ starter' = IF MayBecome("failed") THEN "failWrite" ELSE "raised"
    /\ UNCHANGED <<rowVars, draft, job, starterFrame>>

\* ... then its write ...
StartFailWrite ==
    /\ StarterGoes("failWrite", "failRun")
    /\ WriteMessage("failed", "failure")
    /\ UNCHANGED <<run, sysmsg, stepOpen, draft, job, starterFrame>>

\* ... updateRun(failed, assistantMessageId), which may throw ...
StartFailRun ==
    /\ starter = "failRun"
    /\ \/ /\ CanUpdateRun(run, "failed", "failed")
          /\ run' = [run EXCEPT !.status = "failed", !.phase = "failed",
                                !.linked = TRUE]
          /\ starter' = "failDraft"
       \/ EndRunThrows("failed") /\ starter' = "raised"
    /\ UNCHANGED <<msg, sysmsg, stepOpen, draft, job, starterFrame>>

\* ... and draftManager.remove, best effort.
StartFailDraft ==
    /\ StarterGoes("failDraft", "raised")
    /\ \/ draft' = NoDraft
       \/ UNCHANGED draft
    /\ UNCHANGED <<rowVars, job, starterFrame>>

StartRun ==
    \/ StartCreateRun \/ StartCreateMessage \/ StartInitDraft \/ StartLink
    \/ StartEnqueue \/ StartRedisFails \/ StartFailCheck \/ StartFailWrite
    \/ StartFailRun \/ StartFailDraft

-----------------------------------------------------------------------------
(* cancelRun, called by an API request or by the guard of a Worker.        *)

CancelGoes(c, from, to) ==
    cancel[c] = from /\ cancel' = [cancel EXCEPT ![c] = to]

\* A step that only decides where c goes on.
CancelDecides(c, from, to) ==
    /\ CancelGoes(c, from, to)
    /\ UNCHANGED <<rowVars, draft, cancelFlag, held, cancelFrame>>

\* ensureRun: a run that is not running is returned as it is.
CancelReadsRun(c) ==
    /\ cancel' = [cancel EXCEPT ![c] = IF run.status = "running"
                                         THEN "flag" ELSE "done"]
    /\ held' = [held EXCEPT ![c].linked = run.linked,
                            ![c].sysLinked = run.sysLinked]

\* A client, or the API's own shutdown or deleteSession, calls cancelRun.
RequestCancel(c) ==
    /\ cancel[c] = "idle"
    /\ api = "up"
    /\ run.status # Absent
    /\ EarlyCancel \/ starter = "returned"
    /\ CancelReadsRun(c)
    /\ UNCHANGED <<rowVars, draft, cancelFlag, cancelFrame>>

\* The cancel key is set first, so that every other process sees it.
CancelSetFlag(c) ==
    /\ CancelGoes(c, "flag", "system")
    /\ cancelFlag' = TRUE
    /\ UNCHANGED <<rowVars, draft, held, cancelFrame>>

\* The system message, if the run that was read has one and it is running,
\* is cancelled: updateMessage reads it once more, and writes.
CancelReadSystem(c) ==
    CancelDecides(c, "system", IF held[c].sysLinked /\ sysmsg = "running"
                                 THEN "sysCheck" ELSE "message")

CancelCheckSystem(c) ==
    CancelDecides(c, "sysCheck", IF ValidTransition(sysmsg, "cancelled")
                                   THEN "sysWrite" ELSE "threw")

CancelWriteSystem(c) ==
    /\ CancelGoes(c, "sysWrite", "message")
    /\ sysmsg' = "cancelled"
    /\ UNCHANGED <<run, msg, stepOpen, draft, cancelFlag, held, cancelFrame>>

\* The assistant message, if the run that was read has one and it runs ...
CancelReadMessage(c) ==
    /\ cancel[c] = "message"
    /\ IF held[c].linked /\ msg.status = "running"
         THEN /\ cancel' = [cancel EXCEPT ![c] = "draft"]
              /\ held' = [held EXCEPT ![c].parts = msg.parts]
         ELSE /\ cancel' = [cancel EXCEPT ![c] = "run"]
              /\ UNCHANGED held
    /\ UNCHANGED <<rowVars, draft, cancelFlag, cancelFrame>>

\* Mutant: the draft is taken as it is, also when there is none.
CancelTakesDraft(c) ==
    /\ CancelGoes(c, "draft", "steps")
    /\ held' = [held EXCEPT ![c].parts = draft]
    /\ UNCHANGED <<rowVars, draft, cancelFlag, cancelFrame>>

\* ... with the parts of its draft, if it has one (withDraft).
CancelReadDraft(c) ==
    /\ CancelGoes(c, "draft", "steps")
    /\ held' = IF draft = NoDraft THEN held
                                  ELSE [held EXCEPT ![c].parts = draft]
    /\ UNCHANGED <<rowVars, draft, cancelFlag, cancelFrame>>

\* processStepProjector.completeRunning(cancelled).
CancelCloseSteps(c) ==
    /\ CancelGoes(c, "steps", "check")
    /\ stepOpen' = FALSE
    /\ UNCHANGED <<run, msg, sysmsg, draft, cancelFlag, held, cancelFrame>>

\* updateMessage(cancelled): its read ...
CancelCheckMessage(c) ==
    CancelDecides(c, "check",
                  IF MayBecome("cancelled") THEN "write" ELSE "threw")

\* ... and its write.
CancelWriteMessage(c) ==
    /\ CancelGoes(c, "write", "undraft")
    /\ WriteMessage("cancelled", held[c].parts)
    /\ UNCHANGED <<run, sysmsg, stepOpen, draft, cancelFlag, held,
                   cancelFrame>>

\* Mutant: cancelRun leaves the run to the executor it has stopped.
CancelEndsAtMessage(c) ==
    /\ CancelGoes(c, "undraft", "done")
    /\ draft' = NoDraft
    /\ UNCHANGED <<rowVars, cancelFlag, held, cancelFrame>>

\* draftManager.remove.
CancelRemoveDraft(c) ==
    /\ CancelGoes(c, "undraft", "run")
    /\ draft' = NoDraft
    /\ UNCHANGED <<rowVars, cancelFlag, held, cancelFrame>>

\* updateRun(cancelled); it throws if the run has another outcome by now.
CancelEndRun(c) ==
    /\ cancel[c] = "run"
    /\ \/ EndRun("cancelled")       /\ cancel' = [cancel EXCEPT ![c] = "done"]
       \/ EndRunThrows("cancelled") /\ cancel' = [cancel EXCEPT ![c] = "threw"]
    /\ UNCHANGED <<msg, sysmsg, stepOpen, draft, cancelFlag, held,
                   cancelFrame>>

CancelRun(c) ==
    \/ CancelSetFlag(c)
    \/ CancelReadSystem(c) \/ CancelCheckSystem(c) \/ CancelWriteSystem(c)
    \/ CancelReadMessage(c) \/ CancelReadDraft(c)
    \/ CancelCloseSteps(c) \/ CancelCheckMessage(c) \/ CancelWriteMessage(c)
    \/ CancelRemoveDraft(c) \/ CancelEndRun(c)

-----------------------------------------------------------------------------
(* BullMQ: at-least-once delivery of the job, whose id is the run's.       *)

WorkerGoes(w, from, to) ==
    worker[w] = from /\ worker' = [worker EXCEPT ![w] = to]

\* A step that only decides where w goes on.
Decides(w, from, to) ==
    WorkerGoes(w, from, to) /\ UNCHANGED <<rowVars, draft, local, workerFrame>>

\* An idle handler takes the waiting job.
Deliver(w) ==
    /\ job.state = "waiting"
    /\ WorkerGoes(w, "idle", "check")
    /\ job' = [job EXCEPT !.state = "active", !.owner = w]
    /\ UNCHANGED <<rowVars, draft, local, queueFrame>>

MayRetry == job.stalls < MaxStalls

\* The owner of the job did not renew its BullMQ lock: it died, or its event
\* loop was blocked.  The job goes back to the queue, or fails for good when
\* it has stalled too often.
Stall ==
    /\ job.state = "active"
    /\ job' = IF MayRetry
                THEN [state |-> "waiting", owner |-> Nobody,
                      stalls |-> job.stalls + 1]
                ELSE [job EXCEPT !.state = "gone", !.owner = Nobody]
    /\ UNCHANGED <<rowVars, draft, worker, local, queueFrame>>

\* The handler returned or threw: the job leaves the queue either way, unless
\* it was given to somebody else in the meantime.
Acknowledge(w) ==
    /\ WorkerGoes(w, "ack", "idle")
    /\ job' = IF job.owner = w
                THEN [job EXCEPT !.state = "gone", !.owner = Nobody] ELSE job
    /\ local' = [local EXCEPT ![w] = FreshLocal]
    /\ UNCHANGED <<rowVars, draft, queueFrame>>

-----------------------------------------------------------------------------
(* executeQueuedRun: the run must be running and not cancelled, and the    *)
(* lock free.                                                              *)

CheckQueuedRun(w) ==
    /\ worker[w] = "check"
    /\ \/ /\ run.status # "running"
          /\ worker' = [worker EXCEPT ![w] = "ack"]
          /\ UNCHANGED <<cancel, held>>
       \/ /\ run.status = "running" /\ cancelFlag
          /\ worker' = [worker EXCEPT ![w] = "cancelling"]
          /\ CancelReadsRun(w)
       \/ /\ run.status = "running" /\ ~cancelFlag
          /\ worker' = [worker EXCEPT ![w] = "acquire"]
          /\ UNCHANGED <<cancel, held>>
    /\ UNCHANGED <<rowVars, draft, cancelFlag, job, lockVars, apiVars, local,
                   crashes>>

\* Mutant: a taken lock does not stop the handler.
AcquireAnyway(w) ==
    /\ WorkerGoes(w, "acquire", "guard")
    /\ Lock!Acquire(w) \/ (key # Lock!NoToken /\ UNCHANGED lockVars)
    /\ UNCHANGED <<rowVars, draft, cancelFlag, job, apiVars, cancel, held,
                   local, crashes>>

AcquireLock(w) ==
    /\ worker[w] = "acquire"
    /\ \/ Lock!Acquire(w) /\ worker' = [worker EXCEPT ![w] = "guard"]
       \* Somebody holds it: the handler returns and the job is done.
       \/ /\ key # Lock!NoToken
          /\ worker' = [worker EXCEPT ![w] = "ack"]
          /\ UNCHANGED lockVars
    /\ UNCHANGED <<rowVars, draft, cancelFlag, job, apiVars, cancel, held,
                   local, crashes>>

\* The finally of executeQueuedRun: the lease releases the lock.
ReleaseLock(w) ==
    /\ WorkerGoes(w, "release", "ack")
    /\ Lock!Release(w)
    /\ UNCHANGED <<rowVars, draft, cancelFlag, job, apiVars, cancel, held,
                   local, crashes>>

-----------------------------------------------------------------------------
(* createRunExecutionGuard: ensureActive passes while the run is running   *)
(* and not cancelled, throws AbortError when the run is over, and carries  *)
(* out the cancellation itself when it sees the flag.                      *)

\* Where executeRun calls ensureActive.
GuardPoints == {"guard", "reguard", "agent", "settle"}

GuardPasses == run.status = "running" /\ ~cancelFlag

GuardAborts(w) ==
    /\ worker[w] \in GuardPoints
    /\ run.status # "running"
    /\ Decides(w, worker[w], "finally")

GuardCancels(w) ==
    /\ worker[w] \in GuardPoints
    /\ run.status = "running" /\ cancelFlag
    /\ worker' = [worker EXCEPT ![w] = "cancelling"]
    /\ CancelReadsRun(w)
    /\ UNCHANGED <<rowVars, draft, cancelFlag, job, lockVars, apiVars, local,
                   crashes>>

\* The worker's own cancelRun is through.  Before the lock was taken the
\* handler is done; inside executeRun the guard throws AbortError, or what
\* cancelRun threw.
CancelledItself(w) ==
    /\ worker[w] = "cancelling"
    /\ cancel[w] \in {"done", "threw"}
    /\ worker' = [worker EXCEPT ![w] =
                    IF lease[w] = Lock!NoToken THEN "ack"
                    ELSE IF cancel[w] = "done" THEN "finally" ELSE "catch"]
    /\ cancel' = [cancel EXCEPT ![w] = "idle"]
    /\ held' = [held EXCEPT ![w] = NothingHeld]
    /\ UNCHANGED <<rowVars, draft, cancelFlag, job, lockVars, apiVars, local,
                   crashes>>

-----------------------------------------------------------------------------
(* executeRun, up to the call of the agent.                                *)

\* The guard before the summary refresh.
EnterRefresh(w) == GuardPasses /\ Decides(w, "guard", "refresh")

\* refreshSessionSummaryBeforeAnswer finds too little to compress ...
SkipRefresh(w) == Decides(w, "refresh", "reguard")

\* ... or makes a system message (bound: one per run) ...
CreateSystemMessage(w) ==
    /\ MayCompress /\ sysmsg = Absent
    /\ WorkerGoes(w, "refresh", "sysLink")
    /\ sysmsg' = "running"
    /\ UNCHANGED <<run, msg, stepOpen, draft, local, workerFrame>>

\* ... and tells the run of it: updateRun(compressing, systemMessageId).
LinkSystemMessage(w) ==
    /\ worker[w] = "sysLink"
    /\ IF CanUpdateRun(run, run.status, "compressing")
         THEN /\ run' = [run EXCEPT !.phase = "compressing",
                                   !.sysLinked = TRUE]
              /\ worker' = [worker EXCEPT ![w] = "summarize"]
         ELSE /\ worker' = [worker EXCEPT ![w] = "catch"]
              /\ UNCHANGED run
    /\ UNCHANGED <<msg, sysmsg, stepOpen, draft, local, workerFrame>>

\* The summary model has answered.  If the run is over, the answer is dropped
\* with an AbortError; a summary of nothing is ignored; a summary is stored.
SummaryArrives(w) ==
    \/ IsOver  /\ Decides(w, "summarize", "finally")
    \/ ~IsOver /\ Decides(w, "summarize", "reguard")
    \/ ~IsOver /\ Decides(w, "summarize", "sysDone")

\* The catch of the refresh: the error of a cancelled run goes on to
\* executeRun, any other fails the system message.
RefreshCatch == IF run.status = "cancelled" THEN "catch" ELSE "sysFail"

\* The summary model failed.
SummaryFails(w) == Decides(w, "summarize", RefreshCatch)

\* updateMessage(completed) of the system message, and in the catch of the
\* refresh updateMessage(failed): the reads ...
CheckSystemMessage(w) ==
    \/ Decides(w, "sysDone", IF ValidTransition(sysmsg, "completed")
                                THEN "sysDoneWrite" ELSE RefreshCatch)
    \/ Decides(w, "sysFail", IF ValidTransition(sysmsg, "failed")
                                THEN "sysFailWrite" ELSE "catch")

\* ... and the writes.
WriteSystemMessage(w) ==
    /\ \/ WorkerGoes(w, "sysDoneWrite", "reguard") /\ sysmsg' = "completed"
       \/ WorkerGoes(w, "sysFailWrite", "reguard") /\ sysmsg' = "failed"
    /\ UNCHANGED <<run, msg, stepOpen, draft, local, workerFrame>>

\* The guard after the refresh, then ensureAssistantMessage.
LoadMessage(w) ==
    /\ WorkerGoes(w, "reguard", "ensure")
    /\ GuardPasses
    /\ local' = [local EXCEPT ![w].seen = msg.status, ![w].bound = TRUE]
    /\ UNCHANGED <<rowVars, draft, workerFrame>>

\* draftManager.ensure: a running message without a draft gets one.
EnsureDraft(w) ==
    /\ WorkerGoes(w, "ensure", "answering")
    /\ draft' = IF local[w].seen = "running" /\ draft = NoDraft
                  THEN msg.parts ELSE draft
    /\ UNCHANGED <<rowVars, local, workerFrame>>

\* updateRun(answering, assistantMessageId).
EnterAnswering(w) ==
    /\ worker[w] = "answering"
    /\ \/ LinkMessage /\ worker' = [worker EXCEPT ![w] = "agent"]
       \/ LinkThrows  /\ worker' = [worker EXCEPT ![w] = "catch"]
    /\ UNCHANGED <<msg, sysmsg, stepOpen, draft, local, workerFrame>>

-----------------------------------------------------------------------------
(* The agent runs: onEvent stores each event, at most MaxEvents of them.   *)

Emits(w, to) ==
    /\ local[w].emitted < MaxEvents
    /\ WorkerGoes(w, "agent", to)
    /\ local' = [local EXCEPT ![w].emitted = @ + 1, ![w].seen = msg.status]
    /\ UNCHANGED <<rowVars, draft, workerFrame>>

\* answer_delta: the guard is throttled and may not look at all.
EmitDelta(w) == Emits(w, "delta")

\* tool_start, thinking, answering: the guard is forced.
EmitStepStart(w) == GuardPasses /\ Emits(w, "openStep")

\* tool_result, tool_error, llm_response.
EmitStepEnd(w) == GuardPasses /\ stepOpen /\ Emits(w, "closeStep")

\* draftManager.appendTextDelta: ensure for a message read as running, then
\* the Lua script, which appends only to a draft that exists.
AppendDelta(w) ==
    /\ WorkerGoes(w, "delta", "agent")
    /\ draft' = IF local[w].seen = "running" \/ draft # NoDraft
                  THEN "partial" ELSE NoDraft
    /\ UNCHANGED <<rowVars, local, workerFrame>>

\* processStepProjector: createProcessStep(running), and its completion.
StoreStep(w) ==
    /\ \/ WorkerGoes(w, "openStep", "agent")  /\ stepOpen' = TRUE
       \/ WorkerGoes(w, "closeStep", "agent") /\ stepOpen' = FALSE
    /\ UNCHANGED <<run, msg, sysmsg, draft, local, workerFrame>>

\* agentService.run returns an answer ...
AgentReturns(w) == Decides(w, "agent", "settle")

\* ... or throws: the provider or a tool failed.
AgentThrows(w) == Decides(w, "agent", "catch")

-----------------------------------------------------------------------------
(* executeRun, the successful end.                                         *)

\* The guard after the agent; then setParts reads the message.
SettleAnswer(w) ==
    /\ WorkerGoes(w, "settle", "setText")
    /\ GuardPasses
    /\ local' = [local EXCEPT ![w].seen = msg.status]
    /\ UNCHANGED <<rowVars, draft, workerFrame>>

\* setParts: a running message keeps the answer in its draft; any other is
\* rewritten in place (updateMessageParts), which reads it once more.
SetAnswerText(w) ==
    /\ worker[w] = "setText"
    /\ IF local[w].seen = "running"
         THEN /\ draft' = "answer"
              /\ worker' = [worker EXCEPT ![w] = "closeSteps"]
              /\ UNCHANGED local
         ELSE /\ worker' = [worker EXCEPT ![w] = "rewrite"]
              /\ local' = [local EXCEPT ![w].seen = msg.status]
              /\ UNCHANGED draft
    /\ UNCHANGED <<rowVars, workerFrame>>

\* The write of updateMessageParts: the status it read, the new parts.
RewriteParts(w) ==
    /\ WorkerGoes(w, "rewrite", "closeSteps")
    /\ WriteMessage(local[w].seen, "answer")
    /\ UNCHANGED <<run, sysmsg, stepOpen, draft, local, workerFrame>>

\* Mutant: the success path does not finish the steps.
CloseFailedStepsOnly(w) ==
    /\ \/ WorkerGoes(w, "closeSteps", "completeCheck") /\ UNCHANGED stepOpen
       \/ WorkerGoes(w, "failSteps", "failText") /\ stepOpen' = FALSE
    /\ UNCHANGED <<run, msg, sysmsg, draft, local, workerFrame>>

\* completeRunning(succeeded) or, in the catch, completeRunning(failed).
CloseSteps(w) ==
    /\ \/ WorkerGoes(w, "closeSteps", "completeCheck")
       \/ WorkerGoes(w, "failSteps", "failText")
    /\ stepOpen' = FALSE
    /\ UNCHANGED <<run, msg, sysmsg, draft, local, workerFrame>>

\* updateMessage(completed): its read ...
CompleteCheck(w) ==
    Decides(w, "completeCheck",
            IF MayBecome("completed") THEN "completeWrite" ELSE "catch")

\* ... and its write.
CompleteWrite(w) ==
    /\ WorkerGoes(w, "completeWrite", "completeRun")
    /\ WriteMessage("completed", "answer")
    /\ UNCHANGED <<run, sysmsg, stepOpen, draft, local, workerFrame>>

\* updateRun(completed).
CompleteRun(w) ==
    /\ worker[w] = "completeRun"
    /\ \/ /\ EndRun("completed")
          /\ worker' = [worker EXCEPT ![w] = "finally"]
       \/ /\ EndRunThrows("completed")
          /\ worker' = [worker EXCEPT ![w] = "catch"]
    /\ UNCHANGED <<msg, sysmsg, stepOpen, draft, local, workerFrame>>

-----------------------------------------------------------------------------
(* executeRun, the catch and the finally.                                  *)

\* Mutant: only the run is told of the failure.
CatchRunOnly(w) ==
    Decides(w, "catch",
            IF run.status = "cancelled" THEN "finally" ELSE "failRun")

\* Mutant: every error is taken for an abort.
CatchAborts(w) == Decides(w, "catch", "finally")

\* A cancelled run needs nothing more; otherwise the failure is recorded.
Catch(w) ==
    \/ /\ run.status = "cancelled"
       /\ Decides(w, "catch", "finally")
    \/ /\ run.status # "cancelled"
       /\ Decides(w, "catch",
                  IF local[w].bound THEN "failSteps" ELSE "failRun")

\* withAssistantText reads the message and may make a draft for it again.
FailText(w) ==
    /\ WorkerGoes(w, "failText", "failCheck")
    /\ draft' = IF msg.status = "running" /\ draft = NoDraft
                  THEN msg.parts ELSE draft
    /\ UNCHANGED <<rowVars, local, workerFrame>>

\* updateMessage(failed): if its check throws, executeRun throws ...
FailCheck(w) ==
    Decides(w, "failCheck",
            IF MayBecome("failed") THEN "failWrite" ELSE "finally")

\* ... and its write.
FailWrite(w) ==
    /\ WorkerGoes(w, "failWrite", "failRun")
    /\ WriteMessage("failed", "failure")
    /\ UNCHANGED <<run, sysmsg, stepOpen, draft, local, workerFrame>>

\* updateRun(failed); whether or not it throws, the finally comes next.
FailRun(w) ==
    /\ WorkerGoes(w, "failRun", "finally")
    /\ EndRun("failed") \/ EndRunThrows("failed")
    /\ UNCHANGED <<msg, sysmsg, stepOpen, draft, local, workerFrame>>

\* Mutant: the draft is left to its TTL.
FinallyKeepsDraft(w) == Decides(w, "finally", "release")

\* The draft is removed if executeRun had got as far as the message.
Finally(w) ==
    /\ WorkerGoes(w, "finally", "release")
    /\ draft' = IF local[w].bound THEN NoDraft ELSE draft
    /\ UNCHANGED <<rowVars, local, workerFrame>>

HandleJob(w) ==
    \/ CheckQueuedRun(w) \/ AcquireLock(w) \/ ReleaseLock(w)
    \/ GuardAborts(w) \/ GuardCancels(w) \/ CancelledItself(w)
    \/ EnterRefresh(w) \/ SkipRefresh(w) \/ CreateSystemMessage(w)
    \/ LinkSystemMessage(w) \/ SummaryArrives(w) \/ SummaryFails(w)
    \/ CheckSystemMessage(w) \/ WriteSystemMessage(w)
    \/ LoadMessage(w) \/ EnsureDraft(w) \/ EnterAnswering(w)
    \/ EmitDelta(w) \/ EmitStepStart(w) \/ EmitStepEnd(w)
    \/ AppendDelta(w) \/ StoreStep(w) \/ AgentReturns(w) \/ AgentThrows(w)
    \/ SettleAnswer(w) \/ SetAnswerText(w) \/ RewriteParts(w)
    \/ CloseSteps(w) \/ CompleteCheck(w) \/ CompleteWrite(w) \/ CompleteRun(w)
    \/ Catch(w) \/ FailText(w) \/ FailCheck(w) \/ FailWrite(w)
    \/ FailRun(w) \/ Finally(w)
    \/ Acknowledge(w)

-----------------------------------------------------------------------------
(* Restart of the API: cleanupStaleRunningExecutions.                      *)

\* The API process dies, with every request inside it.
ApiCrash ==
    /\ crashes.api < MaxApiCrashes
    /\ api # "down"
    /\ api' = "down"
    /\ crashes' = [crashes EXCEPT !.api = @ + 1]
    /\ starter' = IF starter \in {"returned", "raised"}
                    THEN starter ELSE "killed"
    /\ cleaner' = "idle"
    /\ cancel' = [c \in Cancellers |->
                    IF c \in Requests /\ cancel[c] # "idle"
                      THEN "done" ELSE cancel[c]]
    /\ UNCHANGED <<rowVars, draft, cancelFlag, job, lockVars, found, held,
                   worker, local>>

\* It is started again and runs the cleanup before it takes requests.
ApiRestart ==
    /\ api = "down"
    /\ api' = "booting"
    /\ cleaner' = "scan"
    /\ UNCHANGED <<rowVars, draft, found, cleanerFrame>>

\* getAllRunningRuns: no run is active in the new process, so every running
\* run is taken for a leftover.
CleanupScan ==
    /\ cleaner = "scan"
    /\ IF run.status = "running"
         THEN /\ cleaner' = "system"
              /\ found' = [linked |-> run.linked, sysLinked |-> run.sysLinked]
              /\ UNCHANGED api
         ELSE /\ cleaner' = "idle"
              /\ api' = "up"
              /\ UNCHANGED found
    /\ UNCHANGED <<rowVars, draft, cleanerFrame>>

\* failInterruptedRun takes the system message first, then the assistant's.
CleanupReadSystem ==
    /\ cleaner = "system"
    /\ cleaner' = IF found.sysLinked /\ sysmsg = "running"
                    THEN "sysCheck" ELSE "message"
    /\ UNCHANGED <<rowVars, draft, api, found, cleanerFrame>>

CleanupCheckSystem ==
    /\ cleaner = "sysCheck"
    /\ IF ValidTransition(sysmsg, "failed")
         THEN cleaner' = "sysWrite" /\ UNCHANGED api
         ELSE cleaner' = "idle" /\ api' = "down"
    /\ UNCHANGED <<rowVars, draft, found, cleanerFrame>>

CleanupWriteSystem ==
    /\ cleaner = "sysWrite"
    /\ cleaner' = "message"
    /\ sysmsg' = "failed"
    /\ UNCHANGED <<run, msg, stepOpen, draft, api, found, cleanerFrame>>

\* Mutant: only the run is marked failed.
CleanupRunOnly ==
    /\ cleaner = "message"
    /\ cleaner' = "run"
    /\ UNCHANGED <<rowVars, draft, api, found, cleanerFrame>>

\* completeRunning(failed) runs along with failInterruptedMessage.
CleanupReadMessage ==
    /\ cleaner = "message"
    /\ IF found.linked /\ msg.status = "running"
         THEN cleaner' = "check" /\ stepOpen' = FALSE
         ELSE cleaner' = "run" /\ UNCHANGED stepOpen
    /\ UNCHANGED <<run, msg, sysmsg, draft, api, found, cleanerFrame>>

\* failInterruptedMessage: updateMessage(failed); if it throws, the boot fails.
CleanupCheckMessage ==
    /\ cleaner = "check"
    /\ IF MayBecome("failed")
         THEN cleaner' = "write" /\ UNCHANGED api
         ELSE cleaner' = "idle" /\ api' = "down"
    /\ UNCHANGED <<rowVars, draft, found, cleanerFrame>>

CleanupWriteMessage ==
    /\ cleaner = "write"
    /\ cleaner' = "undraft"
    /\ WriteMessage("failed", "interrupted")
    /\ UNCHANGED <<run, sysmsg, stepOpen, draft, api, found, cleanerFrame>>

\* draftManager.remove, best effort.
CleanupRemoveDraft ==
    /\ cleaner = "undraft"
    /\ cleaner' = "run"
    /\ draft' = NoDraft
    /\ UNCHANGED <<rowVars, api, found, cleanerFrame>>

\* updateRun(failed), last; if it throws, the boot fails.
CleanupEndRun ==
    /\ cleaner = "run"
    /\ cleaner' = "idle"
    /\ \/ EndRun("failed")       /\ api' = "up"
       \/ EndRunThrows("failed") /\ api' = "down"
    /\ UNCHANGED <<msg, sysmsg, stepOpen, draft, found, cleanerFrame>>

Cleanup ==
    \/ CleanupScan
    \/ CleanupReadSystem \/ CleanupCheckSystem \/ CleanupWriteSystem
    \/ CleanupReadMessage \/ CleanupCheckMessage
    \/ CleanupWriteMessage \/ CleanupRemoveDraft \/ CleanupEndRun

-----------------------------------------------------------------------------
(* What else happens to Workers and to Redis.                              *)

\* The Worker process dies and is started again; its lock stays in Redis and
\* its job stays active in BullMQ.
WorkerCrash(w) ==
    /\ crashes.worker < MaxWorkerCrashes
    /\ worker[w] # "idle"
    /\ crashes' = [crashes EXCEPT !.worker = @ + 1]
    /\ worker' = [worker EXCEPT ![w] = "idle"]
    /\ local' = [local EXCEPT ![w] = FreshLocal]
    /\ cancel' = [cancel EXCEPT ![w] = "idle"]
    /\ held' = [held EXCEPT ![w] = NothingHeld]
    /\ \/ Lock!LockCrash(w)
       \/ lease[w] = Lock!NoToken /\ UNCHANGED lockVars
    /\ UNCHANGED <<rowVars, draft, cancelFlag, job, apiVars>>

\* The TTL of the run lock elapses.
LockExpires ==
    /\ Cardinality(expired) < MaxExpiries
    /\ Lock!Expire
    /\ UNCHANGED <<rowVars, draft, cancelFlag, job, apiVars, cancel, held,
                   worker, local, crashes>>

\* Nothing is left to do: startRun is through, the queue is empty, every
\* handler is idle.  The system then waits for the next run.
Quiescent ==
    /\ starter \in {"returned", "raised", "killed"}
    /\ api = "up"
    /\ job.state \in {"none", "gone"}
    /\ \A w \in Workers : worker[w] = "idle"
    /\ \A c \in Requests : cancel[c] \in {"idle", "done", "threw"}

Rest == Quiescent /\ UNCHANGED vars

Next ==
    \/ StartRun
    \/ \E c \in Requests : RequestCancel(c)
    \/ \E c \in Cancellers : CancelRun(c)
    \/ \E w \in Workers : Deliver(w)
    \/ Stall
    \/ \E w \in Workers : HandleJob(w)
    \/ ApiCrash
    \/ ApiRestart
    \/ Cleanup
    \/ \E w \in Workers : WorkerCrash(w)
    \/ LockExpires
    \/ Rest

Spec == Init /\ [][Next]_vars

\* The owner of the job is dead or does not know of it any more.
StallOfLostJob ==
    /\ \E w \in Workers : job.owner = w /\ worker[w] = "idle"
    /\ Stall

\* Every process of the system goes on as long as it is not killed: a promise
\* is settled in the end (the agent has maxIterations, the provider and the
\* tools have timeouts), BullMQ delivers what is waiting and notices a job
\* whose owner is gone, a dead API is started again, a TTL elapses.
FairSpec ==
    /\ Spec
    /\ WF_vars(StartRun)
    /\ \A c \in Cancellers : WF_vars(CancelRun(c))
    /\ WF_vars(\E w \in Workers : Deliver(w))
    /\ WF_vars(StallOfLostJob)
    /\ \A w \in Workers : WF_vars(HandleJob(w))
    /\ WF_vars(ApiRestart)
    /\ WF_vars(Cleanup)
    /\ WF_vars(LockExpires)

-----------------------------------------------------------------------------
(* What the system promises, and where it does not keep its promise.       *)

\* The handler w is inside executeRun.
Executing(w) ==
    \/ worker[w] \in ExecuteRunPC
    \/ worker[w] = "cancelling" /\ lease[w] # Lock!NoToken

(***************************************************************************)
(* However often BullMQ delivers the job, and whoever dies, two handlers   *)
(* are inside executeRun at the same time only after a TTL has elapsed     *)
(* (executeQueuedRun: "only one executor at a time").                      *)
(***************************************************************************)
OneExecutor ==
    expired = {} => \A v, w \in Workers : Executing(v) /\ Executing(w) => v = w

(***************************************************************************)
(* "The run is the outermost state, it is updated last": whoever decides   *)
(* the run - executor, canceller, cleanup - its assistant message, once    *)
(* the run knows it, is decided before.  A reader who sees a run that is   *)
(* over never finds its message still running.                             *)
(***************************************************************************)
LinkedMessageFirst == IsOver /\ run.linked => msg.status \in Terminal

(***************************************************************************)
(* A progress step does not outlive its answer: as long as no TTL elapsed, *)
(* a completed run has no step that still runs, whatever a second delivery *)
(* of the job or a canceller did meanwhile (completeRunning).              *)
(***************************************************************************)
CompletedRunHasNoOpenStep ==
    expired = {} /\ run.status = "completed" => ~stepOpen

(***************************************************************************)
(* The draft does not outlive the run: when everybody is through and no    *)
(* process has died, the Redis draft of a decided run that was queued is   *)
(* gone, although EnsureDraft and a late delta can make it again after a   *)
(* canceller removed it.                                                   *)
(***************************************************************************)
NoCrash == crashes.worker = 0 /\ crashes.api = 0

DraftIsGone ==
    Quiescent /\ IsOver /\ starter = "returned" /\ NoCrash => draft = NoDraft

(***************************************************************************)
(* Nobody walks away from a run: one that was queued and still runs waits  *)
(* in the queue, or a handler has it and has not given it up, or a         *)
(* canceller is at it, as long as no process died and no TTL elapsed.  A   *)
(* second delivery returns when the lock is taken, a guard aborts, the     *)
(* catch gives up when the message is decided, and a cancelRun throws,     *)
(* each because somebody else will decide the run.                         *)
(***************************************************************************)
RunIsAttended ==
    run.status = "running" /\ starter = "returned" /\ NoCrash /\ expired = {} =>
        \/ job.state = "waiting"
        \/ \E w \in Workers : worker[w] \notin {"idle", "finally", "release", "ack"}
        \/ \E c \in Cancellers : cancel[c] \notin {"idle", "done", "threw"}

(***************************************************************************)
(* A run that was queued, that nobody cancelled and no cleanup touched:    *)
(* as long as no TTL elapsed, run and message tell the same story as soon  *)
(* as the run is decided, both completed, with the whole answer, or both   *)
(* failed, whatever a second delivery of the job or a dead Worker does.    *)
(***************************************************************************)
OutcomesAgree ==
    IsOver /\ starter = "returned" /\ ~cancelFlag /\ crashes.api = 0
        /\ expired = {} =>
        /\ msg.status = run.status
        /\ run.status = "completed" => msg.parts = "answer"

(***************************************************************************)
(* The run row, seen alone, behaves as RunRecord says: whatever two        *)
(* executors, a canceller and the cleanup do to it, its outcome is decided *)
(* once (the row lock of updateRun).                                       *)
(***************************************************************************)
Record == INSTANCE RunRecord WITH status <- run.status, phase <- run.phase

RunImplementsRecord == Record!Spec

(***************************************************************************)
(* Every run is decided in the end, however its processes interleave.      *)
(***************************************************************************)
RunDecided == Record!Decided

(***************************************************************************)
(* "A terminal status, once written, is not taken back" (the message       *)
(* status machine of agent-store.ts).                                      *)
(***************************************************************************)
MessageOutcomeIsFinal ==
    [][msg.status \in Terminal => msg'.status = msg.status]_vars
==============================================================================
