------------------------- MODULE RunExecution_proofs -------------------------
(***************************************************************************)
(* Proofs about RunExecution, for any number of workers, requests, leases, *)
(* events, crashes and stalls: type correctness, how the run row behaves,  *)
(* how the lock is used, and that one handler at a time executes the run.  *)
(***************************************************************************)
EXTENDS RunExecution, TLAPS

LockProofs == INSTANCE RunLock_proofs WITH Holders <- Workers

-----------------------------------------------------------------------------
(* Types.                                                                  *)


\* What a handler keeps of an event it stores.
LEMMA EmitsType ==
    ASSUME TypeOK, NEW w \in Workers, NEW to, Emits(w, to)
    PROVE  local' \in [Workers -> LocalRow]
<1>1. local[w].emitted + 1 \in 0..MaxEvents
  BY RunExecutionAssumption DEF TypeOK, LocalRow, Emits
<1>2. msg.status \in Status \cup {Absent}
  BY DEF TypeOK, MessageRow
<1> DEFINE r == [local[w] EXCEPT !.emitted = local[w].emitted + 1,
                                 !.seen = msg.status]
<1>3. r \in LocalRow
  BY <1>1, <1>2 DEF TypeOK, LocalRow
<1>4. local' = [local EXCEPT ![w] = r]
  BY DEF Emits
<1> QED
  BY <1>3, <1>4 DEF TypeOK

\* What a call of cancelRun keeps of the run it has read.
LEMMA CancelReadsType ==
    ASSUME TypeOK, NEW c \in Cancellers, CancelReadsRun(c)
    PROVE  held' \in [Cancellers -> HeldRow]
<1>1. run.linked \in BOOLEAN /\ run.sysLinked \in BOOLEAN
  BY DEF TypeOK, RunRow
<1>2. [held[c] EXCEPT !.linked = run.linked, !.sysLinked = run.sysLinked]
        \in HeldRow
  BY <1>1 DEF TypeOK, HeldRow
<1> QED
  BY <1>2 DEF CancelReadsRun, TypeOK

\* The first state.
LEMMA InitType == Init => TypeOK
<1> SUFFICES ASSUME Init PROVE TypeOK
  OBVIOUS
<1>1. run \in RunRow
  BY RunExecutionAssumption DEF Init, RunRow, RunPhase, Status, Terminal,
     Absent
<1>2. msg \in MessageRow
  BY RunExecutionAssumption DEF Init, MessageRow, LocalRow, HeldRow,
     Parts, Status, Terminal, Absent
<1>3. sysmsg \in Status \cup {Absent}
  BY RunExecutionAssumption DEF Init, Status, Terminal, Absent
<1>4. stepOpen \in BOOLEAN
  BY RunExecutionAssumption DEF Init
<1>5. draft \in Parts \cup {NoDraft}
  BY RunExecutionAssumption DEF Init, Parts, NoDraft, MessageRow
<1>6. cancelFlag \in BOOLEAN
  BY RunExecutionAssumption DEF Init
<1>7. job \in JobRow
  BY RunExecutionAssumption DEF Init, JobRow, JobState, Nobody
<1>8. Lock!LockTypeOK
  BY RunExecutionAssumption DEF Init, Lock!LockInit, Lock!LockTypeOK, Lock!Token,
     Lock!NoToken, Lock!lockVars, lockVars
<1>9. api \in {"up", "down", "booting"}
  BY RunExecutionAssumption DEF Init
<1>10. starter \in StarterPC
  BY RunExecutionAssumption DEF Init, StarterPC
<1>11. cleaner \in CleanerPC
  BY RunExecutionAssumption DEF Init, CleanerPC
<1>12. found \in [linked : BOOLEAN, sysLinked : BOOLEAN]
  BY RunExecutionAssumption DEF Init, RunRow
<1>13. cancel \in [Cancellers -> CancelPC]
  BY RunExecutionAssumption DEF Init, CancelPC, Cancellers
<1>14. held \in [Cancellers -> HeldRow]
  BY RunExecutionAssumption DEF Init, NothingHeld, HeldRow, RunRow,
     MessageRow, Parts, NoDraft, Cancellers
<1>15. worker \in [Workers -> WorkerPC]
  BY RunExecutionAssumption DEF Init, WorkerPC, ExecuteRunPC
<1>16. local \in [Workers -> LocalRow]
  BY RunExecutionAssumption DEF Init, FreshLocal, LocalRow, MessageRow,
     Status, Terminal, Absent
<1>17. crashes \in [worker : 0..MaxWorkerCrashes, api : 0..MaxApiCrashes]
  BY RunExecutionAssumption DEF Init
<1> QED
  BY <1>1, <1>2, <1>3, <1>4, <1>5, <1>6, <1>7, <1>8, <1>9, <1>10, <1>11,
     <1>12, <1>13, <1>14, <1>15, <1>16, <1>17 DEF TypeOK

\* Every step.
LEMMA NextType == TypeOK /\ [Next]_vars => TypeOK'
<1> SUFFICES ASSUME TypeOK, [Next]_vars PROVE TypeOK'
  OBVIOUS
<1> USE RunExecutionAssumption
<1>1. CASE StartRun
  <2>1. CASE StartCreateRun
    BY <2>1 DEF StartCreateRun, StarterGoes, starterFrame, lockVars,
       TypeOK, Lock!LockTypeOK, RunRow, RunPhase, Status, Terminal, Absent,
       StarterPC
  <2>2. CASE StartCreateMessage
    BY <2>2 DEF StartCreateMessage, StarterGoes, WriteMessage,
       starterFrame, lockVars, TypeOK, Lock!LockTypeOK, MessageRow,
       LocalRow, HeldRow, Parts, Status, Terminal, Absent, StarterPC
  <2>3. CASE StartInitDraft
    BY <2>3 DEF StartInitDraft, StarterGoes, rowVars, starterFrame,
       lockVars, TypeOK, Lock!LockTypeOK, Parts, NoDraft, MessageRow,
       StarterPC
  <2>4. CASE StartLink
    <3>1. run' \in RunRow
      BY <2>4 DEF StartLink, LinkMessage, CanUpdateRun,
         ValidTransition, PhaseMatchesStatus, LinkThrows, TypeOK,
         RunRow, RunPhase, Status, Terminal, Absent
    <3>2. starter' \in StarterPC
      BY <2>4 DEF StartLink, LinkMessage, CanUpdateRun,
         ValidTransition, PhaseMatchesStatus, LinkThrows, TypeOK,
         StarterPC
    <3> QED
      BY <2>4, <3>1, <3>2 DEF StartLink, LinkMessage, CanUpdateRun,
         ValidTransition, PhaseMatchesStatus, LinkThrows,
         starterFrame, lockVars, TypeOK, Lock!LockTypeOK
  <2>5. CASE StartEnqueue
    BY <2>5 DEF StartEnqueue, StarterGoes, rowVars, starterFrame,
       lockVars, TypeOK, Lock!LockTypeOK, JobRow, JobState, Nobody,
       StarterPC
  <2>6. CASE StartRedisFails
    BY <2>6 DEF StartRedisFails, rowVars, starterFrame, lockVars,
       TypeOK, Lock!LockTypeOK, JobRow, JobState, Nobody, StarterPC
  <2>7. CASE StartFailCheck
    BY <2>7 DEF StartFailCheck, MayBecome, ValidTransition, rowVars,
       starterFrame, lockVars, TypeOK, Lock!LockTypeOK, StarterPC
  <2>8. CASE StartFailWrite
    BY <2>8 DEF StartFailWrite, StarterGoes, WriteMessage, starterFrame,
       lockVars, TypeOK, Lock!LockTypeOK, MessageRow, LocalRow, HeldRow,
       Parts, Status, Terminal, Absent, StarterPC
  <2>9. CASE StartFailRun
    <3>1. run' \in RunRow
      BY <2>9 DEF StartFailRun, CanUpdateRun, ValidTransition,
         PhaseMatchesStatus, EndRunThrows, TypeOK, RunRow, RunPhase,
         Status, Terminal, Absent
    <3>2. starter' \in StarterPC
      BY <2>9 DEF StartFailRun, CanUpdateRun, ValidTransition,
         PhaseMatchesStatus, EndRunThrows, TypeOK, StarterPC
    <3> QED
      BY <2>9, <3>1, <3>2 DEF StartFailRun, CanUpdateRun,
         ValidTransition, PhaseMatchesStatus, EndRunThrows,
         starterFrame, lockVars, TypeOK, Lock!LockTypeOK
  <2>10. CASE StartFailDraft
    BY <2>10 DEF StartFailDraft, StarterGoes, NoDraft, rowVars,
       starterFrame, lockVars, TypeOK, Lock!LockTypeOK, Parts, MessageRow,
       StarterPC
  <2> QED
    BY <1>1, <2>1, <2>2, <2>3, <2>4, <2>5, <2>6, <2>7, <2>8, <2>9, <2>10
       DEF StartRun
<1>2. ASSUME NEW c \in Requests, RequestCancel(c) PROVE TypeOK'
  <2>1. cancel' \in [Cancellers -> CancelPC]
    BY <1>2 DEF RequestCancel, Absent, CancelReadsRun, TypeOK, CancelPC,
       Cancellers
  <2>2. held' \in [Cancellers -> HeldRow]
    BY <1>2, CancelReadsType DEF RequestCancel, Cancellers
  <2> QED
    BY <1>2, <2>1, <2>2 DEF RequestCancel, Absent, CancelReadsRun,
       rowVars, cancelFrame, lockVars, apiVars, TypeOK, Lock!LockTypeOK
<1>3. ASSUME NEW c \in Cancellers, CancelRun(c) PROVE TypeOK'
  <2>1. CASE CancelSetFlag(c)
    BY <2>1 DEF CancelSetFlag, CancelGoes, rowVars, cancelFrame,
       lockVars, apiVars, TypeOK, Lock!LockTypeOK, CancelPC, Cancellers
  <2>2. CASE CancelReadSystem(c)
    BY <2>2 DEF CancelReadSystem, CancelDecides, CancelGoes, rowVars,
       cancelFrame, lockVars, apiVars, TypeOK, Lock!LockTypeOK, CancelPC,
       Cancellers
  <2>3. CASE CancelCheckSystem(c)
    BY <2>3 DEF CancelCheckSystem, CancelDecides, CancelGoes, rowVars,
       cancelFrame, lockVars, apiVars, ValidTransition, TypeOK,
       Lock!LockTypeOK, CancelPC, Cancellers
  <2>4. CASE CancelWriteSystem(c)
    BY <2>4 DEF CancelWriteSystem, CancelGoes, cancelFrame, lockVars,
       apiVars, TypeOK, Lock!LockTypeOK, Status, Terminal, Absent, CancelPC,
       Cancellers
  <2>5. CASE CancelReadMessage(c)
    <3>1. cancel' \in [Cancellers -> CancelPC]
      BY <2>5 DEF CancelReadMessage, TypeOK, CancelPC, Cancellers
    <3>2. held' \in [Cancellers -> HeldRow]
      BY <2>5 DEF CancelReadMessage, TypeOK, HeldRow, RunRow,
         MessageRow, Parts, NoDraft, Cancellers
    <3> QED
      BY <2>5, <3>1, <3>2 DEF CancelReadMessage, rowVars, cancelFrame,
         lockVars, apiVars, TypeOK, Lock!LockTypeOK
  <2>6. CASE CancelReadDraft(c)
    BY <2>6 DEF CancelReadDraft, CancelGoes, NoDraft, rowVars,
       cancelFrame, lockVars, apiVars, TypeOK, Lock!LockTypeOK, CancelPC,
       Cancellers, HeldRow, RunRow, MessageRow, Parts
  <2>7. CASE CancelCloseSteps(c)
    <3>1. stepOpen' \in BOOLEAN
      BY <2>7 DEF CancelCloseSteps, CancelGoes, TypeOK
    <3>2. cancel' \in [Cancellers -> CancelPC]
      BY <2>7 DEF CancelCloseSteps, CancelGoes, TypeOK, CancelPC,
         Cancellers
    <3> QED
      BY <2>7, <3>1, <3>2 DEF CancelCloseSteps, CancelGoes,
         cancelFrame, lockVars, apiVars, TypeOK, Lock!LockTypeOK
  <2>8. CASE CancelCheckMessage(c)
    BY <2>8 DEF CancelCheckMessage, CancelDecides, CancelGoes, rowVars,
       cancelFrame, lockVars, apiVars, MayBecome, ValidTransition,
       TypeOK, Lock!LockTypeOK, CancelPC, Cancellers
  <2>9. CASE CancelWriteMessage(c)
    BY <2>9 DEF CancelWriteMessage, CancelGoes, WriteMessage,
       cancelFrame, lockVars, apiVars, TypeOK, Lock!LockTypeOK, MessageRow,
       LocalRow, HeldRow, Parts, Status, Terminal, Absent, CancelPC,
       Cancellers
  <2>10. CASE CancelRemoveDraft(c)
    BY <2>10 DEF CancelRemoveDraft, CancelGoes, NoDraft, rowVars,
       cancelFrame, lockVars, apiVars, TypeOK, Lock!LockTypeOK, Parts,
       MessageRow, CancelPC, Cancellers
  <2>11. CASE CancelEndRun(c)
    <3>1. run' \in RunRow
      BY <2>11 DEF CancelEndRun, EndRun, CanUpdateRun,
         ValidTransition, PhaseMatchesStatus, EndRunThrows, TypeOK,
         RunRow, RunPhase, Status, Terminal, Absent
    <3>2. cancel' \in [Cancellers -> CancelPC]
      BY <2>11 DEF CancelEndRun, EndRun, CanUpdateRun,
         ValidTransition, PhaseMatchesStatus, EndRunThrows, TypeOK,
         CancelPC, Cancellers
    <3> QED
      BY <2>11, <3>1, <3>2 DEF CancelEndRun, EndRun, CanUpdateRun,
         ValidTransition, PhaseMatchesStatus, EndRunThrows,
         cancelFrame, lockVars, apiVars, TypeOK, Lock!LockTypeOK
  <2> QED
    BY <1>3, <2>1, <2>2, <2>3, <2>4, <2>5, <2>6, <2>7, <2>8, <2>9,
       <2>10, <2>11 DEF CancelRun
<1>4. ASSUME NEW w \in Workers, Deliver(w) PROVE TypeOK'
  <2>1. job' \in JobRow
    BY <1>4 DEF Deliver, WorkerGoes, TypeOK, JobRow, JobState, Nobody
  <2>2. worker' \in [Workers -> WorkerPC]
    BY <1>4 DEF Deliver, WorkerGoes, TypeOK, WorkerPC, ExecuteRunPC
  <2> QED
    BY <1>4, <2>1, <2>2 DEF Deliver, WorkerGoes, rowVars, queueFrame,
       lockVars, apiVars, TypeOK, Lock!LockTypeOK
<1>5. CASE Stall
  <2>1. job' \in JobRow
    <3>1. job.stalls \in Nat /\ (MayRetry => job.stalls + 1 \in 0..MaxStalls)
      BY DEF TypeOK, JobRow, MayRetry
    <3>2. CASE MayRetry
      <4>1. job' = [state |-> "waiting", owner |-> Nobody,
                  stalls |-> job.stalls + 1]
        BY <1>5, <3>2 DEF Stall
      <4> QED
        BY <3>1, <3>2, <4>1 DEF JobRow, JobState
    <3>3. CASE ~MayRetry
      BY <1>5, <3>3 DEF Stall, TypeOK, JobRow, JobState
    <3> QED
      BY <3>2, <3>3
  <2> QED
    BY <1>5, <2>1 DEF Stall, MayRetry, Nobody, rowVars, queueFrame,
       lockVars, apiVars, TypeOK, Lock!LockTypeOK
<1>6. ASSUME NEW w \in Workers, HandleJob(w) PROVE TypeOK'
  <2>1. CASE CheckQueuedRun(w)
    <3>1. cancel' \in [Cancellers -> CancelPC]
      BY <2>1 DEF CheckQueuedRun, CancelReadsRun, TypeOK, CancelPC,
         Cancellers
    <3>2. held' \in [Cancellers -> HeldRow]
      BY <2>1, CancelReadsType DEF CheckQueuedRun, TypeOK, Cancellers
    <3>3. worker' \in [Workers -> WorkerPC]
      BY <2>1 DEF CheckQueuedRun, CancelReadsRun, TypeOK, WorkerPC,
         ExecuteRunPC
    <3> QED
      BY <2>1, <3>1, <3>2, <3>3 DEF CheckQueuedRun, CancelReadsRun,
         rowVars, lockVars, apiVars, TypeOK, Lock!LockTypeOK
  <2>2. CASE AcquireLock(w)
    <3>1. Lock!LockTypeOK'
      <4>1. CASE Lock!Acquire(w)
        BY <4>1 DEF Lock!Acquire, TypeOK, Lock!LockTypeOK, Lock!Token,
           Lock!NoToken
      <4>2. CASE UNCHANGED lockVars
        BY <4>2 DEF lockVars, TypeOK, Lock!LockTypeOK
      <4> QED
        BY <2>2, <4>1, <4>2 DEF AcquireLock
    <3>2. worker' \in [Workers -> WorkerPC]
      BY <2>2 DEF AcquireLock, Lock!Acquire, Lock!NoToken, TypeOK,
         WorkerPC, ExecuteRunPC
    <3> QED
      BY <2>2, <3>1, <3>2 DEF AcquireLock, Lock!Acquire, Lock!NoToken,
         lockVars, rowVars, apiVars, TypeOK
  <2>3. CASE ReleaseLock(w)
    BY <2>3 DEF ReleaseLock, WorkerGoes, Lock!Release, Lock!NoToken,
       Lock!KeyAfterRelease, rowVars, apiVars, TypeOK, Lock!LockTypeOK,
       Lock!Token, Lock!lockVars, lockVars, WorkerPC, ExecuteRunPC
  <2>4. CASE GuardAborts(w)
    BY <2>4 DEF GuardAborts, GuardPoints, Decides, WorkerGoes, rowVars,
       workerFrame, lockVars, apiVars, TypeOK, Lock!LockTypeOK, WorkerPC,
       ExecuteRunPC
  <2>5. CASE GuardCancels(w)
    <3>1. cancel' \in [Cancellers -> CancelPC]
      BY <2>5 DEF GuardCancels, GuardPoints, CancelReadsRun, TypeOK,
         CancelPC, Cancellers
    <3>2. held' \in [Cancellers -> HeldRow]
      BY <2>5, CancelReadsType DEF GuardCancels, TypeOK, Cancellers
    <3>3. worker' \in [Workers -> WorkerPC]
      BY <2>5 DEF GuardCancels, GuardPoints, CancelReadsRun, TypeOK,
         WorkerPC, ExecuteRunPC
    <3> QED
      BY <2>5, <3>1, <3>2, <3>3 DEF GuardCancels, GuardPoints,
         CancelReadsRun, rowVars, lockVars, apiVars, TypeOK,
         Lock!LockTypeOK
  <2>6. CASE CancelledItself(w)
    BY <2>6 DEF CancelledItself, Lock!NoToken, NothingHeld, rowVars,
       lockVars, apiVars, TypeOK, Lock!LockTypeOK, CancelPC, Cancellers,
       HeldRow, RunRow, MessageRow, Parts, NoDraft, WorkerPC,
       ExecuteRunPC
  <2>7. CASE EnterRefresh(w)
    BY <2>7 DEF EnterRefresh, GuardPasses, Decides, WorkerGoes, rowVars,
       workerFrame, lockVars, apiVars, TypeOK, Lock!LockTypeOK, WorkerPC,
       ExecuteRunPC
  <2>8. CASE SkipRefresh(w)
    BY <2>8 DEF SkipRefresh, Decides, WorkerGoes, rowVars, workerFrame,
       lockVars, apiVars, TypeOK, Lock!LockTypeOK, WorkerPC, ExecuteRunPC
  <2>9. CASE CreateSystemMessage(w)
    BY <2>9 DEF CreateSystemMessage, Absent, WorkerGoes, workerFrame,
       lockVars, apiVars, TypeOK, Lock!LockTypeOK, Status, Terminal,
       WorkerPC, ExecuteRunPC
  <2>10. CASE LinkSystemMessage(w)
    <3>1. run' \in RunRow
      <4>1. CASE CanUpdateRun(run, run.status, "compressing")
        <5>1. run' = [run EXCEPT !.phase = "compressing", !.sysLinked = TRUE]
          BY <2>10, <4>1 DEF LinkSystemMessage
        <5> QED
          BY <5>1 DEF TypeOK, RunRow, RunPhase
      <4>2. CASE ~CanUpdateRun(run, run.status, "compressing")
        BY <2>10, <4>2 DEF LinkSystemMessage, TypeOK
      <4> QED
        BY <4>1, <4>2
    <3>2. worker' \in [Workers -> WorkerPC]
      BY <2>10 DEF LinkSystemMessage, CanUpdateRun, ValidTransition,
         PhaseMatchesStatus, TypeOK, WorkerPC, ExecuteRunPC
    <3> QED
      BY <2>10, <3>1, <3>2 DEF LinkSystemMessage, CanUpdateRun,
         ValidTransition, PhaseMatchesStatus, workerFrame, lockVars,
         apiVars, TypeOK, Lock!LockTypeOK
  <2>11. CASE SummaryArrives(w)
    BY <2>11 DEF SummaryArrives, IsOver, Terminal, Decides, WorkerGoes,
       rowVars, workerFrame, lockVars, apiVars, TypeOK, Lock!LockTypeOK,
       WorkerPC, ExecuteRunPC
  <2>12. CASE SummaryFails(w)
    BY <2>12 DEF SummaryFails, Decides, WorkerGoes, rowVars,
       workerFrame, lockVars, apiVars, RefreshCatch, TypeOK,
       Lock!LockTypeOK, WorkerPC, ExecuteRunPC
  <2>13. CASE CheckSystemMessage(w)
    BY <2>13 DEF CheckSystemMessage, Decides, WorkerGoes, rowVars,
       workerFrame, lockVars, apiVars, ValidTransition, RefreshCatch,
       TypeOK, Lock!LockTypeOK, WorkerPC, ExecuteRunPC
  <2>14. CASE WriteSystemMessage(w)
    <3>1. sysmsg' \in Status \cup {Absent}
      BY <2>14 DEF WriteSystemMessage, WorkerGoes, TypeOK, Status,
         Terminal, Absent
    <3>2. worker' \in [Workers -> WorkerPC]
      BY <2>14 DEF WriteSystemMessage, WorkerGoes, TypeOK, WorkerPC,
         ExecuteRunPC
    <3> QED
      BY <2>14, <3>1, <3>2 DEF WriteSystemMessage, WorkerGoes,
         workerFrame, lockVars, apiVars, TypeOK, Lock!LockTypeOK
  <2>15. CASE LoadMessage(w)
    <3>1. worker' \in [Workers -> WorkerPC]
      BY <2>15 DEF LoadMessage, WorkerGoes, GuardPasses, TypeOK,
         WorkerPC, ExecuteRunPC
    <3>2. local' \in [Workers -> LocalRow]
      <4>1. msg.status \in Status \cup {Absent}
        BY DEF TypeOK, MessageRow
      <4>2. [local[w] EXCEPT !.seen = msg.status, !.bound = TRUE] \in LocalRow
        BY <4>1 DEF TypeOK, LocalRow
      <4> QED
        BY <2>15, <4>2 DEF LoadMessage, TypeOK
    <3> QED
      BY <2>15, <3>1, <3>2 DEF LoadMessage, WorkerGoes, GuardPasses,
         rowVars, workerFrame, lockVars, apiVars, TypeOK, Lock!LockTypeOK
  <2>16. CASE EnsureDraft(w)
    BY <2>16 DEF EnsureDraft, WorkerGoes, NoDraft, rowVars, workerFrame,
       lockVars, apiVars, TypeOK, Lock!LockTypeOK, Parts, MessageRow,
       WorkerPC, ExecuteRunPC
  <2>17. CASE EnterAnswering(w)
    <3>1. run' \in RunRow
      BY <2>17 DEF EnterAnswering, LinkMessage, CanUpdateRun,
         ValidTransition, PhaseMatchesStatus, LinkThrows, TypeOK,
         RunRow, RunPhase, Status, Terminal, Absent
    <3>2. worker' \in [Workers -> WorkerPC]
      BY <2>17 DEF EnterAnswering, LinkMessage, CanUpdateRun,
         ValidTransition, PhaseMatchesStatus, LinkThrows, TypeOK,
         WorkerPC, ExecuteRunPC
    <3> QED
      BY <2>17, <3>1, <3>2 DEF EnterAnswering, LinkMessage,
         CanUpdateRun, ValidTransition, PhaseMatchesStatus,
         LinkThrows, workerFrame, lockVars, apiVars, TypeOK,
         Lock!LockTypeOK
  <2>18. CASE EmitDelta(w)
    <3>1. worker' \in [Workers -> WorkerPC]
      BY <2>18 DEF EmitDelta, Emits, WorkerGoes, TypeOK, WorkerPC,
         ExecuteRunPC
    <3>2. local' \in [Workers -> LocalRow]
      BY <2>18, EmitsType DEF EmitDelta
    <3> QED
      BY <2>18, <3>1, <3>2 DEF EmitDelta, Emits, WorkerGoes, rowVars,
         workerFrame, lockVars, apiVars, TypeOK, Lock!LockTypeOK
  <2>19. CASE EmitStepStart(w)
    <3>1. worker' \in [Workers -> WorkerPC]
      BY <2>19 DEF EmitStepStart, GuardPasses, Emits, WorkerGoes,
         TypeOK, WorkerPC, ExecuteRunPC
    <3>2. local' \in [Workers -> LocalRow]
      BY <2>19, EmitsType DEF EmitStepStart
    <3> QED
      BY <2>19, <3>1, <3>2 DEF EmitStepStart, GuardPasses, Emits,
         WorkerGoes, rowVars, workerFrame, lockVars, apiVars, TypeOK,
         Lock!LockTypeOK
  <2>20. CASE EmitStepEnd(w)
    <3>1. worker' \in [Workers -> WorkerPC]
      BY <2>20 DEF EmitStepEnd, GuardPasses, Emits, WorkerGoes,
         TypeOK, WorkerPC, ExecuteRunPC
    <3>2. local' \in [Workers -> LocalRow]
      BY <2>20, EmitsType DEF EmitStepEnd
    <3> QED
      BY <2>20, <3>1, <3>2 DEF EmitStepEnd, GuardPasses, Emits,
         WorkerGoes, rowVars, workerFrame, lockVars, apiVars, TypeOK,
         Lock!LockTypeOK
  <2>21. CASE AppendDelta(w)
    BY <2>21 DEF AppendDelta, WorkerGoes, NoDraft, rowVars, workerFrame,
       lockVars, apiVars, TypeOK, Lock!LockTypeOK, Parts, MessageRow,
       WorkerPC, ExecuteRunPC
  <2>22. CASE StoreStep(w)
    <3>1. stepOpen' \in BOOLEAN
      BY <2>22 DEF StoreStep, WorkerGoes, TypeOK
    <3>2. worker' \in [Workers -> WorkerPC]
      BY <2>22 DEF StoreStep, WorkerGoes, TypeOK, WorkerPC,
         ExecuteRunPC
    <3> QED
      BY <2>22, <3>1, <3>2 DEF StoreStep, WorkerGoes, workerFrame,
         lockVars, apiVars, TypeOK, Lock!LockTypeOK
  <2>23. CASE AgentReturns(w)
    BY <2>23 DEF AgentReturns, Decides, WorkerGoes, rowVars,
       workerFrame, lockVars, apiVars, TypeOK, Lock!LockTypeOK, WorkerPC,
       ExecuteRunPC
  <2>24. CASE AgentThrows(w)
    BY <2>24 DEF AgentThrows, Decides, WorkerGoes, rowVars, workerFrame,
       lockVars, apiVars, TypeOK, Lock!LockTypeOK, WorkerPC, ExecuteRunPC
  <2>25. CASE SettleAnswer(w)
    BY <2>25 DEF SettleAnswer, WorkerGoes, GuardPasses, rowVars,
       workerFrame, lockVars, apiVars, TypeOK, Lock!LockTypeOK, WorkerPC,
       ExecuteRunPC, LocalRow, MessageRow, Status, Terminal, Absent
  <2>26. CASE SetAnswerText(w)
    <3>1. draft' \in Parts \cup {NoDraft}
      BY <2>26 DEF SetAnswerText, TypeOK, Parts, NoDraft, MessageRow
    <3>2. worker' \in [Workers -> WorkerPC]
      BY <2>26 DEF SetAnswerText, TypeOK, WorkerPC, ExecuteRunPC
    <3>3. local' \in [Workers -> LocalRow]
      BY <2>26 DEF SetAnswerText, TypeOK, LocalRow, MessageRow,
         Status, Terminal, Absent
    <3> QED
      BY <2>26, <3>1, <3>2, <3>3 DEF SetAnswerText, rowVars,
         workerFrame, lockVars, apiVars, TypeOK, Lock!LockTypeOK
  <2>27. CASE RewriteParts(w)
    BY <2>27 DEF RewriteParts, WorkerGoes, WriteMessage, workerFrame,
       lockVars, apiVars, TypeOK, Lock!LockTypeOK, MessageRow, LocalRow,
       HeldRow, Parts, Status, Terminal, Absent, WorkerPC, ExecuteRunPC
  <2>28. CASE CloseSteps(w)
    <3>1. stepOpen' \in BOOLEAN
      BY <2>28 DEF CloseSteps, WorkerGoes, TypeOK
    <3>2. worker' \in [Workers -> WorkerPC]
      BY <2>28 DEF CloseSteps, WorkerGoes, TypeOK, WorkerPC,
         ExecuteRunPC
    <3> QED
      BY <2>28, <3>1, <3>2 DEF CloseSteps, WorkerGoes, workerFrame,
         lockVars, apiVars, TypeOK, Lock!LockTypeOK
  <2>29. CASE CompleteCheck(w)
    BY <2>29 DEF CompleteCheck, Decides, WorkerGoes, rowVars,
       workerFrame, lockVars, apiVars, MayBecome, ValidTransition,
       TypeOK, Lock!LockTypeOK, WorkerPC, ExecuteRunPC
  <2>30. CASE CompleteWrite(w)
    BY <2>30 DEF CompleteWrite, WorkerGoes, WriteMessage, workerFrame,
       lockVars, apiVars, TypeOK, Lock!LockTypeOK, MessageRow, LocalRow,
       HeldRow, Parts, Status, Terminal, Absent, WorkerPC, ExecuteRunPC
  <2>31. CASE CompleteRun(w)
    <3>1. run' \in RunRow
      BY <2>31 DEF CompleteRun, EndRun, CanUpdateRun, ValidTransition,
         PhaseMatchesStatus, EndRunThrows, TypeOK, RunRow, RunPhase,
         Status, Terminal, Absent
    <3>2. worker' \in [Workers -> WorkerPC]
      BY <2>31 DEF CompleteRun, EndRun, CanUpdateRun, ValidTransition,
         PhaseMatchesStatus, EndRunThrows, TypeOK, WorkerPC,
         ExecuteRunPC
    <3> QED
      BY <2>31, <3>1, <3>2 DEF CompleteRun, EndRun, CanUpdateRun,
         ValidTransition, PhaseMatchesStatus, EndRunThrows,
         workerFrame, lockVars, apiVars, TypeOK, Lock!LockTypeOK
  <2>32. CASE Catch(w)
    BY <2>32 DEF Catch, Decides, WorkerGoes, rowVars, workerFrame,
       lockVars, apiVars, TypeOK, Lock!LockTypeOK, WorkerPC, ExecuteRunPC
  <2>33. CASE FailText(w)
    BY <2>33 DEF FailText, WorkerGoes, NoDraft, rowVars, workerFrame,
       lockVars, apiVars, TypeOK, Lock!LockTypeOK, Parts, MessageRow,
       WorkerPC, ExecuteRunPC
  <2>34. CASE FailCheck(w)
    BY <2>34 DEF FailCheck, Decides, WorkerGoes, rowVars, workerFrame,
       lockVars, apiVars, MayBecome, ValidTransition, TypeOK,
       Lock!LockTypeOK, WorkerPC, ExecuteRunPC
  <2>35. CASE FailWrite(w)
    BY <2>35 DEF FailWrite, WorkerGoes, WriteMessage, workerFrame,
       lockVars, apiVars, TypeOK, Lock!LockTypeOK, MessageRow, LocalRow,
       HeldRow, Parts, Status, Terminal, Absent, WorkerPC, ExecuteRunPC
  <2>36. CASE FailRun(w)
    <3>1. run' \in RunRow
      BY <2>36 DEF FailRun, WorkerGoes, EndRun, CanUpdateRun,
         ValidTransition, PhaseMatchesStatus, EndRunThrows, TypeOK,
         RunRow, RunPhase, Status, Terminal, Absent
    <3>2. worker' \in [Workers -> WorkerPC]
      BY <2>36 DEF FailRun, WorkerGoes, EndRun, CanUpdateRun,
         ValidTransition, PhaseMatchesStatus, EndRunThrows, TypeOK,
         WorkerPC, ExecuteRunPC
    <3> QED
      BY <2>36, <3>1, <3>2 DEF FailRun, WorkerGoes, EndRun,
         CanUpdateRun, ValidTransition, PhaseMatchesStatus,
         EndRunThrows, workerFrame, lockVars, apiVars, TypeOK,
         Lock!LockTypeOK
  <2>37. CASE Finally(w)
    BY <2>37 DEF Finally, WorkerGoes, NoDraft, rowVars, workerFrame,
       lockVars, apiVars, TypeOK, Lock!LockTypeOK, Parts, MessageRow,
       WorkerPC, ExecuteRunPC
  <2>38. CASE Acknowledge(w)
    <3>1. job' \in JobRow
      BY <2>38 DEF Acknowledge, WorkerGoes, Nobody, FreshLocal,
         Absent, TypeOK, JobRow, JobState
    <3>2. worker' \in [Workers -> WorkerPC]
      BY <2>38 DEF Acknowledge, WorkerGoes, Nobody, FreshLocal,
         Absent, TypeOK, WorkerPC, ExecuteRunPC
    <3>3. local' \in [Workers -> LocalRow]
      BY <2>38 DEF Acknowledge, WorkerGoes, Nobody, FreshLocal,
         Absent, TypeOK, LocalRow, MessageRow, Status, Terminal
    <3> QED
      BY <2>38, <3>1, <3>2, <3>3 DEF Acknowledge, WorkerGoes, Nobody,
         FreshLocal, Absent, rowVars, queueFrame, lockVars, apiVars,
         TypeOK, Lock!LockTypeOK
  <2> QED
    BY <1>6, <2>1, <2>2, <2>3, <2>4, <2>5, <2>6, <2>7, <2>8, <2>9,
       <2>10, <2>11, <2>12, <2>13, <2>14, <2>15, <2>16, <2>17, <2>18,
       <2>19, <2>20, <2>21, <2>22, <2>23, <2>24, <2>25, <2>26, <2>27,
       <2>28, <2>29, <2>30, <2>31, <2>32, <2>33, <2>34, <2>35, <2>36,
       <2>37, <2>38 DEF HandleJob
<1>7. CASE ApiCrash
  BY <1>7 DEF ApiCrash, Cancellers, rowVars, lockVars, TypeOK,
     Lock!LockTypeOK, StarterPC, CleanerPC, CancelPC
<1>8. CASE ApiRestart
  BY <1>8 DEF ApiRestart, rowVars, cleanerFrame, lockVars, TypeOK,
     Lock!LockTypeOK, CleanerPC
<1>9. CASE Cleanup
  <2>1. CASE CleanupScan
    BY <2>1 DEF CleanupScan, rowVars, cleanerFrame, lockVars, TypeOK,
       Lock!LockTypeOK, CleanerPC, RunRow
  <2>2. CASE CleanupReadSystem
    BY <2>2 DEF CleanupReadSystem, rowVars, cleanerFrame, lockVars,
       TypeOK, Lock!LockTypeOK, CleanerPC
  <2>3. CASE CleanupCheckSystem
    BY <2>3 DEF CleanupCheckSystem, ValidTransition, rowVars,
       cleanerFrame, lockVars, TypeOK, Lock!LockTypeOK, CleanerPC
  <2>4. CASE CleanupWriteSystem
    BY <2>4 DEF CleanupWriteSystem, cleanerFrame, lockVars, TypeOK,
       Lock!LockTypeOK, Status, Terminal, Absent, CleanerPC
  <2>5. CASE CleanupReadMessage
    <3>1. stepOpen' \in BOOLEAN
      BY <2>5 DEF CleanupReadMessage, TypeOK
    <3>2. cleaner' \in CleanerPC
      BY <2>5 DEF CleanupReadMessage, TypeOK, CleanerPC
    <3> QED
      BY <2>5, <3>1, <3>2 DEF CleanupReadMessage, cleanerFrame,
         lockVars, TypeOK, Lock!LockTypeOK
  <2>6. CASE CleanupCheckMessage
    BY <2>6 DEF CleanupCheckMessage, MayBecome, ValidTransition,
       rowVars, cleanerFrame, lockVars, TypeOK, Lock!LockTypeOK, CleanerPC
  <2>7. CASE CleanupWriteMessage
    BY <2>7 DEF CleanupWriteMessage, WriteMessage, cleanerFrame,
       lockVars, TypeOK, Lock!LockTypeOK, MessageRow, LocalRow, HeldRow,
       Parts, Status, Terminal, Absent, CleanerPC
  <2>8. CASE CleanupRemoveDraft
    BY <2>8 DEF CleanupRemoveDraft, NoDraft, rowVars, cleanerFrame,
       lockVars, TypeOK, Lock!LockTypeOK, Parts, MessageRow, CleanerPC
  <2>9. CASE CleanupEndRun
    <3>1. run' \in RunRow
      BY <2>9 DEF CleanupEndRun, EndRun, CanUpdateRun,
         ValidTransition, PhaseMatchesStatus, EndRunThrows, TypeOK,
         RunRow, RunPhase, Status, Terminal, Absent
    <3>2. api' \in {"up", "down", "booting"}
      BY <2>9 DEF CleanupEndRun, EndRun, CanUpdateRun,
         ValidTransition, PhaseMatchesStatus, EndRunThrows, TypeOK
    <3>3. cleaner' \in CleanerPC
      BY <2>9 DEF CleanupEndRun, EndRun, CanUpdateRun,
         ValidTransition, PhaseMatchesStatus, EndRunThrows, TypeOK,
         CleanerPC
    <3> QED
      BY <2>9, <3>1, <3>2, <3>3 DEF CleanupEndRun, EndRun,
         CanUpdateRun, ValidTransition, PhaseMatchesStatus,
         EndRunThrows, cleanerFrame, lockVars, TypeOK, Lock!LockTypeOK
  <2> QED
    BY <1>9, <2>1, <2>2, <2>3, <2>4, <2>5, <2>6, <2>7, <2>8, <2>9 DEF
       Cleanup
<1>10. ASSUME NEW w \in Workers, WorkerCrash(w) PROVE TypeOK'
  <2>1. Lock!LockTypeOK'
    BY <1>10 DEF WorkerCrash, FreshLocal, Absent, NothingHeld,
       Lock!LockCrash, Lock!NoToken, TypeOK, Lock!LockTypeOK, Lock!Token,
       Lock!lockVars, lockVars
  <2>2. cancel' \in [Cancellers -> CancelPC]
    BY <1>10 DEF WorkerCrash, FreshLocal, Absent, NothingHeld,
       Lock!LockCrash, Lock!NoToken, TypeOK, CancelPC, Cancellers
  <2>3. held' \in [Cancellers -> HeldRow]
    BY <1>10 DEF WorkerCrash, FreshLocal, Absent, NothingHeld,
       Lock!LockCrash, Lock!NoToken, TypeOK, HeldRow, RunRow, MessageRow,
       Parts, NoDraft, Cancellers
  <2>4. worker' \in [Workers -> WorkerPC]
    BY <1>10 DEF WorkerCrash, FreshLocal, Absent, NothingHeld,
       Lock!LockCrash, Lock!NoToken, TypeOK, WorkerPC, ExecuteRunPC
  <2>5. local' \in [Workers -> LocalRow]
    BY <1>10 DEF WorkerCrash, FreshLocal, Absent, NothingHeld,
       Lock!LockCrash, Lock!NoToken, TypeOK, LocalRow, MessageRow, Status,
       Terminal
  <2>6. crashes' \in [worker : 0..MaxWorkerCrashes, api : 0..MaxApiCrashes]
    BY <1>10 DEF WorkerCrash, FreshLocal, Absent, NothingHeld,
       Lock!LockCrash, Lock!NoToken, TypeOK
  <2> QED
    BY <1>10, <2>1, <2>2, <2>3, <2>4, <2>5, <2>6 DEF WorkerCrash,
       FreshLocal, Absent, NothingHeld, Lock!LockCrash, Lock!NoToken,
       lockVars, rowVars, apiVars, TypeOK
<1>11. CASE LockExpires
  BY <1>11 DEF LockExpires, Lock!Expire, Lock!NoToken,
     rowVars, apiVars, TypeOK, Lock!LockTypeOK, Lock!Token, Lock!lockVars,
     lockVars
<1>12. CASE UNCHANGED vars
  BY <1>12 DEF vars, TypeOK, Lock!LockTypeOK
<1> QED
  BY <1>1, <1>2, <1>3, <1>4, <1>5, <1>6, <1>7, <1>8, <1>9, <1>10, <1>11,
     <1>12 DEF Next, Rest

(***************************************************************************)
(* Every variable keeps its type: no row, draft, job or program counter    *)
(* ever holds a value the code does not know of, and BullMQ never          *)
(* redelivers a job more than MaxStalls times.                             *)
(***************************************************************************)
THEOREM TypeCorrect == Spec => []TypeOK
BY InitType, NextType, PTL DEF Spec

-----------------------------------------------------------------------------
(* Frames: the few actions that touch the run row, and the lock.           *)

\* A job handler touches the run row in four of its steps only.
LEMMA HandlerKeepsRun ==
    ASSUME NEW w \in Workers, HandleJob(w), ~LinkSystemMessage(w),
           ~EnterAnswering(w), ~CompleteRun(w), ~FailRun(w)
    PROVE  UNCHANGED <<run, starter>>
BY DEF HandleJob, CheckQueuedRun, AcquireLock, ReleaseLock, GuardAborts,
   GuardCancels, CancelledItself, EnterRefresh, SkipRefresh,
   CreateSystemMessage, SummaryArrives, SummaryFails, CheckSystemMessage,
   WriteSystemMessage, LoadMessage, EnsureDraft, EmitDelta, EmitStepStart,
   EmitStepEnd, AppendDelta, StoreStep, AgentReturns, AgentThrows,
   SettleAnswer, SetAnswerText, RewriteParts, CloseSteps, CompleteCheck,
   CompleteWrite, Catch, FailText, FailCheck, FailWrite, Finally,
   Acknowledge, WorkerGoes, Decides, Emits, rowVars, apiVars, queueFrame,
   workerFrame

\* cancelRun touches the run row in its last step only.
LEMMA CancellerKeepsRun ==
    ASSUME NEW c \in Cancellers, CancelRun(c), ~CancelEndRun(c)
    PROVE  UNCHANGED <<run, starter>>
BY DEF CancelRun, CancelSetFlag, CancelReadSystem, CancelCheckSystem,
   CancelWriteSystem, CancelReadMessage, CancelReadDraft, CancelCloseSteps,
   CancelCheckMessage, CancelWriteMessage, CancelRemoveDraft, CancelDecides,
   rowVars, cancelFrame, apiVars

\* The cleanup touches the run row in its last step only.
LEMMA CleanerKeepsRun ==
    ASSUME Cleanup, ~CleanupEndRun
    PROVE  UNCHANGED <<run, starter>>
BY DEF Cleanup, CleanupScan, CleanupReadSystem, CleanupCheckSystem,
   CleanupWriteSystem, CleanupReadMessage, CleanupCheckMessage,
   CleanupWriteMessage, CleanupRemoveDraft, rowVars, cleanerFrame

-----------------------------------------------------------------------------
(* The run row implements RunRecord.                                       *)

\* There is no row before createRun; a decided run repeats its status as its
\* phase.
RunShape ==
    /\ starter = "createRun" => run.status = Absent
    /\ run.status \in Terminal => run.phase = run.status

\* updateRun with an outcome decides a running run or changes nothing.
LEMMA EndRunFinishes ==
    ASSUME TypeOK, RunShape, NEW outcome \in Terminal,
           EndRun(outcome) \/ EndRunThrows(outcome)
    PROVE  /\ [Record!Finish]_<<run.status, run.phase>>
           /\ run'.status \in Terminal => run'.phase = run'.status
           /\ run.status = Absent => run'.status = Absent
BY DEF TypeOK, RunRow, RunShape, EndRun, EndRunThrows, CanUpdateRun,
   ValidTransition, PhaseMatchesStatus, Record!Finish, Terminal,
   Record!Terminal, Status, Absent

\* updateRun with a working phase needs a running run.
LEMMA LinkMessageWorks ==
    ASSUME TypeOK, RunShape, LinkMessage \/ LinkThrows
    PROVE  /\ [Record!Work]_<<run.status, run.phase>>
           /\ run'.status \in Terminal => run'.phase = run'.status
           /\ run.status = Absent => run'.status = Absent
BY DEF TypeOK, RunRow, RunShape, LinkMessage, LinkThrows, CanUpdateRun,
   ValidTransition, PhaseMatchesStatus, Record!Work, Terminal, Status, Absent

\* Each step of the system is a step of RunRecord or leaves the row alone.
LEMMA RecordStep ==
    TypeOK /\ RunShape /\ [Next]_vars => [Record!Next]_(Record!vars) /\ RunShape'
<1> SUFFICES ASSUME TypeOK, RunShape, [Next]_vars
             PROVE  [Record!Next]_(Record!vars) /\ RunShape'
  OBVIOUS
<1> DEFINE Fine == [Record!Next]_(Record!vars) /\ RunShape'
           \* What is enough for Fine, starter and all.
           Good == /\ [Record!Work \/ Record!Finish]_<<run.status, run.phase>>
                   /\ run'.status \in Terminal => run'.phase = run'.status
                   /\ run.status = Absent => run'.status = Absent
                   /\ starter' = "createRun" => starter = "createRun"
<1>a. Good => Fine
  BY DEF RunShape, Record!Next, Record!vars
<1>b. run' = run /\ starter' = starter => Fine
  BY DEF RunShape, Record!vars
<1> SUFFICES Fine
  OBVIOUS
<1> HIDE DEF Fine
<1>1. CASE StartRun
  <2>1. CASE StartCreateRun
    BY <2>1 DEF StartCreateRun, StarterGoes, RunShape, Fine, Record!Next,
       Record!Create, Record!vars, Absent, Record!Absent, Terminal
  <2>2. CASE StartLink
    BY <2>2, <1>a, LinkMessageWorks DEF StartLink
  <2>3. CASE StartFailRun
    BY <2>3, <1>a DEF StartFailRun, CanUpdateRun, ValidTransition,
       PhaseMatchesStatus, EndRunThrows, TypeOK, RunRow, RunShape,
       Record!Finish, Record!Terminal, Terminal, Status, Absent
  <2>4. CASE ~StartCreateRun /\ ~StartLink /\ ~StartFailRun
    <3>1. run' = run /\ starter' # "createRun"
      BY <1>1, <2>4
         DEF StartRun, StartCreateMessage, StartInitDraft, StartEnqueue,
             StartRedisFails, StartFailCheck, StartFailWrite, StartFailDraft,
             StarterGoes, rowVars
    <3> QED
      BY <3>1, <1>a DEF RunShape
  <2> QED
    BY <2>1, <2>2, <2>3, <2>4
<1>2. ASSUME NEW c \in Requests, RequestCancel(c) PROVE Fine
  BY <1>2, <1>b DEF RequestCancel, CancelReadsRun, rowVars, cancelFrame,
     apiVars
<1>3. ASSUME NEW c \in Cancellers, CancelRun(c) PROVE Fine
  <2>1. CASE CancelEndRun(c)
    BY <2>1, <1>a, EndRunFinishes
       DEF CancelEndRun, cancelFrame, apiVars, Terminal
  <2> QED
    BY <1>3, <2>1, <1>b, CancellerKeepsRun
<1>4. ASSUME NEW w \in Workers, Deliver(w) PROVE Fine
  BY <1>4, <1>b DEF Deliver, rowVars, queueFrame, apiVars
<1>5. CASE Stall
  BY <1>5, <1>b DEF Stall, rowVars, queueFrame, apiVars
<1>6. ASSUME NEW w \in Workers, HandleJob(w) PROVE Fine
  <2>1. CASE LinkSystemMessage(w)
    BY <2>1, <1>a DEF LinkSystemMessage, workerFrame, apiVars, CanUpdateRun,
       ValidTransition, PhaseMatchesStatus, TypeOK, RunRow, RunShape,
       Record!Work, Terminal, Status, Absent
  <2>2. CASE EnterAnswering(w)
    BY <2>2, <1>a, LinkMessageWorks DEF EnterAnswering, workerFrame, apiVars
  <2>3. CASE CompleteRun(w)
    BY <2>3, <1>a, EndRunFinishes
       DEF CompleteRun, workerFrame, apiVars, Terminal
  <2>4. CASE FailRun(w)
    BY <2>4, <1>a, EndRunFinishes DEF FailRun, workerFrame, apiVars, Terminal
  <2> QED
    BY <1>6, <2>1, <2>2, <2>3, <2>4, <1>b, HandlerKeepsRun
<1>7. CASE ApiCrash
  BY <1>7, <1>a DEF ApiCrash, rowVars, RunShape
<1>8. CASE ApiRestart
  BY <1>8, <1>b DEF ApiRestart, rowVars, cleanerFrame
<1>9. CASE Cleanup
  <2>1. CASE CleanupEndRun
    BY <2>1, <1>a, EndRunFinishes DEF CleanupEndRun, cleanerFrame, Terminal
  <2> QED
    BY <1>9, <2>1, <1>b, CleanerKeepsRun
<1>10. ASSUME NEW w \in Workers, WorkerCrash(w) PROVE Fine
  BY <1>10, <1>b DEF WorkerCrash, rowVars, apiVars
<1>11. CASE LockExpires
  BY <1>11, <1>b DEF LockExpires, rowVars, apiVars
<1>12. CASE UNCHANGED vars
  BY <1>12, <1>b DEF vars
<1> QED
  BY <1>1, <1>2, <1>3, <1>4, <1>5, <1>6, <1>7, <1>8, <1>9, <1>10, <1>11,
     <1>12 DEF Next, Rest

(***************************************************************************)
(* The run row implements RunRecord: whatever two executors, a canceller   *)
(* and the cleanup do, a run is created running and its outcome is decided *)
(* once.                                                                   *)
(***************************************************************************)
THEOREM RecordImplemented == Spec => RunImplementsRecord
<1>1. Init => RunShape /\ Record!Init
  BY DEF Init, RunShape, Record!Init, Absent, Record!Absent, Terminal
<1>2. TypeOK /\ TypeOK' /\ RunShape /\ [Next]_vars
        => [Record!Next]_(Record!vars) /\ RunShape'
  BY RecordStep
<1> QED
  BY <1>1, <1>2, TypeCorrect, PTL DEF Spec, RunImplementsRecord, Record!Spec

-----------------------------------------------------------------------------
(* The lock is used as RunLock prescribes, so what is proved of RunLock    *)
(* holds of it here.                                                       *)

\* A job handler touches the lock when it acquires and releases it only.
LEMMA HandlerKeepsLock ==
    ASSUME NEW w \in Workers, HandleJob(w), ~AcquireLock(w), ~ReleaseLock(w)
    PROVE  UNCHANGED lockVars
BY DEF HandleJob, CheckQueuedRun, GuardAborts, GuardCancels, CancelledItself,
   EnterRefresh, SkipRefresh, CreateSystemMessage, LinkSystemMessage,
   SummaryArrives, SummaryFails, CheckSystemMessage, WriteSystemMessage,
   LoadMessage, EnsureDraft, EnterAnswering, EmitDelta, EmitStepStart,
   EmitStepEnd, AppendDelta, StoreStep, AgentReturns, AgentThrows,
   SettleAnswer, SetAnswerText, RewriteParts, CloseSteps, CompleteCheck,
   CompleteWrite, CompleteRun, Catch, FailText, FailCheck, FailWrite,
   FailRun, Finally, Acknowledge, Decides, Emits, queueFrame, workerFrame

\* The API process touches neither the lock nor a job handler.
LEMMA ApiKeepsHandlers ==
    ASSUME \/ StartRun
           \/ \E c \in Requests : RequestCancel(c)
           \/ \E c \in Cancellers : CancelRun(c)
           \/ Cleanup
    PROVE  UNCHANGED <<lockVars, worker, local>>
<1>1. CASE StartRun
  BY <1>1 DEF StartRun, StartCreateRun, StartCreateMessage, StartInitDraft,
     StartLink, StartEnqueue, StartRedisFails, StartFailCheck,
     StartFailWrite, StartFailRun, StartFailDraft, starterFrame
<1>2. CASE \E c \in Requests : RequestCancel(c)
  BY <1>2 DEF RequestCancel, cancelFrame
<1>3. CASE \E c \in Cancellers : CancelRun(c)
  BY <1>3 DEF CancelRun, CancelSetFlag, CancelReadSystem, CancelCheckSystem,
     CancelWriteSystem, CancelReadMessage, CancelReadDraft, CancelCloseSteps,
     CancelCheckMessage, CancelWriteMessage, CancelRemoveDraft, CancelEndRun,
     CancelDecides, cancelFrame
<1>4. CASE Cleanup
  BY <1>4 DEF Cleanup, CleanupScan, CleanupReadSystem, CleanupCheckSystem,
     CleanupWriteSystem, CleanupReadMessage, CleanupCheckMessage,
     CleanupWriteMessage, CleanupRemoveDraft, CleanupEndRun, cleanerFrame
<1> QED
  BY <1>1, <1>2, <1>3, <1>4

\* Each step of the system is a step of RunLock or leaves the lock alone.
LEMMA LockUseStep == [Next]_vars => [Lock!LockNext]_(Lock!lockVars)
<1> SUFFICES ASSUME [Next]_vars PROVE [Lock!LockNext]_(Lock!lockVars)
  OBVIOUS
<1>a. UNCHANGED lockVars => [Lock!LockNext]_(Lock!lockVars)
  BY DEF lockVars, Lock!lockVars
<1>1. CASE StartRun \/ (\E c \in Requests : RequestCancel(c))
             \/ (\E c \in Cancellers : CancelRun(c)) \/ Cleanup
  BY <1>1, <1>a, ApiKeepsHandlers
<1>2. ASSUME NEW w \in Workers, HandleJob(w)
      PROVE  [Lock!LockNext]_(Lock!lockVars)
  <2>1. CASE AcquireLock(w)
    BY <2>1, <1>a DEF AcquireLock, Lock!LockNext
  <2>2. CASE ReleaseLock(w)
    BY <2>2 DEF ReleaseLock, Lock!LockNext
  <2> QED
    BY <1>2, <2>1, <2>2, <1>a, HandlerKeepsLock
<1>3. ASSUME NEW w \in Workers, Deliver(w) PROVE [Lock!LockNext]_(Lock!lockVars)
  BY <1>3, <1>a DEF Deliver, queueFrame
<1>4. ASSUME NEW w \in Workers, WorkerCrash(w) PROVE [Lock!LockNext]_(Lock!lockVars)
  BY <1>4, <1>a DEF WorkerCrash, Lock!LockNext
<1>5. CASE LockExpires
  BY <1>5 DEF LockExpires, Lock!LockNext
<1>6. CASE Stall \/ ApiCrash \/ ApiRestart \/ UNCHANGED vars
  BY <1>6, <1>a DEF Stall, ApiCrash, ApiRestart, queueFrame, cleanerFrame,
     vars, lockVars
<1> QED
  BY <1>1, <1>2, <1>3, <1>4, <1>5, <1>6 DEF Next, Rest

\* What RunLock proves of its states.
LEMMA LockInvariant == Spec => []Lock!LockIInv
<1> USE RunExecutionAssumption
<1>1. Lock!LockIInv <=> LockProofs!LockIInv
  BY DEF Lock!LockIInv, LockProofs!LockIInv, Lock!LockTypeOK, LockProofs!LockTypeOK,
         Lock!LeasesIssued, LockProofs!LeasesIssued, Lock!LeasesDistinct, LockProofs!LeasesDistinct,
         Lock!LiveLeaseOwnsKey, LockProofs!LiveLeaseOwnsKey, Lock!HoldsLiveLease, LockProofs!HoldsLiveLease,
         Lock!Token, LockProofs!Token, Lock!NoToken, LockProofs!NoToken
<1>2. Lock!LockIInv' <=> LockProofs!LockIInv'
  BY DEF Lock!LockIInv, LockProofs!LockIInv, Lock!LockTypeOK, LockProofs!LockTypeOK,
         Lock!LeasesIssued, LockProofs!LeasesIssued, Lock!LeasesDistinct, LockProofs!LeasesDistinct,
         Lock!LiveLeaseOwnsKey, LockProofs!LiveLeaseOwnsKey, Lock!HoldsLiveLease, LockProofs!HoldsLiveLease,
         Lock!Token, LockProofs!Token, Lock!NoToken, LockProofs!NoToken
<1>3. [Lock!LockNext]_(Lock!lockVars) <=> [LockProofs!LockNext]_(LockProofs!lockVars)
  BY DEF Lock!LockNext, LockProofs!LockNext, Lock!Acquire, LockProofs!Acquire,
         Lock!Release, LockProofs!Release, Lock!KeyAfterRelease, LockProofs!KeyAfterRelease,
         Lock!LockCrash, LockProofs!LockCrash, Lock!Expire, LockProofs!Expire,
         Lock!lockVars, LockProofs!lockVars,
         Lock!NoToken, LockProofs!NoToken
<1>4. Init => LockProofs!LockInit
  BY DEF Init, Lock!LockInit, LockProofs!LockInit, Lock!NoToken, LockProofs!NoToken
<1>5. LockProofs!RunLockAssumption
  BY DEF RunExecutionAssumption, LockProofs!RunLockAssumption
<1>6. Init => Lock!LockIInv
  BY <1>1, <1>4, <1>5, LockProofs!LockInitially
<1>7. Lock!LockIInv /\ [Next]_vars => Lock!LockIInv'
  BY <1>1, <1>2, <1>3, <1>5, LockProofs!LockStep, LockUseStep
<1> QED
  BY <1>6, <1>7, PTL DEF Spec

-----------------------------------------------------------------------------
(* One handler at a time is inside executeRun.                             *)

\* From the guard to the release, a handler has a lease.
HoldsLock ==
    \A w \in Workers :
        worker[w] \in ExecuteRunPC \cup {"release"} => lease[w] # Lock!NoToken

\* The steps inside executeRun stay inside, or end in the cancel or the
\* release.
LEMMA StaysExecuting ==
    ASSUME TypeOK, NEW w \in Workers, HandleJob(w), ~CheckQueuedRun(w),
           ~AcquireLock(w), ~ReleaseLock(w), ~CancelledItself(w),
           ~Acknowledge(w)
    PROVE  /\ worker[w] \in ExecuteRunPC
           /\ \E to \in ExecuteRunPC \cup {"release", "cancelling"} :
                 worker' = [worker EXCEPT ![w] = to]
BY DEF HandleJob, GuardAborts, GuardCancels, GuardPoints,
   EnterRefresh, SkipRefresh, CreateSystemMessage, LinkSystemMessage,
   SummaryArrives, SummaryFails, RefreshCatch, CheckSystemMessage,
   WriteSystemMessage,
   LoadMessage, EnsureDraft, EnterAnswering, EmitDelta, EmitStepStart,
   EmitStepEnd, AppendDelta, StoreStep, AgentReturns, AgentThrows,
   SettleAnswer, SetAnswerText, RewriteParts, CloseSteps, CompleteCheck,
   CompleteWrite, CompleteRun, Catch, FailText, FailCheck, FailWrite,
   FailRun, Finally, Decides, Emits, WorkerGoes, ExecuteRunPC

\* No step lets a handler be inside executeRun without a lease.
LEMMA HoldsLockStep ==
    TypeOK /\ Lock!LockIInv /\ HoldsLock /\ [Next]_vars => HoldsLock'
<1> SUFFICES ASSUME TypeOK, Lock!LockIInv, HoldsLock, [Next]_vars
             PROVE  HoldsLock'
  OBVIOUS
<1>t. /\ worker \in [Workers -> WorkerPC]
      /\ lease \in [Workers -> Nat]
      /\ issued \in Nat
  BY RunExecutionAssumption
     DEF TypeOK, Lock!LockTypeOK, Lock!Token, Lock!NoToken
<1>a. worker' = worker /\ lease' = lease => HoldsLock'
  BY DEF HoldsLock
\* A handler that leaves executeRun alone, whatever happens to its lease.
<1>b. ASSUME NEW w \in Workers, NEW to, to \notin ExecuteRunPC \cup {"release"},
             worker' = [worker EXCEPT ![w] = to],
             \A v \in Workers \ {w} : lease'[v] = lease[v]
      PROVE  HoldsLock'
  BY <1>b, <1>t DEF HoldsLock
<1>1. CASE StartRun \/ (\E c \in Requests : RequestCancel(c))
             \/ (\E c \in Cancellers : CancelRun(c)) \/ Cleanup
  BY <1>1, <1>a, ApiKeepsHandlers DEF lockVars
<1>2. ASSUME NEW w \in Workers, HandleJob(w) PROVE HoldsLock'
  <2>1. CASE CheckQueuedRun(w)
    <3>1. \E to \in {"ack", "cancelling", "acquire"} :
             worker' = [worker EXCEPT ![w] = to]
      BY <2>1 DEF CheckQueuedRun
    <3> QED
      BY <2>1, <3>1, <1>b DEF CheckQueuedRun, lockVars, ExecuteRunPC
  <2>2. CASE AcquireLock(w)
    <3>1. CASE Lock!Acquire(w) /\ worker' = [worker EXCEPT ![w] = "guard"]
      BY <3>1, <1>t DEF Lock!Acquire, Lock!NoToken, HoldsLock
    <3> QED
      BY <2>2, <3>1, <1>b DEF AcquireLock, lockVars, ExecuteRunPC
  <2>3. CASE ReleaseLock(w)
    BY <2>3, <1>b, <1>t
       DEF ReleaseLock, Lock!Release, WorkerGoes, ExecuteRunPC
  <2>4. CASE CancelledItself(w)
    BY <2>4, <1>t DEF CancelledItself, lockVars, HoldsLock, ExecuteRunPC
  <2>5. CASE Acknowledge(w)
    BY <2>5, <1>b DEF Acknowledge, WorkerGoes, queueFrame, lockVars,
       ExecuteRunPC
  <2>6. CASE /\ ~CheckQueuedRun(w) /\ ~AcquireLock(w) /\ ~ReleaseLock(w)
             /\ ~CancelledItself(w) /\ ~Acknowledge(w)
    <3>1. UNCHANGED lockVars
      BY <1>2, <2>6, HandlerKeepsLock
    <3>2. worker[w] \in ExecuteRunPC
      BY <1>2, <2>6, StaysExecuting
    <3>3. PICK to : worker' = [worker EXCEPT ![w] = to]
      BY <1>2, <2>6, StaysExecuting
    <3> QED
      BY <3>1, <3>2, <3>3, <1>t DEF lockVars, HoldsLock
  <2> QED
    BY <2>1, <2>2, <2>3, <2>4, <2>5, <2>6
<1>3. ASSUME NEW w \in Workers, Deliver(w) PROVE HoldsLock'
  BY <1>3, <1>b DEF Deliver, WorkerGoes, queueFrame, lockVars, ExecuteRunPC
<1>4. ASSUME NEW w \in Workers, WorkerCrash(w) PROVE HoldsLock'
  BY <1>4, <1>b, <1>t DEF WorkerCrash, Lock!LockCrash, lockVars, ExecuteRunPC
<1>5. CASE LockExpires
  BY <1>5, <1>a DEF LockExpires, Lock!Expire
<1>6. CASE Stall \/ ApiCrash \/ ApiRestart \/ UNCHANGED vars
  BY <1>6, <1>a DEF Stall, ApiCrash, ApiRestart, queueFrame, cleanerFrame,
     vars, lockVars
<1> QED
  BY <1>1, <1>2, <1>3, <1>4, <1>5, <1>6 DEF Next, Rest

(***************************************************************************)
(* As long as no TTL elapsed, one handler at a time is inside executeRun,  *)
(* however often BullMQ delivers the job.  Being inside implies a lease;   *)
(* a live lease owns the key (RunLock), and leases are distinct.           *)
(***************************************************************************)
THEOREM OneExecutorHolds == Spec => []OneExecutor
<1>1. Init => HoldsLock
  BY DEF Init, HoldsLock, ExecuteRunPC
<1>2. Lock!LockIInv /\ HoldsLock => OneExecutor
  BY DEF Lock!LockIInv, Lock!LeasesDistinct, Lock!LiveLeaseOwnsKey,
     Lock!HoldsLiveLease, HoldsLock, OneExecutor, Executing
<1> QED
  BY <1>1, <1>2, HoldsLockStep, TypeCorrect, LockInvariant, PTL DEF Spec
==============================================================================
