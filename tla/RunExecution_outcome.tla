-------------------------- MODULE RunExecution_outcome --------------------------
(***************************************************************************)
(* Proofs about what a decided run leaves behind, for any number of        *)
(* workers, requests, events, leases, crashes and stalls: its message is   *)
(* decided before it, its steps are closed, run and message agree, and its *)
(* draft is removed.  What a theorem assumes of the constants is named     *)
(* Assumptions and is a hypothesis of that theorem; without it TLC finds   *)
(* the property violated.                                                  *)
(***************************************************************************)
EXTENDS RunExecution_proofs

-----------------------------------------------------------------------------
(* The message is decided before its run.                                  *)

\* Nobody cancels before startRun has returned, and no compression comes
\* before the answer.
Assumptions == ~EarlyCancel /\ ~MayCompress

Decided == msg.status \in Terminal

\* What startRun has done so far.  Nobody else acts on the run before the
\* message is linked to it.
StarterOrder ==
    /\ starter \in {"createRun", "createMessage"} => msg.status = Absent
    /\ starter \in {"createRun", "createMessage", "initDraft", "link"}
         => ~run.linked
    /\ starter \in {"initDraft", "link"} => msg.status # Absent
    /\ starter \in {"enqueue", "returned"} => run.linked
    /\ starter \in {"failRun", "failDraft"} => Decided

\* The job is added for a run whose message is linked.
JobOrder ==
    /\ job.state # "none" => run.linked
    /\ run.linked => msg.status # Absent
    /\ \A w \in Workers : worker[w] # "idle" => job.state # "none"

\* cancelRun knows of the message, and comes to the run after the message.
CancelOrder ==
    \A c \in Cancellers :
        /\ cancel[c] \notin {"idle", "done", "threw"}
             => held[c].linked /\ run.linked
        /\ cancel[c] \in {"undraft", "run", "threw"} => Decided

\* The cleanup runs when startRun is over, so what it has read stays true.
CleanerOrder ==
    /\ cleaner # "idle" \/ api # "up"
         => starter \in {"returned", "raised", "killed"}
    /\ cleaner \notin {"idle", "scan"} => found.linked = run.linked
    /\ cleaner = "undraft" => Decided
    /\ cleaner = "run" => (found.linked => Decided)

\* Where executeRun knows the message.
Bound == {"ensure", "answering", "agent", "delta", "openStep", "closeStep",
          "settle", "setText", "rewrite", "closeSteps", "completeCheck",
          "completeWrite", "completeRun", "failSteps", "failText",
          "failCheck", "failWrite"}

\* executeRun comes to the run after the message.
WorkerOrder ==
    \A w \in Workers :
        /\ worker[w] \in Bound => local[w].bound
        /\ worker[w] = "setText" /\ local[w].seen # "running" => Decided
        /\ worker[w] = "rewrite" => local[w].seen \in Terminal
        /\ worker[w] \in {"completeRun", "failRun"} => Decided
        /\ worker[w] = "catch" /\ ~local[w].bound => Decided

\* No compression, no system message.
NoSystemMessage ==
    /\ sysmsg = Absent
    /\ cleaner \notin {"sysCheck", "sysWrite"}
    /\ \A c \in Cancellers : cancel[c] \notin {"sysCheck", "sysWrite"}
    /\ \A w \in Workers :
          worker[w] \notin {"sysLink", "summarize", "sysDone", "sysDoneWrite",
                            "sysFail", "sysFailWrite"}

Order ==
    /\ StarterOrder /\ JobOrder /\ CancelOrder /\ CleanerOrder /\ WorkerOrder
    /\ NoSystemMessage
    /\ LinkedMessageFirst
-----------------------------------------------------------------------------
\* Each step of the system keeps the order.
LEMMA OrderStep ==
    Assumptions /\ TypeOK /\ Order /\ [Next]_vars => Order'
<1> SUFFICES ASSUME Assumptions, TypeOK, Order, [Next]_vars PROVE Order'
  OBVIOUS
<1>t. /\ run \in [status : Status \cup {Absent},
                  phase : RunPhase \cup {Absent},
                  linked : BOOLEAN, sysLinked : BOOLEAN]
      /\ msg \in [status : Status \cup {Absent}, parts : Parts]
      /\ job \in [state : JobState, owner : Workers \cup {Nobody},
                  stalls : 0..MaxStalls]
      /\ found \in [linked : BOOLEAN, sysLinked : BOOLEAN]
      /\ cancel \in [Cancellers -> CancelPC]
      /\ held \in [Cancellers -> [linked : BOOLEAN, sysLinked : BOOLEAN,
                                  parts : Parts]]
      /\ worker \in [Workers -> WorkerPC]
      /\ local \in [Workers -> [seen : Status \cup {Absent}, bound : BOOLEAN,
                                emitted : 0..MaxEvents]]
  BY DEF TypeOK, RunRow, MessageRow, JobRow, HeldRow, LocalRow
\* A message that the run knows is running or decided.
<1>m. run.linked /\ msg.status # "running" => Decided
  BY <1>t DEF Order, JobOrder, Decided, Status
<1> USE <1>t
    DEF Order, StarterOrder, JobOrder, CancelOrder, CleanerOrder,
        WorkerOrder, NoSystemMessage, LinkedMessageFirst, Decided,
        IsOver, Bound, Terminal, Absent, Cancellers, NothingHeld,
        FreshLocal, rowVars, lockVars, apiVars, starterFrame,
        cancelFrame, workerFrame, queueFrame, cleanerFrame
<1>1. CASE StartRun
  <2>1. CASE StartCreateRun
    BY <2>1, Zenon DEF StartCreateRun, StarterGoes
  <2>2. CASE StartCreateMessage
    BY <2>2 DEF StartCreateMessage, StarterGoes, WriteMessage
  <2>3. CASE StartInitDraft
    BY <2>3 DEF StartInitDraft, StarterGoes
  <2>4. CASE StartLink
    <3>1. CASE LinkMessage /\ starter' = "enqueue"
      <4>1. run'.status = run.status /\ run'.linked /\ run.status = "running"
        BY <3>1 DEF LinkMessage, CanUpdateRun, PhaseMatchesStatus,
             Status
      <4> QED
        BY <2>4, <3>1, <4>1 DEF StartLink
    <3>2. CASE UNCHANGED run /\ starter' = "failCheck"
      BY <2>4, <3>2 DEF StartLink
    <3> QED
      BY <2>4, <3>1, <3>2 DEF StartLink, LinkThrows
  <2>5. CASE StartEnqueue
    BY <2>5 DEF StartEnqueue, StarterGoes
  <2>6. CASE StartRedisFails
    BY <2>6 DEF StartRedisFails
  <2>7. CASE StartFailCheck
    BY <2>7 DEF StartFailCheck, MayBecome, ValidTransition
  <2>8. CASE StartFailWrite
    BY <2>8 DEF StartFailWrite, StarterGoes, WriteMessage
  <2>9. CASE StartFailRun
    BY <2>9, Zenon DEF StartFailRun, CanUpdateRun, ValidTransition,
       PhaseMatchesStatus, EndRunThrows
  <2>10. CASE StartFailDraft
    BY <2>10 DEF StartFailDraft, StarterGoes, NoDraft
  <2> HIDE DEF Order
  <2> QED
    BY <1>1, <2>1, <2>2, <2>3, <2>4, <2>5, <2>6, <2>7, <2>8, <2>9, <2>10
       DEF StartRun
<1>2. ASSUME NEW c \in Requests, RequestCancel(c) PROVE Order'
  BY <1>2 DEF RequestCancel, CancelReadsRun, Assumptions
<1>3. ASSUME NEW c \in Cancellers, CancelRun(c) PROVE Order'
  <2>1. CASE CancelSetFlag(c)
    BY <2>1 DEF CancelSetFlag, CancelGoes
  <2>2. CASE CancelReadSystem(c)
    BY <2>2 DEF CancelReadSystem, CancelDecides, CancelGoes
  <2>3. CASE CancelCheckSystem(c)
    BY <2>3 DEF CancelCheckSystem, CancelDecides, CancelGoes,
       ValidTransition
  <2>4. CASE CancelWriteSystem(c)
    BY <2>4 DEF CancelWriteSystem, CancelGoes
  <2>5. CASE CancelReadMessage(c)
    <3>1. CASE held[c].linked /\ msg.status = "running"
      BY <2>5, <3>1 DEF CancelReadMessage
    <3>2. CASE ~(held[c].linked /\ msg.status = "running")
      <4>1. Decided
        BY <2>5, <3>2, <1>m DEF CancelReadMessage
      <4> QED
        BY <2>5, <3>2, <4>1 DEF CancelReadMessage
    <3> QED
      BY <3>1, <3>2
  <2>6. CASE CancelReadDraft(c)
    BY <2>6 DEF CancelReadDraft, CancelGoes, NoDraft
  <2>7. CASE CancelCloseSteps(c)
    BY <2>7 DEF CancelCloseSteps, CancelGoes
  <2>8. CASE CancelCheckMessage(c)
    <3>1. CASE MayBecome("cancelled")
      BY <2>8, <3>1 DEF CancelCheckMessage, CancelDecides, CancelGoes
    <3>2. CASE ~MayBecome("cancelled")
      <4>1. Decided
        BY <2>8, <3>2, <1>m DEF CancelCheckMessage, CancelDecides, CancelGoes,
           MayBecome, ValidTransition
      <4> QED
        BY <2>8, <3>2, <4>1 DEF CancelCheckMessage, CancelDecides, CancelGoes
    <3> QED
      BY <3>1, <3>2
  <2>9. CASE CancelWriteMessage(c)
    BY <2>9 DEF CancelWriteMessage, CancelGoes, WriteMessage
  <2>10. CASE CancelRemoveDraft(c)
    BY <2>10 DEF CancelRemoveDraft, CancelGoes, NoDraft
  <2>11. CASE CancelEndRun(c)
    <3>1. Decided /\ run'.linked = run.linked
      BY <2>11, Zenon DEF CancelEndRun, EndRun, EndRunThrows
    <3>2. PICK to \in {"done", "threw"} : cancel' = [cancel EXCEPT ![c] = to]
      BY <2>11 DEF CancelEndRun
    <3> QED
      BY <2>11, <3>1, <3>2 DEF CancelEndRun
  <2> HIDE DEF Order
  <2> QED
    BY <1>3, <2>1, <2>2, <2>3, <2>4, <2>5, <2>6, <2>7, <2>8, <2>9,
       <2>10, <2>11 DEF CancelRun
<1>4. ASSUME NEW w \in Workers, Deliver(w) PROVE Order'
  BY <1>4 DEF Deliver, WorkerGoes
<1>5. CASE Stall
  BY <1>5 DEF Stall, MayRetry, Nobody
<1>6. ASSUME NEW w \in Workers, HandleJob(w) PROVE Order'
  <2>1. CASE CheckQueuedRun(w)
    BY <2>1 DEF CheckQueuedRun, CancelReadsRun
  <2>2. CASE AcquireLock(w)
    BY <2>2 DEF AcquireLock
  <2>3. CASE ReleaseLock(w)
    BY <2>3 DEF ReleaseLock, WorkerGoes
  <2>4. CASE GuardAborts(w)
    BY <2>4 DEF GuardAborts, GuardPoints, Decides, WorkerGoes
  <2>5. CASE GuardCancels(w)
    BY <2>5 DEF GuardCancels, GuardPoints, CancelReadsRun
  <2>6. CASE CancelledItself(w)
    BY <2>6 DEF CancelledItself
  <2>7. CASE EnterRefresh(w)
    BY <2>7 DEF EnterRefresh, GuardPasses, Decides, WorkerGoes
  <2>8. CASE SkipRefresh(w)
    BY <2>8 DEF SkipRefresh, Decides, WorkerGoes
  <2>9. CASE CreateSystemMessage(w)
    BY <2>9 DEF CreateSystemMessage, WorkerGoes, Assumptions
  <2>10. CASE LinkSystemMessage(w)
    BY <2>10 DEF LinkSystemMessage, CanUpdateRun, ValidTransition,
       PhaseMatchesStatus
  <2>11. CASE SummaryArrives(w)
    BY <2>11 DEF SummaryArrives, Decides, WorkerGoes
  <2>12. CASE SummaryFails(w)
    BY <2>12 DEF SummaryFails, Decides, WorkerGoes, RefreshCatch
  <2>13. CASE CheckSystemMessage(w)
    BY <2>13 DEF CheckSystemMessage, Decides, WorkerGoes,
       ValidTransition, RefreshCatch
  <2>14. CASE WriteSystemMessage(w)
    BY <2>14 DEF WriteSystemMessage, WorkerGoes
  <2>15. CASE LoadMessage(w)
    BY <2>15 DEF LoadMessage, WorkerGoes, GuardPasses
  <2>16. CASE EnsureDraft(w)
    BY <2>16 DEF EnsureDraft, WorkerGoes, NoDraft
  <2>17. CASE EnterAnswering(w)
    <3>1. run.linked /\ run'.linked /\ run'.status = run.status
      <4>1. run.linked
        BY <2>17 DEF EnterAnswering
      <4> QED
        BY <2>17, <4>1, Zenon DEF EnterAnswering, LinkMessage, LinkThrows
    <3>2. PICK to \in {"agent", "catch"} : worker' = [worker EXCEPT ![w] = to]
      BY <2>17 DEF EnterAnswering
    <3>3. /\ worker[w] = "answering" /\ local[w].bound
          /\ UNCHANGED <<msg, sysmsg, local, job, apiVars, cancel, held>>
      BY <2>17 DEF EnterAnswering
    <3>4. StarterOrder' /\ JobOrder'
      BY <3>1, <3>2, <3>3
    <3>5. CancelOrder' /\ CleanerOrder'
      BY <3>1, <3>3
    <3>6. WorkerOrder' /\ NoSystemMessage'
      BY <3>2, <3>3
    <3>7. LinkedMessageFirst'
      BY <3>1, <3>3
    <3> QED
      BY <3>4, <3>5, <3>6, <3>7
  <2>18. CASE EmitDelta(w)
    BY <2>18 DEF EmitDelta, Emits, WorkerGoes
  <2>19. CASE EmitStepStart(w)
    BY <2>19 DEF EmitStepStart, GuardPasses, Emits, WorkerGoes
  <2>20. CASE EmitStepEnd(w)
    BY <2>20 DEF EmitStepEnd, GuardPasses, Emits, WorkerGoes
  <2>21. CASE AppendDelta(w)
    BY <2>21 DEF AppendDelta, WorkerGoes, NoDraft
  <2>22. CASE StoreStep(w)
    BY <2>22 DEF StoreStep, WorkerGoes
  <2>23. CASE AgentReturns(w)
    BY <2>23 DEF AgentReturns, Decides, WorkerGoes
  <2>24. CASE AgentThrows(w)
    BY <2>24 DEF AgentThrows, Decides, WorkerGoes
  <2>25. CASE SettleAnswer(w)
    <3>1. msg.status # "running" => Decided
      BY <2>25, <1>m DEF SettleAnswer, WorkerGoes
    <3>2. local'[w].seen = msg.status /\ local'[w].bound
      BY <2>25 DEF SettleAnswer, WorkerGoes
    <3>3. \A v \in Workers \ {w} : local'[v] = local[v]
      BY <2>25 DEF SettleAnswer
    <3> QED
      BY <2>25, <3>1, <3>2, <3>3 DEF SettleAnswer, WorkerGoes
  <2>26. CASE SetAnswerText(w)
    <3>1. CASE local[w].seen = "running"
      BY <2>26, <3>1 DEF SetAnswerText
    <3>2. CASE local[w].seen # "running"
      <4>1. Decided
        BY <2>26, <3>2 DEF SetAnswerText
      <4> QED
        BY <2>26, <3>2, <4>1 DEF SetAnswerText
    <3> QED
      BY <3>1, <3>2
  <2>27. CASE RewriteParts(w)
    BY <2>27 DEF RewriteParts, WorkerGoes, WriteMessage
  <2>28. CASE CloseSteps(w)
    BY <2>28 DEF CloseSteps, WorkerGoes
  <2>29. CASE CompleteCheck(w)
    BY <2>29 DEF CompleteCheck, Decides, WorkerGoes, MayBecome,
       ValidTransition
  <2>30. CASE CompleteWrite(w)
    BY <2>30 DEF CompleteWrite, WorkerGoes, WriteMessage
  <2>31. CASE CompleteRun(w)
    <3>1. Decided /\ run'.linked = run.linked
      BY <2>31, Zenon DEF CompleteRun, EndRun, EndRunThrows
    <3> QED
      BY <2>31, <3>1 DEF CompleteRun
  <2>32. CASE Catch(w)
    BY <2>32 DEF Catch, Decides, WorkerGoes
  <2>33. CASE FailText(w)
    BY <2>33 DEF FailText, WorkerGoes, NoDraft
  <2>34. CASE FailCheck(w)
    BY <2>34 DEF FailCheck, Decides, WorkerGoes, MayBecome,
       ValidTransition
  <2>35. CASE FailWrite(w)
    BY <2>35 DEF FailWrite, WorkerGoes, WriteMessage
  <2>36. CASE FailRun(w)
    <3>1. Decided /\ run'.linked = run.linked
      BY <2>36, Zenon DEF FailRun, WorkerGoes, EndRun, EndRunThrows
    <3> QED
      BY <2>36, <3>1 DEF FailRun, WorkerGoes
  <2>37. CASE Finally(w)
    BY <2>37 DEF Finally, WorkerGoes, NoDraft
  <2>38. CASE Acknowledge(w)
    BY <2>38 DEF Acknowledge, WorkerGoes, Nobody
  <2> HIDE DEF Order
  <2> QED
    BY <1>6, <2>1, <2>2, <2>3, <2>4, <2>5, <2>6, <2>7, <2>8, <2>9,
       <2>10, <2>11, <2>12, <2>13, <2>14, <2>15, <2>16, <2>17, <2>18,
       <2>19, <2>20, <2>21, <2>22, <2>23, <2>24, <2>25, <2>26, <2>27,
       <2>28, <2>29, <2>30, <2>31, <2>32, <2>33, <2>34, <2>35, <2>36,
       <2>37, <2>38 DEF HandleJob
<1>7. CASE ApiCrash
  BY <1>7 DEF ApiCrash
<1>8. CASE ApiRestart
  BY <1>8 DEF ApiRestart
<1>9. CASE Cleanup
  <2>1. CASE CleanupScan
    BY <2>1 DEF CleanupScan
  <2>2. CASE CleanupReadSystem
    BY <2>2 DEF CleanupReadSystem
  <2>3. CASE CleanupCheckSystem
    BY <2>3 DEF CleanupCheckSystem, ValidTransition
  <2>4. CASE CleanupWriteSystem
    BY <2>4 DEF CleanupWriteSystem
  <2>5. CASE CleanupReadMessage
    <3>1. CASE found.linked /\ msg.status = "running"
      BY <2>5, <3>1, Zenon DEF CleanupReadMessage
    <3>2. CASE ~(found.linked /\ msg.status = "running")
      <4>1. found.linked => Decided
        BY <2>5, <3>2, <1>m DEF CleanupReadMessage
      <4> QED
        BY <2>5, <3>2, <4>1 DEF CleanupReadMessage
    <3> QED
      BY <3>1, <3>2
  <2>6. CASE CleanupCheckMessage
    BY <2>6 DEF CleanupCheckMessage, MayBecome, ValidTransition
  <2>7. CASE CleanupWriteMessage
    BY <2>7 DEF CleanupWriteMessage, WriteMessage
  <2>8. CASE CleanupRemoveDraft
    BY <2>8 DEF CleanupRemoveDraft, NoDraft
  <2>9. CASE CleanupEndRun
    <3>1. (run.linked => Decided) /\ run'.linked = run.linked
      BY <2>9, Zenon DEF CleanupEndRun, EndRun, EndRunThrows
    <3> QED
      BY <2>9, <3>1 DEF CleanupEndRun
  <2> HIDE DEF Order
  <2> QED
    BY <1>9, <2>1, <2>2, <2>3, <2>4, <2>5, <2>6, <2>7, <2>8, <2>9 DEF
       Cleanup
<1>10. ASSUME NEW w \in Workers, WorkerCrash(w) PROVE Order'
  BY <1>10 DEF WorkerCrash
<1>11. CASE LockExpires
  BY <1>11 DEF LockExpires
<1>12. CASE UNCHANGED vars
  BY <1>12 DEF vars
<1> HIDE DEF Order
<1> QED
  BY <1>1, <1>2, <1>3, <1>4, <1>5, <1>6, <1>7, <1>8, <1>9, <1>10, <1>11,
     <1>12 DEF Next, Rest

(***************************************************************************)
(* Whoever decides the run - executor, canceller, cleanup - its assistant  *)
(* message is decided before, whatever crashes, stalls and TTLs happen:    *)
(* "the run is the outermost state, it is updated last".                   *)
(***************************************************************************)
THEOREM MessageFirst == Assumptions => (Spec => []LinkedMessageFirst)
<1> SUFFICES ASSUME Assumptions PROVE Spec => []LinkedMessageFirst
  OBVIOUS
<1>1. Init => Order
  BY DEF Init, Order, StarterOrder, JobOrder, CancelOrder, CleanerOrder,
     WorkerOrder, NoSystemMessage, LinkedMessageFirst, IsOver, Bound,
     Terminal, Absent
<1>2. TypeOK /\ Order /\ [Next]_vars => Order'
  BY OrderStep
<1>3. Order => LinkedMessageFirst
  BY DEF Order
<1> QED
  BY <1>1, <1>2, <1>3, TypeCorrect, PTL DEF Spec
-----------------------------------------------------------------------------
(* The steps of a completed run are closed.                                *)

\* Where executeRun has finished the steps and has yet to complete the run.
AtEnd == {"completeCheck", "completeWrite", "completeRun"}

\* As long as no TTL elapsed: nobody opens a step of a completed run, nor
\* while its executor is about to complete it.
StepsClosed ==
    expired = {} =>
        /\ run.status = "completed" =>
              ~stepOpen /\ \A w \in Workers : worker[w] # "openStep"
        /\ \A w \in Workers : worker[w] \in AtEnd => ~stepOpen

\* As long as no TTL elapsed, two handlers are never between the guard and
\* the release.
Alone ==
    expired = {} =>
        \A v, w \in Workers :
            /\ worker[v] \in ExecuteRunPC \cup {"release"}
            /\ worker[w] \in ExecuteRunPC \cup {"release"}
            => v = w

\* Being there implies a lease, a live lease owns the key, and leases are
\* distinct.
LEMMA AloneInside == Lock!LockIInv /\ HoldsLock => Alone
BY DEF Lock!LockIInv, Lock!LeasesDistinct, Lock!LiveLeaseOwnsKey,
   Lock!HoldsLiveLease, HoldsLock, Alone

\* Only Redis adds to the leases whose TTL elapsed.
LEMMA ExpiredGrows == [Next]_vars /\ expired' = {} => UNCHANGED expired
<1> SUFFICES ASSUME [Lock!LockNext]_(Lock!lockVars), expired' = {}
             PROVE  UNCHANGED expired
  BY LockUseStep
<1> QED
  BY DEF Lock!LockNext, Lock!Acquire, Lock!Release, Lock!LockCrash,
     Lock!Expire, Lock!lockVars

\* An outcome other than "completed" completes no run, and a phase no status.
LEMMA EndRunKeeps ==
    ASSUME TypeOK, NEW outcome, outcome # "completed",
           EndRun(outcome) \/ EndRunThrows(outcome)
    PROVE  run'.status = "completed" => run.status = "completed"
BY DEF TypeOK, RunRow, EndRun, EndRunThrows

LEMMA LinkKeeps ==
    ASSUME TypeOK, LinkMessage \/ LinkThrows
    PROVE  run'.status = run.status
BY DEF TypeOK, RunRow, LinkMessage, LinkThrows

\* A handler that does not complete the run, and neither opens nor closes a
\* step, does not come to the end and does not open a step.
LEMMA HandlerKeepsSteps ==
    ASSUME TypeOK, NEW w \in Workers, HandleJob(w), ~EmitStepStart(w),
           ~StoreStep(w), ~CloseSteps(w), ~CompleteCheck(w),
           ~CompleteWrite(w), ~CompleteRun(w)
    PROVE  /\ UNCHANGED stepOpen
           /\ run'.status = "completed" => run.status = "completed"
           /\ \E to : /\ worker' = [worker EXCEPT ![w] = to]
                      /\ to \notin AtEnd \cup {"openStep"}
<1> USE DEF AtEnd, rowVars, workerFrame, queueFrame
<1>1. CASE LinkSystemMessage(w)
  <2>1. run'.status = run.status
    BY <1>1 DEF LinkSystemMessage, TypeOK, RunRow
  <2>2. PICK to \in {"summarize", "catch"} :
            worker' = [worker EXCEPT ![w] = to]
    BY <1>1 DEF LinkSystemMessage
  <2> QED
    BY <1>1, <2>1, <2>2 DEF LinkSystemMessage
<1>2. CASE EnterAnswering(w)
  BY <1>2, LinkKeeps DEF EnterAnswering
<1>3. CASE FailRun(w)
  <2>1. run'.status = "completed" => run.status = "completed"
    BY <1>3, EndRunKeeps DEF FailRun
  <2>2. worker' = [worker EXCEPT ![w] = "finally"] /\ UNCHANGED stepOpen
    BY <1>3, Zenon DEF FailRun, WorkerGoes
  <2>3. "finally" \notin AtEnd \cup {"openStep"}
    OBVIOUS
  <2> QED
    BY <2>1, <2>2, <2>3, Zenon
<1>4. CASE ~LinkSystemMessage(w) /\ ~EnterAnswering(w) /\ ~FailRun(w)
  BY <1>4 DEF HandleJob, CheckQueuedRun, AcquireLock, ReleaseLock,
     GuardAborts, GuardCancels, CancelledItself, EnterRefresh, SkipRefresh,
     CreateSystemMessage, SummaryArrives, SummaryFails, RefreshCatch,
     CheckSystemMessage, WriteSystemMessage, LoadMessage, EnsureDraft,
     EmitDelta, EmitStepEnd, AppendDelta, AgentReturns, AgentThrows,
     SettleAnswer, SetAnswerText, RewriteParts, Catch, FailText, FailCheck,
     FailWrite, Finally, Acknowledge, WorkerGoes, Decides, Emits
<1> QED
  BY <1>1, <1>2, <1>3, <1>4

\* The API process closes steps, completes no run and moves no handler.
LEMMA ApiKeepsSteps ==
    ASSUME TypeOK,
           \/ StartRun
           \/ \E c \in Requests : RequestCancel(c)
           \/ \E c \in Cancellers : CancelRun(c)
           \/ Cleanup
    PROVE  /\ stepOpen' => stepOpen
           /\ run'.status = "completed" => run.status = "completed"
<1> USE DEF rowVars
<1>1. CASE StartRun
  <2>1. CASE StartFailRun
    BY <2>1 DEF StartFailRun, EndRunThrows, TypeOK, RunRow
  <2>2. CASE ~StartFailRun
    BY <1>1, <2>2, LinkKeeps
       DEF StartRun, StartCreateRun, StartCreateMessage, StartInitDraft,
           StartLink, StartEnqueue, StartRedisFails, StartFailCheck,
           StartFailWrite, StartFailDraft
  <2> QED
    BY <2>1, <2>2
<1>2. CASE \E c \in Requests : RequestCancel(c)
  BY <1>2 DEF RequestCancel
<1>3. CASE \E c \in Cancellers : CancelRun(c)
  BY <1>3, EndRunKeeps
     DEF CancelRun, CancelSetFlag, CancelReadSystem, CancelCheckSystem,
         CancelWriteSystem, CancelReadMessage, CancelReadDraft,
         CancelCloseSteps, CancelCheckMessage, CancelWriteMessage,
         CancelRemoveDraft, CancelEndRun, CancelDecides
<1>4. CASE Cleanup
  BY <1>4, EndRunKeeps
     DEF Cleanup, CleanupScan, CleanupReadSystem, CleanupCheckSystem,
         CleanupWriteSystem, CleanupReadMessage, CleanupCheckMessage,
     CleanupWriteMessage, CleanupRemoveDraft, CleanupEndRun
<1> QED
  BY <1>1, <1>2, <1>3, <1>4

\* Each step of the system keeps the steps closed.
LEMMA StepsClosedStep ==
    TypeOK /\ Alone /\ StepsClosed /\ [Next]_vars => StepsClosed'
<1> SUFFICES ASSUME TypeOK, Alone, StepsClosed, [Next]_vars, expired = {}
             PROVE  StepsClosed'
  BY ExpiredGrows DEF StepsClosed
<1>t. /\ run.status \in Status \cup {Absent}
      /\ run \in RunRow
      /\ worker \in [Workers -> WorkerPC]
  BY DEF TypeOK, RunRow
\* Whoever leaves the run and the steps alone and goes where no step is open.
<1>a. ASSUME stepOpen' => stepOpen,
             run'.status = "completed" => run.status = "completed",
             UNCHANGED worker \/ \E w \in Workers : \E to :
                 /\ worker' = [worker EXCEPT ![w] = to]
                 /\ to \notin AtEnd \cup {"openStep"}
      PROVE  StepsClosed'
  BY <1>a, <1>t DEF StepsClosed
<1>1. CASE StartRun \/ (\E c \in Requests : RequestCancel(c))
             \/ (\E c \in Cancellers : CancelRun(c)) \/ Cleanup
  BY <1>1, <1>a, ApiKeepsHandlers, ApiKeepsSteps
<1>2. ASSUME NEW w \in Workers, HandleJob(w) PROVE StepsClosed'
  <2>1. CASE EmitStepStart(w)
    BY <2>1, <1>t DEF EmitStepStart, GuardPasses, Emits, WorkerGoes, rowVars,
       StepsClosed, AtEnd
  <2>2. CASE StoreStep(w)
    \* Nobody else is at the end while w stores a step.
    BY <2>2, <1>t DEF StoreStep, WorkerGoes, StepsClosed, AtEnd, Alone,
       ExecuteRunPC
  <2>3. CASE CloseSteps(w) \/ CompleteCheck(w) \/ CompleteWrite(w)
    BY <2>3, <1>t DEF CloseSteps, CompleteCheck, CompleteWrite, Decides,
       WorkerGoes, rowVars, StepsClosed, AtEnd
  <2>4. CASE CompleteRun(w)
    <3>1. ~stepOpen /\ ~stepOpen'
      BY <2>4 DEF CompleteRun, StepsClosed, AtEnd
    <3>2. \A v \in Workers : worker'[v] # "openStep"
      BY <2>4, <1>t DEF CompleteRun, Alone, ExecuteRunPC
    <3> QED
      BY <3>1, <3>2 DEF StepsClosed
  <2>5. CASE /\ ~EmitStepStart(w) /\ ~StoreStep(w) /\ ~CloseSteps(w)
             /\ ~CompleteCheck(w) /\ ~CompleteWrite(w) /\ ~CompleteRun(w)
    BY <1>2, <2>5, <1>a, HandlerKeepsSteps
  <2> QED
    BY <2>1, <2>2, <2>3, <2>4, <2>5
<1>3. ASSUME NEW w \in Workers, Deliver(w) \/ WorkerCrash(w)
      PROVE  StepsClosed'
  BY <1>3, <1>a DEF Deliver, WorkerCrash, WorkerGoes, rowVars, AtEnd
<1>4. CASE Stall \/ ApiCrash \/ ApiRestart \/ LockExpires \/ UNCHANGED vars
  BY <1>4, <1>a DEF Stall, ApiCrash, ApiRestart, LockExpires, rowVars,
     cleanerFrame, vars
<1> QED
  BY <1>1, <1>2, <1>3, <1>4 DEF Next, Rest

(***************************************************************************)
(* As long as no TTL elapsed, a completed run has no step that still runs: *)
(* its executor closed the steps before it completed the run, and the run  *)
(* lock keeps every other handler from opening one in between.             *)
(***************************************************************************)
THEOREM NoOpenStepLeft == Spec => []CompletedRunHasNoOpenStep
<1>1. Init => HoldsLock /\ StepsClosed
  BY DEF Init, HoldsLock, ExecuteRunPC, StepsClosed, AtEnd, Absent
<1>2. StepsClosed => CompletedRunHasNoOpenStep
  BY DEF StepsClosed, CompletedRunHasNoOpenStep
<1> QED
  BY <1>1, <1>2, AloneInside, HoldsLockStep, StepsClosedStep, TypeCorrect,
     LockInvariant, PTL DEF Spec
-----------------------------------------------------------------------------
(* Run and message tell the same story.                                    *)

\* No TTL elapsed, nobody cancels, the API lives and startRun succeeds.
Undisturbed ==
    /\ expired = {}
    /\ ~cancelFlag
    /\ crashes.api = 0
    /\ starter \in {"createRun", "createMessage", "initDraft", "link",
                    "enqueue", "returned"}

\* Then neither a canceller nor the cleanup gets as far as a row ...
OthersAway ==
    /\ api = "up" /\ cleaner = "idle"
    /\ \A c \in Cancellers : cancel[c] \in {"idle", "flag", "done"}
    /\ \A w \in Workers : worker[w] # "cancelling"

\* ... the rows are there when the job is added ...
StarterStory ==
    /\ starter = "createRun" => run.status = Absent
    /\ starter # "createRun" => run.status # Absent
    /\ starter \in {"createMessage", "initDraft", "link", "enqueue"}
         => run.status = "running"
    /\ starter \in {"initDraft", "link", "enqueue"} => msg.status = "running"
    /\ starter # "returned" => job.state = "none"
    /\ job.state = "none" => \A w \in Workers : worker[w] = "idle"

\* ... nobody touches them but the one handler that has the lock ...
Untouched == run.status = "running" => msg.status = "running"

Compressing == {"sysLink", "summarize", "sysDone", "sysDoneWrite", "sysFail",
                "sysFailWrite"}

Answering == {"ensure", "answering", "agent", "delta", "openStep",
              "closeStep", "settle", "setText", "closeSteps", "completeCheck",
              "completeWrite", "catch", "failSteps", "failText", "failCheck",
              "failWrite"}

StoryOf(w) ==
    /\ worker[w] = "guard" => Untouched
    /\ worker[w] \in {"refresh", "reguard"} \cup Compressing \cup Answering
         => run.status = "running" /\ msg.status = "running"
    /\ worker[w] \in Compressing => sysmsg = "running"
    /\ worker[w] \in Answering => local[w].bound
    /\ worker[w] = "setText" => local[w].seen = "running"
    /\ worker[w] # "rewrite"
    /\ worker[w] = "completeRun" =>
          /\ run.status = "running"
          /\ msg.status = "completed" /\ msg.parts = "answer"
    /\ worker[w] = "failRun" => run.status = "running" /\ msg.status = "failed"
    /\ worker[w] \in {"finally", "release"} => IsOver

WorkerStory == \A w \in Workers : StoryOf(w)

\* ... and the lock is not free again before the run is decided.
RowsStory ==
    /\ job.state # "none" /\ key = Lock!NoToken => Untouched
    /\ IsOver =>
        /\ msg.status = run.status
        /\ run.status = "completed" => msg.parts = "answer"

Story ==
    Undisturbed => OthersAway /\ StarterStory /\ WorkerStory /\ RowsStory

\* Where a handler has the lock.
Inside == ExecuteRunPC \cup {"release"}

\* As long as no TTL elapsed, the lock is not free while somebody is there.
Locked ==
    expired = {} =>
        \A w \in Workers : worker[w] \in Inside => key # Lock!NoToken

LEMMA LockedInside == Lock!LockIInv /\ HoldsLock => Locked
BY DEF Lock!LockIInv, Lock!LiveLeaseOwnsKey, Lock!HoldsLiveLease, HoldsLock,
   Locked, Inside

\* Each step of the system keeps the story.
LEMMA StoryStep ==
    TypeOK /\ Alone /\ Locked /\ Story /\ [Next]_vars => Story'
<1> SUFFICES ASSUME TypeOK, Alone, Locked, Story, [Next]_vars PROVE Story'
  OBVIOUS
<1>t. /\ run \in [status : Status \cup {Absent},
                  phase : RunPhase \cup {Absent},
                  linked : BOOLEAN, sysLinked : BOOLEAN]
      /\ msg \in [status : Status \cup {Absent}, parts : Parts]
      /\ job \in [state : JobState, owner : Workers \cup {Nobody},
                  stalls : 0..MaxStalls]
      /\ cancel \in [Cancellers -> CancelPC]
      /\ worker \in [Workers -> WorkerPC]
      /\ local \in [Workers -> [seen : Status \cup {Absent}, bound : BOOLEAN,
                                emitted : 0..MaxEvents]]
      /\ crashes \in [worker : 0..MaxWorkerCrashes, api : 0..MaxApiCrashes]
  BY DEF TypeOK, RunRow, MessageRow, JobRow, LocalRow
<1>o. \A v, w \in Workers :
          expired = {} /\ worker[v] \in Inside /\ worker[w] \in Inside => v = w
  BY DEF Alone, Inside
<1>k. \A w \in Workers :
          expired = {} /\ worker[w] \in Inside => key # Lock!NoToken
  BY DEF Locked, Inside
<1> USE <1>t, <1>o
    DEF Undisturbed, OthersAway, StarterStory, Untouched, Compressing,
        Answering, StoryOf, WorkerStory, RowsStory, Story, IsOver,
        Terminal, Absent, Cancellers, Inside, ExecuteRunPC,
        rowVars, lockVars, apiVars, starterFrame, cancelFrame,
        workerFrame, queueFrame, cleanerFrame
<1>1. CASE StartRun
  <2>1. CASE StartCreateRun
    BY <2>1 DEF StartCreateRun, StarterGoes
  <2>2. CASE StartCreateMessage
    BY <2>2 DEF StartCreateMessage, StarterGoes, WriteMessage
  <2>3. CASE StartInitDraft
    BY <2>3 DEF StartInitDraft, StarterGoes
  <2>4. CASE StartLink
    <3>1. CASE LinkMessage /\ starter' = "enqueue"
      BY <2>4, <3>1 DEF StartLink, LinkMessage
    <3>2. CASE LinkThrows /\ starter' = "failCheck"
      BY <3>2
    <3> QED
      BY <2>4, <3>1, <3>2 DEF StartLink
  <2>5. CASE StartEnqueue
    BY <2>5 DEF StartEnqueue, StarterGoes
  <2>6. CASE StartRedisFails
    BY <2>6 DEF StartRedisFails
  <2>7. CASE StartFailCheck
    BY <2>7 DEF StartFailCheck, MayBecome, ValidTransition
  <2>8. CASE StartFailWrite
    BY <2>8 DEF StartFailWrite, StarterGoes, WriteMessage
  <2>9. CASE StartFailRun
    BY <2>9 DEF StartFailRun, CanUpdateRun, ValidTransition,
       PhaseMatchesStatus, EndRunThrows
  <2>10. CASE StartFailDraft
    BY <2>10 DEF StartFailDraft, StarterGoes
  <2> HIDE DEF Story
  <2> QED
    BY <1>1, <2>1, <2>2, <2>3, <2>4, <2>5, <2>6, <2>7, <2>8, <2>9, <2>10
       DEF StartRun
<1>2. ASSUME NEW c \in Requests, RequestCancel(c) PROVE Story'
  BY <1>2 DEF RequestCancel, CancelReadsRun
<1>3. ASSUME NEW c \in Cancellers, CancelRun(c) PROVE Story'
  <2>1. CASE CancelSetFlag(c)
    BY <2>1 DEF CancelSetFlag, CancelGoes
  <2>2. CASE CancelReadSystem(c)
    BY <2>2 DEF CancelReadSystem, CancelDecides, CancelGoes
  <2>3. CASE CancelCheckSystem(c)
    BY <2>3 DEF CancelCheckSystem, CancelDecides, CancelGoes,
       ValidTransition
  <2>4. CASE CancelWriteSystem(c)
    BY <2>4 DEF CancelWriteSystem, CancelGoes
  <2>5. CASE CancelReadMessage(c)
    BY <2>5 DEF CancelReadMessage
  <2>6. CASE CancelReadDraft(c)
    BY <2>6 DEF CancelReadDraft, CancelGoes
  <2>7. CASE CancelCloseSteps(c)
    BY <2>7 DEF CancelCloseSteps, CancelGoes
  <2>8. CASE CancelCheckMessage(c)
    BY <2>8 DEF CancelCheckMessage, CancelDecides, CancelGoes,
       MayBecome, ValidTransition
  <2>9. CASE CancelWriteMessage(c)
    BY <2>9 DEF CancelWriteMessage, CancelGoes, WriteMessage
  <2>10. CASE CancelRemoveDraft(c)
    BY <2>10 DEF CancelRemoveDraft, CancelGoes
  <2>11. CASE CancelEndRun(c)
    BY <2>11 DEF CancelEndRun, EndRun, CanUpdateRun, ValidTransition,
       PhaseMatchesStatus, EndRunThrows
  <2> HIDE DEF Story
  <2> QED
    BY <1>3, <2>1, <2>2, <2>3, <2>4, <2>5, <2>6, <2>7, <2>8, <2>9,
       <2>10, <2>11 DEF CancelRun
<1>4. ASSUME NEW w \in Workers, Deliver(w) PROVE Story'
  BY <1>4 DEF Deliver, WorkerGoes
<1>5. CASE Stall
  BY <1>5 DEF Stall, MayRetry, Nobody
<1>6. ASSUME NEW w \in Workers, HandleJob(w) PROVE Story'
  <2>1. CASE CheckQueuedRun(w)
    BY <2>1 DEF CheckQueuedRun, CancelReadsRun
  <2>2. CASE AcquireLock(w)
    BY <2>2 DEF AcquireLock, Lock!Acquire
  <2>3. CASE ReleaseLock(w)
    BY <2>3 DEF ReleaseLock, WorkerGoes, Lock!Release,
       Lock!KeyAfterRelease
  <2>4. CASE GuardAborts(w)
    <3> SUFFICES ASSUME Undisturbed' PROVE Story'
      OBVIOUS
    <3>1. Undisturbed
      BY <2>4 DEF GuardAborts, Decides, GuardPoints
    <3>2. \A v \in Workers \ {w} :
              worker[v] \notin Inside /\ worker'[v] = worker[v]
      BY <2>4, <3>1 DEF GuardAborts, Decides, GuardPoints, WorkerGoes
    <3>3. starter = "returned" /\ job.state # "none"
      BY <2>4, <3>1 DEF GuardAborts, Decides, GuardPoints, WorkerGoes
    <3>4. IsOver
      BY <2>4, <3>1, <3>3 DEF GuardAborts, Status
    <3>5. worker' = [worker EXCEPT ![w] = "finally"]
      BY <2>4, Zenon DEF GuardAborts, Decides, WorkerGoes
    <3>6. UNCHANGED <<rowVars, draft, local, workerFrame>>
      BY <2>4, Zenon DEF GuardAborts, Decides
    <3> QED
      BY <3>1, <3>2, <3>3, <3>4, <3>5, <3>6
  <2>5. CASE GuardCancels(w)
    BY <2>5 DEF GuardCancels, GuardPoints, CancelReadsRun
  <2>6. CASE CancelledItself(w)
    BY <2>6 DEF CancelledItself
  <2>7. CASE EnterRefresh(w)
    BY <2>7 DEF EnterRefresh, GuardPasses, Decides, WorkerGoes
  <2>8. CASE SkipRefresh(w)
    BY <2>8 DEF SkipRefresh, Decides, WorkerGoes
  <2>9. CASE CreateSystemMessage(w)
    BY <2>9 DEF CreateSystemMessage, WorkerGoes
  <2>10. CASE LinkSystemMessage(w)
    <3> SUFFICES ASSUME Undisturbed' PROVE Story'
      OBVIOUS
    <3>1. Undisturbed
      BY <2>10 DEF LinkSystemMessage
    <3>2. \A v \in Workers \ {w} :
              worker[v] \notin Inside /\ worker'[v] = worker[v]
      BY <2>10, <3>1 DEF LinkSystemMessage, WorkerGoes
    <3>3. starter = "returned" /\ job.state # "none"
      BY <2>10, <3>1 DEF LinkSystemMessage, WorkerGoes
    <3>4. /\ run'.status = run.status
          /\ worker' = [worker EXCEPT ![w] = "summarize"]
      BY <2>10, <3>1 DEF LinkSystemMessage, CanUpdateRun,
         ValidTransition, PhaseMatchesStatus
    <3> QED
      BY <2>10, <3>1, <3>2, <3>3, <3>4 DEF LinkSystemMessage
  <2>11. CASE SummaryArrives(w)
    BY <2>11 DEF SummaryArrives, Decides, WorkerGoes
  <2>12. CASE SummaryFails(w)
    BY <2>12 DEF SummaryFails, Decides, WorkerGoes, RefreshCatch
  <2>13. CASE CheckSystemMessage(w)
    BY <2>13 DEF CheckSystemMessage, Decides, WorkerGoes,
       ValidTransition, RefreshCatch
  <2>14. CASE WriteSystemMessage(w)
    BY <2>14 DEF WriteSystemMessage, WorkerGoes
  <2>15. CASE LoadMessage(w)
    BY <2>15 DEF LoadMessage, WorkerGoes, GuardPasses
  <2>16. CASE EnsureDraft(w)
    BY <2>16 DEF EnsureDraft, WorkerGoes
  <2>17. CASE EnterAnswering(w)
    <3> SUFFICES ASSUME Undisturbed' PROVE Story'
      OBVIOUS
    <3>1. Undisturbed
      BY <2>17 DEF EnterAnswering
    <3>2. \A v \in Workers \ {w} :
              worker[v] \notin Inside /\ worker'[v] = worker[v]
      BY <2>17, <3>1 DEF EnterAnswering, WorkerGoes
    <3>3. starter = "returned" /\ job.state # "none"
      BY <2>17, <3>1 DEF EnterAnswering, WorkerGoes
    <3>4. run'.status = run.status /\ worker' = [worker EXCEPT ![w] = "agent"]
      BY <2>17, <3>1 DEF EnterAnswering, LinkMessage, LinkThrows,
         CanUpdateRun, ValidTransition, PhaseMatchesStatus
    <3> QED
      BY <2>17, <3>1, <3>2, <3>3, <3>4 DEF EnterAnswering
  <2>18. CASE EmitDelta(w)
    BY <2>18 DEF EmitDelta, Emits, WorkerGoes
  <2>19. CASE EmitStepStart(w)
    BY <2>19 DEF EmitStepStart, GuardPasses, Emits, WorkerGoes
  <2>20. CASE EmitStepEnd(w)
    BY <2>20 DEF EmitStepEnd, GuardPasses, Emits, WorkerGoes
  <2>21. CASE AppendDelta(w)
    BY <2>21 DEF AppendDelta, WorkerGoes
  <2>22. CASE StoreStep(w)
    BY <2>22 DEF StoreStep, WorkerGoes
  <2>23. CASE AgentReturns(w)
    BY <2>23 DEF AgentReturns, Decides, WorkerGoes
  <2>24. CASE AgentThrows(w)
    BY <2>24 DEF AgentThrows, Decides, WorkerGoes
  <2>25. CASE SettleAnswer(w)
    BY <2>25 DEF SettleAnswer, WorkerGoes, GuardPasses
  <2>26. CASE SetAnswerText(w)
    BY <2>26 DEF SetAnswerText
  <2>27. CASE RewriteParts(w)
    BY <2>27 DEF RewriteParts, WorkerGoes, WriteMessage
  <2>28. CASE CloseSteps(w)
    BY <2>28 DEF CloseSteps, WorkerGoes
  <2>29. CASE CompleteCheck(w)
    BY <2>29 DEF CompleteCheck, Decides, WorkerGoes, MayBecome,
       ValidTransition
  <2>30. CASE CompleteWrite(w)
    <3> SUFFICES ASSUME Undisturbed' PROVE Story'
      OBVIOUS
    <3>1. Undisturbed
      BY <2>30 DEF CompleteWrite
    <3>2. \A v \in Workers \ {w} :
              worker[v] \notin Inside /\ worker'[v] = worker[v]
      BY <2>30, <3>1 DEF CompleteWrite, WorkerGoes
    <3>3. starter = "returned" /\ job.state # "none"
      BY <2>30, <3>1 DEF CompleteWrite, WorkerGoes
    <3>4. /\ worker[w] = "completeWrite"
          /\ worker' = [worker EXCEPT ![w] = "completeRun"]
          /\ msg' = [status |-> "completed", parts |-> "answer"]
      BY <2>30, Zenon DEF CompleteWrite, WorkerGoes, WriteMessage
    <3>5. UNCHANGED <<run, sysmsg, stepOpen, draft, local, workerFrame>>
      BY <2>30, Zenon DEF CompleteWrite
    <3>6. key # Lock!NoToken /\ run.status = "running"
      BY <3>1, <3>4, <1>k
    <3>7. OthersAway' /\ StarterStory'
      BY <3>1, <3>3, <3>4, <3>5
    <3>8. WorkerStory'
      BY <3>1, <3>2, <3>3, <3>4, <3>5, <3>6
    <3>9. RowsStory'
      BY <3>1, <3>4, <3>5, <3>6
    <3> QED
      BY <3>7, <3>8, <3>9, Zenon DEF Story
  <2>31. CASE CompleteRun(w)
    <3> SUFFICES ASSUME Undisturbed' PROVE Story'
      OBVIOUS
    <3>1. Undisturbed
      BY <2>31 DEF CompleteRun
    <3>2. \A v \in Workers \ {w} :
              worker[v] \notin Inside /\ worker'[v] = worker[v]
      BY <2>31, <3>1 DEF CompleteRun, WorkerGoes
    <3>3. starter = "returned" /\ job.state # "none"
      BY <2>31, <3>1 DEF CompleteRun, WorkerGoes
    <3>4. /\ run'.status = "completed"
          /\ worker' = [worker EXCEPT ![w] = "finally"]
      BY <2>31, <3>1 DEF CompleteRun, EndRun, EndRunThrows,
         CanUpdateRun, ValidTransition, PhaseMatchesStatus
    <3> QED
      BY <2>31, <3>1, <3>2, <3>3, <3>4 DEF CompleteRun
  <2>32. CASE Catch(w)
    BY <2>32 DEF Catch, Decides, WorkerGoes
  <2>33. CASE FailText(w)
    BY <2>33 DEF FailText, WorkerGoes
  <2>34. CASE FailCheck(w)
    BY <2>34 DEF FailCheck, Decides, WorkerGoes, MayBecome,
       ValidTransition
  <2>35. CASE FailWrite(w)
    <3> SUFFICES ASSUME Undisturbed' PROVE Story'
      OBVIOUS
    <3>1. Undisturbed
      BY <2>35 DEF FailWrite
    <3>2. \A v \in Workers \ {w} :
              worker[v] \notin Inside /\ worker'[v] = worker[v]
      BY <2>35, <3>1 DEF FailWrite, WorkerGoes
    <3>3. starter = "returned" /\ job.state # "none"
      BY <2>35, <3>1 DEF FailWrite, WorkerGoes
    <3>4. /\ worker[w] = "failWrite"
          /\ worker' = [worker EXCEPT ![w] = "failRun"]
          /\ msg' = [status |-> "failed", parts |-> "failure"]
      BY <2>35, Zenon DEF FailWrite, WorkerGoes, WriteMessage
    <3>5. UNCHANGED <<run, sysmsg, stepOpen, draft, local, workerFrame>>
      BY <2>35, Zenon DEF FailWrite
    <3>6. key # Lock!NoToken /\ run.status = "running"
      BY <3>1, <3>4, <1>k
    <3>7. OthersAway' /\ StarterStory'
      BY <3>1, <3>3, <3>4, <3>5
    <3>8. WorkerStory'
      BY <3>1, <3>2, <3>3, <3>4, <3>5, <3>6
    <3>9. RowsStory'
      BY <3>1, <3>4, <3>5, <3>6
    <3> QED
      BY <3>7, <3>8, <3>9, Zenon DEF Story
  <2>36. CASE FailRun(w)
    <3> SUFFICES ASSUME Undisturbed' PROVE Story'
      OBVIOUS
    <3>1. Undisturbed
      BY <2>36 DEF FailRun
    <3>2. \A v \in Workers \ {w} :
              worker[v] \notin Inside /\ worker'[v] = worker[v]
      BY <2>36, <3>1 DEF FailRun, WorkerGoes
    <3>3. starter = "returned" /\ job.state # "none"
      BY <2>36, <3>1 DEF FailRun, WorkerGoes
    <3>4. /\ worker[w] = "failRun"
          /\ worker' = [worker EXCEPT ![w] = "finally"]
          /\ UNCHANGED <<msg, sysmsg, stepOpen, draft, local, workerFrame>>
      BY <2>36, Zenon DEF FailRun, WorkerGoes
    <3>5. run.status = "running" /\ msg.status = "failed"
      BY <3>1, <3>4
    <3>6. run'.status = "failed"
      BY <2>36, <3>5 DEF FailRun, EndRun, EndRunThrows, CanUpdateRun,
         ValidTransition, PhaseMatchesStatus
    <3>7. OthersAway' /\ StarterStory'
      BY <3>1, <3>3, <3>4, <3>5, <3>6
    <3>8. WorkerStory'
      BY <3>1, <3>2, <3>3, <3>4, <3>5, <3>6
    <3>9. RowsStory'
      BY <3>1, <3>4, <3>5, <3>6
    <3> QED
      BY <3>7, <3>8, <3>9, Zenon DEF Story
  <2>37. CASE Finally(w)
    BY <2>37 DEF Finally, WorkerGoes
  <2>38. CASE Acknowledge(w)
    BY <2>38 DEF Acknowledge, WorkerGoes, Nobody
  <2> HIDE DEF Story
  <2> QED
    BY <1>6, <2>1, <2>2, <2>3, <2>4, <2>5, <2>6, <2>7, <2>8, <2>9,
       <2>10, <2>11, <2>12, <2>13, <2>14, <2>15, <2>16, <2>17, <2>18,
       <2>19, <2>20, <2>21, <2>22, <2>23, <2>24, <2>25, <2>26, <2>27,
       <2>28, <2>29, <2>30, <2>31, <2>32, <2>33, <2>34, <2>35, <2>36,
       <2>37, <2>38 DEF HandleJob
<1>7. CASE ApiCrash
  BY <1>7 DEF ApiCrash
<1>8. CASE ApiRestart
  BY <1>8 DEF ApiRestart
<1>9. CASE Cleanup
  <2>1. CASE CleanupScan
    BY <2>1 DEF CleanupScan
  <2>2. CASE CleanupReadSystem
    BY <2>2 DEF CleanupReadSystem
  <2>3. CASE CleanupCheckSystem
    BY <2>3 DEF CleanupCheckSystem, ValidTransition
  <2>4. CASE CleanupWriteSystem
    BY <2>4 DEF CleanupWriteSystem
  <2>5. CASE CleanupReadMessage
    BY <2>5 DEF CleanupReadMessage
  <2>6. CASE CleanupCheckMessage
    BY <2>6 DEF CleanupCheckMessage, MayBecome, ValidTransition
  <2>7. CASE CleanupWriteMessage
    BY <2>7 DEF CleanupWriteMessage, WriteMessage
  <2>8. CASE CleanupRemoveDraft
    BY <2>8 DEF CleanupRemoveDraft
  <2>9. CASE CleanupEndRun
    BY <2>9 DEF CleanupEndRun, EndRun, CanUpdateRun, ValidTransition,
       PhaseMatchesStatus, EndRunThrows
  <2> HIDE DEF Story
  <2> QED
    BY <1>9, <2>1, <2>2, <2>3, <2>4, <2>5, <2>6, <2>7, <2>8, <2>9 DEF
       Cleanup
<1>10. ASSUME NEW w \in Workers, WorkerCrash(w) PROVE Story'
  BY <1>10 DEF WorkerCrash, Lock!LockCrash
<1>11. CASE LockExpires
  BY <1>11 DEF LockExpires, Lock!Expire
<1>12. CASE UNCHANGED vars
  BY <1>12 DEF vars
<1> HIDE DEF Story
<1> QED
  BY <1>1, <1>2, <1>3, <1>4, <1>5, <1>6, <1>7, <1>8, <1>9, <1>10, <1>11,
     <1>12 DEF Next, Rest

(***************************************************************************)
(* A run that was queued, that nobody cancelled and no cleanup touched, is *)
(* decided as its message is: only the handler that has the lock writes    *)
(* the two, the message first, and the lock is not free again before the   *)
(* run is decided, unless a TTL elapsed.                                   *)
(***************************************************************************)
THEOREM SameStory == Spec => []OutcomesAgree
<1>1. Init => HoldsLock /\ Story
  BY DEF Init, HoldsLock, ExecuteRunPC, Story, Undisturbed, OthersAway,
     StarterStory, WorkerStory, StoryOf, RowsStory, Untouched, Compressing,
     Answering, IsOver, Terminal, Absent
<1>2. Story => OutcomesAgree
  BY DEF Story, RowsStory, Undisturbed, OutcomesAgree
<1> QED
  BY <1>1, <1>2, AloneInside, LockedInside, HoldsLockStep, StoryStep,
     TypeCorrect, LockInvariant, PTL DEF Spec
-----------------------------------------------------------------------------
(* The draft of a decided run is gone.                                     *)

\* A Worker is in cancelRun only while its guard waits for it.
OwnCancel == \A w \in Workers : cancel[w] # "idle" => worker[w] = "cancelling"

\* Until startRun returns, nobody else knows of the run.
NotYetReturned ==
    /\ starter \in {"createRun", "createMessage", "initDraft", "link",
                    "enqueue"}
         => job.state = "none" /\ \A c \in Cancellers : cancel[c] = "idle"
    /\ starter \in {"initDraft", "link", "enqueue"} => msg.status = "running"

\* A handler without the lock has not come to the message.
BoundLater ==
    \A w \in Workers :
        /\ worker[w] \in {"idle", "check", "acquire"} => ~local[w].bound
        /\ worker[w] = "cancelling" /\ lease[w] = Lock!NoToken
             => ~local[w].bound

\* Somebody will still remove the draft of a decided message: a handler that
\* has come to the message, in its finally, or a canceller.
RemovesDraft(w) == local[w].bound /\ worker[w] \notin {"release", "ack"}

Watched ==
    NoCrash /\ starter = "returned" /\ Decided /\ draft # NoDraft =>
        \/ \E w \in Workers : RemovesDraft(w)
        \/ \E c \in Cancellers : cancel[c] = "undraft"

\* The cleanup runs only after the API died.
CleansAfterCrash == cleaner # "idle" \/ api # "up" => crashes.api # 0

DraftWatched ==
    OwnCancel /\ NotYetReturned /\ BoundLater /\ Watched /\ CleansAfterCrash

\* Each step of the system keeps the draft watched.
LEMMA DraftStep ==
    Assumptions /\ TypeOK /\ HoldsLock /\ Order /\ DraftWatched /\ [Next]_vars
        => DraftWatched'
<1> SUFFICES ASSUME Assumptions, TypeOK, HoldsLock, Order, DraftWatched,
                    [Next]_vars
             PROVE  DraftWatched'
  OBVIOUS
<1>t. /\ run \in [status : Status \cup {Absent},
                  phase : RunPhase \cup {Absent},
                  linked : BOOLEAN, sysLinked : BOOLEAN]
      /\ msg \in [status : Status \cup {Absent}, parts : Parts]
      /\ job \in [state : JobState, owner : Workers \cup {Nobody},
                  stalls : 0..MaxStalls]
      /\ cancel \in [Cancellers -> CancelPC]
      /\ worker \in [Workers -> WorkerPC]
      /\ local \in [Workers -> [seen : Status \cup {Absent}, bound : BOOLEAN,
                                emitted : 0..MaxEvents]]
      /\ lease \in [Workers -> Lock!Token \cup {Lock!NoToken}]
      /\ crashes \in [worker : Nat, api : Nat]
  BY RunExecutionAssumption
     DEF TypeOK, RunRow, MessageRow, JobRow, LocalRow, Lock!LockTypeOK
<1>o. /\ ~EarlyCancel
      /\ \A w \in Workers : worker[w] \in Bound => local[w].bound
      /\ \A w \in Workers : worker[w] # "idle" => job.state # "none"
      /\ \A w \in Workers : worker[w] = "rewrite" =>
                                     local[w].seen \in Terminal
      /\ cleaner # "idle" => starter \in {"returned", "raised", "killed"}
      /\ \A c \in Requests : c \notin Workers
  BY RunExecutionAssumption
     DEF Assumptions, Order, WorkerOrder, JobOrder, CleanerOrder, Decided,
         Terminal
<1>l. \A w \in Workers :
          worker[w] \in ExecuteRunPC \cup {"release"} => lease[w] # Lock!NoToken
  BY DEF HoldsLock
<1> USE <1>t, <1>o, <1>l
    DEF OwnCancel, NotYetReturned, BoundLater, RemovesDraft, Watched,
        CleansAfterCrash, DraftWatched, NoCrash, Decided,
        Terminal, Absent, Cancellers, Bound, ExecuteRunPC,
        rowVars, lockVars, apiVars, starterFrame, cancelFrame,
        workerFrame, queueFrame, cleanerFrame
<1>1. CASE StartRun
  <2>1. CASE StartCreateRun
    BY <2>1 DEF StartCreateRun, StarterGoes
  <2>2. CASE StartCreateMessage
    BY <2>2 DEF StartCreateMessage, StarterGoes, WriteMessage
  <2>3. CASE StartInitDraft
    BY <2>3 DEF StartInitDraft, StarterGoes
  <2>4. CASE StartLink
    BY <2>4 DEF StartLink, LinkMessage, CanUpdateRun, ValidTransition,
       PhaseMatchesStatus, LinkThrows
  <2>5. CASE StartEnqueue
    BY <2>5 DEF StartEnqueue, StarterGoes
  <2>6. CASE StartRedisFails
    BY <2>6 DEF StartRedisFails
  <2>7. CASE StartFailCheck
    BY <2>7 DEF StartFailCheck, MayBecome, ValidTransition
  <2>8. CASE StartFailWrite
    BY <2>8 DEF StartFailWrite, StarterGoes, WriteMessage
  <2>9. CASE StartFailRun
    BY <2>9 DEF StartFailRun, CanUpdateRun, ValidTransition,
       PhaseMatchesStatus, EndRunThrows
  <2>10. CASE StartFailDraft
    BY <2>10 DEF StartFailDraft, StarterGoes, NoDraft
  <2> HIDE DEF DraftWatched
  <2> QED
    BY <1>1, <2>1, <2>2, <2>3, <2>4, <2>5, <2>6, <2>7, <2>8, <2>9, <2>10
       DEF StartRun
<1>2. ASSUME NEW c \in Requests, RequestCancel(c) PROVE DraftWatched'
  BY <1>2 DEF RequestCancel, CancelReadsRun
<1>3. ASSUME NEW c \in Cancellers, CancelRun(c) PROVE DraftWatched'
  <2>1. CASE CancelSetFlag(c)
    BY <2>1 DEF CancelSetFlag, CancelGoes
  <2>2. CASE CancelReadSystem(c)
    BY <2>2 DEF CancelReadSystem, CancelDecides, CancelGoes
  <2>3. CASE CancelCheckSystem(c)
    BY <2>3 DEF CancelCheckSystem, CancelDecides, CancelGoes,
       ValidTransition
  <2>4. CASE CancelWriteSystem(c)
    BY <2>4 DEF CancelWriteSystem, CancelGoes
  <2>5. CASE CancelReadMessage(c)
    BY <2>5 DEF CancelReadMessage
  <2>6. CASE CancelReadDraft(c)
    BY <2>6 DEF CancelReadDraft, CancelGoes, NoDraft
  <2>7. CASE CancelCloseSteps(c)
    BY <2>7 DEF CancelCloseSteps, CancelGoes
  <2>8. CASE CancelCheckMessage(c)
    BY <2>8 DEF CancelCheckMessage, CancelDecides, CancelGoes,
       MayBecome, ValidTransition
  <2>9. CASE CancelWriteMessage(c)
    BY <2>9 DEF CancelWriteMessage, CancelGoes, WriteMessage
  <2>10. CASE CancelRemoveDraft(c)
    BY <2>10 DEF CancelRemoveDraft, CancelGoes, NoDraft
  <2>11. CASE CancelEndRun(c)
    BY <2>11 DEF CancelEndRun, EndRun, CanUpdateRun, ValidTransition,
       PhaseMatchesStatus, EndRunThrows
  <2> HIDE DEF DraftWatched
  <2> QED
    BY <1>3, <2>1, <2>2, <2>3, <2>4, <2>5, <2>6, <2>7, <2>8, <2>9,
       <2>10, <2>11 DEF CancelRun
<1>4. ASSUME NEW w \in Workers, Deliver(w) PROVE DraftWatched'
  BY <1>4 DEF Deliver, WorkerGoes
<1>5. CASE Stall
  BY <1>5 DEF Stall, MayRetry, Nobody
<1>6. ASSUME NEW w \in Workers, HandleJob(w) PROVE DraftWatched'
  <2>1. CASE CheckQueuedRun(w)
    <3>1. CASE run.status # "running"
      BY <2>1, <3>1 DEF CheckQueuedRun
    <3>2. CASE run.status = "running" /\ cancelFlag
      BY <2>1, <3>2 DEF CheckQueuedRun, CancelReadsRun
    <3>3. CASE run.status = "running" /\ ~cancelFlag
      BY <2>1, <3>3 DEF CheckQueuedRun
    <3> QED
      BY <3>1, <3>2, <3>3
  <2>2. CASE AcquireLock(w)
    BY <2>2 DEF AcquireLock, Lock!Acquire
  <2>3. CASE ReleaseLock(w)
    BY <2>3 DEF ReleaseLock, WorkerGoes, Lock!Release,
       Lock!KeyAfterRelease
  <2>4. CASE GuardAborts(w)
    BY <2>4 DEF GuardAborts, GuardPoints, Decides, WorkerGoes
  <2>5. CASE GuardCancels(w)
    BY <2>5 DEF GuardCancels, GuardPoints, CancelReadsRun
  <2>6. CASE CancelledItself(w)
    BY <2>6 DEF CancelledItself
  <2>7. CASE EnterRefresh(w)
    BY <2>7 DEF EnterRefresh, GuardPasses, Decides, WorkerGoes
  <2>8. CASE SkipRefresh(w)
    BY <2>8 DEF SkipRefresh, Decides, WorkerGoes
  <2>9. CASE CreateSystemMessage(w)
    BY <2>9 DEF CreateSystemMessage, WorkerGoes
  <2>10. CASE LinkSystemMessage(w)
    BY <2>10 DEF LinkSystemMessage, CanUpdateRun, ValidTransition,
       PhaseMatchesStatus
  <2>11. CASE SummaryArrives(w)
    BY <2>11 DEF SummaryArrives, Decides, WorkerGoes
  <2>12. CASE SummaryFails(w)
    BY <2>12 DEF SummaryFails, Decides, WorkerGoes, RefreshCatch
  <2>13. CASE CheckSystemMessage(w)
    BY <2>13 DEF CheckSystemMessage, Decides, WorkerGoes,
       ValidTransition, RefreshCatch
  <2>14. CASE WriteSystemMessage(w)
    BY <2>14 DEF WriteSystemMessage, WorkerGoes
  <2>15. CASE LoadMessage(w)
    BY <2>15 DEF LoadMessage, WorkerGoes, GuardPasses
  <2>16. CASE EnsureDraft(w)
    BY <2>16 DEF EnsureDraft, WorkerGoes, NoDraft
  <2>17. CASE EnterAnswering(w)
    <3>1. CASE LinkMessage /\ worker' = [worker EXCEPT ![w] = "agent"]
      BY <2>17, <3>1 DEF EnterAnswering
    <3>2. CASE LinkThrows /\ worker' = [worker EXCEPT ![w] = "catch"]
      BY <2>17, <3>2 DEF EnterAnswering
    <3> QED
      BY <2>17, <3>1, <3>2 DEF EnterAnswering
  <2>18. CASE EmitDelta(w)
    BY <2>18 DEF EmitDelta, Emits, WorkerGoes
  <2>19. CASE EmitStepStart(w)
    BY <2>19 DEF EmitStepStart, GuardPasses, Emits, WorkerGoes
  <2>20. CASE EmitStepEnd(w)
    BY <2>20 DEF EmitStepEnd, GuardPasses, Emits, WorkerGoes
  <2>21. CASE AppendDelta(w)
    BY <2>21 DEF AppendDelta, WorkerGoes, NoDraft
  <2>22. CASE StoreStep(w)
    BY <2>22 DEF StoreStep, WorkerGoes
  <2>23. CASE AgentReturns(w)
    BY <2>23 DEF AgentReturns, Decides, WorkerGoes
  <2>24. CASE AgentThrows(w)
    BY <2>24 DEF AgentThrows, Decides, WorkerGoes
  <2>25. CASE SettleAnswer(w)
    BY <2>25 DEF SettleAnswer, WorkerGoes, GuardPasses
  <2>26. CASE SetAnswerText(w)
    BY <2>26 DEF SetAnswerText
  <2>27. CASE RewriteParts(w)
    BY <2>27 DEF RewriteParts, WorkerGoes, WriteMessage
  <2>28. CASE CloseSteps(w)
    BY <2>28 DEF CloseSteps, WorkerGoes
  <2>29. CASE CompleteCheck(w)
    BY <2>29 DEF CompleteCheck, Decides, WorkerGoes, MayBecome,
       ValidTransition
  <2>30. CASE CompleteWrite(w)
    BY <2>30 DEF CompleteWrite, WorkerGoes, WriteMessage
  <2>31. CASE CompleteRun(w)
    BY <2>31 DEF CompleteRun, EndRun, CanUpdateRun, ValidTransition,
       PhaseMatchesStatus, EndRunThrows
  <2>32. CASE Catch(w)
    BY <2>32 DEF Catch, Decides, WorkerGoes
  <2>33. CASE FailText(w)
    BY <2>33 DEF FailText, WorkerGoes, NoDraft
  <2>34. CASE FailCheck(w)
    BY <2>34 DEF FailCheck, Decides, WorkerGoes, MayBecome,
       ValidTransition
  <2>35. CASE FailWrite(w)
    BY <2>35 DEF FailWrite, WorkerGoes, WriteMessage
  <2>36. CASE FailRun(w)
    BY <2>36 DEF FailRun, WorkerGoes, EndRun, CanUpdateRun,
       ValidTransition, PhaseMatchesStatus, EndRunThrows
  <2>37. CASE Finally(w)
    BY <2>37 DEF Finally, WorkerGoes, NoDraft
  <2>38. CASE Acknowledge(w)
    BY <2>38 DEF Acknowledge, WorkerGoes, Nobody, FreshLocal
  <2> HIDE DEF DraftWatched
  <2> QED
    BY <1>6, <2>1, <2>2, <2>3, <2>4, <2>5, <2>6, <2>7, <2>8, <2>9,
       <2>10, <2>11, <2>12, <2>13, <2>14, <2>15, <2>16, <2>17, <2>18,
       <2>19, <2>20, <2>21, <2>22, <2>23, <2>24, <2>25, <2>26, <2>27,
       <2>28, <2>29, <2>30, <2>31, <2>32, <2>33, <2>34, <2>35, <2>36,
       <2>37, <2>38 DEF HandleJob
<1>7. CASE ApiCrash
  BY <1>7 DEF ApiCrash
<1>8. CASE ApiRestart
  BY <1>8 DEF ApiRestart
<1>9. CASE Cleanup
  <2>1. CASE CleanupScan
    BY <2>1 DEF CleanupScan
  <2>2. CASE CleanupReadSystem
    BY <2>2 DEF CleanupReadSystem
  <2>3. CASE CleanupCheckSystem
    BY <2>3 DEF CleanupCheckSystem, ValidTransition
  <2>4. CASE CleanupWriteSystem
    BY <2>4 DEF CleanupWriteSystem
  <2>5. CASE CleanupReadMessage
    BY <2>5 DEF CleanupReadMessage
  <2>6. CASE CleanupCheckMessage
    BY <2>6 DEF CleanupCheckMessage, MayBecome, ValidTransition
  <2>7. CASE CleanupWriteMessage
    BY <2>7 DEF CleanupWriteMessage, WriteMessage
  <2>8. CASE CleanupRemoveDraft
    BY <2>8 DEF CleanupRemoveDraft, NoDraft
  <2>9. CASE CleanupEndRun
    BY <2>9 DEF CleanupEndRun, EndRun, CanUpdateRun, ValidTransition,
       PhaseMatchesStatus, EndRunThrows
  <2> HIDE DEF DraftWatched
  <2> QED
    BY <1>9, <2>1, <2>2, <2>3, <2>4, <2>5, <2>6, <2>7, <2>8, <2>9 DEF
       Cleanup
<1>10. ASSUME NEW w \in Workers, WorkerCrash(w) PROVE DraftWatched'
  BY <1>10 DEF WorkerCrash, FreshLocal, Lock!LockCrash
<1>11. CASE LockExpires
  BY <1>11 DEF LockExpires, Lock!Expire
<1>12. CASE UNCHANGED vars
  BY <1>12 DEF vars
<1> HIDE DEF DraftWatched
<1> QED
  BY <1>1, <1>2, <1>3, <1>4, <1>5, <1>6, <1>7, <1>8, <1>9, <1>10, <1>11,
     <1>12 DEF Next, Rest

(***************************************************************************)
(* When everybody is through and no process has died, the draft of a       *)
(* decided run that was queued is gone: whoever made it again after a      *)
(* canceller removed it is a handler that removes it in its finally.       *)
(***************************************************************************)
THEOREM NoDraftLeft == Assumptions => (Spec => []DraftIsGone)
<1> SUFFICES ASSUME Assumptions PROVE Spec => []DraftIsGone
  OBVIOUS
<1>1. Init => HoldsLock /\ Order
  BY DEF Init, Order, StarterOrder, JobOrder, CancelOrder, CleanerOrder,
     WorkerOrder, NoSystemMessage, LinkedMessageFirst, IsOver, Bound,
     Terminal, Absent, HoldsLock, ExecuteRunPC
<1>2. Init => DraftWatched
  BY DEF Init, DraftWatched, OwnCancel, NotYetReturned, BoundLater, Watched,
     CleansAfterCrash, FreshLocal, Cancellers
<1>3. TypeOK /\ Order /\ DraftWatched => DraftIsGone
  <2> SUFFICES ASSUME TypeOK, Order, DraftWatched, Quiescent, IsOver,
                      starter = "returned", NoCrash
               PROVE  draft = NoDraft
    BY DEF DraftIsGone
  <2>1. Decided
    BY DEF Order, StarterOrder, LinkedMessageFirst, Decided
  <2>2. \A w \in Workers : ~RemovesDraft(w)
    BY DEF Quiescent, DraftWatched, BoundLater, RemovesDraft
  <2>3. \A c \in Cancellers : cancel[c] # "undraft"
    BY DEF Quiescent, DraftWatched, OwnCancel, Cancellers
  <2> QED
    BY <2>1, <2>2, <2>3 DEF DraftWatched, Watched
<1> QED
  BY <1>1, <1>2, <1>3, AloneInside, HoldsLockStep, OrderStep, DraftStep,
     TypeCorrect, LockInvariant, PTL DEF Spec
-----------------------------------------------------------------------------
(* Nobody walks away from a run.                                           *)

\* No process died, no TTL elapsed, and startRun succeeded.
Calm == NoCrash /\ expired = {} /\ starter = "returned"

\* A canceller that will come to the run: nothing it meets before can throw.
Settles(c) == cancel[c] \in {"undraft", "run"}

\* A handler that has the message behind it and will come to the run.
Concludes(w) == worker[w] \in {"completeRun", "failRun"}

RunStarted == starter \notin {"createRun", "killed"} => run.status # Absent

\* A cancelRun that returned found the run decided, or decided it.
CancelMeansOver ==
    \A c \in Cancellers : NoCrash /\ cancel[c] = "done" => IsOver

\* The lock that is taken has somebody who will release it.
LockHasItsHandler ==
    /\ \A w \in Workers :
          lease[w] # Lock!NoToken => worker[w] \in Inside \cup {"cancelling"}
    /\ NoCrash /\ expired = {} /\ key # Lock!NoToken =>
          \E w \in Workers : lease[w] # Lock!NoToken

\* setParts rewrites a decided message only.
RewritesDecided == \A w \in Workers : worker[w] = "rewrite" => Decided

\* Once the message is decided somebody is on the way to the run, a canceller
\* when the executor has given it up.
RunFollowsMessage ==
    Calm /\ run.status = "running" =>
        /\ Decided => \/ \E w \in Workers : Concludes(w)
                      \/ \E c \in Cancellers : Settles(c)
        /\ (\E w \in Workers : worker[w] \in {"finally", "release"}) =>
              \E c \in Cancellers : Settles(c)

Attended ==
    /\ CancelMeansOver /\ LockHasItsHandler /\ RewritesDecided
    /\ RunFollowsMessage /\ RunIsAttended

\* What has happened to the run row stays.
LEMMA RowStays ==
    TypeOK /\ RunShape /\ [Next]_vars =>
        /\ IsOver => IsOver'
        /\ run.status # Absent => run'.status # Absent
<1> SUFFICES ASSUME TypeOK, RunShape, [Next]_vars
             PROVE  /\ IsOver => IsOver'
                    /\ run.status # Absent => run'.status # Absent
  OBVIOUS
<1>1. [Record!Next]_(Record!vars)
  BY RecordStep
<1>2. CASE Record!Next
  BY <1>2 DEF Record!Next, Record!Create, Record!Work, Record!Finish,
     Record!Terminal, Record!Absent, Terminal, Absent, IsOver
<1>3. CASE UNCHANGED Record!vars
  BY <1>3 DEF Record!vars, IsOver
<1> QED
  BY <1>1, <1>2, <1>3

\* A job has an owner as long as a handler is at it.
JobUnowned == job.state # "active" => job.owner = Nobody

LEMMA JobUnownedStep ==
    TypeOK /\ DraftWatched /\ JobUnowned /\ [Next]_vars => JobUnowned'
<1> SUFFICES ASSUME TypeOK, DraftWatched, JobUnowned, [Next]_vars
             PROVE  JobUnowned'
  OBVIOUS
<1>t. job \in JobRow
  BY DEF TypeOK
<1>1. CASE UNCHANGED job
  BY <1>1 DEF JobUnowned
<1>2. CASE StartEnqueue \/ StartRedisFails
  <2>1. job.state = "none"
    BY <1>2 DEF StartEnqueue, StartRedisFails, StarterGoes, DraftWatched, NotYetReturned
  <2> QED
    BY <1>2, <1>t, <2>1 DEF StartEnqueue, StartRedisFails, JobUnowned, JobRow
<1>3. ASSUME NEW w \in Workers, Deliver(w) PROVE JobUnowned'
  BY <1>3, <1>t DEF Deliver, JobUnowned, JobRow
<1>4. CASE Stall
  BY <1>4, <1>t DEF Stall, JobUnowned, JobRow
<1>5. ASSUME NEW w \in Workers, Acknowledge(w) PROVE JobUnowned'
  BY <1>5, <1>t DEF Acknowledge, JobUnowned, JobRow
<1>6. CASE StartRun /\ ~StartEnqueue /\ ~StartRedisFails
  BY <1>1, <1>6 DEF StartRun, StartCreateRun, StartCreateMessage,
     StartInitDraft, StartLink, StartFailCheck, StartFailWrite, StartFailRun,
     StartFailDraft
<1>7. ASSUME NEW w \in Workers, HandleJob(w), ~Acknowledge(w) PROVE UNCHANGED job
  BY <1>7 DEF HandleJob, CheckQueuedRun, AcquireLock, ReleaseLock,
     GuardAborts, GuardCancels, CancelledItself, EnterRefresh, SkipRefresh,
     CreateSystemMessage, LinkSystemMessage, SummaryArrives, SummaryFails,
     CheckSystemMessage, WriteSystemMessage, LoadMessage, EnsureDraft,
     EnterAnswering, EmitDelta, EmitStepStart, EmitStepEnd, AppendDelta,
     StoreStep, AgentReturns, AgentThrows, SettleAnswer, SetAnswerText,
     RewriteParts, CloseSteps, CompleteCheck, CompleteWrite, CompleteRun,
     Catch, FailText, FailCheck, FailWrite, FailRun, Finally,
     Decides, Emits, workerFrame
<1>8. CASE (\E c \in Cancellers : CancelRun(c)) \/ Cleanup
  BY <1>1, <1>8 DEF CancelRun, CancelSetFlag, CancelReadSystem,
     CancelCheckSystem, CancelWriteSystem, CancelReadMessage, CancelReadDraft,
     CancelCloseSteps, CancelCheckMessage, CancelWriteMessage,
     CancelRemoveDraft, CancelEndRun, CancelDecides, cancelFrame,
     Cleanup, CleanupScan, CleanupReadSystem, CleanupCheckSystem,
     CleanupWriteSystem, CleanupReadMessage, CleanupCheckMessage,
     CleanupWriteMessage, CleanupRemoveDraft, CleanupEndRun, cleanerFrame
<1>9. CASE \/ \E c \in Requests : RequestCancel(c)
           \/ \E w \in Workers : WorkerCrash(w)
           \/ ApiCrash \/ ApiRestart \/ LockExpires \/ UNCHANGED vars
  BY <1>1, <1>9 DEF RequestCancel, WorkerCrash, ApiCrash, ApiRestart,
     LockExpires, cancelFrame, cleanerFrame, vars
<1> QED
  BY <1>1, <1>2, <1>3, <1>4, <1>5, <1>6, <1>7, <1>8, <1>9 DEF Next, Rest

LEMMA RunStartedStep ==
    TypeOK /\ RunShape /\ RunStarted /\ [Next]_vars => RunStarted'
<1> SUFFICES ASSUME TypeOK, RunShape, RunStarted, [Next]_vars PROVE RunStarted'
  OBVIOUS
<1>1. CASE StartCreateRun
  <2>1. run'.status = "running"
    BY <1>1 DEF StartCreateRun
  <2> QED
    BY <2>1 DEF RunStarted, Absent
<1>2. ASSUME starter' \notin {"createRun", "killed"} => starter \notin {"createRun", "killed"}
      PROVE  RunStarted'
  BY <1>2, RowStays DEF RunStarted
<1>3. CASE StartRun /\ ~StartCreateRun
  BY <1>2, <1>3 DEF StartRun, StartCreateMessage, StartInitDraft, StartLink,
     StartEnqueue, StartRedisFails, StartFailCheck, StartFailWrite,
     StartFailRun, StartFailDraft, StarterGoes
<1>4. CASE ApiCrash
  BY <1>2, <1>4 DEF ApiCrash
<1>5. CASE UNCHANGED starter
  BY <1>2, <1>5
<1>6. ASSUME NEW w \in Workers, HandleJob(w) PROVE UNCHANGED starter
  BY <1>6 DEF HandleJob, CheckQueuedRun, AcquireLock, ReleaseLock,
     GuardAborts, GuardCancels, CancelledItself, EnterRefresh, SkipRefresh,
     CreateSystemMessage, LinkSystemMessage, SummaryArrives, SummaryFails,
     CheckSystemMessage, WriteSystemMessage, LoadMessage, EnsureDraft,
     EnterAnswering, EmitDelta, EmitStepStart, EmitStepEnd, AppendDelta,
     StoreStep, AgentReturns, AgentThrows, SettleAnswer, SetAnswerText,
     RewriteParts, CloseSteps, CompleteCheck, CompleteWrite, CompleteRun,
     Catch, FailText, FailCheck, FailWrite, FailRun, Finally, Acknowledge,
     Decides, Emits, queueFrame, workerFrame, apiVars
<1>8. ASSUME NEW c \in Cancellers, CancelRun(c) PROVE UNCHANGED starter
  BY <1>8 DEF CancelRun, CancelSetFlag, CancelReadSystem, CancelCheckSystem,
     CancelWriteSystem, CancelReadMessage, CancelReadDraft, CancelCloseSteps,
     CancelCheckMessage, CancelWriteMessage, CancelRemoveDraft, CancelEndRun,
     CancelDecides, cancelFrame, apiVars
<1>9. CASE Cleanup
  BY <1>5, <1>9 DEF Cleanup, CleanupScan, CleanupReadSystem, CleanupCheckSystem,
     CleanupWriteSystem, CleanupReadMessage, CleanupCheckMessage,
     CleanupWriteMessage, CleanupRemoveDraft, CleanupEndRun, cleanerFrame
<1>7. CASE \/ \E c \in Requests : RequestCancel(c)
           \/ \E w \in Workers : Deliver(w) \/ WorkerCrash(w)
           \/ Stall \/ ApiRestart \/ LockExpires \/ UNCHANGED vars
  BY <1>5, <1>7 DEF RequestCancel, Deliver, WorkerCrash, Stall, ApiRestart,
     LockExpires, cancelFrame, queueFrame, cleanerFrame, apiVars, vars
<1> QED
  BY <1>1, <1>3, <1>4, <1>5, <1>6, <1>7, <1>8, <1>9 DEF Next, Rest

\* Where a handler is that has the run in hand and has not decided the message.
Working == ExecuteRunPC \ {"completeRun", "failRun", "finally", "rewrite"}

\* Most steps of a handler go on with the work and tell nobody else.
LEMMA HandlerWorks ==
    ASSUME Assumptions, TypeOK, NoSystemMessage, NEW w \in Workers,
           HandleJob(w), ~CheckQueuedRun(w), ~AcquireLock(w), ~ReleaseLock(w),
           ~GuardAborts(w), ~GuardCancels(w), ~CancelledItself(w),
           ~SetAnswerText(w), ~RewriteParts(w), ~CompleteWrite(w),
           ~CompleteRun(w), ~Catch(w), ~FailCheck(w), ~FailWrite(w),
           ~FailRun(w), ~Finally(w), ~Acknowledge(w)
    PROVE  /\ UNCHANGED <<msg, cancel, job, lockVars, starter, crashes>>
           /\ run'.status = run.status
           /\ worker[w] \in Working
           /\ \E to \in Working : worker' = [worker EXCEPT ![w] = to]
<1> USE DEF Working, ExecuteRunPC, rowVars, workerFrame, queueFrame, apiVars,
            Assumptions, NoSystemMessage
<1>1. CASE EnterAnswering(w)
  <2>1. run'.status = run.status
    BY <1>1, LinkKeeps DEF EnterAnswering
  <2>2. PICK to \in {"agent", "catch"} : worker' = [worker EXCEPT ![w] = to]
    BY <1>1 DEF EnterAnswering
  <2> QED
    BY <1>1, <2>1, <2>2 DEF EnterAnswering
<1>2. CASE ~EnterAnswering(w)
  BY <1>2 DEF HandleJob, EnterRefresh, SkipRefresh, CreateSystemMessage,
     LinkSystemMessage, SummaryArrives, SummaryFails, CheckSystemMessage,
     WriteSystemMessage, LoadMessage, EnsureDraft, EmitDelta, EmitStepStart,
     EmitStepEnd, AppendDelta, StoreStep, AgentReturns, AgentThrows,
     SettleAnswer, CloseSteps, CompleteCheck, FailText, Decides, Emits,
     WorkerGoes
<1> QED
  BY <1>1, <1>2

\* Each step of the system leaves the run attended.
LEMMA AttendedStep ==
    Assumptions /\ TypeOK /\ RunShape /\ RunStarted /\ JobUnowned
        /\ Lock!LockIInv /\ HoldsLock /\ Order /\ DraftWatched /\ Attended
        /\ [Next]_vars
            => Attended'
<1> SUFFICES ASSUME Assumptions, TypeOK, RunShape, RunStarted, JobUnowned,
                    Lock!LockIInv, HoldsLock, Order, DraftWatched, Attended,
                    [Next]_vars
             PROVE  Attended'
  OBVIOUS
<1>t. /\ run \in [status : Status \cup {Absent},
                  phase : RunPhase \cup {Absent},
                  linked : BOOLEAN, sysLinked : BOOLEAN]
      /\ msg \in [status : Status \cup {Absent}, parts : Parts]
      /\ cancel \in [Cancellers -> CancelPC]
      /\ worker \in [Workers -> WorkerPC]
      /\ lease \in [Workers -> Lock!Token \cup {Lock!NoToken}]
      /\ crashes \in [worker : Nat, api : Nat]
      /\ Workers \subseteq Cancellers /\ Requests \subseteq Cancellers
  BY RunExecutionAssumption
     DEF TypeOK, RunRow, MessageRow, Lock!LockTypeOK, Cancellers
<1>s. /\ IsOver => IsOver'
      /\ run.status \notin {"running", Absent} => IsOver
  <2>1. IsOver => IsOver'
    BY RowStays
  <2>2. run.status \in Status \cup {Absent}
    BY <1>t
  <2> QED
    BY <2>1, <2>2 DEF IsOver, Status
<1>l. /\ \A w \in Workers :
            worker[w] \in Inside => lease[w] # Lock!NoToken
      /\ Alone
      /\ expired = {} => \A w \in Workers : lease[w] # Lock!NoToken => key = lease[w]
  BY AloneInside DEF HoldsLock, Inside, Lock!LockIInv, Lock!LiveLeaseOwnsKey, Lock!HoldsLiveLease
<1>m. \A w \in Workers : worker[w] # "idle" => msg.status # Absent
  BY DEF Order, JobOrder
\* A step that keeps the calm away from the run, the locks and the cancels.
<1>q. ASSUME ~Calm', NoCrash' => NoCrash /\ UNCHANGED cancel,
             expired' = {} /\ NoCrash' => UNCHANGED <<key, lease>>,
             Decided => Decided',
             \A w \in Workers : \/ worker'[w] = worker[w] /\ lease'[w] = lease[w]
                                \/ worker'[w] = "idle" /\ lease'[w] = Lock!NoToken
      PROVE  Attended'
  <2>1. CancelMeansOver'
    BY <1>q, <1>s DEF Attended, CancelMeansOver
  <2>2. LockHasItsHandler'
    <3>1. \A w \in Workers : lease'[w] # Lock!NoToken => worker'[w] \in Inside \cup {"cancelling"}
      BY <1>q DEF Attended, LockHasItsHandler
    <3>2. ASSUME NoCrash', expired' = {}, key' # Lock!NoToken
          PROVE  \E w \in Workers : lease'[w] # Lock!NoToken
      BY <1>q, <3>2, ExpiredGrows DEF Attended, LockHasItsHandler
    <3> QED
      BY <3>1, <3>2 DEF LockHasItsHandler
  <2>3. RewritesDecided'
    BY <1>q DEF Attended, RewritesDecided
  <2>4. RunFollowsMessage' /\ RunIsAttended'
    BY <1>q DEF RunFollowsMessage, RunIsAttended, Calm
  <2> QED
    BY <2>1, <2>2, <2>3, <2>4 DEF Attended
\* A step that has nothing to do with the lock.
<1>k. ASSUME UNCHANGED <<key, lease, expired, crashes>>,
             \A w \in Workers : \/ worker'[w] = worker[w]
                                \/ lease[w] = Lock!NoToken
                                \/ worker'[w] \in Inside \cup {"cancelling"}
      PROVE  LockHasItsHandler'
  BY <1>k DEF Attended, LockHasItsHandler, NoCrash
<1>1. CASE StartRun /\ ~StartEnqueue
  <2>1. ~Calm' /\ UNCHANGED <<cancel, lockVars, worker, crashes>>
    BY <1>1 DEF StartRun, StartCreateRun, StartCreateMessage, StartInitDraft,
       StartLink, StartRedisFails, StartFailCheck, StartFailWrite,
       StartFailRun, StartFailDraft, StarterGoes, starterFrame, Calm
  <2>2. Decided => Decided'
    BY <1>1 DEF StartRun, StartCreateRun, StartCreateMessage, StartInitDraft,
       StartLink, StartRedisFails, StartFailCheck, StartFailWrite,
       StartFailRun, StartFailDraft, StarterGoes, WriteMessage, rowVars,
       Order, StarterOrder, Decided, Terminal, Absent
  <2> QED
    BY <2>1, <2>2, <1>q DEF lockVars, NoCrash
<1>2. CASE StartEnqueue
  <2>1. /\ starter = "enqueue" /\ job'.state = "waiting"
        /\ UNCHANGED <<run, msg, cancel, lockVars, worker, crashes>>
    BY <1>2 DEF StartEnqueue, StarterGoes, starterFrame, rowVars, TypeOK, JobRow
  <2>2. ~Decided /\ \A w \in Workers : worker[w] = "idle"
    BY <2>1 DEF DraftWatched, NotYetReturned, Order, JobOrder, Decided, Terminal
  <2>3. CancelMeansOver' /\ RewritesDecided'
    BY <2>1, <1>s DEF Attended, CancelMeansOver, RewritesDecided, Decided, NoCrash
  <2>4. LockHasItsHandler'
    BY <2>1, <1>k DEF lockVars
  <2>5. RunFollowsMessage' /\ RunIsAttended'
    BY <2>1, <2>2 DEF RunFollowsMessage, RunIsAttended, Decided
  <2> QED
    BY <2>3, <2>4, <2>5 DEF Attended
\* cancelRun leaves alone what is not its own.
<1>c. ASSUME NEW c \in Cancellers, NEW to \in CancelPC,
             cancel' = [cancel EXCEPT ![c] = to],
             UNCHANGED <<job, lockVars, starter, worker, crashes>>,
             Decided => Decided',
             to = "done" => IsOver',
             Settles(c) => to \in {"undraft", "run"} \/ run'.status # "running",
             run'.status = "running" => run.status = "running",
             Decided' => Decided \/ to \in {"undraft", "run"},
             to \in {"idle", "done", "threw"} =>
                \/ cancel[c] = "idle" \/ run'.status # "running"
                \/ Decided /\ ~Settles(c)
      PROVE  Attended'
  <2>1. CancelMeansOver'
    BY <1>c, <1>s, <1>t DEF Attended, CancelMeansOver, NoCrash
  <2>2. LockHasItsHandler'
    BY <1>c, <1>k DEF lockVars
  <2>3. RewritesDecided'
    BY <1>c DEF Attended, RewritesDecided
  <2>4. ASSUME Calm', run'.status = "running"
        PROVE  Calm /\ run.status = "running"
    BY <1>c, <2>4 DEF Calm, NoCrash, lockVars
  <2>5. ASSUME run'.status = "running", NEW d \in Cancellers, Settles(d)
        PROVE  Settles(d)'
    BY <1>c, <2>5, <1>t DEF Settles
  <2>6. RunFollowsMessage'
    <3> SUFFICES ASSUME Calm', run'.status = "running"
                 PROVE  /\ Decided' => \/ \E w \in Workers : Concludes(w)'
                                       \/ \E d \in Cancellers : Settles(d)'
                        /\ (\E w \in Workers : worker'[w] \in {"finally", "release"}) =>
                              \E d \in Cancellers : Settles(d)'
      BY DEF RunFollowsMessage
    <3>1. CASE to \in {"undraft", "run"}
      BY <1>c, <3>1, <1>t DEF Settles
    <3>2. CASE to \notin {"undraft", "run"}
      <4>1. Decided' => Decided
        BY <1>c, <3>2
      <4>2. \A w \in Workers : Concludes(w) => Concludes(w)'
        BY <1>c DEF Concludes
      <4>3. UNCHANGED worker
        BY <1>c
      <4> QED
        BY <2>4, <2>5, <4>1, <4>2, <4>3 DEF Attended, RunFollowsMessage
    <3> QED
      BY <3>1, <3>2
  <2>7. RunIsAttended'
    <3> SUFFICES ASSUME Calm', run'.status = "running"
                 PROVE  \/ job'.state = "waiting"
                        \/ \E w \in Workers : worker'[w] \notin {"idle", "finally", "release", "ack"}
                        \/ \E d \in Cancellers : cancel'[d] \notin {"idle", "done", "threw"}
      BY DEF RunIsAttended, Calm
    <3>1. CASE to \notin {"idle", "done", "threw"}
      BY <1>c, <3>1, <1>t
    <3>2. CASE cancel[c] = "idle"
      <4>1. \A d \in Cancellers : cancel[d] \notin {"idle", "done", "threw"} => cancel'[d] = cancel[d]
        BY <1>c, <3>2, <1>t
      <4>2. \/ job.state = "waiting"
            \/ \E w \in Workers : worker[w] \notin {"idle", "finally", "release", "ack"}
            \/ \E d \in Cancellers : cancel[d] \notin {"idle", "done", "threw"}
        BY <2>4 DEF Attended, RunIsAttended, Calm
      <4>3. UNCHANGED <<job, worker>>
        BY <1>c
      <4> QED
        BY <4>1, <4>2, <4>3
    <3>3. CASE Decided /\ ~Settles(c)
      <4>1. \/ \E w \in Workers : Concludes(w)
            \/ \E d \in Cancellers : Settles(d)
        BY <2>4, <3>3 DEF Attended, RunFollowsMessage
      <4>2. \A w \in Workers : Concludes(w) => worker'[w] \notin {"idle", "finally", "release", "ack"}
        BY <1>c DEF Concludes
      <4>3. \A d \in Cancellers : Settles(d) => cancel'[d] \notin {"idle", "done", "threw"}
        BY <2>5 DEF Settles
      <4> QED
        BY <4>1, <4>2, <4>3
    <3> QED
      BY <1>c, <3>1, <3>2, <3>3
  <2> QED
    BY <2>1, <2>2, <2>3, <2>6, <2>7 DEF Attended
<1>3. ASSUME NEW c \in Requests, RequestCancel(c) PROVE Attended'
  <2>1. PICK to \in {"flag", "done"} :
           /\ cancel' = [cancel EXCEPT ![c] = to]
           /\ to = "done" => run.status # "running"
    BY <1>3 DEF RequestCancel, CancelReadsRun
  <2>2. /\ cancel[c] = "idle" /\ run.status # Absent
        /\ UNCHANGED <<run, msg, job, lockVars, starter, worker, crashes>>
    BY <1>3 DEF RequestCancel, rowVars, cancelFrame, apiVars
  <2>3. to = "done" => IsOver'
    BY <2>1, <2>2, <1>s
  <2>4. to \in CancelPC /\ c \in Cancellers /\ ~Settles(c)
    BY <2>2, <1>t DEF CancelPC, Settles
  <2> QED
    BY <2>1, <2>2, <2>3, <2>4, <1>c DEF Decided
<1>4. ASSUME NEW c \in Cancellers, CancelRun(c) PROVE Attended'
  <2>1. UNCHANGED <<job, lockVars, starter, worker, crashes>>
    BY <1>4 DEF CancelRun, CancelSetFlag, CancelReadSystem, CancelCheckSystem,
       CancelWriteSystem, CancelReadMessage, CancelReadDraft,
       CancelCloseSteps, CancelCheckMessage, CancelWriteMessage,
       CancelRemoveDraft, CancelEndRun, CancelDecides, cancelFrame, apiVars
  <2>2. CASE CancelEndRun(c)
    <3>1. UNCHANGED msg /\ cancel[c] = "run"
      BY <2>2 DEF CancelEndRun
    <3>2. PICK to \in {"done", "threw"} :
             /\ cancel' = [cancel EXCEPT ![c] = to]
             /\ to = "done" => EndRun("cancelled")
             /\ to = "threw" => EndRunThrows("cancelled")
      BY <2>2 DEF CancelEndRun
    <3>3. run'.status # "running"
      BY <3>2, <1>t DEF EndRun, EndRunThrows, CanUpdateRun, ValidTransition,
         PhaseMatchesStatus
    <3>4. to = "done" => IsOver'
      BY <3>2, <1>t DEF EndRun, IsOver, Terminal
    <3> QED
      BY <2>1, <3>1, <3>2, <3>3, <3>4, <1>c DEF Decided, CancelPC
  <2>3. CASE CancelCheckMessage(c)
    <3>1. UNCHANGED <<run, msg>> /\ cancel[c] = "check"
      BY <2>3 DEF CancelCheckMessage, CancelDecides, CancelGoes, rowVars
    <3>2. PICK to \in {"write", "threw"} :
             /\ cancel' = [cancel EXCEPT ![c] = to]
             /\ to = "threw" => ~MayBecome("cancelled")
      BY <2>3 DEF CancelCheckMessage, CancelDecides, CancelGoes
    <3>3. to = "threw" => Decided
      <4>1. msg.status # Absent
        BY <3>1 DEF Order, CancelOrder, JobOrder
      <4> QED
        BY <3>2, <4>1, <1>t DEF MayBecome, ValidTransition, Decided, Status, Terminal
    <3> QED
      BY <2>1, <3>1, <3>2, <3>3, <1>c DEF Decided, CancelPC, Settles
  <2>4. CASE CancelWriteMessage(c)
    <3>1. /\ cancel[c] = "write" /\ cancel' = [cancel EXCEPT ![c] = "undraft"]
          /\ UNCHANGED run /\ msg'.status = "cancelled"
      BY <2>4 DEF CancelWriteMessage, CancelGoes, WriteMessage
    <3> QED
      BY <2>1, <3>1, <1>c DEF Decided, CancelPC, Settles, Terminal
  <2>5. CASE \/ CancelSetFlag(c) \/ CancelReadSystem(c) \/ CancelCheckSystem(c)
             \/ CancelWriteSystem(c) \/ CancelReadMessage(c) \/ CancelReadDraft(c)
             \/ CancelCloseSteps(c) \/ CancelRemoveDraft(c)
    <3>1. UNCHANGED <<run, msg>>
      BY <2>5 DEF CancelSetFlag, CancelReadSystem, CancelCheckSystem,
         CancelWriteSystem, CancelReadMessage, CancelReadDraft, CancelCloseSteps,
         CancelRemoveDraft, CancelDecides, rowVars
    <3>2. cancel[c] \notin {"sysCheck", "sysWrite"} /\ sysmsg = Absent
      BY DEF Order, NoSystemMessage
    <3>3. PICK to \in {"system", "message", "draft", "run", "steps", "check"} :
             /\ cancel' = [cancel EXCEPT ![c] = to]
             /\ cancel[c] \in {"undraft", "run"} => to = "run"
      BY <2>5, <3>2 DEF CancelSetFlag, CancelReadSystem, CancelCheckSystem,
         CancelWriteSystem, CancelReadMessage, CancelReadDraft, CancelCloseSteps,
         CancelRemoveDraft, CancelDecides, CancelGoes, Absent
    <3> QED
      BY <2>1, <3>1, <3>3, <1>c DEF Decided, CancelPC, Settles
  <2> QED
    BY <1>4, <2>2, <2>3, <2>4, <2>5 DEF CancelRun
\* A handler goes to another place: what others need of it stays.
<1>h. ASSUME NEW w \in Workers, NEW to,
             worker' = [worker EXCEPT ![w] = to],
             LockHasItsHandler',
             UNCHANGED <<cancel, expired, starter, crashes>>,
             Decided => Decided', to = "rewrite" => Decided',
             run'.status = "running" => run.status = "running",
             job'.state = "waiting" \/ job.state # "waiting" \/ worker'[w] = "check",
             run'.status = "running" /\ expired = {} /\ NoCrash /\ starter = "returned" =>
                /\ Decided' /\ ~Decided => Concludes(w)'
                /\ Concludes(w) => Concludes(w)'
                /\ \/ to \notin {"idle", "finally", "release", "ack"}
                   \/ \E c \in Cancellers : Settles(c)
                   \/ worker[w] \in {"idle", "finally", "release", "ack"} /\ to \notin {"finally", "release"}
                /\ to \in {"finally", "release"} => \E c \in Cancellers : Settles(c)
      PROVE  Attended'
  <2>1. CancelMeansOver'
    BY <1>h, <1>s DEF Attended, CancelMeansOver, NoCrash
  <2>2. RewritesDecided'
    BY <1>h, <1>t DEF Attended, RewritesDecided
  <2>3. ASSUME Calm', run'.status = "running"
        PROVE  RunFollowsMessage' /\ RunIsAttended'
    <3>1. Calm /\ run.status = "running" /\ worker'[w] = to
      BY <1>h, <2>3, <1>t DEF Calm, NoCrash
    <3>2. \A v \in Workers \ {w} : worker'[v] = worker[v]
      BY <1>h, <1>t
    <3>3. \A c \in Cancellers : Settles(c)' <=> Settles(c)
      BY <1>h DEF Settles
    <3>4. RunFollowsMessage'
      <4>1. Decided' => \/ \E v \in Workers : Concludes(v)'
                        \/ \E c \in Cancellers : Settles(c)'
        <5>1. CASE Decided
          <6>1. \A v \in Workers : Concludes(v) => Concludes(v)'
            BY <1>h, <2>3, <3>1, <3>2 DEF Concludes, Calm
          <6> QED
            BY <3>1, <3>3, <5>1, <6>1 DEF Attended, RunFollowsMessage
        <5>2. CASE ~Decided
          BY <1>h, <2>3, <3>1, <5>2 DEF Calm
        <5> QED
          BY <5>1, <5>2
      <4>2. (\E v \in Workers : worker'[v] \in {"finally", "release"}) =>
               \E c \in Cancellers : Settles(c)'
        BY <1>h, <2>3, <3>1, <3>2, <3>3 DEF Attended, RunFollowsMessage, Calm
      <4> QED
        BY <4>1, <4>2 DEF RunFollowsMessage
    <3>5. RunIsAttended'
      <4>1. CASE \E c \in Cancellers : Settles(c)
        BY <4>1, <1>h DEF RunIsAttended, Settles
      <4>2. CASE to \notin {"idle", "finally", "release", "ack"}
        BY <4>2, <3>1 DEF RunIsAttended
      <4>3. CASE worker[w] \in {"idle", "finally", "release", "ack"}
                 /\ to \notin {"finally", "release"}
        <5>1. \/ job.state = "waiting"
              \/ \E v \in Workers : worker[v] \notin {"idle", "finally", "release", "ack"}
              \/ \E d \in Cancellers : cancel[d] \notin {"idle", "done", "threw"}
          BY <3>1 DEF Attended, RunIsAttended, Calm
        <5>2. \A v \in Workers : worker[v] \notin {"idle", "finally", "release", "ack"} => worker'[v] = worker[v]
          BY <3>2, <4>3
        <5>3. UNCHANGED cancel
          BY <1>h
        <5>4. job.state = "waiting" =>
                 \/ job'.state = "waiting"
                 \/ worker'[w] \notin {"idle", "finally", "release", "ack"}
          BY <1>h
        <5> QED
          BY <5>1, <5>2, <5>3, <5>4 DEF RunIsAttended
      <4> QED
        BY <1>h, <2>3, <3>1, <4>1, <4>2, <4>3 DEF Calm
    <3> QED
      BY <3>4, <3>5
  <2>4. RunFollowsMessage' /\ RunIsAttended'
    BY <2>3 DEF RunFollowsMessage, RunIsAttended, Calm
  <2> QED
    BY <1>h, <2>1, <2>2, <2>4 DEF Attended
<1>5. ASSUME NEW w \in Workers, Deliver(w) PROVE Attended'
  <2>1. /\ worker[w] = "idle" /\ worker' = [worker EXCEPT ![w] = "check"]
        /\ UNCHANGED <<run, msg, cancel, lockVars, starter, crashes>>
    BY <1>5 DEF Deliver, WorkerGoes, rowVars, queueFrame, apiVars
  <2>2. lease[w] = Lock!NoToken
    BY <2>1 DEF Attended, LockHasItsHandler, Inside, ExecuteRunPC
  <2>3. LockHasItsHandler'
    BY <2>1, <2>2, <1>k, <1>t DEF lockVars
  <2>4. worker'[w] = "check"
    BY <2>1, <1>t
  <2> QED
    BY <2>1, <2>3, <2>4, <1>h DEF lockVars, Decided, Concludes
<1>6. CASE Stall
  <2>1. /\ UNCHANGED <<run, msg, cancel, lockVars, starter, crashes, worker>>
        /\ job.state = "active"
    BY <1>6 DEF Stall, rowVars, queueFrame, apiVars
  <2>2. CancelMeansOver' /\ RewritesDecided'
    BY <2>1, <1>s DEF Attended, CancelMeansOver, RewritesDecided, Decided, NoCrash
  <2>3. LockHasItsHandler'
    BY <2>1, <1>k DEF lockVars
  <2>4. RunFollowsMessage'
    BY <2>1 DEF Attended, RunFollowsMessage, Concludes, Settles, Decided, Calm, NoCrash, lockVars
  <2>5. RunIsAttended'
    BY <2>1 DEF Attended, RunIsAttended, NoCrash, lockVars
  <2> QED
    BY <2>2, <2>3, <2>4, <2>5 DEF Attended
<1>7. ASSUME NEW w \in Workers, HandleJob(w) PROVE Attended'
  <2>a. ASSUME UNCHANGED lockVars, UNCHANGED crashes, NEW to \in Inside \cup {"cancelling"},
               worker' = [worker EXCEPT ![w] = to]
        PROVE  LockHasItsHandler'
    BY <2>a, <1>k, <1>t DEF lockVars
  <2>b. ASSUME UNCHANGED lockVars, UNCHANGED crashes, NEW to,
               worker[w] \notin Inside \cup {"cancelling"},
               worker' = [worker EXCEPT ![w] = to]
        PROVE  LockHasItsHandler'
    <3>1. lease[w] = Lock!NoToken
      BY <2>b DEF Attended, LockHasItsHandler
    <3> QED
      BY <2>b, <3>1, <1>k, <1>t DEF lockVars
  \* An executor that gives up a running run leaves it to a canceller.
  <2>c. ASSUME Calm, run.status = "running", Decided, worker[w] \in ExecuteRunPC,
               ~Concludes(w)
        PROVE  \E c \in Cancellers : Settles(c)
    <3>1. \A v \in Workers : ~Concludes(v)
      BY <2>c, <1>l DEF Alone, Concludes, Calm, ExecuteRunPC
    <3> QED
      BY <2>c, <3>1 DEF Attended, RunFollowsMessage
  \* A handler calls cancelRun.
  <2>d. ASSUME CancelReadsRun(w), worker' = [worker EXCEPT ![w] = "cancelling"],
               worker[w] \in {"check"} \cup GuardPoints, run.status = "running",
               UNCHANGED <<run, msg, job, lockVars, starter, crashes>>
        PROVE  Attended'
    <3>1. cancel' = [cancel EXCEPT ![w] = "flag"] /\ worker'[w] = "cancelling"
      BY <2>d, <1>t DEF CancelReadsRun
    <3>2. cancel[w] = "idle"
      BY <2>d DEF DraftWatched, OwnCancel, GuardPoints
    <3>3. CancelMeansOver' /\ RewritesDecided'
      BY <2>d, <3>1, <1>t, <1>s DEF Attended, CancelMeansOver, RewritesDecided, Decided, NoCrash
    <3>4. LockHasItsHandler'
      BY <2>d, <2>a
    <3>5. \A c \in Cancellers : Settles(c) => Settles(c)'
      BY <3>1, <3>2, <1>t DEF Settles
    <3>6. RunFollowsMessage'
      <4>1. \A v \in Workers : Concludes(v) => Concludes(v)'
        BY <2>d, <1>t DEF Concludes, GuardPoints
      <4>2. \A v \in Workers : worker'[v] \in {"finally", "release"} => worker[v] \in {"finally", "release"}
        BY <2>d, <1>t
      <4>3. UNCHANGED <<run, msg, starter, expired, crashes>>
        BY <2>d DEF lockVars
      <4> QED
        BY <3>5, <4>1, <4>2, <4>3 DEF Attended, RunFollowsMessage, Calm, Decided, NoCrash
    <3>7. RunIsAttended'
      BY <3>1 DEF RunIsAttended
    <3> QED
      BY <3>3, <3>4, <3>6, <3>7 DEF Attended
  <2>1. CASE CheckQueuedRun(w)
    <3>1. /\ worker[w] = "check"
          /\ UNCHANGED <<run, msg, job, lockVars, starter, crashes>>
      BY <2>1 DEF CheckQueuedRun, rowVars, apiVars
    <3>2. CASE run.status = "running" /\ cancelFlag
      BY <2>1, <3>1, <3>2, <2>d DEF CheckQueuedRun
    <3>3. CASE ~(run.status = "running" /\ cancelFlag)
      <4>1. PICK to \in {"ack", "acquire"} :
               /\ worker' = [worker EXCEPT ![w] = to]
               /\ to = "ack" => run.status # "running"
        BY <2>1, <3>3 DEF CheckQueuedRun
      <4>2. UNCHANGED cancel
        BY <2>1, <3>3 DEF CheckQueuedRun
      <4>3. LockHasItsHandler'
        BY <3>1, <4>1, <2>b DEF Inside, ExecuteRunPC
      <4> QED
        BY <3>1, <4>1, <4>2, <4>3, <1>h DEF lockVars, Decided, Concludes
    <3> QED
      BY <3>2, <3>3
  <2>2. CASE AcquireLock(w)
    <3>1. /\ worker[w] = "acquire"
          /\ UNCHANGED <<run, msg, job, cancel, expired, starter, crashes>>
      BY <2>2 DEF AcquireLock, Lock!Acquire, lockVars, rowVars, apiVars
    <3>2. CASE Lock!Acquire(w) /\ worker' = [worker EXCEPT ![w] = "guard"]
      <4>1. lease' = [lease EXCEPT ![w] = issued + 1] /\ issued + 1 # Lock!NoToken
        BY <3>2 DEF Lock!Acquire, Lock!NoToken, Lock!LockIInv, Lock!LockTypeOK
      <4>2. LockHasItsHandler'
        BY <3>2, <4>1, <1>t DEF Attended, LockHasItsHandler, Inside, ExecuteRunPC
      <4> QED
        BY <3>1, <3>2, <4>2, <1>h DEF Decided, Concludes
    <3>3. CASE key # Lock!NoToken /\ worker' = [worker EXCEPT ![w] = "ack"] /\ UNCHANGED lockVars
      <4>1. LockHasItsHandler'
        BY <3>1, <3>3, <2>b DEF Inside, ExecuteRunPC
      <4>2. ASSUME Calm, run.status = "running"
            PROVE  \/ \E c \in Cancellers : Settles(c)
                   \/ \E v \in Workers \ {w} : worker[v] \notin {"idle", "finally", "release", "ack"}
        <5>1. PICK v \in Workers : worker[v] \in Inside \cup {"cancelling"}
          BY <3>3, <4>2 DEF Attended, LockHasItsHandler, Calm
        <5>2. v # w
          BY <3>1, <5>1 DEF Inside, ExecuteRunPC
        <5>3. CASE worker[v] \in {"finally", "release"}
          BY <4>2, <5>3 DEF Attended, RunFollowsMessage
        <5>4. CASE worker[v] \notin {"finally", "release"}
          BY <5>1, <5>2, <5>4 DEF Inside, ExecuteRunPC
        <5> QED
          BY <5>3, <5>4
      <4>3. CancelMeansOver' /\ RewritesDecided'
        BY <3>1, <3>3, <1>t, <1>s DEF Attended, CancelMeansOver, RewritesDecided, Decided, NoCrash
      <4>4. RunFollowsMessage'
        <5>1. \A v \in Workers : Concludes(v) => Concludes(v)'
          BY <3>1, <3>3, <1>t DEF Concludes
        <5>2. \A v \in Workers : worker'[v] \in {"finally", "release"} => worker[v] \in {"finally", "release"}
          BY <3>3, <1>t
        <5> QED
          BY <3>1, <5>1, <5>2 DEF Attended, RunFollowsMessage, Settles, Decided, Calm, NoCrash
      <4>5. RunIsAttended'
        <5>1. \A v \in Workers \ {w} : worker'[v] = worker[v]
          BY <3>3, <1>t
        <5>2. \A c \in Cancellers : Settles(c) => cancel'[c] \notin {"idle", "done", "threw"}
          BY <3>1 DEF Settles
        <5> QED
          BY <3>1, <4>2, <5>1, <5>2 DEF RunIsAttended, Calm, NoCrash
      <4> QED
        BY <4>1, <4>3, <4>4, <4>5 DEF Attended
    <3> QED
      BY <2>2, <3>2, <3>3 DEF AcquireLock
  <2>3. CASE ReleaseLock(w)
    <3>1. /\ worker[w] = "release" /\ worker' = [worker EXCEPT ![w] = "ack"]
          /\ lease' = [lease EXCEPT ![w] = Lock!NoToken]
          /\ key' = IF key = lease[w] THEN Lock!NoToken ELSE key
          /\ lease[w] # Lock!NoToken
          /\ UNCHANGED <<run, msg, job, cancel, expired, starter, crashes>>
      BY <2>3 DEF ReleaseLock, WorkerGoes, Lock!Release, Lock!KeyAfterRelease, rowVars, apiVars
    <3>2. LockHasItsHandler'
      BY <3>1, <1>l, <1>t DEF Attended, LockHasItsHandler
    <3>3. Calm /\ run.status = "running" => \E c \in Cancellers : Settles(c)
      BY <3>1 DEF Attended, RunFollowsMessage
    <3> QED
      BY <3>1, <3>2, <3>3, <1>h DEF Decided, Concludes, Calm
  <2>4. CASE GuardAborts(w)
    <3>1. /\ worker' = [worker EXCEPT ![w] = "finally"] /\ run.status # "running"
          /\ UNCHANGED <<run, msg, job, cancel, lockVars, starter, crashes>>
      BY <2>4 DEF GuardAborts, Decides, WorkerGoes, rowVars, workerFrame, apiVars
    <3>2. LockHasItsHandler'
      BY <3>1, <2>a DEF Inside, ExecuteRunPC
    <3> QED
      BY <3>1, <3>2, <1>h DEF lockVars, Decided
  <2>5. CASE GuardCancels(w)
    BY <2>5, <2>d DEF GuardCancels, rowVars, apiVars
  <2>6. CASE CancelledItself(w)
    <3>1. /\ worker[w] = "cancelling" /\ cancel[w] \in {"done", "threw"}
          /\ cancel' = [cancel EXCEPT ![w] = "idle"]
          /\ UNCHANGED <<run, msg, job, lockVars, starter, crashes>>
      BY <2>6 DEF CancelledItself, rowVars, apiVars
    <3>2. PICK to \in {"ack", "finally", "catch"} :
             /\ worker' = [worker EXCEPT ![w] = to]
             /\ to = "ack" => lease[w] = Lock!NoToken
             /\ to = "finally" => cancel[w] = "done"
      BY <2>6 DEF CancelledItself
    <3>3. CancelMeansOver' /\ RewritesDecided'
      BY <3>1, <3>2, <1>t, <1>s DEF Attended, CancelMeansOver, RewritesDecided, Decided, NoCrash
    <3>4. LockHasItsHandler'
      BY <3>1, <3>2, <1>k, <1>t DEF lockVars, Inside, ExecuteRunPC
    <3>5. \A c \in Cancellers : Settles(c)' <=> Settles(c)
      BY <3>1, <1>t DEF Settles
    <3>6. \A v \in Workers : Concludes(v)' <=> Concludes(v)
      BY <3>1, <3>2, <1>t DEF Concludes
    <3>7. Calm /\ run.status = "running" => cancel[w] = "threw" /\ to # "finally" /\ Decided
      BY <3>1, <3>2, <1>t DEF Attended, CancelMeansOver, Calm, Order, CancelOrder,
         IsOver, Terminal
    <3>8. UNCHANGED <<expired, starter, crashes, run, msg>>
      BY <3>1 DEF lockVars
    <3>9. RunFollowsMessage'
      <4>1. \A v \in Workers : worker'[v] \in {"finally", "release"} =>
               worker[v] \in {"finally", "release"} \/ to = "finally"
        BY <3>2, <1>t
      <4> QED
        BY <3>5, <3>6, <3>7, <3>8, <4>1 DEF Attended, RunFollowsMessage, Calm, NoCrash, Decided
    <3>10. RunIsAttended'
      <4> SUFFICES ASSUME Calm, run.status = "running" PROVE RunIsAttended'
        BY <3>8 DEF RunIsAttended, Calm, NoCrash
      <4>1. \/ \E v \in Workers : Concludes(v)'
            \/ \E c \in Cancellers : Settles(c)'
        BY <3>5, <3>6, <3>7 DEF Attended, RunFollowsMessage
      <4> QED
        BY <4>1 DEF RunIsAttended, Concludes, Settles
    <3> QED
      BY <3>3, <3>4, <3>9, <3>10 DEF Attended
  <2>7. CASE SetAnswerText(w)
    <3>1. /\ worker[w] = "setText"
          /\ UNCHANGED <<run, msg, job, cancel, lockVars, starter, crashes>>
      BY <2>7 DEF SetAnswerText, rowVars, workerFrame, apiVars
    <3>2. PICK to \in {"closeSteps", "rewrite"} :
             /\ worker' = [worker EXCEPT ![w] = to]
             /\ to = "rewrite" => local[w].seen # "running"
      BY <2>7 DEF SetAnswerText
    <3>3. to = "rewrite" => Decided
      BY <3>1, <3>2 DEF Order, WorkerOrder
    <3>4. LockHasItsHandler'
      BY <3>1, <3>2, <2>a DEF Inside, ExecuteRunPC
    <3> QED
      BY <3>1, <3>2, <3>3, <3>4, <1>h DEF lockVars, Decided, Concludes
  <2>8. CASE RewriteParts(w)
    <3>1. /\ worker[w] = "rewrite" /\ worker' = [worker EXCEPT ![w] = "closeSteps"]
          /\ msg'.status = local[w].seen
          /\ UNCHANGED <<run, job, cancel, lockVars, starter, crashes>>
      BY <2>8 DEF RewriteParts, WorkerGoes, WriteMessage, workerFrame, apiVars
    <3>2. Decided /\ Decided'
      BY <3>1 DEF Attended, RewritesDecided, Order, WorkerOrder, Decided
    <3>3. LockHasItsHandler'
      BY <3>1, <2>a DEF Inside, ExecuteRunPC
    <3> QED
      BY <3>1, <3>2, <3>3, <1>h DEF lockVars, Concludes
  <2>9. CASE CompleteWrite(w) \/ FailWrite(w)
    <3>1. /\ msg'.status \in {"completed", "failed"}
          /\ UNCHANGED <<run, job, cancel, lockVars, starter, crashes>>
      BY <2>9 DEF CompleteWrite, FailWrite, WorkerGoes, WriteMessage, workerFrame, apiVars
    <3>2. PICK to \in {"completeRun", "failRun"} : worker' = [worker EXCEPT ![w] = to]
      BY <2>9 DEF CompleteWrite, FailWrite, WorkerGoes
    <3>3. worker'[w] = to
      BY <3>2, <1>t
    <3>4. LockHasItsHandler'
      BY <3>1, <3>2, <2>a DEF Inside, ExecuteRunPC
    <3>5. Decided' /\ Concludes(w)'
      BY <3>1, <3>2, <3>3 DEF Decided, Terminal, Concludes
    <3> QED
      BY <3>1, <3>2, <3>4, <3>5, <1>h DEF lockVars
  <2>10. CASE CompleteRun(w) \/ FailRun(w)
    <3>1. UNCHANGED <<msg, job, cancel, lockVars, starter, crashes>>
      BY <2>10, Zenon DEF CompleteRun, FailRun, workerFrame, apiVars
    <3>2. PICK outcome \in {"completed", "failed"} : EndRun(outcome) \/ EndRunThrows(outcome)
      BY <2>10 DEF CompleteRun, FailRun
    <3>3. run'.status # "running"
      BY <3>2, <1>t DEF EndRun, EndRunThrows, CanUpdateRun, ValidTransition, PhaseMatchesStatus
    <3>4. PICK to \in {"finally", "catch"} : worker' = [worker EXCEPT ![w] = to]
      BY <2>10, Zenon DEF CompleteRun, FailRun, WorkerGoes
    <3>5. LockHasItsHandler'
      BY <3>1, <3>4, <2>a DEF Inside, ExecuteRunPC
    <3> QED
      BY <3>1, <3>3, <3>4, <3>5, <1>h DEF lockVars, Decided
  <2>11. CASE Catch(w)
    <3>1. /\ worker[w] = "catch"
          /\ UNCHANGED <<run, msg, job, cancel, lockVars, starter, crashes>>
      BY <2>11 DEF Catch, Decides, WorkerGoes, rowVars, workerFrame, apiVars
    <3>2. PICK to \in {"finally", "failSteps", "failRun"} :
             /\ worker' = [worker EXCEPT ![w] = to]
             /\ to = "finally" => run.status = "cancelled"
      BY <2>11 DEF Catch, Decides, WorkerGoes
    <3>3. LockHasItsHandler'
      BY <3>1, <3>2, <2>a DEF Inside, ExecuteRunPC
    <3> QED
      BY <3>1, <3>2, <3>3, <1>h DEF lockVars, Decided, Concludes
  <2>12. CASE FailCheck(w)
    <3>1. /\ worker[w] = "failCheck"
          /\ UNCHANGED <<run, msg, job, cancel, lockVars, starter, crashes>>
      BY <2>12 DEF FailCheck, Decides, WorkerGoes, rowVars, workerFrame, apiVars
    <3>2. PICK to \in {"failWrite", "finally"} :
             /\ worker' = [worker EXCEPT ![w] = to]
             /\ to = "finally" => ~MayBecome("failed")
      BY <2>12 DEF FailCheck, Decides, WorkerGoes
    <3>3. LockHasItsHandler'
      BY <3>1, <3>2, <2>a DEF Inside, ExecuteRunPC
    <3>4. to = "finally" => Decided
      BY <3>1, <3>2, <1>m, <1>t DEF MayBecome, ValidTransition, Decided, Status, Terminal
    <3>5. Calm /\ run.status = "running" /\ to = "finally" => \E c \in Cancellers : Settles(c)
      BY <3>1, <3>4, <2>c DEF ExecuteRunPC, Concludes
    <3> QED
      BY <3>1, <3>2, <3>3, <3>5, <1>h DEF lockVars, Decided, Concludes, Calm
  <2>13. CASE Finally(w)
    <3>1. /\ worker[w] = "finally" /\ worker' = [worker EXCEPT ![w] = "release"]
          /\ UNCHANGED <<run, msg, job, cancel, lockVars, starter, crashes>>
      BY <2>13 DEF Finally, WorkerGoes, rowVars, workerFrame, apiVars
    <3>2. LockHasItsHandler'
      BY <3>1, <2>a DEF Inside
    <3>3. Calm /\ run.status = "running" => \E c \in Cancellers : Settles(c)
      BY <3>1 DEF Attended, RunFollowsMessage
    <3> QED
      BY <3>1, <3>2, <3>3, <1>h DEF lockVars, Decided, Concludes, Calm
  <2>14. CASE Acknowledge(w)
    <3>1. /\ worker[w] = "ack" /\ worker' = [worker EXCEPT ![w] = "idle"]
          /\ job.state = "waiting" => job'.state = "waiting"
          /\ UNCHANGED <<run, msg, cancel, lockVars, starter, crashes>>
      <4>1. job.state = "waiting" => job.owner # w
        BY <1>7, RunExecutionAssumption DEF JobUnowned, Nobody
      <4> QED
        BY <2>14, <4>1 DEF Acknowledge, WorkerGoes, rowVars, queueFrame, apiVars
    <3>2. LockHasItsHandler'
      BY <3>1, <2>b DEF Inside, ExecuteRunPC
    <3> QED
      BY <3>1, <3>2, <1>h DEF lockVars, Decided, Concludes
  <2>15. CASE /\ ~CheckQueuedRun(w) /\ ~AcquireLock(w) /\ ~ReleaseLock(w)
              /\ ~GuardAborts(w) /\ ~GuardCancels(w) /\ ~CancelledItself(w)
              /\ ~SetAnswerText(w) /\ ~RewriteParts(w) /\ ~CompleteWrite(w)
              /\ ~CompleteRun(w) /\ ~Catch(w) /\ ~FailCheck(w) /\ ~FailWrite(w)
              /\ ~FailRun(w) /\ ~Finally(w) /\ ~Acknowledge(w)
    <3>1. /\ UNCHANGED <<msg, cancel, job, lockVars, starter, crashes>>
          /\ run'.status = run.status /\ worker[w] \in Working
          /\ \E to \in Working : worker' = [worker EXCEPT ![w] = to]
      BY <1>7, <2>15, HandlerWorks DEF Order
    <3>2. PICK to \in Working : worker' = [worker EXCEPT ![w] = to]
      BY <3>1
    <3>3. LockHasItsHandler'
      BY <3>1, <3>2, <2>a DEF Inside, Working
    <3>4. /\ ~Concludes(w) /\ to # "rewrite"
          /\ to \notin {"idle", "finally", "release", "ack"}
      BY <3>1, <3>2 DEF Concludes, Working, ExecuteRunPC
    <3> QED
      BY <3>1, <3>2, <3>3, <3>4, <1>h DEF lockVars, Decided
  <2> QED
    BY <2>1, <2>2, <2>3, <2>4, <2>5, <2>6, <2>7, <2>8, <2>9, <2>10, <2>11,
       <2>12, <2>13, <2>14, <2>15
<1>8. CASE ApiCrash
  <2>1. ~NoCrash' /\ UNCHANGED <<msg, worker, key, lease, expired>>
    BY <1>8, <1>t DEF ApiCrash, NoCrash, rowVars, lockVars
  <2> QED
    BY <2>1, <1>q DEF Calm, Decided
<1>9. ASSUME NEW w \in Workers, WorkerCrash(w) PROVE Attended'
  <2>1. ~NoCrash' /\ UNCHANGED msg
    BY <1>9, <1>t DEF WorkerCrash, NoCrash, rowVars
  <2>2. /\ worker' = [worker EXCEPT ![w] = "idle"]
        /\ lease' = [lease EXCEPT ![w] = Lock!NoToken]
    BY <1>9, <1>t DEF WorkerCrash, Lock!LockCrash, lockVars
  <2> QED
    BY <2>1, <2>2, <1>q, <1>t DEF Calm, Decided
<1>10. CASE LockExpires
  <2>1. /\ expired' # {} /\ UNCHANGED <<run, msg, worker, lease, cancel, crashes>>
    BY <1>10 DEF LockExpires, Lock!Expire, rowVars
  <2> QED
    BY <2>1, <1>q DEF Calm, Decided, NoCrash
<1>11. CASE Cleanup \/ ApiRestart
  <2>1. /\ UNCHANGED <<worker, lockVars, cancel, crashes>> /\ ~NoCrash
        /\ Decided => Decided'
    <3>1. api # "up" \/ cleaner # "idle"
      BY <1>11 DEF Cleanup, CleanupScan, CleanupReadSystem, CleanupCheckSystem,
         CleanupWriteSystem, CleanupReadMessage, CleanupCheckMessage,
         CleanupWriteMessage, CleanupRemoveDraft, CleanupEndRun, ApiRestart
    <3>2. UNCHANGED <<worker, lockVars, cancel, crashes>>
      BY <1>11 DEF Cleanup, CleanupScan, CleanupReadSystem, CleanupCheckSystem,
         CleanupWriteSystem, CleanupReadMessage, CleanupCheckMessage,
         CleanupWriteMessage, CleanupRemoveDraft, CleanupEndRun, ApiRestart, cleanerFrame
    <3>3. Decided => Decided'
      BY <1>11 DEF Cleanup, CleanupScan, CleanupReadSystem, CleanupCheckSystem,
         CleanupWriteSystem, CleanupReadMessage, CleanupCheckMessage, WriteMessage,
         CleanupWriteMessage, CleanupRemoveDraft, CleanupEndRun, ApiRestart, rowVars,
         Decided, Terminal
    <3> QED
      BY <3>1, <3>2, <3>3 DEF DraftWatched, CleansAfterCrash, NoCrash
  <2> QED
    BY <2>1, <1>q DEF Calm, NoCrash, lockVars
<1>12. CASE UNCHANGED vars
  <2>1. UNCHANGED <<run, msg, cancel, worker, key, lease, expired, job, starter, crashes>>
    BY <1>12 DEF vars
  <2>2. CancelMeansOver' /\ LockHasItsHandler' /\ RewritesDecided'
    BY <2>1 DEF Attended, CancelMeansOver, LockHasItsHandler, RewritesDecided, Decided, NoCrash, IsOver
  <2>3. RunFollowsMessage' /\ RunIsAttended'
    BY <2>1 DEF Attended, RunFollowsMessage, RunIsAttended, Decided, NoCrash, Calm, Settles, Concludes
  <2> QED
    BY <2>2, <2>3 DEF Attended
<1> QED
  BY <1>1, <1>2, <1>3, <1>4, <1>5, <1>6, <1>7, <1>8, <1>9, <1>10, <1>11,
     <1>12 DEF Next, Rest, StartRun

(***************************************************************************)
(* A run that was queued and still runs has somebody who decides it, as    *)
(* long as no process died and no TTL elapsed: the second delivery that    *)
(* finds the lock taken, the executor that gives up and the cancelRun that *)
(* throws leave it to somebody who cannot be stopped any more.             *)
(***************************************************************************)
THEOREM NobodyWalksAway == Assumptions => (Spec => []RunIsAttended)
<1> SUFFICES ASSUME Assumptions PROVE Spec => []RunIsAttended
  OBVIOUS
<1>1. Init => HoldsLock /\ Order
  BY DEF Init, Order, StarterOrder, JobOrder, CancelOrder, CleanerOrder,
     WorkerOrder, NoSystemMessage, LinkedMessageFirst, IsOver, Bound,
     Terminal, Absent, HoldsLock, ExecuteRunPC
<1>2. Init => DraftWatched
  BY DEF Init, DraftWatched, OwnCancel, NotYetReturned, BoundLater, Watched,
     CleansAfterCrash, FreshLocal, Cancellers
<1>3. Init => RunShape /\ RunStarted /\ JobUnowned
  BY DEF Init, RunShape, RunStarted, JobUnowned, Absent, Terminal
<1>4. Init => Attended
  BY DEF Init, Attended, CancelMeansOver, LockHasItsHandler, RewritesDecided,
     RunFollowsMessage, RunIsAttended, Calm, Lock!LockInit, Lock!NoToken, Cancellers
<1>5. TypeOK /\ RunShape /\ [Next]_vars => RunShape'
  BY RecordStep
<1>6. Attended => RunIsAttended
  BY DEF Attended
<1> QED
  BY <1>1, <1>2, <1>3, <1>4, <1>5, <1>6, HoldsLockStep, OrderStep, DraftStep,
     RunStartedStep, JobUnownedStep, AttendedStep, TypeCorrect, LockInvariant, PTL DEF Spec
===============================================================================
