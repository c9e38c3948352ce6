------------------------------ MODULE Processes ------------------------------
(***************************************************************************)
(* The life of the two processes: the order in which the API and the       *)
(* Worker build their connections, what is undone when a step of that      *)
(* fails, the runs left behind by an earlier process, and the shutdown by  *)
(* a signal.  The work in the processes is a run at its coarsest: a request *)
(* creates it and leaves it to the queue, or executes it in the API itself *)
(* (regenerateMessage).  A run may have an open SSE stream, which the API   *)
(* serves as long as it lasts.                                             *)
(***************************************************************************)
EXTENDS Naturals, FiniteSets, Sequences

CONSTANTS
    PrRuns,         \* runs, numbered in the order of their requests
    PrConcurrency,  \* AGENT_WORKER_CONCURRENCY
    PrMaxBoots,     \* bound: starts of both processes together
    PrMaxFailures,  \* bound: calls of a start, a shutdown or an execution that throw
    PrMaxStreams    \* bound: SSE streams that are open at a time

ASSUME ProcessesAssumption ==
    /\ PrRuns \subseteq Nat /\ PrConcurrency \in Nat \ {0} /\ PrMaxBoots \in Nat /\ PrMaxFailures \in Nat
    /\ PrMaxStreams \in Nat

VARIABLES
    prPhase,    \* prPhase[p]: what process p does
    prAt,       \* prAt[p]: the next step of its start or of its shutdown
    prOpen,     \* prOpen[p]: the connections p holds
    prStuck,    \* prStuck[p]: those whose close threw
    prBoots,    \* prBoots[p]: how often p was started
    prRun,      \* prRun[r]: where the run is, the API that created it and the one that took it for a leftover
    prShut,     \* what coordinator.shutdown of the API holds
    prStream,   \* prStream[r]: the SSE stream of run r
    prFailures

prVars == <<prPhase, prAt, prOpen, prStuck, prBoots, prRun, prShut, prStream, prFailures>>

PrProcesses == {"api", "worker"}
PrConnections ==
    {"authStore", "agentStore", "redis", "runQueue", "knowledgeQueue", "bullWorker", "monitorQueue"}

-----------------------------------------------------------------------------
\* The two starts and what each step of them opens.

\* createAgentRuntimeContainer: the pool of the store outside the try, the
\* rest inside.
PrStoreBoot == <<"agentStore">>
PrContainerBoot(p) ==
    <<"redis">> \o (IF p = "api" THEN <<"runQueue", "knowledgeQueue">> ELSE <<>>) \o <<"coordinator">>
\* Mutant: the API listens before it has cleaned up.
PrApiBootListenFirst ==
    <<"storage", "authStore">> \o PrStoreBoot \o PrContainerBoot("api") \o <<"listen", "cleanup">>
\* buildApp, then listen.
PrApiBoot == <<"storage", "authStore">> \o PrStoreBoot \o PrContainerBoot("api") \o <<"cleanup", "listen">>
PrWorkerBoot == <<"storage">> \o PrStoreBoot \o PrContainerBoot("worker") \o <<"bullWorker", "monitorQueue">>
PrBootOf(p) == IF p = "api" THEN PrApiBoot ELSE PrWorkerBoot

PrOpens(step) == {step} \cap PrConnections
\* The steps createAgentRuntimeContainer runs inside its try.
PrGuarded(step) == step \in {"redis", "runQueue", "knowledgeQueue", "coordinator"}

\* closeRuntimeResources.
PrCloseOrder == <<"coordinator", "runQueue", "knowledgeQueue", "redis", "agentStore">>

-----------------------------------------------------------------------------
PrFails == prFailures < PrMaxFailures /\ prFailures' = prFailures + 1

\* runs is what shutdown found in runningRuns, left what its loop has not
\* come to, at the run whose cancelRun is under way, if any; thrown says that
\* one has rejected, and shutdown with it.
PrNoShutdown == [runs |-> {}, left |-> {}, at |-> {}, thrown |-> FALSE]

PrInit ==
    /\ prPhase = [p \in PrProcesses |-> "down"]
    /\ prAt = [p \in PrProcesses |-> 1]
    /\ prOpen = [p \in PrProcesses |-> {}]
    /\ prStuck = [p \in PrProcesses |-> {}]
    /\ prBoots = [p \in PrProcesses |-> 0]
    /\ prRun = [r \in PrRuns |-> [place |-> "none", born |-> 0, taken |-> 0]]
    /\ prShut = PrNoShutdown
    /\ prStream = [r \in PrRuns |-> "none"]
    /\ prFailures = 0

PrMove(r, place) == prRun' = [prRun EXCEPT ![r].place = place]

\* The row of the run is decided: its execution, if it goes on, unwinds.
PrDecided(r) == prRun[r].place \in {"unwinding", "ended"} \/ prRun[r].taken # 0
\* An execution in the API, until its promise settles.
PrExecuting(r) == prRun[r].place \in {"running", "aborted", "unwinding"}

\* What the end of p does to its runs: a job stalls and is queued again, an
\* execution of the API and a request leave their row running.
PrLoses(p, r) ==
    CASE p = "worker" /\ prRun[r].place = "job" -> "queued"
      [] p = "api" /\ prRun[r].place \in {"request", "abandoned", "running", "aborted"} -> "lost"
      [] p = "api" /\ prRun[r].place = "unwinding" -> "ended"
      [] OTHER -> prRun[r].place

\* The process is gone: exit, a signal nobody handles, an error nobody catches.
PrEnd(p) ==
    /\ prPhase' = [prPhase EXCEPT ![p] = "down"]
    /\ prAt' = [prAt EXCEPT ![p] = 1]
    /\ prOpen' = [prOpen EXCEPT ![p] = {}]
    /\ prStuck' = [prStuck EXCEPT ![p] = {}]
    /\ prRun' = [r \in PrRuns |-> [prRun[r] EXCEPT !.place = PrLoses(p, r)]]
    /\ prShut' = IF p = "api" THEN PrNoShutdown ELSE prShut
    /\ prStream' = IF p = "api" THEN [r \in PrRuns |-> "none"] ELSE prStream
    /\ UNCHANGED prBoots

PrCrash(p) == prPhase[p] # "down" /\ PrEnd(p) /\ UNCHANGED prFailures

PrStart(p) ==
    /\ prPhase[p] = "down" /\ prBoots["api"] + prBoots["worker"] < PrMaxBoots
    /\ prPhase' = [prPhase EXCEPT ![p] = "booting"]
    /\ prBoots' = [prBoots EXCEPT ![p] = @ + 1]
    /\ UNCHANGED <<prAt, prOpen, prStuck, prRun, prShut, prStream, prFailures>>

PrStep(p) == PrBootOf(p)[prAt[p]]

\* cleanupStaleRunningExecutions: nothing is registered in a process that
\* has just started, so every run that is still running is a leftover.
PrTakenByCleanup ==
    [r \in PrRuns |->
        IF prRun[r].place \in {"queued", "job", "lost"}
        THEN [prRun[r] EXCEPT !.taken = prBoots["api"],
                              !.place = IF @ = "lost" THEN "ended" ELSE @]
        ELSE prRun[r]]

PrBootStep(p) ==
    /\ prPhase[p] = "booting"
    /\ prOpen' = [prOpen EXCEPT ![p] = @ \cup PrOpens(PrStep(p))]
    /\ prRun' = IF PrStep(p) = "cleanup" THEN PrTakenByCleanup ELSE prRun
    /\ prPhase' = [prPhase EXCEPT ![p] =
        IF PrStep(p) \in {"listen", "monitorQueue"} THEN "serving" ELSE @]
    /\ prAt' = [prAt EXCEPT ![p] = IF prAt[p] = Len(PrBootOf(p)) THEN 1 ELSE @ + 1]
    /\ UNCHANGED <<prStuck, prBoots, prShut, prStream, prFailures>>

\* A step of the start throws: the container undoes its own steps, and the
\* top-level await of the entry point ends the process.
PrBootFails(p) ==
    /\ prPhase[p] = "booting" /\ PrFails
    /\ \/ /\ PrGuarded(PrStep(p))
          /\ prPhase' = [prPhase EXCEPT ![p] = "closing"]
          /\ prAt' = [prAt EXCEPT ![p] = 1]
          /\ UNCHANGED <<prOpen, prStuck, prBoots, prRun, prShut, prStream>>
       \/ ~PrGuarded(PrStep(p)) /\ PrEnd(p)

-----------------------------------------------------------------------------
\* The work.

\* POST /agent/stream and POST /messages/:id/regenerate, up to the answer.
PrRequest(r) ==
    /\ prPhase["api"] = "serving" /\ prRun[r].place = "none"
    /\ \A q \in PrRuns : q < r => prRun[q].place # "none"
    /\ prRun' = [prRun EXCEPT ![r].place = "request", ![r].born = prBoots["api"]]
    /\ UNCHANGED <<prPhase, prAt, prOpen, prStuck, prBoots, prShut, prStream, prFailures>>

\* The connections an execution in the API needs.
PrConnected == {"agentStore", "redis"} \subseteq prOpen["api"]

\* The handler returns.  Its error path may throw as well, and one whose
\* client has gone may find the connections closed: the row stays running.  A
\* run that shutdown has seen registered without an execution is one of
\* startRun, which leaves it to the queue.
PrEndOfRequest(r) ==
    /\ prRun[r].place \in {"request", "abandoned"}
    /\ \/ /\ \E place \in IF PrConnected THEN {"queued", "running", "ended"} ELSE {"lost", "ended"} :
             (place = "running" => r \notin prShut.runs) /\ PrMove(r, place)
          /\ UNCHANGED prFailures
       \/ PrFails /\ PrMove(r, "lost")
    /\ UNCHANGED <<prPhase, prAt, prOpen, prStuck, prBoots, prShut, prStream>>

PrJobs == {r \in PrRuns : prRun[r].place = "job"}

PrTake(r) ==
    /\ prPhase["worker"] = "serving" /\ prRun[r].place = "queued"
    /\ Cardinality(PrJobs) < PrConcurrency
    /\ PrMove(r, "job")
    /\ UNCHANGED <<prPhase, prAt, prOpen, prStuck, prBoots, prShut, prStream, prFailures>>

PrJobEnds(r) ==
    /\ prRun[r].place = "job" /\ PrMove(r, "ended")
    /\ UNCHANGED <<prPhase, prAt, prOpen, prStuck, prBoots, prShut, prStream, prFailures>>

\* cancelRun for a user, without its awaits: it decides the row; an execution
\* in the API is aborted and unwinds, a job that comes later finds the run over.
PrCancel(r) ==
    /\ prPhase["api"] \in {"serving", "draining"}
    /\ \/ prRun[r].place = "running" /\ PrMove(r, "unwinding")
       \/ prRun[r].place \in {"queued", "lost"} /\ PrMove(r, "ended")
    /\ UNCHANGED <<prPhase, prAt, prOpen, prStuck, prBoots, prShut, prStream, prFailures>>

\* executeRun in the API has its outcome and leaves runningRuns, then removes
\* the draft.  One that is aborted returns and leaves the row to the canceller,
\* unless it was past its last check.
PrExecutionEnds(r) ==
    /\ PrConnected
    /\ \/ prRun[r].place \in {"running", "aborted"} /\ PrMove(r, "unwinding")
       \/ prRun[r].place = "aborted" /\ PrMove(r, "lost")
       \/ prRun[r].place = "unwinding" /\ PrMove(r, "ended")
    /\ UNCHANGED <<prPhase, prAt, prOpen, prStuck, prBoots, prShut, prStream, prFailures>>

\* The allSettled of shutdown, which comes after the last cancelRun.
PrIsAwaited(r) == r \in prShut.runs /\ prShut.left \cup prShut.at = {} /\ ~prShut.thrown

\* executeRun rejects, in its finally or for want of a connection:
\* regenerateMessage left the promise alone (void execution), and an unhandled
\* rejection ends the API, unless the allSettled of shutdown holds it.
PrExecutionRejects(r) ==
    /\ PrExecuting(r)
    /\ PrFails \/ (~PrConnected /\ UNCHANGED prFailures)
    /\ IF PrIsAwaited(r)
       THEN PrMove(r, PrLoses("api", r)) /\ UNCHANGED <<prPhase, prAt, prOpen, prStuck, prBoots, prShut, prStream>>
       ELSE PrEnd("api")

-----------------------------------------------------------------------------
\* The streams.

\* GET /agents/runs/:runId/stream of a run whose row is running.  A stream
\* that subscribes after the terminal event, and reads the row before it is
\* decided, is late: it never sees the end.
PrStreamOpens(r) ==
    /\ prPhase["api"] = "serving" /\ prStream[r] = "none"
    /\ Cardinality({q \in PrRuns : prStream[q] # "none"}) < PrMaxStreams
    /\ prRun[r].place # "none" /\ ~PrDecided(r)
    /\ \E kind \in {"open", "late"} : prStream' = [prStream EXCEPT ![r] = kind]
    /\ UNCHANGED <<prPhase, prAt, prOpen, prStuck, prBoots, prRun, prShut, prFailures>>

\* The terminal event closes the stream.
PrStreamEnds(r) ==
    /\ prStream[r] = "open" /\ PrDecided(r)
    /\ prStream' = [prStream EXCEPT ![r] = "none"]
    /\ UNCHANGED <<prPhase, prAt, prOpen, prStuck, prBoots, prRun, prShut, prFailures>>

\* The client goes away, from its stream or from the answer to its request;
\* the handler of the request goes on.
PrClientLeaves(r) ==
    /\ \/ /\ prStream[r] # "none"
          /\ prStream' = [prStream EXCEPT ![r] = "none"] /\ UNCHANGED prRun
       \/ prRun[r].place = "request" /\ PrMove(r, "abandoned") /\ UNCHANGED prStream
    /\ UNCHANGED <<prPhase, prAt, prOpen, prStuck, prBoots, prShut, prFailures>>

-----------------------------------------------------------------------------
\* The shutdown.

\* SIGTERM or SIGINT; a signal after the first finds isShuttingDown.
PrSignal(p) ==
    /\ prPhase[p] = "serving"
    /\ prPhase' = [prPhase EXCEPT ![p] = "draining"]
    /\ UNCHANGED <<prAt, prOpen, prStuck, prBoots, prRun, prShut, prStream, prFailures>>

\* The API answers a request or a stream.
PrConversing == \E r \in PrRuns : prRun[r].place = "request" \/ prStream[r] # "none"

\* Mutant: nobody waits for the work under way.
PrDrainedAtOnce(p) == TRUE
\* Mutant: the Worker waits for the queue to be empty.
PrDrainedOfQueue(p) ==
    IF p = "api" THEN ~PrConversing ELSE \A r \in PrRuns : prRun[r].place \notin {"job", "queued"}

\* server.close resolves when no connection is busy, and only then does
\* Fastify run an onClose hook; BullMQ waits for the handlers before
\* worker.close resolves.
PrDrained(p) == IF p = "api" THEN ~PrConversing ELSE PrJobs = {}

\* The hook calls coordinator.shutdown, which lists runningRuns at once: the
\* executions that have no outcome, and perhaps one that has it and one that
\* a request has only just registered.
PrApiDrains ==
    /\ prPhase["api"] = "draining" /\ PrDrained("api")
    /\ prPhase' = [prPhase EXCEPT !["api"] = "closing"]
    /\ prAt' = [prAt EXCEPT !["api"] = 1]
    /\ \E also \in SUBSET {r \in PrRuns : prRun[r].place \in {"unwinding", "abandoned"}} :
        LET runs == also \cup {r \in PrRuns : prRun[r].place = "running"}
        IN  prShut' = [PrNoShutdown EXCEPT !.runs = runs, !.left = runs]
    /\ UNCHANGED <<prOpen, prStuck, prBoots, prRun, prStream, prFailures>>

\* worker.close, monitorQueue.close; if one throws, shutdown exits at once.
PrWorkerDrains ==
    /\ prPhase["worker"] = "draining"
    /\ \/ /\ PrDrained("worker")
          /\ prPhase' = [prPhase EXCEPT !["worker"] = "closing"]
          /\ prAt' = [prAt EXCEPT !["worker"] = 1]
          /\ prOpen' = [prOpen EXCEPT !["worker"] = @ \ {"bullWorker", "monitorQueue"}]
          /\ UNCHANGED <<prStuck, prBoots, prRun, prShut, prStream, prFailures>>
       \/ PrFails /\ PrEnd("worker")

PrAtCoordinator(p) ==
    prPhase[p] = "closing" /\ prAt[p] <= Len(PrCloseOrder) /\ PrCloseOrder[prAt[p]] = "coordinator"

\* coordinator.shutdown calls cancelRun for one run after the other.  Each
\* reads the row, sets the flag in Redis and aborts the controller; ...
PrShutdownCancels(r) ==
    /\ PrAtCoordinator("api") /\ r \in prShut.left /\ prShut.at = {} /\ ~prShut.thrown
    /\ \/ /\ PrDecided(r)
          /\ prShut' = [prShut EXCEPT !.left = @ \ {r}]
          /\ UNCHANGED <<prRun, prFailures>>
       \/ /\ ~PrDecided(r)
          /\ prShut' = [prShut EXCEPT !.left = @ \ {r}, !.at = {r}]
          /\ PrMove(r, IF prRun[r].place = "running" THEN "aborted" ELSE prRun[r].place)
          /\ UNCHANGED prFailures
       \/ PrFails /\ prShut' = [prShut EXCEPT !.thrown = TRUE] /\ UNCHANGED prRun
    /\ UNCHANGED <<prPhase, prAt, prOpen, prStuck, prBoots, prStream>>

PrCancelled(place) ==
    CASE place = "aborted" -> "unwinding"
      [] place = "job" -> "job"
      [] OTHER -> "ended"

\* ... then it decides the row, which updateRun refuses when somebody has
\* decided it meanwhile.
PrCancelWrites(r) ==
    /\ PrAtCoordinator("api") /\ r \in prShut.at /\ ~prShut.thrown
    /\ \/ /\ ~PrDecided(r)
          /\ prShut' = [prShut EXCEPT !.at = {}]
          /\ PrMove(r, PrCancelled(prRun[r].place))
          /\ UNCHANGED prFailures
       \/ /\ (PrDecided(r) /\ UNCHANGED prFailures) \/ PrFails
          /\ prShut' = [prShut EXCEPT !.thrown = TRUE]
          /\ UNCHANGED prRun
    /\ UNCHANGED <<prPhase, prAt, prOpen, prStuck, prBoots, prStream>>

\* Mutant: shutdown does not wait for the executions it has cancelled.
PrShutdownWaitsNot == PrAtCoordinator("api") /\ ~prShut.thrown /\ prShut.left \cup prShut.at # {}

\* It waits for the executions it has cancelled, but for no other, and for
\* none when a cancelRun has thrown.
PrShutdownWaits ==
    /\ PrAtCoordinator("api") /\ ~prShut.thrown
    /\ prShut.left \cup prShut.at # {} \/ \E r \in prShut.runs : PrExecuting(r)

\* The next step of closeRuntimeResources; one that throws is noted and the
\* next one is tried.  That of the coordinator throws when a cancelRun has.
PrCloseStep(p) ==
    /\ prPhase[p] = "closing" /\ prAt[p] <= Len(PrCloseOrder)
    /\ p = "api" => ~PrShutdownWaits
    /\ prAt' = [prAt EXCEPT ![p] = @ + 1]
    /\ \/ /\ prOpen' = [prOpen EXCEPT ![p] = @ \ {PrCloseOrder[prAt[p]]}]
          /\ UNCHANGED <<prStuck, prFailures>>
       \/ /\ ~PrAtCoordinator(p) /\ PrFails
          /\ prStuck' = [prStuck EXCEPT ![p] = @ \cup (prOpen[p] \cap {PrCloseOrder[prAt[p]]})]
          /\ UNCHANGED prOpen
    /\ UNCHANGED <<prPhase, prBoots, prRun, prShut, prStream>>

\* close() has returned or thrown: the onClose hook of the user store, then exit.
PrExit(p) ==
    /\ prPhase[p] = "closing" /\ prAt[p] > Len(PrCloseOrder)
    /\ PrEnd(p) /\ UNCHANGED prFailures

-----------------------------------------------------------------------------
PrNext ==
    \/ \E p \in PrProcesses :
        \/ PrCrash(p) \/ PrStart(p) \/ PrBootStep(p) \/ PrBootFails(p)
        \/ PrSignal(p) \/ PrCloseStep(p) \/ PrExit(p)
    \/ PrApiDrains \/ PrWorkerDrains
    \/ \E r \in PrRuns :
        \/ PrRequest(r) \/ PrEndOfRequest(r) \/ PrTake(r) \/ PrJobEnds(r)
        \/ PrCancel(r) \/ PrExecutionEnds(r) \/ PrExecutionRejects(r)
        \/ PrStreamOpens(r) \/ PrStreamEnds(r) \/ PrClientLeaves(r)
        \/ PrShutdownCancels(r) \/ PrCancelWrites(r)

\* A request, a handler and an execution are bounded by their own timeouts, a
\* Worker that serves takes what is queued, a stream ends with its run, and
\* each step of a shutdown is awaited.
PrWork ==
    \/ \E r \in PrRuns :
        \/ PrEndOfRequest(r) \/ PrTake(r) \/ PrJobEnds(r) \/ PrExecutionEnds(r) \/ PrStreamEnds(r)
        \/ PrShutdownCancels(r) \/ PrCancelWrites(r)
    \/ PrApiDrains \/ PrWorkerDrains
    \/ \E p \in PrProcesses : PrCloseStep(p) \/ PrExit(p)
PrFairness == WF_prVars(PrWork)

PrSpec == PrInit /\ [][PrNext]_prVars /\ PrFairness

-----------------------------------------------------------------------------
PrTypeOK ==
    /\ prPhase \in [PrProcesses -> {"down", "booting", "serving", "draining", "closing"}]
    /\ prAt \in [PrProcesses -> 1..(Len(PrApiBoot) + 1)]
    /\ prOpen \in [PrProcesses -> SUBSET PrConnections]
    /\ prStuck \in [PrProcesses -> SUBSET PrConnections]
    /\ prBoots \in [PrProcesses -> 0..PrMaxBoots]
    /\ prRun \in [PrRuns ->
        [place : {"none", "request", "abandoned", "queued", "job", "running", "aborted",
                  "unwinding", "ended", "lost"},
         born : 0..PrMaxBoots, taken : 0..PrMaxBoots]]
    /\ prShut \in [runs : SUBSET PrRuns, left : SUBSET PrRuns, at : SUBSET PrRuns, thrown : BOOLEAN]
    /\ prStream \in [PrRuns -> {"none", "open", "late"}]
    /\ prFailures \in 0..PrMaxFailures

\* Whoever works has its connections: a handler of the Worker the store and
\* Redis, a request that is waited for also the queues, an execution in the API
\* until shutdown has begun, and then if shutdown cancels it, until it has
\* unwound.  Three executions are left out, for which it does not hold: one
\* whose run had left runningRuns, one that was not in it yet, and all of them
\* when a cancelRun of the shutdown throws.  And when closeRuntimeResources has
\* gone through, in a shutdown or after a start that failed, no connection of
\* the container is left open but those whose own close threw.
PrConnectionsFitTheWork ==
    /\ PrJobs # {} => {"agentStore", "redis"} \subseteq prOpen["worker"]
    /\ (\E r \in PrRuns : prRun[r].place = "request") =>
        {"agentStore", "redis", "runQueue", "knowledgeQueue", "authStore"} \subseteq prOpen["api"]
    /\ (\E r \in PrRuns : prRun[r].place = "running" /\ prPhase["api"] # "closing") => PrConnected
    /\ (\E r \in prShut.runs : PrExecuting(r)) /\ ~prShut.thrown => PrConnected
    /\ \A p \in PrProcesses :
        prPhase[p] = "closing" /\ prAt[p] > Len(PrCloseOrder) =>
            prOpen[p] \cap {PrCloseOrder[i] : i \in 1..Len(PrCloseOrder)} = prStuck[p]

\* An API that serves has settled the runs an earlier one lost, and took none
\* of its own for a leftover.
PrLeftoversAreSettled ==
    /\ prPhase["api"] = "serving" =>
        \A r \in PrRuns : prRun[r].place = "lost" => prRun[r].born = prBoots["api"]
    /\ \A r \in PrRuns : prRun[r].taken # 0 => prRun[r].born < prRun[r].taken

\* A stream that its client has to leave: it is late, or its run has nobody
\* who decides it.
PrHeldOpen ==
    \E r \in PrRuns :
        \/ prStream[r] = "late"
        \/ prStream[r] = "open" /\ (prRun[r].place = "lost" \/ (prRun[r].place = "queued" /\ prPhase["worker"] # "serving"))

\* No shutdown goes on for ever, whatever throws in it: the Worker's never,
\* the API's only while a client holds a stream open that nothing else closes.
PrShutdownEnds ==
    /\ []<>(prPhase["worker"] \notin {"draining", "closing"})
    /\ []<>(prPhase["api"] \notin {"draining", "closing"}) \/ <>[]PrHeldOpen
=============================================================================
