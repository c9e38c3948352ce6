# A model of facai-agent in TLA+

facai-agent is a chat agent. A Fastify API stores messages, starts *runs* and streams them to a React
page; BullMQ Workers execute the runs (LangChain, tools, a vector store); PostgreSQL holds the rows,
Redis the drafts, the locks, the cancel flags, the queue and the Pub/Sub channels. This directory holds
TLA+ modules of the parts where processes, stores and failures meet, TLC configurations that check them on
small instances, and proofs for TLAPS. `PROJECT.json` maps every definition to the lines it models.

Paths below are relative to `src/apps/api/src/` unless they start with `web/`, which stands for
`src/apps/web/src/`.

## 1. Inventory

| Component | State | Operations | Hard because | Correct when |
|---|---|---|---|---|
| **Run execution** `modules/agent/agent-message-coordinator.ts` | run, message, system-message and step rows; Redis draft, cancel flag | `startRun`, `regenerateMessage`, `cancelRun`, `executeQueuedRun`, `executeRun` with guard, catch and finally | four kinds of actors (API request, canceller, Worker, boot cleanup) write the same rows, one await at a time | a run is decided once and in the end, and until then somebody is at it; its message before it; outcomes agree; nothing of it stays open |
| **Run lock** `modules/agent/agent-run-lock.ts` | one Redis key per run, lease objects | `acquire` (SET NX EX), `release` (Lua), TTL | late release, crash of the owner | at most one live lease, which owns the key |
| **Job queues** `modules/agent/agent-run-queue.ts`, `entrypoints/worker.ts` | BullMQ jobs | `enqueueRun`, `enqueueDocumentIndex`, both handlers | at-least-once delivery, stalls, ids that swallow a second add | a job that must be done is done; twice does no harm |
| **Stale run cleanup** `modules/agent/agent-run-cleanup-service.ts` | the same rows | `cleanupStaleRunningExecutions` at boot, per session | it cannot tell a leftover from a run a Worker executes | no run, message, step or placeholder stays running for ever |
| **Store** `platform/postgres/postgres-agent-store.ts` | rows, subscribers in the process | rows of runs, messages, steps, tool calls, resources, summaries, documents; pages of lists | some updates check under a row lock, some between a read and a write; a page's anchor moves | a terminal status is final; a list has no hole |
| **Draft** `modules/agent/agent-running-draft-manager.ts`, `platform/redis/redis-running-message-state-store.ts` | versioned draft in Redis | `init`, `ensure`, `appendTextDelta` (Lua), `setParts`, `getSnapshot`, `remove` | late calls make it again; it is read together with a row that moves | it is gone when the run is; a snapshot fits its version |
| **Live stream** `modules/agent/http/agent-routes.ts`, `modules/agent/agent-event-bus.ts` | a subscription and a snapshot per connection | subscribe, read run and snapshot, write, close at a terminal event | events overtake the snapshot and come twice | the text is neither torn nor repeated; the stream ends with the outcome |
| **Message view** `web/features/chat/model/` | the message as shown, with its version | `applyAgentEvent`, `reduceMessageStreamEvent`, snapshot and record upserts | snapshots, records and events in any order | it shows what the server has |
| **Page** `web/app/App.tsx` | refs, React state, URL, localStorage | submit, cancel, select, delete, restore, recover, load older | a handler goes on after an await with what it captured before | a running run can be reached; messages of one session are shown |
| **Agent loop** `modules/agent/runtime/langchain-agent-service.ts`, `modules/tools/executor.ts` | iteration, history, announced calls | `callModel`, `governedTools`, `summarizeResource`; policy, schema, timeout of a tool | refusals, timeouts, partial results, replays and cancels in between; a tool outlives its timeout | it ends; every call in the history is answered |
| **Tools** `modules/tools/` | the items of a batch, a poll counter | the eight tools; submit, poll, pause; pool of workers | workers share an index; abort and cancel come in the middle | the report is complete |
| **Resources** `agent-resource-output-projector.ts` | tool call rows, resource rows, parts | placeholders, results, errors, storing of files | slots are found by two keys, failed pictures are taken over by later calls, the run ends between two writes | a message shows what the rows say |
| **Context** `modules/agent/context-builder.ts`, `agent-summary-service.ts` | chain of summaries | refresh before an answer, history of a question | runs overlap; an old answer is regenerated | no question is forgotten; nothing from later is told |
| **Knowledge base** `modules/knowledge/` | document and chunk rows, jobs | upload, index, index again, delete, search; parse, cut, embed | routes and handlers interleave, jobs run again; offsets, overlaps, vectors in any order | a ready document has exactly its chunks, and a search finds them |
| **Auth** `modules/auth/`, `web/features/auth/` | users, the session in the browser | login, token pair, guard, refresh, logout | several refreshes, logins and logouts at once | one session is one user's, one account one user |
| **Processes** `bootstrap/`, `entrypoints/` | connections, registered executions, open streams | two starts, rollback, signals, drain, shutdown | every step may throw, a cancelRun of the shutdown too; work is under way, streams are open | who works has its connections; a shutdown ends; leftovers are settled |
| **Sessions** (coordinator, routes) | session rows | create, rename, delete with cancel of the runs, shutdown | deletes rows under a running executor | nothing of a deleted session comes back |
| **Uploads, observability, configuration, editor** | – | calls of libraries and services | – | – |

Calls go page → API → (rows, draft, queue) → Worker → (rows, draft, Pub/Sub) → API → page. The only shared
state is in PostgreSQL and Redis; within a process, JavaScript runs from one await to the next without
interruption. That is the grain of the models: **an action is the code between two awaits that matter**.

`PROJECT.json` lists the hazards of this code at their lines, each with the properties that watch it.

## 2. Plan

Done, in this order: `AgentStatus` → `RunLock` → `RunRecord` → `RunExecution` → `RunStream` → `KnowledgeIndexing`;
then `AgentLoop`, `ToolJobs`, `ResourceOutput`, `SessionMemory`, `KnowledgeText`, `Paging`, `AuthSession`, `WebPage`,
`Processes`. Proofs for every module: each invariant and each action property of a passing run is a theorem, in the order in which the
modules were written, the document's text, the resources and the lists last.

Left:

1. `RunExecution`: `regenerateMessage` and the branch of `startRun` without a queue, and the removal of a session under
   an executor. Both widen the state space of the largest module, so they want runs of their own.
2. An `EventBus` with its reference counts: what it does wrong is known (section 7).

## 3. Modules

`MC*.tla` extend modules for TLC; `*_proofs` and `*_outcome` extend them for TLAPS: `RunExecution_proofs` (types, the lock, RunRecord) and
`RunExecution_outcome` (what a decided run leaves behind), `RunStream_proofs` (the inductive invariant) and `RunStream_outcome` (what the
page shows), `RunLock_proofs`, `Background_proofs` (KnowledgeIndexing, AgentLoop, Processes and the composition MCBackground), `Contents_proofs`
(KnowledgeText, ResourceOutput, Paging) and `Services_proofs` (AuthSession, SessionMemory, ToolJobs, WebPage and the composition
MCServices).

**AgentStatus** – the status machines of run and message rows and the checks of `updateRun`
(`assertValid…Transition`, `assertRunPhaseMatchesStatus`).

**RunLock** – one Redis key (`key`), the lease object of each handler (`lease`), a counter for tokens
(`issued`, randomUUID) and the leases whose TTL elapsed (`expired`, history). `Acquire` is SET NX EX,
`Release` the Lua script, `Expire` the TTL, `Crash` the loss of a lease object.

**RunRecord** – the abstract specification of a run row: created running, works, is decided once.

**RunExecution** – one queued run over all its processes. Variables: the rows (`run`, `msg`, `sysmsg`,
`stepOpen`), Redis (`draft`, `cancelFlag`, and `key`, `lease`, `issued`, `expired` of an instance of RunLock),
the BullMQ `job`, the API process (`api`, `starter` = where startRun is, `cleaner` = where the cleanup is,
`found` = what it read), each call of cancelRun (`cancel`, `held` = what it read), each job handler (`worker`,
`local` = its local variables), and `crashes`.
  * `Start…` are the awaits of startRun, with the catch; `Cancel…` those of cancelRun, called by a request or by a
    Worker whose guard sees the flag; `CheckQueuedRun`, `AcquireLock`, `ReleaseLock` those of executeQueuedRun;
    `EnterRefresh` … `Finally` those of executeRun; `Cleanup…` those of the boot.
  * `updateMessage` is a *check* and a *write* (`MayBecome`, `WriteMessage`): it reads, checks the transition, and writes
    without looking again. `updateRun` is one step (`EndRun`, `LinkMessage`): SELECT … FOR UPDATE in a transaction.
  * Message parts are told apart by origin: empty, partial, answer, failure, interrupted.
  * BullMQ: `Deliver`, `Stall` (the owner is dead *or* late: the job is given to somebody else), `Acknowledge` (the job leaves
    the queue if the handler still owns it; there are no retries, BullMQ's default of one attempt is kept).
  * `ApiCrash` ends startRun, requests and cleanup; `ApiRestart` runs the cleanup first. `WorkerCrash` leaves lock and
    job behind. `LockExpires` is the TTL.

**RunStream** – the same run as a page sees it: executor and canceller with the *order of publications* (`exec`,
`cancel`), the way of an event (`wire[p]`: Redis keeps the order of each publisher and forgets what nobody
subscribes; events published in the API process are also delivered at once), the connection (`conn`: subscribe → read run →
read row → read draft → write snapshot → live), and the message on the page (`page`). Texts are sequences of the
numbers of their deltas, so a lost, repeated or reordered delta shows. `Reduce` is `reduceMessageStreamEvent`,
`ApplySnapshot` is `upsertMessageSnapshot` with its comparison of versions, `Reload` is the recovery of an active run
after the page is loaded again. Rows are coarser than in RunExecution (updateMessage is one step), there is one text
part and one step, and no publication is lost.

**KnowledgeIndexing** – one document: the routes (`Upload…`, `Reindex…`, `Delete`), the job whose id is the document's,
and the handlers of `indexDocument`. `updateKnowledgeDocument` is a read and a write that writes back what it read;
`replaceKnowledgeChunks` deletes what it sees and commits later (READ COMMITTED). The chunks of one pass are one element.

**KnowledgeText** – what one pass makes of a file: choice of the parser (`KtParse`), cutting by words or by characters with the
overlap (`KtSplit`, `KtWords`, `KtCharacters`), the answer of the embedding service in any order (`KtEmbed`), and a search
(`KtQuery`, `KtSelect`). A text is the sequence of the lengths of its words; offsets are the code's.

**AgentLoop** – the graph of one run: `alNode` is its node, `alCurrent` the counter of the closure, `alIteration` that of the graph
state, `alSteps` what LangGraph counts. `AlModelCallsTools`, `AlModelAnswers`, `AlModelFails` are outcomes of `callModelInner`;
`AlToolStart` … `AlToolsDone` are `governedTools` with `ToolExecutor.doExecute`; `AlStop` is the guard of executeRun, thrown at the next
event. A tool whose timeout has passed goes on (`alZombies`).

**ToolJobs** – inside one execution: arguments (`TjImageRefused`, `TjVideoMode`), the pool of workers of a batch with its shared index
(`TjTake`, `TjReturn`), submit, poll and pause of the media services, `Promise.all` (`TjFinishBatch`), abort and cancel at any moment.
Tools of one request are one action each.

**ResourceOutput** – the projector: an event becomes a list of writes (`roTodo`), row first, then part (`roStep`), with the end of the
run, its crash and the cleanup between any two.

**SessionMemory** – messages by their place in (created_at, seq), the chain of summaries, and for each run what it has read. `SmRefresh`,
`SmSummarised`, `SmSummaryFails` are `refreshSessionSummaryBeforeAnswer`; `SmAnswer` and `SmRegenerate` build the history.

**Paging** – the two lists, each page in two queries (`PgReadCursor`, `PgSelect`), rows created, touched and deleted in between, and a
refresh of the list while a next page is outstanding.

**AuthSession** – the API with its clock and users, logins from any device in two steps (`AuAskGithub`, `AuUpsert`, `AuFinishLogin`), one
browser with several `authenticatedFetch` calls over one stored session. A signature is the name of the secret it was made with.

**WebPage** – one tab: `wpPage` holds the refs, the React state, the URL and localStorage; `wpOp` the handlers and effects under way with
what they captured before their await. The messages shown are the set of the sessions they come from.

**Processes** – API and Worker: the two starts step by step (`PrBootOf`), the rollback of the container, signal, drain, `closeRuntimeResources`
in its order, crash and restart. A run is only the place where it is worked on, with the API that created it and the one that took it for
a leftover (`prRun`); an execution in the API is running, aborted, or unwinding once its row is decided.
  * The drain of the API (`PrConversing`) waits for the answers to requests and for the SSE streams (`prStream`), a stream that missed the end of
    its run included (*late*); a client that goes away ends its stream at once, while the handler of its request goes on (*abandoned*).
  * `prShut` is what `coordinator.shutdown` holds: the runs it found in `runningRuns`, those its loop has not come to, the one it is cancelling
    (`PrShutdownCancels`, then `PrCancelWrites`), and whether a cancelRun has thrown. One that throws (Redis, or `updateRun` refusing because
    the run was decided meanwhile) ends the loop and the wait, and `PrCloseStep` goes on to the connections.
  * An execution without its connections rejects, which ends the API unless the `allSettled` of the shutdown holds it (`PrExecutionRejects`).

**MCBackground, MCServices** – several independent modules in one specification. They share no variable; the initial state chooses the
`part` that runs and the others stay as they began, so the reachable states are the sum of those of the parts, not their
product, and every property is checked in all states of its part. Liveness is asked under the fairness of the part that runs.

How they meet: RunLock is instantiated by RunExecution; AgentLoop is what executeRun of RunExecution calls and sees as a source of events;
ToolJobs is one tool call of AgentLoop; ResourceOutput takes the events of both; SessionMemory has what the summary steps of
RunExecution write; KnowledgeText is one pass of a handler of KnowledgeIndexing; RunStream is one stream of the page in WebPage;
Processes has the runs of RunExecution at their coarsest.

## 4. Runs

| Run | Instance | States | What it shows |
|---|---|---|---|
| `execution` | 2 workers, 1 cancel request, Redis fails in startRun, 1 stall, 2 events | 587 615 | one executor; no open step after completion; the draft is gone; nobody walks away from the run; run and message agree; the row refines RunRecord |
| `execution_faults` | 2 workers, 1 Worker death, 1 TTL, 1 stall, 1 API restart with cleanup | 324 016 | the message is decided before the run |
| `execution_fair` | 1 worker, 1 request, 1 API crash, failing Redis, compression, fair | 180 730 | every run is decided |
| `stream` | Worker or API process, 2 deltas, agent may fail, 1 reload, fair | 137 746 | the text is exact, no delta twice, the end shows the outcome, early streams end |
| `stream_cancel` | both places, 1 delta, cancel by a request and by the guard | 3 683 414 | the end shows the outcome |
| `background` | RunLock, KnowledgeIndexing, AgentLoop, Processes; fair | 391 639 | lock; status and chunks agree, none stays in indexing; the loop ends with a history a provider takes; connections fit the work, leftovers are settled, a shutdown ends |
| `services` | KnowledgeText, ResourceOutput, ToolJobs, AuthSession, WebPage, SessionMemory, Paging | 838 333 | a search finds what the text says; a message shows its resources; a batch is reported completely; one session is one user's; a running run is reachable; no question is forgotten; a list has no holes |
| `message_finality` | 1 worker, 1 request | – | **violated**: a terminal message status is replaced |
| `takeover` | 2 workers, 1 death, 1 stall, 1 TTL, fair | – | **violated**: nobody takes over after the TTL |
| `snapshot_lost` | Worker, 2 deltas | – | **violated**: the snapshot's text is not restored |
| `stream_hangs` | Worker, 1 delta, fair | – | **violated**: a stream stays open after the run |
| `reindex_lost` | 1 handler, 1 request | – | **violated**: a pending document is not queued |

### Bounds

*Run and stream.* Two handlers are enough for every race of two deliveries; a third could only wait for the lock (RunLock is
checked with three, and proved for any number). `MaxTokens` = `MaxStalls` + 1, so no handler is kept from the lock by the
bound: each delivery acquires at most once. BullMQ's default `maxStalledCount` is 1. Two events let a step open and close
around a delta. One compression per run is what the code does in one execution; a second execution does it again, but finds the
new summary. Two deltas let one be in a snapshot while the other is on its way; with a third, only longer prefixes appear. One
request of each kind is enough, since a second finds the run decided or repeats the same steps. Faults are split over two runs: cancel
and Redis failures in one, deaths, TTLs and restarts in the other. The counters `MaxExpiries`, `MaxWorkerCrashes`, `MaxApiCrashes`,
`MaxReloads` are guards.

*Background.* Three holders and five leases of the lock: an owner, one that is late and one that comes next. Two requests to index
again cover "during the first pass" and "after it"; one delete, one stall and one death, not more than `maxStalledCount` (section 7);
`MayStallAlive` FALSE. The agent loop has up to three iterations with two calls each: first, middle and final iteration, and
a call behind one that fails. Three starts of the two processes, and one step that throws: a start that failed, a crash and a shutdown each meet
an earlier process. Two runs, because the loop of the shutdown couples them: the cancel of the first throws while the second is still
executing, or while it is queued for a Worker. One stream at a time, of either run: the drain asks only whether there is one.

*Services.* Texts of up to six words, the lengths 1, 2 (a quarter of the chunk, which is 8) and 9 (longer than a chunk): several chunks with
overlaps, words that must be cut, and a search that leaves chunks out. Two tool calls of a message with three items in all: a batch of two
and a single, so that a later call takes a failed picture over. Three items of a batch for two workers: one worker takes twice; one poll, so
that its bound is met. Two accounts, two logins, two calls; tokens live one and two ticks of a clock with two, so an access token expires
first and then the refresh token. Two sessions, one new, two runs, two handlers and three acts of the user: a handler that is overtaken
and a further act. Three runs over five messages with `SmTrigger` = `SmKeep` = 1: two refreshes overlap and an old answer is regenerated.
Four sessions in pages of one with two writes; the page and its anchor move apart.

Every other bound is a guard on a counter, marked "bound" at its CONSTANT. Deadlock is checked in all runs of RunExecution,
RunStream and KnowledgeIndexing alone: there the legitimate end is a step of its own (`Rest`, `Done`, `Quiet`), enabled only when everybody is
through. It is off in `background` and `services`: leases, calls, acts and writes run out there, and a graph or a tool that has ended does
nothing more.

### Fairness

Weak, per process: a promise settles (the agent has a limit of iterations, each tool a timeout, the provider its client's default one), so each
startRun, cancelRun, handler, cleanup and route goes on unless it is killed; BullMQ delivers what waits and notices a job
whose owner is gone; a dead API is started again; a TTL elapses; Redis delivers what was published. A `Stall` of a live owner,
a crash, a cancel, a reload or a request is never forced. Since actions of one process exclude each other by its program
counter, weak fairness of the process is what a scheduler that does not starve it gives.

In `background`: the loop of the agent goes on and its timers fire (`AlLoop`), while a tool may never return, a user need not cancel and a
model that fails does so by choice; of the processes the work under way and the steps of a shutdown are fair (`PrWork`), a start, a
signal, a crash, a request and a client that leaves are not. So `PrShutdownEnds` says of the API that its shutdown ends unless a stream is held
open for ever that only its client could close (`PrHeldOpen`): a late one, or one of a run that nobody decides. The lock states no
fairness: nothing of it must happen but the TTL. `services` states none: its properties are about safety.

## 5. Findings

1. **A terminal message status is replaced** (`message_finality`). Canceller and executor both pass the check of
   `updateMessage` (`platform/postgres/postgres-agent-store.ts:728`), then both write.
2. **No takeover after a Worker's death** (`takeover`). The job is redelivered while the dead Worker's lock has most of
   its 30 minutes left; the handler finds it taken, returns, and the job is done.
3. **The snapshot loses against the first delta** (`snapshot_lost`). The page takes a delta for a whole message and
   drops the older snapshot.
4. **A stream that is never closed** (`stream_hangs`). Terminal event, then `updateRun`: whoever subscribes in between misses both.
5. **A document that is queued for ever** (`reindex_lost`). Its job is not added, because the one before still exists.

Section 7 lists further divergences that have no run of their own.

## 6. Proofs

All proofs are for every value of the constants. Nothing is assumed beyond the named assumptions of the modules and, where
it is written into the theorem, the condition below.

* **RunLock** – `LockIInv` = types, tokens of leases were issued, leases are distinct, a live lease owns the key. The last one alone
  is not inductive: without distinct leases a release could delete somebody else's key with the same token. It gives
  `LockTypeCorrect`, `LockOwnership`, `LockExclusion`.
* **RunExecution, types** – `TypeCorrect`: every action, one step each.
* **RunExecution refines RunRecord** – `RecordImplemented`. Each action that writes the run row is `Record!Create`, `Work` or
  `Finish`, because `updateRun` checks under the row lock; all others leave the row alone (`HandlerKeepsRun`,
  `CancellerKeepsRun`, `CleanerKeepsRun`). `RunShape` says that a run exists once startRun is beyond its first step, and that a
  decided run repeats its status as its phase.
* **RunExecution and its lock** – the coordinator touches the key only through RunLock, so RunLock's invariant carries over (the lemma
  `LockInvariant`). With `HoldsLock` (a handler inside executeRun holds a lease) it gives `OneExecutorHolds`: without an elapsed TTL
  two executors would hold two live leases.
* **Message first** – `MessageFirst`: if nobody cancels during startRun and there is no compression (`Assumptions`), whoever decides the run
  has decided its linked message before. The invariant `Order` says for each process what its program counter implies about the message
  (startRun, job, cancellers, cleanup, handlers), for example that a canceller which is about to update the run has seen or made the linked
  message terminal, and that a terminal message stays terminal whoever writes. The two conditions are needed (section 7).
* **No open step** – `NoOpenStepLeft`. `Alone`: without an elapsed TTL two handlers are never both between the guard and the release, since
  both would hold live leases. So between the steps' end and the run's completion (`AtEnd`) nobody opens one, and nobody is about
  to open one when the run is completed (`StepsClosed`).
* **Same story** – `SameStory`. While nothing disturbs the run (`Undisturbed`: no TTL, no cancel, the API alive), cancellers and the cleanup stay
  away from the rows (`OthersAway`), the rows are there before the job (`StarterStory`), a handler finds them running or does not write
  them (`StoryOf`), and the lock is free only while run and message are both running or both decided (`RowsStory`). The last part is what a
  redelivered job, or one after a death, rests on: the lock of the dead keeps the next handler away.
* **Draft** – `NoDraftLeft`, under `Assumptions`: as long as no process died, a draft beside a decided message is being *watched*, by a handler
  that has come to the message and has its finally before it, or by a canceller at its removal (`Watched`). The proof failed without `NoCrash`, and
  TLC then found why (section 7, *Draft of a dead Worker*).
* **Nobody walks away** – `NobodyWalksAway`, under `Assumptions`. `Attended` says why whoever gives a run up may do so. A lock that is taken has a
  handler that will release it (`LockHasItsHandler`), so a second delivery may return. A handler in its finally, and a message that is
  decided while its run is not, have a canceller or a handler on the way to the run (`RunFollowsMessage`), and nothing it meets
  before can throw (`Settles`, `Concludes`); so the catch of executeRun and a cancelRun that throws may give up. A guard that sees its run
  cancelled calls cancelRun itself and goes on only when the run is over (`CancelMeansOver`). With a death or an elapsed TTL it is not
  so: that is finding 2.
* **RunStream** – `StreamInductive`: `StreamIInv` has two halves. `RowsIInv` is about the rows, the draft and the program counters: the draft is the
  first deltas, one ahead of the events between script and publication, or the answer under a version of its own (`DraftTold`); who may
  have ended run and message (`EndsTold`); a worker's run has nobody else writing its message while it is running (`WorkerTold`). `WatchIInv`
  says of every event on its way what its author knew when it was published and that it is still true (`EventTold`), and that page and
  snapshot claim no version the draft has not had. It gives `StreamTypeCorrect`, and with `TextFits` (deltas increase, none beyond the
  version) `NothingTwice`. A step is first reduced to what it does to the watch (`WatchStep`): nothing, a publication of at most two true
  events, a delivery, or a step of the route. A fold over at most two events is unrolled (`FoldTwo`), and `PublishKeeps`/`HearingKeeps` carry any set of
  states of connection and page that every event keeps.
* **Fresh page** – `FreshPageIsExact`. `WireInOrder`: versions on a worker's wire increase, and nothing comes after the final answer. `FreshView`:
  each published version beyond the page's is still pending on the wire, and page and snapshot show the draft's text at their version; so the next
  event is the next version or one already shown.
* **End of a stream** – `EndIsShown`. For a connection of the early kind, from link to end: the page has the message before the agent starts
  (`Linked`, `PageTold`); of the API process nothing terminal is on its way that was not heard at once (`ApiHeard`), so the second copy never ends a
  connection; in a worker `run_completed` is last on the wire and has the record of the message right before it (`Preceded`), so when it is
  next, the page shows the answer (`AnswerAhead`); every step on the page is closed or its end is on the wire (`StepsTold`). `Ending` is then the
  property, strengthened by which events may end a connection.
* **KnowledgeIndexing** – `IndexingTypeCorrect` and, if BullMQ takes a job only from a dead handler, `StatusTellsChunks`. The invariant:
  only the owner of the active job is at work (`OneHandler`); after its mark the document is pending or indexing; what it is
  about to delete contains all chunks; after its commit the chunks are the last batch (`HandlerOrder`).
* **AgentLoop** – `AlRecursionLimitIsFar`: `AlStepsCounted` says how many nodes were executed at each node of the graph in terms of the
  iteration, which `isFinalIteration` keeps below maxIterations, so the limit `2 * maxIterations + 4` is out of reach.
  `AlProviderTakesHistory`: `AlHistoryGrows` adds to the property what holds while the tools run, that only the last answer waits for its
  messages and that it called exactly the calls that are open; the messages appended by `AlToolsDone` then answer it
  (`AlToolsCloseHistory`). Both for any maxIterations and any number of calls.
* **AuthSession** – `AuSessionStaysOneUsers`: the captured session of every refresh must be honest too (`AuSessionsHonest`), since it
  outlives the stored one. `AuAccountStaysOneUser`: everything a token can still be issued from, issued pairs, logins under way, stored
  and captured refresh tokens, names the row of its account (`AuAllKnown`), and a row keeps its id (`AuKnownStays`).

* **Processes** – `PrWorkIsConnected` and `PrNoneIsLeftOver`. `PrIInv` says how far a start or a close has come in terms of what is open
  (`PrBootIsInOrder`, `PrCloseIsInOrder`), where a run can be in view of that (`PrRunHasItsProcess`), and how a run's birth compares with the
  starts of the API (`PrLeftoversAreOlder`). `PrShutdownHolds` is about the loop of the shutdown: as long as a run it has listed is executing
  and no cancelRun has thrown, the close is still at its first step and the connections are open. It says nothing of the runs outside the list, nor
  after a throw, and neither does `PrConnectionsFitTheWork`: without these exceptions TLC finds an execution over closed
  connections (section 7).
* **MCBackground, MCServices** – `BackgroundTypeCorrect`, `BackgroundIsSafe`, `ServicesTypeCorrect`, `ServicesAreSafe`. A step of one part is a step
  of that part and leaves the others alone (`BackgroundParts`, `ServicesParts`), so a behaviour of the composition is one of each part, but for the
  fairness (`BackgroundIsItsParts`, `ServicesAreTheirParts`), and every safety property a run checks of the composition follows from the part's
  theorem. The proofs of the parts therefore use the steps only (`AlMoves`, `PrMoves`), never the fairness of their specifications.
* **SessionMemory** – `SmChainIsComplete` and `SmToldIsFromBefore`. `SmIInv`: each summary knows every question up to what it covers, also the one a run has read
  before its await (`SmComplete(prev)`), and the slice it summarises follows that one without a gap (`SmSliceFollows`); so whichever run writes
  last, the chain stays complete. The slices are chosen by counting elements (`SmFirst`, `SmLast`); that counting has no gap is proved with
  cardinalities of finite sets, and the least number of a set in place of an induction scheme.

* **ToolJobs** – `TjReportCompletes`. Who works on an item took it, alone, and has not decided it (`TjItemsAreTaken`); an item below the shared index
  is decided or in somebody's hands, unless a worker has rejected (`TjNoneIsDropped`); so when every worker has returned, every item is
  decided, and the two numbers the model is told, cardinalities of sets of items, add up to all of them (`TjAllCounted`).
* **WebPage** – `WpRunsStayReachable` and `WpViewStaysOfOneSession`. The invariant has one half for each. `WpReach`: a run that the page answers for is the
  one that the registry has under its session (the property allows the active run as well; the proof shows that the registry is enough), and a
  handler that checks a run before it resumes it, and still holds the stream, has no live run of its session beside it (`WpResumeOK`). `WpFits`: as
  long as nothing is loose, URL, ref, active session and the run in localStorage name one session, one handler waits at a time but for the
  two effects, and what it will write is of that session (`WpWillFit`). Most actions are mild: what they follow or register was
  there before (`WpMildStep`); the six others, which start, resume or recover a run, go through `WpMoveStep`. That no handler is called `"restore"`
  or `"recover"` and no session `"none"` is assumed of the constants (`WebPageAssumption`): they are the names of the two effects and of null.

* **KnowledgeText** – `KtAnswerHasWordAlways` and `KtCuttingGetsOn`. `KtNothingSkipped`: every letter before the place the cutting has reached is in a
  chunk, whatever the overlap; the place only goes on to the word that does not fit any more, or back from it. With `KtSearched` (each row has
  the vector of its own chunk, whatever order the service answered in) a search finds a chunk with the word first. The ends of the words are a
  recursive function; that it defines one, and that it increases, is proved by induction with a set in the place of a predicate
  (`KtEndsExist`, `KtEndIs`, `InductionOnSet`). That a chunk ends beyond the place it starts at holds for every text, that the *next*
  one starts further on only for ordinary texts: the condition in `KtOrdinaryTextIsCut` is where the proof needs it.
* **ResourceOutput** – `RoMessageShows` and `RoSlotsTell`. While the run lives (`RoLiveInv`): a write that is left comes from the event its call is in
  (`RoWriteFits`), a row follows the state of its call, and one that still waits has a write coming or is one of the exceptions of the
  property (`RoRowFits`), a slot has one row although it is found by two keys and taken over by prompt (`RoOneRow`), and part p of the draft shows row p,
  except the one that is written next (`RoPartsFit`). Without `RoOneRow` the rest is not inductive: an update would reach one row and leave
  its twin. After the run only what was kept matters (`RoOver`). The writes of an event are one list made of lists, so the section starts
  with what `FlattenSeq` returns.
* **Paging** – `PgListsHaveNoHoles`. `PgComplete` is the property with the place the list has reached made explicit; `PgGoesOn` says of a next page under
  way that it starts where the list ends, also when the key of the anchor has moved after it was read, and `PgAsked` that a first page is
  complete by itself. A row that is inserted later is not among the due ones, and one that is touched is due no more.

**Assumed of the constants.** Bounds are natural numbers, some of them positive. A call of a tool has at least one prompt, and several
only as a batch of pictures (`ResourceOutputAssumption`: the argument schemas of the three tools). The overlap is below the length of a
chunk (`KnowledgeTextAssumption`). The page's assumption is named above. TLC evaluates all of them.

**Only model-checked:** liveness (`RunDecided`, `EarlyStreamEnds`, `IndexingEnds`, `AlLoopEnds`, `PrShutdownEnds`): fairness and
ENABLED are beyond the prover. Every other property of a passing run is a theorem.

## 7. Known divergences

Behaviour of the code that breaks what one would expect, seen while modelling, and where the models stand on it.

**Run**

* *API restart.* The cleanup fails every running run, also those that Workers are executing
  (`agent-run-cleanup-service.ts:56`); modelled, and the properties hold in spite of it.
* *Half-started run.* The API dies between creating the assistant message and linking it (`agent-message-coordinator.ts:304`):
  the cleanup finds only the run, the message stays running. Modelled (`ApiCrash`); `LinkedMessageFirst` is therefore about
  linked messages.
* *Cancel during startRun* (deleteSession, shutdown): the canceller read the run before the message was linked, and leaves
  the message running. Behind `EarlyCancel`, FALSE in the runs.
* *Compression.* If a cancel comes while the system message is made, the message is created but not linked and stays running, and
  the refresh can throw before executeRun has loaded the assistant message, so that only the run is failed. Behind `MayCompress`,
  TRUE only in `execution_fair`.
* *Draft of a dead Worker.* A Worker that dies after a canceller has decided the run leaves its draft behind, or makes it again before it
  dies: the next handler sees that the run is over and returns before the finally. The draft goes away with its TTL of two hours
  (`platform/redis/redis-running-message-state-store.ts:24`), which is not modelled. `DraftIsGone` is about runs without deaths.
* *Steps after a cancel.* An event that passed the guard is stored after the canceller closed the steps; the step stays running.
  `CompletedRunHasNoOpenStep` is about completed runs.
* *Lock not released* if executeQueuedRun throws between `acquire` and its `try`. Needs rows that disappear; not modelled.
* *Ambiguous enqueue.* If `add` was carried out but threw, the run is failed and the job is delivered; the handler sees the run is over.
* *Regeneration that rejects.* `void execution` (`agent-message-coordinator.ts:444`): an execution whose last removal of the draft fails ends
  the API process. Modelled (`PrExecutionRejects`).
* *Two executors in one Worker process*, after a TTL has elapsed, share the entry of the run in `runningRuns`: the second replaces the abort
  controller of the first. In the models each handler has its own.
* *deleteSession against startRun.* A run that is started while its session is deleted leaves rows without a session. Not modelled.

**Shutdown**

* *A cancelRun that throws* ends `coordinator.shutdown` (`agent-message-coordinator.ts:206`): Redis fails, or `updateRun` refuses because the run was
  decided meanwhile. The runs behind it are not cancelled, no execution is waited for, and `closeRuntimeResources` goes on to close Redis and the
  store under them (`bootstrap/runtime-container.ts:442`), although its comments say that producers are stopped before their connections (lines
  414 and 432). Modelled (`PrShutdownCancels`, `PrCancelWrites`, `PrCloseStep`); `PrConnectionsFitTheWork` excepts it.
* *Executions the shutdown does not know*: one that has left `runningRuns` and is removing its draft, and one that is registered after the list was
  made, by a request whose client had gone. Both may find the connections closed. Modelled, excepted.
* *Open streams hold up the shutdown.* Fastify waits for the open SSE streams before it runs the hook that cancels the runs. A stream that missed
  the end of its run (finding 4), one of a run that an API crash left undecided, and one of a run that is queued while no
  Worker serves, end only when their client goes. Modelled; `PrShutdownEnds` names them.

**Stream**

* *Runs of the API process.* The Redis copy of `session.message.created` comes after the first deltas and replaces their text by the
  empty record (`web/features/chat/model/message-projection.ts:206`). `FreshTextExact` is about Workers.
* *Cancel and in-flight deltas.* `cancelRun` publishes the draft's text in a record without a version
  (`agent-message-coordinator.ts:508`), so deltas still on their way are appended a second time; `NoDeltaTwice` is about runs nobody cancels.
* *Failed runs.* `error` closes the stream before the steps and the message are updated, so the page learns of them only when it
  loads them again; `session.message.updated(failed)` is shown as running until the terminal event (the reducer's default branch).
* *Late connections.* A connection whose snapshot read races with the end can keep "running" and a partial text.
  `EndShowsOutcome` and `EarlyStreamEnds` are about connections set up while the run was generating.
* *Event bus* (`agent-event-bus.ts:106`–128). A second listener is told that it is subscribed before Redis has acknowledged the subscription of the
  first; a failed first subscription leaves its listener behind; unsubscribing twice removes a newer set of listeners; the close handler of the
  route is registered after an await (`agent-routes.ts:828`). Not modelled.
* *Lost publications* are dropped by the code (`agent-message-coordinator.ts:1087`); Redis delivers in RunStream.

**Knowledge**

* *Orphan chunks.* A document deleted while it is indexed gets chunks without a row; the comment on deleteKnowledgeDocument says this
  cannot be. Searches join with the document, so nobody sees them. `StatusMatchesChunks` is about documents that exist.
* *Two indexers.* If BullMQ takes the job from a handler that is alive but late (an event loop blocked by parsing), two handlers replace
  chunks at once: chunks of two passes, or a ready document whose chunks the other handler's failure removed. `MayStallAlive` = TRUE shows it.
* *Twice-dead job.* When its Worker dies more often than `maxStalledCount` allows, the job fails, nothing updates the
  document, which stays in indexing, and the kept job blocks the next request.
* *Enqueue fails after the row is written* (upload, reindex): the document stays pending.
* *Cutting that does not get on* (`chunker.ts:56`, 166–184). The start of the next chunk is moved back by the overlap and then to the beginning
  of a word; with a word longer than about a quarter of a chunk this may be where the last chunk began, for ever. `KtOrdinaryTextIsCut` states
  for which texts it cannot happen; `KtMaxChunks` cuts the others off.

**Agent loop and tools**

* A call that cannot be executed, or a tool that throws, ends the run; the calls behind it stay announced, and a cancel leaves tool calls and
  resources pending. A tool whose timeout has passed goes on and keeps emitting progress.
* AppErrors of tools are always unrecoverable, although a comment has them returned to the model.
* An empty summary of resources emits `final_answer` with no text, then fails the run. With maxIterations 1, replayed calls are announced
  and never executed.
* A batch: the error of a call fails its first slot only; items that came as base64 leave their slot pending; two addresses of one item
  overwrite each other; a success is recorded as failed when its progress event throws; `Promise.all` gives up at the first worker and
  leaves the others running. `RoSlotsTellOutcome` names these exceptions.
* `ensureToolCallRecord` opens a terminal row again; the temporary directory of a document is not removed; the pause of the video tool does
  not notice a signal that was aborted before (`TjWakeVideo`).

**Session memory**

* With the default limits (`maxHistoryMessages` 12, trigger 16), messages 13 to 16 before the next summary are told neither raw nor in a summary. The SQL limit
  also counts running and empty answers. An answer that is still running when a summary advances beyond it is never remembered, so
  `SmNoQuestionForgotten` is about questions. (session, version) is not unique. `selectMessagesWithinBudget` skips a message that does not fit
  and goes on, which leaves gaps. The contents of an uploaded document reach the model only in the run of its upload.

**Lists and page**

* *Paging.* A list that is refreshed while a next page is outstanding gets a hole (`web/app/App.tsx`, loadMore of sessions and older messages);
  a deleted anchor ends the paging (`postgres-agent-store.ts:253`). `PgNoHoles` names both.
* *A start that is answered after the user has selected another session* draws the page back; older messages of X land in Y; the refresh after a
  cancel writes over another session; two sessions selected quickly may end with the first; a failed start is repeated *without* its session, and
  Enter submits twice while the first start is under way; a late recovery replaces a newer run; a failed cancel or delete forgets a running run, a late
  answer of a cancel clears a newer one; a renewal of the tokens runs the effects again and the spinner may stay; a failed restore leaves the
  old messages. `wpGivenUp` and `wpLoose` mark these, and the two properties of WebPage are about all other behaviours.
* *Refresh after logout.* A refresh that is under way while the user logs out stores its session again (`web/features/auth/api/authenticated-fetch.ts:25`).
  Modelled; `AuSessionIsOneUsers` holds in spite of it.

## 8. Not modelled

Removal of a session's rows under an executor, the queue-less branch of `startRun`, the reference counts of the event bus (section 2); uploads of
the user (one call of S3) and rename of a session; how parts become prompt text, and how a provider's stream is read chunk by chunk; the libraries
that read PDF and Word (a text or an error) and the services behind the tools; observability (no state of the program); reading the
environment and the migrations (steps that succeed or throw); the editor, galleries and layout of the page. Process crashes in RunStream: what a
page sees of a crash is the end of its connection, after which it loads again. PostgreSQL failures in RunExecution: only Redis fails, in startRun
and at the best-effort draft removal.

## 9. Running it

    tlc -workers 2 -config MCRunExecution.cfg MCRunExecution.tla
    tlapm RunExecution_proofs.tla

`Services_proofs` is the longest proof (about five minutes), then `Contents_proofs` and `Background_proofs` (three to four) and `RunExecution_outcome`
and the two modules of RunStream (a minute or two each); `stream_cancel` is the longest run. Each configuration named in PROJECT.json belongs to the
MC module of the same row. Operators commented "Mutant" are plausible bugs of the definition that follows them: with one of them in its
place, the run named with it in PROJECT.json fails, which shows that the property says something about that code.
