------------------------------- MODULE ToolJobs -------------------------------
(***************************************************************************)
(* What happens inside one execution of a tool.  generate_image,           *)
(* edit_image and generate_video submit a task to the Volcengine service   *)
(* and poll it; generate_image with items runs them through a small pool   *)
(* of workers that share the index of the next item.  The other tools ask  *)
(* one service or none.  The signal may be aborted (timeout of the         *)
(* executor, end of the run) and emitProgress throws once the run is       *)
(* cancelled, both while the workers are in the middle of a request.       *)
(***************************************************************************)
EXTENDS Naturals, FiniteSets

CONSTANTS
    TjMaxItems,     \* bound: MAX_BATCH_IMAGES
    TjConcurrency,  \* batchConcurrency
    TjMaxPolls      \* maxPollAttempts

ASSUME ToolJobsAssumption ==
    TjMaxItems \in Nat \ {0} /\ TjConcurrency \in Nat \ {0} /\ TjMaxPolls \in Nat \ {0}

VARIABLES
    tjTool,         \* "idle", or the tool that executes
    tjItems,        \* state of every requested picture or video
    tjNext,         \* nextIndex, from 1
    tjWorker,       \* tjWorker[w]: the item w works on, 0, or how w ended
    tjPolls,        \* how often each item's task was polled
    tjAborted,      \* context.signal is aborted
    tjCancelled,    \* emitProgress throws
    tjResult,       \* "none", what execute returned, or how it threw
    tjTold          \* the pictures llmContent counts: [succeeded, failed]

tjVars == <<tjTool, tjItems, tjNext, tjWorker, tjPolls, tjAborted, tjCancelled, tjResult, tjTold>>

TjWorkers == 1..TjConcurrency
TjReturned == TjMaxItems + 1
TjRejected == TjMaxItems + 2

TjInit ==
    /\ tjTool = "idle"
    /\ tjItems = [i \in 1..1 |-> "waiting"]
    /\ tjNext = 1
    /\ tjWorker = [w \in TjWorkers |-> TjReturned]
    /\ tjPolls = [i \in 1..1 |-> 0]
    /\ tjAborted = FALSE
    /\ tjCancelled = FALSE
    /\ tjResult = "none"
    /\ tjTold = [succeeded |-> 0, failed |-> 0]

\* A call that ends before any request: its arguments are refused, or the
\* keys of the service are missing, which fails a batch as a whole.
TjEndAtOnce(tool, result) ==
    /\ tjTool' = tool
    /\ tjResult' = result
    /\ UNCHANGED <<tjItems, tjNext, tjWorker, tjPolls, tjAborted, tjCancelled, tjTold>>

-----------------------------------------------------------------------------
\* The three media tools.

\* The size of a picture: both sides or none, and not too many pixels.
TjSizes == [width : BOOLEAN, height : BOOLEAN, large : BOOLEAN]

TjSizeRefused(size) ==
    \/ size.width # size.height
    \/ size.width /\ size.height /\ size.large

\* imageArgsSchema: a prompt or a list of at most MAX_BATCH_IMAGES items.
TjImageRefused(size, prompt, items) ==
    TjSizeRefused(size) \/ items > TjMaxItems \/ (~prompt /\ items = 0)

\* execute of generate_image with items: as many workers as there are
\* items, at most batchConcurrency.
TjStartBatch(n) ==
    /\ tjTool' = "batch"
    /\ tjItems' = [i \in 1..n |-> "waiting"]
    /\ tjPolls' = [i \in 1..n |-> 0]
    /\ tjWorker' = [w \in TjWorkers |-> IF w <= n THEN 0 ELSE TjReturned]
    /\ UNCHANGED <<tjNext, tjAborted, tjCancelled, tjResult, tjTold>>

\* A tool that makes one thing works on it at once.
TjStartSingle(tool) ==
    /\ tjTool' = tool
    /\ tjItems' = [tjItems EXCEPT ![1] = "submit"]
    /\ tjNext' = 2
    /\ tjWorker' = [tjWorker EXCEPT ![1] = 1]
    /\ UNCHANGED <<tjPolls, tjAborted, tjCancelled, tjResult, tjTold>>

\* generate_image: the items are preferred to the prompt.
TjGenerateImage(size, prompt, items, keys) ==
    /\ tjTool = "idle"
    /\ \/ TjImageRefused(size, prompt, items) /\ TjEndAtOnce("generate_image", "refused")
       \/ ~TjImageRefused(size, prompt, items) /\ ~keys /\ TjEndAtOnce("generate_image", "thrown")
       \/ ~TjImageRefused(size, prompt, items) /\ keys /\ items > 0 /\ TjStartBatch(items)
       \/ ~TjImageRefused(size, prompt, items) /\ keys /\ items = 0 /\ TjStartSingle("generate_image")

\* edit_image: its address must be http or https.
TjEditImage(http, keys) ==
    /\ tjTool = "idle"
    /\ \/ ~http /\ TjEndAtOnce("edit_image", "refused")
       \/ http /\ ~keys /\ TjEndAtOnce("edit_image", "thrown")
       \/ http /\ keys /\ TjStartSingle("edit_image")

\* videoArgsSchema and selectVideoMode: a last frame needs a first one.
TjVideoMode(first, last) ==
    CASE first /\ last -> "first_last_frame"
      [] first /\ ~last -> "first_frame"
      [] ~first /\ last -> "refused"
      [] OTHER -> "text_to_video"

TjGenerateVideo(first, last, keys) ==
    /\ tjTool = "idle"
    /\ LET mode == TjVideoMode(first, last) IN
       \/ mode = "refused" /\ TjEndAtOnce("generate_video", "refused")
       \/ mode # "refused" /\ ~keys /\ TjEndAtOnce("generate_video", "thrown")
       \/ mode # "refused" /\ keys /\ TjStartSingle("generate_video")

-----------------------------------------------------------------------------
\* Mutant: the index is read before the progress event and counted after it.
TjIndexAfterTake == IF \E w \in TjWorkers : tjWorker[w] \in DOMAIN tjItems THEN tjNext + 1 ELSE tjNext

TjIndexAfter == tjNext + 1

\* runNextItem: test, take the index and count it on are one step of the
\* event loop; then the progress event, which may throw.
TjTake(w) ==
    /\ tjWorker[w] = 0
    /\ tjNext \in DOMAIN tjItems
    /\ ~tjAborted
    /\ tjNext' = TjIndexAfter
    /\ tjWorker' = [tjWorker EXCEPT ![w] = IF tjCancelled THEN TjRejected ELSE tjNext]
    /\ tjItems' = IF tjCancelled THEN tjItems ELSE [tjItems EXCEPT ![tjNext] = "submit"]
    /\ UNCHANGED <<tjTool, tjPolls, tjAborted, tjCancelled, tjResult, tjTold>>

\* runNextItem returns: no item is left, or the signal is aborted.
TjReturn(w) ==
    /\ tjWorker[w] = 0
    /\ tjAborted \/ tjNext \notin DOMAIN tjItems
    /\ tjWorker' = [tjWorker EXCEPT ![w] = TjReturned]
    /\ UNCHANGED <<tjTool, tjItems, tjNext, tjPolls, tjAborted, tjCancelled, tjResult, tjTold>>

TjWorking(w, state) == tjWorker[w] \in DOMAIN tjItems /\ tjItems[tjWorker[w]] = state

\* An item of a batch is recorded, then its progress event is emitted inside
\* the same try: if that throws, the item becomes failed and the worker
\* rejects.  A single tool returns or throws.
TjDecide(w, outcome) ==
    LET item == tjWorker[w]
        batch == tjTool = "batch"
    IN  /\ tjItems' = [tjItems EXCEPT ![item] = IF batch /\ tjCancelled THEN "failed" ELSE outcome]
        /\ tjWorker' = [tjWorker EXCEPT ![w] =
                          CASE batch /\ ~tjCancelled -> 0
                            [] batch /\ tjCancelled -> TjRejected
                            [] OTHER -> TjReturned]
        /\ tjResult' = IF batch THEN tjResult ELSE IF outcome = "success" THEN "done" ELSE "thrown"
        /\ UNCHANGED tjTold

TjMoves(w, state) ==
    /\ tjItems' = [tjItems EXCEPT ![tjWorker[w]] = state]
    /\ UNCHANGED <<tjWorker, tjResult, tjTold>>

\* requestVolcengine and ensureSuccessfulResponse: an aborted signal, a
\* refused signature, an HTTP error, a body of another shape and a code
\* other than 10000 all throw.
TjImageService(answers) == {"error"} \cup (IF tjAborted THEN {} ELSE answers)

\* The same of the video service.
TjVideoService(answers) == {"error"} \cup (IF tjAborted THEN {} ELSE answers)

\* A frame on this host is read into the request; one that is neither in the
\* upload directory nor served throws.
TjLocalPicture == {"read", "elsewhere", "error"}

\* toVideoFrameInput: all frames as base64, else all as addresses; a frame
\* that throws throws for all of them.
TjFrames(pictures) ==
    CASE "error" \in pictures -> "error"
      [] pictures = {"read"} -> "base64"
      [] OTHER -> "addresses"

\* What the submission of the current tool may be answered with.
TjSubmitAnswers ==
    CASE tjTool = "generate_video" ->
           {IF TjFrames(pictures) = "error" THEN "error" ELSE answer :
               pictures \in SUBSET TjLocalPicture, answer \in TjVideoService({"task"})}
      [] tjTool = "edit_image" ->
           {IF picture = "error" THEN "error" ELSE answer :
               picture \in TjLocalPicture, answer \in TjImageService({"task"})}
      [] OTHER -> TjImageService({"task"})

\* CVSync2AsyncSubmitTask; an answer without task_id throws too.
TjSubmit(w) ==
    /\ TjWorking(w, "submit")
    /\ \E answer \in TjSubmitAnswers :
         IF answer = "task" THEN TjMoves(w, "poll") ELSE TjDecide(w, "failed")
    /\ UNCHANGED <<tjTool, tjNext, tjPolls, tjAborted, tjCancelled>>

TjCounted(item) == [tjPolls EXCEPT ![item] = @ + 1]

\* CVSync2AsyncGetResult of a picture, at most maxPollAttempts times: a task
\* that is lost or done without a picture is an error, one that runs is
\* asked again after a pause.
TjPollImage(w) ==
    /\ TjWorking(w, "poll") /\ tjTool # "generate_video"
    /\ LET item == tjWorker[w] IN
       IF tjPolls[item] = TjMaxPolls
       THEN TjDecide(w, "failed") /\ UNCHANGED tjPolls
       ELSE \E answer \in TjImageService({"running", "lost", "pictures", "empty"}) :
              \/ answer = "running" /\ TjMoves(w, "pause") /\ tjPolls' = TjCounted(item)
              \/ answer = "pictures" /\ TjDecide(w, "success") /\ UNCHANGED tjPolls
              \/ answer \in {"lost", "empty", "error"} /\ TjDecide(w, "failed") /\ UNCHANGED tjPolls
    /\ UNCHANGED <<tjTool, tjNext, tjAborted, tjCancelled>>

\* The same of a video, which is done with an address or not at all.
TjPollVideo(w) ==
    /\ TjWorking(w, "poll") /\ tjTool = "generate_video"
    /\ LET item == tjWorker[w] IN
       IF tjPolls[item] = TjMaxPolls
       THEN TjDecide(w, "failed") /\ UNCHANGED tjPolls
       ELSE \E answer \in TjVideoService({"running", "lost", "video", "empty"}) :
              \/ answer = "running" /\ TjMoves(w, "pause") /\ tjPolls' = TjCounted(item)
              \/ answer = "video" /\ TjDecide(w, "success") /\ UNCHANGED tjPolls
              \/ answer \in {"lost", "empty", "error"} /\ TjDecide(w, "failed") /\ UNCHANGED tjPolls
    /\ UNCHANGED <<tjTool, tjNext, tjAborted, tjCancelled>>

\* sleep of the picture tools: an aborted signal, before or during the
\* pause, rejects.
TjWakeImage(w) ==
    /\ TjWorking(w, "pause") /\ tjTool # "generate_video"
    /\ IF tjAborted THEN TjDecide(w, "failed") ELSE TjMoves(w, "poll")
    /\ UNCHANGED <<tjTool, tjNext, tjPolls, tjAborted, tjCancelled>>

\* sleep of the video tool: it hears an abort only while it sleeps.  Of a
\* signal that was aborted before it sleeps on, and polls once more.
TjWakeVideo(w) ==
    /\ TjWorking(w, "pause") /\ tjTool = "generate_video"
    /\ \/ tjAborted /\ TjDecide(w, "failed")
       \/ TjMoves(w, "poll")
    /\ UNCHANGED <<tjTool, tjNext, tjPolls, tjAborted, tjCancelled>>

-----------------------------------------------------------------------------
TjCount(state) == Cardinality({i \in DOMAIN tjItems : tjItems[i] = state})

\* items.length: the array ends with the last index that was written.
TjTotal == TjCount("success") + TjCount("failed")

TjBatchStatus ==
    CASE TjTotal = TjCount("success") -> "done"
      [] TjCount("success") > 0 -> "partial_failed"
      [] OTHER -> "failed"

\* renderBatchImageResultForLlm: the counts the model reports to the user.
TjTell == [succeeded |-> TjCount("success"), failed |-> TjCount("failed")]

\* Promise.all: the first worker that rejects ends the execution at once and
\* leaves the others to themselves; else the report is made of the items.
TjFinishBatch ==
    /\ tjTool = "batch" /\ tjResult = "none"
    /\ \/ /\ \E w \in TjWorkers : tjWorker[w] = TjRejected
          /\ tjResult' = "thrown"
          /\ UNCHANGED tjTold
       \/ /\ \A w \in TjWorkers : tjWorker[w] = TjReturned
          /\ tjResult' = TjBatchStatus
          /\ tjTold' = TjTell
    /\ UNCHANGED <<tjTool, tjItems, tjNext, tjWorker, tjPolls, tjAborted, tjCancelled>>

-----------------------------------------------------------------------------
\* The tools that answer in one step.

\* web_search: the key, the HTTP status and the shape of the body; results
\* without an address are dropped.
TjWebSearch ==
    /\ tjTool = "idle"
    /\ \E reply \in {"no key", "aborted", "HTTP error", "bad body", "results"} :
         TjEndAtOnce("web_search", IF reply = "results" THEN "done" ELSE "thrown")

\* knowledge_search: whatever the retriever throws becomes a result that
\* tells the model not to invent an answer.
TjKnowledgeSearch ==
    /\ tjTool = "idle"
    /\ \E reply \in {"results", "nothing", "error"} : TjEndAtOnce("knowledge_search", "done")

\* calculator: characters outside the pattern, a refused expression and a
\* result that is not a finite number throw.
TjCalculator ==
    /\ tjTool = "idle"
    /\ \E value \in {"forbidden", "unreadable", "infinite", "finite"} :
         TjEndAtOnce("calculator", IF value = "finite" THEN "done" ELSE "thrown")

\* current_time: a name that is no time zone throws.
TjCurrentTime ==
    /\ tjTool = "idle"
    /\ \E zone \in {"known", "unknown"} :
         TjEndAtOnce("current_time", IF zone = "known" THEN "done" ELSE "thrown")

\* generate_document: a directory of its own, then the file; the disk may
\* refuse either.
TjGenerateDocument ==
    /\ tjTool = "idle"
    /\ \E disk \in {"written", "refused"} :
         TjEndAtOnce("generate_document", IF disk = "written" THEN "done" ELSE "thrown")

-----------------------------------------------------------------------------
\* The timeout of the executor, or the abort of the run.
TjAbort ==
    /\ tjTool # "idle" /\ ~tjAborted
    /\ tjAborted' = TRUE
    /\ UNCHANGED <<tjTool, tjItems, tjNext, tjWorker, tjPolls, tjCancelled, tjResult, tjTold>>

\* The run is cancelled in another process: the guard behind emitProgress.
TjCancel ==
    /\ tjTool # "idle" /\ ~tjCancelled
    /\ tjCancelled' = TRUE
    /\ UNCHANGED <<tjTool, tjItems, tjNext, tjWorker, tjPolls, tjAborted, tjResult, tjTold>>

TjWork ==
    \/ \E w \in TjWorkers :
         TjTake(w) \/ TjReturn(w) \/ TjSubmit(w) \/ TjPollImage(w) \/ TjPollVideo(w)
           \/ TjWakeImage(w) \/ TjWakeVideo(w)
    \/ TjFinishBatch

TjNext ==
    \/ \E size \in TjSizes, prompt, keys \in BOOLEAN, items \in 0..(TjMaxItems + 1) :
         TjGenerateImage(size, prompt, items, keys)
    \/ \E http, keys \in BOOLEAN : TjEditImage(http, keys)
    \/ \E first, last, keys \in BOOLEAN : TjGenerateVideo(first, last, keys)
    \/ TjWebSearch \/ TjKnowledgeSearch \/ TjCalculator \/ TjCurrentTime \/ TjGenerateDocument
    \/ TjWork
    \/ TjAbort
    \/ TjCancel

TjSpec == TjInit /\ [][TjNext]_tjVars

-----------------------------------------------------------------------------
TjTypeOK ==
    /\ \A i \in DOMAIN tjItems : tjItems[i] \in {"waiting", "submit", "poll", "pause", "success", "failed"}
    /\ tjNext \in 1..(TjMaxItems + 1)
    /\ tjWorker \in [TjWorkers -> 0..(TjMaxItems + 2)]
    /\ \A i \in DOMAIN tjPolls : tjPolls[i] \in 0..TjMaxPolls
    /\ tjResult \in {"none", "refused", "done", "partial_failed", "failed", "thrown"}

\* A batch that was neither cut off nor cancelled reports every requested
\* picture and tells the model how many of them exist: the workers take
\* every item, and each exactly one of them, whatever order their requests
\* end in.
TjReportIsComplete ==
    /\ tjTool = "batch" /\ tjResult \in {"done", "partial_failed", "failed"} /\ ~tjAborted =>
         /\ tjTold.succeeded + tjTold.failed = Cardinality(DOMAIN tjItems)
         /\ tjTold.succeeded = TjCount("success")
         /\ tjResult = "done" => \A i \in DOMAIN tjItems : tjItems[i] = "success"
    /\ \A v, w \in TjWorkers :
         v # w /\ tjWorker[v] \in DOMAIN tjItems => tjWorker[v] # tjWorker[w]

=============================================================================
