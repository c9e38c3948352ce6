--------------------------- MODULE ResourceOutput ---------------------------
(***************************************************************************)
(* AgentResourceOutputProjector: the tool calls of one assistant message   *)
(* that produce pictures, videos and documents.  Three layers are kept for *)
(* each of them: the tool call row, one resource row per output slot and   *)
(* one part of the message's draft per resource.  The projector works      *)
(* through the slots of an event one write at a time, with an await        *)
(* between the row of a slot and its part; the run may be cancelled, or    *)
(* its process die, between any two of them.                               *)
(*                                                                         *)
(* A prompt stands for the pair (prompt, sourceImageUrl) of a picture.     *)
(***************************************************************************)
EXTENDS Naturals, Sequences, SequencesExt, FiniteSets

CONSTANTS
    RoRequests,     \* the arguments a tool is called with: [type, batch, prompts]
    RoMaxCalls,     \* bound: tool calls of the message
    RoMaxItems      \* bound: items they ask for in all

\* A call asks for something, and for several items only as a batch of pictures.
ASSUME ResourceOutputAssumption ==
    /\ RoMaxCalls \in Nat /\ RoMaxItems \in Nat
    /\ \A request \in RoRequests :
         /\ request \in [type : {"image", "video", "document"}, batch : BOOLEAN, prompts : Seq(STRING)]
         /\ Len(request.prompts) \in 1..RoMaxItems
         /\ IF request.batch THEN request.type = "image" ELSE Len(request.prompts) = 1

VARIABLES
    roRun,          \* "running", "completed", "failed", "cancelled", "dead" or "cleaned"
    roCalls,        \* agent_tool_calls: [status, request, outcome] of each call
    roResources,    \* agent_resources of the message, in order of creation
    roParts,        \* the resource parts of the draft
    roMessage,      \* the resource parts of the message row, written when the run ends
    roTodo,         \* the writes the projector has left of the event it handles
    roStep          \* the resource whose part is to be written next, or 0

roVars == <<roRun, roCalls, roResources, roParts, roMessage, roTodo, roStep>>

RoNoPrompt == "no prompt"

\* metadata.outputIndex is absent: the slot is 0.
RoUnmarked == RoMaxItems + 1

RoUnsettled == {"pending", "running"}

\* What a tool made of one requested item.  "inline" is a picture that came
\* as base64 only, "two" an item for which the service returned two URLs.
RoItemOutcomes(type) ==
    IF type = "image" THEN {"url", "two", "inline", "failed"} ELSE {"url"}

RoOutcomes(request) ==
    IF request.batch
    THEN [DOMAIN request.prompts -> RoItemOutcomes(request.type)]
    ELSE {<<o>> : o \in RoItemOutcomes(request.type) \ {"failed"}}

-----------------------------------------------------------------------------
RoInit ==
    /\ roRun = "running"
    /\ roCalls = <<>>
    /\ roResources = <<>>
    /\ roParts = <<>>
    /\ roMessage = <<>>
    /\ roTodo = <<>>
    /\ roStep = 0

\* createToolCall and updateToolCall.
RoCreateCall(request) ==
    roCalls' = Append(roCalls, [status |-> "pending", request |-> request, outcome |-> <<>>])

RoUpdateCall(c, status) == roCalls' = [roCalls EXCEPT ![c].status = status]

RoItems(calls) == FoldLeft(LAMBDA n, call : n + Len(call.request.prompts), 0, calls)

\* tool_call_ready: ensureToolCallRecord creates the row, pending.
RoCallReady(request) ==
    /\ roRun = "running" /\ roTodo = <<>>
    /\ Len(roCalls) < RoMaxCalls
    /\ RoItems(roCalls) + Len(request.prompts) <= RoMaxItems
    /\ \A c \in DOMAIN roCalls : roCalls[c].status # "running"
    /\ RoCreateCall(request)
    /\ UNCHANGED <<roRun, roResources, roParts, roMessage, roTodo, roStep>>

\* The metadata of a resource, as far as it is looked at again.  A picture
\* is marked with its slot on request, a document always, a video never.
RoImageMetadata(prompt, slot, marked) ==
    [prompt |-> prompt, index |-> IF marked THEN slot ELSE RoUnmarked]
RoVideoMetadata == [prompt |-> RoNoPrompt, index |-> RoUnmarked]
RoDocumentMetadata(slot) == [prompt |-> RoNoPrompt, index |-> slot]

RoWrite(c, slot, status, metadata) ==
    [type |-> roCalls[c].request.type, call |-> c, slot |-> slot, status |-> status,
     metadata |-> metadata]

\* The slots a request announces: a batch of pictures has one per item.
RoImageSlots(c) ==
    LET request == roCalls[c].request IN
    [i \in DOMAIN request.prompts |->
        RoWrite(c, i - 1, "pending", RoImageMetadata(request.prompts[i], i - 1, request.batch))]
RoVideoSlot(c) == <<RoWrite(c, 0, "pending", RoVideoMetadata)>>
RoDocumentSlot(c) == <<RoWrite(c, 0, "pending", RoDocumentMetadata(0))>>

\* handleToolStart: the row is running, the slots get their placeholders.
\* The tools of one answer of the model run one after the other.
RoToolStart(c) ==
    /\ roRun = "running" /\ roTodo = <<>>
    /\ roCalls[c].status = "pending"
    /\ \A d \in 1..(c - 1) : roCalls[d].status \notin RoUnsettled
    /\ RoUpdateCall(c, "running")
    /\ roTodo' = CASE roCalls[c].request.type = "image" -> RoImageSlots(c)
                   [] roCalls[c].request.type = "video" -> RoVideoSlot(c)
                   [] OTHER -> RoDocumentSlot(c)
    /\ UNCHANGED <<roRun, roResources, roParts, roMessage, roStep>>

\* extractFailedImageAssets: the slots of the items that failed.
RoFailedAssets(outcome) ==
    FlattenSeq([i \in DOMAIN outcome |-> IF outcome[i] = "failed" THEN <<i - 1>> ELSE <<>>])

\* extractImageAssets: an item with two URLs is listed twice under its own
\* index; the URLs of a single result are numbered.
RoImageAssets(request, outcome) ==
    FlattenSeq([i \in DOMAIN outcome |->
        CASE outcome[i] = "url" -> <<i - 1>>
          [] outcome[i] = "two" -> <<i - 1, IF request.batch THEN i - 1 ELSE i>>
          [] OTHER -> <<>>])

\* upsertImageResultParts: the failed items first, then the pictures.
RoImageWrites(c, outcome) ==
    LET request == roCalls[c].request
        Prompt(slot) == request.prompts[IF request.batch THEN slot + 1 ELSE 1]
        Writes(slots, status) ==
            [i \in DOMAIN slots |->
                RoWrite(c, slots[i], status, RoImageMetadata(Prompt(slots[i]), slots[i], slots[i] > 0))]
    IN  Writes(RoFailedAssets(outcome), "failed") \o Writes(RoImageAssets(request, outcome), "remote")

\* upsertVideoResultParts and upsertDocumentResultParts, with
\* extractVideoAssets and extractDocumentAssets: one asset.
RoVideoWrites(c) == <<RoWrite(c, 0, "remote", RoVideoMetadata)>>
RoDocumentWrites(c) == <<RoWrite(c, 0, "local", RoDocumentMetadata(0))>>

\* handleToolResult: the call has succeeded whatever becomes of its files.
RoToolResult(c, outcome) ==
    /\ roRun = "running" /\ roTodo = <<>>
    /\ roCalls[c].status = "running"
    /\ roCalls' = [roCalls EXCEPT ![c].status = "succeeded", ![c].outcome = outcome]
    /\ roTodo' = CASE roCalls[c].request.type = "image" -> RoImageWrites(c, outcome)
                   [] roCalls[c].request.type = "video" -> RoVideoWrites(c)
                   [] OTHER -> RoDocumentWrites(c)
    /\ UNCHANGED <<roRun, roResources, roParts, roMessage, roStep>>

\* handleToolError: only slot 0 is written, whatever the request announced.
RoToolError(c) ==
    /\ roRun = "running" /\ roTodo = <<>>
    /\ roCalls[c].status = "running"
    /\ LET request == roCalls[c].request
           prompt == IF request.batch THEN RoNoPrompt ELSE request.prompts[1]
       IN  roTodo' = <<RoWrite(c, 0, "error",
                         CASE request.type = "image" -> RoImageMetadata(prompt, 0, FALSE)
                           [] request.type = "video" -> RoVideoMetadata
                           [] OTHER -> RoDocumentMetadata(0))>>
    /\ UNCHANGED <<roRun, roCalls, roResources, roParts, roMessage, roStep>>

-----------------------------------------------------------------------------
\* Mutant: a resource without outputIndex is not found.
RoOwnMarked(w) ==
    {r \in DOMAIN roResources :
        /\ roResources[r].type = w.type
        /\ roResources[r].call = w.call
        /\ roResources[r].index = w.slot}

\* findImageResource: the resource of the call that carries the index, for
\* slot 0 else one that carries none.
RoOwnResources(w) ==
    LET own == {r \in DOMAIN roResources :
                  roResources[r].type = w.type /\ roResources[r].call = w.call}
        exact == {r \in own : roResources[r].index = w.slot}
    IN  IF exact # {} \/ w.slot > 0 THEN exact
        ELSE {r \in own : roResources[r].index = RoUnmarked}

\* findReusableFailedImageResource: a failed picture of the same prompt that
\* never got a URL, of whichever call.
RoReusable(w) ==
    {r \in DOMAIN roResources :
        /\ w.type = "image" /\ w.metadata.prompt # RoNoPrompt
        /\ roResources[r].type = "image"
        /\ roResources[r].status = "failed"
        /\ ~roResources[r].url
        /\ roResources[r].prompt = w.metadata.prompt}

\* A file to be stored: whether its address is http, the answer is good, its
\* announced and its real size are within maxBytes and S3 takes it.
RoFiles == [http : BOOLEAN, answer : BOOLEAN, declared : BOOLEAN, size : BOOLEAN, put : BOOLEAN]

\* readResponseBody cuts off a body that is larger than it said.
RoBodyRead(file) == file.declared /\ file.size

\* storeRemoteResource of S3, and the failed resource that storeToolResource
\* makes of its error.
RoStoreRemote(file) ==
    IF file.http /\ file.answer /\ RoBodyRead(file) /\ file.put THEN "succeeded" ELSE "failed"

\* storeGeneratedResourceStream: a local file, whose size is known.
RoStoreStream(file) == IF file.size /\ file.put THEN "succeeded" ELSE "failed"

\* storeGeneratedToolResource: the file may be gone before it is read.
RoStoreGenerated(file) == IF file.answer THEN RoStoreStream(file) ELSE "failed"

\* The status a write gives its slot.
RoWriteStatuses(w) ==
    CASE w.status = "remote" -> {RoStoreRemote(file) : file \in RoFiles}
      [] w.status = "local" -> {RoStoreGenerated(file) : file \in RoFiles}
      [] w.status = "error" -> {"failed"}
      [] OTHER -> {w.status}

\* createResource and updateResource, which replaces the metadata but keeps
\* a URL the patch has none for.
RoCreateResource(w, status) ==
    [type |-> w.type, call |-> w.call, index |-> w.metadata.index, prompt |-> w.metadata.prompt,
     status |-> status, url |-> status = "succeeded"]

RoUpdateResource(row, w, status) ==
    [RoCreateResource(w, status) EXCEPT !.url = row.url \/ status = "succeeded"]

RoFirst(set) == CHOOSE r \in set : \A q \in set : r <= q

\* upsertResource: the resource of the slot is updated, else a failed one is
\* taken over, else a row is created.
RoUpsertResource ==
    /\ roTodo # <<>> /\ roStep = 0
    /\ \E status \in RoWriteStatuses(Head(roTodo)) :
         LET w == Head(roTodo)
             found == IF RoOwnResources(w) # {} THEN RoOwnResources(w) ELSE RoReusable(w)
             r == RoFirst(found)
         IN  IF found = {}
             THEN /\ roResources' = Append(roResources, RoCreateResource(w, status))
                  /\ roStep' = Len(roResources) + 1
             ELSE /\ roResources' = [roResources EXCEPT ![r] = RoUpdateResource(@, w, status)]
                  /\ roStep' = r
    /\ UNCHANGED <<roRun, roCalls, roParts, roMessage, roTodo>>

\* updateToolCall between the resource and the part of a tool_error.
RoFailCall ==
    /\ roTodo # <<>> /\ roStep # 0
    /\ Head(roTodo).status = "error"
    /\ roCalls[Head(roTodo).call].status # "failed"
    /\ RoUpdateCall(Head(roTodo).call, "failed")
    /\ UNCHANGED <<roRun, roResources, roParts, roMessage, roTodo, roStep>>

\* Mutant: the part is found by call and index alone.
RoPartOfSlot(res, w) == {p \in DOMAIN roParts : roParts[p].call = w.call /\ roParts[p].slot = w.slot}

\* findGeneratedResourcePartIndex.
RoPartOf(res, w) ==
    {p \in DOMAIN roParts :
        \/ roParts[p].res = res
        \/ roParts[p].call = w.call /\ roParts[p].slot = w.slot}

\* upsertResourcePart: the first part of the resource or of the slot is
\* replaced, else one is appended; setParts writes the draft.
RoUpsertPart ==
    /\ roTodo # <<>> /\ roStep # 0
    /\ Head(roTodo).status = "error" => roCalls[Head(roTodo).call].status = "failed"
    /\ LET w == Head(roTodo)
           part == [res |-> roStep, call |-> w.call, slot |-> w.slot,
                    state |-> roResources[roStep].status]
           found == RoPartOf(roStep, w)
       IN  roParts' = IF found = {} THEN Append(roParts, part)
                      ELSE [roParts EXCEPT ![RoFirst(found)] = part]
    /\ roTodo' = Tail(roTodo)
    /\ roStep' = 0
    /\ UNCHANGED <<roRun, roCalls, roResources, roMessage>>

-----------------------------------------------------------------------------
\* executeRun ends: with an answer once every tool call has its result, or
\* with an error between two events.  The draft becomes the message.
RoEnd(status) ==
    /\ roRun = "running" /\ roTodo = <<>>
    /\ status = "completed" => \A c \in DOMAIN roCalls : roCalls[c].status \notin RoUnsettled
    /\ roRun' = status
    /\ roMessage' = roParts
    /\ UNCHANGED <<roCalls, roResources, roParts, roTodo, roStep>>

\* cancelRun writes the draft as it is; the projector still finishes the
\* event it has begun, the guard stops it before the next.
RoCancel ==
    /\ roRun = "running"
    /\ roRun' = "cancelled"
    /\ roMessage' = roParts
    /\ UNCHANGED <<roCalls, roResources, roParts, roTodo, roStep>>

\* The process dies: what the projector had left is not done.
RoCrash ==
    /\ roRun = "running"
    /\ roRun' = "dead"
    /\ roTodo' = <<>>
    /\ roStep' = 0
    /\ UNCHANGED <<roCalls, roResources, roParts, roMessage>>

\* failInterruptedToolCalls, one row at a time.
RoCleanupCall(c) ==
    /\ roRun = "dead"
    /\ roCalls[c].status \in RoUnsettled
    /\ RoUpdateCall(c, "failed")
    /\ UNCHANGED <<roRun, roResources, roParts, roMessage, roTodo, roStep>>

\* failInterruptedResources, after the tool calls.
RoCleanupResource(r) ==
    /\ roRun = "dead"
    /\ \A c \in DOMAIN roCalls : roCalls[c].status \notin RoUnsettled
    /\ roResources[r].status = "pending"
    /\ roResources' = [roResources EXCEPT ![r].status = "failed"]
    /\ UNCHANGED <<roRun, roCalls, roParts, roMessage, roTodo, roStep>>

\* The message and the run are failed last; the message's parts become one
\* text and the draft is removed.
RoCleanupMessage ==
    /\ roRun = "dead"
    /\ \A c \in DOMAIN roCalls : roCalls[c].status \notin RoUnsettled
    /\ \A r \in DOMAIN roResources : roResources[r].status # "pending"
    /\ roRun' = "cleaned"
    /\ roParts' = <<>>
    /\ roMessage' = <<>>
    /\ UNCHANGED <<roCalls, roResources, roTodo, roStep>>

RoNext ==
    \/ \E request \in RoRequests : RoCallReady(request)
    \/ \E c \in DOMAIN roCalls : RoToolStart(c)
    \/ \E c \in DOMAIN roCalls : \E outcome \in RoOutcomes(roCalls[c].request) : RoToolResult(c, outcome)
    \/ \E c \in DOMAIN roCalls : RoToolError(c)
    \/ RoUpsertResource
    \/ RoFailCall
    \/ RoUpsertPart
    \/ \E status \in {"completed", "failed"} : RoEnd(status)
    \/ RoCancel
    \/ RoCrash
    \/ \E c \in DOMAIN roCalls : RoCleanupCall(c)
    \/ \E r \in DOMAIN roResources : RoCleanupResource(r)
    \/ RoCleanupMessage

RoSpec == RoInit /\ [][RoNext]_roVars

-----------------------------------------------------------------------------
RoIdle == roTodo = <<>> /\ roRun \notin {"dead", "cleaned"}

RoTypeOK ==
    /\ roRun \in {"running", "completed", "failed", "cancelled", "dead", "cleaned"}
    /\ Len(roCalls) <= RoMaxCalls
    /\ \A c \in DOMAIN roCalls :
         /\ roCalls[c].status \in RoUnsettled \cup {"succeeded", "failed"}
         /\ roCalls[c].request \in RoRequests
    /\ \A r \in DOMAIN roResources : roResources[r].status \in {"pending", "succeeded", "failed"}
    /\ \A p \in DOMAIN roParts : roParts[p].res \in DOMAIN roResources
    /\ roStep \in DOMAIN roResources \cup {0}

\* A completed message shows every resource exactly once and in the state
\* its row is in, although resources move between calls and slots are found
\* by two different keys.
RoMessageShowsResources ==
    roRun = "completed" =>
        /\ Len(roMessage) = Len(roResources)
        /\ \A r \in DOMAIN roResources :
             \E p \in DOMAIN roMessage :
                /\ roMessage[p].res = r
                /\ roMessage[p].state = roResources[r].status

\* The outcome of a slot reaches its resource: a placeholder stays pending
\* between events only for a picture that came inline or for a later slot of
\* a batch whose call failed as a whole, and a failed item is not shown as a
\* success.  When the cleanup has closed the message of a dead process, none
\* of its placeholders waits any more.
RoSlotsTellOutcome ==
    /\ roRun = "cleaned" => \A r \in DOMAIN roResources : roResources[r].status # "pending"
    /\ RoIdle =>
        \A r \in DOMAIN roResources :
            LET row == roResources[r]
                call == roCalls[row.call]
                slot == IF row.index = RoUnmarked THEN 0 ELSE row.index
                outcome == IF call.status = "succeeded" /\ slot < Len(call.outcome)
                           THEN call.outcome[slot + 1] ELSE "url"
            IN  /\ row.status = "pending" =>
                     \/ call.status = "running"
                     \/ call.status = "succeeded" /\ outcome = "inline"
                     \/ call.status = "failed" /\ slot > 0
                /\ row.status = "succeeded" =>
                     call.status = "succeeded" /\ outcome \in {"url", "two"}

=============================================================================
