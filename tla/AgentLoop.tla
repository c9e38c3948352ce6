------------------------------ MODULE AgentLoop ------------------------------
(***************************************************************************)
(* LangChainAgentService.executeGraph with ToolExecutor: the loop "ask the *)
(* model, execute the tools it calls, ask again" of one run.  The graph    *)
(* has the nodes agent, tools and summarize_resource; every event a node   *)
(* emits passes the guard of executeRun, which throws once the run is      *)
(* cancelled.  A tool is raced against its timeout and goes on behind the  *)
(* loop's back when the timeout wins.                                      *)
(***************************************************************************)
EXTENDS Naturals, Sequences

CONSTANTS
    AlMaxIterations,    \* bound: the largest maxIterations a run is started with
    AlMaxCalls          \* bound: the tool calls of one answer of the model

ASSUME AgentLoopAssumption == AlMaxIterations \in Nat \ {0} /\ AlMaxCalls \in Nat \ {0}

VARIABLES
    alNode,         \* "new", a node of the graph, or how the run ended
    alMax,          \* maxIterations of the run
    alReplay,       \* replayToolCalls stand for the first answer of the model
    alCurrent,      \* currentIteration, of the closure
    alIteration,    \* state.iteration, of the graph
    alSteps,        \* nodes executed, counted against recursionLimit
    alCalls,        \* status of every tool call announced in this run
    alFirst,        \* the first call of the latest answer
    alHistory,      \* the messages after the input: an answer or a tool message
    alPartial,      \* shouldSummarizeResource
    alAnswer,       \* the text of the last message: "none", "empty" or "text"
    alZombies,      \* calls whose tool still runs although its timeout has passed
    alCancelled     \* the run is cancelled: the next event throws

alVars == <<alNode, alMax, alReplay, alCurrent, alIteration, alSteps, alCalls, alFirst,
            alHistory, alPartial, alAnswer, alZombies, alCancelled>>

AlNodes == {"agent", "tools", "summarize"}
AlEnds == {"completed", "failed", "recursion", "cancelled"}
AlClosed == {"done", "soft", "hard"}

AlInit ==
    /\ alNode = "new"
    /\ alMax = AlMaxIterations
    /\ alReplay = FALSE
    /\ alCurrent = 0 /\ alIteration = 0 /\ alSteps = 0
    /\ alCalls = <<>> /\ alFirst = 1
    /\ alHistory = <<>>
    /\ alPartial = FALSE
    /\ alAnswer = "none"
    /\ alZombies = {}
    /\ alCancelled = FALSE

\* run: with the iterations the message asks for, perhaps replaying the
\* tool calls of the message it regenerates.
AlRun(max, replay) ==
    /\ alNode = "new"
    /\ alNode' = "agent"
    /\ alMax' = max
    /\ alReplay' = replay
    /\ UNCHANGED <<alCurrent, alIteration, alSteps, alCalls, alFirst, alHistory, alPartial,
                   alAnswer, alZombies, alCancelled>>

-----------------------------------------------------------------------------
AlRecursionLimit == 2 * alMax + 4

AlActive == alNode \in AlNodes /\ alSteps < AlRecursionLimit /\ ~alCancelled

\* isFinalIteration: the bare model, which cannot call tools.
AlFinal == alCurrent >= alMax - 1

AlAnswerMessage(n) == [kind |-> "answer", calls |-> n]
AlToolMessage(c) == [kind |-> "tool", calls |-> c]

\* shouldContinue, for an answer with tool calls: the bound ends the graph.
AlAfterCalls == IF alIteration' >= alMax THEN "failed" ELSE "tools"

\* callModelInner: the answer calls n tools, each is announced with
\* tool_call_ready.  Replayed calls are the first answer even if it is the
\* final one; an answer that is only calls leaves no text for the user.
AlModelCallsTools(n) ==
    /\ AlActive /\ alNode = "agent"
    /\ ~AlFinal \/ (alReplay /\ alCurrent = 0)
    /\ alSteps' = alSteps + 1
    /\ alIteration' = alCurrent + 1
    /\ alFirst' = Len(alCalls) + 1
    /\ alCalls' = alCalls \o [i \in 1..n |-> "ready"]
    /\ alHistory' = Append(alHistory, AlAnswerMessage(n))
    /\ alNode' = AlAfterCalls
    /\ alPartial' = FALSE
    /\ UNCHANGED <<alMax, alReplay, alCurrent, alAnswer, alZombies, alCancelled>>

\* callModelInner: text and no tool calls is the final answer, nothing at
\* all is PROVIDER_BAD_RESPONSE.
AlModelAnswers(text) ==
    /\ AlActive /\ alNode = "agent"
    /\ ~(alReplay /\ alCurrent = 0)
    /\ alSteps' = alSteps + 1
    /\ alNode' = IF text THEN "completed" ELSE "failed"
    /\ alAnswer' = IF text THEN "text" ELSE alAnswer
    /\ alIteration' = IF text THEN alCurrent + 1 ELSE alIteration
    /\ alHistory' = IF text THEN Append(alHistory, AlAnswerMessage(0)) ELSE alHistory
    /\ UNCHANGED <<alMax, alReplay, alCurrent, alCalls, alFirst, alPartial, alZombies, alCancelled>>

\* The stream of the model breaks: the error ends the run.
AlModelFails ==
    /\ AlActive /\ alNode \in {"agent", "summarize"}
    /\ alNode' = "failed"
    /\ UNCHANGED <<alMax, alReplay, alCurrent, alIteration, alSteps, alCalls, alFirst, alHistory,
                   alPartial, alAnswer, alZombies, alCancelled>>

-----------------------------------------------------------------------------
AlThisAnswer == alFirst..Len(alCalls)

AlExecuting == {c \in AlThisAnswer : alCalls[c] = "executing"}

AlRest == <<alMax, alReplay, alCurrent, alIteration, alSteps, alFirst, alHistory, alAnswer, alCancelled>>

\* governedTools takes the calls one after the other: tool_start.
AlToolStart(c) ==
    /\ AlActive /\ alNode = "tools"
    /\ alCalls[c] = "ready"
    /\ \A d \in AlThisAnswer : d < c => alCalls[d] \in AlClosed
    /\ alCalls' = [alCalls EXCEPT ![c] = "checking"]
    /\ UNCHANGED <<AlRest, alNode, alPartial, alZombies>>

\* The names a model may call: of a tool that is registered and allowed, of
\* one AGENT_ALLOWED_TOOLS leaves out (a registered tool it was not offered)
\* and of one that is not registered, for want of its key or of existence.
AlToolNames == {"offered", "forbidden", "unknown"}

AlRegistered == {"offered", "forbidden"}

AlCanUse(tool) == tool # "forbidden"

\* ToolExecutor.doExecute before the tool runs: registry, policy, then the
\* schema of the arguments, whose refusal is the only recoverable one.
AlChecks(tool) ==
    IF tool \in AlRegistered /\ AlCanUse(tool) THEN {"executing", "soft"} ELSE {"hard"}

\* A call that cannot be executed ends the run with tool_error, the calls
\* behind it still announced; refused arguments go back to the model.
AlToolChecked(c, tool) ==
    /\ AlActive /\ alNode = "tools" /\ alCalls[c] = "checking"
    /\ \E status \in AlChecks(tool) :
         /\ alCalls' = [alCalls EXCEPT ![c] = status]
         /\ alNode' = IF status = "hard" THEN "failed" ELSE alNode
    /\ UNCHANGED <<AlRest, alPartial, alZombies>>

\* The tool throws: tool_error, and the run fails with the calls behind this
\* one still announced.
AlToolFails(c) ==
    /\ AlActive /\ alNode = "tools" /\ alCalls[c] = "executing"
    /\ alCalls' = [alCalls EXCEPT ![c] = "hard"]
    /\ alNode' = "failed"
    /\ UNCHANGED <<AlRest, alPartial, alZombies>>

\* The tool returns; pictures of which some failed ask for a summary.
AlToolReturns(c, partial) ==
    /\ AlActive /\ alNode = "tools" /\ alCalls[c] = "executing"
    /\ alCalls' = [alCalls EXCEPT ![c] = "done"]
    /\ alPartial' = (alPartial \/ partial)
    /\ UNCHANGED <<AlRest, alNode, alZombies>>

\* Mutant: no timeout is raced against the tool.
AlNoTimeout(c) == FALSE /\ UNCHANGED alVars

\* The timeout wins the race: a recoverable error, and the tool, whose
\* signal is aborted, may run on.
AlToolTimesOut(c) ==
    /\ AlActive /\ alNode = "tools" /\ alCalls[c] = "executing"
    /\ alCalls' = [alCalls EXCEPT ![c] = "soft"]
    /\ alZombies' = alZombies \cup {c}
    /\ UNCHANGED <<AlRest, alNode, alPartial>>

\* The tool whose timeout has passed ends; nobody looks at its result.
AlZombieEnds(c) ==
    /\ c \in alZombies
    /\ alZombies' = alZombies \ {c}
    /\ UNCHANGED <<AlRest, alNode, alCalls, alPartial>>

\* Mutant: only the tools that returned leave a message.
AlMessagesOfDone == SelectSeq([i \in 1..Len(alCalls) |-> i],
                        LAMBDA c : c >= alFirst /\ alCalls[c] = "done")

AlMessages == [i \in 1..(Len(alCalls) + 1 - alFirst) |-> alFirst + i - 1]

\* Mutant: currentIteration is not counted.
AlSameIteration == alCurrent

AlNextIteration == IF alPartial THEN alCurrent ELSE alCurrent + 1

\* The node ends: one tool message per call, in the order of the calls; the
\* next node is the summary or the agent of the next iteration.
AlToolsDone ==
    /\ AlActive /\ alNode = "tools"
    /\ \A c \in AlThisAnswer : alCalls[c] \in AlClosed
    /\ alSteps' = alSteps + 1
    /\ alHistory' = alHistory \o [i \in 1..Len(AlMessages) |-> AlToolMessage(AlMessages[i])]
    /\ alCurrent' = AlNextIteration
    /\ alNode' = IF alPartial THEN "summarize" ELSE "agent"
    /\ UNCHANGED <<alMax, alReplay, alIteration, alCalls, alFirst, alPartial, alAnswer, alZombies,
                   alCancelled>>

\* summarizeResource: its text is the answer; an empty one fails the run
\* with AGENT_MAX_ITERATIONS after final_answer has been emitted.
AlSummarize(text) ==
    /\ AlActive /\ alNode = "summarize"
    /\ alSteps' = alSteps + 1
    /\ alIteration' = alCurrent + 1
    /\ alHistory' = Append(alHistory, AlAnswerMessage(0))
    /\ alAnswer' = IF text THEN "text" ELSE "empty"
    /\ alNode' = IF text THEN "completed" ELSE "failed"
    /\ UNCHANGED <<alMax, alReplay, alCurrent, alCalls, alFirst, alPartial, alZombies, alCancelled>>

\* GraphRecursionError of LangGraph.
AlRecursionError ==
    /\ alNode \in AlNodes /\ ~alCancelled
    /\ alSteps >= AlRecursionLimit
    /\ alNode' = "recursion"
    /\ UNCHANGED <<AlRest, alCalls, alPartial, alZombies>>

-----------------------------------------------------------------------------
\* The user cancels the run.
AlCancel ==
    /\ alNode \in AlNodes /\ ~alCancelled
    /\ alCancelled' = TRUE
    /\ UNCHANGED <<alNode, alMax, alReplay, alCurrent, alIteration, alSteps, alCalls, alFirst,
                   alHistory, alPartial, alAnswer, alZombies>>

\* The guard throws at the next event, which for a tool that executes comes
\* when it ends or when its timeout passes.
AlStop ==
    /\ alNode \in AlNodes /\ alCancelled
    /\ \/ alZombies' = alZombies
       \/ AlExecuting # {} /\ alZombies' = alZombies \cup AlExecuting
    /\ alNode' = "cancelled"
    /\ UNCHANGED <<AlRest, alCalls, alPartial>>

AlLoop ==
    \/ \E n \in 1..AlMaxCalls : AlModelCallsTools(n)
    \/ \E text \in BOOLEAN : AlModelAnswers(text)
    \/ AlModelFails
    \/ \E c \in AlThisAnswer : AlToolStart(c)
    \/ \E c \in AlThisAnswer, tool \in AlToolNames : AlToolChecked(c, tool)
    \/ \E c \in AlThisAnswer : AlToolTimesOut(c)
    \/ AlToolsDone
    \/ \E text \in BOOLEAN : AlSummarize(text)
    \/ AlRecursionError
    \/ AlStop

\* What the tools and the user do.
AlOutside ==
    \/ \E c \in AlThisAnswer : AlToolFails(c)
    \/ \E c \in AlThisAnswer, partial \in BOOLEAN : AlToolReturns(c, partial)
    \/ \E c \in alZombies : AlZombieEnds(c)
    \/ AlCancel

AlNext ==
    \/ \E max \in 1..AlMaxIterations, replay \in BOOLEAN : AlRun(max, replay)
    \/ AlLoop
    \/ AlOutside

\* The loop runs on and its timers fire; a tool need not ever return.
AlFairness == WF_alVars(AlLoop)

AlSpec == AlInit /\ [][AlNext]_alVars /\ AlFairness

-----------------------------------------------------------------------------
AlTypeOK ==
    /\ alNode \in {"new"} \cup AlNodes \cup AlEnds
    /\ alMax \in 1..AlMaxIterations
    /\ alReplay \in BOOLEAN
    /\ alCurrent \in Nat
    /\ alIteration \in Nat
    /\ alSteps \in Nat
    /\ alCalls \in Seq({"ready", "checking", "executing"} \cup AlClosed)
    /\ alFirst \in 1..(Len(alCalls) + 1)
    /\ alPartial \in BOOLEAN
    /\ alAnswer \in {"none", "empty", "text"}
    /\ alZombies \in SUBSET Nat
    /\ alCancelled \in BOOLEAN

\* Every time the model is called, every tool call in the history is
\* followed at once by its tool message, in order: a provider refuses any
\* other history.  Refusals, timeouts and partial results come in between.
AlHistoryAnswered ==
    alNode \in {"agent", "summarize"} =>
        \A i \in DOMAIN alHistory :
            alHistory[i].kind = "answer" =>
                \A k \in 1..alHistory[i].calls :
                    /\ i + k \in DOMAIN alHistory
                    /\ alHistory[i + k].kind = "tool"
                    /\ k > 1 => alHistory[i + k].calls = alHistory[i + k - 1].calls + 1

\* The graph never meets LangGraph's recursion limit: maxIterations ends
\* the loop first, whichever way the nodes follow each other.
AlNoRecursionError == alNode # "recursion"

\* Every run that has started ends, even with tools that never return.
AlLoopEnds == (alNode # "new") ~> (alNode \in AlEnds)
=============================================================================
