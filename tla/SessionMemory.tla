---------------------------- MODULE SessionMemory ----------------------------
(***************************************************************************)
(* What the model is told of a session: the chain of summaries that the    *)
(* refresh before an answer extends, and the history that the context      *)
(* builder makes of the newest fitting summary and of the messages after   *)
(* it.  Runs of one session may overlap, and an answer may be regenerated  *)
(* when the session has gone on.  A message is its place in the order      *)
(* (created_at, seq), its text its size in characters.                     *)
(* The system message of a refresh is left out: no query here returns it.  *)
(***************************************************************************)
EXTENDS Naturals, Sequences, FiniteSets

CONSTANTS
    SmRuns,         \* runs of the session
    SmSizes,        \* lengths of a message's text; 0: nothing for the model
    SmTrigger,      \* triggerMessageCount
    SmKeep,         \* keepRecentMessages
    SmMinSize,      \* triggerCharacterCount
    SmMaxHistory,   \* maxHistoryMessages
    SmBudget,       \* maxHistoryCharacters
    SmMaxMessages   \* bound: messages of the session

ASSUME SessionMemoryAssumption ==
    /\ SmSizes \subseteq Nat
    /\ {SmTrigger, SmKeep, SmMinSize, SmMaxHistory, SmBudget, SmMaxMessages} \subseteq Nat

VARIABLES
    smMsg,          \* the messages, in order; of: the question that is answered
    smSummary,      \* agent_session_summaries, in order of version
    smRun           \* a run: its question, its answer, what it has read so far

smVars == <<smMsg, smSummary, smRun>>

SmNoSummary == [covered |-> 0, knows |-> {}]
SmNoRun == [state |-> "none", user |-> 0, answer |-> 0, prev |-> SmNoSummary, slice |-> {},
            told |-> SmNoSummary, raw |-> {}]

SmInit ==
    /\ smMsg = <<>>
    /\ smSummary = <<>>
    /\ smRun = [r \in SmRuns |-> SmNoRun]

SmPlaces == 1 .. Len(smMsg)

\* createMessage; the other queries of the store order by the place.
SmWithMessage(role, status, size, of) ==
    Append(smMsg, [role |-> role, status |-> status, size |-> size, of |-> of])

-----------------------------------------------------------------------------
\* Which messages count.

\* contextMessageFilter, before one message and after another.
SmContextBefore(before, after) ==
    {i \in SmPlaces : /\ i < before /\ i > after
                      /\ \/ smMsg[i].role = "user"
                         \/ smMsg[i].role = "assistant" /\ smMsg[i].status \in {"completed", "failed"}}

\* toContextLikeMessage and toContextMessage: a question or an answer with
\* text, a failed or a cancelled answer; no system message, none that runs.
SmSpeaks(i) ==
    \/ smMsg[i].role = "user" /\ smMsg[i].size > 0
    \/ smMsg[i].role = "assistant" /\ smMsg[i].status = "completed" /\ smMsg[i].size > 0
    \/ smMsg[i].role = "assistant" /\ smMsg[i].status \in {"failed", "cancelled"}

SmHighest(S) == CHOOSE i \in S : \A j \in S : j <= i
SmFirst(S, n) == {i \in S : Cardinality({j \in S : j <= i}) <= n}
SmLast(S, n) == {i \in S : Cardinality({j \in S : j >= i}) <= n}

SmSizeOf(S) ==
    LET sum[k \in 0 .. Len(smMsg)] == IF k = 0 THEN 0 ELSE sum[k - 1] + IF k \in S THEN smMsg[k].size ELSE 0
    IN sum[Len(smMsg)]

-----------------------------------------------------------------------------
\* Questions.

\* startRun: the question, then the answer that is to come.
SmStart(r) ==
    /\ smRun[r].state = "none" /\ Len(smMsg) < SmMaxMessages
    /\ \E size \in SmSizes : smMsg' = SmWithMessage("user", "completed", size, 0)
    /\ smRun' = [smRun EXCEPT ![r].state = "asked", ![r].user = Len(smMsg) + 1]
    /\ UNCHANGED smSummary

SmQueue(r) ==
    /\ smRun[r].state = "asked" /\ Len(smMsg) < SmMaxMessages
    /\ smMsg' = SmWithMessage("assistant", "running", 0, smRun[r].user)
    /\ smRun' = [smRun EXCEPT ![r].state = "queued", ![r].answer = Len(smMsg) + 1]
    /\ UNCHANGED smSummary

-----------------------------------------------------------------------------
\* refreshSessionSummaryBeforeAnswer.

\* getSessionSummary: the newest version, wherever the question is.
SmNewest == IF smSummary = <<>> THEN SmNoSummary ELSE smSummary[Len(smSummary)]

\* planRefresh: how many of the uncovered messages are to be summarised.
SmPlan(count) ==
    LET keep == IF SmKeep > 1 THEN SmKeep ELSE 1
    IN IF SmTrigger = 0 \/ count <= SmTrigger \/ count <= keep THEN 0 ELSE count - keep

\* Mutant: the last messages are summarised, the first ones kept.
SmSliceOfLast(S) == SmLast(S, SmPlan(Cardinality(S)))

\* The oldest of the uncovered messages.
SmSlice(S) == SmFirst(S, SmPlan(Cardinality(S)))

\* hasEnoughRefreshContent.
SmWorthIt(S) == SmMinSize = 0 \/ SmSizeOf(S) >= SmMinSize

SmRefresh(r) ==
    /\ smRun[r].state = "queued"
    /\ LET uncovered == SmContextBefore(smRun[r].user, SmNewest.covered)
           slice == SmSlice(uncovered)
       IN smRun' = IF slice # {} /\ SmWorthIt(uncovered)
                   THEN [smRun EXCEPT ![r].state = "summarising", ![r].prev = SmNewest, ![r].slice = slice]
                   ELSE [smRun EXCEPT ![r].state = "refreshed"]
    /\ UNCHANGED <<smMsg, smSummary>>

\* summarizeContextMessages: the old summary and the new messages, up to the
\* last of them that says anything.
SmMerged(prev, slice) ==
    LET told == {i \in slice : SmSpeaks(i)}
    IN [covered |-> SmHighest(told), knows |-> prev.knows \cup told]

\* upsertSessionSummary: always a new version.
SmSummarised(r) ==
    /\ smRun[r].state = "summarising" /\ \E i \in smRun[r].slice : SmSpeaks(i)
    /\ smSummary' = Append(smSummary, SmMerged(smRun[r].prev, smRun[r].slice))
    /\ smRun' = [smRun EXCEPT ![r].state = "refreshed"]
    /\ UNCHANGED smMsg

\* The model fails, answers no JSON, or there is nothing to tell it.
SmSummaryFails(r) ==
    /\ smRun[r].state = "summarising"
    /\ smRun' = [smRun EXCEPT ![r].state = "refreshed"]
    /\ UNCHANGED <<smMsg, smSummary>>

-----------------------------------------------------------------------------
\* buildConversationHistoryBefore.

\* Mutant: the newest summary, as for an answer at the end of the session.
SmNewestFor(user) == SmNewest

\* getSessionSummaryBeforeMessage: of those that end before the question the
\* one that covers most, and of these the newest.
SmSummaryBefore(user) ==
    LET fitting == {v \in DOMAIN smSummary : smSummary[v].covered < user}
        best == {v \in fitting : \A w \in fitting : smSummary[w].covered <= smSummary[v].covered}
    IN IF fitting = {} THEN SmNoSummary ELSE smSummary[SmHighest(best)]

\* getRecentContextMessagesBefore: the last of either role, whatever their state.
SmRecentBefore(user, after) ==
    SmLast({i \in SmPlaces : i < user /\ i > after /\ smMsg[i].role \in {"user", "assistant"}}, SmMaxHistory)

\* selectMessagesWithinBudget: from the newest back, skipping what does not fit.
SmWithinBudget(S) ==
    LET n == Len(smMsg)
        pick[k \in 0 .. n] ==
            IF k = 0 THEN [kept |-> {}, used |-> 0]
            ELSE LET i == n + 1 - k
                     p == pick[k - 1]
                 IN IF i \notin S \/ (p.kept # {} /\ p.used + smMsg[i].size > SmBudget)
                    THEN p
                    ELSE [kept |-> p.kept \cup {i}, used |-> p.used + smMsg[i].size]
    IN pick[n].kept

\* buildConversationHistory: the summary, then the messages that fit.
SmRaw(user, summary) ==
    IF SmMaxHistory = 0 THEN {}
    ELSE SmWithinBudget({i \in SmRecentBefore(user, summary.covered) : SmSpeaks(i)})

SmTold(r, user, state) ==
    LET summary == SmSummaryBefore(user) IN
    smRun' = [smRun EXCEPT ![r].state = state, ![r].user = user,
                           ![r].told = summary, ![r].raw = SmRaw(user, summary)]

SmAnswer(r) ==
    /\ smRun[r].state = "refreshed"
    /\ SmTold(r, smRun[r].user, "answering")
    /\ UNCHANGED <<smMsg, smSummary>>

\* The answer ends; a run can be cancelled at every step.
SmEnds(r, status) ==
    /\ smRun[r].state \in {"queued", "summarising", "refreshed", "answering"} /\ smRun[r].answer # 0
    /\ status = "completed" => smRun[r].state = "answering"
    /\ \E size \in SmSizes :
         smMsg' = [smMsg EXCEPT ![smRun[r].answer].status = status, ![smRun[r].answer].size = size]
    /\ smRun' = [smRun EXCEPT ![r].state = "over"]
    /\ UNCHANGED smSummary

\* findInputUserMessageForAssistant.
SmQuestionOf(i) == smMsg[i].of

\* regenerateMessage: the history of the old question, no refresh; the new
\* answer takes its place at the end of the session.
SmRegenerate(r) ==
    /\ smRun[r].state = "none"
    /\ \E i \in SmPlaces :
         /\ smMsg[i].role = "assistant" /\ smMsg[i].status # "running"
         /\ SmTold(r, SmQuestionOf(i), "regenerating")
    /\ UNCHANGED <<smMsg, smSummary>>

SmRegenerated(r) ==
    /\ smRun[r].state = "regenerating" /\ Len(smMsg) < SmMaxMessages
    /\ smMsg' = SmWithMessage("assistant", "running", 0, smRun[r].user)
    /\ smRun' = [smRun EXCEPT ![r].state = "answering", ![r].answer = Len(smMsg) + 1]
    /\ UNCHANGED smSummary

SmNext ==
    \E r \in SmRuns :
        \/ SmStart(r) \/ SmQueue(r)
        \/ SmRefresh(r) \/ SmSummarised(r) \/ SmSummaryFails(r)
        \/ SmAnswer(r) \/ SmRegenerate(r) \/ SmRegenerated(r)
        \/ \E status \in {"completed", "failed", "cancelled"} : SmEnds(r, status)

SmSpec == SmInit /\ [][SmNext]_smVars

-----------------------------------------------------------------------------
SmTypeOK ==
    /\ smMsg \in Seq([role : {"user", "assistant"}, status : {"running", "completed", "failed", "cancelled"},
                      size : Nat, of : Nat])
    /\ smSummary \in Seq([covered : Nat, knows : SUBSET Nat])
    /\ \A r \in SmRuns :
         /\ smRun[r].state \in {"none", "asked", "queued", "summarising", "refreshed", "answering",
                                "regenerating", "over"}
         /\ smRun[r].user \in Nat /\ smRun[r].answer \in Nat
         /\ smRun[r].slice \subseteq Nat /\ smRun[r].raw \subseteq Nat

\* No question falls between the summaries: a summary knows every question up
\* to the message it covers, and nothing after it, whichever runs extend the
\* chain at the same time.
SmNoQuestionForgotten ==
    \A v \in DOMAIN smSummary :
        LET s == smSummary[v] IN
          /\ s.knows \subseteq 1 .. s.covered
          /\ \A i \in 1 .. s.covered :
               i \in SmPlaces /\ (smMsg[i].role = "user" /\ smMsg[i].size > 0 => i \in s.knows)

\* What a run is told comes from before its question: regenerating an early
\* answer never shows the model, in a summary or in full, what came later.
SmNothingFromLater ==
    \A r \in SmRuns :
        smRun[r].state # "none" =>
            \A i \in smRun[r].raw \cup smRun[r].told.knows : i < smRun[r].user
==============================================================================
