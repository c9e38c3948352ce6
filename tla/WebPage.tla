------------------------------- MODULE WebPage -------------------------------
(***************************************************************************)
(* App.tsx: one browser tab that shows one session at a time and follows   *)
(* one run, while other sessions keep theirs in the registry of running    *)
(* runs.  Every handler is async: what it captured before an await may be  *)
(* old after it.  The messages shown are abstracted to the sessions they   *)
(* come from (RunStream models what a run's events do to a message).       *)
(***************************************************************************)
EXTENDS Naturals

CONSTANTS
    WpSessionIds,   \* sessions
    WpOldSessions,  \* those that exist when the page is first loaded
    WpHandlers,     \* handlers of the user's acts under way at the same time
    WpMaxRuns,      \* bound: runs
    WpMaxActs       \* bound: acts of the user, reloads, renewals of the tokens

ASSUME WebPageAssumption ==
    /\ WpOldSessions \subseteq WpSessionIds /\ WpMaxRuns \in Nat /\ WpMaxActs \in Nat
    /\ "none" \notin WpSessionIds
    /\ WpHandlers \cap {"none", "restore", "recover"} = {}

VARIABLES
    wpSession,      \* the server: "new", "kept" or "deleted" for every session
    wpRun,          \* the server: state and session of every run
    wpPage,         \* refs, React state, URL and localStorage of the tab
    wpOp,           \* handlers and effects under way, with what they captured
    wpActs,
    wpGivenUp,      \* history: runs the page was never told of, or let go of
    wpLoose         \* history: an act came while an answer was outstanding, or
                    \* a start was repeated without its session, or the
                    \* session in the URL could not be read

wpVars == <<wpSession, wpRun, wpPage, wpOp, wpActs, wpGivenUp, wpLoose>>

WpRunIds == 1 .. WpMaxRuns
WpOps == WpHandlers \cup {"restore", "recover"}
WpIdle == [kind |-> "none", state |-> "idle", session |-> "none", run |-> 0, ctl |-> "none", cut |-> FALSE]

\* The state of a page that has just been loaded at a URL: run (activeRunIdRef
\* and activeRunId), ref (activeSessionIdRef), at (activeSessionId), url, kept
\* (agent.activeRunId), runs (agent.runningRunsBySession), ctl
\* (activeStreamControllerRef), spin (isStreaming), view (messages), older
\* (isLoadingOlderMessages).
WpLoaded(url, kept, runs, signed) ==
    [run |-> 0, ref |-> url, at |-> url, url |-> url, kept |-> kept, runs |-> runs, ctl |-> "none",
     spin |-> FALSE, view |-> {}, older |-> FALSE, signed |-> signed]

WpInit ==
    /\ wpSession = [s \in WpSessionIds |-> IF s \in WpOldSessions THEN "kept" ELSE "new"]
    /\ wpRun = [r \in WpRunIds |-> [state |-> "none", session |-> "none"]]
    /\ wpPage = WpLoaded("none", 0, [s \in WpSessionIds |-> 0], TRUE)
    /\ wpOp = [o \in WpOps |-> WpIdle]
    /\ wpActs = 0
    /\ wpGivenUp = {}
    /\ wpLoose = FALSE

-----------------------------------------------------------------------------
\* The small functions of App: each takes the page and returns the page.

WpSpin(p, on) == [p EXCEPT !.spin = on]

\* clearActiveRun, setActiveRun.
WpClear(p) == [p EXCEPT !.run = 0, !.kept = 0]
WpActivate(p, r) == [p EXCEPT !.run = r]

\* rememberRunningRun, forgetRunningRunByRunId, forgetRunningRunForSession.
WpRemember(p, s, r) == [p EXCEPT !.runs[s] = r]
WpForget(p, r) == [p EXCEPT !.runs = [s \in WpSessionIds |-> IF @[s] = r THEN 0 ELSE @[s]]]
WpForgetSession(p, s) == [p EXCEPT !.runs[s] = 0]

\* releaseActiveRun.
WpRelease(p, r) == IF p.run = r THEN WpSpin([WpClear(WpForget(p, r)) EXCEPT !.ctl = "none"], FALSE) ELSE p

\* rememberSession.
WpGoTo(p, s) == [p EXCEPT !.ref = s, !.at = s, !.url = s]

\* Mutant: the run of the session that is left is taken out of the registry.
WpDetachForgetting(p) == WpSpin([WpClear(WpForget(p, p.run)) EXCEPT !.ctl = "none"], FALSE)

\* detachActiveRun, when there is an active run; its stream is aborted.
WpDetach(p) == IF p.run = 0 THEN p ELSE WpSpin([WpClear(p) EXCEPT !.ctl = "none"], FALSE)

\* resetToNewSession.
WpReset(p) ==
    [WpClear(p) EXCEPT !.url = "none", !.ref = "none", !.at = "none", !.view = {}, !.older = FALSE]

\* clearSessionIdFromUrl with a session: only the URL that names it.
WpUrlWithout(p, s) == [p EXCEPT !.url = IF @ = s THEN "none" ELSE @]

\* activeSessionId ?? readSessionIdFromUrl().
WpHere(p) == IF p.at # "none" THEN p.at ELSE p.url

\* finally of a handler whose controller may have been replaced.
WpSettle(p, o) == IF p.ctl = o THEN WpSpin([p EXCEPT !.ctl = "none"], FALSE) ELSE p

\* controller.abort().
WpAbort(ops, c) ==
    IF c # "none" /\ ops[c].state # "idle" THEN [ops EXCEPT ![c].cut = TRUE] ELSE ops

\* The handler has returned; nobody holds its controller any more.
WpDone(ops, o) ==
    [x \in WpOps |-> IF x = o THEN WpIdle
                     ELSE IF ops[x].ctl = o THEN [ops[x] EXCEPT !.ctl = "none"] ELSE ops[x]]

WpWaiting == \E o \in WpOps : wpOp[o].state \notin {"idle", "stream", "closing"}

\* An act of the user, at most WpMaxActs of them.
WpAct ==
    /\ wpActs < WpMaxActs /\ wpActs' = wpActs + 1
    /\ wpLoose' = (wpLoose \/ WpWaiting)

WpServerStays == UNCHANGED <<wpSession, wpRun, wpGivenUp>>
WpQuiet == UNCHANGED <<wpActs, wpLoose>>

-----------------------------------------------------------------------------
\* Sending, regenerating and cancelling.

\* The part of handleSubmitMessage and handleRegenerateMessage before the start.
WpBegin(p) == WpClear(WpSpin(p, TRUE))

\* cancelActiveRun up to its first await: the stream is aborted first.
WpCancelling(o, kind, s) ==
    WpAbort([wpOp EXCEPT ![o] = [WpIdle EXCEPT !.kind = kind, !.state = "cancelling", !.session = s,
                                               !.run = wpPage.run, !.ctl = wpPage.ctl]], wpPage.ctl)

\* handleSubmitMessage and handleRegenerateMessage: an active run is cancelled first.
WpSend(o, kind, s) ==
    /\ wpOp[o].state = "idle" /\ wpPage.signed
    /\ WpAct
    /\ IF wpPage.run # 0
       THEN wpOp' = WpCancelling(o, kind, s) /\ wpPage' = wpPage
       ELSE /\ wpOp' = [wpOp EXCEPT ![o] = [WpIdle EXCEPT !.kind = kind, !.state = "starting", !.session = s]]
            /\ wpPage' = WpBegin(wpPage)
    /\ WpServerStays

WpSubmit(o) == WpSend(o, "submit", WpHere(wpPage))
WpRegenerate(o) == \E s \in wpPage.view : WpSend(o, "regenerate", s)

\* handleCancelMessage.
WpCancel(o) ==
    /\ wpOp[o].state = "idle" /\ wpPage.run # 0
    /\ WpAct
    /\ wpOp' = WpCancelling(o, "cancel", wpPage.at)
    /\ wpPage' = wpPage
    /\ WpServerStays

\* The answer of POST /agents/runs/:id/cancel, or none (the run may have been
\* cancelled all the same): finally forgets the run either way, then the
\* handler goes on.
WpCancelAnswer(o, reached, heard) ==
    /\ wpOp[o].state = "cancelling" /\ (heard => reached)
    /\ LET op == wpOp[o]
           freed == WpClear(WpForget([wpPage EXCEPT !.ctl = IF @ = op.ctl THEN "none" ELSE @], op.run))
           s == IF op.session # "none" THEN op.session ELSE wpPage.url
       IN
         /\ wpRun' = IF reached THEN [wpRun EXCEPT ![op.run].state = "ended"] ELSE wpRun
         /\ wpGivenUp' = IF reached THEN wpGivenUp ELSE wpGivenUp \cup {op.run}
         /\ IF op.kind = "cancel"
            THEN /\ wpPage' = WpSpin(freed, FALSE)
                 /\ wpOp' = IF s = "none" THEN WpDone(wpOp, o)
                            ELSE [wpOp EXCEPT ![o].state = "snapshot", ![o].session = s]
            ELSE /\ wpPage' = WpBegin(freed)
                 /\ wpOp' = [wpOp EXCEPT ![o] = [WpIdle EXCEPT !.kind = op.kind, !.state = "starting", !.session = s]]
    /\ UNCHANGED wpSession /\ WpQuiet

\* The refresh after a cancel: getAgentSession, then setMessages.
WpCancelRefreshed(o, ok) ==
    /\ wpOp[o].state = "snapshot"
    /\ wpPage' = IF ok THEN [wpPage EXCEPT !.view = {wpOp[o].session}] ELSE wpPage
    /\ wpOp' = WpDone(wpOp, o)
    /\ WpServerStays /\ WpQuiet

\* The server starts run r in a session, whatever runs there, or in a new one.
WpServerStarts(r, s, n) ==
    /\ wpRun[r].state = "none" /\ \A q \in 1 .. (r - 1) : wpRun[q].state # "none"
    /\ IF s = "none" THEN wpSession[n] = "new"
       ELSE n = s /\ wpSession[s] = "kept"
    /\ wpRun' = [wpRun EXCEPT ![r] = [state |-> "running", session |-> n]]
    /\ wpSession' = [wpSession EXCEPT ![n] = "kept"]

\* The run that loses its place in the registry to run r.
WpOusted(s, r) == {q \in WpRunIds \ {r} : wpPage.runs[s] = q}

\* What both handlers do with the run they were given.
WpFollow(p, o, s, r) == [WpRemember(WpActivate(WpGoTo(p, s), r), s, r) EXCEPT !.ctl = o, !.kept = r]

\* The answer of POST /agents/runs or /agents/messages/:id/regenerate.  Two
\* starts may be under way in one session: the registry keeps the last answer.
WpStarted(o) ==
    /\ wpOp[o].state = "starting"
    /\ \E r \in WpRunIds, n \in WpSessionIds :
         /\ WpServerStarts(r, wpOp[o].session, n)
         /\ wpPage' = [WpFollow(wpPage, o, n, r) EXCEPT
                         !.view = IF wpOp[o].kind = "submit" THEN @ \cup {n} ELSE @]
         /\ wpOp' = [wpOp EXCEPT ![o].state = "stream", ![o].session = n, ![o].run = r]
         /\ wpGivenUp' = wpGivenUp \cup WpOusted(n, r)
    /\ WpQuiet

\* No answer, or an error.  startRunWithCurrentSession tries again without
\* the session; otherwise finally settles, no controller having been attached.
WpStartFails(o, lost) ==
    /\ wpOp[o].state = "starting"
    /\ IF lost
       THEN \E r \in WpRunIds, n \in WpSessionIds :
              WpServerStarts(r, wpOp[o].session, n) /\ wpGivenUp' = wpGivenUp \cup {r}
       ELSE WpServerStays
    /\ LET s == wpOp[o].session IN
       IF wpOp[o].kind = "submit" /\ s # "none"
       THEN /\ wpPage' = [WpUrlWithout(wpPage, s) EXCEPT !.at = "none"]
            /\ wpOp' = [wpOp EXCEPT ![o].session = "none"]
            /\ wpLoose' = TRUE
       ELSE /\ wpPage' = WpSpin(wpPage, FALSE)
            /\ wpOp' = WpDone(wpOp, o)
            /\ UNCHANGED wpLoose
    /\ UNCHANGED wpActs

-----------------------------------------------------------------------------
\* The stream of a run.

\* Mutant: the event of a stream that is still open is applied as it comes.
WpAppliesAlways(o) == wpOp[o].state = "stream"

\* applyStoredRunEvent: the run is still the active one, its session the one shown.
WpApplies(o) == wpPage.run = wpOp[o].run /\ wpPage.ref = wpOp[o].session

\* applyAgentEvent: a delta, the end of a completed run, of a failed or a
\* cancelled one.
WpApplied(p, o, event) ==
    LET shown == [p EXCEPT !.view = @ \cup {wpOp[o].session}]
        r == wpOp[o].run
    IN CASE event = "delta" -> shown
         [] event = "run_completed" -> WpRelease(shown, r)
         [] OTHER -> WpClear(WpForget(shown, r))

WpEvent(o, event) ==
    /\ wpOp[o].state = "stream" /\ ~wpOp[o].cut
    /\ event = "delta" => wpRun[wpOp[o].run].state = "running"
    /\ wpPage' = IF WpApplies(o) THEN WpApplied(wpPage, o, event) ELSE wpPage
    /\ IF event = "delta" THEN UNCHANGED <<wpOp, wpRun>>
       ELSE /\ wpRun' = [wpRun EXCEPT ![wpOp[o].run].state = "ended"]
            /\ wpOp' = [wpOp EXCEPT ![o].state = "closing"]
    /\ UNCHANGED <<wpSession, wpGivenUp>> /\ WpQuiet

\* The stream is closed, broken or aborted: the finally of its handler.
WpStreamOver(o) ==
    /\ wpOp[o].state \in {"stream", "closing"}
    /\ wpPage' = IF wpOp[o].kind = "recover" THEN WpSpin(WpSettle(wpPage, o), FALSE) ELSE WpSettle(wpPage, o)
    /\ wpOp' = WpDone(wpOp, o)
    /\ WpServerStays /\ WpQuiet

\* A run that nobody follows ends.
WpRunEnds(r) ==
    /\ wpRun[r].state = "running"
    /\ wpRun' = [wpRun EXCEPT ![r].state = "ended"]
    /\ UNCHANGED <<wpSession, wpPage, wpOp, wpGivenUp>> /\ WpQuiet

-----------------------------------------------------------------------------
\* Moving between sessions.

\* handleNewSession.
WpNewSession ==
    /\ WpAct
    /\ wpPage' = WpReset(WpDetach(wpPage))
    /\ wpOp' = IF wpPage.run # 0 THEN WpAbort(wpOp, wpPage.ctl) ELSE wpOp
    /\ WpServerStays

\* handleSelectSession: the run of the session that is left goes on.
WpSelect(o, s) ==
    /\ wpOp[o].state = "idle" /\ wpPage.signed /\ s # wpPage.at /\ wpSession[s] # "new"
    /\ WpAct
    /\ wpPage' = [WpClear(WpDetach(wpPage)) EXCEPT !.view = {}, !.older = FALSE]
    /\ wpOp' = [(IF wpPage.run # 0 THEN WpAbort(wpOp, wpPage.ctl) ELSE wpOp) EXCEPT
                  ![o] = [WpIdle EXCEPT !.kind = "select", !.state = "loading", !.session = s]]
    /\ WpServerStays

\* Its answer; resumeSessionRunIfNeeded follows the run the registry has.
WpSelected(o) ==
    /\ wpOp[o].state = "loading" /\ wpSession[wpOp[o].session] = "kept"
    /\ LET s == wpOp[o].session
           shown == [WpGoTo(wpPage, s) EXCEPT !.view = {s}]
           r == wpPage.runs[s]
       IN IF r = 0
          THEN wpPage' = shown /\ wpOp' = WpDone(wpOp, o)
          ELSE /\ wpPage' = [WpSpin(WpActivate(shown, r), TRUE) EXCEPT !.ctl = o, !.kept = r]
               /\ wpOp' = [wpOp EXCEPT ![o].state = "checking", ![o].run = r]
    /\ WpServerStays /\ WpQuiet

WpSelectFails(o) ==
    /\ wpOp[o].state = "loading"
    /\ wpOp' = WpDone(wpOp, o)
    /\ UNCHANGED wpPage /\ WpServerStays /\ WpQuiet

\* getAgentRun of resumeSessionRunIfNeeded; "gone" when it fails.
WpResumed(o, ok) ==
    /\ wpOp[o].state = "checking"
    /\ LET op == wpOp[o]
           moved == wpPage.ref # op.session \/ wpPage.run # op.run \/ wpPage.ctl # o
           kept == WpRemember(wpPage, op.session, op.run)
       IN IF ok /\ ~moved /\ wpRun[op.run].state = "running"
          THEN wpPage' = kept /\ wpOp' = [wpOp EXCEPT ![o].state = "stream"]
          ELSE /\ wpPage' = IF ok /\ ~moved THEN WpSettle(WpClear(WpForget(kept, op.run)), o)
                            ELSE WpSettle(wpPage, o)
               /\ wpOp' = WpDone(wpOp, o)
    /\ WpServerStays /\ WpQuiet

\* handleDeleteSession: the registry forgets the session before the call.
WpDelete(o, s) ==
    /\ wpOp[o].state = "idle" /\ wpPage.signed /\ wpSession[s] # "new"
    /\ WpAct
    /\ LET shown == s = wpPage.at
           forgotten == WpForgetSession(wpPage, s)
       IN /\ wpPage' = IF shown /\ wpPage.run # 0 THEN WpSpin(WpClear(forgotten), FALSE) ELSE forgotten
          /\ wpOp' = [(IF shown /\ wpPage.run # 0 THEN WpAbort(wpOp, wpPage.ctl) ELSE wpOp) EXCEPT
                        ![o] = [WpIdle EXCEPT !.kind = IF shown THEN "delete shown" ELSE "delete",
                                              !.state = "deleting", !.session = s]]
    /\ wpGivenUp' = wpGivenUp \cup {r \in WpRunIds : wpRun[r].session = s}
    /\ UNCHANGED <<wpSession, wpRun>>

WpDeleted(o, ok) ==
    /\ wpOp[o].state = "deleting"
    /\ LET s == wpOp[o].session IN
       IF ok
       THEN /\ wpSession' = [wpSession EXCEPT ![s] = "deleted"]
            /\ wpRun' = [r \in WpRunIds |-> IF wpRun[r].session = s THEN [wpRun[r] EXCEPT !.state = "ended"] ELSE wpRun[r]]
            /\ wpPage' = IF wpOp[o].kind = "delete shown" THEN WpReset(wpPage) ELSE wpPage
       ELSE UNCHANGED <<wpSession, wpRun, wpPage>>
    /\ wpOp' = WpDone(wpOp, o)
    /\ UNCHANGED wpGivenUp /\ WpQuiet

\* handleLoadOlderMessages and its answer.
WpLoadOlder(o) ==
    /\ wpOp[o].state = "idle" /\ wpPage.signed /\ ~wpPage.older /\ WpHere(wpPage) \in wpPage.view
    /\ WpAct
    /\ wpPage' = [wpPage EXCEPT !.older = TRUE]
    /\ wpOp' = [wpOp EXCEPT ![o] = [WpIdle EXCEPT !.kind = "older", !.state = "older", !.session = WpHere(wpPage)]]
    /\ WpServerStays

WpOlderLoaded(o, ok) ==
    /\ wpOp[o].state = "older"
    /\ wpPage' = [wpPage EXCEPT !.older = FALSE, !.view = IF ok THEN @ \cup {wpOp[o].session} ELSE @]
    /\ wpOp' = WpDone(wpOp, o)
    /\ WpServerStays /\ WpQuiet

-----------------------------------------------------------------------------
\* The effects that depend on authSession: its change cuts off the old ones,
\* and a recovery that was cut off leaves the spinner as it is.

\* The session in the URL is shown, the run in localStorage followed again.
WpEffects(p, ops) ==
    LET there == p.url # "none"
        again == p.kept # 0
        at == IF there THEN WpGoTo(p, p.url) ELSE p
    IN /\ wpPage' = IF again THEN [WpSpin(WpActivate(at, p.kept), TRUE) EXCEPT !.ctl = "recover"] ELSE at
       /\ wpOp' = [ops EXCEPT
                     !["restore"] = IF there THEN [WpIdle EXCEPT !.kind = "restore", !.state = "restoring", !.session = p.url]
                                    ELSE WpIdle,
                     !["recover"] = IF again THEN [WpIdle EXCEPT !.kind = "recover", !.state = "rechecking", !.run = p.kept]
                                    ELSE WpIdle]

\* A refresh of the tokens writes a new session object: every effect runs again.
WpTokensRenewed ==
    /\ wpPage.signed
    /\ WpAct
    /\ WpEffects(wpPage, wpOp)
    /\ WpServerStays

\* handleLogout.
WpLogout ==
    /\ wpPage.signed
    /\ WpAct
    /\ wpPage' = [WpReset(wpPage) EXCEPT !.signed = FALSE]
    /\ wpOp' = [wpOp EXCEPT !["restore"] = WpIdle, !["recover"] = WpIdle]
    /\ WpServerStays

\* The page is loaded again; what was logged out comes back from GitHub.
WpReload ==
    /\ WpAct
    /\ WpEffects(WpLoaded(wpPage.url, wpPage.kept, wpPage.runs, TRUE), [o \in WpOps |-> WpIdle])
    /\ WpServerStays

\* The session in the URL is read; if not, the page is at none, and the
\* messages stay.
WpRestored(ok) ==
    /\ wpOp["restore"].state = "restoring"
    /\ LET s == wpOp["restore"].session IN
         /\ ok => wpSession[s] = "kept"
         /\ wpPage' = IF ok THEN [wpPage EXCEPT !.view = {s}]
                      ELSE [WpUrlWithout(wpPage, s) EXCEPT !.ref = "none", !.at = "none"]
    /\ wpOp' = WpDone(wpOp, "restore")
    /\ wpLoose' = (wpLoose \/ ~ok)
    /\ WpServerStays /\ UNCHANGED wpActs

\* recoverActiveRun: the run, then its session, then its stream.  It does not
\* ask whether the page has moved on: the run it read takes the place of a
\* later run of the session in the registry.
WpRechecked(ok) ==
    /\ wpOp["recover"].state = "rechecking"
    /\ LET r == wpOp["recover"].run
           s == wpRun[r].session
       IN /\ ok => wpSession[s] = "kept"
          /\ wpPage' = IF ok THEN WpRemember(WpGoTo(wpPage, s), s, r) ELSE WpSpin(WpSettle(wpPage, "recover"), FALSE)
          /\ wpOp' = IF ok
                     THEN [wpOp EXCEPT !["recover"].session = s,
                             !["recover"].state = IF wpRun[r].state = "running" THEN "reloading" ELSE "reloading ended"]
                     ELSE WpDone(wpOp, "recover")
          /\ wpGivenUp' = IF ok THEN wpGivenUp \cup WpOusted(s, r) ELSE wpGivenUp
    /\ UNCHANGED <<wpSession, wpRun>> /\ WpQuiet

WpReloaded(ok) ==
    /\ wpOp["recover"].state \in {"reloading", "reloading ended"}
    /\ LET op == wpOp["recover"]
           shown == IF ok THEN [wpPage EXCEPT !.view = {op.session}] ELSE wpPage
       IN IF ok /\ op.state = "reloading"
          THEN wpPage' = shown /\ wpOp' = [wpOp EXCEPT !["recover"].state = "stream"]
          ELSE /\ wpPage' = WpSpin(WpSettle(IF ok THEN WpClear(WpForget(shown, op.run)) ELSE shown, "recover"), FALSE)
               /\ wpOp' = WpDone(wpOp, "recover")
    /\ WpServerStays /\ WpQuiet

-----------------------------------------------------------------------------
WpUser ==
    \/ WpNewSession \/ WpTokensRenewed \/ WpLogout \/ WpReload
    \/ \E o \in WpHandlers :
         \/ WpSubmit(o) \/ WpRegenerate(o) \/ WpCancel(o) \/ WpLoadOlder(o)
         \/ \E s \in WpSessionIds : WpSelect(o, s) \/ WpDelete(o, s)

WpAnswers ==
    \/ \E o \in WpHandlers, ok \in BOOLEAN :
         \/ \E reached \in BOOLEAN : WpCancelAnswer(o, reached, ok)
         \/ WpCancelRefreshed(o, ok) \/ WpStartFails(o, ok) \/ WpResumed(o, ok)
         \/ WpDeleted(o, ok) \/ WpOlderLoaded(o, ok)
    \/ \E o \in WpHandlers :
         \/ WpStarted(o) \/ WpSelected(o) \/ WpSelectFails(o)
    \/ \E ok \in BOOLEAN : WpRestored(ok) \/ WpRechecked(ok) \/ WpReloaded(ok)

WpStreams ==
    \/ \E o \in WpOps : WpStreamOver(o) \/ \E event \in {"delta", "run_completed", "error"} : WpEvent(o, event)
    \/ \E r \in WpRunIds : WpRunEnds(r)

WpNext == WpUser \/ WpAnswers \/ WpStreams

WpSpec == WpInit /\ [][WpNext]_wpVars

-----------------------------------------------------------------------------
WpTypeOK ==
    /\ \A r \in WpRunIds : wpRun[r].state \in {"none", "running", "ended"}
    /\ wpPage.run \in 0 .. WpMaxRuns /\ wpPage.kept \in 0 .. WpMaxRuns
    /\ wpPage.runs \in [WpSessionIds -> 0 .. WpMaxRuns]
    /\ {wpPage.ref, wpPage.at, wpPage.url} \subseteq WpSessionIds \cup {"none"}
    /\ wpPage.ctl \in WpOps \cup {"none"} /\ wpPage.view \subseteq WpSessionIds

\* A run that still runs can be reached from the page: it is the active one,
\* or the registry has it under its session, unless the page was never told of
\* it, its cancel failed, its session was to be deleted, or a start that was
\* under way at the same time or a late recovery took its place.
WpRunIsReachable ==
    \A r \in WpRunIds \ wpGivenUp :
        wpRun[r].state = "running" => wpPage.run = r \/ wpPage.runs[wpRun[r].session] = r

\* The messages shown are those of the session the page is at: no stream that
\* was left writes into another session.  Excepted are an act that came while
\* an answer was outstanding, a start repeated without its session and a
\* session that could not be read again.
WpViewIsOfOneSession == ~wpLoose => wpPage.view \subseteq {wpPage.ref}
==============================================================================
