-------------------------------- MODULE Paging --------------------------------
(***************************************************************************)
(* The two lists a page of the web client loads piece by piece while the   *)
(* tables change under it: the sessions of a user, newest activity first,  *)
(* and the messages of a session, newest first backwards.  The server reads *)
(* the sort key of the anchor, then selects what comes after it, one row   *)
(* more than it is asked for; the client appends or prepends the answer.   *)
(*                                                                         *)
(* A row is its number, seq.  updated_at moves with every write to the     *)
(* session; created_at is stamped by the process that writes, so that a    *)
(* message can be inserted before one that is there.  The two lists have   *)
(* nothing in common but the way they are read: a behaviour has one.       *)
(***************************************************************************)
EXTENDS Naturals, Sequences, FiniteSets

CONSTANTS
    PgSessions,   \* sessions that there can be
    PgLimit,      \* limit of a page
    PgMaxTime,    \* bound: moments
    PgMaxMessages,\* bound: messages of the session
    PgMaxWrites   \* bound: sessions created, touched and deleted

ASSUME PagingAssumption ==
    /\ {PgSessions, PgMaxMessages, PgMaxWrites} \subseteq Nat
    /\ {PgLimit, PgMaxTime} \subseteq Nat \ {0}

VARIABLES
    pgNow,      \* the time
    pgSession,  \* agent_sessions: updated_at and whether the row is there
    pgMessage,  \* agent_messages of one session: created_at, in order of seq
    pgWrites,
    pgKind,     \* which list this is
    pgShown,    \* the list: rows, nextCursor, hasMore
    pgAsk       \* the requests of the page: for the first and for a next part

pgVars == <<pgNow, pgSession, pgMessage, pgWrites, pgKind, pgShown, pgAsk>>

PgIds == 1..PgSessions

\* held, a history: the rows that were there when the first page was selected
\* and have not moved since.  late: the list was refreshed while a next page
\* of it was outstanding.
PgRows == [rows |-> {}, cursor |-> 0, more |-> FALSE, held |-> {}]
PgNone == [pc |-> "idle", after |-> 0, key |-> <<0, 0>>, answer |-> PgRows, late |-> FALSE]
PgAsks == {"first", "next"}

PgInit ==
    /\ pgNow = 1
    /\ pgSession = [s \in PgIds |-> [at |-> 1, live |-> s < PgSessions]]
    /\ pgMessage = <<>>
    /\ pgWrites = 0
    /\ pgKind \in {"sessions", "messages"}
    /\ pgShown = PgRows
    /\ pgAsk = [a \in PgAsks |-> PgNone]

PgPageStays == UNCHANGED <<pgKind, pgShown, pgAsk>>
PgTablesStay == UNCHANGED <<pgNow, pgSession, pgMessage, pgWrites, pgKind>>

-----------------------------------------------------------------------------
(* The tables.                                                             *)

PgTick ==
    /\ pgNow < PgMaxTime
    /\ pgNow' = pgNow + 1
    /\ UNCHANGED <<pgSession, pgMessage, pgWrites>> /\ PgPageStays

PgWrite ==
    /\ pgKind = "sessions" /\ pgWrites < PgMaxWrites
    /\ pgWrites' = pgWrites + 1

\* touchSession, which almost every write to a session calls.  A page that
\* starts a run puts the session into its list (upsertSession).
PgTouch(s, here) ==
    /\ pgSession[s].live /\ PgWrite
    /\ pgSession' = [pgSession EXCEPT ![s].at = pgNow]
    /\ pgShown' = [pgShown EXCEPT !.held = @ \ {s}, !.rows = IF here THEN @ \cup {s} ELSE @]
    /\ pgAsk' = [pgAsk EXCEPT !["first"].answer.held = @ \ {s}]
    /\ UNCHANGED <<pgNow, pgMessage, pgKind>>

\* createSession: the next number.
PgCreate ==
    /\ ~pgSession[PgSessions].live /\ pgSession[PgSessions].at = 1 /\ PgWrite
    /\ pgSession' = [pgSession EXCEPT ![PgSessions] = [at |-> pgNow, live |-> TRUE]]
    /\ UNCHANGED <<pgNow, pgMessage>> /\ PgPageStays

\* deleteSession, in one transaction.  The page that deletes drops the row.
PgDelete(s, here) ==
    /\ pgSession[s].live /\ PgWrite
    /\ pgSession' = [pgSession EXCEPT ![s].live = FALSE, ![s].at = 0]
    /\ pgShown' = IF here THEN [pgShown EXCEPT !.rows = @ \ {s}] ELSE pgShown
    /\ UNCHANGED <<pgNow, pgMessage, pgKind, pgAsk>>

\* createMessage, by a process whose clock may be one moment behind.
PgInsert ==
    /\ pgKind = "messages" /\ Len(pgMessage) < PgMaxMessages
    /\ \E at \in {pgNow - 1, pgNow} : pgMessage' = Append(pgMessage, at)
    /\ UNCHANGED <<pgNow, pgSession, pgWrites>> /\ PgPageStays

-----------------------------------------------------------------------------
(* The queries.                                                            *)

PgKey(r) == IF pgKind = "sessions" THEN <<pgSession[r].at, r>> ELSE <<pgMessage[r], r>>
PgExisting == IF pgKind = "sessions" THEN {s \in PgIds : pgSession[s].live} ELSE DOMAIN pgMessage

\* The order of the queries: by time, then by seq.
PgOlder(k, l) == k[1] < l[1] \/ (k[1] = l[1] /\ k[2] < l[2])

\* Mutant: the rows of the anchor's moment are all taken for read.
PgAfterByTime(r, key) == PgKey(r)[1] < key[1]

\* created_at < ? OR (created_at = ? AND seq < ?).
PgAfter(r, key) == PgOlder(PgKey(r), key)

\* LIMIT of limit + 1, and the page without the overflow.
PgTrim(rows) ==
    {r \in rows : Cardinality({q \in rows : PgOlder(PgKey(r), PgKey(q))}) < PgLimit}

PgOldest(rows) ==
    IF rows = {} THEN 0
    ELSE CHOOSE r \in rows : \A q \in rows \ {r} : PgOlder(PgKey(r), PgKey(q))

\* A part of the rows, with the oldest of it as nextCursor when there are more.
PgPage(rows) ==
    LET page == PgTrim(rows)
        more == Cardinality(rows) > PgLimit
    IN  [rows |-> page, cursor |-> IF more THEN PgOldest(page) ELSE 0, more |-> more, held |-> {}]

\* listSessions without an anchor, getRecentMessagesBySession.
PgFirstPage ==
    /\ pgAsk["first"].pc = "asked"
    /\ pgAsk' = [pgAsk EXCEPT !["first"].pc = "answered",
                             !["first"].answer = [PgPage(PgExisting) EXCEPT !.held = PgExisting]]
    /\ PgTablesStay /\ UNCHANGED pgShown

\* getSessionCursor, getMessageCursor: the sort key that the anchor has now;
\* without the anchor the answer is empty, and the last one.
PgReadCursor ==
    /\ pgAsk["next"].pc = "asked"
    /\ LET anchor == pgAsk["next"].after
       IN  pgAsk' = IF anchor \in PgExisting
                    THEN [pgAsk EXCEPT !["next"].pc = "select", !["next"].key = PgKey(anchor)]
                    ELSE [pgAsk EXCEPT !["next"].pc = "answered"]
    /\ PgTablesStay /\ UNCHANGED pgShown

\* listSessions after an anchor, getMessagesBefore.
PgSelect ==
    /\ pgAsk["next"].pc = "select"
    /\ LET older == {r \in PgExisting : PgAfter(r, pgAsk["next"].key)}
       IN  pgAsk' = [pgAsk EXCEPT !["next"].pc = "answered", !["next"].answer = PgPage(older)]
    /\ PgTablesStay /\ UNCHANGED pgShown

-----------------------------------------------------------------------------
(* The page.                                                               *)

\* refreshSessions and the effect that lists; a session is opened or read again.
PgRefresh ==
    /\ pgAsk["first"].pc = "idle"
    /\ pgAsk' = [pgAsk EXCEPT !["first"].pc = "asked"]
    /\ PgTablesStay /\ UNCHANGED pgShown

\* handleLoadMoreSessions, handleLoadOlderMessages: one at a time.
PgMore ==
    /\ pgAsk["next"].pc = "idle"
    /\ pgShown.cursor # 0 /\ pgShown.more
    /\ pgAsk' = [pgAsk EXCEPT !["next"].pc = "asked", !["next"].after = pgShown.cursor]
    /\ PgTablesStay /\ UNCHANGED pgShown

\* The first part replaces what is shown, also when a next part is still
\* asked for ...
PgShowFirst ==
    /\ pgAsk["first"].pc = "answered"
    /\ pgShown' = pgAsk["first"].answer
    /\ pgAsk' = [pgAsk EXCEPT !["first"] = PgNone, !["next"].late = pgAsk["next"].pc # "idle"]
    /\ PgTablesStay

\* ... and a next part is merged into it; both bring their pageInfo.  Nothing
\* is held of a list that was refreshed in between, or whose anchor is gone.
PgShowNext ==
    /\ pgAsk["next"].pc = "answered"
    /\ LET next == pgAsk["next"]
       IN  pgShown' = [next.answer EXCEPT
             !.rows = @ \cup pgShown.rows,
             !.held = IF next.late \/ next.answer.rows = {} THEN {} ELSE pgShown.held]
    /\ pgAsk' = [pgAsk EXCEPT !["next"] = PgNone]
    /\ PgTablesStay

\* No answer: what is shown stays, or the effect that lists the sessions
\* empties them.
PgFails(a) ==
    /\ pgAsk[a].pc # "idle"
    /\ pgAsk' = [pgAsk EXCEPT ![a] = PgNone]
    /\ \/ UNCHANGED pgShown
       \/ a = "first" /\ pgKind = "sessions" /\ pgShown' = PgRows
    /\ PgTablesStay

PgNext ==
    \/ PgTick \/ PgCreate \/ PgInsert
    \/ \E s \in PgIds, here \in BOOLEAN : PgTouch(s, here) \/ PgDelete(s, here)
    \/ PgFirstPage \/ PgReadCursor \/ PgSelect
    \/ PgRefresh \/ PgMore \/ PgShowFirst \/ PgShowNext \/ \E a \in PgAsks : PgFails(a)

PgSpec == PgInit /\ [][PgNext]_pgVars

-----------------------------------------------------------------------------
(* Properties.                                                             *)

PgTypeOK ==
    /\ pgNow \in 1..PgMaxTime
    /\ \A s \in PgIds : pgSession[s].at \in 0..pgNow /\ pgSession[s].live \in BOOLEAN
    /\ \A m \in DOMAIN pgMessage : pgMessage[m] \in 0..pgNow
    /\ pgShown.rows \subseteq IF pgKind = "sessions" THEN PgIds ELSE DOMAIN pgMessage
    /\ \A a \in PgAsks : pgAsk[a].pc \in {"idle", "asked", "select", "answered"}

\* What a list should show of the rows that have not moved: those that are not
\* older than the anchor of the next page, and all when there is none.
PgDue ==
    {r \in pgShown.held \cap PgExisting :
        \/ ~pgShown.more
        \/ pgShown.cursor \in PgExisting /\ ~PgOlder(PgKey(r), PgKey(pgShown.cursor))}

\* Loading page after page leaves no hole, although sessions are created,
\* touched and deleted and messages inserted between the pages: every row that
\* was there when the first page was read, and has not moved, is shown down to
\* the place that has been reached.  Not so when the list is refreshed while a
\* next page is outstanding, and for what comes after a deleted anchor.
PgNoHoles == PgDue \subseteq pgShown.rows
===============================================================================
