----------------------------- MODULE AuthSession -----------------------------
(***************************************************************************)
(* Login with GitHub, the pair of tokens, its refresh, and the guard in    *)
(* front of /agents and /knowledge: the API and one browser, whose page    *)
(* makes several authenticatedFetch calls at once over the one session in  *)
(* localStorage.  Logins from other devices reach the same table of users. *)
(***************************************************************************)
EXTENDS Naturals

CONSTANTS
    AuAccounts,     \* GitHub accounts
    AuLogins,       \* logins under way at the same time
    AuCalls,        \* calls of authenticatedFetch under way at the same time
    AuMaxTime,      \* bound: ticks of the clock
    AuMaxIds        \* bound: user ids that are drawn

ASSUME AuthSessionAssumption == AuMaxTime \in Nat /\ AuMaxIds \in Nat \ {0}

VARIABLES
    auNow,          \* the clock of the API
    auIds,          \* createId: user ids drawn so far
    auUsers,        \* the table users: account -> id, 0 where there is no row
    auIssued,       \* every pair <<account, id>> a token was issued for
    auLogin,        \* auLogin[l]: how far the login is and whose
    auStored,       \* agent.auth.session in localStorage
    auCall          \* auCall[c]: the call, what it sent and what it captured

auVars == <<auNow, auIds, auUsers, auIssued, auLogin, auStored, auCall>>

AuTtl == [access |-> 1, refresh |-> 2]      \* accessTokenTtlSeconds, refreshTokenTtlSeconds

AuNobody == [account |-> "nobody", id |-> 0]
AuNoToken == [typ |-> "none", user |-> AuNobody, exp |-> 0, secret |-> "none"]
AuNoSession == [user |-> AuNobody, access |-> AuNoToken, refresh |-> AuNoToken]
AuIdleCall == [state |-> "idle", token |-> AuNoToken, session |-> AuNoSession]
AuIdleLogin == [state |-> "idle", user |-> AuNobody]

AuInit ==
    /\ auNow = 0
    /\ auIds = 0
    /\ auUsers = [a \in AuAccounts |-> 0]
    /\ auIssued = {}
    /\ auLogin = [l \in AuLogins |-> AuIdleLogin]
    /\ auStored = AuNoSession
    /\ auCall = [c \in AuCalls |-> AuIdleCall]

-----------------------------------------------------------------------------
\* AuthTokenService.

\* createClaims and signJwt.
AuToken(user, typ) == [typ |-> typ, user |-> user, exp |-> auNow + AuTtl[typ], secret |-> typ]

\* issueTokenPair: both tokens at the same time, each with its secret.
AuPair(user) == [access |-> AuToken(user, "access"), refresh |-> AuToken(user, "refresh")]

\* verifyJwt: the signature was made with this secret.
AuSignedWith(token, secret) == token.secret = secret

\* verifyToken: the signature, then the type, then the time.
AuVerified(token, typ) ==
    /\ AuSignedWith(token, typ)
    /\ token.typ = typ
    /\ token.exp > auNow

\* onRequest of the guard with verifyBearerAccessToken; /auth is let through.
AuLetThrough(token) == token # AuNoToken /\ AuVerified(token, "access")

-----------------------------------------------------------------------------
\* Login.

\* getUserProfile: the code, the profile and the address of an account; an
\* unknown code, a refused request and a profile without id or login end the
\* login with an error.
AuAskGithub(l, account) ==
    /\ auLogin[l].state = "idle"
    /\ auLogin' = [auLogin EXCEPT ![l] = [state |-> "profile", user |-> [account |-> account, id |-> 0]]]
    /\ UNCHANGED <<auNow, auIds, auUsers, auIssued, auStored, auCall>>

\* Mutant: the row is looked for when the login starts and then inserted.
AuInsert(account) == auIds + 1

\* upsertGithubUser: ON CONFLICT (github_id) keeps the id of the row.
AuUpsertId(account) == IF auUsers[account] # 0 THEN auUsers[account] ELSE auIds + 1

AuUpsert(l) ==
    /\ auLogin[l].state = "profile" /\ auIds < AuMaxIds
    /\ LET account == auLogin[l].user.account IN
         /\ auUsers' = [auUsers EXCEPT ![account] = AuUpsertId(account)]
         /\ auLogin' = [auLogin EXCEPT ![l] = [state |-> "stored",
                          user |-> [account |-> account, id |-> AuUpsertId(account)]]]
    /\ auIds' = auIds + 1
    /\ UNCHANGED <<auNow, auIssued, auStored, auCall>>

\* The answer of POST /auth/github/login; writeAuthSession when it is this
\* browser that logs in.
AuFinishLogin(l, here) ==
    /\ auLogin[l].state = "stored"
    /\ auIssued' = auIssued \cup {<<auLogin[l].user.account, auLogin[l].user.id>>}
    /\ LET pair == AuPair(auLogin[l].user) IN
       auStored' = IF here
                   THEN [user |-> auLogin[l].user, access |-> pair.access, refresh |-> pair.refresh]
                   ELSE auStored
    /\ auLogin' = [auLogin EXCEPT ![l] = AuIdleLogin]
    /\ UNCHANGED <<auNow, auIds, auUsers, auCall>>

\* The login ends with an error at either step.
AuLoginFails(l) ==
    /\ auLogin[l].state # "idle"
    /\ auLogin' = [auLogin EXCEPT ![l] = AuIdleLogin]
    /\ UNCHANGED <<auNow, auIds, auUsers, auIssued, auStored, auCall>>

\* handleLogout: clearAuthSession, whatever calls are under way.
AuLogout ==
    /\ auStored # AuNoSession
    /\ auStored' = AuNoSession
    /\ UNCHANGED <<auNow, auIds, auUsers, auIssued, auLogin, auCall>>

-----------------------------------------------------------------------------
\* authenticatedFetch.

\* withAuthHeader: the access token of the stored session, or none.
AuFetch(c) ==
    /\ auCall[c].state = "idle"
    /\ auCall' = [auCall EXCEPT ![c] = [state |-> "first", token |-> auStored.access, session |-> AuNoSession]]
    /\ UNCHANGED <<auNow, auIds, auUsers, auIssued, auLogin, auStored>>

AuEnds(c, state) == auCall' = [auCall EXCEPT ![c] = [AuIdleCall EXCEPT !.state = state]]

\* The first answer: 401 while a session is stored starts the refresh with
\* that session, whichever session the request was made with.
AuFirstAnswer(c) ==
    /\ auCall[c].state = "first"
    /\ \/ AuLetThrough(auCall[c].token) /\ AuEnds(c, "granted")
       \/ ~AuLetThrough(auCall[c].token) /\ auStored = AuNoSession /\ AuEnds(c, "refused")
       \/ /\ ~AuLetThrough(auCall[c].token) /\ auStored # AuNoSession
          /\ auCall' = [auCall EXCEPT ![c].state = "refresh", ![c].session = auStored]
    /\ UNCHANGED <<auNow, auIds, auUsers, auIssued, auLogin, auStored>>

\* Mutant: the new tokens are merged into the session that is stored by now.
AuMergeStored(session, pair) == [user |-> auStored.user, access |-> pair.access, refresh |-> pair.refresh]

\* nextSession: the captured session with the new tokens.
AuMerge(session, pair) == [user |-> session.user, access |-> pair.access, refresh |-> pair.refresh]

\* POST /auth/refresh answers: the new pair is stored and the request is
\* repeated with it, or the stored session is cleared.  Both write over what
\* a logout, a login or another call has stored meanwhile.
AuRefreshAnswer(c) ==
    /\ auCall[c].state = "refresh"
    /\ LET session == auCall[c].session IN
       \/ /\ AuVerified(session.refresh, "refresh")
          /\ LET pair == AuPair(session.refresh.user) IN
             /\ auStored' = AuMerge(session, pair)
             /\ auCall' = [auCall EXCEPT ![c].state = "retry", ![c].token = pair.access]
          /\ auIssued' = auIssued \cup {<<session.refresh.user.account, session.refresh.user.id>>}
       \/ /\ ~AuVerified(session.refresh, "refresh")
          /\ auStored' = AuNoSession
          /\ AuEnds(c, "refused")
          /\ UNCHANGED auIssued
    /\ UNCHANGED <<auNow, auIds, auUsers, auLogin>>

\* The answer to the repeated request is the answer of the call.
AuSecondAnswer(c) ==
    /\ auCall[c].state = "retry"
    /\ AuEnds(c, IF AuLetThrough(auCall[c].token) THEN "granted" ELSE "refused")
    /\ UNCHANGED <<auNow, auIds, auUsers, auIssued, auLogin, auStored>>

\* The network fails: fetch rejects and the session stays as it is.
AuNetworkError(c) ==
    /\ auCall[c].state \in {"first", "refresh", "retry"}
    /\ AuEnds(c, "failed")
    /\ UNCHANGED <<auNow, auIds, auUsers, auIssued, auLogin, auStored>>

\* The page has seen the answer and may call again.
AuSeen(c) ==
    /\ auCall[c].state \in {"granted", "refused", "failed"}
    /\ auCall' = [auCall EXCEPT ![c] = AuIdleCall]
    /\ UNCHANGED <<auNow, auIds, auUsers, auIssued, auLogin, auStored>>

AuTick ==
    /\ auNow < AuMaxTime
    /\ auNow' = auNow + 1
    /\ UNCHANGED <<auIds, auUsers, auIssued, auLogin, auStored, auCall>>

-----------------------------------------------------------------------------
AuNext ==
    \/ \E l \in AuLogins, account \in AuAccounts : AuAskGithub(l, account)
    \/ \E l \in AuLogins : AuUpsert(l) \/ AuLoginFails(l)
    \/ \E l \in AuLogins, here \in BOOLEAN : AuFinishLogin(l, here)
    \/ AuLogout
    \/ \E c \in AuCalls : AuFetch(c)
    \/ \E c \in AuCalls :
         AuFirstAnswer(c) \/ AuRefreshAnswer(c) \/ AuSecondAnswer(c) \/ AuNetworkError(c) \/ AuSeen(c)
    \/ AuTick

AuSpec == AuInit /\ [][AuNext]_auVars

-----------------------------------------------------------------------------
AuTypeOK ==
    /\ auNow \in 0..AuMaxTime
    /\ auIds \in 0..AuMaxIds
    /\ auUsers \in [AuAccounts -> 0..AuMaxIds]
    /\ \A l \in AuLogins : auLogin[l].state \in {"idle", "profile", "stored"}
    /\ \A c \in AuCalls : auCall[c].state \in {"idle", "first", "refresh", "retry", "granted", "refused", "failed"}

\* Whatever logins, logouts and refreshes overlap, the stored session never
\* shows one user and carries the tokens of another.
AuSessionIsOneUsers ==
    auStored # AuNoSession =>
        /\ auStored.access.user = auStored.user
        /\ auStored.refresh.user = auStored.user

\* Tokens of one GitHub account name one user, from whichever devices the
\* account logs in at the same time.
AuOneUserPerAccount ==
    \A p, q \in auIssued : p[1] = q[1] => p[2] = q[2]
=============================================================================
