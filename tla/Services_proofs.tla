---------------------------- MODULE Services_proofs ----------------------------
(***************************************************************************)
(* Proofs about what a request meets beside its run, for any constants:    *)
(* the session of a user, the memory of a session, the page and the tools, *)
(* each on its own.                                                        *)
(***************************************************************************)
EXTENDS MCServices, Contents_proofs

-----------------------------------------------------------------------------
(***************************************************************************)
(* The session of a user, for any accounts, logins, calls, time and number *)
(* of users: one session is one user's and one account is one user.        *)
(***************************************************************************)

AuUser == [account : AuAccounts \cup {"nobody"}, id : 0..AuMaxIds]

AuTokens == [typ : {"none", "access", "refresh"}, user : AuUser, exp : Nat,
             secret : {"none", "access", "refresh"}]

AuSessions == [user : AuUser, access : AuTokens, refresh : AuTokens]

AuCallStates == [state : {"idle", "first", "refresh", "retry", "granted", "refused", "failed"},
                 token : AuTokens, session : AuSessions]

\* The full shape of every variable, of which AuTypeOK is the visible part.
AuShapes ==
    /\ auNow \in 0..AuMaxTime
    /\ auIds \in 0..AuMaxIds
    /\ auUsers \in [AuAccounts -> 0..AuMaxIds]
    /\ auLogin \in [AuLogins -> [state : {"idle", "profile", "stored"}, user : AuUser]]
    /\ auStored \in AuSessions
    /\ auCall \in [AuCalls -> AuCallStates]

\* The user the session shows is the one its tokens were issued for.
AuHonest(session) ==
    /\ session.access.user = session.user
    /\ session.refresh.user = session.user

\* The session captured by a refresh outlives the stored one: it has to be
\* honest by itself.
AuSessionsHonest ==
    /\ AuHonest(auStored)
    /\ \A c \in AuCalls : AuHonest(auCall[c].session)

\* The row of the account names this user.
AuKnown(user) ==
    /\ user.account \in AuAccounts
    /\ user.id # 0
    /\ auUsers[user.account] = user.id

AuTokenKnown(token) == token.typ # "none" => AuKnown(token.user)

\* Whatever a token can still be issued from names a row of users.
AuAllKnown ==
    /\ \A p \in auIssued : AuKnown([account |-> p[1], id |-> p[2]])
    /\ \A l \in AuLogins :
         /\ auLogin[l].state # "idle" => auLogin[l].user.account \in AuAccounts
         /\ auLogin[l].state = "stored" => AuKnown(auLogin[l].user)
    /\ AuTokenKnown(auStored.refresh)
    /\ \A c \in AuCalls : AuTokenKnown(auCall[c].session.refresh)

-----------------------------------------------------------------------------
\* A pair of tokens has the shape of tokens and is issued for its user.
LEMMA AuPairShape ==
    ASSUME AuShapes, NEW user \in AuUser
    PROVE  /\ AuPair(user).access \in AuTokens /\ AuPair(user).refresh \in AuTokens
           /\ AuPair(user).access.user = user /\ AuPair(user).refresh.user = user
<1>1. auNow + 1 \in Nat /\ auNow + 2 \in Nat
  BY AuthSessionAssumption DEF AuShapes
<1>2. AuTtl["access"] = 1 /\ AuTtl["refresh"] = 2
  BY DEF AuTtl
<1>3. AuToken(user, "access") \in AuTokens /\ AuToken(user, "refresh") \in AuTokens
  BY <1>1, <1>2 DEF AuToken, AuTokens
<1> QED
  BY <1>3 DEF AuPair, AuToken

\* What stands for no session is a session.
LEMMA AuNothingShape ==
    /\ AuNobody \in AuUser /\ AuNoToken \in AuTokens /\ AuNoSession \in AuSessions
    /\ AuIdleLogin = [state |-> "idle", user |-> AuNobody]
    /\ AuIdleCall = [state |-> "idle", token |-> AuNoToken, session |-> AuNoSession]
<1>1. 0 \in 0..AuMaxIds
  BY AuthSessionAssumption
<1>2. AuNobody \in AuUser
  BY <1>1 DEF AuNobody, AuUser
<1>3. AuNoToken \in AuTokens
  BY <1>2 DEF AuNoToken, AuTokens
<1> QED
  BY <1>2, <1>3 DEF AuNoSession, AuSessions, AuIdleLogin, AuIdleCall

\* Initially every variable has its shape.
LEMMA AuInitShapes == AuInit => AuShapes
BY AuNothingShape, AuthSessionAssumption DEF AuInit, AuShapes, AuCallStates

\* A step of a login keeps the shapes.
LEMMA AuLoginShapes ==
    ASSUME AuShapes, NEW l \in AuLogins,
           \/ \E account \in AuAccounts : AuAskGithub(l, account)
           \/ AuAllKnown /\ AuUpsert(l)
           \/ \E here \in BOOLEAN : AuFinishLogin(l, here)
           \/ AuLoginFails(l)
    PROVE  AuShapes'
<1> USE DEF AuShapes
<1>1. ASSUME NEW account \in AuAccounts, AuAskGithub(l, account) PROVE AuShapes'
  <2>1. [account |-> account, id |-> 0] \in AuUser
    BY AuthSessionAssumption DEF AuUser
  <2> QED
    BY <1>1, <2>1 DEF AuAskGithub
<1>2. CASE AuAllKnown /\ AuUpsert(l)
  <2> DEFINE account == auLogin[l].user.account
  <2>1. account \in AuAccounts
    BY <1>2 DEF AuAllKnown, AuUpsert
  <2>2. AuUpsertId(account) \in 0..AuMaxIds /\ auIds' \in 0..AuMaxIds
    BY <1>2, <2>1, AuthSessionAssumption DEF AuUpsert, AuUpsertId
  <2>3. [account |-> account, id |-> AuUpsertId(account)] \in AuUser
    BY <2>1, <2>2 DEF AuUser
  <2> QED
    BY <1>2, <2>1, <2>2, <2>3 DEF AuUpsert
<1>3. ASSUME NEW here \in BOOLEAN, AuFinishLogin(l, here) PROVE AuShapes'
  <2>1. auLogin[l].user \in AuUser
    OBVIOUS
  <2>2. [user |-> auLogin[l].user, access |-> AuPair(auLogin[l].user).access,
         refresh |-> AuPair(auLogin[l].user).refresh] \in AuSessions
    BY <2>1, AuPairShape DEF AuSessions
  <2> QED
    BY <1>3, <2>2, AuNothingShape DEF AuFinishLogin
<1>4. CASE AuLoginFails(l)
  BY <1>4, AuNothingShape DEF AuLoginFails
<1> QED
  BY <1>1, <1>2, <1>3, <1>4

\* State and token of a call are set at once.
LEMMA AuStateAndToken ==
    ASSUME NEW r \in AuCallStates, NEW a, NEW b
    PROVE  [r EXCEPT !.state = a, !.token = b] = [state |-> a, token |-> b, session |-> r.session]
<1> DEFINE once == [state |-> a, token |-> r.token, session |-> r.session]
<1>1. [r EXCEPT !.state = a] = once
  BY DEF AuCallStates
<1>2. [r EXCEPT !.state = a, !.token = b] = [[r EXCEPT !.state = a] EXCEPT !.token = b]
  BY Zenon
<1>3. [once EXCEPT !.token = b] = [state |-> a, token |-> b, session |-> r.session]
  OBVIOUS
<1> HIDE DEF once
<1> QED
  BY <1>1, <1>2, <1>3, Zenon

\* State and session of a call are set at once.
LEMMA AuStateAndSession ==
    ASSUME NEW r \in AuCallStates, NEW a, NEW b
    PROVE  [r EXCEPT !.state = a, !.session = b] = [state |-> a, token |-> r.token, session |-> b]
<1> DEFINE once == [state |-> a, token |-> r.token, session |-> r.session]
<1>1. [r EXCEPT !.state = a] = once
  BY DEF AuCallStates
<1>2. [r EXCEPT !.state = a, !.session = b] = [[r EXCEPT !.state = a] EXCEPT !.session = b]
  BY Zenon
<1>3. [once EXCEPT !.session = b] = [state |-> a, token |-> r.token, session |-> b]
  OBVIOUS
<1> HIDE DEF once
<1> QED
  BY <1>1, <1>2, <1>3, Zenon

\* How a call of the page goes on: with its own session, the stored one or
\* none, and a refresh stores what it merges or clears the session.
LEMMA AuCallMoves ==
    ASSUME AuShapes, NEW c \in AuCalls,
           \/ AuFetch(c) \/ AuFirstAnswer(c) \/ AuRefreshAnswer(c)
           \/ AuSecondAnswer(c) \/ AuNetworkError(c) \/ AuSeen(c)
    PROVE  /\ UNCHANGED <<auNow, auIds, auUsers, auLogin>>
           /\ \E r \in AuCallStates :
                /\ auCall' = [auCall EXCEPT ![c] = r]
                /\ r.session \in {auCall[c].session, auStored, AuNoSession}
           /\ \/ auStored' \in {auStored, AuNoSession} /\ auIssued' = auIssued
              \/ LET session == auCall[c].session IN
                 /\ session.refresh.typ = "refresh"
                 /\ auStored' = AuMerge(session, AuPair(session.refresh.user))
                 /\ auIssued' = auIssued \cup {<<session.refresh.user.account, session.refresh.user.id>>}
<1>1. /\ auCall \in [AuCalls -> AuCallStates] /\ auCall[c] \in AuCallStates
      /\ auStored \in AuSessions /\ auStored.access \in AuTokens
  BY DEF AuShapes, AuSessions
<1>2. \A st \in {"granted", "refused", "failed"} :
        AuEnds(c, st) => /\ [state |-> st, token |-> AuNoToken, session |-> AuNoSession] \in AuCallStates
                         /\ auCall' = [auCall EXCEPT ![c] = [state |-> st, token |-> AuNoToken, session |-> AuNoSession]]
  BY AuNothingShape DEF AuEnds, AuCallStates
<1>3. CASE AuFetch(c)
  <2>1. [state |-> "first", token |-> auStored.access, session |-> AuNoSession] \in AuCallStates
    BY <1>1, AuNothingShape DEF AuCallStates
  <2> QED
    BY <1>3, <2>1 DEF AuFetch
<1>4. CASE AuFirstAnswer(c)
  <2>1. CASE auCall' = [auCall EXCEPT ![c].state = "refresh", ![c].session = auStored]
    <3>1. auCall' = [auCall EXCEPT ![c] = [state |-> "refresh", token |-> auCall[c].token, session |-> auStored]]
      <4>1. auCall' = [auCall EXCEPT ![c] = [auCall[c] EXCEPT !.state = "refresh", !.session = auStored]]
        BY <1>1, <2>1
      <4>2. [auCall[c] EXCEPT !.state = "refresh", !.session = auStored]
              = [state |-> "refresh", token |-> auCall[c].token, session |-> auStored]
        BY <1>1, AuStateAndSession, Zenon
      <4> QED
        BY <4>1, <4>2
    <3>2. [state |-> "refresh", token |-> auCall[c].token, session |-> auStored] \in AuCallStates
      BY <1>1 DEF AuCallStates
    <3> QED
      BY <1>4, <3>1, <3>2 DEF AuFirstAnswer
  <2>2. CASE AuEnds(c, "granted") \/ AuEnds(c, "refused")
    BY <1>2, <1>4, <2>2 DEF AuFirstAnswer
  <2> QED
    BY <1>4, <2>1, <2>2 DEF AuFirstAnswer
<1>5. CASE AuRefreshAnswer(c)
  <2> DEFINE session == auCall[c].session
             pair == AuPair(session.refresh.user)
  <2>1. session \in AuSessions /\ session.refresh \in AuTokens /\ session.refresh.user \in AuUser
    BY <1>1 DEF AuSessions, AuTokens, AuCallStates
  <2>2. CASE AuVerified(session.refresh, "refresh")
    <3>1. /\ auCall' = [auCall EXCEPT ![c].state = "retry", ![c].token = pair.access]
          /\ auStored' = AuMerge(session, pair)
          /\ auIssued' = auIssued \cup {<<session.refresh.user.account, session.refresh.user.id>>}
      BY <1>5, <2>2 DEF AuRefreshAnswer
    <3>2. auCall' = [auCall EXCEPT ![c] = [state |-> "retry", token |-> pair.access, session |-> session]]
      <4>1. auCall' = [auCall EXCEPT ![c] = [auCall[c] EXCEPT !.state = "retry", !.token = pair.access]]
        BY <1>1, <3>1
      <4>2. [auCall[c] EXCEPT !.state = "retry", !.token = pair.access]
              = [state |-> "retry", token |-> pair.access, session |-> auCall[c].session]
        <5> HIDE DEF pair
        <5> QED
          BY <1>1, AuStateAndToken, Zenon
      <4> QED
        BY <4>1, <4>2
    <3>3. [state |-> "retry", token |-> pair.access, session |-> session] \in AuCallStates
      BY <2>1, AuPairShape DEF AuCallStates
    <3> QED
      BY <1>5, <2>2, <3>1, <3>2, <3>3 DEF AuRefreshAnswer, AuVerified
  <2>3. CASE ~AuVerified(session.refresh, "refresh")
    BY <1>2, <1>5, <2>3 DEF AuRefreshAnswer
  <2> QED
    BY <2>2, <2>3
<1>6. CASE AuSecondAnswer(c)
  BY <1>2, <1>6 DEF AuSecondAnswer
<1>7. CASE AuNetworkError(c)
  BY <1>2, <1>7 DEF AuNetworkError
<1>8. CASE AuSeen(c)
  <2>1. AuIdleCall \in AuCallStates /\ AuIdleCall.session = AuNoSession
    BY AuNothingShape DEF AuCallStates
  <2> QED
    BY <1>8, <2>1 DEF AuSeen
<1> QED
  BY <1>3, <1>4, <1>5, <1>6, <1>7, <1>8

\* Every step keeps the shapes.
LEMMA AuStepShapes == AuShapes /\ AuAllKnown /\ [AuNext]_auVars => AuShapes'
<1> SUFFICES ASSUME AuShapes, AuAllKnown, [AuNext]_auVars PROVE AuShapes'
  OBVIOUS
<1>1. ASSUME NEW l \in AuLogins,
             \/ \E account \in AuAccounts : AuAskGithub(l, account)
             \/ AuUpsert(l) \/ AuLoginFails(l)
             \/ \E here \in BOOLEAN : AuFinishLogin(l, here)
      PROVE  AuShapes'
  BY <1>1, AuLoginShapes
<1>2. CASE AuLogout
  BY <1>2, AuNothingShape DEF AuLogout, AuShapes
<1>3. ASSUME NEW c \in AuCalls,
             \/ AuFetch(c) \/ AuFirstAnswer(c) \/ AuRefreshAnswer(c)
             \/ AuSecondAnswer(c) \/ AuNetworkError(c) \/ AuSeen(c)
      PROVE  AuShapes'
  <2>1. auCall' \in [AuCalls -> AuCallStates]
    BY <1>3, AuCallMoves DEF AuShapes
  <2>2. auStored' \in AuSessions
    <3>1. auCall[c].session \in AuSessions /\ auCall[c].session.refresh.user \in AuUser
      BY DEF AuShapes, AuSessions, AuTokens, AuCallStates
    <3>2. AuMerge(auCall[c].session, AuPair(auCall[c].session.refresh.user)) \in AuSessions
      BY <3>1, AuPairShape DEF AuMerge, AuSessions
    <3> QED
      BY <1>3, <3>2, AuCallMoves, AuNothingShape DEF AuShapes
  <2>3. UNCHANGED <<auNow, auIds, auUsers, auLogin>>
    BY <1>3, AuCallMoves
  <2> QED
    BY <2>1, <2>2, <2>3 DEF AuShapes
<1>4. CASE AuTick
  BY <1>4, AuthSessionAssumption DEF AuTick, AuShapes
<1>5. CASE UNCHANGED auVars
  BY <1>5 DEF auVars, AuShapes
<1> QED
  BY <1>1, <1>2, <1>3, <1>4, <1>5 DEF AuNext

-----------------------------------------------------------------------------
\* Every step keeps the sessions honest.
LEMMA AuStepHonest == AuShapes /\ AuSessionsHonest /\ [AuNext]_auVars => AuSessionsHonest'
<1> SUFFICES ASSUME AuShapes, AuSessionsHonest, [AuNext]_auVars PROVE AuSessionsHonest'
  OBVIOUS
<1>1. AuHonest(AuNoSession)
  BY DEF AuHonest, AuNoSession, AuNoToken
<1>2. ASSUME NEW l \in AuLogins, NEW here \in BOOLEAN, AuFinishLogin(l, here)
      PROVE  AuSessionsHonest'
  <2>1. auLogin[l].user \in AuUser
    BY DEF AuShapes
  <2>2. AuHonest(auStored')
    BY <1>2, <2>1, AuPairShape DEF AuFinishLogin, AuHonest, AuSessionsHonest
  <2> QED
    BY <1>2, <2>2 DEF AuFinishLogin, AuSessionsHonest
<1>3. ASSUME NEW c \in AuCalls,
             \/ AuFetch(c) \/ AuFirstAnswer(c) \/ AuRefreshAnswer(c)
             \/ AuSecondAnswer(c) \/ AuNetworkError(c) \/ AuSeen(c)
      PROVE  AuSessionsHonest'
  <2> DEFINE session == auCall[c].session
  <2>1. AuHonest(auStored) /\ AuHonest(session)
    BY DEF AuSessionsHonest
  <2>2. AuHonest(AuMerge(session, AuPair(session.refresh.user)))
    <3>1. session.refresh.user \in AuUser
      BY DEF AuShapes, AuSessions, AuTokens, AuCallStates
    <3> QED
      BY <2>1, <3>1, AuPairShape DEF AuHonest, AuMerge
  <2>3. AuHonest(auStored')
    BY <1>1, <1>3, <2>1, <2>2, AuCallMoves
  <2>4. PICK r : auCall' = [auCall EXCEPT ![c] = r] /\ r.session \in {session, auStored, AuNoSession}
    BY <1>3, AuCallMoves
  <2>5. \A d \in AuCalls : AuHonest(auCall'[d].session)
    <3> SUFFICES ASSUME NEW d \in AuCalls PROVE AuHonest(auCall'[d].session)
      OBVIOUS
    <3>1. auCall'[d] = IF d = c THEN r ELSE auCall[d]
      BY <2>4 DEF AuShapes
    <3> QED
      BY <1>1, <2>1, <2>4, <3>1 DEF AuSessionsHonest
  <2> QED
    BY <2>3, <2>5 DEF AuSessionsHonest
<1>4. CASE AuLogout
  BY <1>1, <1>4 DEF AuLogout, AuSessionsHonest
<1>5. ASSUME NEW l \in AuLogins,
             \/ \E account \in AuAccounts : AuAskGithub(l, account)
             \/ AuUpsert(l) \/ AuLoginFails(l)
      PROVE  AuSessionsHonest'
  <2>1. auStored' = auStored /\ auCall' = auCall
    BY <1>5 DEF AuAskGithub, AuUpsert, AuLoginFails
  <2> QED
    BY <2>1 DEF AuSessionsHonest
<1>6. CASE AuTick \/ UNCHANGED auVars
  BY <1>6 DEF AuTick, auVars, AuSessionsHonest
<1> QED
  BY <1>2, <1>3, <1>4, <1>5, <1>6 DEF AuNext

-----------------------------------------------------------------------------
\* A user that is known stays known: a row keeps its id.
LEMMA AuKnownStays ==
    ASSUME AuShapes, AuAllKnown, [AuNext]_auVars, NEW user, AuKnown(user)
    PROVE  /\ user.account \in AuAccounts
           /\ user.id # 0
           /\ auUsers'[user.account] = user.id
<1>1. CASE \E l \in AuLogins : AuUpsert(l)
  <2>1. PICK l \in AuLogins : AuUpsert(l)
    BY <1>1
  <2>2. auUsers' = [auUsers EXCEPT ![auLogin[l].user.account] = AuUpsertId(auLogin[l].user.account)]
    BY <2>1 DEF AuUpsert
  <2> QED
    BY <2>2 DEF AuKnown, AuUpsertId, AuShapes
<1>2. CASE ~\E l \in AuLogins : AuUpsert(l)
  <2>1. auUsers' = auUsers
    BY <1>2 DEF AuNext, AuAskGithub, AuLoginFails, AuFinishLogin, AuLogout, AuFetch, AuFirstAnswer,
                AuRefreshAnswer, AuSecondAnswer, AuNetworkError, AuSeen, AuTick, auVars
  <2> QED
    BY <2>1 DEF AuKnown
<1> QED
  BY <1>1, <1>2

\* Every step keeps what is issued, stored and captured known.
LEMMA AuStepKnown == AuShapes /\ AuAllKnown /\ [AuNext]_auVars => AuAllKnown'
<1> SUFFICES ASSUME AuShapes, AuAllKnown, [AuNext]_auVars PROVE AuAllKnown'
  OBVIOUS
<1> DEFINE KnownThen(user) == /\ user.account \in AuAccounts
                              /\ user.id # 0
                              /\ auUsers'[user.account] = user.id
           TokenThen(token) == token.typ # "none" => KnownThen(token.user)
<1>1. \A user : AuKnown(user) => KnownThen(user)
  BY AuKnownStays
<1>2. /\ TokenThen(auStored.refresh) /\ TokenThen(AuNoSession.refresh)
      /\ \A c \in AuCalls : TokenThen(auCall[c].session.refresh)
  BY <1>1 DEF AuAllKnown, AuTokenKnown, AuNoSession, AuNoToken
<1>3. /\ \A p \in auIssued : KnownThen([account |-> p[1], id |-> p[2]])
      /\ \A l \in AuLogins :
           /\ auLogin[l].state # "idle" => auLogin[l].user.account \in AuAccounts
           /\ auLogin[l].state = "stored" => KnownThen(auLogin[l].user)
  BY <1>1 DEF AuAllKnown
<1>4. SUFFICES /\ \A p \in auIssued' : KnownThen([account |-> p[1], id |-> p[2]])
               /\ \A l \in AuLogins :
                    /\ auLogin'[l].state # "idle" => auLogin'[l].user.account \in AuAccounts
                    /\ auLogin'[l].state = "stored" => KnownThen(auLogin'[l].user)
               /\ TokenThen(auStored'.refresh)
               /\ \A c \in AuCalls : TokenThen(auCall'[c].session.refresh)
  BY DEF AuAllKnown, AuTokenKnown, AuKnown
<1> HIDE DEF KnownThen, TokenThen
<1>5. ASSUME NEW l \in AuLogins, NEW account \in AuAccounts, AuAskGithub(l, account)
      PROVE  /\ auIssued' = auIssued /\ auStored' = auStored /\ auCall' = auCall
             /\ \A m \in AuLogins :
                  /\ auLogin'[m].state # "idle" => auLogin'[m].user.account \in AuAccounts
                  /\ auLogin'[m].state = "stored" => KnownThen(auLogin'[m].user)
  BY <1>3, <1>5 DEF AuAskGithub, AuShapes
<1>6. ASSUME NEW l \in AuLogins, AuUpsert(l)
      PROVE  /\ auIssued' = auIssued /\ auStored' = auStored /\ auCall' = auCall
             /\ \A m \in AuLogins :
                  /\ auLogin'[m].state # "idle" => auLogin'[m].user.account \in AuAccounts
                  /\ auLogin'[m].state = "stored" => KnownThen(auLogin'[m].user)
  <2> DEFINE account == auLogin[l].user.account
             row == [account |-> account, id |-> AuUpsertId(account)]
  <2>1. /\ account \in AuAccounts /\ AuUpsertId(account) # 0
        /\ auUsers'[account] = AuUpsertId(account)
    BY <1>3, <1>6 DEF AuUpsert, AuUpsertId, AuShapes
  <2>2. KnownThen(row)
    BY <2>1 DEF KnownThen
  <2>3. \A m \in AuLogins : auLogin'[m] = IF m = l THEN [state |-> "stored", user |-> row] ELSE auLogin[m]
    BY <1>6 DEF AuUpsert, AuShapes
  <2>4. row.account \in AuAccounts
    BY <2>1
  <2> HIDE DEF row
  <2> QED
    BY <1>3, <1>6, <2>2, <2>3, <2>4 DEF AuUpsert
<1>7. ASSUME NEW l \in AuLogins, NEW here \in BOOLEAN, AuFinishLogin(l, here)
      PROVE  /\ auCall' = auCall
             /\ TokenThen(auStored'.refresh)
             /\ \A p \in auIssued' : KnownThen([account |-> p[1], id |-> p[2]])
             /\ \A m \in AuLogins :
                  /\ auLogin'[m].state # "idle" => auLogin'[m].user.account \in AuAccounts
                  /\ auLogin'[m].state = "stored" => KnownThen(auLogin'[m].user)
  <2>1. auLogin[l].user \in AuUser /\ KnownThen(auLogin[l].user)
    BY <1>3, <1>7 DEF AuFinishLogin, AuShapes
  <2>2. TokenThen(auStored'.refresh)
    <3>1. auStored'.refresh \in {auStored.refresh, AuPair(auLogin[l].user).refresh}
      BY <1>7 DEF AuFinishLogin
    <3>2. TokenThen(AuPair(auLogin[l].user).refresh)
      BY <2>1, AuPairShape DEF TokenThen
    <3> QED
      BY <1>2, <3>1, <3>2
  <2>3. [account |-> auLogin[l].user.account, id |-> auLogin[l].user.id] = auLogin[l].user
    BY <2>1 DEF AuUser
  <2>4. \A p \in auIssued' : KnownThen([account |-> p[1], id |-> p[2]])
    <3>1. auIssued' = auIssued \cup {<<auLogin[l].user.account, auLogin[l].user.id>>}
      BY <1>7 DEF AuFinishLogin
    <3> DEFINE new == <<auLogin[l].user.account, auLogin[l].user.id>>
    <3>2. KnownThen([account |-> new[1], id |-> new[2]])
      BY <2>1, <2>3
    <3> HIDE DEF new
    <3> QED
      BY <1>3, <3>1, <3>2 DEF new
  <2>5. \A m \in AuLogins : auLogin'[m] = IF m = l THEN AuIdleLogin ELSE auLogin[m]
    BY <1>7 DEF AuFinishLogin, AuShapes
  <2> QED
    BY <1>3, <1>7, <2>2, <2>4, <2>5, AuNothingShape DEF AuFinishLogin
<1>8. ASSUME NEW l \in AuLogins, AuLoginFails(l)
      PROVE  /\ auIssued' = auIssued /\ auStored' = auStored /\ auCall' = auCall
             /\ \A m \in AuLogins :
                  /\ auLogin'[m].state # "idle" => auLogin'[m].user.account \in AuAccounts
                  /\ auLogin'[m].state = "stored" => KnownThen(auLogin'[m].user)
  <2>1. \A m \in AuLogins : auLogin'[m] = IF m = l THEN AuIdleLogin ELSE auLogin[m]
    BY <1>8 DEF AuLoginFails, AuShapes
  <2> QED
    BY <1>3, <1>8, <2>1, AuNothingShape DEF AuLoginFails
<1>9. ASSUME NEW c \in AuCalls,
             \/ AuFetch(c) \/ AuFirstAnswer(c) \/ AuRefreshAnswer(c)
             \/ AuSecondAnswer(c) \/ AuNetworkError(c) \/ AuSeen(c)
      PROVE  /\ auLogin' = auLogin
             /\ TokenThen(auStored'.refresh)
             /\ \A d \in AuCalls : TokenThen(auCall'[d].session.refresh)
             /\ \A p \in auIssued' : KnownThen([account |-> p[1], id |-> p[2]])
  <2> DEFINE session == auCall[c].session
  <2>1. auLogin' = auLogin
    BY <1>9, AuCallMoves
  <2>2. session.refresh.user \in AuUser
    BY DEF AuShapes, AuSessions, AuTokens, AuCallStates
  <2> DEFINE StoredKnown == TokenThen(auStored'.refresh)
             IssuedKnown == \A p \in auIssued' : KnownThen([account |-> p[1], id |-> p[2]])
  <2>3. ASSUME auStored' \in {auStored, AuNoSession}, auIssued' = auIssued
        PROVE  StoredKnown /\ IssuedKnown
    <3>1. auStored'.refresh \in {auStored.refresh, AuNoSession.refresh}
      BY <2>3
    <3>2. TokenThen(auStored'.refresh)
      BY <1>2, <3>1
    <3> QED
      BY <1>3, <2>3, <3>2
  <2>4. ASSUME session.refresh.typ = "refresh",
               auStored' = AuMerge(session, AuPair(session.refresh.user)),
               auIssued' = auIssued \cup {<<session.refresh.user.account, session.refresh.user.id>>}
        PROVE  StoredKnown /\ IssuedKnown
    <3>1. KnownThen(session.refresh.user)
      BY <1>2, <2>4 DEF TokenThen
    <3>2. auStored'.refresh = AuPair(session.refresh.user).refresh
      BY <2>4 DEF AuMerge
    <3>3. TokenThen(auStored'.refresh)
      BY <2>2, <3>1, <3>2, AuPairShape DEF TokenThen
    <3>4. [account |-> session.refresh.user.account, id |-> session.refresh.user.id] = session.refresh.user
      BY <2>2 DEF AuUser
    <3> DEFINE new == <<session.refresh.user.account, session.refresh.user.id>>
    <3>5. KnownThen([account |-> new[1], id |-> new[2]])
      BY <3>1, <3>4
    <3>6. auIssued' = auIssued \cup {new}
      BY <2>4
    <3> HIDE DEF new
    <3>7. \A p \in auIssued' : KnownThen([account |-> p[1], id |-> p[2]])
      BY <1>3, <3>5, <3>6
    <3> QED
      BY <3>3, <3>7
  <2>5. StoredKnown /\ IssuedKnown
    BY <1>9, <2>3, <2>4, AuCallMoves
  <2>6. PICK r : auCall' = [auCall EXCEPT ![c] = r] /\ r.session \in {session, auStored, AuNoSession}
    BY <1>9, AuCallMoves
  <2>7. \A d \in AuCalls : auCall'[d] = IF d = c THEN r ELSE auCall[d]
    BY <2>6 DEF AuShapes
  <2>8. \A d \in AuCalls : TokenThen(auCall'[d].session.refresh)
    BY <1>2, <2>6, <2>7
  <2> QED
    BY <2>1, <2>5, <2>8
<1>10. CASE AuLogout
  BY <1>2, <1>3, <1>10 DEF AuLogout
<1>11. CASE AuTick \/ UNCHANGED auVars
  BY <1>2, <1>3, <1>11 DEF AuTick, auVars
<1> QED
  BY <1>2, <1>3, <1>5, <1>6, <1>7, <1>8, <1>9, <1>10, <1>11 DEF AuNext

\* Initially nobody is known and nothing can be issued.
LEMMA AuInitKnown == AuInit => AuAllKnown /\ AuSessionsHonest
BY DEF AuInit, AuAllKnown, AuSessionsHonest, AuHonest, AuTokenKnown, AuNoSession, AuNoToken,
       AuIdleLogin, AuIdleCall

-----------------------------------------------------------------------------
\* The variables keep their types, whatever logins and refreshes overlap.
THEOREM AuTypeCorrect == AuSpec => []AuTypeOK
<1>1. AuShapes => AuTypeOK
  BY DEF AuShapes, AuTypeOK, AuCallStates
<1> QED
  BY <1>1, AuInitShapes, AuInitKnown, AuStepShapes, AuStepKnown, PTL DEF AuSpec

\* The session in the browser is one user's (authenticatedFetch merges new
\* tokens into the session it captured), whatever overlaps.
THEOREM AuSessionStaysOneUsers == AuSpec => []AuSessionIsOneUsers
<1>1. AuSessionsHonest => AuSessionIsOneUsers
  BY DEF AuSessionsHonest, AuHonest, AuSessionIsOneUsers
<1> QED
  BY <1>1, AuInitShapes, AuInitKnown, AuStepShapes, AuStepKnown, AuStepHonest, PTL DEF AuSpec

\* Every token of an account names the one row upsertGithubUser keeps for it.
THEOREM AuAccountStaysOneUser == AuSpec => []AuOneUserPerAccount
<1>1. AuAllKnown => AuOneUserPerAccount
  BY DEF AuAllKnown, AuKnown, AuOneUserPerAccount
<1> QED
  BY <1>1, AuInitShapes, AuInitKnown, AuStepShapes, AuStepKnown, PTL DEF AuSpec

-----------------------------------------------------------------------------
(***************************************************************************)
(* The memory of a session, for any number of runs, messages and           *)
(* summaries, and any of the limits: no question falls between two         *)
(* summaries, and no answer is told what came after its question.          *)
(***************************************************************************)

\* CHOOSE finds the highest of a set of places.
LEMMA SmHighestIs ==
    ASSUME NEW n \in Nat, NEW S \in SUBSET (0 .. n), S # {}
    PROVE  SmHighest(S) \in S /\ \A j \in S : j <= SmHighest(S)
BY HighestNatural DEF SmHighest

-----------------------------------------------------------------------------
(***************************************************************************)
(* The inductive invariant.                                                *)
(***************************************************************************)

SmStates == {"none", "asked", "queued", "summarising", "refreshed",
             "answering", "regenerating", "over"}

SmMessages ==
    [role : {"user", "assistant"},
     status : {"running", "completed", "failed", "cancelled"},
     size : Nat, of : Nat]

SmSummaries == [covered : Nat, knows : SUBSET Nat]

SmRunStates ==
    [state : SmStates, user : Nat, answer : Nat, prev : SmSummaries,
     slice : SUBSET Nat, told : SmSummaries, raw : SUBSET Nat]

SmTyped ==
    /\ smMsg \in Seq(SmMessages)
    /\ smSummary \in Seq(SmSummaries)
    /\ smRun \in [SmRuns -> SmRunStates]

SmIsQuestion(i) == i \in SmPlaces /\ smMsg[i].role = "user"

\* Every answer has its question.
SmAnswersHaveQuestions ==
    \A i \in SmPlaces :
        smMsg[i].role = "assistant" => SmIsQuestion(smMsg[i].of)

\* s knows every question up to the message it covers, and nothing else.
SmComplete(s) ==
    /\ s.covered <= Len(smMsg)
    /\ s.knows \subseteq 1 .. s.covered
    /\ \A i \in 1 .. s.covered :
         smMsg[i].role = "user" /\ smMsg[i].size > 0 => i \in s.knows

SmSummariesComplete ==
    \A v \in 1 .. Len(smSummary) : SmComplete(smSummary[v])

\* What is summarised follows the old summary without a gap: every question
\* between the two is in it.
SmSliceFollows(r) ==
    \A j \in smRun[r].slice :
        /\ j \in SmPlaces /\ smRun[r].prev.covered < j
        /\ \A i \in 1 .. j :
             smRun[r].prev.covered < i /\ smMsg[i].role = "user" =>
                i \in smRun[r].slice

\* What a run is told is from before its question.
SmToldIsEarlier(r) ==
    /\ smRun[r].raw \subseteq 1 .. (smRun[r].user - 1)
    /\ smRun[r].told.knows \subseteq 1 .. (smRun[r].user - 1)

SmToldNothingYet(r) == smRun[r].raw = {} /\ smRun[r].told.knows = {}

SmRunIsRight(r) ==
    /\ smRun[r].state # "none" => SmIsQuestion(smRun[r].user)
    /\ smRun[r].answer # 0 => /\ smRun[r].answer \in SmPlaces
                              /\ smMsg[smRun[r].answer].role = "assistant"
    /\ SmComplete(smRun[r].prev)
    /\ smRun[r].state = "summarising" => SmSliceFollows(r)
    /\ IF smRun[r].state = "none" THEN SmToldNothingYet(r)
                                   ELSE SmToldIsEarlier(r)

SmIInv ==
    /\ SmTyped /\ SmAnswersHaveQuestions /\ SmSummariesComplete
    /\ \A r \in SmRuns : SmRunIsRight(r)

-----------------------------------------------------------------------------
(* The messages that are chosen.                                           *)

\* The first n of a set have no gap.
LEMMA SmFirstHasNoGap ==
    ASSUME NEW m \in Nat, NEW S \in SUBSET (1 .. m), NEW n \in Nat,
           NEW j \in SmFirst(S, n), NEW i \in S, i <= j
    PROVE  i \in SmFirst(S, n)
<1> DEFINE Upto(k) == {x \in S : x <= k}
<1>0. S \subseteq Nat /\ i \in Nat /\ j \in Nat
  BY DEF SmFirst
<1>1. IsFiniteSet(S)
  <2>1. IsFiniteSet(1 .. m)
    BY FS_Interval
  <2> QED
    BY <2>1, FS_Subset
<1>2. IsFiniteSet(Upto(j)) /\ IsFiniteSet(Upto(i))
  BY <1>1, FS_Subset
<1>3. Upto(i) \subseteq Upto(j)
  <2> SUFFICES ASSUME NEW x \in S, x <= i PROVE x <= j
    OBVIOUS
  <2>1. x \in Nat
    BY <1>0
  <2> QED
    BY <1>0, <2>1
<1>4. Cardinality(Upto(i)) <= Cardinality(Upto(j))
  <2> HIDE DEF Upto
  <2> QED
    BY <1>2, <1>3, FS_Subset
<1>5. Cardinality(Upto(i)) \in Nat /\ Cardinality(Upto(j)) \in Nat
  BY <1>2, FS_CardinalityType
<1>6. Cardinality(Upto(j)) <= n
  BY DEF SmFirst
<1> QED
  BY <1>4, <1>5, <1>6 DEF SmFirst

\* What fits the budget is chosen from what there is.
LEMMA SmWithinBudgetChooses ==
    ASSUME Len(smMsg) \in Nat, NEW S
    PROVE  SmWithinBudget(S) \subseteq S
<1> DEFINE n == Len(smMsg)
           None == [kept |-> {}, used |-> 0]
           Goes(p, i) ==
               IF i \notin S \/
                     (p.kept # {} /\ p.used + smMsg[i].size > SmBudget)
               THEN p
               ELSE [kept |-> p.kept \cup {i}, used |-> p.used + smMsg[i].size]
           IsPick(f, m) ==
               f = [k \in 0 .. m |-> IF k = 0 THEN None
                                      ELSE Goes(f[k - 1], n + 1 - k)]
           pick == CHOOSE f : IsPick(f, n)
<1>0. n \in Nat
  OBVIOUS
<1>1. \A m \in Nat : \E f : IsPick(f, m)
  <2> DEFINE P == {m \in Nat : \E f : IsPick(f, m)}
  <2> HIDE DEF Goes, None, n
  <2>1. 0 \in P
    <3>1. IsPick([k \in 0 .. 0 |-> None], 0)
      OBVIOUS
    <3> QED
      BY <3>1
  <2>2. ASSUME NEW m \in Nat, m \in P PROVE m + 1 \in P
    <3>1. PICK f : IsPick(f, m)
      BY <2>2
    <3> DEFINE g == [k \in 0 .. m + 1 |->
                       IF k <= m THEN f[k] ELSE Goes(f[m], n + 1 - (m + 1))]
    <3>2. ASSUME NEW k \in 0 .. m + 1
          PROVE  g[k] = IF k = 0 THEN None ELSE Goes(g[k - 1], n + 1 - k)
      <4>1. CASE k = 0
        BY <3>1, <4>1
      <4>2. CASE k \in 1 .. m
        <5>1. g[k] = f[k] /\ g[k - 1] = f[k - 1]
          BY <4>2
        <5>2. f[k] = Goes(f[k - 1], n + 1 - k)
          BY <3>1, <4>2
        <5> QED
          BY <4>2, <5>1, <5>2
      <4>3. CASE k = m + 1
        <5>1. g[k] = Goes(f[m], n + 1 - k) /\ g[k - 1] = f[m] /\ k # 0
          BY <4>3
        <5> QED
          BY <5>1
      <4> QED
        BY <4>1, <4>2, <4>3
    <3>3. IsPick(g, m + 1)
      BY <3>2
    <3> HIDE DEF g, IsPick
    <3> QED
      BY <3>3
  <2> HIDE DEF P
  <2>3. Nat \subseteq P
    BY <2>1, <2>2, InductionOnSet
  <2> QED
    BY <2>3 DEF P
<1>2. IsPick(pick, n)
  <2> HIDE DEF IsPick, n
  <2> QED
    BY <1>0, <1>1
<1>3. SmWithinBudget(S) = pick[n].kept
  BY DEF SmWithinBudget
<1> HIDE DEF pick
<1>4. /\ pick[0] = None
      /\ \A k \in 1 .. n : pick[k] = Goes(pick[k - 1], n + 1 - k)
  <2> HIDE DEF Goes, None, n
  <2> QED
    BY <1>0, <1>2
<1>5. \A k \in 0 .. n : pick[k].kept \subseteq S
  <2> DEFINE P == {k \in Nat : k <= n => pick[k].kept \subseteq S}
  <2> HIDE DEF n
  <2>1. 0 \in P
    BY <1>4
  <2>2. ASSUME NEW k \in Nat, k \in P PROVE k + 1 \in P
    <3> SUFFICES ASSUME k + 1 <= n PROVE pick[k + 1].kept \subseteq S
      OBVIOUS
    <3>1. pick[k].kept \subseteq S
      BY <1>0, <2>2
    <3>2. pick[k + 1] = Goes(pick[k], n + 1 - (k + 1))
      <4> HIDE DEF Goes
      <4> QED
        BY <1>0, <1>4
    <3> QED
      BY <3>1, <3>2
  <2> HIDE DEF P
  <2>3. Nat \subseteq P
    BY <2>1, <2>2, InductionOnSet
  <2> QED
    BY <1>0, <2>3 DEF P
<1> QED
  BY <1>0, <1>3, <1>5

-----------------------------------------------------------------------------
(* What the writes keep.                                                   *)

\* A question keeps its place, its text and its answers.
SmQuestionsKept ==
    /\ Len(smMsg) <= Len(smMsg')
    /\ \A i \in 1 .. Len(smMsg) :
         /\ smMsg'[i].role = smMsg[i].role /\ smMsg'[i].of = smMsg[i].of
         /\ smMsg[i].role = "user" => smMsg'[i].size = smMsg[i].size

\* A summary that was complete is so, whatever is written to the session.
LEMMA SmStaysComplete ==
    ASSUME SmTyped, SmTyped', SmQuestionsKept,
           NEW s \in SmSummaries, SmComplete(s)
    PROVE  SmComplete(s)'
<1>1. Len(smMsg) \in Nat /\ Len(smMsg') \in Nat /\ s.covered \in Nat
  BY DEF SmTyped, SmSummaries
<1>2. s.covered <= Len(smMsg')
  BY <1>1 DEF SmComplete, SmQuestionsKept
<1>3. ASSUME NEW i \in 1 .. s.covered, smMsg'[i].role = "user",
             smMsg'[i].size > 0
      PROVE  i \in s.knows
  <2>1. i \in 1 .. Len(smMsg)
    BY <1>1 DEF SmComplete
  <2> QED
    BY <1>3, <2>1 DEF SmQuestionsKept, SmComplete
<1> QED
  BY <1>2, <1>3 DEF SmComplete

\* Neither the questions nor what follows them is lost by a message more or
\* by the end of an answer.
LEMMA SmWriteKeeps ==
    ASSUME SmIInv, SmTyped', SmQuestionsKept
    PROVE  /\ \A s \in SmSummaries : SmComplete(s) => SmComplete(s)'
           /\ \A i : SmIsQuestion(i) => SmIsQuestion(i)'
           /\ \A r \in SmRuns :
                (/\ smRun'[r].prev = smRun[r].prev
                 /\ smRun'[r].slice = smRun[r].slice
                 /\ SmSliceFollows(r)) => SmSliceFollows(r)'
<1>0. Len(smMsg) \in Nat /\ Len(smMsg') \in Nat
  BY DEF SmIInv, SmTyped
<1>1. \A s \in SmSummaries : SmComplete(s) => SmComplete(s)'
  BY SmStaysComplete DEF SmIInv
<1>2. ASSUME NEW i, SmIsQuestion(i) PROVE SmIsQuestion(i)'
  BY <1>0, <1>2 DEF SmIsQuestion, SmPlaces, SmQuestionsKept
<1>3. ASSUME NEW r \in SmRuns, smRun'[r].prev = smRun[r].prev,
             smRun'[r].slice = smRun[r].slice, SmSliceFollows(r)
      PROVE  SmSliceFollows(r)'
  <2> SUFFICES ASSUME NEW j \in smRun[r].slice
               PROVE  /\ j \in 1 .. Len(smMsg') /\ smRun[r].prev.covered < j
                      /\ \A i \in 1 .. j :
                           smRun[r].prev.covered < i /\ smMsg'[i].role = "user"
                              => i \in smRun[r].slice
    BY <1>3 DEF SmSliceFollows, SmPlaces
  <2>1. j \in 1 .. Len(smMsg) /\ smRun[r].prev.covered < j
    BY <1>3 DEF SmSliceFollows, SmPlaces
  <2>2. j \in 1 .. Len(smMsg')
    BY <1>0, <2>1 DEF SmQuestionsKept
  <2>3. ASSUME NEW i \in 1 .. j, smRun[r].prev.covered < i,
               smMsg'[i].role = "user"
        PROVE  i \in smRun[r].slice
    <3>1. i \in 1 .. Len(smMsg)
      BY <1>0, <2>1
    <3>2. smMsg[i].role = "user"
      BY <2>3, <3>1 DEF SmQuestionsKept
    <3> QED
      BY <1>3, <2>3, <3>2 DEF SmSliceFollows
  <2> QED
    BY <2>1, <2>2, <2>3
<1> QED
  BY <1>1, <1>2, <1>3

\* createMessage keeps the questions there are.
LEMMA SmAppendKeeps ==
    ASSUME SmTyped, NEW role \in {"user", "assistant"},
           NEW status \in {"running", "completed", "failed", "cancelled"},
           NEW size \in Nat, NEW of \in Nat,
           smMsg' = SmWithMessage(role, status, size, of)
    PROVE  /\ smMsg' \in Seq(SmMessages) /\ SmQuestionsKept
           /\ Len(smMsg') = Len(smMsg) + 1
           /\ smMsg'[Len(smMsg) + 1] =
                [role |-> role, status |-> status, size |-> size, of |-> of]
<1> DEFINE m == [role |-> role, status |-> status, size |-> size, of |-> of]
<1>1. m \in SmMessages
  BY DEF SmMessages
<1>2. smMsg' = Append(smMsg, m)
  BY DEF SmWithMessage
<1> HIDE DEF m
<1>3. /\ smMsg' \in Seq(SmMessages) /\ Len(smMsg') = Len(smMsg) + 1
      /\ smMsg'[Len(smMsg) + 1] = m
      /\ \A i \in 1 .. Len(smMsg) : smMsg'[i] = smMsg[i]
  BY <1>1, <1>2 DEF SmTyped
<1>4. Len(smMsg) \in Nat
  BY DEF SmTyped
<1> QED
  BY <1>3, <1>4 DEF SmQuestionsKept, m

\* A step of the run r: what it does not write stays right.
LEMMA SmStepKeeps ==
    ASSUME SmIInv, SmTyped', SmQuestionsKept, NEW r \in SmRuns,
           \A q \in SmRuns \ {r} : smRun'[q] = smRun[q],
           SmAnswersHaveQuestions', SmSummariesComplete', SmRunIsRight(r)'
    PROVE  SmIInv'
<1>1. ASSUME NEW q \in SmRuns \ {r} PROVE SmRunIsRight(q)'
  <2>1. /\ smRun'[q] = smRun[q] /\ SmRunIsRight(q)
        /\ smRun[q].prev \in SmSummaries
    BY DEF SmIInv, SmTyped, SmRunStates
  <2>2. SmComplete(smRun[q].prev) => SmComplete(smRun[q].prev)'
    <3> DEFINE s == smRun[q].prev
    <3>1. \A t \in SmSummaries : SmComplete(t) => SmComplete(t)'
      BY SmWriteKeeps
    <3> QED
      BY <2>1, <3>1 DEF SmComplete
  <2>3. smRun[q].state # "none" => SmIsQuestion(smRun[q].user)'
    BY <2>1, SmWriteKeeps DEF SmRunIsRight, SmIsQuestion
  <2>4. SmSliceFollows(q) => SmSliceFollows(q)'
    BY <2>1, SmWriteKeeps
  <2>5. smRun[q].answer # 0 =>
           /\ smRun[q].answer \in 1 .. Len(smMsg')
           /\ smMsg'[smRun[q].answer].role = "assistant"
    BY <2>1 DEF SmRunIsRight, SmQuestionsKept, SmPlaces, SmIInv, SmTyped
  <2> QED
    BY <2>1, <2>2, <2>3, <2>4, <2>5 DEF SmRunIsRight, SmToldIsEarlier,
       SmToldNothingYet, SmPlaces
<1> QED
  BY <1>1 DEF SmIInv

\* A step that writes no message and no summary.
LEMMA SmReadKeeps ==
    ASSUME SmIInv, NEW r \in SmRuns, NEW x \in SmRunStates,
           smRun' = [smRun EXCEPT ![r] = x], UNCHANGED <<smMsg, smSummary>>,
           SmRunIsRight(r)'
    PROVE  SmIInv'
<1>1. SmTyped'
  BY DEF SmIInv, SmTyped
<1>2. SmQuestionsKept
  BY DEF SmQuestionsKept, SmIInv, SmTyped
<1>3. SmAnswersHaveQuestions' /\ SmSummariesComplete'
  BY DEF SmIInv, SmAnswersHaveQuestions, SmSummariesComplete, SmIsQuestion,
         SmComplete, SmPlaces
<1>4. \A q \in SmRuns \ {r} : smRun'[q] = smRun[q]
  BY DEF SmIInv, SmTyped
<1> QED
  BY <1>1, <1>2, <1>3, <1>4, SmStepKeeps

\* The answers that there are keep their questions.
LEMMA SmAnswersKeep ==
    ASSUME SmIInv, SmTyped', SmQuestionsKept,
           NEW i \in 1 .. Len(smMsg), smMsg'[i].role = "assistant"
    PROVE  SmIsQuestion(smMsg[i].of)'
<1>1. smMsg[i].role = "assistant" /\ smMsg'[i].of = smMsg[i].of
  BY DEF SmQuestionsKept
<1>2. SmIsQuestion(smMsg[i].of)
  BY <1>1 DEF SmIInv, SmAnswersHaveQuestions, SmPlaces
<1>3. Len(smMsg) \in Nat /\ Len(smMsg') \in Nat
  BY DEF SmIInv, SmTyped
<1> QED
  BY <1>1, <1>2, <1>3 DEF SmIsQuestion, SmPlaces, SmQuestionsKept

\* A step of r that writes messages, and no summary.
LEMMA SmWriteStepKeeps ==
    ASSUME SmIInv, NEW r \in SmRuns, NEW x \in SmRunStates,
           smRun' = [smRun EXCEPT ![r] = x], UNCHANGED smSummary,
           smMsg' \in Seq(SmMessages), SmQuestionsKept,
           \A i \in 1 .. Len(smMsg') :
              i > Len(smMsg) /\ smMsg'[i].role = "assistant" =>
                 SmIsQuestion(smMsg[i].of)',
           SmRunIsRight(r)'
    PROVE  SmIInv'
<1>1. SmTyped'
  BY DEF SmIInv, SmTyped
<1>2. Len(smMsg) \in Nat /\ Len(smMsg') \in Nat
  BY DEF SmIInv, SmTyped
<1>3. SmAnswersHaveQuestions'
  <2> SUFFICES ASSUME NEW i \in 1 .. Len(smMsg'), smMsg'[i].role = "assistant"
               PROVE  SmIsQuestion(smMsg[i].of)'
    BY DEF SmAnswersHaveQuestions, SmPlaces
  <2>1. CASE i > Len(smMsg)
    BY <2>1
  <2>2. CASE i \in 1 .. Len(smMsg)
    BY <1>1, <2>2, SmAnswersKeep
  <2> QED
    BY <1>2, <2>1, <2>2
<1>4. SmSummariesComplete'
  <2> SUFFICES ASSUME NEW v \in 1 .. Len(smSummary)
               PROVE  SmComplete(smSummary[v])'
    BY DEF SmSummariesComplete
  <2>1. smSummary[v] \in SmSummaries /\ SmComplete(smSummary[v])
    BY DEF SmIInv, SmTyped, SmSummariesComplete
  <2>2. \A t \in SmSummaries : SmComplete(t) => SmComplete(t)'
    BY <1>1, SmWriteKeeps
  <2> QED
    BY <2>1, <2>2 DEF SmComplete
<1>5. \A q \in SmRuns \ {r} : smRun'[q] = smRun[q]
  BY DEF SmIInv, SmTyped
<1> QED
  BY <1>1, <1>3, <1>4, <1>5, SmStepKeeps

LEMMA SmStartKeeps ==
    ASSUME SmIInv, NEW r \in SmRuns, SmStart(r)
    PROVE  SmIInv'
<1>1. PICK size \in SmSizes :
          smMsg' = SmWithMessage("user", "completed", size, 0)
  BY DEF SmStart
<1>2. size \in Nat
  BY SessionMemoryAssumption
<1>t. SmTyped /\ Len(smMsg) \in Nat
  BY DEF SmIInv, SmTyped
<1>3. /\ smMsg' \in Seq(SmMessages) /\ SmQuestionsKept
      /\ Len(smMsg') = Len(smMsg) + 1
      /\ smMsg'[Len(smMsg) + 1].role = "user"
  <2> DEFINE m == [role |-> "user", status |-> "completed", size |-> size,
                   of |-> 0]
  <2>1. m.role = "user"
    OBVIOUS
  <2>2. /\ smMsg' \in Seq(SmMessages) /\ SmQuestionsKept
        /\ Len(smMsg') = Len(smMsg) + 1 /\ smMsg'[Len(smMsg) + 1] = m
    <3> HIDE DEF m
    <3>1. 0 \in Nat /\ "user" \in {"user", "assistant"}
          /\ "completed" \in {"running", "completed", "failed", "cancelled"}
      OBVIOUS
    <3> QED
      BY <1>1, <1>2, <1>t, <3>1, SmAppendKeeps DEF m
  <2> QED
    BY <2>1, <2>2
<1> DEFINE x == [smRun[r] EXCEPT !.state = "asked", !.user = Len(smMsg) + 1]
<1>4. smRun[r] \in SmRunStates /\ x \in SmRunStates
  <2>1. smRun[r] \in SmRunStates
    BY <1>t DEF SmTyped
  <2>2. "asked" \in SmStates /\ Len(smMsg) + 1 \in Nat
    BY <1>t DEF SmStates
  <2> QED
    BY <2>1, <2>2 DEF SmRunStates
<1>5. /\ smRun' = [smRun EXCEPT ![r] = x] /\ smSummary' = smSummary
      /\ smRun[r].state = "none"
  BY DEF SmStart
<1>6. /\ smRun'[r] = x
      /\ x.state = "asked" /\ x.user = Len(smMsg) + 1
      /\ x.answer = smRun[r].answer /\ x.prev = smRun[r].prev
      /\ x.raw = smRun[r].raw /\ x.told = smRun[r].told
  BY <1>t, <1>4, <1>5 DEF SmTyped, SmRunStates
<1> HIDE DEF x
<1>7. SmTyped'
  BY <1>3, <1>t, <1>4, <1>5 DEF SmTyped
<1>8. SmRunIsRight(r)
  BY DEF SmIInv
<1>9. SmRunIsRight(r)'
  <2>1. SmIsQuestion(smRun[r].user)'
    BY <1>t, <1>3, <1>6 DEF SmIsQuestion, SmPlaces
  <2>2. smRun'[r].answer # 0 => /\ smRun'[r].answer \in 1 .. Len(smMsg')
                                /\ smMsg'[smRun'[r].answer].role = "assistant"
    BY <1>t, <1>3, <1>6, <1>8 DEF SmRunIsRight, SmPlaces, SmQuestionsKept
  <2>3. SmComplete(smRun[r].prev)'
    <3>1. smRun[r].prev \in SmSummaries /\ SmComplete(smRun[r].prev)
      BY <1>4, <1>8 DEF SmRunIsRight, SmRunStates
    <3>2. \A t \in SmSummaries : SmComplete(t) => SmComplete(t)'
      BY <1>3, <1>7, SmWriteKeeps
    <3> QED
      BY <1>6, <3>1, <3>2 DEF SmComplete
  <2>4. SmToldIsEarlier(r)'
    BY <1>5, <1>6, <1>8 DEF SmRunIsRight, SmToldIsEarlier, SmToldNothingYet
  <2> QED
    BY <1>6, <2>1, <2>2, <2>3, <2>4 DEF SmRunIsRight, SmPlaces
<1>10. \A i \in 1 .. Len(smMsg') : i > Len(smMsg) => smMsg'[i].role = "user"
  BY <1>t, <1>3
<1>11. \A i \in 1 .. Len(smMsg') :
          i > Len(smMsg) /\ smMsg'[i].role = "assistant" =>
             SmIsQuestion(smMsg[i].of)'
  BY <1>10
<1> QED
  BY <1>3, <1>4, <1>5, <1>9, <1>11, SmWriteStepKeeps

\* What r has read so far stays right when r writes a message.
LEMMA SmReadingsKept ==
    ASSUME SmIInv, SmTyped', SmQuestionsKept, NEW r \in SmRuns,
           smRun[r].state # "none", smRun'[r].state # "none",
           smRun'[r].state # "summarising",
           smRun'[r].user = smRun[r].user, smRun'[r].prev = smRun[r].prev,
           smRun'[r].raw = smRun[r].raw, smRun'[r].told = smRun[r].told,
           smRun'[r].answer \in 1 .. Len(smMsg'),
           smMsg'[smRun'[r].answer].role = "assistant"
    PROVE  SmRunIsRight(r)'
<1>1. smRun[r].prev \in SmSummaries /\ SmRunIsRight(r)
  BY DEF SmIInv, SmTyped, SmRunStates
<1>2. SmIsQuestion(smRun[r].user)'
  BY <1>1, SmWriteKeeps DEF SmRunIsRight, SmIsQuestion, SmPlaces
<1>3. SmComplete(smRun[r].prev)'
  <2>1. \A t \in SmSummaries : SmComplete(t) => SmComplete(t)'
    BY SmWriteKeeps
  <2> QED
    BY <1>1, <2>1 DEF SmRunIsRight, SmComplete
<1>4. SmToldIsEarlier(r)'
  BY <1>1 DEF SmRunIsRight, SmToldIsEarlier
<1> QED
  BY <1>2, <1>3, <1>4 DEF SmRunIsRight, SmPlaces

\* An answer is created, for a question that there is.
LEMMA SmAnswerIsCreated ==
    ASSUME SmIInv, NEW r \in SmRuns, smRun[r].state # "none",
           NEW st \in SmStates \ {"none", "summarising"},
           smMsg' = SmWithMessage("assistant", "running", 0, smRun[r].user),
           smRun' = [smRun EXCEPT ![r].state = st,
                                  ![r].answer = Len(smMsg) + 1],
           UNCHANGED smSummary
    PROVE  SmIInv'
<1>1. SmTyped /\ Len(smMsg) \in Nat /\ smRun[r] \in SmRunStates
  BY DEF SmIInv, SmTyped
<1>2. smRun[r].user \in Nat
  BY <1>1 DEF SmRunStates
<1> DEFINE m == [role |-> "assistant", status |-> "running", size |-> 0,
                 of |-> smRun[r].user]
           x == [smRun[r] EXCEPT !.state = st, !.answer = Len(smMsg) + 1]
<1>3. /\ smMsg' \in Seq(SmMessages) /\ SmQuestionsKept
      /\ Len(smMsg') = Len(smMsg) + 1 /\ smMsg'[Len(smMsg) + 1] = m
  <2> HIDE DEF m
  <2>1. 0 \in Nat /\ "assistant" \in {"user", "assistant"}
        /\ "running" \in {"running", "completed", "failed", "cancelled"}
    OBVIOUS
  <2> QED
    BY <1>1, <1>2, <2>1, SmAppendKeeps DEF m
<1>4. m.role = "assistant" /\ m.of = smRun[r].user
  OBVIOUS
<1> HIDE DEF m
<1>5. x \in SmRunStates
  <2>1. Len(smMsg) + 1 \in Nat
    BY <1>1
  <2> QED
    BY <1>1, <2>1 DEF SmRunStates
<1>6. smRun' = [smRun EXCEPT ![r] = x]
  OBVIOUS
<1>7. /\ smRun'[r] = x
      /\ x.state = st /\ x.user = smRun[r].user
      /\ x.answer = Len(smMsg) + 1 /\ x.prev = smRun[r].prev
      /\ x.raw = smRun[r].raw /\ x.told = smRun[r].told
  BY <1>1, <1>6 DEF SmTyped, SmRunStates
<1> HIDE DEF x
<1>8. SmTyped'
  BY <1>1, <1>3, <1>5, <1>6 DEF SmTyped
<1>9. SmRunIsRight(r)'
  <2>1. /\ smRun'[r].answer \in 1 .. Len(smMsg')
        /\ smMsg'[smRun'[r].answer].role = "assistant"
    BY <1>1, <1>3, <1>4, <1>7
  <2> QED
    BY <1>3, <1>7, <1>8, <2>1, SmReadingsKept
<1>10. \A i \in 1 .. Len(smMsg') :
          i > Len(smMsg) => smMsg'[i].of = smRun[r].user
  BY <1>1, <1>3, <1>4
<1>11. SmIsQuestion(smRun[r].user)'
  BY <1>7, <1>9 DEF SmRunIsRight, SmIsQuestion, SmPlaces
<1>12. \A i \in 1 .. Len(smMsg') :
          i > Len(smMsg) /\ smMsg'[i].role = "assistant" =>
             SmIsQuestion(smMsg[i].of)'
  BY <1>7, <1>10, <1>11 DEF SmIsQuestion
<1> QED
  BY <1>3, <1>5, <1>6, <1>9, <1>12, SmWriteStepKeeps

\* The answer ends.
LEMMA SmEndsKeeps ==
    ASSUME SmIInv, NEW r \in SmRuns,
           NEW status \in {"completed", "failed", "cancelled"},
           SmEnds(r, status)
    PROVE  SmIInv'
<1>1. SmTyped /\ Len(smMsg) \in Nat /\ smRun[r] \in SmRunStates
  BY DEF SmIInv, SmTyped
<1> DEFINE a == smRun[r].answer
           x == [smRun[r] EXCEPT !.state = "over"]
<1>2. /\ smRun[r].state # "none" /\ a # 0
      /\ smRun' = [smRun EXCEPT ![r] = x] /\ smSummary' = smSummary
  BY DEF SmEnds
<1>3. SmRunIsRight(r) /\ a \in 1 .. Len(smMsg) /\ smMsg[a].role = "assistant"
  BY <1>2 DEF SmIInv, SmRunIsRight, SmPlaces
<1>4. PICK size \in SmSizes :
          smMsg' = [smMsg EXCEPT ![a].status = status, ![a].size = size]
  BY DEF SmEnds
<1>5. size \in Nat
  BY SessionMemoryAssumption
<1> DEFINE m == [smMsg[a] EXCEPT !.status = status, !.size = size]
<1>6. smMsg[a] \in SmMessages /\ m \in SmMessages /\ m.role = "assistant"
  <2>1. smMsg[a] \in SmMessages
    BY <1>1, <1>3 DEF SmTyped
  <2> QED
    BY <1>3, <1>5, <2>1 DEF SmMessages
<1>7. m.of = smMsg[a].of
  BY <1>6 DEF SmMessages
<1>8. smMsg' = [smMsg EXCEPT ![a] = m]
  BY <1>4
<1> HIDE DEF m, a
<1>9. /\ smMsg' \in Seq(SmMessages) /\ Len(smMsg') = Len(smMsg)
      /\ smMsg'[a] = m
      /\ \A i \in 1 .. Len(smMsg) : i # a => smMsg'[i] = smMsg[i]
  BY <1>1, <1>3, <1>6, <1>8 DEF SmTyped
<1>10. SmQuestionsKept
  BY <1>1, <1>3, <1>6, <1>7, <1>9 DEF SmQuestionsKept
<1>11. x \in SmRunStates
  <2>1. "over" \in SmStates
    BY DEF SmStates
  <2> QED
    BY <1>1, <2>1 DEF SmRunStates
<1>12. /\ smRun'[r] = x
       /\ x.state = "over" /\ x.user = smRun[r].user
       /\ x.answer = a /\ x.prev = smRun[r].prev
       /\ x.raw = smRun[r].raw /\ x.told = smRun[r].told
  BY <1>1, <1>2 DEF SmTyped, SmRunStates, a
<1> HIDE DEF x
<1>13. SmTyped'
  BY <1>1, <1>2, <1>9, <1>11 DEF SmTyped
<1>14. SmRunIsRight(r)'
  <2>1. /\ smRun'[r].answer \in 1 .. Len(smMsg')
        /\ smMsg'[smRun'[r].answer].role = "assistant"
    BY <1>3, <1>6, <1>9, <1>12
  <2> QED
    BY <1>2, <1>10, <1>12, <1>13, <2>1, SmReadingsKept
<1>15. \A i \in 1 .. Len(smMsg') : ~ i > Len(smMsg)
  BY <1>1, <1>9
<1> QED
  BY <1>2, <1>9, <1>10, <1>11, <1>14, <1>15, SmWriteStepKeeps

\* The newest summary is complete.
LEMMA SmNewestIsComplete ==
    ASSUME SmIInv
    PROVE  SmNewest \in SmSummaries /\ SmComplete(SmNewest)
<1>1. smSummary \in Seq(SmSummaries) /\ Len(smMsg) \in Nat
  BY DEF SmIInv, SmTyped
<1>2. CASE smSummary = <<>>
  <2>1. SmNewest = [covered |-> 0, knows |-> {}]
    BY <1>2 DEF SmNewest, SmNoSummary
  <2> QED
    BY <1>1, <2>1 DEF SmSummaries, SmComplete
<1>3. CASE smSummary # <<>>
  <2>1. Len(smSummary) \in 1 .. Len(smSummary)
    BY <1>1, <1>3
  <2>2. smSummary[Len(smSummary)] \in SmSummaries
    BY <1>1, <2>1
  <2> QED
    BY <1>3, <2>1, <2>2 DEF SmNewest, SmIInv, SmSummariesComplete
<1> QED
  BY <1>2, <1>3

\* How many messages are summarised is a number.
LEMMA SmPlanIsNumber ==
    ASSUME NEW count \in Nat
    PROVE  SmPlan(count) \in Nat
<1> DEFINE keep == IF SmKeep > 1 THEN SmKeep ELSE 1
<1>1. keep \in Nat
  BY SessionMemoryAssumption
<1> HIDE DEF keep
<1>2. SmPlan(count) = IF SmTrigger = 0 \/ count <= SmTrigger \/ count <= keep
                     THEN 0 ELSE count - keep
  BY DEF SmPlan, keep
<1> QED
  BY <1>1, <1>2

\* The slice that is read follows the newest summary.
LEMMA SmSliceHasNoGap ==
    ASSUME SmIInv, NEW user \in Nat,
           NEW j \in SmSlice(SmContextBefore(user, SmNewest.covered))
    PROVE  /\ j \in SmPlaces /\ SmNewest.covered < j
           /\ \A i \in 1 .. j :
                SmNewest.covered < i /\ smMsg[i].role = "user" =>
                   i \in SmSlice(SmContextBefore(user, SmNewest.covered))
<1> DEFINE S == SmContextBefore(user, SmNewest.covered)
           n == SmPlan(Cardinality(S))
<1>1. Len(smMsg) \in Nat /\ S \in SUBSET (1 .. Len(smMsg))
  BY DEF SmIInv, SmTyped, SmContextBefore, SmPlaces
<1>2. n \in Nat
  <2> HIDE DEF S
  <2>1. IsFiniteSet(1 .. Len(smMsg))
    BY <1>1, FS_Interval
  <2>2. IsFiniteSet(S)
    BY <1>1, <2>1, FS_Subset
  <2> QED
    BY <2>2, FS_CardinalityType, SmPlanIsNumber
<1>3. SmSlice(S) = SmFirst(S, n)
  BY DEF SmSlice
<1>4. SmNewest.covered \in Nat
  BY SmNewestIsComplete DEF SmSummaries
<1>5. j \in SmFirst(S, n) /\ j \in S
  BY <1>3 DEF SmFirst
<1>6. j \in 1 .. Len(smMsg) /\ j < user /\ SmNewest.covered < j
  BY <1>1, <1>4, <1>5 DEF SmContextBefore, SmPlaces
<1>7. ASSUME NEW i \in 1 .. j, SmNewest.covered < i, smMsg[i].role = "user"
      PROVE  i \in SmSlice(S)
  <2>1. i \in S
    BY <1>1, <1>4, <1>6, <1>7 DEF SmContextBefore, SmPlaces
  <2>2. i <= j
    BY <1>1, <1>6
  <2> HIDE DEF S, n
  <2> QED
    BY <1>1, <1>2, <1>3, <1>5, <2>1, <2>2, SmFirstHasNoGap
<1> QED
  BY <1>6, <1>7 DEF SmPlaces

LEMMA SmRefreshKeeps ==
    ASSUME SmIInv, NEW r \in SmRuns, SmRefresh(r)
    PROVE  SmIInv'
<1> DEFINE slice == SmSlice(SmContextBefore(smRun[r].user, SmNewest.covered))
           y == [smRun[r] EXCEPT !.state = "summarising", !.prev = SmNewest,
                                 !.slice = slice]
           z == [smRun[r] EXCEPT !.state = "refreshed"]
<1>1. /\ smRun[r] \in SmRunStates /\ SmRunIsRight(r) /\ SmTyped
      /\ smRun[r].state = "queued" /\ smRun[r].user \in Nat
  BY DEF SmIInv, SmTyped, SmRefresh, SmRunStates
<1>2. /\ \/ smRun' = [smRun EXCEPT ![r] = y]
         \/ smRun' = [smRun EXCEPT ![r] = z]
      /\ UNCHANGED <<smMsg, smSummary>>
  BY DEF SmRefresh
<1>3. "summarising" \in SmStates /\ "refreshed" \in SmStates
  BY DEF SmStates
<1> HIDE DEF slice
<1>4. CASE smRun' = [smRun EXCEPT ![r] = y]
  <2>1. slice \subseteq Nat
    BY <1>1, SmSliceHasNoGap DEF slice, SmPlaces
  <2>2. SmNewest \in SmSummaries /\ SmComplete(SmNewest)
    BY SmNewestIsComplete
  <2>3. y \in SmRunStates
    BY <1>1, <1>3, <2>1, <2>2 DEF SmRunStates
  <2>4. /\ smRun'[r] = y /\ y.state = "summarising"
        /\ y.user = smRun[r].user /\ y.answer = smRun[r].answer
        /\ y.prev = SmNewest /\ y.slice = slice
        /\ y.raw = smRun[r].raw /\ y.told = smRun[r].told
    BY <1>1, <1>4 DEF SmTyped, SmRunStates
  <2> HIDE DEF y
  <2>5. SmSliceFollows(r)'
    <3> SUFFICES ASSUME NEW j \in slice
                 PROVE  /\ j \in 1 .. Len(smMsg) /\ SmNewest.covered < j
                        /\ \A i \in 1 .. j :
                             SmNewest.covered < i /\ smMsg[i].role = "user" =>
                                i \in slice
      BY <1>2, <2>4 DEF SmSliceFollows, SmPlaces
    <3> QED
      BY <1>1, SmSliceHasNoGap DEF slice, SmPlaces
  <2>6. SmComplete(smRun[r].prev)'
    BY <1>2, <2>2, <2>4 DEF SmComplete
  <2>7. SmRunIsRight(r)'
    BY <1>1, <1>2, <2>4, <2>5, <2>6 DEF SmRunIsRight, SmIsQuestion, SmPlaces,
       SmToldIsEarlier
  <2> QED
    BY <1>2, <1>4, <2>3, <2>7, SmReadKeeps
<1>5. CASE smRun' = [smRun EXCEPT ![r] = z]
  <2>1. z \in SmRunStates
    BY <1>1, <1>3 DEF SmRunStates
  <2>2. /\ smRun'[r] = z /\ z.state = "refreshed"
        /\ z.user = smRun[r].user /\ z.answer = smRun[r].answer
        /\ z.prev = smRun[r].prev
        /\ z.raw = smRun[r].raw /\ z.told = smRun[r].told
    BY <1>1, <1>5 DEF SmTyped, SmRunStates
  <2> HIDE DEF z
  <2>3. SmRunIsRight(r)'
    BY <1>1, <1>2, <2>2 DEF SmRunIsRight, SmIsQuestion, SmPlaces, SmComplete,
       SmToldIsEarlier
  <2> QED
    BY <1>2, <1>5, <2>1, <2>3, SmReadKeeps
<1> QED
  BY <1>2, <1>4, <1>5

LEMMA SmSummaryFailsKeeps ==
    ASSUME SmIInv, NEW r \in SmRuns, SmSummaryFails(r)
    PROVE  SmIInv'
<1> DEFINE z == [smRun[r] EXCEPT !.state = "refreshed"]
<1>1. /\ smRun[r] \in SmRunStates /\ SmRunIsRight(r) /\ SmTyped
      /\ smRun[r].state = "summarising"
      /\ smRun' = [smRun EXCEPT ![r] = z] /\ UNCHANGED <<smMsg, smSummary>>
  BY DEF SmIInv, SmTyped, SmSummaryFails
<1>2. "refreshed" \in SmStates
  BY DEF SmStates
<1>3. z \in SmRunStates
  BY <1>1, <1>2 DEF SmRunStates
<1>4. /\ smRun'[r] = z /\ z.state = "refreshed"
      /\ z.user = smRun[r].user /\ z.answer = smRun[r].answer
      /\ z.prev = smRun[r].prev
      /\ z.raw = smRun[r].raw /\ z.told = smRun[r].told
  BY <1>1 DEF SmTyped, SmRunStates
<1> HIDE DEF z
<1>5. SmRunIsRight(r)'
  BY <1>1, <1>4 DEF SmRunIsRight, SmIsQuestion, SmPlaces, SmComplete,
     SmToldIsEarlier
<1> QED
  BY <1>1, <1>3, <1>5, SmReadKeeps

\* upsertSessionSummary: a summary is extended by what follows it.
LEMMA SmMergedIsComplete ==
    ASSUME SmIInv, NEW r \in SmRuns, SmSummarised(r)
    PROVE  /\ SmMerged(smRun[r].prev, smRun[r].slice) \in SmSummaries
           /\ SmComplete(SmMerged(smRun[r].prev, smRun[r].slice))
<1> DEFINE prev == smRun[r].prev
           slice == smRun[r].slice
           told == {i \in slice : SmSpeaks(i)}
           c == SmHighest(told)
           s == SmMerged(prev, slice)
<1>1. /\ smRun[r] \in SmRunStates /\ SmRunIsRight(r) /\ Len(smMsg) \in Nat
      /\ smRun[r].state = "summarising" /\ told # {}
  BY DEF SmIInv, SmTyped, SmSummarised
<1>2. /\ prev.covered \in Nat /\ prev.knows \in SUBSET Nat
      /\ SmComplete(prev) /\ SmSliceFollows(r)
  BY <1>1 DEF SmRunStates, SmSummaries, SmRunIsRight
<1>3. told \in SUBSET (1 .. Len(smMsg))
  BY <1>2 DEF SmSliceFollows, SmPlaces
<1>4. c \in told /\ \A j \in told : j <= c
  <2>1. told \in SUBSET (0 .. Len(smMsg))
    BY <1>1, <1>3
  <2> HIDE DEF told
  <2> QED
    BY <1>1, <2>1, SmHighestIs
<1>5. s = [covered |-> c, knows |-> prev.knows \cup told]
  BY DEF SmMerged
<1>6. /\ c \in 1 .. Len(smMsg) /\ prev.covered < c
      /\ \A i \in 1 .. c :
           prev.covered < i /\ smMsg[i].role = "user" => i \in slice
  BY <1>2, <1>3, <1>4 DEF SmSliceFollows
<1>7. s.covered = c /\ s.knows = prev.knows \cup told /\ s \in SmSummaries
  <2>1. prev.knows \cup told \in SUBSET Nat /\ c \in Nat
    BY <1>1, <1>2, <1>3, <1>6
  <2> HIDE DEF c, s, told, prev
  <2> QED
    BY <1>5, <2>1 DEF SmSummaries
<1>8. s.covered <= Len(smMsg)
  BY <1>1, <1>6, <1>7
<1>9. s.knows \subseteq 1 .. s.covered
  <2>1. told \subseteq 1 .. c
    BY <1>1, <1>3, <1>4, <1>6
  <2>2. prev.knows \subseteq 1 .. prev.covered
    BY <1>2 DEF SmComplete
  <2>3. 1 .. prev.covered \subseteq 1 .. c
    <3> HIDE DEF prev, c
    <3> QED
      BY <1>1, <1>2, <1>6
  <2> QED
    BY <1>7, <2>1, <2>2, <2>3
<1>10. ASSUME NEW i \in 1 .. c, smMsg[i].role = "user", smMsg[i].size > 0
       PROVE  i \in s.knows
  <2>1. CASE i <= prev.covered
    <3>1. i \in 1 .. prev.covered
      BY <1>2, <1>6, <2>1
    <3> QED
      BY <1>2, <1>7, <1>10, <3>1 DEF SmComplete
  <2>2. CASE prev.covered < i
    <3>1. i \in slice /\ SmSpeaks(i)
      BY <1>6, <1>10, <2>2 DEF SmSpeaks
    <3> QED
      BY <1>7, <3>1
  <2> QED
    BY <1>1, <1>2, <1>6, <2>1, <2>2
<1> HIDE DEF s, c
<1> QED
  BY <1>7, <1>8, <1>9, <1>10 DEF SmComplete, s

LEMMA SmSummarisedKeeps ==
    ASSUME SmIInv, NEW r \in SmRuns, SmSummarised(r)
    PROVE  SmIInv'
<1> DEFINE s == SmMerged(smRun[r].prev, smRun[r].slice)
           z == [smRun[r] EXCEPT !.state = "refreshed"]
<1>1. /\ smRun[r] \in SmRunStates /\ SmRunIsRight(r) /\ SmTyped
      /\ smRun[r].state = "summarising"
      /\ smRun' = [smRun EXCEPT ![r] = z] /\ UNCHANGED smMsg
      /\ smSummary' = Append(smSummary, s)
  BY DEF SmIInv, SmTyped, SmSummarised
<1>2. "refreshed" \in SmStates
  BY DEF SmStates
<1>3. z \in SmRunStates
  BY <1>1, <1>2 DEF SmRunStates
<1>4. /\ smRun'[r] = z /\ z.state = "refreshed"
      /\ z.user = smRun[r].user /\ z.answer = smRun[r].answer
      /\ z.prev = smRun[r].prev
      /\ z.raw = smRun[r].raw /\ z.told = smRun[r].told
  BY <1>1 DEF SmTyped, SmRunStates
<1>5. s \in SmSummaries /\ SmComplete(s)
  BY SmMergedIsComplete
<1> HIDE DEF z, s
<1>6. /\ smSummary' \in Seq(SmSummaries)
      /\ Len(smSummary') = Len(smSummary) + 1
      /\ smSummary'[Len(smSummary) + 1] = s /\ Len(smSummary) \in Nat
      /\ \A v \in 1 .. Len(smSummary) : smSummary'[v] = smSummary[v]
  BY <1>1, <1>5 DEF SmTyped
<1>7. SmTyped'
  BY <1>1, <1>3, <1>6 DEF SmTyped
<1>8. SmQuestionsKept
  BY <1>1 DEF SmQuestionsKept, SmTyped
<1>9. SmRunIsRight(r)'
  BY <1>1, <1>4 DEF SmRunIsRight, SmIsQuestion, SmPlaces, SmComplete,
     SmToldIsEarlier
<1>10. SmAnswersHaveQuestions'
  BY <1>1 DEF SmIInv, SmAnswersHaveQuestions, SmIsQuestion, SmPlaces
<1>11. SmSummariesComplete'
  <2> SUFFICES ASSUME NEW v \in 1 .. Len(smSummary')
               PROVE  SmComplete(smSummary[v])'
    BY DEF SmSummariesComplete
  <2>1. CASE v \in 1 .. Len(smSummary)
    BY <1>1, <1>6, <2>1 DEF SmIInv, SmSummariesComplete, SmComplete
  <2>2. CASE v = Len(smSummary) + 1
    BY <1>1, <1>5, <1>6, <2>2 DEF SmComplete
  <2> QED
    BY <1>6, <2>1, <2>2
<1>12. \A q \in SmRuns \ {r} : smRun'[q] = smRun[q]
  BY <1>1 DEF SmTyped
<1> QED
  BY <1>7, <1>8, <1>9, <1>10, <1>11, <1>12, SmStepKeeps

\* getSessionSummaryBeforeMessage finds a summary that ends before the
\* question, or none.
LEMMA SmSummaryIsEarlier ==
    ASSUME SmIInv, NEW user \in Nat, user > 0
    PROVE  /\ SmSummaryBefore(user) \in SmSummaries
           /\ SmSummaryBefore(user).covered < user
           /\ SmSummaryBefore(user).knows \subseteq 1 .. (user - 1)
<1> DEFINE V == DOMAIN smSummary
           fitting == {v \in V : smSummary[v].covered < user}
           best == {v \in fitting :
                      \A w \in fitting :
                         smSummary[w].covered <= smSummary[v].covered}
           covers == {smSummary[v].covered : v \in fitting}
<1>1. /\ V = 1 .. Len(smSummary) /\ Len(smSummary) \in Nat
      /\ \A v \in V : smSummary[v] \in SmSummaries /\ SmComplete(smSummary[v])
  BY DEF SmIInv, SmTyped, SmSummariesComplete
<1>2. CASE fitting = {}
  <2>1. SmSummaryBefore(user) = SmNoSummary
    BY <1>2 DEF SmSummaryBefore
  <2> QED
    BY <2>1 DEF SmNoSummary, SmSummaries
<1>3. CASE fitting # {}
  <2>1. covers \in SUBSET (0 .. user) /\ covers # {}
    <3>1. \A v \in fitting : smSummary[v].covered \in 0 .. user
      BY <1>1 DEF SmSummaries
    <3> QED
      BY <1>3, <3>1
  <2>2. PICK c \in covers : \A d \in covers : d <= c
    <3> HIDE DEF covers
    <3> QED
      BY <2>1, HighestNatural
  <2>3. best # {}
    BY <2>2
  <2>4. best \in SUBSET (0 .. Len(smSummary))
    BY <1>1
  <2>5. SmHighest(best) \in best
    <3> HIDE DEF best
    <3> QED
      BY <1>1, <2>3, <2>4, SmHighestIs
  <2>6. PICK v \in fitting : SmSummaryBefore(user) = smSummary[v]
    <3>1. SmSummaryBefore(user) = smSummary[SmHighest(best)]
      BY <1>3 DEF SmSummaryBefore
    <3> QED
      BY <2>5, <3>1
  <2>7. smSummary[v] \in SmSummaries /\ SmComplete(smSummary[v])
        /\ smSummary[v].covered < user
    BY <1>1
  <2> QED
    BY <2>6, <2>7 DEF SmComplete, SmSummaries
<1> QED
  BY <1>2, <1>3

\* What the model is told for a question is from before it.
LEMMA SmToldKeeps ==
    ASSUME SmIInv, NEW r \in SmRuns, NEW user, SmIsQuestion(user),
           NEW st \in SmStates \ {"none", "summarising"},
           SmTold(r, user, st), UNCHANGED <<smMsg, smSummary>>
    PROVE  SmIInv'
<1> DEFINE summary == SmSummaryBefore(user)
           raw == SmRaw(user, summary)
           x == [smRun[r] EXCEPT !.state = st, !.user = user,
                                 !.told = summary, !.raw = raw]
<1>1. /\ SmTyped /\ smRun[r] \in SmRunStates /\ SmRunIsRight(r)
      /\ Len(smMsg) \in Nat /\ user \in 1 .. Len(smMsg)
  BY DEF SmIInv, SmTyped, SmIsQuestion, SmPlaces
<1>2. user \in Nat /\ user > 0
  BY <1>1
<1>3. /\ summary \in SmSummaries /\ summary.covered < user
      /\ summary.knows \subseteq 1 .. (user - 1)
  BY <1>2, SmSummaryIsEarlier
<1> HIDE DEF summary
<1>4. raw \subseteq 1 .. (user - 1)
  <2>1. raw \subseteq SmRecentBefore(user, summary.covered)
    <3>1. raw = {} \/
            raw = SmWithinBudget({i \in SmRecentBefore(user, summary.covered) :
                                    SmSpeaks(i)})
      BY DEF SmRaw
    <3> QED
      BY <1>1, <3>1, SmWithinBudgetChooses
  <2>2. SmRecentBefore(user, summary.covered) \subseteq 1 .. (user - 1)
    BY <1>1, <1>2 DEF SmRecentBefore, SmLast, SmPlaces
  <2> QED
    BY <2>1, <2>2
<1> HIDE DEF raw
<1>5. smRun' = [smRun EXCEPT ![r] = x]
  BY DEF SmTold, summary, raw
<1>6. raw \in SUBSET Nat
  BY <1>2, <1>4
<1>7. x \in SmRunStates
  BY <1>1, <1>2, <1>3, <1>6 DEF SmRunStates
<1>8. /\ smRun'[r] = x /\ x.state = st /\ x.user = user
      /\ x.answer = smRun[r].answer /\ x.prev = smRun[r].prev
      /\ x.raw = raw /\ x.told = summary
  BY <1>1, <1>5 DEF SmTyped, SmRunStates
<1> HIDE DEF x
<1>9. SmRunIsRight(r)'
  BY <1>1, <1>3, <1>4, <1>8 DEF SmRunIsRight, SmIsQuestion, SmPlaces,
     SmComplete, SmToldIsEarlier
<1> QED
  BY <1>5, <1>7, <1>9, SmReadKeeps

-----------------------------------------------------------------------------
LEMMA SmInitially == SmInit => SmIInv
<1> SUFFICES ASSUME SmInit PROVE SmIInv
  OBVIOUS
<1>1. /\ smMsg = <<>> /\ smSummary = <<>> /\ Len(smMsg) = 0
      /\ Len(smSummary) = 0
  BY DEF SmInit
<1> DEFINE none == [covered |-> 0, knows |-> {}]
<1>2. SmNoSummary = none /\ none \in SmSummaries
  BY DEF SmNoSummary, SmSummaries
<1>3. none.covered = 0 /\ none.knows = {}
  OBVIOUS
<1> HIDE DEF none
<1>4. SmNoRun \in SmRunStates
  BY <1>2 DEF SmNoRun, SmRunStates, SmStates
<1>5. \A r \in SmRuns :
        /\ smRun[r].state = "none" /\ smRun[r].answer = 0
        /\ smRun[r].prev = none /\ smRun[r].told = none /\ smRun[r].raw = {}
  BY <1>2 DEF SmInit, SmNoRun
<1>6. SmTyped
  BY <1>1, <1>4 DEF SmInit, SmTyped
<1>7. SmAnswersHaveQuestions /\ SmSummariesComplete
  BY <1>1 DEF SmAnswersHaveQuestions, SmSummariesComplete, SmPlaces
<1>8. SmComplete(none)
  BY <1>1, <1>3 DEF SmComplete
<1>9. \A r \in SmRuns : SmRunIsRight(r)
  BY <1>3, <1>5, <1>8 DEF SmRunIsRight, SmToldNothingYet
<1> QED
  BY <1>6, <1>7, <1>9 DEF SmIInv

LEMMA SmIInvStep == SmIInv /\ [SmNext]_smVars => SmIInv'
<1> SUFFICES ASSUME SmIInv, [SmNext]_smVars PROVE SmIInv'
  OBVIOUS
<1>u. CASE UNCHANGED smVars
  BY <1>u DEF smVars, SmIInv, SmTyped, SmAnswersHaveQuestions,
     SmSummariesComplete, SmRunIsRight, SmIsQuestion, SmPlaces, SmComplete,
     SmSliceFollows, SmToldIsEarlier, SmToldNothingYet
<1>1. ASSUME NEW r \in SmRuns, SmStart(r) PROVE SmIInv'
  BY <1>1, SmStartKeeps
<1>2. ASSUME NEW r \in SmRuns, SmQueue(r) PROVE SmIInv'
  <2>1. /\ smRun[r].state # "none" /\ smSummary' = smSummary
        /\ smMsg' = SmWithMessage("assistant", "running", 0, smRun[r].user)
        /\ smRun' = [smRun EXCEPT ![r].state = "queued",
                                  ![r].answer = Len(smMsg) + 1]
    BY <1>2 DEF SmQueue
  <2>2. "queued" \in SmStates \ {"none", "summarising"}
    BY DEF SmStates
  <2> QED
    BY <2>1, <2>2, SmAnswerIsCreated
<1>3. ASSUME NEW r \in SmRuns, SmRefresh(r) PROVE SmIInv'
  BY <1>3, SmRefreshKeeps
<1>4. ASSUME NEW r \in SmRuns, SmSummarised(r) PROVE SmIInv'
  BY <1>4, SmSummarisedKeeps
<1>5. ASSUME NEW r \in SmRuns, SmSummaryFails(r) PROVE SmIInv'
  BY <1>5, SmSummaryFailsKeeps
<1>6. ASSUME NEW r \in SmRuns, SmAnswer(r) PROVE SmIInv'
  <2>1. /\ smRun[r].state = "refreshed" /\ UNCHANGED <<smMsg, smSummary>>
        /\ SmTold(r, smRun[r].user, "answering")
    BY <1>6 DEF SmAnswer
  <2>2. SmIsQuestion(smRun[r].user)
    BY <2>1 DEF SmIInv, SmRunIsRight
  <2>3. "answering" \in SmStates \ {"none", "summarising"}
    BY DEF SmStates
  <2> QED
    BY <2>1, <2>2, <2>3, SmToldKeeps
<1>7. ASSUME NEW r \in SmRuns, SmRegenerate(r) PROVE SmIInv'
  <2>1. PICK i \in SmPlaces :
            /\ smMsg[i].role = "assistant"
            /\ SmTold(r, SmQuestionOf(i), "regenerating")
            /\ UNCHANGED <<smMsg, smSummary>>
    BY <1>7 DEF SmRegenerate
  <2>2. SmIsQuestion(SmQuestionOf(i))
    BY <2>1 DEF SmIInv, SmAnswersHaveQuestions, SmQuestionOf
  <2>3. "regenerating" \in SmStates \ {"none", "summarising"}
    BY DEF SmStates
  <2> QED
    BY <2>1, <2>2, <2>3, SmToldKeeps
<1>8. ASSUME NEW r \in SmRuns, SmRegenerated(r) PROVE SmIInv'
  <2>1. /\ smRun[r].state # "none" /\ smSummary' = smSummary
        /\ smMsg' = SmWithMessage("assistant", "running", 0, smRun[r].user)
        /\ smRun' = [smRun EXCEPT ![r].state = "answering",
                                  ![r].answer = Len(smMsg) + 1]
    BY <1>8 DEF SmRegenerated
  <2>2. "answering" \in SmStates \ {"none", "summarising"}
    BY DEF SmStates
  <2> QED
    BY <2>1, <2>2, SmAnswerIsCreated
<1>9. ASSUME NEW r \in SmRuns,
             NEW status \in {"completed", "failed", "cancelled"},
             SmEnds(r, status)
      PROVE  SmIInv'
  BY <1>9, SmEndsKeeps
<1> QED
  BY <1>u, <1>1, <1>2, <1>3, <1>4, <1>5, <1>6, <1>7, <1>8, <1>9 DEF SmNext

LEMMA SmInvariant == SmSpec => []SmIInv
BY SmInitially, SmIInvStep, PTL DEF SmSpec

\* The messages, the summaries and the runs keep their types.
THEOREM SmTypeCorrect == SmSpec => []SmTypeOK
<1>1. SmIInv => SmTypeOK
  BY DEF SmIInv, SmTyped, SmTypeOK, SmMessages, SmSummaries, SmRunStates,
         SmStates
<1> QED
  BY <1>1, SmInvariant, PTL

(***************************************************************************)
(* A summary knows every question up to the message it covers and nothing  *)
(* after it, whichever runs extend the chain at the same time, and also    *)
(* when two of them have read the same summary.                            *)
(***************************************************************************)
THEOREM SmChainIsComplete == SmSpec => []SmNoQuestionForgotten
<1>1. SmIInv => SmNoQuestionForgotten
  <2> SUFFICES ASSUME SmIInv, NEW v \in DOMAIN smSummary
               PROVE  /\ smSummary[v].knows \subseteq 1 .. smSummary[v].covered
                      /\ \A i \in 1 .. smSummary[v].covered :
                           /\ i \in SmPlaces
                           /\ smMsg[i].role = "user" /\ smMsg[i].size > 0 =>
                                 i \in smSummary[v].knows
    BY DEF SmNoQuestionForgotten
  <2>1. /\ SmComplete(smSummary[v]) /\ smSummary[v].covered \in Nat
        /\ Len(smMsg) \in Nat
    <3>1. /\ smSummary \in Seq(SmSummaries) /\ Len(smMsg) \in Nat
          /\ \A w \in 1 .. Len(smSummary) : SmComplete(smSummary[w])
      BY DEF SmIInv, SmTyped, SmSummariesComplete
    <3>2. v \in 1 .. Len(smSummary) /\ smSummary[v] \in SmSummaries
      BY <3>1
    <3> QED
      BY <3>1, <3>2 DEF SmSummaries
  <2> QED
    BY <2>1 DEF SmComplete, SmPlaces
<1> QED
  BY <1>1, SmInvariant, PTL

(***************************************************************************)
(* What a run is told, in a summary or in full, is from before its         *)
(* question, also when the answer is regenerated long after.               *)
(***************************************************************************)
THEOREM SmToldIsFromBefore == SmSpec => []SmNothingFromLater
<1>1. SmIInv => SmNothingFromLater
  <2> SUFFICES ASSUME SmIInv, NEW r \in SmRuns, smRun[r].state # "none",
                      NEW i \in smRun[r].raw \cup smRun[r].told.knows
               PROVE  i < smRun[r].user
    BY DEF SmNothingFromLater
  <2>1. SmToldIsEarlier(r) /\ smRun[r].user \in Nat
    BY DEF SmIInv, SmTyped, SmRunStates, SmRunIsRight
  <2>2. i \in 1 .. (smRun[r].user - 1)
    BY <2>1 DEF SmToldIsEarlier
  <2> QED
    BY <2>1, <2>2
<1> QED
  BY <1>1, SmInvariant, PTL

-----------------------------------------------------------------------------
(***************************************************************************)
(* The tools and their executor, for any batch, workers and polls: what the *)
(* model is told of a batch is what was decided of every item.              *)
(***************************************************************************)

\* The tools that are no batch.
TjOthers ==
    {"generate_image", "edit_image", "generate_video", "web_search", "knowledge_search", "calculator",
     "current_time", "generate_document"}

TjOpen == {"submit", "poll", "pause"}
TjClosed == {"success", "failed"}

\* The full shape of the variables: as many polls as items.
TjShapes ==
    /\ \E n \in 1..TjMaxItems :
         /\ tjItems \in [1..n -> {"waiting"} \cup TjOpen \cup TjClosed]
         /\ tjPolls \in [1..n -> 0..TjMaxPolls]
         /\ tjNext \in 1..(n + 1)
    /\ tjWorker \in [TjWorkers -> 0..(TjMaxItems + 2)]
    /\ tjResult \in {"none", "refused", "done", "partial_failed", "failed", "thrown"}
    /\ tjTool = "idle" => tjNext = 1 /\ tjResult = "none" /\ \A w \in TjWorkers : tjWorker[w] = TjReturned

\* Who works on an item took it, alone, and has not decided it.
TjItemsAreTaken ==
    \A w \in TjWorkers : tjWorker[w] \in DOMAIN tjItems =>
        /\ tjWorker[w] < tjNext
        /\ tjItems[tjWorker[w]] \in TjOpen
        /\ \A v \in TjWorkers : v # w => tjWorker[v] # tjWorker[w]

\* An item of a batch that was taken is decided, or somebody works on it,
\* unless a worker has rejected; and the first worker returns when no item is
\* left to take.
TjNoneIsDropped ==
    tjTool = "batch" =>
        /\ \A i \in DOMAIN tjItems : i < tjNext =>
             \/ tjItems[i] \in TjClosed
             \/ \E w \in TjWorkers : tjWorker[w] \in {i, TjRejected}
        /\ tjWorker[1] = TjReturned => tjAborted \/ tjNext \notin DOMAIN tjItems

\* The report is made when everybody has returned, and nothing moves after it.
TjReportStands ==
    tjTool = "batch" /\ tjResult \in {"done", "partial_failed", "failed"} =>
        /\ \A w \in TjWorkers : tjWorker[w] = TjReturned
        /\ tjResult = TjBatchStatus
        /\ tjTold = TjTell

TjIInv == TjShapes /\ TjItemsAreTaken /\ TjNoneIsDropped /\ TjReportStands

\* A step of a worker that has an item.
TjWorks(w) == TjSubmit(w) \/ TjPollImage(w) \/ TjPollVideo(w) \/ TjWakeImage(w) \/ TjWakeVideo(w)

\* Such a step takes the item on or decides it, and leaves the pool alone.
LEMMA TjWorkerMoves ==
    ASSUME NEW w \in TjWorkers, TjWorks(w)
    PROVE  /\ tjWorker[w] \in DOMAIN tjItems
           /\ UNCHANGED <<tjTool, tjNext, tjAborted, tjCancelled>>
           /\ \/ tjPolls' = tjPolls
              \/ tjPolls[tjWorker[w]] # TjMaxPolls /\ tjPolls' = TjCounted(tjWorker[w])
           /\ \/ \E state \in TjOpen : TjMoves(w, state)
              \/ \E outcome \in TjClosed : TjDecide(w, outcome)
<1> USE DEF TjOpen, TjClosed, TjWorking
<1>1. CASE TjSubmit(w)
  BY <1>1 DEF TjSubmit
<1>2. CASE TjPollImage(w)
  BY <1>2 DEF TjPollImage
<1>3. CASE TjPollVideo(w)
  BY <1>3 DEF TjPollVideo
<1>4. CASE TjWakeImage(w)
  BY <1>4 DEF TjWakeImage
<1>5. CASE TjWakeVideo(w)
  BY <1>5 DEF TjWakeVideo
<1> QED
  BY <1>1, <1>2, <1>3, <1>4, <1>5 DEF TjWorks

\* What such a step does to the items and to the workers.
LEMMA TjWorkerEffect ==
    ASSUME TjShapes, NEW w \in TjWorkers, TjWorks(w)
    PROVE  LET item == tjWorker[w] IN
           /\ item \in DOMAIN tjItems
           /\ UNCHANGED <<tjTool, tjNext, tjAborted, tjCancelled, tjTold>>
           /\ \/ tjPolls' = tjPolls
              \/ tjPolls[item] # TjMaxPolls /\ tjPolls' = [tjPolls EXCEPT ![item] = tjPolls[item] + 1]
           /\ \/ \E state \in TjOpen :
                   /\ tjItems' = [tjItems EXCEPT ![item] = state]
                   /\ tjWorker' = tjWorker /\ tjResult' = tjResult
              \/ \E outcome \in TjClosed, next \in {0, TjReturned, TjRejected} :
                   /\ tjItems' = [tjItems EXCEPT ![item] = outcome]
                   /\ tjWorker' = [tjWorker EXCEPT ![w] = next]
                   /\ tjTool = "batch" => next # TjReturned /\ tjResult' = tjResult
                   /\ tjResult' \in {tjResult, "done", "thrown"}
<1> DEFINE item == tjWorker[w]
<1>1. /\ item \in DOMAIN tjItems
      /\ UNCHANGED <<tjTool, tjNext, tjAborted, tjCancelled>>
      /\ \/ tjPolls' = tjPolls
         \/ tjPolls[item] # TjMaxPolls /\ tjPolls' = [tjPolls EXCEPT ![item] = tjPolls[item] + 1]
  BY TjWorkerMoves DEF TjCounted
<1>2. CASE \E state \in TjOpen : TjMoves(w, state)
  BY <1>1, <1>2 DEF TjMoves
<1>3. CASE \E outcome \in TjClosed : TjDecide(w, outcome)
  <2>1. PICK outcome \in TjClosed : TjDecide(w, outcome)
    BY <1>3
  <2> DEFINE next == CASE tjTool = "batch" /\ ~tjCancelled -> 0
                       [] tjTool = "batch" /\ tjCancelled -> TjRejected
                       [] OTHER -> TjReturned
             final == IF tjTool = "batch" /\ tjCancelled THEN "failed" ELSE outcome
  <2>2. /\ tjItems' = [tjItems EXCEPT ![item] = final]
        /\ tjWorker' = [tjWorker EXCEPT ![w] = next]
        /\ tjResult' = IF tjTool = "batch" THEN tjResult ELSE IF outcome = "success" THEN "done" ELSE "thrown"
        /\ tjTold' = tjTold
    BY <2>1 DEF TjDecide
  <2>3. final \in TjClosed
    BY DEF TjClosed
  <2>4. /\ next \in {0, TjReturned, TjRejected}
        /\ tjTool = "batch" => next \in {0, TjRejected}
    OBVIOUS
  <2>5. tjTool = "batch" => next # TjReturned
    BY <2>4, ToolJobsAssumption DEF TjReturned, TjRejected
  <2>6. /\ tjResult' \in {tjResult, "done", "thrown"}
        /\ tjTool = "batch" => tjResult' = tjResult
    BY <2>2
  <2> HIDE DEF next, final
  <2> QED
    BY <1>1, <2>2, <2>3, <2>4, <2>5, <2>6
<1> QED
  BY <1>2, <1>3, TjWorkerMoves

\* Initially nothing executes.
LEMMA TjInitially == TjInit => TjIInv
<1> SUFFICES ASSUME TjInit PROVE TjIInv
  OBVIOUS
<1>1. TjShapes
  <2>1. /\ tjItems \in [1..1 -> {"waiting"} \cup TjOpen \cup TjClosed]
        /\ tjPolls \in [1..1 -> 0..TjMaxPolls]
        /\ tjNext \in 1..(1 + 1) /\ 1 \in 1..TjMaxItems
    BY ToolJobsAssumption DEF TjInit
  <2> QED
    BY <2>1, ToolJobsAssumption DEF TjInit, TjShapes, TjReturned
<1>2. \A w \in TjWorkers : tjWorker[w] \notin DOMAIN tjItems
  BY ToolJobsAssumption DEF TjInit, TjReturned
<1> QED
  BY <1>1, <1>2 DEF TjInit, TjIInv, TjItemsAreTaken, TjNoneIsDropped, TjReportStands

\* A tool is called.
LEMMA TjStarts ==
    ASSUME TjIInv, tjTool = "idle",
           \/ \E tool \in TjOthers, result \in {"refused", "thrown", "done"} : TjEndAtOnce(tool, result)
           \/ \E n \in 1..TjMaxItems : TjStartBatch(n)
           \/ \E tool \in TjOthers : TjStartSingle(tool)
    PROVE  TjIInv'
<1> USE DEF TjIInv
<1>1. PICK n \in 1..TjMaxItems :
        /\ tjItems \in [1..n -> {"waiting"} \cup TjOpen \cup TjClosed]
        /\ tjPolls \in [1..n -> 0..TjMaxPolls]
        /\ tjNext \in 1..(n + 1)
  BY DEF TjShapes
<1>2. /\ tjNext = 1 /\ tjResult = "none"
      /\ tjWorker \in [TjWorkers -> 0..(TjMaxItems + 2)]
      /\ \A w \in TjWorkers : tjWorker[w] = TjReturned
      /\ 1 \in TjWorkers /\ TjMaxItems \in Nat
      /\ \A m \in 1..TjMaxItems : TjReturned \notin 1..m
  BY ToolJobsAssumption DEF TjShapes, TjWorkers, TjReturned
<1>3. \A tool \in TjOthers : tool # "batch" /\ tool # "idle"
  BY DEF TjOthers
<1>4. ASSUME NEW tool \in TjOthers, NEW result \in {"refused", "thrown", "done"}, TjEndAtOnce(tool, result)
      PROVE  TjIInv'
  <2>1. TjShapes'
    BY <1>1, <1>2, <1>3, <1>4 DEF TjEndAtOnce, TjShapes
  <2>2. TjItemsAreTaken'
    BY <1>4 DEF TjEndAtOnce, TjItemsAreTaken
  <2> QED
    BY <1>3, <1>4, <2>1, <2>2 DEF TjEndAtOnce, TjNoneIsDropped, TjReportStands
<1>5. ASSUME NEW m \in 1..TjMaxItems, TjStartBatch(m) PROVE TjIInv'
  <2>1. /\ tjTool' = "batch" /\ tjNext' = 1 /\ tjResult' = "none"
        /\ tjItems' = [i \in 1..m |-> "waiting"] /\ tjPolls' = [i \in 1..m |-> 0]
        /\ tjWorker' = [w \in TjWorkers |-> IF w <= m THEN 0 ELSE TjReturned]
    BY <1>2, <1>5 DEF TjStartBatch
  <2>2. TjShapes'
    <3>1. tjItems' \in [1..m -> {"waiting"} \cup TjOpen \cup TjClosed] /\ tjPolls' \in [1..m -> 0..TjMaxPolls]
      BY <2>1, ToolJobsAssumption
    <3>2. tjWorker' \in [TjWorkers -> 0..(TjMaxItems + 2)]
      BY <1>2, <2>1 DEF TjReturned
    <3>3. tjNext' \in 1..(m + 1)
      BY <2>1
    <3>4. \E k \in 1..TjMaxItems :
            /\ tjItems' \in [1..k -> {"waiting"} \cup TjOpen \cup TjClosed]
            /\ tjPolls' \in [1..k -> 0..TjMaxPolls]
            /\ tjNext' \in 1..(k + 1)
      BY <3>1, <3>3
    <3> QED
      BY <2>1, <3>2, <3>4 DEF TjShapes
  <2>3. TjItemsAreTaken'
    <3>1. \A w \in TjWorkers : tjWorker'[w] \in {0, TjReturned}
      BY <2>1
    <3> QED
      BY <1>2, <2>1, <3>1 DEF TjItemsAreTaken
  <2>4. tjWorker'[1] # TjReturned
    BY <1>2, <2>1, ToolJobsAssumption DEF TjReturned
  <2> QED
    BY <2>1, <2>2, <2>3, <2>4 DEF TjNoneIsDropped, TjReportStands
<1>6. ASSUME NEW tool \in TjOthers, TjStartSingle(tool) PROVE TjIInv'
  <2>1. /\ tjTool' = tool /\ tjNext' = 2 /\ tjResult' = "none" /\ tjPolls' = tjPolls
        /\ tjItems' = [tjItems EXCEPT ![1] = "submit"]
        /\ tjWorker' = [tjWorker EXCEPT ![1] = 1]
    BY <1>2, <1>6 DEF TjStartSingle
  <2>2. tjItems' \in [1..n -> {"waiting"} \cup TjOpen \cup TjClosed] /\ tjItems'[1] = "submit"
    BY <1>1, <2>1 DEF TjOpen
  <2>3. tjWorker' \in [TjWorkers -> 0..(TjMaxItems + 2)]
    BY <1>2, <2>1
  <2>4. TjShapes'
    BY <1>1, <1>3, <2>1, <2>2, <2>3 DEF TjShapes
  <2>5. TjItemsAreTaken'
    BY <1>1, <1>2, <2>1, <2>2 DEF TjItemsAreTaken, TjOpen
  <2> QED
    BY <1>3, <2>1, <2>4, <2>5 DEF TjNoneIsDropped, TjReportStands
<1> QED
  BY <1>4, <1>5, <1>6

\* A worker takes the next item.
LEMMA TjTakes == ASSUME TjIInv, NEW w \in TjWorkers, TjTake(w) PROVE TjIInv'
<1>1. PICK n \in 1..TjMaxItems :
        /\ tjItems \in [1..n -> {"waiting"} \cup TjOpen \cup TjClosed]
        /\ tjPolls \in [1..n -> 0..TjMaxPolls]
        /\ tjNext \in 1..(n + 1)
  BY DEF TjIInv, TjShapes
<1> DEFINE next == IF tjCancelled THEN TjRejected ELSE tjNext
<1>2. /\ tjWorker \in [TjWorkers -> 0..(TjMaxItems + 2)] /\ tjWorker[w] = 0
      /\ tjNext \in 1..n /\ tjNext' = tjNext + 1 /\ TjMaxItems \in Nat /\ 1 \in TjWorkers
      /\ tjTool # "idle" /\ tjTool' = tjTool /\ tjResult' = tjResult /\ tjPolls' = tjPolls
      /\ tjAborted' = tjAborted /\ tjTold' = tjTold
      /\ tjWorker' = [tjWorker EXCEPT ![w] = next]
      /\ tjItems' = IF tjCancelled THEN tjItems ELSE [tjItems EXCEPT ![tjNext] = "submit"]
  BY <1>1, ToolJobsAssumption DEF TjIInv, TjShapes, TjTake, TjIndexAfter, TjReturned, TjWorkers
<1>3. \A m \in 1..TjMaxItems : TjReturned \notin 1..m /\ TjRejected \notin 1..m
  BY <1>2 DEF TjReturned, TjRejected
<1>4. /\ next \in 0..(TjMaxItems + 2) /\ next # TjReturned
      /\ next \in 1..n => ~tjCancelled /\ next = tjNext
  BY <1>1, <1>2, <1>3 DEF TjReturned, TjRejected
<1>5. tjItems' \in [1..n -> {"waiting"} \cup TjOpen \cup TjClosed]
  BY <1>1, <1>2 DEF TjOpen
<1>6. TjShapes'
  <2>1. tjWorker' \in [TjWorkers -> 0..(TjMaxItems + 2)]
    BY <1>2, <1>4
  <2> QED
    BY <1>1, <1>2, <1>5, <2>1 DEF TjIInv, TjShapes
<1>7. \A v \in TjWorkers : tjWorker'[v] = IF v = w THEN next ELSE tjWorker[v]
  BY <1>2
<1>8. \A i \in 1..n : tjItems'[i] = IF ~tjCancelled /\ i = tjNext THEN "submit" ELSE tjItems[i]
  BY <1>1, <1>2
<1>9. TjItemsAreTaken'
  <2>1. ASSUME NEW v \in TjWorkers, tjWorker'[v] \in 1..n
        PROVE  /\ tjWorker'[v] < tjNext'
               /\ tjItems'[tjWorker'[v]] \in TjOpen
               /\ \A u \in TjWorkers : u # v => tjWorker'[u] # tjWorker'[v]
    <3>1. \A u \in TjWorkers : tjWorker[u] \in 1..n =>
            /\ tjWorker[u] < tjNext /\ tjItems[tjWorker[u]] \in TjOpen
            /\ \A x \in TjWorkers : x # u => tjWorker[x] # tjWorker[u]
      BY <1>1 DEF TjIInv, TjItemsAreTaken
    <3>2. CASE v = w
      <4>1. tjWorker'[v] = tjNext /\ ~tjCancelled
        BY <1>4, <1>7, <2>1, <3>2
      <4>2. \A u \in TjWorkers : tjWorker[u] # tjNext
        BY <1>1, <1>2, <3>1
      <4> QED
        BY <1>1, <1>2, <1>7, <1>8, <3>2, <4>1, <4>2 DEF TjOpen
    <3>3. CASE v # w
      <4>1. tjWorker'[v] = tjWorker[v] /\ tjWorker[v] \in 1..n
        BY <1>7, <2>1, <3>3
      <4>2. tjWorker[v] < tjNext /\ tjItems[tjWorker[v]] \in TjOpen
        BY <3>1, <4>1
      <4>3. next # tjWorker[v]
        BY <1>1, <1>2, <1>4, <4>1, <4>2
      <4> HIDE DEF next
      <4> QED
        BY <1>1, <1>2, <1>7, <1>8, <3>1, <3>3, <4>1, <4>2, <4>3
    <3> QED
      BY <3>2, <3>3
  <2> QED
    BY <1>5, <2>1 DEF TjItemsAreTaken
<1>10. TjNoneIsDropped'
  <2> SUFFICES ASSUME tjTool = "batch" PROVE
        /\ \A i \in 1..n : i < tjNext + 1 =>
             \/ tjItems'[i] \in TjClosed
             \/ \E v \in TjWorkers : tjWorker'[v] \in {i, TjRejected}
        /\ tjWorker'[1] = TjReturned => tjAborted \/ tjNext + 1 \notin 1..n
    BY <1>2, <1>5 DEF TjNoneIsDropped
  <2>1. ASSUME NEW i \in 1..n, i < tjNext + 1
        PROVE  \/ tjItems'[i] \in TjClosed
               \/ \E v \in TjWorkers : tjWorker'[v] \in {i, TjRejected}
    <3>1. CASE i = tjNext
      <4>1. tjWorker'[w] \in {i, TjRejected}
        BY <1>7, <3>1
      <4> QED
        BY <4>1
    <3>2. CASE i # tjNext
      <4>1. i < tjNext
        BY <1>1, <2>1, <3>2
      <4>2. CASE tjItems[i] \in TjClosed
        BY <1>8, <3>2, <4>2
      <4>3. CASE \E v \in TjWorkers : tjWorker[v] \in {i, TjRejected}
        <5>1. PICK v \in TjWorkers : tjWorker[v] \in {i, TjRejected}
          BY <4>3
        <5>2. v # w
          BY <1>2, <5>1 DEF TjRejected
        <5> QED
          BY <1>7, <5>1, <5>2
      <4> QED
        BY <1>1, <4>1, <4>2, <4>3 DEF TjIInv, TjNoneIsDropped
    <3> QED
      BY <3>1, <3>2
  <2>2. tjWorker'[1] = TjReturned => tjAborted \/ tjNext + 1 \notin 1..n
    <3>1. tjWorker'[1] = TjReturned => tjWorker[1] = TjReturned
      BY <1>2, <1>4, <1>7
    <3>2. tjWorker[1] = TjReturned => tjAborted \/ tjNext \notin 1..n
      BY <1>1 DEF TjIInv, TjNoneIsDropped
    <3> QED
      BY <1>2, <3>1, <3>2
  <2> QED
    BY <2>1, <2>2
<1>11. TjReportStands'
  <2>1. ~(tjTool = "batch" /\ tjResult \in {"done", "partial_failed", "failed"})
    BY <1>2 DEF TjIInv, TjReportStands, TjReturned
  <2> QED
    BY <1>2, <2>1 DEF TjReportStands
<1> QED
  BY <1>6, <1>9, <1>10, <1>11 DEF TjIInv

\* A worker that finds no item left, or the signal aborted, returns.
LEMMA TjReturns == ASSUME TjIInv, NEW w \in TjWorkers, TjReturn(w) PROVE TjIInv'
<1>1. PICK n \in 1..TjMaxItems :
        /\ tjItems \in [1..n -> {"waiting"} \cup TjOpen \cup TjClosed]
        /\ tjNext \in 1..(n + 1)
  BY DEF TjIInv, TjShapes
<1>2. /\ tjWorker \in [TjWorkers -> 0..(TjMaxItems + 2)] /\ tjWorker[w] = 0 /\ TjMaxItems \in Nat
      /\ tjAborted \/ tjNext \notin DOMAIN tjItems
      /\ UNCHANGED <<tjTool, tjItems, tjNext, tjPolls, tjAborted, tjCancelled, tjResult, tjTold>>
      /\ tjWorker' = [tjWorker EXCEPT ![w] = TjReturned]
  BY ToolJobsAssumption DEF TjIInv, TjShapes, TjReturn
<1>3. TjReturned \in 0..(TjMaxItems + 2) /\ TjReturned \notin DOMAIN tjItems /\ TjReturned # TjRejected
  BY <1>1, <1>2 DEF TjReturned, TjRejected
<1>4. \A v \in TjWorkers : tjWorker'[v] = IF v = w THEN TjReturned ELSE tjWorker[v]
  BY <1>2
<1>5. TjShapes'
  <2>1. tjWorker' \in [TjWorkers -> 0..(TjMaxItems + 2)]
    BY <1>2, <1>3
  <2>2. tjTool # "idle"
    BY <1>2 DEF TjIInv, TjShapes, TjReturned
  <2> QED
    BY <1>2, <2>1, <2>2 DEF TjIInv, TjShapes
<1>6. TjItemsAreTaken'
  BY <1>2, <1>3, <1>4 DEF TjIInv, TjItemsAreTaken
<1>7. TjNoneIsDropped'
  <2> SUFFICES ASSUME tjTool = "batch"
               PROVE  \A i \in DOMAIN tjItems : i < tjNext =>
                        \/ tjItems[i] \in TjClosed
                        \/ \E v \in TjWorkers : tjWorker'[v] \in {i, TjRejected}
    BY <1>2 DEF TjNoneIsDropped
  <2> TAKE i \in DOMAIN tjItems
  <2> SUFFICES ASSUME i < tjNext, tjItems[i] \notin TjClosed
               PROVE  \E v \in TjWorkers : tjWorker'[v] \in {i, TjRejected}
    OBVIOUS
  <2>1. PICK v \in TjWorkers : tjWorker[v] \in {i, TjRejected}
    BY DEF TjIInv, TjNoneIsDropped
  <2>2. v # w
    BY <1>1, <1>2, <2>1 DEF TjRejected
  <2> QED
    BY <1>4, <2>1, <2>2
<1>8. TjReportStands'
  <2>1. ~(tjTool = "batch" /\ tjResult \in {"done", "partial_failed", "failed"})
    BY <1>2 DEF TjIInv, TjReportStands, TjReturned
  <2> QED
    BY <1>2, <2>1 DEF TjReportStands
<1> QED
  BY <1>5, <1>6, <1>7, <1>8 DEF TjIInv

\* A worker goes on with its item or decides it.
LEMMA TjWorksOn == ASSUME TjIInv, NEW w \in TjWorkers, TjWorks(w) PROVE TjIInv'
<1> DEFINE item == tjWorker[w]
<1>1. PICK n \in 1..TjMaxItems :
        /\ tjItems \in [1..n -> {"waiting"} \cup TjOpen \cup TjClosed]
        /\ tjPolls \in [1..n -> 0..TjMaxPolls]
        /\ tjNext \in 1..(n + 1)
  BY DEF TjIInv, TjShapes
<1>2. /\ item \in 1..n
      /\ UNCHANGED <<tjTool, tjNext, tjAborted, tjTold>>
      /\ \/ tjPolls' = tjPolls
         \/ tjPolls[item] # TjMaxPolls /\ tjPolls' = [tjPolls EXCEPT ![item] = tjPolls[item] + 1]
  BY <1>1, TjWorkerEffect DEF TjIInv
<1>3. PICK state \in TjOpen \cup TjClosed, next \in {item, 0, TjReturned, TjRejected} :
        /\ tjItems' = [tjItems EXCEPT ![item] = state]
        /\ tjWorker' = [tjWorker EXCEPT ![w] = next]
        /\ next = item => state \in TjOpen
        /\ next # item => state \in TjClosed
        /\ tjTool = "batch" => next # TjReturned /\ tjResult' = tjResult
        /\ tjResult' \in {tjResult, "done", "thrown"}
  <2>1. tjWorker \in [TjWorkers -> 0..(TjMaxItems + 2)] /\ TjMaxItems \in Nat
    BY ToolJobsAssumption DEF TjIInv, TjShapes
  <2>2. item \notin {0, TjReturned, TjRejected}
    BY <1>1, <1>2, <2>1 DEF TjReturned, TjRejected
  <2>3. CASE \E state \in TjOpen :
               /\ tjItems' = [tjItems EXCEPT ![item] = state]
               /\ tjWorker' = tjWorker /\ tjResult' = tjResult
    <3>1. tjWorker' = [tjWorker EXCEPT ![w] = item]
      BY <2>1, <2>3
    <3> QED
      BY <2>2, <2>3, <3>1
  <2>4. CASE \E outcome \in TjClosed, next \in {0, TjReturned, TjRejected} :
               /\ tjItems' = [tjItems EXCEPT ![item] = outcome]
               /\ tjWorker' = [tjWorker EXCEPT ![w] = next]
               /\ tjTool = "batch" => next # TjReturned /\ tjResult' = tjResult
               /\ tjResult' \in {tjResult, "done", "thrown"}
    BY <2>2, <2>4
  <2> QED
    BY <2>3, <2>4, TjWorkerEffect DEF TjIInv
<1>4. /\ tjWorker \in [TjWorkers -> 0..(TjMaxItems + 2)] /\ TjMaxItems \in Nat
      /\ \A v \in TjWorkers : tjWorker'[v] = IF v = w THEN next ELSE tjWorker[v]
      /\ \A i \in 1..n : tjItems'[i] = IF i = item THEN state ELSE tjItems[i]
      /\ TjReturned \notin 1..n /\ TjRejected \notin 1..n /\ 0 \notin 1..n /\ TjReturned # TjRejected
  BY <1>1, <1>3, ToolJobsAssumption DEF TjIInv, TjShapes, TjReturned, TjRejected
<1>5. tjItems' \in [1..n -> {"waiting"} \cup TjOpen \cup TjClosed]
  BY <1>1, <1>3
<1>6. TjShapes'
  <2>1. tjPolls' \in [1..n -> 0..TjMaxPolls]
    <3>1. CASE tjPolls[item] # TjMaxPolls /\ tjPolls' = [tjPolls EXCEPT ![item] = tjPolls[item] + 1]
      <4>1. tjPolls[item] + 1 \in 0..TjMaxPolls
        BY <1>1, <1>2, <3>1, ToolJobsAssumption
      <4> QED
        BY <1>1, <3>1, <4>1
    <3> QED
      BY <1>1, <1>2, <3>1
  <2>2. tjWorker' \in [TjWorkers -> 0..(TjMaxItems + 2)]
    <3>1. next \in 0..(TjMaxItems + 2)
      BY <1>1, <1>2, <1>4 DEF TjReturned, TjRejected
    <3> QED
      BY <1>3, <1>4, <3>1
  <2>3. tjTool # "idle"
    BY <1>2, <1>4 DEF TjIInv, TjShapes
  <2>4. tjResult' \in {"none", "refused", "done", "partial_failed", "failed", "thrown"}
    BY <1>3 DEF TjIInv, TjShapes
  <2> QED
    BY <1>1, <1>2, <1>5, <2>1, <2>2, <2>3, <2>4 DEF TjShapes
<1>7. TjItemsAreTaken'
  <2> SUFFICES ASSUME NEW v \in TjWorkers, tjWorker'[v] \in 1..n
               PROVE  /\ tjWorker'[v] < tjNext
                      /\ tjItems'[tjWorker'[v]] \in TjOpen
                      /\ \A u \in TjWorkers : u # v => tjWorker'[u] # tjWorker'[v]
    BY <1>2, <1>5 DEF TjItemsAreTaken
  <2>1. \A u \in TjWorkers : tjWorker[u] \in 1..n =>
          /\ tjWorker[u] < tjNext /\ tjItems[tjWorker[u]] \in TjOpen
          /\ \A x \in TjWorkers : x # u => tjWorker[x] # tjWorker[u]
    BY <1>1 DEF TjIInv, TjItemsAreTaken
  <2>2. tjWorker'[v] = tjWorker[v] /\ tjWorker[v] \in 1..n
    BY <1>3, <1>4
  <2>3. v = w => next = item
    BY <1>4, <2>2
  <2>4. tjItems'[tjWorker[v]] \in TjOpen
    BY <1>3, <1>4, <2>1, <2>2, <2>3
  <2>5. \A u \in TjWorkers : u # v => tjWorker'[u] # tjWorker[v]
    BY <1>3, <1>4, <2>1, <2>2
  <2> QED
    BY <2>1, <2>2, <2>4, <2>5
<1>8. TjNoneIsDropped'
  <2> SUFFICES ASSUME tjTool = "batch"
               PROVE  /\ \A i \in 1..n : i < tjNext =>
                           \/ tjItems'[i] \in TjClosed
                           \/ \E v \in TjWorkers : tjWorker'[v] \in {i, TjRejected}
                      /\ tjWorker'[1] = TjReturned => tjAborted \/ tjNext \notin 1..n
    BY <1>2, <1>5 DEF TjNoneIsDropped
  <2>1. ASSUME NEW i \in 1..n, i < tjNext
        PROVE  \/ tjItems'[i] \in TjClosed
               \/ \E v \in TjWorkers : tjWorker'[v] \in {i, TjRejected}
    <3>1. CASE i = item
      <4>1. next = item => tjWorker'[w] = i
        BY <1>4, <3>1
      <4>2. next # item => tjItems'[i] \in TjClosed
        BY <1>3, <1>4, <3>1
      <4> QED
        BY <4>1, <4>2
    <3>2. CASE i # item /\ tjItems[i] \in TjClosed
      BY <1>4, <3>2
    <3>3. CASE i # item /\ \E v \in TjWorkers : tjWorker[v] \in {i, TjRejected}
      <4>1. PICK v \in TjWorkers : tjWorker[v] \in {i, TjRejected}
        BY <3>3
      <4>2. v # w
        BY <1>2, <1>4, <3>3, <4>1
      <4> QED
        BY <1>4, <4>1, <4>2
    <3> QED
      BY <1>1, <2>1, <3>1, <3>2, <3>3 DEF TjIInv, TjNoneIsDropped
  <2>2. tjWorker'[1] = TjReturned => tjAborted \/ tjNext \notin 1..n
    <3>1. 1 \in TjWorkers
      BY ToolJobsAssumption DEF TjWorkers
    <3>2. tjWorker'[1] = TjReturned => tjWorker[1] = TjReturned
      BY <1>2, <1>3, <1>4, <3>1
    <3> QED
      BY <1>1, <3>2 DEF TjIInv, TjNoneIsDropped
  <2> QED
    BY <2>1, <2>2
<1>9. TjReportStands'
  <2>1. ~(tjTool = "batch" /\ tjResult \in {"done", "partial_failed", "failed"})
    BY <1>2, <1>4 DEF TjIInv, TjReportStands
  <2> QED
    BY <1>2, <1>3, <2>1 DEF TjReportStands
<1> QED
  BY <1>6, <1>7, <1>8, <1>9 DEF TjIInv

\* The batch ends, or the run is aborted or cancelled.
LEMMA TjEnds == ASSUME TjIInv, TjFinishBatch \/ TjAbort \/ TjCancel PROVE TjIInv'
<1> USE DEF TjIInv
<1>1. CASE TjFinishBatch
  <2>1. /\ UNCHANGED <<tjTool, tjItems, tjNext, tjWorker, tjPolls, tjAborted>>
        /\ tjTool = "batch"
        /\ \/ tjResult' = "thrown"
           \/ /\ \A w \in TjWorkers : tjWorker[w] = TjReturned
              /\ tjResult' = TjBatchStatus /\ tjTold' = TjTell
    BY <1>1 DEF TjFinishBatch
  <2>2. TjBatchStatus \in {"done", "partial_failed", "failed"}
    BY DEF TjBatchStatus
  <2>3. TjBatchStatus' = TjBatchStatus /\ TjTell' = TjTell
    BY <2>1 DEF TjBatchStatus, TjTell, TjTotal, TjCount
  <2>4. TjShapes'
    BY <2>1, <2>2 DEF TjShapes
  <2>5. TjItemsAreTaken' /\ TjNoneIsDropped'
    BY <2>1 DEF TjItemsAreTaken, TjNoneIsDropped
  <2>6. TjReportStands'
    BY <2>1, <2>3 DEF TjReportStands
  <2> QED
    BY <2>4, <2>5, <2>6
<1>2. CASE TjAbort \/ TjCancel
  <2>1. /\ UNCHANGED <<tjTool, tjItems, tjNext, tjWorker, tjPolls, tjResult, tjTold>>
        /\ tjAborted => tjAborted'
    BY <1>2 DEF TjAbort, TjCancel
  <2>2. TjBatchStatus' = TjBatchStatus /\ TjTell' = TjTell
    BY <2>1 DEF TjBatchStatus, TjTell, TjTotal, TjCount
  <2> QED
    BY <2>1, <2>2 DEF TjShapes, TjItemsAreTaken, TjNoneIsDropped, TjReportStands
<1> QED
  BY <1>1, <1>2

\* Every step keeps the invariant.
LEMMA TjStep == TjIInv /\ [TjNext]_tjVars => TjIInv'
<1> SUFFICES ASSUME TjIInv, [TjNext]_tjVars PROVE TjIInv'
  OBVIOUS
<1>1. ASSUME NEW size \in TjSizes, NEW prompt \in BOOLEAN, NEW keys \in BOOLEAN,
             NEW items \in 0..(TjMaxItems + 1), TjGenerateImage(size, prompt, items, keys)
      PROVE  TjIInv'
  <2>1. \/ \E tool \in TjOthers, result \in {"refused", "thrown", "done"} : TjEndAtOnce(tool, result)
        \/ \E n \in 1..TjMaxItems : TjStartBatch(n)
        \/ \E tool \in TjOthers : TjStartSingle(tool)
    <3>1. CASE ~TjImageRefused(size, prompt, items) /\ keys /\ items > 0 /\ TjStartBatch(items)
      <4>1. items \in 1..TjMaxItems
        BY <3>1, ToolJobsAssumption DEF TjImageRefused
      <4> QED
        BY <3>1, <4>1
    <3> QED
      BY <1>1, <3>1 DEF TjGenerateImage, TjOthers
  <2> QED
    BY <1>1, <2>1, TjStarts DEF TjGenerateImage
<1>2. ASSUME NEW http \in BOOLEAN, NEW keys \in BOOLEAN, TjEditImage(http, keys)
      PROVE  TjIInv'
  <2>1. \/ \E tool \in TjOthers, result \in {"refused", "thrown", "done"} : TjEndAtOnce(tool, result)
        \/ \E tool \in TjOthers : TjStartSingle(tool)
    BY <1>2 DEF TjEditImage, TjOthers
  <2> QED
    BY <1>2, <2>1, TjStarts DEF TjEditImage
<1>3. ASSUME NEW first \in BOOLEAN, NEW last \in BOOLEAN, NEW keys \in BOOLEAN,
             TjGenerateVideo(first, last, keys)
      PROVE  TjIInv'
  <2>1. \/ \E tool \in TjOthers, result \in {"refused", "thrown", "done"} : TjEndAtOnce(tool, result)
        \/ \E tool \in TjOthers : TjStartSingle(tool)
    BY <1>3 DEF TjGenerateVideo, TjOthers
  <2> QED
    BY <1>3, <2>1, TjStarts DEF TjGenerateVideo
<1>4. CASE TjWebSearch \/ TjKnowledgeSearch \/ TjCalculator \/ TjCurrentTime \/ TjGenerateDocument
  <2>1. tjTool = "idle" /\ \E tool \in TjOthers, result \in {"refused", "thrown", "done"} : TjEndAtOnce(tool, result)
    BY <1>4 DEF TjWebSearch, TjKnowledgeSearch, TjCalculator, TjCurrentTime, TjGenerateDocument, TjOthers
  <2> QED
    BY <2>1, TjStarts
<1>5. CASE TjWork \/ TjAbort \/ TjCancel
  BY <1>5, TjTakes, TjReturns, TjWorksOn, TjEnds DEF TjWork, TjWorks
<1>6. CASE UNCHANGED tjVars
  <2>1. TjBatchStatus' = TjBatchStatus /\ TjTell' = TjTell
    BY <1>6 DEF tjVars, TjBatchStatus, TjTell, TjTotal, TjCount
  <2> QED
    BY <1>6, <2>1 DEF tjVars, TjIInv, TjShapes, TjItemsAreTaken, TjNoneIsDropped, TjReportStands
<1> QED
  BY <1>1, <1>2, <1>3, <1>4, <1>5, <1>6 DEF TjNext

\* Items that are all decided are counted once, and no failure is left out.
LEMMA TjAllCounted ==
    ASSUME NEW n \in 1..TjMaxItems, DOMAIN tjItems = 1..n, \A i \in 1..n : tjItems[i] \in TjClosed
    PROVE  /\ TjTotal = Cardinality(DOMAIN tjItems)
           /\ TjTotal = TjCount("success") => \A i \in DOMAIN tjItems : tjItems[i] = "success"
<1> DEFINE S == {i \in 1..n : tjItems[i] = "success"}
           F == {i \in 1..n : tjItems[i] = "failed"}
<1>1. TjCount("success") = Cardinality(S) /\ TjCount("failed") = Cardinality(F)
  BY DEF TjCount
<1>2. IsFiniteSet(1..n)
  BY FS_Interval, ToolJobsAssumption
<1>3. IsFiniteSet(S) /\ IsFiniteSet(F)
  BY <1>2, FS_Subset
<1>4. S \cap F = {} /\ S \cup F = 1..n
  BY DEF TjClosed
<1>5. Cardinality(S) \in Nat /\ Cardinality(F) \in Nat
  BY <1>3, FS_CardinalityType
<1>6. Cardinality(S \cup F) = Cardinality(S) + Cardinality(F) - Cardinality(S \cap F)
  BY <1>3, FS_Union
<1>7. Cardinality(S \cap F) = 0
  BY <1>4, FS_EmptySet
<1>8. Cardinality(F) = 0 => F = {}
  BY <1>3, FS_EmptySet
<1>9. TjTotal = Cardinality(1..n)
  <2>1. Cardinality(S) + Cardinality(F) = Cardinality(S \cup F)
    <3> HIDE DEF S, F
    <3> QED
      BY <1>5, <1>6, <1>7
  <2>2. TjTotal = Cardinality(S \cup F)
    <3> HIDE DEF S, F
    <3> QED
      BY <1>1, <2>1 DEF TjTotal
  <2> QED
    BY <1>4, <2>2, Zenon
<1>10. TjTotal = TjCount("success") => F = {}
  <2> HIDE DEF S, F
  <2> QED
    BY <1>1, <1>5, <1>8 DEF TjTotal
<1> QED
  BY <1>4, <1>9, <1>10

\* The variables keep their types; in particular no task is asked for more
\* often than maxPollAttempts.
THEOREM TjTypeCorrect == TjSpec => []TjTypeOK
<1>1. TjIInv => TjTypeOK
  <2> SUFFICES ASSUME TjIInv PROVE TjTypeOK
    OBVIOUS
  <2>1. PICK n \in 1..TjMaxItems :
          /\ tjItems \in [1..n -> {"waiting"} \cup TjOpen \cup TjClosed]
          /\ tjPolls \in [1..n -> 0..TjMaxPolls]
          /\ tjNext \in 1..(n + 1)
    BY DEF TjIInv, TjShapes
  <2> QED
    BY <2>1, ToolJobsAssumption DEF TjIInv, TjShapes, TjTypeOK, TjOpen, TjClosed
<1> QED
  BY <1>1, TjInitially, TjStep, PTL DEF TjSpec

\* A batch that was not cut off reports every requested picture as it is: the
\* workers share nextIndex, and Promise.all waits for each of them.
THEOREM TjReportCompletes == TjSpec => []TjReportIsComplete
<1>1. TjIInv => TjReportIsComplete
  <2> SUFFICES ASSUME TjIInv PROVE TjReportIsComplete
    OBVIOUS
  <2>1. PICK n \in 1..TjMaxItems :
          /\ tjItems \in [1..n -> {"waiting"} \cup TjOpen \cup TjClosed]
          /\ tjNext \in 1..(n + 1)
    BY DEF TjIInv, TjShapes
  <2>2. ASSUME tjTool = "batch", tjResult \in {"done", "partial_failed", "failed"}, ~tjAborted
        PROVE  /\ tjTold.succeeded + tjTold.failed = Cardinality(DOMAIN tjItems)
               /\ tjTold.succeeded = TjCount("success")
               /\ tjResult = "done" => \A i \in DOMAIN tjItems : tjItems[i] = "success"
    <3>1. /\ \A w \in TjWorkers : tjWorker[w] = TjReturned
          /\ tjResult = TjBatchStatus /\ tjTold = TjTell
      BY <2>2 DEF TjIInv, TjReportStands
    <3>2. 1 \in TjWorkers /\ TjReturned # TjRejected /\ \A i \in 1..n : i # TjReturned
      BY <2>1, ToolJobsAssumption DEF TjWorkers, TjReturned, TjRejected
    <3>3. tjNext \notin 1..n
      BY <2>1, <2>2, <3>1, <3>2 DEF TjIInv, TjNoneIsDropped
    <3>4. \A i \in 1..n : i < tjNext
      BY <2>1, <3>3
    <3>5. \A i \in 1..n : tjItems[i] \in TjClosed
      BY <2>1, <2>2, <3>1, <3>2, <3>4 DEF TjIInv, TjNoneIsDropped
    <3>6. /\ TjTotal = Cardinality(DOMAIN tjItems)
          /\ TjTotal = TjCount("success") => \A i \in DOMAIN tjItems : tjItems[i] = "success"
      BY <2>1, <3>5, TjAllCounted
    <3>7. tjResult = "done" => TjTotal = TjCount("success")
      BY <3>1 DEF TjBatchStatus
    <3> QED
      BY <3>1, <3>6, <3>7 DEF TjTell, TjTotal
  <2>3. \A v, w \in TjWorkers :
          v # w /\ tjWorker[v] \in DOMAIN tjItems => tjWorker[v] # tjWorker[w]
    BY DEF TjIInv, TjItemsAreTaken
  <2> QED
    BY <2>2, <2>3 DEF TjReportIsComplete
<1> QED
  BY <1>1, TjInitially, TjStep, PTL DEF TjSpec

-----------------------------------------------------------------------------
(***************************************************************************)
(* The page of one browser tab, for any sessions, runs, handlers and acts.  *)
(* Each lemma ending in Keeps is one action; most are mild (WpMildStep): they *)
(* make the page follow and register nothing that it did not before.        *)
(***************************************************************************)

WpNames == WpSessionIds \cup {"none"}
WpControllers == WpOps \cup {"none"}

WpPages ==
    [run : 0 .. WpMaxRuns, ref : WpNames, at : WpNames, url : WpNames, kept : 0 .. WpMaxRuns,
     runs : [WpSessionIds -> 0 .. WpMaxRuns], ctl : WpControllers, spin : BOOLEAN,
     view : SUBSET WpSessionIds, older : BOOLEAN, signed : BOOLEAN]

WpKinds ==
    {"none", "submit", "regenerate", "cancel", "select", "delete", "delete shown", "older", "restore", "recover"}

\* A handler in one of these states knows its session.
WpPlaced ==
    {"snapshot", "stream", "closing", "loading", "checking", "deleting", "older", "restoring",
     "reloading", "reloading ended"}

WpStates == WpPlaced \cup {"idle", "cancelling", "starting", "rechecking"}

WpOpRecords ==
    [kind : WpKinds, state : WpStates, session : WpNames, run : 0 .. WpMaxRuns, ctl : WpControllers, cut : BOOLEAN]

\* What of a page the properties depend on.
WpIs(p, run, ref, at, url, kept, runs, ctl, view) ==
    /\ p \in WpPages
    /\ p.run = run /\ p.ref = ref /\ p.at = at /\ p.url = url /\ p.kept = kept
    /\ p.runs = runs /\ p.ctl = ctl /\ p.view = view

\* A page with other values of some fields.
LEMMA WpPageFields ==
    ASSUME NEW p \in WpPages
    PROVE  /\ \A b \in BOOLEAN : WpIs([p EXCEPT !.spin = b], p.run, p.ref, p.at, p.url, p.kept, p.runs, p.ctl, p.view)
           /\ \A b \in BOOLEAN : WpIs([p EXCEPT !.older = b], p.run, p.ref, p.at, p.url, p.kept, p.runs, p.ctl, p.view)
           /\ \A b \in BOOLEAN : WpIs([p EXCEPT !.signed = b], p.run, p.ref, p.at, p.url, p.kept, p.runs, p.ctl, p.view)
           /\ \A c \in WpControllers : WpIs([p EXCEPT !.ctl = c], p.run, p.ref, p.at, p.url, p.kept, p.runs, c, p.view)
           /\ \A v \in SUBSET WpSessionIds : WpIs([p EXCEPT !.view = v], p.run, p.ref, p.at, p.url, p.kept, p.runs, p.ctl, v)
           /\ \A r \in 0 .. WpMaxRuns : WpIs([p EXCEPT !.run = r], r, p.ref, p.at, p.url, p.kept, p.runs, p.ctl, p.view)
           /\ \A r \in 0 .. WpMaxRuns : WpIs([p EXCEPT !.kept = r], p.run, p.ref, p.at, p.url, r, p.runs, p.ctl, p.view)
           /\ \A f \in [WpSessionIds -> 0 .. WpMaxRuns] : WpIs([p EXCEPT !.runs = f], p.run, p.ref, p.at, p.url, p.kept, f, p.ctl, p.view)
           /\ \A s \in WpNames : WpIs([p EXCEPT !.url = s], p.run, p.ref, p.at, s, p.kept, p.runs, p.ctl, p.view)
           /\ \A s \in WpNames : WpIs([p EXCEPT !.at = s], p.run, p.ref, s, p.url, p.kept, p.runs, p.ctl, p.view)
           /\ \A s \in WpNames : WpIs([p EXCEPT !.ref = s], p.run, s, p.at, p.url, p.kept, p.runs, p.ctl, p.view)
BY DEF WpPages, WpIs

LEMMA WpClearIs ==
    ASSUME NEW p \in WpPages
    PROVE  WpIs(WpClear(p), 0, p.ref, p.at, p.url, 0, p.runs, p.ctl, p.view)
<1>1. 0 \in 0 .. WpMaxRuns
  BY WebPageAssumption
<1> QED
  BY <1>1 DEF WpPages, WpIs, WpClear

LEMMA WpGoToIs ==
    ASSUME NEW p \in WpPages, NEW s \in WpNames
    PROVE  WpIs(WpGoTo(p, s), p.run, s, s, s, p.kept, p.runs, p.ctl, p.view)
BY DEF WpPages, WpIs, WpGoTo

LEMMA WpForgetIs ==
    ASSUME NEW p \in WpPages, NEW r \in 0 .. WpMaxRuns
    PROVE  WpIs(WpForget(p, r), p.run, p.ref, p.at, p.url, p.kept, [s \in WpSessionIds |-> IF p.runs[s] = r THEN 0 ELSE p.runs[s]], p.ctl, p.view)
<1> DEFINE kept == [s \in WpSessionIds |-> IF p.runs[s] = r THEN 0 ELSE p.runs[s]]
<1>1. kept \in [WpSessionIds -> 0 .. WpMaxRuns]
  BY WebPageAssumption DEF WpPages
<1>2. WpForget(p, r) = [p EXCEPT !.runs = kept]
  BY DEF WpForget, WpPages
<1>3. WpIs([p EXCEPT !.runs = kept], p.run, p.ref, p.at, p.url, p.kept, kept, p.ctl, p.view)
  BY <1>1, WpPageFields
<1> QED
  BY <1>2, <1>3, Zenon

LEMMA WpResetIs ==
    ASSUME NEW p \in WpPages
    PROVE  WpIs(WpReset(p), 0, "none", "none", "none", 0, p.runs, p.ctl, {})
<1>1. WpIs(WpClear(p), 0, p.ref, p.at, p.url, 0, p.runs, p.ctl, p.view)
  BY WpClearIs
<1> QED
  BY <1>1 DEF WpPages, WpIs, WpReset, WpNames

LEMMA WpSmallFields ==
    ASSUME NEW p \in WpPages
    PROVE  /\ \A b \in BOOLEAN : WpIs(WpSpin(p, b), p.run, p.ref, p.at, p.url, p.kept, p.runs, p.ctl, p.view)
           /\ \A r \in 0 .. WpMaxRuns : WpIs(WpActivate(p, r), r, p.ref, p.at, p.url, p.kept, p.runs, p.ctl, p.view)
           /\ \A s \in WpSessionIds, r \in 0 .. WpMaxRuns :
                WpIs(WpRemember(p, s, r), p.run, p.ref, p.at, p.url, p.kept, [p.runs EXCEPT ![s] = r], p.ctl, p.view)
           /\ \A s \in WpSessionIds :
                WpIs(WpForgetSession(p, s), p.run, p.ref, p.at, p.url, p.kept, [p.runs EXCEPT ![s] = 0], p.ctl, p.view)
           /\ \A s \in WpNames :
                WpIs(WpUrlWithout(p, s), p.run, p.ref, p.at, IF p.url = s THEN "none" ELSE p.url, p.kept, p.runs, p.ctl, p.view)
<1>0. 0 \in 0 .. WpMaxRuns
  BY WebPageAssumption
<1>1. \A b \in BOOLEAN : WpIs(WpSpin(p, b), p.run, p.ref, p.at, p.url, p.kept, p.runs, p.ctl, p.view)
  BY WpPageFields DEF WpSpin
<1>2. \A r \in 0 .. WpMaxRuns : WpIs(WpActivate(p, r), r, p.ref, p.at, p.url, p.kept, p.runs, p.ctl, p.view)
  BY WpPageFields DEF WpActivate
<1>3. ASSUME NEW s \in WpSessionIds, NEW r \in 0 .. WpMaxRuns
      PROVE  /\ [p EXCEPT !.runs[s] = r] = [p EXCEPT !.runs = [p.runs EXCEPT ![s] = r]]
             /\ [p.runs EXCEPT ![s] = r] \in [WpSessionIds -> 0 .. WpMaxRuns]
  BY DEF WpPages
<1>4. \A s \in WpSessionIds, r \in 0 .. WpMaxRuns :
        WpIs([p EXCEPT !.runs[s] = r], p.run, p.ref, p.at, p.url, p.kept, [p.runs EXCEPT ![s] = r], p.ctl, p.view)
  BY <1>3, WpPageFields
<1>5. \A s \in WpNames :
        WpIs(WpUrlWithout(p, s), p.run, p.ref, p.at, IF p.url = s THEN "none" ELSE p.url, p.kept, p.runs, p.ctl, p.view)
  BY DEF WpPages, WpIs, WpUrlWithout, WpNames
<1> QED
  BY <1>0, <1>1, <1>2, <1>4, <1>5 DEF WpRemember, WpForgetSession

LEMMA WpDetachIs ==
    ASSUME NEW p \in WpPages
    PROVE  /\ p.run # 0 => WpIs(WpDetach(p), 0, p.ref, p.at, p.url, 0, p.runs, "none", p.view)
           /\ p.run = 0 => WpDetach(p) = p
<1>1. WpIs(WpClear(p), 0, p.ref, p.at, p.url, 0, p.runs, p.ctl, p.view)
  BY WpClearIs
<1>2. WpIs([WpClear(p) EXCEPT !.ctl = "none"], 0, p.ref, p.at, p.url, 0, p.runs, "none", p.view)
  <2> DEFINE q == WpClear(p)
  <2>1. WpIs(q, 0, p.ref, p.at, p.url, 0, p.runs, p.ctl, p.view)
    BY <1>1
  <2> HIDE DEF q
  <2>2. WpIs([q EXCEPT !.ctl = "none"], 0, p.ref, p.at, p.url, 0, p.runs, "none", p.view)
    BY <2>1, WpPageFields DEF WpIs, WpControllers
  <2> QED
    BY <2>2 DEF q
<1> DEFINE d == [WpClear(p) EXCEPT !.ctl = "none"]
<1>3. WpIs(d, 0, p.ref, p.at, p.url, 0, p.runs, "none", p.view)
  BY <1>2
<1>4. WpDetach(p) = IF p.run = 0 THEN p ELSE WpSpin(d, FALSE)
  BY DEF WpDetach
<1> HIDE DEF d
<1>5. WpIs(WpSpin(d, FALSE), 0, p.ref, p.at, p.url, 0, p.runs, "none", p.view)
  BY <1>3, WpSmallFields DEF WpIs
<1> QED
  BY <1>4, <1>5

LEMMA WpSettleIs ==
    ASSUME NEW p \in WpPages, NEW o
    PROVE  WpIs(WpSettle(p, o), p.run, p.ref, p.at, p.url, p.kept, p.runs,
                IF p.ctl = o THEN "none" ELSE p.ctl, p.view)
<1> DEFINE q == [p EXCEPT !.ctl = "none"]
<1>1. WpIs(q, p.run, p.ref, p.at, p.url, p.kept, p.runs, "none", p.view)
  BY WpPageFields DEF WpControllers
<1>2. WpSettle(p, o) = IF p.ctl = o THEN WpSpin(q, FALSE) ELSE p
  BY DEF WpSettle
<1> HIDE DEF q
<1>3. WpIs(WpSpin(q, FALSE), p.run, p.ref, p.at, p.url, p.kept, p.runs, "none", p.view)
  BY <1>1, WpSmallFields DEF WpIs
<1>4. p.ctl # o => WpIs(p, p.run, p.ref, p.at, p.url, p.kept, p.runs, p.ctl, p.view)
  BY DEF WpIs
<1> QED
  BY <1>2, <1>3, <1>4

LEMMA WpBeginIs ==
    ASSUME NEW p \in WpPages
    PROVE  WpIs(WpBegin(p), 0, p.ref, p.at, p.url, 0, p.runs, p.ctl, p.view)
<1>1. WpIs(WpSpin(p, TRUE), p.run, p.ref, p.at, p.url, p.kept, p.runs, p.ctl, p.view)
  BY WpSmallFields
<1> QED
  BY <1>1, WpClearIs DEF WpBegin, WpIs

LEMMA WpFollowIs ==
    ASSUME NEW p \in WpPages, NEW o \in WpOps, NEW s \in WpSessionIds, NEW r \in 0 .. WpMaxRuns
    PROVE  WpIs(WpFollow(p, o, s, r), r, s, s, s, r, [p.runs EXCEPT ![s] = r], o, p.view)
<1> DEFINE a == WpGoTo(p, s)
           b == WpActivate(a, r)
           c == WpRemember(b, s, r)
<1>1. WpIs(a, p.run, s, s, s, p.kept, p.runs, p.ctl, p.view)
  BY WpGoToIs DEF WpNames
<1>2. WpIs(b, r, s, s, s, p.kept, p.runs, p.ctl, p.view)
  <2> HIDE DEF a
  <2> QED
    BY <1>1, WpSmallFields DEF WpIs
<1>3. WpIs(c, r, s, s, s, p.kept, [p.runs EXCEPT ![s] = r], p.ctl, p.view)
  <2> HIDE DEF b
  <2> QED
    BY <1>2, WpSmallFields DEF WpIs
<1>4. WpFollow(p, o, s, r) = [c EXCEPT !.ctl = o, !.kept = r]
  BY DEF WpFollow
<1> HIDE DEF c
<1>5. o \in WpControllers
  BY DEF WpControllers
<1> QED
  BY <1>3, <1>4, <1>5 DEF WpIs, WpPages

LEMMA WpReleaseIs ==
    ASSUME NEW p \in WpPages, NEW r \in 0 .. WpMaxRuns, p.run = r
    PROVE  WpIs(WpRelease(p, r), 0, p.ref, p.at, p.url, 0,
                [s \in WpSessionIds |-> IF p.runs[s] = r THEN 0 ELSE p.runs[s]], "none", p.view)
<1> DEFINE runs == [s \in WpSessionIds |-> IF p.runs[s] = r THEN 0 ELSE p.runs[s]]
           a == WpForget(p, r)
           b == WpClear(a)
           c == [b EXCEPT !.ctl = "none"]
<1>1. WpIs(a, p.run, p.ref, p.at, p.url, p.kept, runs, p.ctl, p.view)
  BY WpForgetIs
<1>2. WpIs(b, 0, p.ref, p.at, p.url, 0, runs, p.ctl, p.view)
  <2> HIDE DEF a, runs
  <2> QED
    BY <1>1, WpClearIs DEF WpIs
<1>3. WpIs(c, 0, p.ref, p.at, p.url, 0, runs, "none", p.view)
  <2> HIDE DEF b, runs
  <2> QED
    BY <1>2, WpPageFields DEF WpIs, WpControllers
<1>4. WpRelease(p, r) = WpSpin(c, FALSE)
  BY DEF WpRelease
<1>5. WpIs(WpSpin(c, FALSE), 0, p.ref, p.at, p.url, 0, runs, "none", p.view)
  <2> HIDE DEF c, runs
  <2> QED
    BY <1>3, WpSmallFields DEF WpIs
<1> QED
  BY <1>4, <1>5

-----------------------------------------------------------------------------
\* Of the handlers under way, those but the ones in changed are where they were.
WpOthersStay(changed) ==
    \A x \in WpOps \ changed :
        /\ wpOp'[x].state = wpOp[x].state /\ wpOp'[x].session = wpOp[x].session
        /\ wpOp'[x].run = wpOp[x].run

LEMMA WpAbortIs ==
    ASSUME NEW ops \in [WpOps -> WpOpRecords], NEW c
    PROVE  /\ WpAbort(ops, c) \in [WpOps -> WpOpRecords]
           /\ \A x \in WpOps : /\ WpAbort(ops, c)[x].state = ops[x].state
                               /\ WpAbort(ops, c)[x].session = ops[x].session
                               /\ WpAbort(ops, c)[x].run = ops[x].run
BY DEF WpAbort, WpOpRecords

LEMMA WpDoneIs ==
    ASSUME NEW ops \in [WpOps -> WpOpRecords], NEW o \in WpOps
    PROVE  /\ WpDone(ops, o) \in [WpOps -> WpOpRecords]
           /\ WpDone(ops, o)[o] = WpIdle
           /\ \A x \in WpOps \ {o} : /\ WpDone(ops, o)[x].state = ops[x].state
                                     /\ WpDone(ops, o)[x].session = ops[x].session
                                     /\ WpDone(ops, o)[x].run = ops[x].run
<1>1. WpIdle \in WpOpRecords
  <2>1. 0 \in 0 .. WpMaxRuns
    BY WebPageAssumption
  <2> QED
    BY <2>1 DEF WpIdle, WpOpRecords, WpKinds, WpStates, WpNames, WpControllers
<1> QED
  BY <1>1 DEF WpDone, WpOpRecords, WpControllers

\* A handler goes on, and the stream of another may be cut off.
LEMMA WpPutIs ==
    ASSUME wpOp \in [WpOps -> WpOpRecords], NEW o \in WpOps, NEW op \in WpOpRecords, NEW c,
           \/ wpOp' = [wpOp EXCEPT ![o] = op]
           \/ wpOp' = WpAbort([wpOp EXCEPT ![o] = op], c)
           \/ wpOp' = [WpAbort(wpOp, c) EXCEPT ![o] = op]
    PROVE  /\ wpOp' \in [WpOps -> WpOpRecords] /\ WpOthersStay({o})
           /\ wpOp'[o].state = op.state /\ wpOp'[o].session = op.session /\ wpOp'[o].run = op.run
<1> DEFINE put == [wpOp EXCEPT ![o] = op]
<1>1. /\ put \in [WpOps -> WpOpRecords] /\ put[o] = op
      /\ \A x \in WpOps \ {o} : put[x] = wpOp[x]
  OBVIOUS
<1>2. CASE wpOp' = put
  <2> HIDE DEF put
  <2> QED
    BY <1>1, <1>2 DEF WpOthersStay
<1>3. CASE wpOp' = WpAbort(put, c)
  <2> HIDE DEF put
  <2>1. /\ wpOp' \in [WpOps -> WpOpRecords]
        /\ \A x \in WpOps : /\ wpOp'[x].state = put[x].state
                            /\ wpOp'[x].session = put[x].session
                            /\ wpOp'[x].run = put[x].run
    BY <1>1, <1>3, WpAbortIs
  <2> QED
    BY <1>1, <2>1 DEF WpOthersStay
<1>4. CASE wpOp' = [WpAbort(wpOp, c) EXCEPT ![o] = op]
  <2> DEFINE cut == WpAbort(wpOp, c)
  <2>1. /\ cut \in [WpOps -> WpOpRecords]
        /\ \A x \in WpOps : /\ cut[x].state = wpOp[x].state
                            /\ cut[x].session = wpOp[x].session
                            /\ cut[x].run = wpOp[x].run
    BY WpAbortIs
  <2>2. wpOp' = [cut EXCEPT ![o] = op]
    BY <1>4
  <2> HIDE DEF cut
  <2> QED
    BY <2>1, <2>2 DEF WpOthersStay
<1> QED
  BY <1>2, <1>3, <1>4

\* A handler returns.
LEMMA WpReturnIs ==
    ASSUME wpOp \in [WpOps -> WpOpRecords], NEW o \in WpOps, wpOp' = WpDone(wpOp, o)
    PROVE  wpOp' \in [WpOps -> WpOpRecords] /\ WpOthersStay({o}) /\ wpOp'[o] = WpIdle
BY WpDoneIs DEF WpOthersStay

-----------------------------------------------------------------------------
\* No run, or one that was started.
WpNamed(r) == r = 0 \/ (r \in WpRunIds /\ wpRun[r].state # "none")

\* A run the page still answers for.
WpLive(r) == r \in WpRunIds /\ wpRun[r].state = "running" /\ r \notin wpGivenUp

WpRunsOK ==
    /\ wpRun \in [WpRunIds -> [state : {"none", "running", "ended"}, session : WpNames]]
    /\ \A r \in WpRunIds : wpRun[r].state # "none" => wpRun[r].session \in WpSessionIds

\* What the page names was started, in the session it is registered under.
WpPageOK ==
    /\ wpPage \in WpPages
    /\ wpPage.run = wpPage.kept /\ WpNamed(wpPage.run)
    /\ \A s \in WpSessionIds :
         /\ WpNamed(wpPage.runs[s])
         /\ wpPage.runs[s] # 0 => wpRun[wpPage.runs[s]].session = s

WpOpOK(x) ==
    /\ WpNamed(wpOp[x].run)
    /\ wpOp[x].state \in WpPlaced => wpOp[x].session \in WpSessionIds
    /\ wpOp[x].state \in {"checking", "rechecking", "reloading", "reloading ended"} => wpOp[x].run # 0
    /\ wpOp[x].state = "checking" => wpRun[wpOp[x].run].session = wpOp[x].session
    /\ wpOp[x].state = "reloading ended" => wpRun[wpOp[x].run].state = "ended"

WpOpsOK == wpOp \in [WpOps -> WpOpRecords] /\ \A x \in WpOps : WpOpOK(x)

\* A live run is the one its session has in the registry.
WpRegistryOK == \A r \in WpRunIds : WpLive(r) => wpPage.runs[wpRun[r].session] = r

\* A handler that resumes a run and still holds the stream puts no live run
\* out of the registry.
WpResumeOK ==
    \A x \in WpOps : wpOp[x].state = "checking" /\ wpPage.ctl = x =>
        \A q \in WpRunIds : WpLive(q) /\ wpRun[q].session = wpOp[x].session => q = wpOp[x].run

WpReach == WpRunsOK /\ WpPageOK /\ WpOpsOK /\ WpRegistryOK /\ WpResumeOK

-----------------------------------------------------------------------------
WpQuietStates == {"idle", "stream", "closing"}

\* What a handler that waits will write is of the session the page is at.
WpWillFit(x) ==
    /\ wpOp[x].state \in {"cancelling", "starting", "snapshot", "older", "restoring", "reloading", "reloading ended"} =>
         wpOp[x].session = wpPage.ref
    /\ wpOp[x].state = "rechecking" => wpRun[wpOp[x].run].session = wpPage.ref
    /\ wpOp[x].state = "loading" => wpPage.kept = 0

\* One handler waits at a time, but for the two effects.
WpOneWaits ==
    \A x, y \in WpOps :
        x # y /\ wpOp[x].state \notin WpQuietStates /\ wpOp[y].state \notin WpQuietStates =>
          x \in {"restore", "recover"}

WpPageFits ==
    /\ wpPage.at = wpPage.ref /\ wpPage.url = wpPage.ref
    /\ wpPage.view \subseteq {wpPage.ref}
    /\ wpPage.kept # 0 => wpRun[wpPage.kept].session = wpPage.ref

WpFits == ~wpLoose => WpPageFits /\ WpOneWaits /\ \A x \in WpOps : WpWillFit(x)

-----------------------------------------------------------------------------
\* What every step does to the runs: none is taken back or moved, and none
\* that has ended goes on.
WpRunsGrow ==
    /\ WpRunsOK'
    /\ \A r \in WpRunIds :
         /\ wpRun[r].state # "none" => wpRun'[r].state # "none" /\ wpRun'[r].session = wpRun[r].session
         /\ wpRun[r].state = "ended" => wpRun'[r].state = "ended"

WpLiveThen(r) == r \in WpRunIds /\ wpRun'[r].state = "running" /\ r \notin wpGivenUp'

\* No run becomes live.
WpNoneNew == \A r \in WpRunIds : WpLiveThen(r) => WpLive(r)

\* The page forgets at most what is not live any more.
WpMildPage ==
    /\ wpPage' \in WpPages
    /\ wpPage'.run = wpPage'.kept /\ wpPage'.run \in {0, wpPage.run}
    /\ wpPage'.ctl \in {wpPage.ctl, "none"}
    /\ \A s \in WpSessionIds :
         \/ wpPage'.runs[s] = wpPage.runs[s]
         \/ wpPage'.runs[s] = 0 /\ ~WpLiveThen(wpPage.runs[s])

LEMMA WpNamedStays ==
    ASSUME WpRunsGrow, NEW r, WpNamed(r)
    PROVE  r = 0 \/ (r \in WpRunIds /\ wpRun'[r].state # "none")
BY DEF WpNamed, WpRunsGrow

LEMMA WpOthersOK ==
    ASSUME WpOpsOK, WpRunsGrow, NEW changed, WpOthersStay(changed), NEW x \in WpOps \ changed
    PROVE  WpOpOK(x)'
<1>1. /\ wpOp'[x].state = wpOp[x].state /\ wpOp'[x].session = wpOp[x].session
      /\ wpOp'[x].run = wpOp[x].run
  BY DEF WpOthersStay
<1>2. WpOpOK(x)
  BY DEF WpOpsOK
<1> QED
  BY <1>1, <1>2, WebPageAssumption DEF WpOpOK, WpNamed, WpRunsGrow, WpRunIds

LEMMA WpMildStep ==
    ASSUME WpReach, WpRunsGrow, WpNoneNew, WpMildPage, wpOp' \in [WpOps -> WpOpRecords],
           NEW changed, WpOthersStay(changed),
           \A x \in changed : WpOpOK(x)' /\ wpOp'[x].state # "checking"
    PROVE  WpReach'
<1>1. WpRunsOK'
  BY DEF WpRunsGrow
<1>2. WpPageOK'
  <2>1. WpNamed(wpPage.run) /\ \A s \in WpSessionIds : WpNamed(wpPage.runs[s])
    BY DEF WpReach, WpPageOK
  <2>2. wpPage'.run = 0 \/ (wpPage'.run \in WpRunIds /\ wpRun'[wpPage'.run].state # "none")
    BY <2>1, WpNamedStays DEF WpMildPage
  <2>3. ASSUME NEW s \in WpSessionIds
        PROVE  /\ wpPage'.runs[s] = 0 \/ (wpPage'.runs[s] \in WpRunIds /\ wpRun'[wpPage'.runs[s]].state # "none")
               /\ wpPage'.runs[s] # 0 => wpRun'[wpPage'.runs[s]].session = s
    <3>1. CASE wpPage'.runs[s] = 0
      BY <3>1
    <3>2. CASE wpPage'.runs[s] = wpPage.runs[s] /\ wpPage.runs[s] # 0
      <4>1. /\ wpPage.runs[s] \in WpRunIds /\ wpRun[wpPage.runs[s]].state # "none"
            /\ wpRun[wpPage.runs[s]].session = s
        BY <2>1, <3>2 DEF WpNamed, WpReach, WpPageOK
      <4> QED
        BY <3>2, <4>1 DEF WpRunsGrow
    <3> QED
      BY <3>1, <3>2 DEF WpMildPage
  <2> QED
    BY <2>2, <2>3 DEF WpMildPage, WpPageOK, WpNamed
<1>3. WpOpsOK'
  BY WpOthersOK DEF WpReach, WpOpsOK
<1>4. WpRegistryOK'
  <2> SUFFICES ASSUME NEW r \in WpRunIds, WpLiveThen(r) PROVE wpPage'.runs[wpRun'[r].session] = r
    BY DEF WpRegistryOK, WpLive, WpLiveThen
  <2>1. WpLive(r)
    BY DEF WpNoneNew
  <2> DEFINE s == wpRun[r].session
  <2>2. s \in WpSessionIds /\ wpRun'[r].session = s /\ wpPage.runs[s] = r
    BY <2>1 DEF WpReach, WpRunsOK, WpRunsGrow, WpLive, WpRegistryOK
  <2>3. wpPage'.runs[s] = wpPage.runs[s] \/ ~WpLiveThen(wpPage.runs[s])
    BY <2>2 DEF WpMildPage
  <2> QED
    BY <2>2, <2>3
<1>5. WpResumeOK'
  <2> SUFFICES ASSUME NEW x \in WpOps, wpOp'[x].state = "checking", wpPage'.ctl = x,
                      NEW q \in WpRunIds, WpLiveThen(q), wpRun'[q].session = wpOp'[x].session
               PROVE  q = wpOp'[x].run
    BY DEF WpResumeOK, WpLive, WpLiveThen
  <2>1. x # "none" /\ x \notin changed
    BY WebPageAssumption DEF WpOps
  <2>2. wpPage.ctl = x
    BY <2>1 DEF WpMildPage
  <2>3. /\ wpOp'[x].state = wpOp[x].state /\ wpOp'[x].session = wpOp[x].session
        /\ wpOp'[x].run = wpOp[x].run
    BY <2>1 DEF WpOthersStay
  <2>4. WpLive(q) /\ wpRun'[q].session = wpRun[q].session
    BY DEF WpNoneNew, WpRunsGrow, WpLive
  <2> QED
    BY <2>2, <2>3, <2>4 DEF WpReach, WpResumeOK
<1> QED
  BY <1>1, <1>2, <1>3, <1>4, <1>5 DEF WpReach

-----------------------------------------------------------------------------
\* A run that is started takes an id of its own and a session.
LEMMA WpStartsRun ==
    ASSUME WpRunsOK, NEW r \in WpRunIds, NEW s, NEW n \in WpSessionIds, WpServerStarts(r, s, n)
    PROVE  /\ WpRunsGrow
           /\ wpRun[r].state = "none" /\ wpRun'[r].state = "running" /\ wpRun'[r].session = n
           /\ \A q \in WpRunIds \ {r} : wpRun'[q] = wpRun[q]
           /\ s # "none" => n = s
<1>1. /\ wpRun[r].state = "none" /\ wpRun' = [wpRun EXCEPT ![r] = [state |-> "running", session |-> n]]
      /\ s # "none" => n = s
  BY DEF WpServerStarts
<1>2. wpRun \in [WpRunIds -> [state : {"none", "running", "ended"}, session : WpNames]]
  BY DEF WpRunsOK
<1>3. /\ wpRun'[r].state = "running" /\ wpRun'[r].session = n
      /\ \A q \in WpRunIds \ {r} : wpRun'[q] = wpRun[q]
      /\ wpRun' \in [WpRunIds -> [state : {"none", "running", "ended"}, session : WpNames]]
  BY <1>1, <1>2 DEF WpNames
<1>4. WpRunsOK'
  BY <1>3 DEF WpRunsOK
<1>5. WpRunsGrow
  BY <1>1, <1>3, <1>4 DEF WpRunsGrow
<1> QED
  BY <1>1, <1>3, <1>5

\* A run that ends.
LEMMA WpEndsRun ==
    ASSUME WpRunsOK, NEW r, WpNamed(r), wpRun' = [wpRun EXCEPT ![r].state = "ended"], wpGivenUp \subseteq wpGivenUp'
    PROVE  /\ WpRunsGrow /\ WpNoneNew
           /\ ~WpLiveThen(r)
<1>1. wpRun \in [WpRunIds -> [state : {"none", "running", "ended"}, session : WpNames]]
  BY DEF WpRunsOK
<1>2. /\ wpRun' \in [WpRunIds -> [state : {"none", "running", "ended"}, session : WpNames]]
      /\ \A q \in WpRunIds : /\ wpRun'[q].session = wpRun[q].session
                             /\ wpRun'[q].state = IF q = r THEN "ended" ELSE wpRun[q].state
  BY <1>1
<1>3. WpRunsOK'
  <2>1. \A q \in WpRunIds : wpRun'[q].state # "none" => wpRun[q].state # "none"
    <3>1. 0 \notin WpRunIds
      BY DEF WpRunIds
    <3> QED
      BY <1>2, <3>1 DEF WpNamed
  <2> QED
    BY <1>2, <2>1 DEF WpRunsOK
<1> QED
  BY <1>2, <1>3 DEF WpRunsGrow, WpNoneNew, WpLive, WpLiveThen, WpNamed

\* Runs that stay as they are.
LEMMA WpSameRuns ==
    ASSUME WpRunsOK, wpRun' = wpRun, wpGivenUp \subseteq wpGivenUp'
    PROVE  WpRunsGrow /\ WpNoneNew
BY DEF WpRunsOK, WpRunsGrow, WpNoneNew, WpLive, WpLiveThen

\* A page on which nothing but what is shown, or what it follows, changes.
LEMMA WpMildIs ==
    ASSUME WpPageOK, NEW run \in {0, wpPage.run}, NEW ref, NEW at, NEW url,
           NEW ctl \in {wpPage.ctl, "none"}, NEW view,
           WpIs(wpPage', run, ref, at, url, run, wpPage.runs, ctl, view)
    PROVE  WpMildPage
BY DEF WpIs, WpMildPage, WpPageOK

\* The same, where one run that is over is taken out of the registry.
LEMMA WpMildForgets ==
    ASSUME WpPageOK, NEW run \in {0, wpPage.run}, NEW ref, NEW at, NEW url,
           NEW ctl \in {wpPage.ctl, "none"}, NEW view, NEW r, ~WpLiveThen(r),
           WpIs(wpPage', run, ref, at, url, run, [s \in WpSessionIds |-> IF wpPage.runs[s] = r THEN 0 ELSE wpPage.runs[s]], ctl, view)
    PROVE  WpMildPage
BY DEF WpIs, WpMildPage, WpPageOK

\* A handler that returns, or one that was idle and begins.
LEMMA WpIdleOK == ASSUME NEW x, wpOp'[x] = WpIdle PROVE WpOpOK(x)' /\ wpOp'[x].state = "idle"
BY DEF WpIdle, WpOpOK, WpNamed, WpPlaced

\* Nobody but o waits for an answer: the page and o fit after the step.
LEMMA WpFitsAlone ==
    ASSUME NEW o \in WpOps, \A x \in WpOps \ {o} : wpOp'[x].state \in WpQuietStates,
           WpPageFits', WpWillFit(o)'
    PROVE  WpFits'
<1>1. \A x \in WpOps \ {o} : WpWillFit(x)'
  BY DEF WpWillFit, WpQuietStates
<1>2. WpOneWaits'
  BY DEF WpOneWaits
<1> QED
  BY <1>1, <1>2 DEF WpFits

\* The page stays at its session, and no other handler begins to wait.
LEMMA WpFitsMildly ==
    ASSUME WpReach, WpFits, WpRunsGrow, NEW changed, WpOthersStay(changed), wpLoose => wpLoose',
           wpPage'.ref = wpPage.ref, wpPage'.at = wpPage.at, wpPage'.url = wpPage.url,
           wpPage'.view \subseteq wpPage.view \cup {wpPage.ref}, wpPage'.kept \in {0, wpPage.kept},
           \A x \in changed : ~wpLoose /\ wpOp'[x].state \notin WpQuietStates =>
                                wpOp[x].state \notin WpQuietStates /\ WpWillFit(x)'
    PROVE  WpFits'
<1> SUFFICES ASSUME ~wpLoose PROVE WpPageFits' /\ WpOneWaits' /\ \A x \in WpOps : WpWillFit(x)'
  BY DEF WpFits
<1>1. WpPageFits /\ WpOneWaits /\ \A x \in WpOps : WpWillFit(x)
  BY DEF WpFits
<1>2. WpPageFits'
  <2>1. wpPage.kept # 0 => wpRun'[wpPage.kept].session = wpRun[wpPage.kept].session
    BY DEF WpReach, WpPageOK, WpNamed, WpRunsGrow
  <2> QED
    BY <1>1, <2>1 DEF WpPageFits
<1>3. ASSUME NEW x \in WpOps, wpOp'[x].state \notin WpQuietStates
      PROVE  wpOp[x].state \notin WpQuietStates /\ WpWillFit(x)'
  <2>1. CASE x \notin changed
    <3>1. /\ wpOp'[x].state = wpOp[x].state /\ wpOp'[x].session = wpOp[x].session
          /\ wpOp'[x].run = wpOp[x].run
      BY <2>1 DEF WpOthersStay
    <3>2. wpOp[x].state = "rechecking" => wpRun'[wpOp[x].run].session = wpRun[wpOp[x].run].session
      BY DEF WpReach, WpOpsOK, WpOpOK, WpNamed, WpRunsGrow
    <3>3. WpWillFit(x)
      BY <1>1
    <3> QED
      BY <1>3, <3>1, <3>2, <3>3 DEF WpWillFit
  <2>2. CASE x \in changed
    BY <1>3, <2>2
  <2> QED
    BY <2>1, <2>2
<1>4. WpOneWaits'
  BY <1>1, <1>3 DEF WpOneWaits
<1>5. \A x \in WpOps : WpWillFit(x)'
  BY <1>3 DEF WpWillFit, WpQuietStates
<1> QED
  BY <1>2, <1>4, <1>5

-----------------------------------------------------------------------------
\* Initially nothing is under way.
LEMMA WpInitially == WpInit => WpReach /\ WpFits
<1> SUFFICES ASSUME WpInit PROVE WpReach /\ WpFits
  OBVIOUS
<1>1. 0 \in 0 .. WpMaxRuns
  BY WebPageAssumption
<1>2. WpIdle \in WpOpRecords
  BY <1>1 DEF WpIdle, WpOpRecords, WpKinds, WpStates, WpNames, WpControllers
<1>3. /\ wpPage = WpLoaded("none", 0, [s \in WpSessionIds |-> 0], TRUE)
      /\ [s \in WpSessionIds |-> 0] \in [WpSessionIds -> 0 .. WpMaxRuns]
  BY <1>1 DEF WpInit
<1>4. WpIs(wpPage, 0, "none", "none", "none", 0, [s \in WpSessionIds |-> 0], "none", {})
  BY <1>1, <1>3 DEF WpLoaded, WpIs, WpPages, WpNames, WpControllers
<1>5. \A x \in WpOps : wpOp[x].state = "idle" /\ WpOpOK(x)
  BY DEF WpInit, WpIdle, WpOpOK, WpNamed, WpPlaced
<1>6. WpRunsOK /\ WpOpsOK
  BY <1>2, <1>5 DEF WpInit, WpRunsOK, WpOpsOK, WpNames
<1>7. WpPageOK
  BY <1>4 DEF WpIs, WpPageOK, WpNamed
<1>8. WpRegistryOK /\ WpResumeOK
  BY <1>5 DEF WpInit, WpRegistryOK, WpResumeOK, WpLive
<1>9. WpFits
  BY <1>4, <1>5 DEF WpFits, WpPageFits, WpOneWaits, WpWillFit, WpQuietStates, WpIs
<1> QED
  BY <1>6, <1>7, <1>8, <1>9 DEF WpReach

\* An act that a handler begins: nobody waits before it, or all is loose.
LEMMA WpActAlone ==
    ASSUME WpAct, ~wpLoose', NEW x \in WpOps
    PROVE  ~wpLoose /\ wpOp[x].state \in WpQuietStates
BY DEF WpAct, WpWaiting, WpQuietStates

\* handleSubmitMessage and handleRegenerateMessage keep the invariant.
LEMMA WpSendKeeps ==
    ASSUME WpReach, WpFits, NEW o \in WpHandlers, NEW kind \in {"submit", "regenerate"},
           NEW s \in WpNames, ~wpLoose => s = wpPage.ref, WpSend(o, kind, s)
    PROVE  WpReach' /\ WpFits'
<1> DEFINE first == [WpIdle EXCEPT !.kind = kind, !.state = "cancelling", !.session = s,
                                   !.run = wpPage.run, !.ctl = wpPage.ctl]
           start == [WpIdle EXCEPT !.kind = kind, !.state = "starting", !.session = s]
<1>1. /\ wpPage \in WpPages /\ wpPage.run \in 0 .. WpMaxRuns /\ wpPage.ctl \in WpControllers
      /\ WpNamed(wpPage.run) /\ wpPage.run = wpPage.kept
      /\ wpOp \in [WpOps -> WpOpRecords] /\ o \in WpOps /\ WpRunsOK /\ WpPageOK
  BY DEF WpReach, WpPageOK, WpPages, WpOpsOK, WpOps
<1>2. /\ first \in WpOpRecords /\ start \in WpOpRecords
      /\ first.state = "cancelling" /\ first.session = s /\ first.run = wpPage.run
      /\ start.state = "starting" /\ start.session = s /\ start.run = 0
  <2>1. 0 \in 0 .. WpMaxRuns
    BY WebPageAssumption
  <2> QED
    BY <1>1, <2>1 DEF WpIdle, WpOpRecords, WpKinds, WpStates, WpControllers
<1>3. WpRunsGrow /\ WpNoneNew
  BY <1>1, WpSameRuns DEF WpSend, WpServerStays
<1>4. /\ wpOp' \in [WpOps -> WpOpRecords] /\ WpOthersStay({o})
      /\ wpOp'[o].session = s
      /\ \/ wpOp'[o].state = "cancelling" /\ wpOp'[o].run = wpPage.run
         \/ wpOp'[o].state = "starting" /\ wpOp'[o].run = 0
      /\ \E run \in {0, wpPage.run} :
           WpIs(wpPage', run, wpPage.ref, wpPage.at, wpPage.url, run, wpPage.runs, wpPage.ctl, wpPage.view)
  <2>1. CASE wpPage.run # 0
    <3>1. wpOp' = WpAbort([wpOp EXCEPT ![o] = first], wpPage.ctl) /\ wpPage' = wpPage
      BY <2>1 DEF WpSend, WpCancelling
    <3> HIDE DEF first
    <3>2. /\ wpOp' \in [WpOps -> WpOpRecords] /\ WpOthersStay({o})
          /\ wpOp'[o].session = s
          /\ wpOp'[o].state = "cancelling" /\ wpOp'[o].run = wpPage.run
      BY <1>1, <1>2, <3>1, WpPutIs
    <3>3. WpIs(wpPage', wpPage.run, wpPage.ref, wpPage.at, wpPage.url, wpPage.run, wpPage.runs, wpPage.ctl, wpPage.view)
      BY <1>1, <3>1 DEF WpIs
    <3> QED
      BY <3>2, <3>3
  <2>2. CASE wpPage.run = 0
    <3>1. wpOp' = [wpOp EXCEPT ![o] = start] /\ wpPage' = WpBegin(wpPage)
      BY <2>2 DEF WpSend
    <3> HIDE DEF start
    <3>2. /\ wpOp' \in [WpOps -> WpOpRecords] /\ WpOthersStay({o})
          /\ wpOp'[o].session = s
          /\ wpOp'[o].state = "starting" /\ wpOp'[o].run = 0
      BY <1>1, <1>2, <3>1 DEF WpOthersStay
    <3>3. WpIs(wpPage', 0, wpPage.ref, wpPage.at, wpPage.url, 0, wpPage.runs, wpPage.ctl, wpPage.view)
      BY <1>1, <3>1, WpBeginIs
    <3> QED
      BY <3>2, <3>3
  <2> QED
    BY <2>1, <2>2
<1> HIDE DEF first, start
<1>5. WpOpOK(o)'
  <2>1. wpOp'[o].run = 0 \/ (wpOp'[o].run \in WpRunIds /\ wpRun'[wpOp'[o].run].state # "none")
    BY <1>1, <1>3, <1>4, WpNamedStays
  <2> QED
    BY <1>4, <2>1 DEF WpOpOK, WpNamed, WpPlaced
<1>6. WpReach'
  <2>1. WpMildPage
    BY <1>1, <1>4, WpMildIs
  <2> QED
    BY <1>3, <1>4, <1>5, <2>1, WpMildStep
<1>7. WpFits'
  <2> SUFFICES ASSUME ~wpLoose' PROVE WpFits'
    BY DEF WpFits
  <2>1. WpAct
    BY DEF WpSend
  <2>2. ~wpLoose /\ \A x \in WpOps : wpOp[x].state \in WpQuietStates
    BY <1>1, <2>1, WpActAlone
  <2>3. \A x \in WpOps \ {o} : wpOp'[x].state \in WpQuietStates
    BY <1>4, <2>2 DEF WpOthersStay
  <2>4. /\ wpPage'.ref = wpPage.ref /\ wpPage'.at = wpPage.at /\ wpPage'.url = wpPage.url
        /\ wpPage'.view = wpPage.view /\ wpPage'.kept \in {0, wpPage.kept} /\ wpRun' = wpRun
    BY <1>1, <1>4 DEF WpIs, WpSend, WpServerStays
  <2>5. WpPageFits'
    BY <2>2, <2>4 DEF WpFits, WpPageFits
  <2>6. WpWillFit(o)'
    BY <1>4, <2>2, <2>4 DEF WpWillFit
  <2> QED
    BY <1>1, <2>3, <2>5, <2>6, WpFitsAlone
<1> QED
  BY <1>6, <1>7

-----------------------------------------------------------------------------
LEMMA WpReachTypes ==
    ASSUME WpReach
    PROVE  /\ WpRunsOK /\ WpPageOK /\ wpPage \in WpPages /\ wpPage.run = wpPage.kept
           /\ wpPage.run \in 0 .. WpMaxRuns /\ wpPage.ctl \in WpControllers
           /\ {wpPage.ref, wpPage.at, wpPage.url} \subseteq WpNames
           /\ wpPage.runs \in [WpSessionIds -> 0 .. WpMaxRuns]
           /\ wpPage.view \subseteq WpSessionIds
           /\ wpOp \in [WpOps -> WpOpRecords] /\ \A x \in WpOps : WpOpOK(x)
           /\ WpHandlers \subseteq WpOps /\ "restore" \in WpOps /\ "recover" \in WpOps
           /\ WpIs(wpPage, wpPage.run, wpPage.ref, wpPage.at, wpPage.url, wpPage.run, wpPage.runs, wpPage.ctl, wpPage.view)
BY DEF WpReach, WpPageOK, WpPages, WpOpsOK, WpOps, WpIs

\* The act of a user of which only o is left waiting.
LEMMA WpFitsAct ==
    ASSUME WpFits, WpAct, NEW o \in WpOps, WpOthersStay({o}),
           ~wpLoose => WpPageFits' /\ WpWillFit(o)'
    PROVE  WpFits'
<1> SUFFICES ASSUME ~wpLoose' PROVE WpFits'
  BY DEF WpFits
<1>1. ~wpLoose /\ \A x \in WpOps : wpOp[x].state \in WpQuietStates
  BY WpActAlone
<1> QED
  BY <1>1, WpFitsAlone DEF WpOthersStay

\* A page that stays at its session and shows no other fits it as before.
LEMMA WpPageFitsStill ==
    ASSUME WpReach, WpFits, ~wpLoose, WpRunsGrow,
           wpPage'.ref = wpPage.ref, wpPage'.at = wpPage.at, wpPage'.url = wpPage.url,
           wpPage'.view \subseteq wpPage.view \cup {wpPage.ref}, wpPage'.kept \in {0, wpPage.kept}
    PROVE  WpPageFits'
<1>1. wpPage.kept # 0 => wpRun'[wpPage.kept].session = wpRun[wpPage.kept].session
  BY DEF WpReach, WpPageOK, WpNamed, WpRunsGrow
<1> QED
  BY <1>1 DEF WpFits, WpPageFits

\* handleCancelMessage.
LEMMA WpCancelKeeps ==
    ASSUME WpReach, WpFits, NEW o \in WpHandlers, WpCancel(o)
    PROVE  WpReach' /\ WpFits'
<1> DEFINE op == [WpIdle EXCEPT !.kind = "cancel", !.state = "cancelling", !.session = wpPage.at,
                                !.run = wpPage.run, !.ctl = wpPage.ctl]
<1>1. /\ op \in WpOpRecords /\ op.state = "cancelling" /\ op.session = wpPage.at /\ op.run = wpPage.run
  BY WpReachTypes DEF WpIdle, WpOpRecords, WpKinds, WpStates
<1>2. WpAct /\ wpPage' = wpPage /\ wpRun' = wpRun /\ wpGivenUp' = wpGivenUp
  BY DEF WpCancel, WpServerStays
<1>3. wpOp' = WpAbort([wpOp EXCEPT ![o] = op], wpPage.ctl)
  BY DEF WpCancel, WpCancelling
<1> HIDE DEF op
<1>4. /\ wpOp' \in [WpOps -> WpOpRecords] /\ WpOthersStay({o})
      /\ wpOp'[o].state = "cancelling" /\ wpOp'[o].session = wpPage.at /\ wpOp'[o].run = wpPage.run
  BY <1>1, <1>3, WpReachTypes, WpPutIs
<1>5. WpRunsGrow /\ WpNoneNew
  BY <1>2, WpReachTypes, WpSameRuns
<1>6. WpReach'
  <2>1. WpOpOK(o)'
    BY <1>2, <1>4, WpReachTypes DEF WpOpOK, WpNamed, WpPlaced, WpPageOK
  <2>2. WpMildPage
    BY <1>2, WpReachTypes, WpMildIs
  <2> QED
    BY <1>4, <1>5, <2>1, <2>2, WpMildStep
<1>7. WpFits'
  <2>1. ~wpLoose => WpPageFits'
    BY <1>2 DEF WpFits, WpPageFits
  <2>2. ~wpLoose => WpWillFit(o)'
    BY <1>2, <1>4 DEF WpFits, WpPageFits, WpWillFit
  <2> QED
    BY <1>2, <1>4, <2>1, <2>2, WpReachTypes, WpFitsAct
<1> QED
  BY <1>6, <1>7

\* A handler returns, and the page is as before but for what it follows or
\* what it shows of its session.
LEMMA WpReturnKeeps ==
    ASSUME WpReach, WpFits, NEW o \in WpOps, wpOp' = WpDone(wpOp, o), wpLoose => wpLoose',
           WpRunsGrow, WpNoneNew, WpMildPage,
           ~wpLoose' => /\ wpPage'.ref = wpPage.ref /\ wpPage'.at = wpPage.at /\ wpPage'.url = wpPage.url
                        /\ wpPage'.view \subseteq wpPage.view \cup {wpPage.ref}
    PROVE  WpReach' /\ WpFits'
<1>1. wpOp' \in [WpOps -> WpOpRecords] /\ WpOthersStay({o}) /\ wpOp'[o] = WpIdle
  BY WpReachTypes, WpReturnIs
<1>2. WpOpOK(o)' /\ wpOp'[o].state = "idle"
  BY <1>1, WpIdleOK
<1>3. WpReach'
  BY <1>1, <1>2, WpMildStep
<1>4. WpFits'
  <2> SUFFICES ASSUME ~wpLoose' PROVE WpFits'
    BY DEF WpFits
  <2>1. wpPage'.kept \in {0, wpPage.kept}
    BY WpReachTypes DEF WpMildPage
  <2> QED
    BY <1>1, <1>2, <2>1, WpFitsMildly DEF WpQuietStates
<1> QED
  BY <1>3, <1>4

\* The refresh after a cancel.
LEMMA WpCancelRefreshedKeeps ==
    ASSUME WpReach, WpFits, NEW o \in WpHandlers, NEW ok \in BOOLEAN, WpCancelRefreshed(o, ok)
    PROVE  WpReach' /\ WpFits'
<1>1. /\ wpOp[o].state = "snapshot" /\ wpOp' = WpDone(wpOp, o) /\ wpRun' = wpRun /\ wpGivenUp' = wpGivenUp
      /\ wpLoose' = wpLoose
      /\ wpPage' = IF ok THEN [wpPage EXCEPT !.view = {wpOp[o].session}] ELSE wpPage
  BY DEF WpCancelRefreshed, WpServerStays, WpQuiet
<1>2. o \in WpOps /\ wpOp[o].session \in WpSessionIds /\ (~wpLoose => wpOp[o].session = wpPage.ref)
  BY <1>1, WpReachTypes DEF WpOpOK, WpPlaced, WpFits, WpWillFit
<1>3. \E view \in {wpPage.view, {wpOp[o].session}} :
        WpIs(wpPage', wpPage.run, wpPage.ref, wpPage.at, wpPage.url, wpPage.run, wpPage.runs, wpPage.ctl, view)
  BY <1>1, <1>2, WpReachTypes, WpPageFields
<1>4. WpRunsGrow /\ WpNoneNew /\ WpMildPage
  BY <1>1, <1>3, WpReachTypes, WpSameRuns, WpMildIs
<1>5. ~wpLoose' => /\ wpPage'.ref = wpPage.ref /\ wpPage'.at = wpPage.at /\ wpPage'.url = wpPage.url
                   /\ wpPage'.view \subseteq wpPage.view \cup {wpPage.ref}
  BY <1>1, <1>2, <1>3 DEF WpIs
<1> QED
  BY <1>1, <1>2, <1>4, <1>5, WpReturnKeeps

\* The stream of a handler is over.
LEMMA WpStreamOverKeeps ==
    ASSUME WpReach, WpFits, NEW o \in WpOps, WpStreamOver(o)
    PROVE  WpReach' /\ WpFits'
<1>1. /\ wpOp' = WpDone(wpOp, o) /\ wpRun' = wpRun /\ wpGivenUp' = wpGivenUp /\ wpLoose' = wpLoose
      /\ wpPage' = IF wpOp[o].kind = "recover" THEN WpSpin(WpSettle(wpPage, o), FALSE) ELSE WpSettle(wpPage, o)
  BY DEF WpStreamOver, WpServerStays, WpQuiet
<1> DEFINE ctl == IF wpPage.ctl = o THEN "none" ELSE wpPage.ctl
<1>2. WpIs(WpSettle(wpPage, o), wpPage.run, wpPage.ref, wpPage.at, wpPage.url, wpPage.run, wpPage.runs, ctl, wpPage.view)
  BY WpReachTypes, WpSettleIs
<1>3. WpIs(wpPage', wpPage.run, wpPage.ref, wpPage.at, wpPage.url, wpPage.run, wpPage.runs, ctl, wpPage.view)
  BY <1>1, <1>2, WpSmallFields DEF WpIs
<1>4. WpRunsGrow /\ WpNoneNew /\ WpMildPage
  BY <1>1, <1>3, WpReachTypes, WpSameRuns, WpMildIs
<1> QED
  BY <1>1, <1>3, <1>4, WpReturnKeeps DEF WpIs

\* A session cannot be read.
LEMMA WpSelectFailsKeeps ==
    ASSUME WpReach, WpFits, NEW o \in WpHandlers, WpSelectFails(o)
    PROVE  WpReach' /\ WpFits'
<1>1. /\ wpOp' = WpDone(wpOp, o) /\ wpRun' = wpRun /\ wpGivenUp' = wpGivenUp /\ wpLoose' = wpLoose
      /\ wpPage' = wpPage
  BY DEF WpSelectFails, WpServerStays, WpQuiet
<1>2. WpRunsGrow /\ WpNoneNew /\ WpMildPage
  BY <1>1, WpReachTypes, WpSameRuns, WpMildIs
<1> QED
  BY <1>1, <1>2, WpReachTypes, WpReturnKeeps

\* The older messages of a session come.
LEMMA WpOlderLoadedKeeps ==
    ASSUME WpReach, WpFits, NEW o \in WpHandlers, NEW ok \in BOOLEAN, WpOlderLoaded(o, ok)
    PROVE  WpReach' /\ WpFits'
<1> DEFINE view == IF ok THEN wpPage.view \cup {wpOp[o].session} ELSE wpPage.view
<1>1. /\ wpOp[o].state = "older" /\ wpOp' = WpDone(wpOp, o) /\ wpRun' = wpRun /\ wpGivenUp' = wpGivenUp
      /\ wpLoose' = wpLoose
      /\ wpPage' = [wpPage EXCEPT !.older = FALSE, !.view = view]
  BY WpReachTypes DEF WpOlderLoaded, WpServerStays, WpQuiet, WpPages
<1>2. o \in WpOps /\ wpOp[o].session \in WpSessionIds /\ (~wpLoose => wpOp[o].session = wpPage.ref)
  BY <1>1, WpReachTypes DEF WpOpOK, WpPlaced, WpFits, WpWillFit
<1>3. view \subseteq WpSessionIds /\ (~wpLoose => view \subseteq wpPage.view \cup {wpPage.ref})
  BY <1>2, WpReachTypes
<1> HIDE DEF view
<1>4. WpIs(wpPage', wpPage.run, wpPage.ref, wpPage.at, wpPage.url, wpPage.run, wpPage.runs, wpPage.ctl, view)
  BY <1>1, <1>3, WpReachTypes DEF WpIs, WpPages
<1>5. WpRunsGrow /\ WpNoneNew /\ WpMildPage
  BY <1>1, <1>4, WpReachTypes, WpSameRuns, WpMildIs
<1> QED
  BY <1>1, <1>2, <1>3, <1>4, <1>5, WpReturnKeeps DEF WpIs

\* A run that nobody follows ends.
LEMMA WpRunEndsKeeps ==
    ASSUME WpReach, WpFits, NEW r \in WpRunIds, WpRunEnds(r)
    PROVE  WpReach' /\ WpFits'
<1>1. /\ wpRun[r].state = "running" /\ wpRun' = [wpRun EXCEPT ![r].state = "ended"]
      /\ wpPage' = wpPage /\ wpOp' = wpOp /\ wpGivenUp' = wpGivenUp /\ wpLoose' = wpLoose
  BY DEF WpRunEnds, WpQuiet
<1>2. WpRunsGrow /\ WpNoneNew
  BY <1>1, WpReachTypes, WpEndsRun DEF WpNamed
<1>3. WpOthersStay({})
  BY <1>1 DEF WpOthersStay
<1>4. WpMildPage
  BY <1>1, WpReachTypes, WpMildIs
<1>5. WpReach'
  BY <1>1, <1>2, <1>3, <1>4, WpReachTypes, WpMildStep
<1> QED
  BY <1>1, <1>2, <1>3, <1>5, WpFitsMildly

\* The answer of the cancel of a run, or none.
LEMMA WpCancelAnswerKeeps ==
    ASSUME WpReach, WpFits, NEW o \in WpHandlers, NEW reached \in BOOLEAN, NEW heard \in BOOLEAN,
           WpCancelAnswer(o, reached, heard)
    PROVE  WpReach' /\ WpFits'
<1> DEFINE r == wpOp[o].run
           ctl == IF wpPage.ctl = wpOp[o].ctl THEN "none" ELSE wpPage.ctl
           released == [wpPage EXCEPT !.ctl = ctl]
           freed == WpClear(WpForget(released, r))
           runs == [s \in WpSessionIds |-> IF wpPage.runs[s] = r THEN 0 ELSE wpPage.runs[s]]
           at == IF wpOp[o].session # "none" THEN wpOp[o].session ELSE wpPage.url
<1>1. /\ o \in WpOps /\ wpOp[o] \in WpOpRecords /\ r \in 0 .. WpMaxRuns /\ WpNamed(r)
      /\ wpOp[o].session \in WpNames /\ ctl \in WpControllers
  BY WpReachTypes DEF WpOpRecords, WpOpOK, WpControllers
<1>2. /\ wpOp[o].state = "cancelling" /\ wpLoose' = wpLoose
      /\ wpRun' = IF reached THEN [wpRun EXCEPT ![r].state = "ended"] ELSE wpRun
      /\ wpGivenUp' = IF reached THEN wpGivenUp ELSE wpGivenUp \cup {r}
      /\ \/ /\ wpPage' = WpSpin(freed, FALSE)
            /\ wpOp' = IF at = "none" THEN WpDone(wpOp, o)
                       ELSE [wpOp EXCEPT ![o].state = "snapshot", ![o].session = at]
         \/ /\ wpPage' = WpBegin(freed)
            /\ wpOp' = [wpOp EXCEPT ![o] = [WpIdle EXCEPT !.kind = wpOp[o].kind, !.state = "starting", !.session = at]]
  BY WpReachTypes DEF WpCancelAnswer, WpQuiet, WpPages
<1>3. WpIs(freed, 0, wpPage.ref, wpPage.at, wpPage.url, 0, runs, ctl, wpPage.view)
  <2>1. WpIs(released, wpPage.run, wpPage.ref, wpPage.at, wpPage.url, wpPage.kept, wpPage.runs, ctl, wpPage.view)
    BY <1>1, WpReachTypes, WpPageFields
  <2> DEFINE forgot == WpForget(released, r)
  <2>2. WpIs(forgot, wpPage.run, wpPage.ref, wpPage.at, wpPage.url, wpPage.kept, runs, ctl, wpPage.view)
    <3> HIDE DEF released, ctl
    <3>1. released \in WpPages /\ released.runs = wpPage.runs
      BY <2>1 DEF WpIs
    <3>2. [s \in WpSessionIds |-> IF released.runs[s] = r THEN 0 ELSE released.runs[s]] = runs
      BY <3>1
    <3>3. WpIs(WpForget(released, r), released.run, released.ref, released.at, released.url, released.kept,
               [s \in WpSessionIds |-> IF released.runs[s] = r THEN 0 ELSE released.runs[s]],
               released.ctl, released.view)
      BY <1>1, <3>1, WpForgetIs
    <3> HIDE DEF runs
    <3> QED
      BY <2>1, <3>2, <3>3 DEF WpIs
  <2>3. WpIs(WpClear(forgot), 0, wpPage.ref, wpPage.at, wpPage.url, 0, runs, ctl, wpPage.view)
    <3> HIDE DEF forgot, runs
    <3> QED
      BY <2>2, WpClearIs DEF WpIs
  <2> QED
    BY <2>3
<1>4. WpIs(wpPage', 0, wpPage.ref, wpPage.at, wpPage.url, 0, runs, ctl, wpPage.view)
  <2> HIDE DEF freed, runs, ctl, at
  <2>1. freed \in WpPages
    BY <1>3 DEF WpIs
  <2>2. CASE wpPage' = WpSpin(freed, FALSE)
    BY <1>3, <2>1, <2>2, WpSmallFields DEF WpIs
  <2>3. CASE wpPage' = WpBegin(freed)
    BY <1>3, <2>1, <2>3, WpBeginIs DEF WpIs
  <2> QED
    BY <1>2, <2>2, <2>3
<1>5. WpRunsGrow /\ WpNoneNew /\ ~WpLiveThen(r)
  <2>1. CASE reached
    BY <1>1, <1>2, <2>1, WpReachTypes, WpEndsRun
  <2>2. CASE ~reached
    BY <1>2, <2>2, WpReachTypes, WpSameRuns DEF WpLiveThen
  <2> QED
    BY <2>1, <2>2
<1>6. WpMildPage
  BY <1>4, <1>5, WpReachTypes, WpMildForgets
<1>7. at \in WpNames /\ (~wpLoose => at = wpPage.ref)
  BY <1>1, <1>2, WpReachTypes DEF WpFits, WpPageFits, WpWillFit
<1> HIDE DEF freed, runs, at
<1>8. CASE wpOp' = WpDone(wpOp, o)
  BY <1>1, <1>2, <1>4, <1>5, <1>6, <1>8, WpReturnKeeps DEF WpIs
<1>9. CASE \/ at # "none" /\ wpOp' = [wpOp EXCEPT ![o].state = "snapshot", ![o].session = at]
           \/ wpOp' = [wpOp EXCEPT ![o] = [WpIdle EXCEPT !.kind = wpOp[o].kind, !.state = "starting", !.session = at]]
  <2>1. /\ wpOp' \in [WpOps -> WpOpRecords] /\ WpOthersStay({o}) /\ wpOp'[o].session = at
        /\ \/ wpOp'[o].state = "snapshot" /\ at # "none" /\ wpOp'[o].run = r
           \/ wpOp'[o].state = "starting" /\ wpOp'[o].run = 0
    <3>1. CASE at # "none" /\ wpOp' = [wpOp EXCEPT ![o].state = "snapshot", ![o].session = at]
      <4> DEFINE op == [wpOp[o] EXCEPT !.state = "snapshot", !.session = at]
      <4>1. op \in WpOpRecords /\ op.state = "snapshot" /\ op.session = at /\ op.run = r
        BY <1>1, <1>7 DEF WpOpRecords, WpStates, WpPlaced
      <4>2. wpOp' = [wpOp EXCEPT ![o] = op]
        BY <1>1, <3>1, WpReachTypes
      <4> HIDE DEF op
      <4> QED
        BY <1>1, <3>1, <4>1, <4>2, WpReachTypes, WpPutIs
    <3>2. CASE wpOp' = [wpOp EXCEPT ![o] = [WpIdle EXCEPT !.kind = wpOp[o].kind, !.state = "starting", !.session = at]]
      <4> DEFINE op == [WpIdle EXCEPT !.kind = wpOp[o].kind, !.state = "starting", !.session = at]
      <4>1. op \in WpOpRecords /\ op.state = "starting" /\ op.session = at /\ op.run = 0
        <5>1. 0 \in 0 .. WpMaxRuns
          BY WebPageAssumption
        <5> QED
          BY <1>1, <1>7, <5>1 DEF WpIdle, WpOpRecords, WpStates, WpControllers
      <4> HIDE DEF op
      <4> QED
        BY <1>1, <3>2, <4>1, WpReachTypes, WpPutIs DEF op
    <3> QED
      BY <1>9, <3>1, <3>2
  <2>2. WpOpOK(o)'
    <3>1. r = 0 \/ (r \in WpRunIds /\ wpRun'[r].state # "none")
      BY <1>1, <1>5, WpNamedStays
    <3> QED
      BY <1>7, <2>1, <3>1 DEF WpOpOK, WpNamed, WpPlaced, WpNames
  <2>3. WpReach'
    BY <1>5, <1>6, <2>1, <2>2, WpMildStep
  <2>4. ~wpLoose => WpWillFit(o)' /\ wpOp[o].state \notin WpQuietStates
    BY <1>2, <1>4, <1>7, <2>1 DEF WpWillFit, WpIs, WpQuietStates
  <2>5. WpFits'
    BY <1>2, <1>4, <1>5, <2>1, <2>4, WpFitsMildly DEF WpIs
  <2> QED
    BY <2>3, <2>5
<1> QED
  BY <1>2, <1>8, <1>9

\* A start without an answer, or with an error.
LEMMA WpStartFailsKeeps ==
    ASSUME WpReach, WpFits, NEW o \in WpHandlers, NEW lost \in BOOLEAN, WpStartFails(o, lost)
    PROVE  WpReach' /\ WpFits'
<1>1. o \in WpOps /\ wpOp[o] \in WpOpRecords /\ wpOp[o].session \in WpNames /\ wpOp[o].state = "starting"
  BY WpReachTypes DEF WpOpRecords, WpStartFails
<1>2. WpRunsGrow /\ WpNoneNew
  <2>1. CASE lost
    <3>1. PICK r \in WpRunIds, n \in WpSessionIds :
            WpServerStarts(r, wpOp[o].session, n) /\ wpGivenUp' = wpGivenUp \cup {r}
      BY <2>1 DEF WpStartFails
    <3>2. /\ WpRunsGrow
          /\ \A q \in WpRunIds \ {r} : wpRun'[q] = wpRun[q]
      BY <3>1, WpReachTypes, WpStartsRun
    <3> QED
      BY <3>1, <3>2 DEF WpNoneNew, WpLive, WpLiveThen
  <2>2. CASE ~lost
    BY <2>2, WpReachTypes, WpSameRuns DEF WpStartFails, WpServerStays
  <2> QED
    BY <2>1, <2>2
<1>3. CASE wpOp[o].kind = "submit" /\ wpOp[o].session # "none"
  <2> DEFINE without == WpUrlWithout(wpPage, wpOp[o].session)
             url == IF wpPage.url = wpOp[o].session THEN "none" ELSE wpPage.url
             op == [wpOp[o] EXCEPT !.session = "none"]
  <2>1. /\ wpPage' = [without EXCEPT !.at = "none"]
        /\ wpOp' = [wpOp EXCEPT ![o].session = "none"]
        /\ wpLoose'
    BY <1>3 DEF WpStartFails
  <2>2. WpIs(without, wpPage.run, wpPage.ref, wpPage.at, url, wpPage.kept, wpPage.runs, wpPage.ctl, wpPage.view)
    BY <1>1, WpReachTypes, WpSmallFields
  <2> HIDE DEF without
  <2>3. WpIs(wpPage', wpPage.run, wpPage.ref, "none", url, wpPage.run, wpPage.runs, wpPage.ctl, wpPage.view)
    BY <2>1, <2>2, WpReachTypes, WpPageFields DEF WpIs, WpNames
  <2>4. op \in WpOpRecords /\ op.state = "starting" /\ op.session = "none" /\ op.run = wpOp[o].run
    BY <1>1 DEF WpOpRecords, WpNames
  <2>5. wpOp' = [wpOp EXCEPT ![o] = op]
    BY <1>1, <2>1, WpReachTypes
  <2> HIDE DEF op
  <2>6. /\ wpOp' \in [WpOps -> WpOpRecords] /\ WpOthersStay({o})
        /\ wpOp'[o].state = "starting" /\ wpOp'[o].run = wpOp[o].run
    BY <1>1, <2>4, <2>5, WpReachTypes, WpPutIs
  <2>7. WpOpOK(o)'
    <3>1. wpOp[o].run = 0 \/ (wpOp[o].run \in WpRunIds /\ wpRun'[wpOp[o].run].state # "none")
      BY <1>1, <1>2, WpReachTypes, WpNamedStays DEF WpOpOK
    <3> QED
      BY <2>6, <3>1 DEF WpOpOK, WpNamed, WpPlaced
  <2>8. WpMildPage
    BY <2>3, WpReachTypes, WpMildIs
  <2>9. WpReach'
    BY <1>2, <2>6, <2>7, <2>8, WpMildStep
  <2> QED
    BY <2>1, <2>9 DEF WpFits
<1>4. CASE ~(wpOp[o].kind = "submit" /\ wpOp[o].session # "none")
  <2>1. wpPage' = WpSpin(wpPage, FALSE) /\ wpOp' = WpDone(wpOp, o) /\ wpLoose' = wpLoose
    BY <1>4 DEF WpStartFails
  <2>2. WpIs(wpPage', wpPage.run, wpPage.ref, wpPage.at, wpPage.url, wpPage.run, wpPage.runs, wpPage.ctl, wpPage.view)
    BY <2>1, WpReachTypes, WpSmallFields
  <2>3. WpMildPage
    BY <2>2, WpReachTypes, WpMildIs
  <2> QED
    BY <1>1, <1>2, <2>1, <2>2, <2>3, WpReturnKeeps DEF WpIs
<1> QED
  BY <1>3, <1>4

\* An event of a run's stream.
LEMMA WpEventKeeps ==
    ASSUME WpReach, WpFits, NEW o \in WpOps, NEW event \in {"delta", "run_completed", "error"}, WpEvent(o, event)
    PROVE  WpReach' /\ WpFits'
<1> DEFINE r == wpOp[o].run
           shown == [wpPage EXCEPT !.view = wpPage.view \cup {wpOp[o].session}]
           runs == [s \in WpSessionIds |-> IF wpPage.runs[s] = r THEN 0 ELSE wpPage.runs[s]]
<1>1. /\ wpOp[o] \in WpOpRecords /\ r \in 0 .. WpMaxRuns /\ WpNamed(r)
      /\ wpOp[o].state = "stream" /\ wpOp[o].session \in WpSessionIds
      /\ wpGivenUp' = wpGivenUp /\ wpLoose' = wpLoose
  BY WpReachTypes DEF WpOpRecords, WpOpOK, WpPlaced, WpEvent, WpQuiet
<1>2. WpRunsGrow /\ WpNoneNew /\ (event # "delta" => ~WpLiveThen(r))
  <2>1. CASE event = "delta"
    BY <1>1, <2>1, WpReachTypes, WpSameRuns DEF WpEvent
  <2>2. CASE event # "delta"
    <3>1. wpRun' = [wpRun EXCEPT ![r].state = "ended"]
      BY <2>2 DEF WpEvent
    <3> QED
      BY <1>1, <3>1, WpReachTypes, WpEndsRun
  <2> QED
    BY <2>1, <2>2
<1>3. WpIs(shown, wpPage.run, wpPage.ref, wpPage.at, wpPage.url, wpPage.run, wpPage.runs, wpPage.ctl,
           wpPage.view \cup {wpOp[o].session})
  BY <1>1, WpReachTypes, WpPageFields
<1>4. /\ WpMildPage
      /\ wpPage'.ref = wpPage.ref /\ wpPage'.at = wpPage.at /\ wpPage'.url = wpPage.url
      /\ wpPage'.view \subseteq wpPage.view \cup {wpPage.ref}
  <2>1. CASE ~WpApplies(o)
    <3>1. wpPage' = wpPage
      BY <2>1 DEF WpEvent
    <3> QED
      BY <3>1, WpReachTypes, WpMildIs
  <2>2. CASE WpApplies(o)
    <3>1. wpPage.run = r /\ wpOp[o].session = wpPage.ref /\ wpPage' = WpApplied(wpPage, o, event)
      BY <2>2 DEF WpEvent, WpApplies
    <3>2. CASE event = "delta"
      <4>1. wpPage' = shown
        BY <3>1, <3>2, WpReachTypes DEF WpApplied, WpPages
      <4>2. WpMildPage
        <5> HIDE DEF shown
        <5> QED
          BY <1>3, <4>1, WpReachTypes, WpMildIs
      <4> QED
        BY <1>3, <3>1, <4>1, <4>2 DEF WpIs
    <3>3. CASE event = "run_completed"
      <4>1. wpPage' = WpRelease(shown, r)
        BY <3>1, <3>3, WpReachTypes DEF WpApplied, WpPages
      <4>2. WpIs(wpPage', 0, wpPage.ref, wpPage.at, wpPage.url, 0, runs, "none", wpPage.view \cup {wpOp[o].session})
        <5> HIDE DEF shown
        <5> QED
          BY <1>1, <1>3, <3>1, <4>1, WpReleaseIs DEF WpIs
      <4>3. WpMildPage
        BY <1>2, <3>3, <4>2, WpReachTypes, WpMildForgets
      <4> QED
        BY <3>1, <4>2, <4>3 DEF WpIs
    <3>4. CASE event = "error"
      <4> DEFINE forgot == WpForget(shown, r)
      <4>1. wpPage' = WpClear(forgot)
        BY <3>1, <3>4, WpReachTypes DEF WpApplied, WpPages
      <4>2. WpIs(forgot, wpPage.run, wpPage.ref, wpPage.at, wpPage.url, wpPage.run, runs, wpPage.ctl,
                 wpPage.view \cup {wpOp[o].session})
        <5> HIDE DEF shown
        <5> QED
          BY <1>1, <1>3, WpForgetIs DEF WpIs
      <4>3. WpIs(wpPage', 0, wpPage.ref, wpPage.at, wpPage.url, 0, runs, wpPage.ctl,
                 wpPage.view \cup {wpOp[o].session})
        <5> HIDE DEF forgot, runs
        <5> QED
          BY <4>1, <4>2, WpClearIs DEF WpIs
      <4>4. WpMildPage
        BY <1>2, <3>4, <4>3, WpReachTypes, WpMildForgets
      <4> QED
        BY <3>1, <4>3, <4>4 DEF WpIs
    <3> QED
      BY <3>2, <3>3, <3>4
  <2> QED
    BY <2>1, <2>2
<1>5. /\ wpOp' \in [WpOps -> WpOpRecords] /\ WpOthersStay({o})
      /\ wpOp'[o].state \in {"stream", "closing"} /\ wpOp'[o].session = wpOp[o].session /\ wpOp'[o].run = r
  <2>1. CASE event = "delta"
    <3>1. wpOp' = wpOp
      BY <2>1 DEF WpEvent
    <3> QED
      BY <1>1, <3>1, WpReachTypes DEF WpOthersStay
  <2>2. CASE event # "delta"
    <3> DEFINE op == [wpOp[o] EXCEPT !.state = "closing"]
    <3>1. op \in WpOpRecords /\ op.state = "closing" /\ op.session = wpOp[o].session /\ op.run = r
      BY <1>1 DEF WpOpRecords, WpStates, WpPlaced
    <3>2. wpOp' = [wpOp EXCEPT ![o] = op]
      BY <2>2, WpReachTypes DEF WpEvent
    <3> HIDE DEF op
    <3> QED
      BY <3>1, <3>2, WpReachTypes, WpPutIs
  <2> QED
    BY <2>1, <2>2
<1>6. WpOpOK(o)'
  <2>1. r = 0 \/ (r \in WpRunIds /\ wpRun'[r].state # "none")
    BY <1>1, <1>2, WpNamedStays
  <2> QED
    BY <1>1, <1>5, <2>1 DEF WpOpOK, WpNamed
<1>7. WpReach'
  BY <1>2, <1>4, <1>5, <1>6, WpMildStep
<1>8. WpFits'
  <2>1. wpPage'.kept \in {0, wpPage.kept}
    BY <1>4, WpReachTypes DEF WpMildPage
  <2> QED
    BY <1>1, <1>2, <1>4, <1>5, <2>1, WpFitsMildly DEF WpQuietStates
<1> QED
  BY <1>7, <1>8

\* handleNewSession.
LEMMA WpNewSessionKeeps == ASSUME WpReach, WpFits, WpNewSession PROVE WpReach' /\ WpFits'
<1> DEFINE left == WpDetach(wpPage)
<1>1. /\ WpAct /\ wpRun' = wpRun /\ wpGivenUp' = wpGivenUp /\ wpPage' = WpReset(left)
      /\ wpOp' = wpOp \/ wpOp' = WpAbort(wpOp, wpPage.ctl)
  BY DEF WpNewSession, WpServerStays
<1>2. left \in WpPages /\ left.runs = wpPage.runs /\ left.ctl \in {wpPage.ctl, "none"}
  BY WpReachTypes, WpDetachIs DEF WpIs
<1> HIDE DEF left
<1>3. WpIs(wpPage', 0, "none", "none", "none", 0, wpPage.runs, left.ctl, {})
  BY <1>1, <1>2, WpResetIs DEF WpIs
<1>4. wpOp' \in [WpOps -> WpOpRecords] /\ WpOthersStay({})
  BY <1>1, WpReachTypes, WpAbortIs DEF WpOthersStay
<1>5. WpRunsGrow /\ WpNoneNew /\ WpMildPage
  BY <1>1, <1>2, <1>3, WpReachTypes, WpSameRuns, WpMildIs
<1>6. WpReach'
  BY <1>4, <1>5, WpMildStep
<1>7. WpFits'
  <2> SUFFICES ASSUME ~wpLoose' PROVE WpFits'
    BY DEF WpFits
  <2>1. \A x \in WpOps : wpOp'[x].state \in WpQuietStates
    BY <1>1, <1>4, WpActAlone DEF WpOthersStay
  <2>2. WpPageFits'
    BY <1>3 DEF WpIs, WpPageFits
  <2>3. "restore" \in WpOps /\ WpWillFit("restore")'
    BY <2>1, WpReachTypes DEF WpWillFit, WpQuietStates
  <2> QED
    BY <2>1, <2>2, <2>3, WpFitsAlone
<1> QED
  BY <1>6, <1>7

\* handleSelectSession.
LEMMA WpSelectKeeps ==
    ASSUME WpReach, WpFits, NEW o \in WpHandlers, NEW s \in WpSessionIds, WpSelect(o, s)
    PROVE  WpReach' /\ WpFits'
<1> DEFINE left == WpDetach(wpPage)
           clear == WpClear(left)
           op == [WpIdle EXCEPT !.kind = "select", !.state = "loading", !.session = s]
<1>1. /\ WpAct /\ wpRun' = wpRun /\ wpGivenUp' = wpGivenUp
      /\ wpPage' = [clear EXCEPT !.view = {}, !.older = FALSE]
      /\ wpOp' = [wpOp EXCEPT ![o] = op] \/ wpOp' = [WpAbort(wpOp, wpPage.ctl) EXCEPT ![o] = op]
  BY DEF WpSelect, WpServerStays
<1>2. /\ left \in WpPages /\ left.runs = wpPage.runs /\ left.ctl \in {wpPage.ctl, "none"}
      /\ left.ref = wpPage.ref /\ left.at = wpPage.at /\ left.url = wpPage.url
  BY WpReachTypes, WpDetachIs DEF WpIs
<1>3. op \in WpOpRecords /\ op.state = "loading" /\ op.session = s /\ op.run = 0
  <2>1. 0 \in 0 .. WpMaxRuns
    BY WebPageAssumption
  <2> QED
    BY <2>1 DEF WpIdle, WpOpRecords, WpKinds, WpStates, WpPlaced, WpNames, WpControllers
<1> HIDE DEF left, op
<1>4. WpIs(clear, 0, wpPage.ref, wpPage.at, wpPage.url, 0, wpPage.runs, left.ctl, left.view)
  BY <1>2, WpClearIs DEF WpIs
<1> HIDE DEF clear
<1>5. WpIs(wpPage', 0, wpPage.ref, wpPage.at, wpPage.url, 0, wpPage.runs, left.ctl, {})
  BY <1>1, <1>4 DEF WpIs, WpPages
<1>6. /\ wpOp' \in [WpOps -> WpOpRecords] /\ WpOthersStay({o})
      /\ wpOp'[o].state = "loading" /\ wpOp'[o].session = s /\ wpOp'[o].run = 0
  BY <1>1, <1>3, WpReachTypes, WpPutIs
<1>7. WpRunsGrow /\ WpNoneNew /\ WpMildPage
  BY <1>1, <1>2, <1>5, WpReachTypes, WpSameRuns, WpMildIs
<1>8. WpReach'
  <2>1. WpOpOK(o)'
    BY <1>6 DEF WpOpOK, WpNamed
  <2> QED
    BY <1>6, <1>7, <2>1, WpMildStep
<1>9. WpFits'
  <2>1. ~wpLoose => WpPageFits'
    BY <1>5 DEF WpFits, WpPageFits, WpIs
  <2>2. WpWillFit(o)'
    BY <1>5, <1>6 DEF WpWillFit, WpIs
  <2> QED
    BY <1>1, <1>6, <2>1, <2>2, WpReachTypes, WpFitsAct
<1> QED
  BY <1>8, <1>9

\* handleDeleteSession.
LEMMA WpDeleteKeeps ==
    ASSUME WpReach, WpFits, NEW o \in WpHandlers, NEW s \in WpSessionIds, WpDelete(o, s)
    PROVE  WpReach' /\ WpFits'
<1> DEFINE forgotten == WpForgetSession(wpPage, s)
           runs == [wpPage.runs EXCEPT ![s] = 0]
           op == [WpIdle EXCEPT !.kind = IF s = wpPage.at THEN "delete shown" ELSE "delete",
                                !.state = "deleting", !.session = s]
<1>1. /\ WpAct /\ wpRun' = wpRun /\ wpGivenUp' = wpGivenUp \cup {r \in WpRunIds : wpRun[r].session = s}
      /\ wpPage' = forgotten \/ wpPage' = WpSpin(WpClear(forgotten), FALSE)
      /\ wpOp' = [wpOp EXCEPT ![o] = op] \/ wpOp' = [WpAbort(wpOp, wpPage.ctl) EXCEPT ![o] = op]
  BY DEF WpDelete
<1>2. op \in WpOpRecords /\ op.state = "deleting" /\ op.session = s /\ op.run = 0
  <2>1. 0 \in 0 .. WpMaxRuns
    BY WebPageAssumption
  <2> QED
    BY <2>1 DEF WpIdle, WpOpRecords, WpKinds, WpStates, WpPlaced, WpNames, WpControllers
<1>3. WpIs(forgotten, wpPage.run, wpPage.ref, wpPage.at, wpPage.url, wpPage.run, runs, wpPage.ctl, wpPage.view)
  BY WpReachTypes, WpSmallFields
<1> HIDE DEF op, forgotten
<1>4. \E run \in {0, wpPage.run} :
        WpIs(wpPage', run, wpPage.ref, wpPage.at, wpPage.url, run, runs, wpPage.ctl, wpPage.view)
  <2>1. WpIs(WpClear(forgotten), 0, wpPage.ref, wpPage.at, wpPage.url, 0, runs, wpPage.ctl, wpPage.view)
    <3> HIDE DEF runs
    <3> QED
      BY <1>3, WpClearIs DEF WpIs
  <2> DEFINE clear == WpClear(forgotten)
  <2> HIDE DEF clear
  <2>2. WpIs(clear, 0, wpPage.ref, wpPage.at, wpPage.url, 0, runs, wpPage.ctl, wpPage.view)
    BY <2>1 DEF clear
  <2>3. WpIs(WpSpin(clear, FALSE), 0, wpPage.ref, wpPage.at, wpPage.url, 0, runs, wpPage.ctl, wpPage.view)
    <3> HIDE DEF runs
    <3> QED
      BY <2>2, WpSmallFields DEF WpIs
  <2> QED
    BY <1>1, <1>3, <2>3 DEF clear
<1>5. /\ wpOp' \in [WpOps -> WpOpRecords] /\ WpOthersStay({o})
      /\ wpOp'[o].state = "deleting" /\ wpOp'[o].session = s /\ wpOp'[o].run = 0
  BY <1>1, <1>2, WpReachTypes, WpPutIs
<1>6. WpRunsGrow /\ WpNoneNew
  BY <1>1, WpReachTypes, WpSameRuns
<1>7. WpMildPage
  <2>1. wpPage.runs[s] = 0 \/ ~WpLiveThen(wpPage.runs[s])
    BY <1>1, WpReachTypes DEF WpPageOK, WpLiveThen
  <2>2. \A t \in WpSessionIds : runs[t] = IF t = s THEN 0 ELSE wpPage.runs[t]
    BY WpReachTypes
  <2> HIDE DEF runs
  <2> QED
    BY <1>4, <2>1, <2>2, WpReachTypes DEF WpMildPage, WpIs
<1>8. WpReach'
  <2>1. WpOpOK(o)'
    BY <1>5 DEF WpOpOK, WpNamed
  <2> QED
    BY <1>5, <1>6, <1>7, <2>1, WpMildStep
<1>9. WpFits'
  <2>1. ~wpLoose => WpPageFits'
    <3> HIDE DEF runs
    <3>1. /\ wpPage'.ref = wpPage.ref /\ wpPage'.at = wpPage.at /\ wpPage'.url = wpPage.url
          /\ wpPage'.view = wpPage.view /\ wpPage'.kept \in {0, wpPage.kept}
      BY <1>4, WpReachTypes DEF WpIs
    <3> QED
      BY <1>6, <3>1, WpPageFitsStill
  <2>2. WpWillFit(o)'
    BY <1>5 DEF WpWillFit
  <2> QED
    BY <1>1, <1>5, <2>1, <2>2, WpReachTypes, WpFitsAct
<1> QED
  BY <1>8, <1>9

\* While a handler waits and nothing is loose, nobody else does.
LEMMA WpNobodyElse ==
    ASSUME WpFits, ~wpLoose, NEW o \in WpHandlers, wpOp[o].state \notin WpQuietStates,
           NEW x \in WpOps \ {o}
    PROVE  wpOp[x].state \in WpQuietStates
BY WebPageAssumption DEF WpFits, WpOneWaits, WpOps

\* The answer of a deletion.
LEMMA WpDeletedKeeps ==
    ASSUME WpReach, WpFits, NEW o \in WpHandlers, NEW ok \in BOOLEAN, WpDeleted(o, ok)
    PROVE  WpReach' /\ WpFits'
<1> DEFINE s == wpOp[o].session
<1>1. /\ o \in WpOps /\ wpOp[o].state = "deleting" /\ wpOp' = WpDone(wpOp, o)
      /\ wpGivenUp' = wpGivenUp /\ wpLoose' = wpLoose
      /\ wpPage' = wpPage \/ wpPage' = WpReset(wpPage)
      /\ \/ wpRun' = wpRun
         \/ wpRun' = [r \in WpRunIds |-> IF wpRun[r].session = s THEN [wpRun[r] EXCEPT !.state = "ended"] ELSE wpRun[r]]
  BY WpReachTypes DEF WpDeleted, WpQuiet
<1>2. s \in WpSessionIds
  BY <1>1, WpReachTypes DEF WpOpOK, WpPlaced
<1> HIDE DEF s
<1>3. WpRunsGrow /\ WpNoneNew
  <2>1. CASE wpRun' = wpRun
    BY <1>1, <2>1, WpReachTypes, WpSameRuns
  <2>2. CASE wpRun' = [r \in WpRunIds |-> IF wpRun[r].session = s THEN [wpRun[r] EXCEPT !.state = "ended"] ELSE wpRun[r]]
    <3>1. wpRun \in [WpRunIds -> [state : {"none", "running", "ended"}, session : WpNames]]
      BY WpReachTypes DEF WpRunsOK
    <3>2. /\ wpRun' \in [WpRunIds -> [state : {"none", "running", "ended"}, session : WpNames]]
          /\ \A r \in WpRunIds : /\ wpRun'[r].session = wpRun[r].session
                                 /\ wpRun'[r].state = IF wpRun[r].session = s THEN "ended" ELSE wpRun[r].state
      BY <2>2, <3>1
    <3>3. WpRunsOK'
      BY <1>2, <3>2, WpReachTypes DEF WpRunsOK
    <3> QED
      BY <1>1, <3>2, <3>3 DEF WpRunsGrow, WpNoneNew, WpLive, WpLiveThen
  <2> QED
    BY <1>1, <2>1, <2>2
<1>4. CASE wpPage' = wpPage
  <2>1. WpMildPage
    BY <1>4, WpReachTypes, WpMildIs
  <2> QED
    BY <1>1, <1>3, <1>4, <2>1, WpReachTypes, WpReturnKeeps
<1>5. CASE wpPage' = WpReset(wpPage)
  <2>1. WpIs(wpPage', 0, "none", "none", "none", 0, wpPage.runs, wpPage.ctl, {})
    BY <1>5, WpReachTypes, WpResetIs
  <2>2. WpMildPage
    BY <2>1, WpReachTypes, WpMildIs
  <2>3. /\ wpOp' \in [WpOps -> WpOpRecords] /\ WpOthersStay({o}) /\ wpOp'[o].state = "idle" /\ WpOpOK(o)'
    BY <1>1, WpReachTypes, WpReturnIs, WpIdleOK
  <2>4. WpReach'
    BY <1>3, <2>2, <2>3, WpMildStep
  <2>5. WpFits'
    <3> SUFFICES ASSUME ~wpLoose PROVE WpFits'
      BY <1>1 DEF WpFits
    <3>1. \A x \in WpOps \ {o} : wpOp'[x].state \in WpQuietStates
      BY <1>1, <2>3, WpNobodyElse DEF WpOthersStay, WpQuietStates
    <3>2. WpPageFits' /\ WpWillFit(o)'
      BY <2>1, <2>3 DEF WpIs, WpPageFits, WpWillFit
    <3> QED
      BY <1>1, <3>1, <3>2, WpFitsAlone
  <2> QED
    BY <2>4, <2>5
<1> QED
  BY <1>1, <1>4, <1>5

\* handleLoadOlderMessages.
LEMMA WpLoadOlderKeeps ==
    ASSUME WpReach, WpFits, NEW o \in WpHandlers, WpLoadOlder(o)
    PROVE  WpReach' /\ WpFits'
<1> DEFINE here == WpHere(wpPage)
           op == [WpIdle EXCEPT !.kind = "older", !.state = "older", !.session = here]
<1>1. /\ WpAct /\ wpRun' = wpRun /\ wpGivenUp' = wpGivenUp
      /\ wpPage' = [wpPage EXCEPT !.older = TRUE] /\ here \in WpSessionIds
      /\ wpOp' = [wpOp EXCEPT ![o] = op]
  BY WpReachTypes DEF WpLoadOlder, WpServerStays
<1>2. ~wpLoose => here = wpPage.ref
  BY DEF WpFits, WpPageFits, WpHere
<1> HIDE DEF here
<1>3. op \in WpOpRecords /\ op.state = "older" /\ op.session = here /\ op.run = 0
  <2>1. 0 \in 0 .. WpMaxRuns
    BY WebPageAssumption
  <2> QED
    BY <1>1, <2>1 DEF WpIdle, WpOpRecords, WpKinds, WpStates, WpPlaced, WpNames, WpControllers
<1> HIDE DEF op
<1>4. WpIs(wpPage', wpPage.run, wpPage.ref, wpPage.at, wpPage.url, wpPage.run, wpPage.runs, wpPage.ctl, wpPage.view)
  BY <1>1, WpReachTypes, WpPageFields
<1>5. /\ wpOp' \in [WpOps -> WpOpRecords] /\ WpOthersStay({o})
      /\ wpOp'[o].state = "older" /\ wpOp'[o].session = here /\ wpOp'[o].run = 0
  BY <1>1, <1>3, WpReachTypes, WpPutIs
<1>6. WpRunsGrow /\ WpNoneNew /\ WpMildPage
  BY <1>1, <1>4, WpReachTypes, WpSameRuns, WpMildIs
<1>7. WpReach'
  <2>1. WpOpOK(o)'
    BY <1>1, <1>5 DEF WpOpOK, WpNamed
  <2> QED
    BY <1>5, <1>6, <2>1, WpMildStep
<1>8. WpFits'
  <2>1. ~wpLoose => WpPageFits'
    BY <1>4, <1>6, WpReachTypes, WpPageFitsStill DEF WpIs
  <2>2. ~wpLoose => WpWillFit(o)'
    BY <1>2, <1>4, <1>5 DEF WpWillFit, WpIs
  <2> QED
    BY <1>1, <1>5, <2>1, <2>2, WpReachTypes, WpFitsAct
<1> QED
  BY <1>7, <1>8

\* handleLogout.
LEMMA WpLogoutKeeps == ASSUME WpReach, WpFits, WpLogout PROVE WpReach' /\ WpFits'
<1> DEFINE reset == WpReset(wpPage)
<1>1. /\ WpAct /\ wpRun' = wpRun /\ wpGivenUp' = wpGivenUp
      /\ wpPage' = [reset EXCEPT !.signed = FALSE]
      /\ wpOp' = [wpOp EXCEPT !["restore"] = WpIdle, !["recover"] = WpIdle]
  BY DEF WpLogout, WpServerStays
<1>2. WpIs(reset, 0, "none", "none", "none", 0, wpPage.runs, wpPage.ctl, {})
  BY WpReachTypes, WpResetIs
<1> HIDE DEF reset
<1>3. WpIs(wpPage', 0, "none", "none", "none", 0, wpPage.runs, wpPage.ctl, {})
  BY <1>1, <1>2, WpPageFields DEF WpIs
<1> DEFINE effects == {"restore", "recover"}
<1>4. /\ wpOp' \in [WpOps -> WpOpRecords] /\ WpOthersStay(effects)
      /\ \A x \in effects : wpOp'[x] = WpIdle
  <2>1. WpIdle \in WpOpRecords
    <3>1. 0 \in 0 .. WpMaxRuns
      BY WebPageAssumption
    <3> QED
      BY <3>1 DEF WpIdle, WpOpRecords, WpKinds, WpStates, WpNames, WpControllers
  <2> QED
    BY <1>1, <2>1, WpReachTypes DEF WpOthersStay
<1>5. WpRunsGrow /\ WpNoneNew /\ WpMildPage
  BY <1>1, <1>3, WpReachTypes, WpSameRuns, WpMildIs
<1>6. WpReach'
  BY <1>4, <1>5, WpIdleOK, WpMildStep
<1>7. WpFits'
  <2> SUFFICES ASSUME ~wpLoose' PROVE WpFits'
    BY DEF WpFits
  <2>1. \A x \in WpOps : wpOp'[x].state \in WpQuietStates
    BY <1>1, <1>4, WpActAlone, WpIdleOK DEF WpOthersStay, WpQuietStates
  <2>2. WpPageFits'
    BY <1>3 DEF WpIs, WpPageFits
  <2>3. "restore" \in WpOps /\ WpWillFit("restore")'
    BY <2>1, WpReachTypes DEF WpWillFit, WpQuietStates
  <2> QED
    BY <2>1, <2>2, <2>3, WpFitsAlone
<1> QED
  BY <1>6, <1>7

\* The session in the URL is read.
LEMMA WpRestoredKeeps ==
    ASSUME WpReach, WpFits, NEW ok \in BOOLEAN, WpRestored(ok)
    PROVE  WpReach' /\ WpFits'
<1> DEFINE s == wpOp["restore"].session
           without == WpUrlWithout(wpPage, s)
<1>1. /\ wpOp["restore"].state = "restoring" /\ wpOp' = WpDone(wpOp, "restore")
      /\ wpRun' = wpRun /\ wpGivenUp' = wpGivenUp /\ wpLoose' = (wpLoose \/ ~ok)
      /\ wpPage' = IF ok THEN [wpPage EXCEPT !.view = {s}] ELSE [without EXCEPT !.ref = "none", !.at = "none"]
  BY DEF WpRestored, WpServerStays
<1>2. s \in WpSessionIds /\ (~wpLoose => s = wpPage.ref)
  BY <1>1, WpReachTypes DEF WpOpOK, WpPlaced, WpFits, WpWillFit
<1> HIDE DEF s
<1>3. WpRunsGrow /\ WpNoneNew
  BY <1>1, WpReachTypes, WpSameRuns
<1>4. CASE ok
  <2>1. WpIs(wpPage', wpPage.run, wpPage.ref, wpPage.at, wpPage.url, wpPage.run, wpPage.runs, wpPage.ctl, {s})
    BY <1>1, <1>2, <1>4, WpReachTypes, WpPageFields
  <2>2. WpMildPage
    BY <2>1, WpReachTypes, WpMildIs
  <2> QED
    BY <1>1, <1>2, <1>3, <2>1, <2>2, WpReachTypes, WpReturnKeeps DEF WpIs
<1>5. CASE ~ok
  <2> DEFINE url == IF wpPage.url = s THEN "none" ELSE wpPage.url
  <2>1. WpIs(without, wpPage.run, wpPage.ref, wpPage.at, url, wpPage.run, wpPage.runs, wpPage.ctl, wpPage.view)
    BY <1>2, WpReachTypes, WpSmallFields DEF WpNames
  <2> HIDE DEF without, url
  <2>2. WpIs(wpPage', wpPage.run, "none", "none", url, wpPage.run, wpPage.runs, wpPage.ctl, wpPage.view)
    BY <1>1, <1>5, <2>1 DEF WpIs, WpPages, WpNames
  <2>3. WpMildPage
    BY <2>2, WpReachTypes, WpMildIs
  <2> QED
    BY <1>1, <1>3, <1>5, <2>3, WpReachTypes, WpReturnKeeps
<1> QED
  BY <1>4, <1>5

-----------------------------------------------------------------------------
\* A step that makes the page follow another run, or register one.
LEMMA WpMoveStep ==
    ASSUME WpReach, WpRunsGrow, wpOp' \in [WpOps -> WpOpRecords], NEW changed, WpOthersStay(changed),
           \A x \in changed : WpOpOK(x)',
           wpPage' \in WpPages, wpPage'.run = wpPage'.kept,
           wpPage'.run \in {0, wpPage.run} \/ (wpPage'.run \in WpRunIds /\ wpRun'[wpPage'.run].state # "none"),
           \A s \in WpSessionIds :
              \/ wpPage'.runs[s] \in {0, wpPage.runs[s]}
              \/ /\ wpPage'.runs[s] \in WpRunIds /\ wpRun'[wpPage'.runs[s]].state # "none"
                 /\ wpRun'[wpPage'.runs[s]].session = s,
           WpRegistryOK', WpResumeOK'
    PROVE  WpReach'
<1>1. wpPage'.run = 0 \/ (wpPage'.run \in WpRunIds /\ wpRun'[wpPage'.run].state # "none")
  BY WpReachTypes, WpNamedStays DEF WpPageOK
<1>2. ASSUME NEW s \in WpSessionIds
      PROVE  /\ wpPage'.runs[s] = 0 \/ (wpPage'.runs[s] \in WpRunIds /\ wpRun'[wpPage'.runs[s]].state # "none")
             /\ wpPage'.runs[s] # 0 => wpRun'[wpPage'.runs[s]].session = s
  <2>1. CASE wpPage'.runs[s] = wpPage.runs[s] /\ wpPage.runs[s] # 0
    <3>1. /\ wpPage.runs[s] \in WpRunIds /\ wpRun[wpPage.runs[s]].state # "none"
          /\ wpRun[wpPage.runs[s]].session = s
      BY <2>1, WpReachTypes DEF WpNamed, WpPageOK
    <3> QED
      BY <2>1, <3>1 DEF WpRunsGrow
  <2> QED
    BY <2>1 DEF WpRunIds
<1>3. WpPageOK'
  BY <1>1, <1>2 DEF WpPageOK, WpNamed
<1>4. WpOpsOK'
  BY WpOthersOK DEF WpReach, WpOpsOK
<1> QED
  BY <1>3, <1>4 DEF WpReach, WpRunsGrow

\* A run that takes the place of its session in the registry.
LEMMA WpRegisters ==
    ASSUME WpReach, WpRunsGrow, NEW s \in WpSessionIds, NEW r \in WpRunIds, wpRun'[r].session = s,
           \A q \in WpRunIds \ {r} : WpLiveThen(q) => WpLive(q),
           wpPage'.runs = [wpPage.runs EXCEPT ![s] = r],
           wpGivenUp' = wpGivenUp \cup WpOusted(s, r)
    PROVE  WpRegistryOK'
<1> SUFFICES ASSUME NEW q \in WpRunIds, WpLiveThen(q) PROVE wpPage'.runs[wpRun'[q].session] = q
  BY DEF WpRegistryOK, WpLive, WpLiveThen
<1>1. CASE q = r
  BY <1>1, WpReachTypes
<1>2. CASE q # r
  <2>1. WpLive(q)
    BY <1>2
  <2>2. /\ wpRun[q].session \in WpSessionIds /\ wpRun'[q].session = wpRun[q].session
        /\ wpPage.runs[wpRun[q].session] = q
    BY <2>1 DEF WpReach, WpRunsOK, WpRunsGrow, WpLive, WpRegistryOK
  <2>3. wpRun[q].session # s
    BY <1>2, <2>2 DEF WpLiveThen, WpOusted
  <2> QED
    BY <2>2, <2>3, WpReachTypes
<1> QED
  BY <1>1, <1>2

\* The answer of a start.
LEMMA WpStartedKeeps ==
    ASSUME WpReach, WpFits, NEW o \in WpHandlers, WpStarted(o)
    PROVE  WpReach' /\ WpFits'
<1>1. o \in WpOps /\ wpOp[o] \in WpOpRecords /\ wpOp[o].state = "starting" /\ wpLoose' = wpLoose
  BY WpReachTypes DEF WpStarted, WpQuiet
<1>2. PICK r \in WpRunIds, n \in WpSessionIds :
        /\ WpServerStarts(r, wpOp[o].session, n)
        /\ wpPage' = [WpFollow(wpPage, o, n, r) EXCEPT !.view = IF wpOp[o].kind = "submit" THEN @ \cup {n} ELSE @]
        /\ wpOp' = [wpOp EXCEPT ![o].state = "stream", ![o].session = n, ![o].run = r]
        /\ wpGivenUp' = wpGivenUp \cup WpOusted(n, r)
  BY DEF WpStarted
<1>3. r \in 0 .. WpMaxRuns
  BY WebPageAssumption DEF WpRunIds
<1>4. /\ WpRunsGrow
      /\ wpRun[r].state = "none" /\ wpRun'[r].state = "running" /\ wpRun'[r].session = n
      /\ \A q \in WpRunIds \ {r} : wpRun'[q] = wpRun[q]
      /\ wpOp[o].session # "none" => n = wpOp[o].session
  BY <1>2, WpReachTypes, WpStartsRun
<1> DEFINE follow == WpFollow(wpPage, o, n, r)
           runs == [wpPage.runs EXCEPT ![n] = r]
           view == IF wpOp[o].kind = "submit" THEN wpPage.view \cup {n} ELSE wpPage.view
           op == [wpOp[o] EXCEPT !.state = "stream", !.session = n, !.run = r]
<1>5. WpIs(follow, r, n, n, n, r, runs, o, wpPage.view)
  BY <1>1, <1>3, WpReachTypes, WpFollowIs
<1>6. wpPage' = [follow EXCEPT !.view = view]
  <2>1. wpPage' = [follow EXCEPT !.view = IF wpOp[o].kind = "submit" THEN @ \cup {n} ELSE @]
    BY <1>2
  <2> HIDE DEF follow
  <2> QED
    BY <1>5, <2>1 DEF WpIs, WpPages
<1>7. op \in WpOpRecords /\ op.state = "stream" /\ op.session = n /\ op.run = r
  BY <1>1, <1>3 DEF WpOpRecords, WpStates, WpPlaced, WpNames
<1>8. wpOp' = [wpOp EXCEPT ![o] = op]
  BY <1>1, <1>2, WpReachTypes
<1> HIDE DEF follow, op
<1>9. WpIs(wpPage', r, n, n, n, r, runs, o, view)
  <2>1. view \in SUBSET WpSessionIds
    BY WpReachTypes
  <2> HIDE DEF view, runs
  <2> QED
    BY <1>5, <1>6, <2>1, WpPageFields DEF WpIs
<1>10. /\ wpOp' \in [WpOps -> WpOpRecords] /\ WpOthersStay({o})
       /\ wpOp'[o].state = "stream" /\ wpOp'[o].session = n /\ wpOp'[o].run = r
  BY <1>1, <1>7, <1>8, WpReachTypes, WpPutIs
<1>11. WpOpOK(o)'
  BY <1>4, <1>10 DEF WpOpOK, WpNamed
<1>12. WpRegistryOK'
  <2>1. \A q \in WpRunIds \ {r} : WpLiveThen(q) => WpLive(q)
    BY <1>2, <1>4 DEF WpLive, WpLiveThen
  <2> QED
    BY <1>2, <1>4, <1>9, <2>1, WpRegisters DEF WpIs
<1>13. WpResumeOK'
  BY <1>9, <1>10 DEF WpResumeOK, WpIs
<1>14. WpReach'
  <2>1. \A s \in WpSessionIds : runs[s] = IF s = n THEN r ELSE wpPage.runs[s]
    BY WpReachTypes
  <2> HIDE DEF runs, view
  <2>2. /\ wpPage' \in WpPages /\ wpPage'.run = wpPage'.kept /\ wpPage'.run = r /\ wpPage'.runs = runs
    BY <1>9 DEF WpIs
  <2>3. ASSUME NEW s \in WpSessionIds
        PROVE  \/ wpPage'.runs[s] \in {0, wpPage.runs[s]}
               \/ /\ wpPage'.runs[s] \in WpRunIds /\ wpRun'[wpPage'.runs[s]].state # "none"
                  /\ wpRun'[wpPage'.runs[s]].session = s
    BY <1>4, <2>1, <2>2
  <2>4. wpPage'.run \in WpRunIds /\ wpRun'[wpPage'.run].state # "none"
    BY <1>4, <2>2
  <2> QED
    BY <1>4, <1>10, <1>11, <1>12, <1>13, <2>2, <2>3, <2>4, WpMoveStep
<1>15. WpFits'
  <2> SUFFICES ASSUME ~wpLoose PROVE WpFits'
    BY <1>1 DEF WpFits
  <2>1. \A x \in WpOps \ {o} : wpOp'[x].state \in WpQuietStates
    BY <1>1, <1>10, WpNobodyElse DEF WpOthersStay, WpQuietStates
  <2>2. wpOp[o].session = wpPage.ref /\ wpPage.view \subseteq {wpPage.ref}
    BY <1>1 DEF WpFits, WpPageFits, WpWillFit
  <2>3. view \subseteq {n}
    BY <1>4, <2>2, WebPageAssumption, WpReachTypes
  <2> HIDE DEF view, runs
  <2>4. WpPageFits'
    BY <1>4, <1>9, <2>3 DEF WpPageFits, WpIs
  <2>5. WpWillFit(o)'
    BY <1>10 DEF WpWillFit
  <2> QED
    BY <1>1, <2>1, <2>4, <2>5, WpFitsAlone
<1> QED
  BY <1>14, <1>15

\* The answer of the selection of a session, whose run is followed again.
LEMMA WpSelectedKeeps ==
    ASSUME WpReach, WpFits, NEW o \in WpHandlers, WpSelected(o)
    PROVE  WpReach' /\ WpFits'
<1> DEFINE s == wpOp[o].session
           r == wpPage.runs[s]
           there == WpGoTo(wpPage, s)
           shown == [there EXCEPT !.view = {s}]
<1>1. /\ o \in WpOps /\ wpOp[o] \in WpOpRecords /\ wpOp[o].state = "loading"
      /\ wpRun' = wpRun /\ wpGivenUp' = wpGivenUp /\ wpLoose' = wpLoose
      /\ s \in WpSessionIds
  BY WpReachTypes DEF WpSelected, WpServerStays, WpQuiet, WpOpOK, WpPlaced
<1>2. \/ r = 0 /\ wpPage' = shown /\ wpOp' = WpDone(wpOp, o)
      \/ /\ r # 0
         /\ wpPage' = [WpSpin(WpActivate(shown, r), TRUE) EXCEPT !.ctl = o, !.kept = r]
         /\ wpOp' = [wpOp EXCEPT ![o].state = "checking", ![o].run = r]
  BY DEF WpSelected
<1>3. WpIs(there, wpPage.run, s, s, s, wpPage.kept, wpPage.runs, wpPage.ctl, wpPage.view)
  BY <1>1, WpReachTypes, WpGoToIs DEF WpNames
<1>4. WpIs(shown, wpPage.run, s, s, s, wpPage.kept, wpPage.runs, wpPage.ctl, {s})
  <2> HIDE DEF there, s
  <2> QED
    BY <1>1, <1>3, WpPageFields DEF WpIs
<1>5. /\ r \in 0 .. WpMaxRuns /\ WpNamed(r) /\ (r # 0 => wpRun[r].session = s)
      /\ \A q \in WpRunIds : WpLive(q) /\ wpRun[q].session = s => q = r
  BY <1>1, WpReachTypes DEF WpPageOK, WpReach, WpRegistryOK
<1>6. WpRunsGrow /\ WpNoneNew
  BY <1>1, WpReachTypes, WpSameRuns
<1>7. ~wpLoose => \A x \in WpOps \ {o} : wpOp[x].state \in WpQuietStates
  BY <1>1, WpNobodyElse DEF WpQuietStates
<1> HIDE DEF shown, r
<1>8. CASE r = 0 /\ wpPage' = shown /\ wpOp' = WpDone(wpOp, o)
  <2>1. WpIs(wpPage', wpPage.run, s, s, s, wpPage.run, wpPage.runs, wpPage.ctl, {s})
    BY <1>4, <1>8, WpReachTypes
  <2>2. WpMildPage
    BY <2>1, WpReachTypes, WpMildIs
  <2>3. /\ wpOp' \in [WpOps -> WpOpRecords] /\ WpOthersStay({o}) /\ wpOp'[o].state = "idle" /\ WpOpOK(o)'
    BY <1>1, <1>8, WpReachTypes, WpReturnIs, WpIdleOK
  <2>4. WpReach'
    BY <1>6, <2>2, <2>3, WpMildStep
  <2>5. WpFits'
    <3> SUFFICES ASSUME ~wpLoose PROVE WpFits'
      BY <1>1 DEF WpFits
    <3>1. wpPage.kept = 0
      BY <1>1 DEF WpFits, WpWillFit
    <3>2. WpPageFits' /\ WpWillFit(o)'
      BY <2>1, <2>3, <3>1, WpReachTypes DEF WpIs, WpPageFits, WpWillFit
    <3>3. \A x \in WpOps \ {o} : wpOp'[x].state \in WpQuietStates
      BY <1>7, <2>3 DEF WpOthersStay
    <3> QED
      BY <1>1, <3>2, <3>3, WpFitsAlone
  <2> QED
    BY <2>4, <2>5
<1>9. CASE /\ r # 0
           /\ wpPage' = [WpSpin(WpActivate(shown, r), TRUE) EXCEPT !.ctl = o, !.kept = r]
           /\ wpOp' = [wpOp EXCEPT ![o].state = "checking", ![o].run = r]
  <2> DEFINE active == WpActivate(shown, r)
             spun == WpSpin(active, TRUE)
             op == [wpOp[o] EXCEPT !.state = "checking", !.run = r]
  <2>1. WpIs(active, r, s, s, s, wpPage.kept, wpPage.runs, wpPage.ctl, {s})
    BY <1>4, <1>5, WpSmallFields DEF WpIs
  <2> HIDE DEF active
  <2>2. WpIs(spun, r, s, s, s, wpPage.kept, wpPage.runs, wpPage.ctl, {s})
    BY <2>1, WpSmallFields DEF WpIs
  <2>3. wpPage' = [spun EXCEPT !.ctl = o, !.kept = r]
    BY <1>9 DEF active
  <2> HIDE DEF spun
  <2>4. WpIs(wpPage', r, s, s, s, r, wpPage.runs, o, {s})
    BY <1>1, <1>5, <2>2, <2>3 DEF WpIs, WpPages, WpControllers
  <2>5. op \in WpOpRecords /\ op.state = "checking" /\ op.session = s /\ op.run = r
    BY <1>1, <1>5 DEF WpOpRecords, WpStates, WpPlaced
  <2>6. wpOp' = [wpOp EXCEPT ![o] = op]
    BY <1>1, <1>9, WpReachTypes
  <2> HIDE DEF op, s
  <2>7. /\ wpOp' \in [WpOps -> WpOpRecords] /\ WpOthersStay({o})
        /\ wpOp'[o].state = "checking" /\ wpOp'[o].session = s /\ wpOp'[o].run = r
    BY <1>1, <2>5, <2>6, WpReachTypes, WpPutIs
  <2>8. WpOpOK(o)'
    BY <1>1, <1>5, <1>9, <2>7 DEF WpOpOK, WpNamed
  <2>9. WpRegistryOK' /\ WpResumeOK'
    <3>1. WpRegistryOK'
      BY <1>1, <2>4 DEF WpReach, WpRegistryOK, WpLive, WpIs
    <3>2. WpResumeOK'
      BY <1>1, <1>5, <2>4, <2>7 DEF WpResumeOK, WpLive, WpIs
    <3> QED
      BY <3>1, <3>2
  <2>10. WpReach'
    <3>1. /\ wpPage' \in WpPages /\ wpPage'.run = wpPage'.kept /\ wpPage'.runs = wpPage.runs
          /\ wpPage'.run \in WpRunIds /\ wpRun'[wpPage'.run].state # "none"
      BY <1>1, <1>5, <1>9, <2>4 DEF WpIs, WpNamed
    <3> QED
      BY <1>6, <2>7, <2>8, <2>9, <3>1, WpMoveStep
  <2>11. WpFits'
    <3> SUFFICES ASSUME ~wpLoose PROVE WpFits'
      BY <1>1 DEF WpFits
    <3>1. WpPageFits'
      BY <1>1, <1>5, <2>4 DEF WpIs, WpPageFits
    <3>2. WpWillFit(o)'
      BY <2>7 DEF WpWillFit
    <3>3. \A x \in WpOps \ {o} : wpOp'[x].state \in WpQuietStates
      BY <1>7, <2>7 DEF WpOthersStay
    <3> QED
      BY <1>1, <3>1, <3>2, <3>3, WpFitsAlone
  <2> QED
    BY <2>10, <2>11
<1> QED
  BY <1>2, <1>8, <1>9

\* The answer of the check before a run is resumed.
LEMMA WpResumedKeeps ==
    ASSUME WpReach, WpFits, NEW o \in WpHandlers, NEW ok \in BOOLEAN, WpResumed(o, ok)
    PROVE  WpReach' /\ WpFits'
<1> DEFINE s == wpOp[o].session
           r == wpOp[o].run
           kept == WpRemember(wpPage, s, r)
           runs == [wpPage.runs EXCEPT ![s] = r]
<1>1. /\ o \in WpOps /\ wpOp[o] \in WpOpRecords /\ wpOp[o].state = "checking"
      /\ wpRun' = wpRun /\ wpGivenUp' = wpGivenUp /\ wpLoose' = wpLoose
      /\ s \in WpSessionIds /\ r # 0 /\ r \in WpRunIds /\ r \in 0 .. WpMaxRuns
      /\ wpRun[r].state # "none" /\ wpRun[r].session = s
  <2>1. o \in WpOps /\ wpOp[o] \in WpOpRecords /\ wpOp[o].state = "checking" /\ WpOpOK(o)
    BY WpReachTypes DEF WpResumed
  <2>2. r \in 0 .. WpMaxRuns
    BY <2>1 DEF WpOpRecords
  <2> QED
    BY <2>1, <2>2 DEF WpResumed, WpServerStays, WpQuiet, WpOpOK, WpPlaced, WpNamed
<1>2. WpRunsGrow /\ WpNoneNew
  BY <1>1, WpReachTypes, WpSameRuns
<1>3. WpIs(kept, wpPage.run, wpPage.ref, wpPage.at, wpPage.url, wpPage.run, runs, wpPage.ctl, wpPage.view)
  BY <1>1, WpReachTypes, WpSmallFields
<1>4. \A t \in WpSessionIds : runs[t] = IF t = s THEN r ELSE wpPage.runs[t]
  BY WpReachTypes
<1>5. wpPage.ctl = o => \A q \in WpRunIds : WpLive(q) /\ wpRun[q].session = s => q = r
  BY <1>1 DEF WpReach, WpResumeOK
<1>6. \/ /\ ok /\ wpPage.ctl = o /\ wpRun[r].state = "running"
         /\ wpPage' = kept /\ wpOp' = [wpOp EXCEPT ![o].state = "stream"]
      \/ /\ ok /\ wpPage.ctl = o /\ wpRun[r].state # "running"
         /\ wpPage' = WpSettle(WpClear(WpForget(kept, r)), o) /\ wpOp' = WpDone(wpOp, o)
      \/ wpPage' = WpSettle(wpPage, o) /\ wpOp' = WpDone(wpOp, o)
  BY DEF WpResumed
<1> HIDE DEF s, r, kept
<1>7. CASE /\ wpPage.ctl = o /\ wpPage' = kept /\ wpOp' = [wpOp EXCEPT ![o].state = "stream"]
  <2> HIDE DEF runs
  <2> DEFINE op == [wpOp[o] EXCEPT !.state = "stream"]
  <2>1. op \in WpOpRecords /\ op.state = "stream" /\ op.session = s /\ op.run = r
    BY <1>1 DEF WpOpRecords, WpStates, WpPlaced, s, r
  <2>2. wpOp' = [wpOp EXCEPT ![o] = op]
    BY <1>1, <1>7, WpReachTypes
  <2> HIDE DEF op
  <2>3. /\ wpOp' \in [WpOps -> WpOpRecords] /\ WpOthersStay({o})
        /\ wpOp'[o].state = "stream" /\ wpOp'[o].session = s /\ wpOp'[o].run = r
    BY <1>1, <2>1, <2>2, WpReachTypes, WpPutIs
  <2>4. WpOpOK(o)'
    BY <1>1, <2>3 DEF WpOpOK, WpNamed
  <2>5. WpRegistryOK'
    <3> SUFFICES ASSUME NEW q \in WpRunIds, WpLive(q) PROVE runs[wpRun[q].session] = q
      BY <1>1, <1>3, <1>7 DEF WpRegistryOK, WpLive, WpIs
    <3>1. wpRun[q].session \in WpSessionIds /\ wpPage.runs[wpRun[q].session] = q
      BY DEF WpReach, WpRunsOK, WpRegistryOK, WpLive
    <3> QED
      BY <1>4, <1>5, <1>7, <3>1
  <2>6. WpResumeOK'
    BY <1>3, <1>7, <2>3 DEF WpResumeOK, WpIs
  <2>7. WpReach'
    <3>1. /\ wpPage' \in WpPages /\ wpPage'.run = wpPage'.kept /\ wpPage'.run = wpPage.run /\ wpPage'.runs = runs
      BY <1>3, <1>7 DEF WpIs
    <3>2. ASSUME NEW t \in WpSessionIds
          PROVE  \/ wpPage'.runs[t] \in {0, wpPage.runs[t]}
                 \/ /\ wpPage'.runs[t] \in WpRunIds /\ wpRun'[wpPage'.runs[t]].state # "none"
                    /\ wpRun'[wpPage'.runs[t]].session = t
      BY <1>1, <1>4, <3>1
    <3> QED
      BY <1>2, <2>3, <2>4, <2>5, <2>6, <3>1, <3>2, WpMoveStep
  <2>8. WpFits'
    <3>1. /\ wpPage'.ref = wpPage.ref /\ wpPage'.at = wpPage.at /\ wpPage'.url = wpPage.url
          /\ wpPage'.view = wpPage.view /\ wpPage'.kept = wpPage.kept
      BY <1>3, <1>7, WpReachTypes DEF WpIs
    <3> QED
      BY <1>1, <1>2, <2>3, <3>1, WpFitsMildly DEF WpQuietStates
  <2> QED
    BY <2>7, <2>8
<1>8. CASE /\ wpPage.ctl = o /\ wpRun[r].state # "running"
           /\ wpPage' = WpSettle(WpClear(WpForget(kept, r)), o) /\ wpOp' = WpDone(wpOp, o)
  <2> DEFINE rest == [t \in WpSessionIds |-> IF runs[t] = r THEN 0 ELSE runs[t]]
             forgot == WpForget(kept, r)
             clear == WpClear(forgot)
  <2>1. WpIs(forgot, wpPage.run, wpPage.ref, wpPage.at, wpPage.url, wpPage.run, rest, wpPage.ctl, wpPage.view)
    <3>1. kept \in WpPages /\ kept.runs = runs
      BY <1>3 DEF WpIs
    <3> HIDE DEF runs
    <3>2. [t \in WpSessionIds |-> IF kept.runs[t] = r THEN 0 ELSE kept.runs[t]] = rest
      BY <3>1
    <3>3. WpIs(WpForget(kept, r), kept.run, kept.ref, kept.at, kept.url, kept.kept,
               [t \in WpSessionIds |-> IF kept.runs[t] = r THEN 0 ELSE kept.runs[t]], kept.ctl, kept.view)
      BY <1>1, <3>1, WpForgetIs
    <3> HIDE DEF rest
    <3> QED
      BY <1>3, <3>2, <3>3 DEF WpIs
  <2> HIDE DEF forgot, rest
  <2>2. WpIs(clear, 0, wpPage.ref, wpPage.at, wpPage.url, 0, rest, wpPage.ctl, wpPage.view)
    BY <2>1, WpClearIs DEF WpIs
  <2>3. wpPage' = WpSettle(clear, o)
    BY <1>8 DEF forgot
  <2> HIDE DEF clear
  <2>4. WpIs(wpPage', 0, wpPage.ref, wpPage.at, wpPage.url, 0, rest, "none", wpPage.view)
    BY <1>8, <2>2, <2>3, WpSettleIs DEF WpIs
  <2>5. ~WpLive(r) /\ ~WpLiveThen(r)
    BY <1>1, <1>8 DEF WpLive, WpLiveThen
  <2>6. ASSUME NEW t \in WpSessionIds
        PROVE  rest[t] = wpPage.runs[t] \/ (rest[t] = 0 /\ ~WpLiveThen(wpPage.runs[t]))
    <3>1. rest[t] = IF runs[t] = r THEN 0 ELSE runs[t]
      BY DEF rest
    <3>2. CASE t # s
      BY <1>4, <2>5, <3>1, <3>2
    <3>3. CASE t = s
      <4>1. rest[t] = 0
        BY <1>4, <3>1, <3>3
      <4>2. ASSUME WpLiveThen(wpPage.runs[s]) PROVE FALSE
        <5>1. WpLive(wpPage.runs[s])
          BY <1>2, <4>2 DEF WpNoneNew, WpLiveThen
        <5>2. wpPage.runs[s] # 0
          BY <5>1 DEF WpLive, WpRunIds
        <5>3. wpRun[wpPage.runs[s]].session = s
          BY <1>1, <5>2, WpReachTypes DEF WpPageOK
        <5> QED
          BY <1>5, <1>8, <2>5, <5>1, <5>3 DEF WpLive
      <4> QED
        BY <3>3, <4>1, <4>2
    <3> QED
      BY <3>2, <3>3
  <2>7. WpMildPage
    BY <2>4, <2>6 DEF WpMildPage, WpIs
  <2> QED
    BY <1>1, <1>2, <1>8, <2>4, <2>7, WpReturnKeeps DEF WpIs
<1>9. CASE wpPage' = WpSettle(wpPage, o) /\ wpOp' = WpDone(wpOp, o)
  <2> DEFINE ctl == IF wpPage.ctl = o THEN "none" ELSE wpPage.ctl
  <2>1. WpIs(wpPage', wpPage.run, wpPage.ref, wpPage.at, wpPage.url, wpPage.run, wpPage.runs, ctl, wpPage.view)
    BY <1>9, WpReachTypes, WpSettleIs
  <2>2. WpMildPage
    BY <2>1, WpReachTypes, WpMildIs
  <2> QED
    BY <1>1, <1>2, <1>9, <2>1, <2>2, WpReturnKeeps DEF WpIs
<1> QED
  BY <1>6, <1>7, <1>8, <1>9

\* The effects that run again: on the page as it is, or as it was loaded, with
\* the handlers as they are but for those in changed.
LEMMA WpEffectsKeep ==
    ASSUME WpReach, WpFits, WpAct, WpServerStays, NEW p, NEW ops \in [WpOps -> WpOpRecords], NEW changed,
           WpIs(p, p.run, p.ref, p.at, wpPage.url, wpPage.kept, wpPage.runs, p.ctl, p.view),
           wpPage.kept = 0 => p.run = 0, p.ctl \in {wpPage.ctl, "none"},
           ~wpLoose => p.ref = wpPage.ref /\ p.at = wpPage.ref /\ p.view \subseteq wpPage.view,
           "restore" \in changed, "recover" \in changed,
           \A x \in WpOps \ changed : ops[x] = wpOp[x],
           \A x \in changed : x \in WpOps /\ (x \notin {"restore", "recover"} => ops[x] = WpIdle),
           WpEffects(p, ops)
    PROVE  WpReach' /\ WpFits'
<1> DEFINE url == wpPage.url
           kept == wpPage.kept
           there == url # "none"
           again == kept # 0
           at == IF there THEN WpGoTo(p, url) ELSE p
           active == WpActivate(at, kept)
           spun == WpSpin(active, TRUE)
           restore == IF there THEN [WpIdle EXCEPT !.kind = "restore", !.state = "restoring", !.session = url] ELSE WpIdle
           recover == IF again THEN [WpIdle EXCEPT !.kind = "recover", !.state = "rechecking", !.run = kept] ELSE WpIdle
           ref2 == IF there THEN url ELSE p.ref
           at2 == IF there THEN url ELSE p.at
           ctl2 == IF again THEN "recover" ELSE p.ctl
<1>1. /\ p \in WpPages /\ p.url = url /\ p.kept = kept /\ p.runs = wpPage.runs
      /\ url \in WpNames /\ kept \in 0 .. WpMaxRuns /\ kept = wpPage.run /\ WpNamed(kept)
      /\ wpRun' = wpRun /\ wpGivenUp' = wpGivenUp
  BY WpReachTypes DEF WpIs, WpServerStays, WpPageOK, WpPages
<1>2. /\ wpPage' = IF again THEN [spun EXCEPT !.ctl = "recover"] ELSE at
      /\ wpOp' = [ops EXCEPT !["restore"] = restore, !["recover"] = recover]
  BY <1>1, Zenon DEF WpEffects
<1>3. WpIs(at, p.run, ref2, at2, url, kept, wpPage.runs, p.ctl, p.view)
  <2>1. CASE there
    BY <1>1, <2>1, WpGoToIs DEF WpIs
  <2>2. CASE ~there
    BY <1>1, <2>2 DEF WpIs
  <2> QED
    BY <2>1, <2>2
<1>4. WpIs(wpPage', kept, ref2, at2, url, kept, wpPage.runs, ctl2, p.view)
  <2> HIDE DEF at, ref2, at2
  <2>1. CASE again
    <3>1. WpIs(active, kept, ref2, at2, url, kept, wpPage.runs, p.ctl, p.view)
      BY <1>1, <1>3, WpSmallFields DEF WpIs
    <3> HIDE DEF active
    <3>2. WpIs(spun, kept, ref2, at2, url, kept, wpPage.runs, p.ctl, p.view)
      BY <3>1, WpSmallFields DEF WpIs
    <3> HIDE DEF spun
    <3>3. WpIs([spun EXCEPT !.ctl = "recover"], kept, ref2, at2, url, kept, wpPage.runs, "recover", p.view)
      BY <3>2, WpPageFields, WpReachTypes DEF WpIs, WpControllers
    <3> QED
      BY <1>2, <2>1, <3>3
  <2>2. CASE ~again
    <3>1. wpPage' = at /\ p.run = kept /\ ctl2 = p.ctl
      BY <1>2, <2>2
    <3> QED
      BY <1>3, <3>1
  <2> QED
    BY <2>1, <2>2
<1>5. /\ restore \in WpOpRecords /\ recover \in WpOpRecords
      /\ restore.state = (IF there THEN "restoring" ELSE "idle") /\ (there => restore.session = url)
      /\ recover.state = (IF again THEN "rechecking" ELSE "idle")
      /\ restore.run = 0 /\ recover.run = kept
  <2>1. 0 \in 0 .. WpMaxRuns
    BY WebPageAssumption
  <2>2. /\ restore \in WpOpRecords /\ restore.state = (IF there THEN "restoring" ELSE "idle")
        /\ (there => restore.session = url) /\ restore.run = 0
    BY <1>1, <2>1 DEF WpIdle, WpOpRecords, WpKinds, WpStates, WpPlaced, WpNames, WpControllers
  <2>3. /\ recover \in WpOpRecords /\ recover.state = (IF again THEN "rechecking" ELSE "idle") /\ recover.run = kept
    BY <1>1, <2>1 DEF WpIdle, WpOpRecords, WpKinds, WpStates, WpPlaced, WpNames, WpControllers
  <2> QED
    BY <2>2, <2>3
<1> HIDE DEF restore, recover
<1>6. /\ wpOp' \in [WpOps -> WpOpRecords] /\ wpOp'["restore"] = restore /\ wpOp'["recover"] = recover
      /\ \A x \in WpOps \ {"restore", "recover"} : wpOp'[x] = ops[x]
  BY <1>2, <1>5, WpReachTypes
<1>7. WpOthersStay(changed)
  BY <1>6 DEF WpOthersStay
<1>8. ASSUME NEW x \in changed
      PROVE  WpOpOK(x)' /\ wpOp'[x].state \in {"idle", "restoring", "rechecking"}
  <2>1. CASE x = "restore"
    BY <1>1, <1>5, <1>6, <2>1 DEF WpOpOK, WpNamed, WpPlaced, WpNames
  <2>2. CASE x = "recover"
    BY <1>1, <1>5, <1>6, <2>2 DEF WpOpOK, WpNamed, WpPlaced
  <2>3. CASE x \notin {"restore", "recover"}
    BY <1>6, <2>3, WpIdleOK
  <2> QED
    BY <2>1, <2>2, <2>3
<1>9. WpRunsGrow
  BY <1>1, WpReachTypes, WpSameRuns
<1> HIDE DEF ref2, at2
<1>10. WpReach'
  <2>1. WpRegistryOK'
    BY <1>1, <1>4 DEF WpReach, WpRegistryOK, WpLive, WpIs
  <2>2. WpResumeOK'
    <3> SUFFICES ASSUME NEW x \in WpOps, wpOp'[x].state = "checking", wpPage'.ctl = x,
                        NEW q \in WpRunIds, WpLive(q), wpRun[q].session = wpOp'[x].session
                 PROVE  q = wpOp'[x].run
      BY <1>1 DEF WpResumeOK, WpLive
    <3>1. x \notin changed /\ wpOp'[x] = wpOp[x]
      BY <1>6, <1>8
    <3>2. x # "none" /\ x # "recover"
      BY <3>1, WebPageAssumption DEF WpOps
    <3>3. wpPage.ctl = x
      BY <1>4, <3>2 DEF WpIs
    <3> QED
      BY <3>1, <3>3 DEF WpReach, WpResumeOK
  <2>3. /\ wpPage' \in WpPages /\ wpPage'.run = wpPage'.kept /\ wpPage'.run = wpPage.run
        /\ wpPage'.runs = wpPage.runs
    BY <1>1, <1>4 DEF WpIs
  <2> QED
    BY <1>6, <1>7, <1>8, <1>9, <2>1, <2>2, <2>3, WpMoveStep
<1>11. WpFits'
  <2> SUFFICES ASSUME ~wpLoose' PROVE WpPageFits' /\ WpOneWaits' /\ \A x \in WpOps : WpWillFit(x)'
    BY DEF WpFits
  <2>1. ~wpLoose /\ \A x \in WpOps : wpOp[x].state \in WpQuietStates
    BY WpActAlone
  <2>2. WpPageFits /\ p.ref = wpPage.ref /\ p.at = wpPage.ref /\ p.view \subseteq wpPage.view
    BY <2>1 DEF WpFits
  <2>3. ref2 = wpPage.ref /\ at2 = wpPage.ref /\ url = wpPage.ref
    BY <2>2 DEF WpPageFits, ref2, at2
  <2>4. WpPageFits'
    BY <1>1, <1>4, <2>2, <2>3 DEF WpPageFits, WpIs
  <2>5. \A x \in WpOps \ {"restore", "recover"} : wpOp'[x].state \in WpQuietStates
    <3>1. WpIdle.state \in WpQuietStates
      BY DEF WpIdle, WpQuietStates
    <3> QED
      BY <1>6, <2>1, <3>1
  <2>6. WpOneWaits'
    BY <2>5 DEF WpOneWaits
  <2>7. WpWillFit("restore")'
    BY <1>4, <1>5, <1>6, <2>3 DEF WpWillFit, WpIs
  <2>8. WpWillFit("recover")'
    BY <1>1, <1>4, <1>5, <1>6, <2>2, <2>3 DEF WpWillFit, WpIs, WpPageFits
  <2>9. \A x \in WpOps : WpWillFit(x)'
    BY <2>5, <2>7, <2>8 DEF WpWillFit, WpQuietStates
  <2> QED
    BY <2>4, <2>6, <2>9
<1> QED
  BY <1>10, <1>11

\* A refresh of the tokens.
LEMMA WpTokensRenewedKeeps == ASSUME WpReach, WpFits, WpTokensRenewed PROVE WpReach' /\ WpFits'
<1>1. WpAct /\ WpServerStays /\ WpEffects(wpPage, wpOp)
  BY DEF WpTokensRenewed
<1>2. /\ WpIs(wpPage, wpPage.run, wpPage.ref, wpPage.at, wpPage.url, wpPage.kept, wpPage.runs, wpPage.ctl, wpPage.view)
      /\ wpPage.kept = 0 => wpPage.run = 0
      /\ wpOp \in [WpOps -> WpOpRecords] /\ {"restore", "recover"} \subseteq WpOps
  BY WpReachTypes
<1>3. ~wpLoose => wpPage.at = wpPage.ref
  BY DEF WpFits, WpPageFits
<1> DEFINE effects == {"restore", "recover"}
<1>4. /\ "restore" \in effects /\ "recover" \in effects
      /\ \A x \in effects : x \in WpOps /\ (x \notin {"restore", "recover"} => wpOp[x] = WpIdle)
  BY <1>2
<1> HIDE DEF effects
<1> QED
  BY <1>1, <1>2, <1>3, <1>4, WpEffectsKeep

\* The page is loaded again.
LEMMA WpReloadKeeps == ASSUME WpReach, WpFits, WpReload PROVE WpReach' /\ WpFits'
<1> DEFINE p == WpLoaded(wpPage.url, wpPage.kept, wpPage.runs, TRUE)
           ops == [o \in WpOps |-> WpIdle]
<1>1. WpAct /\ WpServerStays /\ WpEffects(p, ops)
  BY DEF WpReload
<1>2. 0 \in 0 .. WpMaxRuns
  BY WebPageAssumption
<1>3. /\ WpIs(p, 0, wpPage.url, wpPage.url, wpPage.url, wpPage.kept, wpPage.runs, "none", {})
  BY <1>2, WpReachTypes DEF WpIs, WpLoaded, WpPages, WpControllers
<1>4. ops \in [WpOps -> WpOpRecords] /\ \A x \in WpOps : ops[x] = WpIdle
  BY <1>2 DEF WpIdle, WpOpRecords, WpKinds, WpStates, WpNames, WpControllers
<1>5. ~wpLoose => wpPage.url = wpPage.ref
  BY DEF WpFits, WpPageFits
<1> HIDE DEF p, ops
<1>6. /\ WpIs(p, p.run, p.ref, p.at, wpPage.url, wpPage.kept, wpPage.runs, p.ctl, p.view)
      /\ p.run = 0 /\ p.ctl = "none" /\ p.view = {} /\ p.ref = wpPage.url /\ p.at = wpPage.url
  BY <1>3 DEF WpIs
<1> QED
  BY <1>1, <1>4, <1>5, <1>6, WpReachTypes, WpEffectsKeep

\* The run of a recovery is read.
LEMMA WpRecheckedKeeps ==
    ASSUME WpReach, WpFits, NEW ok \in BOOLEAN, WpRechecked(ok)
    PROVE  WpReach' /\ WpFits'
<1> DEFINE o == "recover"
           r == wpOp[o].run
           s == wpRun[r].session
<1>1. /\ o \in WpOps /\ wpOp[o] \in WpOpRecords /\ wpOp[o].state = "rechecking"
      /\ wpRun' = wpRun /\ wpLoose' = wpLoose
      /\ r # 0 /\ r \in WpRunIds /\ r \in 0 .. WpMaxRuns /\ wpRun[r].state # "none" /\ s \in WpSessionIds
  <2>1. o \in WpOps /\ wpOp[o] \in WpOpRecords /\ wpOp[o].state = "rechecking" /\ WpOpOK(o)
    BY WpReachTypes DEF WpRechecked
  <2>2. r \in 0 .. WpMaxRuns /\ r \in WpRunIds /\ wpRun[r].state # "none"
    BY <2>1 DEF WpOpRecords, WpOpOK, WpNamed
  <2> QED
    BY <2>1, <2>2, WpReachTypes DEF WpRechecked, WpQuiet, WpOpOK, WpRunsOK
<1>2. CASE ~ok
  <2>1. wpPage' = WpSpin(WpSettle(wpPage, o), FALSE) /\ wpOp' = WpDone(wpOp, o) /\ wpGivenUp' = wpGivenUp
    BY <1>2 DEF WpRechecked
  <2> DEFINE ctl == IF wpPage.ctl = o THEN "none" ELSE wpPage.ctl
  <2>2. WpIs(WpSettle(wpPage, o), wpPage.run, wpPage.ref, wpPage.at, wpPage.url, wpPage.run, wpPage.runs, ctl, wpPage.view)
    BY WpReachTypes, WpSettleIs
  <2>3. WpIs(wpPage', wpPage.run, wpPage.ref, wpPage.at, wpPage.url, wpPage.run, wpPage.runs, ctl, wpPage.view)
    BY <2>1, <2>2, WpSmallFields DEF WpIs
  <2>4. WpRunsGrow /\ WpNoneNew /\ WpMildPage
    BY <1>1, <2>1, <2>3, WpReachTypes, WpSameRuns, WpMildIs
  <2> QED
    BY <1>1, <2>1, <2>3, <2>4, WpReturnKeeps DEF WpIs
<1>3. CASE ok
  <2> DEFINE there == WpGoTo(wpPage, s)
             runs == [wpPage.runs EXCEPT ![s] = r]
             state == IF wpRun[r].state = "running" THEN "reloading" ELSE "reloading ended"
             op == [wpOp[o] EXCEPT !.session = s, !.state = state]
  <2>1. /\ wpPage' = WpRemember(there, s, r) /\ wpGivenUp' = wpGivenUp \cup WpOusted(s, r)
        /\ wpOp' = [wpOp EXCEPT ![o].session = s, ![o].state = state]
    BY <1>3 DEF WpRechecked
  <2>2. WpIs(there, wpPage.run, s, s, s, wpPage.run, wpPage.runs, wpPage.ctl, wpPage.view)
    BY <1>1, WpReachTypes, WpGoToIs DEF WpNames
  <2>3. op \in WpOpRecords /\ op.state = state /\ op.session = s /\ op.run = r
    BY <1>1 DEF WpOpRecords, WpStates, WpPlaced, WpNames
  <2>4. wpOp' = [wpOp EXCEPT ![o] = op]
    BY <1>1, <2>1, WpReachTypes
  <2>5. state \in {"reloading", "reloading ended"} /\ (state = "reloading ended" => wpRun[r].state = "ended")
    BY <1>1, WpReachTypes DEF WpRunsOK
  <2>6. \A t \in WpSessionIds : runs[t] = IF t = s THEN r ELSE wpPage.runs[t]
    BY WpReachTypes
  <2> HIDE DEF there, op, state, s, r
  <2>7. WpIs(wpPage', wpPage.run, s, s, s, wpPage.run, runs, wpPage.ctl, wpPage.view)
    BY <1>1, <2>1, <2>2, WpSmallFields DEF WpIs
  <2> HIDE DEF runs
  <2>8. /\ wpOp' \in [WpOps -> WpOpRecords] /\ WpOthersStay({o})
        /\ wpOp'[o].state = state /\ wpOp'[o].session = s /\ wpOp'[o].run = r
    BY <1>1, <2>3, <2>4, WpReachTypes, WpPutIs
  <2>9. WpRunsGrow /\ WpNoneNew
    BY <1>1, <2>1, WpReachTypes, WpSameRuns
  <2>10. WpOpOK(o)'
    BY <1>1, <2>5, <2>8 DEF WpOpOK, WpNamed
  <2>11. WpRegistryOK'
    <3>1. wpPage'.runs = [wpPage.runs EXCEPT ![s] = r] /\ wpRun'[r].session = s
      BY <1>1, <2>7 DEF WpIs, runs, s
    <3> QED
      BY <1>1, <2>1, <2>9, <3>1, WpRegisters DEF WpNoneNew
  <2>12. WpResumeOK'
    <3> SUFFICES ASSUME NEW x \in WpOps, wpOp'[x].state = "checking", wpPage'.ctl = x,
                        NEW q \in WpRunIds, WpLiveThen(q), wpRun'[q].session = wpOp'[x].session
                 PROVE  q = wpOp'[x].run
      BY DEF WpResumeOK, WpLive, WpLiveThen
    <3>1. x # o
      BY <2>5, <2>8
    <3>2. wpOp'[x].state = wpOp[x].state /\ wpOp'[x].session = wpOp[x].session /\ wpOp'[x].run = wpOp[x].run
      BY <2>8, <3>1 DEF WpOthersStay
    <3>3. WpLive(q) /\ wpPage.ctl = x
      BY <2>7, <2>9 DEF WpNoneNew, WpIs
    <3> QED
      BY <1>1, <3>2, <3>3 DEF WpReach, WpResumeOK
  <2>13. WpReach'
    <3>1. /\ wpPage' \in WpPages /\ wpPage'.run = wpPage'.kept /\ wpPage'.run = wpPage.run /\ wpPage'.runs = runs
      BY <2>7 DEF WpIs
    <3>2. ASSUME NEW t \in WpSessionIds
          PROVE  \/ wpPage'.runs[t] \in {0, wpPage.runs[t]}
                 \/ /\ wpPage'.runs[t] \in WpRunIds /\ wpRun'[wpPage'.runs[t]].state # "none"
                    /\ wpRun'[wpPage'.runs[t]].session = t
      BY <1>1, <2>6, <3>1 DEF s
    <3> QED
      BY <2>8, <2>9, <2>10, <2>11, <2>12, <3>1, <3>2, WpMoveStep
  <2>14. WpFits'
    <3> SUFFICES ASSUME ~wpLoose PROVE WpFits'
      BY <1>1 DEF WpFits
    <3>1. s = wpPage.ref /\ wpPage.at = wpPage.ref /\ wpPage.url = wpPage.ref
      BY <1>1 DEF WpFits, WpPageFits, WpWillFit, s, r
    <3>2. /\ wpPage'.ref = wpPage.ref /\ wpPage'.at = wpPage.at /\ wpPage'.url = wpPage.url
          /\ wpPage'.view = wpPage.view /\ wpPage'.kept = wpPage.kept
      BY <2>7, <3>1, WpReachTypes DEF WpIs
    <3>3. WpWillFit(o)' /\ wpOp[o].state \notin WpQuietStates
      BY <1>1, <2>5, <2>8, <3>1, <3>2 DEF WpWillFit, WpQuietStates
    <3> QED
      BY <1>1, <2>8, <2>9, <3>2, <3>3, WpFitsMildly
  <2> QED
    BY <2>13, <2>14
<1> QED
  BY <1>2, <1>3

\* The session of a recovery is read.
LEMMA WpReloadedKeeps ==
    ASSUME WpReach, WpFits, NEW ok \in BOOLEAN, WpReloaded(ok)
    PROVE  WpReach' /\ WpFits'
<1> DEFINE o == "recover"
           r == wpOp[o].run
           s == wpOp[o].session
           shown == IF ok THEN [wpPage EXCEPT !.view = {s}] ELSE wpPage
           view == IF ok THEN {s} ELSE wpPage.view
           runs == [t \in WpSessionIds |-> IF wpPage.runs[t] = r THEN 0 ELSE wpPage.runs[t]]
           ctl == IF wpPage.ctl = o THEN "none" ELSE wpPage.ctl
<1>1. /\ o \in WpOps /\ wpOp[o] \in WpOpRecords /\ wpOp[o].state \in {"reloading", "reloading ended"}
      /\ wpRun' = wpRun /\ wpGivenUp' = wpGivenUp /\ wpLoose' = wpLoose
      /\ s \in WpSessionIds /\ r \in 0 .. WpMaxRuns /\ WpNamed(r)
      /\ wpOp[o].state = "reloading ended" => wpRun[r].state = "ended"
      /\ ~wpLoose => s = wpPage.ref
  <2>1. o \in WpOps /\ wpOp[o] \in WpOpRecords /\ wpOp[o].state \in {"reloading", "reloading ended"} /\ WpOpOK(o)
    BY WpReachTypes DEF WpReloaded
  <2>2. r \in 0 .. WpMaxRuns
    BY <2>1 DEF WpOpRecords
  <2>3. ~wpLoose => s = wpPage.ref
    BY <2>1 DEF WpFits, WpWillFit
  <2> QED
    BY <2>1, <2>2, <2>3 DEF WpReloaded, WpServerStays, WpQuiet, WpOpOK, WpPlaced
<1>2. WpRunsGrow /\ WpNoneNew
  BY <1>1, WpReachTypes, WpSameRuns
<1>3. WpIs(shown, wpPage.run, wpPage.ref, wpPage.at, wpPage.url, wpPage.run, wpPage.runs, wpPage.ctl, view)
  BY <1>1, WpReachTypes, WpPageFields
<1>4. \/ /\ ok /\ wpPage' = shown /\ wpOp' = [wpOp EXCEPT ![o].state = "stream"]
      \/ /\ ok /\ wpOp[o].state = "reloading ended"
         /\ wpPage' = WpSpin(WpSettle(WpClear(WpForget(shown, r)), o), FALSE) /\ wpOp' = WpDone(wpOp, o)
      \/ /\ wpPage' = WpSpin(WpSettle(shown, o), FALSE) /\ wpOp' = WpDone(wpOp, o)
  <2>1. CASE ok /\ wpOp[o].state = "reloading"
    BY <2>1 DEF WpReloaded
  <2>2. CASE ok /\ wpOp[o].state # "reloading"
    BY <1>1, <2>2 DEF WpReloaded
  <2>3. CASE ~ok
    BY <2>3 DEF WpReloaded
  <2> QED
    BY <2>1, <2>2, <2>3
<1>5. ~wpLoose => view \subseteq wpPage.view \cup {wpPage.ref}
  BY <1>1
<1> HIDE DEF shown, view, s, r
<1>6. CASE wpPage' = shown /\ wpOp' = [wpOp EXCEPT ![o].state = "stream"]
  <2> DEFINE op == [wpOp[o] EXCEPT !.state = "stream"]
  <2>1. op \in WpOpRecords /\ op.state = "stream" /\ op.session = s /\ op.run = r
    BY <1>1 DEF WpOpRecords, WpStates, WpPlaced, s, r
  <2>2. wpOp' = [wpOp EXCEPT ![o] = op]
    BY <1>1, <1>6, WpReachTypes
  <2> HIDE DEF op
  <2>3. /\ wpOp' \in [WpOps -> WpOpRecords] /\ WpOthersStay({o})
        /\ wpOp'[o].state = "stream" /\ wpOp'[o].session = s /\ wpOp'[o].run = r
    BY <1>1, <2>1, <2>2, WpReachTypes, WpPutIs
  <2>4. WpOpOK(o)'
    BY <1>1, <2>3 DEF WpOpOK, WpNamed
  <2>5. WpMildPage
    BY <1>3, <1>6, WpReachTypes, WpMildIs
  <2>6. WpReach'
    BY <1>2, <2>3, <2>4, <2>5, WpMildStep
  <2>7. WpFits'
    <3> SUFFICES ASSUME ~wpLoose PROVE WpFits'
      BY <1>1 DEF WpFits
    <3>1. /\ wpPage'.ref = wpPage.ref /\ wpPage'.at = wpPage.at /\ wpPage'.url = wpPage.url
          /\ wpPage'.view \subseteq wpPage.view \cup {wpPage.ref} /\ wpPage'.kept = wpPage.kept
      BY <1>3, <1>5, <1>6, WpReachTypes DEF WpIs
    <3> QED
      BY <1>1, <1>2, <2>3, <3>1, WpFitsMildly DEF WpQuietStates
  <2> QED
    BY <2>6, <2>7
<1>7. CASE /\ wpOp[o].state = "reloading ended"
           /\ wpPage' = WpSpin(WpSettle(WpClear(WpForget(shown, r)), o), FALSE) /\ wpOp' = WpDone(wpOp, o)
  <2> DEFINE forgot == WpForget(shown, r)
             clear == WpClear(forgot)
             settled == WpSettle(clear, o)
  <2>1. WpIs(forgot, wpPage.run, wpPage.ref, wpPage.at, wpPage.url, wpPage.run, runs, wpPage.ctl, view)
    <3>1. shown \in WpPages /\ shown.runs = wpPage.runs
      BY <1>3 DEF WpIs
    <3>2. [t \in WpSessionIds |-> IF shown.runs[t] = r THEN 0 ELSE shown.runs[t]] = runs
      BY <3>1
    <3>3. WpIs(WpForget(shown, r), shown.run, shown.ref, shown.at, shown.url, shown.kept,
               [t \in WpSessionIds |-> IF shown.runs[t] = r THEN 0 ELSE shown.runs[t]], shown.ctl, shown.view)
      BY <1>1, <3>1, WpForgetIs
    <3> HIDE DEF runs
    <3> QED
      BY <1>3, <3>2, <3>3 DEF WpIs
  <2> HIDE DEF forgot, runs
  <2>2. WpIs(clear, 0, wpPage.ref, wpPage.at, wpPage.url, 0, runs, wpPage.ctl, view)
    BY <2>1, WpClearIs DEF WpIs
  <2> HIDE DEF clear
  <2>3. WpIs(settled, 0, wpPage.ref, wpPage.at, wpPage.url, 0, runs, ctl, view)
    BY <2>2, WpSettleIs DEF WpIs
  <2>4. wpPage' = WpSpin(settled, FALSE)
    BY <1>7 DEF clear, forgot
  <2> HIDE DEF settled, ctl
  <2>5. WpIs(wpPage', 0, wpPage.ref, wpPage.at, wpPage.url, 0, runs, ctl, view)
    BY <2>3, <2>4, WpSmallFields DEF WpIs
  <2>6. ~WpLiveThen(r)
    BY <1>1, <1>7 DEF WpLiveThen
  <2>7. WpMildPage
    BY <2>5, <2>6, WpReachTypes, WpMildForgets DEF runs, ctl
  <2> QED
    BY <1>1, <1>2, <1>5, <1>7, <2>5, <2>7, WpReturnKeeps DEF WpIs
<1>8. CASE wpPage' = WpSpin(WpSettle(shown, o), FALSE) /\ wpOp' = WpDone(wpOp, o)
  <2> DEFINE settled == WpSettle(shown, o)
  <2>1. WpIs(settled, wpPage.run, wpPage.ref, wpPage.at, wpPage.url, wpPage.run, wpPage.runs, ctl, view)
    BY <1>3, WpSettleIs DEF WpIs
  <2>2. wpPage' = WpSpin(settled, FALSE)
    BY <1>8
  <2> HIDE DEF settled, ctl
  <2>3. WpIs(wpPage', wpPage.run, wpPage.ref, wpPage.at, wpPage.url, wpPage.run, wpPage.runs, ctl, view)
    BY <2>1, <2>2, WpSmallFields DEF WpIs
  <2>4. WpMildPage
    BY <2>3, WpReachTypes, WpMildIs DEF ctl
  <2> QED
    BY <1>1, <1>2, <1>5, <1>8, <2>3, <2>4, WpReturnKeeps DEF WpIs
<1> QED
  BY <1>4, <1>6, <1>7, <1>8

\* No step of the page leaves the invariant.
LEMMA WpStep == WpReach /\ WpFits /\ [WpNext]_wpVars => WpReach' /\ WpFits'
<1> SUFFICES ASSUME WpReach, WpFits, [WpNext]_wpVars PROVE WpReach' /\ WpFits'
  OBVIOUS
<1>1. CASE WpUser
  <2>1. ASSUME NEW o \in WpHandlers, WpSubmit(o) PROVE WpReach' /\ WpFits'
    <3>1. WpHere(wpPage) \in WpNames /\ (~wpLoose => WpHere(wpPage) = wpPage.ref)
      BY WpReachTypes DEF WpHere, WpFits, WpPageFits
    <3> QED
      BY <2>1, <3>1, WpSendKeeps DEF WpSubmit
  <2>2. ASSUME NEW o \in WpHandlers, WpRegenerate(o) PROVE WpReach' /\ WpFits'
    <3>1. PICK s \in wpPage.view : WpSend(o, "regenerate", s)
      BY <2>2 DEF WpRegenerate
    <3>2. s \in WpNames /\ (~wpLoose => s = wpPage.ref)
      BY WpReachTypes DEF WpNames, WpFits, WpPageFits
    <3> QED
      BY <3>1, <3>2, WpSendKeeps
  <2> QED
    BY <1>1, <2>1, <2>2, WpNewSessionKeeps, WpTokensRenewedKeeps, WpLogoutKeeps, WpReloadKeeps,
       WpCancelKeeps, WpLoadOlderKeeps, WpSelectKeeps, WpDeleteKeeps
       DEF WpUser
<1>2. CASE WpAnswers
  <2>1. ASSUME NEW o \in WpHandlers, NEW ok \in BOOLEAN,
               \/ \E reached \in BOOLEAN : WpCancelAnswer(o, reached, ok)
               \/ WpCancelRefreshed(o, ok) \/ WpStartFails(o, ok) \/ WpResumed(o, ok)
               \/ WpDeleted(o, ok) \/ WpOlderLoaded(o, ok)
        PROVE  WpReach' /\ WpFits'
    BY <2>1, WpCancelAnswerKeeps, WpCancelRefreshedKeeps, WpStartFailsKeeps, WpResumedKeeps,
       WpDeletedKeeps, WpOlderLoadedKeeps
  <2>2. ASSUME NEW o \in WpHandlers, WpStarted(o) \/ WpSelected(o) \/ WpSelectFails(o)
        PROVE  WpReach' /\ WpFits'
    BY <2>2, WpStartedKeeps, WpSelectedKeeps, WpSelectFailsKeeps
  <2>3. ASSUME NEW ok \in BOOLEAN, WpRestored(ok) \/ WpRechecked(ok) \/ WpReloaded(ok)
        PROVE  WpReach' /\ WpFits'
    BY <2>3, WpRestoredKeeps, WpRecheckedKeeps, WpReloadedKeeps
  <2> QED
    BY <1>2, <2>1, <2>2, <2>3 DEF WpAnswers
<1>3. CASE WpStreams
  BY <1>3, WpStreamOverKeeps, WpEventKeeps, WpRunEndsKeeps DEF WpStreams
<1>4. CASE UNCHANGED wpVars
  <2>1. WpRunsGrow /\ WpNoneNew /\ WpMildPage /\ WpOthersStay({})
    BY <1>4, WpReachTypes, WpSameRuns, WpMildIs DEF wpVars, WpOthersStay
  <2>2. wpPage' = wpPage /\ wpOp' = wpOp /\ wpLoose' = wpLoose
    BY <1>4 DEF wpVars
  <2>3. WpReach'
    BY <2>1, <2>2, WpReachTypes, WpMildStep
  <2> QED
    BY <2>1, <2>2, <2>3, WpFitsMildly
<1> QED
  BY <1>1, <1>2, <1>3, <1>4 DEF WpNext

-----------------------------------------------------------------------------
\* The invariant of the page, and what follows from it.
LEMMA WpInductive == WpSpec => [](WpReach /\ WpFits)
<1> QED
  BY WpInitially, WpStep, PTL DEF WpSpec

\* The page only ever names sessions, runs and handlers that there are.
THEOREM WpTypeCorrect == WpSpec => []WpTypeOK
<1>1. WpReach => WpTypeOK
  <2> SUFFICES ASSUME WpReach PROVE WpTypeOK
    OBVIOUS
  <2>1. \A r \in WpRunIds : wpRun[r].state \in {"none", "running", "ended"}
    BY WpReachTypes DEF WpRunsOK
  <2> QED
    BY <2>1, WpReachTypes DEF WpTypeOK, WpNames, WpControllers
<1> QED
  BY <1>1, WpInductive, PTL

\* Whatever sessions are left, selected, deleted or reloaded while handlers
\* wait for their answers, a run that still runs is the one the page follows or
\* the one the registry names under its session (rememberRunningRun,
\* forgetRunningRunByRunId and resumeSessionRunIfNeeded of App).
THEOREM WpRunsStayReachable == WpSpec => []WpRunIsReachable
<1>1. WpReach => WpRunIsReachable
  BY DEF WpReach, WpRegistryOK, WpLive, WpRunIsReachable
<1> QED
  BY <1>1, WpInductive, PTL

\* No late answer and no stream that was left writes into another session: the
\* guard of applyStoredRunEvent and the handlers' clearing are enough, as long
\* as no act comes while an answer is outstanding.
THEOREM WpViewStaysOfOneSession == WpSpec => []WpViewIsOfOneSession
<1>1. WpFits => WpViewIsOfOneSession
  BY DEF WpFits, WpPageFits, WpViewIsOfOneSession
<1> QED
  BY <1>1, WpInductive, PTL

-----------------------------------------------------------------------------
(***************************************************************************)
(* The seven parts side by side.                                           *)
(***************************************************************************)

\* A step of one part is a step of that part and leaves the others alone.
LEMMA ServicesParts ==
    ASSUME [MCNext]_allVars
    PROVE  /\ [KtNext]_ktVars /\ [RoNext]_roVars /\ [TjNext]_tjVars /\ [AuNext]_auVars
           /\ [WpNext]_wpVars /\ [SmNext]_smVars /\ [PgNext]_pgVars
<1> USE DEF Only, Still, Parts
<1>1. CASE part = "text" /\ KtNext /\ Only("text")
  BY <1>1
<1>2. CASE part = "resources" /\ RoNext /\ Only("resources")
  BY <1>2
<1>3. CASE part = "tools" /\ TjNext /\ Only("tools")
  BY <1>3
<1>4. CASE part = "auth" /\ AuNext /\ Only("auth")
  BY <1>4
<1>5. CASE part = "page" /\ WpNext /\ Only("page")
  BY <1>5
<1>6. CASE part = "memory" /\ SmNext /\ Only("memory")
  BY <1>6
<1>7. CASE part = "paging" /\ PgNext /\ Only("paging")
  BY <1>7
<1>8. CASE UNCHANGED allVars
  BY <1>8 DEF allVars
<1> QED
  BY <1>1, <1>2, <1>3, <1>4, <1>5, <1>6, <1>7, <1>8 DEF MCNext

\* A behaviour of the whole is one of each part.
LEMMA ServicesAreTheirParts ==
    MCSpec => KtSpec /\ RoSpec /\ TjSpec /\ AuSpec /\ WpSpec /\ SmSpec /\ PgSpec
<1>1. MCInit => /\ KtInit /\ RoInit /\ TjInit /\ AuInit
                /\ WpInit /\ SmInit /\ PgInit
  BY DEF MCInit
<1>2. [MCNext]_allVars => /\ [KtNext]_ktVars /\ [RoNext]_roVars /\ [TjNext]_tjVars
                          /\ [AuNext]_auVars /\ [WpNext]_wpVars /\ [SmNext]_smVars
                          /\ [PgNext]_pgVars
  BY ServicesParts
<1> QED
  BY <1>1, <1>2, PTL DEF MCSpec, KtSpec, RoSpec, TjSpec, AuSpec, WpSpec, SmSpec, PgSpec

(***************************************************************************)
(* Whichever part runs, the variables of all of them keep their types.     *)
(***************************************************************************)
THEOREM ServicesTypeCorrect == MCSpec => []ServicesTypesOK
<1>1. (KtTypeOK /\ RoTypeOK /\ TjTypeOK /\ AuTypeOK /\ WpTypeOK /\ SmTypeOK /\ PgTypeOK)
        => ServicesTypesOK
  BY DEF ServicesTypesOK
<1> QED
  BY <1>1, ServicesAreTheirParts, KtTypeCorrect, RoTypeCorrect, TjTypeCorrect,
     AuTypeCorrect, WpTypeCorrect, SmTypeCorrect, PgTypeCorrect, PTL

(***************************************************************************)
(* The safety of all seven parts together: what a search finds, what a     *)
(* message shows, what the model is told of a batch and of the session,    *)
(* whose session the browser holds, which run the page can reach, and      *)
(* what a list contains.                                                   *)
(***************************************************************************)
THEOREM ServicesAreSafe ==
    MCSpec => /\ []KtAnswerHasWord /\ KtOrdinaryTextIsCut
              /\ []RoMessageShowsResources /\ []RoSlotsTellOutcome
              /\ []TjReportIsComplete
              /\ []AuSessionIsOneUsers /\ []AuOneUserPerAccount
              /\ []WpRunIsReachable /\ []WpViewIsOfOneSession
              /\ []SmNoQuestionForgotten /\ []SmNothingFromLater
              /\ []PgNoHoles
BY ServicesAreTheirParts, KtAnswerHasWordAlways, KtCuttingGetsOn, RoMessageShows, RoSlotsTell,
   TjReportCompletes, AuSessionStaysOneUsers, AuAccountStaysOneUser, WpRunsStayReachable,
   WpViewStaysOfOneSession, SmChainIsComplete, SmToldIsFromBefore, PgListsHaveNoHoles, PTL
==============================================================================
