------------------------------- MODULE RunLock -------------------------------
(***************************************************************************)
(* RedisAgentRunLock: the lock a Worker takes before it executes a run.    *)
(* One key per run holds the token of its owner; SET NX EX acquires it, a  *)
(* Lua script that compares the token releases it, and the TTL removes it  *)
(* when its owner crashed or is slower than the TTL.  One run, any number  *)
(* of job handlers ("workers") that contend for it.                        *)
(***************************************************************************)
EXTENDS Naturals

CONSTANTS
    Holders,        \* the job handlers that may execute the run
    MaxTokens       \* bound: how many leases are ever granted

ASSUME RunLockAssumption == MaxTokens \in Nat

VARIABLES
    key,            \* the Redis key: the token stored in it, or NoToken
    lease,          \* lease[w]: the token in the lease object w holds
    issued,         \* number of tokens tokenFactory has made so far
    expired         \* tokens whose TTL elapsed while they were in the key

lockVars == <<key, lease, issued, expired>>

\* No key in Redis; no lease object in a worker.
NoToken == 0

Token == 1..MaxTokens

LockTypeOK ==
    /\ key \in Token \cup {NoToken}
    /\ lease \in [Holders -> Token \cup {NoToken}]
    /\ issued \in 0..MaxTokens
    /\ expired \in SUBSET Token

LockInit ==
    /\ key = NoToken
    /\ lease = [w \in Holders |-> NoToken]
    /\ issued = 0
    /\ expired = {}

-----------------------------------------------------------------------------
\* Mutant: the lease makes a second token instead of keeping the first.
AcquireTwoTokens(w) ==
    /\ lease[w] = NoToken
    /\ key = NoToken
    /\ issued < MaxTokens
    /\ issued' = issued + 2
    /\ key' = issued + 1
    /\ lease' = [lease EXCEPT ![w] = issued + 2]
    /\ UNCHANGED expired

\* acquire: SET key token NX EX ttl answered "OK".  randomUUID is a fresh
\* number here.
Acquire(w) ==
    /\ lease[w] = NoToken
    /\ key = NoToken
    /\ issued < MaxTokens
    /\ issued' = issued + 1
    /\ key' = issued + 1
    /\ lease' = [lease EXCEPT ![w] = issued + 1]
    /\ UNCHANGED expired

\* Mutant: the release deletes the key without comparing the token.
DeleteAlways(token) == NoToken

\* releaseLockScript: GET, compare and DEL are one step of the Redis server.
KeyAfterRelease(token) == IF key = token THEN NoToken ELSE key

\* AgentRunLockLease.release, after which the handler drops the lease.
Release(w) ==
    /\ lease[w] # NoToken
    /\ key' = KeyAfterRelease(lease[w])
    /\ lease' = [lease EXCEPT ![w] = NoToken]
    /\ UNCHANGED <<issued, expired>>

\* The process of w dies: the lease object is gone, the key stays.
LockCrash(w) ==
    /\ lease[w] # NoToken
    /\ lease' = [lease EXCEPT ![w] = NoToken]
    /\ UNCHANGED <<key, issued, expired>>

\* Redis removes the key at its TTL, whether or not the owner is alive.
Expire ==
    /\ key # NoToken
    /\ expired' = expired \cup {key}
    /\ key' = NoToken
    /\ UNCHANGED <<lease, issued>>

LockNext ==
    \/ \E w \in Holders : Acquire(w) \/ Release(w) \/ LockCrash(w)
    \/ Expire

LockSpec == LockInit /\ [][LockNext]_lockVars

-----------------------------------------------------------------------------
(* What the lock promises.  The parts of the inductive invariant that are   *)
(* not promises come last.                                                  *)

\* The lease of w still counts: w has it and its TTL has not elapsed.
HoldsLiveLease(w) == lease[w] # NoToken /\ lease[w] \notin expired

(***************************************************************************)
(* A lease whose TTL has not elapsed owns the key: no late release of an   *)
(* earlier owner has removed it (the case the comment on the Lua script    *)
(* describes: A expires, B acquires, A releases).                          *)
(***************************************************************************)
LiveLeaseOwnsKey == \A w \in Holders : HoldsLiveLease(w) => key = lease[w]

(***************************************************************************)
(* Mutual exclusion: at most one worker holds a lease whose TTL has not    *)
(* elapsed.                                                                *)
(***************************************************************************)
AtMostOneLiveLease ==
    \A v, w \in Holders : HoldsLiveLease(v) /\ HoldsLiveLease(w) => v = w

\* A lease holds a token that was made, and nobody else has the same one.
LeasesIssued == \A w \in Holders : lease[w] <= issued

LeasesDistinct ==
    \A v, w \in Holders : lease[v] = lease[w] /\ lease[v] # NoToken => v = w

LockIInv == LockTypeOK /\ LeasesIssued /\ LeasesDistinct /\ LiveLeaseOwnsKey
==============================================================================
