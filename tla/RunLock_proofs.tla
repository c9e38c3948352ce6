---------------------------- MODULE RunLock_proofs ----------------------------
(***************************************************************************)
(* Proofs about RunLock, for any set of workers and any number of leases.  *)
(***************************************************************************)
EXTENDS RunLock, TLAPS

\* The free lock satisfies the invariant.
LEMMA LockInitially == LockInit => LockIInv
BY RunLockAssumption
   DEF LockInit, LockIInv, LockTypeOK, LeasesIssued, LeasesDistinct, LiveLeaseOwnsKey,
       HoldsLiveLease, NoToken, Token

\* Each operation on the lock keeps the invariant.
LEMMA LockStep == LockIInv /\ [LockNext]_lockVars => LockIInv'
<1> SUFFICES ASSUME LockIInv, [LockNext]_lockVars PROVE LockIInv'
  OBVIOUS
<1> USE RunLockAssumption
    DEF NoToken, Token, LockIInv, LockTypeOK, LeasesIssued, LeasesDistinct,
        LiveLeaseOwnsKey, HoldsLiveLease
<1>1. ASSUME NEW w \in Holders, Acquire(w) PROVE LockIInv'
  BY <1>1 DEF Acquire
<1>2. ASSUME NEW w \in Holders, Release(w) PROVE LockIInv'
  BY <1>2 DEF Release, KeyAfterRelease
<1>3. ASSUME NEW w \in Holders, LockCrash(w) PROVE LockIInv'
  BY <1>3 DEF LockCrash
<1>4. CASE Expire
  BY <1>4 DEF Expire
<1>5. CASE UNCHANGED lockVars
  BY <1>5 DEF lockVars
<1> QED
  BY <1>1, <1>2, <1>3, <1>4, <1>5 DEF LockNext

(***************************************************************************)
(* LockIInv is inductive: releaseLockScript compares before it deletes,    *)
(* and no token is issued twice.                                           *)
(***************************************************************************)
THEOREM LockInductive == LockSpec => []LockIInv
BY LockInitially, LockStep, PTL DEF LockSpec

(***************************************************************************)
(* The variables keep their types; in particular no more tokens are made   *)
(* than leases are granted.                                                *)
(***************************************************************************)
THEOREM LockTypeCorrect == LockSpec => []LockTypeOK
BY LockInductive, PTL DEF LockIInv

(***************************************************************************)
(* No late release of an earlier owner ever removes the key of a lease     *)
(* whose TTL has not elapsed.                                              *)
(***************************************************************************)
THEOREM LockOwnership == LockSpec => []LiveLeaseOwnsKey
BY LockInductive, PTL DEF LockIInv

(***************************************************************************)
(* Two live leases would both own the key, and leases are distinct: mutual *)
(* exclusion.                                                              *)
(***************************************************************************)
THEOREM LockExclusion == LockSpec => []AtMostOneLiveLease
<1>1. LockIInv => AtMostOneLiveLease
  BY DEF LockIInv, LockTypeOK, LeasesDistinct, LiveLeaseOwnsKey, HoldsLiveLease,
         AtMostOneLiveLease, NoToken
<1> QED
  BY <1>1, LockInductive, PTL
==============================================================================
