------------------------------ MODULE Limits ------------------------------
(***************************************************************************)
(* Abuse protection of the login endpoint (ratelimit.py, api/auth.py): a   *)
(* fixed-window counter per client and a failure counter per account, both *)
(* keys of Redis with an expiry.  A request is counted, looks at the       *)
(* account's failures, verifies the password and then records the failure  *)
(* or clears the counter; several do so at once.  An error of Redis, at any *)
(* of these calls, never refuses a request.                                *)
(***************************************************************************)
EXTENDS Integers, FiniteSets, NoValue

CONSTANTS Visitor, RateLimit, RateWindow, LockoutMax, LockoutS, MaxMoment, MaxCount

ASSUME LimitAssumption ==
  /\ None \notin Nat /\ IsFiniteSet(Visitor)
  /\ RateLimit \in Nat /\ RateWindow \in Nat /\ LockoutMax \in Nat \ {0} /\ LockoutS \in Nat

(* rate, lock: the two keys; trying, blind: the requests past the lockout   *)
(* check, as Redis answered it or failed to; admitted, wrong: when a        *)
(* request was counted and let through, and when one of trying failed and   *)
(* that was recorded, since the last good login, of late.                   *)
VARIABLES moment, rate, lock, trying, blind, admitted, wrong

limitVars == <<moment, rate, lock, trying, blind, admitted, wrong>>

NoKey == [n |-> 0, expires |-> None]

LimitInit ==
  /\ moment = 0 /\ rate = NoKey /\ lock = NoKey /\ trying = {} /\ blind = {}
  /\ admitted = {} /\ wrong = {}

Expired(key) == key.expires # None /\ key.expires <= moment

LimitTick ==
  /\ moment < MaxMoment /\ moment' = moment + 1
  /\ UNCHANGED <<rate, lock, trying, blind, admitted, wrong>>

(* Redis drops a key whose time has come.                                   *)
Incr(key) == IF Expired(key) THEN [NoKey EXCEPT !.n = 1] ELSE [key EXCEPT !.n = @ + 1]
FailCount == IF Expired(lock) THEN 0 ELSE lock.n

(* What happened before, of late, and now: the nth at this moment.          *)
OfLate(before, length) == {e \in before : e.at > moment - length}

Lately(before, length) ==
  OfLate(before, length)
    \cup {[at |-> moment, n |-> Cardinality({e \in before : e.at = moment})]}

-----------------------------------------------------------------------------
(* allow: the window begins with its first request.                         *)
Counted(key) ==
  LET k == Incr(key) IN IF k.n = 1 THEN [k EXCEPT !.expires = moment + RateWindow] ELSE k

(* fail_count is 0 when Redis does not answer.                              *)
Admit(r) ==
  \/ FailCount >= LockoutMax /\ UNCHANGED <<trying, blind>>
  \/ FailCount < LockoutMax /\ trying' = trying \cup {r} /\ UNCHANGED blind
  \/ blind' = blind \cup {r} /\ UNCHANGED trying

(* Each counter grows up to MaxCount.                                       *)
LoginCounted(r) ==
  /\ r \notin trying \cup blind /\ Incr(rate).n <= MaxCount /\ rate' = Counted(rate)
  /\ IF rate'.n <= RateLimit THEN Admit(r) /\ admitted' = Lately(admitted, RateWindow)
     ELSE UNCHANGED <<trying, blind, admitted>>
  /\ UNCHANGED <<moment, lock, wrong>>

(* Redis did not answer: the request is let through, and uncounted, or      *)
(* counted under a key that was given no expiry.                            *)
LoginUncounted(r) ==
  /\ r \notin trying \cup blind
  /\ rate' \in {rate} \cup (IF Incr(rate).n = 1 THEN {Incr(rate)} ELSE {})
  /\ Admit(r)
  /\ UNCHANGED <<moment, lock, admitted, wrong>>

(* record_fail: every failure renews the expiry.                            *)
FailedOnce(key) ==
  LET k == Incr(key) IN IF k.n = 1 THEN [k EXCEPT !.expires = moment + LockoutS] ELSE k

Failed(key) == [Incr(key) EXCEPT !.expires = moment + LockoutS]

Leaves(r) == r \in trying \cup blind /\ trying' = trying \ {r} /\ blind' = blind \ {r}

Wrong(r) ==
  /\ Leaves(r) /\ Incr(lock).n <= MaxCount /\ lock' = Failed(lock)
  /\ wrong' = IF r \in trying THEN Lately(wrong, LockoutS) ELSE OfLate(wrong, LockoutS)
  /\ UNCHANGED <<moment, rate, admitted>>

(* clear, after a good login.                                               *)
Right(r) ==
  /\ Leaves(r) /\ lock' = NoKey /\ wrong' = {}
  /\ UNCHANGED <<moment, rate, admitted>>

(* Redis did not answer after the password was verified, or not any more    *)
(* once the failure was counted; or the request died.                       *)
Unrecorded(r) ==
  /\ Leaves(r) /\ lock' \in {lock} \cup (IF lock.n < MaxCount THEN {Incr(lock)} ELSE {})
  /\ wrong' = OfLate(wrong, LockoutS)
  /\ UNCHANGED <<moment, rate, admitted>>

LimitNext ==
  \/ LimitTick
  \/ \E r \in Visitor : LoginCounted(r) \/ LoginUncounted(r) \/ Wrong(r) \/ Right(r) \/ Unrecorded(r)

LimitSpec == LimitInit /\ [][LimitNext]_limitVars

-----------------------------------------------------------------------------
Within(events, from, length) == {e \in events : e.at >= from /\ e.at < from + length}

(* However requests overlap: of the passwords tried on an account without a *)
(* good login between them, Redis answering, at most LockoutMax and those   *)
(* under way when the lock closed are wrong in any stretch of LockoutS; and *)
(* no stretch of RateWindow admits more than the limit of the two windows   *)
(* it touches.                                                              *)
LimitsHold ==
  \A from \in 0 .. MaxMoment :
    /\ Cardinality(Within(wrong, from, LockoutS)) <= LockoutMax + Cardinality(Visitor) - 1
    /\ Cardinality(Within(admitted, from, RateWindow)) <= 2 * RateLimit
=============================================================================
