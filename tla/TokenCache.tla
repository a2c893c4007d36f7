---------------------------- MODULE TokenCache ----------------------------
(***************************************************************************)
(* Ingest tokens: minted, rotated and revoked through the API              *)
(* (api/agents.py, auth/tokens.py), and verified by the Go receiver        *)
(* (services/ingest: authpg.go), which keeps what it verified in a small   *)
(* LRU cache with a time to live (tokencache.go).  Verifying is slow: the  *)
(* row is read first and the entry put later.                              *)
(***************************************************************************)
EXTENDS Integers, Sequences, FiniteSets, NoValue

CONSTANTS Token, Verifier, Cap, TTL, MaxDelay, MaxTime

ASSUME TokenAssumption ==
  /\ None \notin Nat
  /\ Cap \in Nat \ {0} /\ TTL \in Nat /\ MaxDelay \in Nat

VARIABLES now, minted, revokedAt, cache, verifying

tokenVars == <<now, minted, revokedAt, cache, verifying>>

(* cache is the list of the LRU, most recently used first.                  *)
TokenInit ==
  /\ now = 0 /\ minted = {} /\ revokedAt = [t \in Token |-> None]
  /\ cache = <<>> /\ verifying = [r \in Verifier |-> None]

Live(t) == t \in minted /\ revokedAt[t] = None

At(t) == {i \in 1 .. Len(cache) : cache[i].token = t}
Hit(t) == \E i \in At(t) : now <= cache[i].expires

(* removeElement, of the one the map points to.                             *)
Removed(t) ==
  IF At(t) = {} THEN cache
  ELSE LET i == CHOOSE i \in At(t) : TRUE
       IN SubSeq(cache, 1, i - 1) \o SubSeq(cache, i + 1, Len(cache))

(* put: to the front, for a whole TTL from now; over the capacity the least *)
(* recently used entry goes.                                                *)
Put(t) ==
  LET longer == <<[token |-> t, expires |-> now + TTL]>> \o Removed(t)
  IN SubSeq(longer, 1, IF Len(longer) > Cap THEN Cap ELSE Len(longer))

UsedAndRenewed(t) == Put(t)

(* get: a hit moves to the front and keeps its expiry.                      *)
Used(t) == <<cache[CHOOSE i \in At(t) : TRUE]>> \o Removed(t)

-----------------------------------------------------------------------------
(* No verification takes longer than MaxDelay.                              *)
Tick ==
  /\ now < MaxTime /\ now' = now + 1
  /\ \A r \in Verifier : verifying[r] # None => now < verifying[r].read + MaxDelay
  /\ UNCHANGED <<minted, revokedAt, cache, verifying>>

CreateIngestToken(t) ==
  /\ t \notin minted /\ minted' = minted \cup {t}
  /\ UNCHANGED <<now, revokedAt, cache, verifying>>

(* Revoking a token again only stamps it again; revokedAt is the first time. *)
Stamped(t) == [revokedAt EXCEPT ![t] = IF @ = None THEN now ELSE @]

Revoke(t) ==
  /\ t \in minted /\ revokedAt' = Stamped(t)
  /\ UNCHANGED <<now, minted, cache, verifying>>

Rotate(old, t) ==
  /\ old \in minted /\ t \notin minted
  /\ revokedAt' = Stamped(old) /\ minted' = minted \cup {t}
  /\ UNCHANGED <<now, cache, verifying>>

(* identify, on a hit.                                                      *)
IdentifyHit(t) ==
  /\ Hit(t) /\ cache' = Used(t)
  /\ UNCHANGED <<now, minted, revokedAt, verifying>>

(* On a miss an expired entry goes and the live rows are read ...           *)
IdentifyMiss(r, t) ==
  /\ verifying[r] = None /\ ~Hit(t) /\ cache' = Removed(t)
  /\ verifying' = [verifying EXCEPT ![r] = IF Live(t) THEN [token |-> t, read |-> now] ELSE None]
  /\ UNCHANGED <<now, minted, revokedAt>>

(* ... and, compared and found to match, the token is cached.               *)
Verified(r) ==
  /\ verifying[r] # None /\ cache' = Put(verifying[r].token)
  /\ verifying' = [verifying EXCEPT ![r] = None]
  /\ UNCHANGED <<now, minted, revokedAt>>

(* The database failed, or the hash does not match.                         *)
VerifyFails(r) ==
  /\ verifying[r] # None /\ verifying' = [verifying EXCEPT ![r] = None]
  /\ UNCHANGED <<now, minted, revokedAt, cache>>

TokenNext ==
  \/ Tick
  \/ \E t \in Token :
       CreateIngestToken(t) \/ Revoke(t) \/ IdentifyHit(t) \/ \E old \in Token : Rotate(old, t)
  \/ \E r \in Verifier :
       Verified(r) \/ VerifyFails(r) \/ \E t \in Token : IdentifyMiss(r, t)

TokenSpec == TokenInit /\ [][TokenNext]_tokenVars

-----------------------------------------------------------------------------
(* A revoked token stops working within the TTL, plus what a verification   *)
(* under way at the revocation may take: no entry outlives that, and no     *)
(* two entries are of one token.                                            *)
RevokedWithinTTL ==
  /\ \A i \in 1 .. Len(cache) :
       LET t == cache[i].token IN
       revokedAt[t] # None => cache[i].expires <= revokedAt[t] + TTL + MaxDelay
  /\ \A i, j \in 1 .. Len(cache) : cache[i].token = cache[j].token => i = j
=============================================================================
