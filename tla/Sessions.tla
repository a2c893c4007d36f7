----------------------------- MODULE Sessions -----------------------------
(***************************************************************************)
(* Login sessions (auth/refresh.py, api/auth.py): rotating refresh tokens  *)
(* that live in the schema of an organisation, and the three cookies of a  *)
(* browser: the access token, which carries user and organisation, the     *)
(* refresh token, and the organisation the next refresh looks in.  A       *)
(* request carries the cookies of the moment it is sent; its response sets *)
(* cookies when it arrives, in any order.                                  *)
(***************************************************************************)
EXTENDS Integers, FiniteSets, NoValue

CONSTANTS Org, User, MaxTokens, MaxFlight

VARIABLES tokens, jar, flight, logins

sessionVars == <<tokens, jar, flight, logins>>

NoCookies == [access |-> None, refresh |-> None, org |-> None]

SessionInit == tokens = {} /\ jar = NoCookies /\ flight = {} /\ logins = {}

(* A response sets some of the cookies, and clears them with None.          *)
Responses == {r \in flight : r.op = "response"}
Response(set) == [op |-> "response", set |-> set]
Clear == Response(NoCookies)

Sent(op, cookies, found) == [op |-> op, cookies |-> cookies, found |-> found]

-----------------------------------------------------------------------------
Room == Cardinality(flight) < MaxFlight
Fresh == Cardinality(tokens) < MaxTokens

Mint(o, u, family) ==
  [id |-> Cardinality(tokens) + 1, org |-> o, user |-> u, family |-> family, live |-> TRUE]

(* login and accept_invite: a new family, all three cookies.                *)
Login(o, u) ==
  /\ Room /\ Fresh
  /\ LET t == Mint(o, u, Cardinality(tokens) + 1) IN
     /\ tokens' = tokens \cup {t}
     /\ flight' = flight \cup {Response([access |-> <<o, u>>, refresh |-> t.id, org |-> o])}
  /\ logins' = logins \cup {<<o, u>>}
  /\ UNCHANGED jar

(* refresh and logout pin the schema the org cookie names; the token is     *)
(* looked up there.                                                         *)
Pinned(c) == IF c.org = None THEN CHOOSE o \in Org : TRUE ELSE c.org

FindAnywhere(c) == {t \in tokens : t.id = c.refresh}

Find(c) == {t \in tokens : t.id = c.refresh /\ t.org = Pinned(c)}

(* rotate_refresh reads the token ...                                       *)
RefreshRead ==
  /\ Room /\ jar.refresh # None
  /\ flight' = flight \cup {Sent("refresh", jar, Find(jar))}
  /\ UNCHANGED <<tokens, jar, logins>>

(* ... and, if it was live, revokes it and mints the next of its family.    *)
(* The access token is for the pinned organisation; the org cookie stays.   *)
RotateRefresh(r) ==
  /\ r.op = "refresh" /\ Fresh
  /\ \E t \in r.found :
       /\ t.live
       /\ LET n == Mint(t.org, t.user, t.family) IN
          /\ tokens' = {[x EXCEPT !.live = @ /\ x.id # t.id] : x \in tokens} \cup {n}
          /\ flight' = (flight \ {r}) \cup
               {Response([access |-> <<Pinned(r.cookies), t.user>>, refresh |-> n.id])}
  /\ UNCHANGED <<jar, logins>>

(* An unknown, expired or revoked token: 401, whose error response carries  *)
(* no cookies and whose rollback undoes what was revoked.                   *)
RefreshRefused(r) ==
  /\ r.op = "refresh" /\ (\A t \in r.found : ~t.live)
  /\ flight' = flight \ {r}
  /\ UNCHANGED <<tokens, jar, logins>>

(* A token that ran out between two requests.                               *)
Expire(t) ==
  /\ t.live /\ tokens' = {[x EXCEPT !.live = @ /\ x.id # t.id] : x \in tokens}
  /\ UNCHANGED <<jar, flight, logins>>

Logout ==
  /\ Room
  /\ tokens' = {[x EXCEPT !.live = @ /\ x \notin Find(jar)] : x \in tokens}
  /\ flight' = flight \cup {Clear}
  /\ UNCHANGED <<jar, logins>>

LogoutAll ==
  /\ Room /\ jar.access # None
  /\ tokens' = {[x EXCEPT !.live = @ /\ <<x.org, x.user>> # jar.access] : x \in tokens}
  /\ flight' = flight \cup {Clear}
  /\ UNCHANGED <<jar, logins>>

(* A response arrives, or is lost.                                          *)
Arrive(r) ==
  /\ flight' = flight \ {r}
  /\ jar' = [k \in DOMAIN jar |-> IF k \in DOMAIN r.set THEN r.set[k] ELSE jar[k]]
  /\ UNCHANGED <<tokens, logins>>

Lose(r) == flight' = flight \ {r} /\ UNCHANGED <<tokens, jar, logins>>

SessionNext ==
  \/ \E o \in Org, u \in User : Login(o, u)
  \/ RefreshRead \/ Logout \/ LogoutAll
  \/ \E r \in flight : RotateRefresh(r) \/ RefreshRefused(r)
  \/ \E r \in Responses : Arrive(r) \/ Lose(r)
  \/ \E t \in tokens : Expire(t)

SessionSpec == SessionInit /\ [][SessionNext]_sessionVars

-----------------------------------------------------------------------------
(* However responses overtake one another, the access token a browser holds *)
(* names a user who signed in to that organisation: a refresh that runs in  *)
(* another organisation than the token's finds nothing to rotate.           *)
SignedInThere == jar.access # None => jar.access \in logins
=============================================================================
