-------------------------- MODULE Services_proofs --------------------------
(***************************************************************************)
(* What the services around the call store promise.  The first owner, the  *)
(* browser's cookies, the scope of the chat and the limits of the login,   *)
(* for any people, organisations, tokens, responses under way, agents and  *)
(* calls.  The two sidecars and the two streams, for every number of       *)
(* calls, passes and writes: nothing the store holds is overtaken by the   *)
(* poller's watermark, the clusters shown agree with the calls in them,    *)
(* and a stream has sent what there is.                                    *)
(***************************************************************************)
EXTENDS Accounts, Sessions, Scope, Limits, Poller, Clusters, Streams, Induction, FunctionTheorems

-----------------------------------------------------------------------------
(* Accounts.                                                               *)

\* The organisation is there once somebody is, and signup and bootstrap, which go on
\* only where nobody is, never adopt one.
Founding ==
  /\ org \in BOOLEAN
  /\ org <=> DOMAIN users # {}
  /\ \A f \in Founder \ {"dev"} : founding[f] = None \/ founding[f] = "inserts"

OneFounder == \A f, g \in (Founder \ {"dev"}) \cap DOMAIN users : f = g

AccountInv ==
  /\ founding \in [Founder -> {None, "adopts", "inserts"}]
  /\ Founding
  /\ OneFounder

LEMMA WithDomain ==
  ASSUME NEW f, NEW p, NEW v
  PROVE  DOMAIN With(f, p, v) = DOMAIN f \cup {p}
BY DEF With

LEMMA AccountStart == AccountInit => AccountInv
BY DEF AccountInit, AccountInv, Founding, OneFounder

LEMMA BeginKeeps ==
  ASSUME AccountInv, NEW f \in Founder, Begin(f)
  PROVE  AccountInv'
<1>1. f # "dev" => users = <<>>
  BY DEF Begin, Open, SignupOpen
<1>2. f # "dev" => ~org
  BY <1>1 DEF AccountInv, Founding
<1> QED
  BY <1>2 DEF AccountInv, Founding, OneFounder, Begin

LEMMA FoundKeeps ==
  ASSUME AccountInv, NEW f \in Founder, Found(f)
  PROVE  AccountInv'
<1>1. DOMAIN users' = DOMAIN users \cup {f}
  BY WithDomain DEF Found
<1>2. f # "dev" => DOMAIN users = {}
  BY DEF Found, Taken, AccountInv, Founding
<1>3. OneFounder'
  BY <1>1, <1>2 DEF AccountInv, OneFounder
<1>4. Founding'
  BY <1>1 DEF AccountInv, Founding, Found
<1> QED
  BY <1>3, <1>4 DEF AccountInv, Found

LEMMA AddMemberKeeps ==
  ASSUME AccountInv, NEW by \in Person, NEW p \in Person, NEW role \in Role,
         AddMember(by, p, role)
  PROVE  AccountInv'
<1>1. DOMAIN users # {}
  BY DEF AddMember, Admin, SignedIn
<1>2. \/ DOMAIN users' = DOMAIN users
      \/ p \in Guest /\ DOMAIN users' = DOMAIN users \cup {p}
  <2>1. DOMAIN With(users, p, "stub") = DOMAIN users \cup {p}
    BY WithDomain
  <2>2. CASE p \in DOMAIN users
    BY <2>2 DEF AddMember
  <2>3. CASE p \notin DOMAIN users
    <3>1. users' = With(users, p, "stub") /\ p \in Guest
      BY <2>3 DEF AddMember
    <3> QED
      BY <2>1, <3>1
  <2> QED
    BY <2>2, <2>3
<1>3. OneFounder'
  BY <1>2, AccountAssumption DEF AccountInv, OneFounder
<1>4. UNCHANGED <<org, founding>> /\ DOMAIN users' # {}
  BY <1>1, <1>2 DEF AddMember
<1>5. Founding'
  BY <1>1, <1>4 DEF AccountInv, Founding
<1> QED
  BY <1>3, <1>4, <1>5 DEF AccountInv

LEMMA AccountStep == AccountInv /\ [AccountNext]_accountVars => AccountInv'
<1> SUFFICES ASSUME AccountInv, [AccountNext]_accountVars PROVE AccountInv'
  OBVIOUS
<1>1. ASSUME NEW f \in Founder, Begin(f) \/ Found(f) \/ FoundFails(f)
      PROVE  AccountInv'
  <2>1. CASE Begin(f)
    BY <2>1, BeginKeeps
  <2>2. CASE Found(f)
    BY <2>2, FoundKeeps
  <2>3. CASE FoundFails(f)
    BY <2>3 DEF FoundFails, AccountInv, Founding, OneFounder
  <2> QED
    BY <1>1, <2>1, <2>2, <2>3
<1>2. ASSUME NEW by \in Person, NEW p \in Person, NEW role \in Role,
             SetRole(by, p, role) \/ AddMember(by, p, role)
      PROVE  AccountInv'
  BY <1>2, AddMemberKeeps DEF SetRole, AccountInv, Founding, OneFounder
<1>3. ASSUME NEW by \in Person, NEW p \in Person,
             RemoveMember(by, p) \/ \E agents \in SUBSET Agent : SetAgentAccess(by, p, agents)
      PROVE  AccountInv'
  BY <1>3 DEF RemoveMember, SetAgentAccess, AccountInv, Founding, OneFounder
<1>4. ASSUME NEW p \in Guest, AcceptInvite(p)
      PROVE  AccountInv'
  <2>1. DOMAIN users' = DOMAIN users
    BY <1>4 DEF AcceptInvite
  <2> QED
    BY <1>4, <2>1 DEF AcceptInvite, AccountInv, Founding, OneFounder
<1>5. CASE UNCHANGED accountVars
  BY <1>5 DEF accountVars, AccountInv, Founding, OneFounder
<1> QED
  BY <1>1, <1>2, <1>3, <1>4, <1>5 DEF AccountNext

LEMMA OneIsAtMostOne ==
  ASSUME OneFounder
  PROVE  FirstOwnerOnly
<1> DEFINE S == (Founder \ {"dev"}) \cap DOMAIN users
<1>1. CASE S = {}
  BY <1>1, FS_EmptySet DEF FirstOwnerOnly
<1>2. CASE S # {}
  <2>1. PICK f \in S : TRUE
    BY <1>2
  <2>2. S = {f}
    BY <2>1 DEF OneFounder
  <2>3. Cardinality({f}) = 1
    BY FS_Singleton
  <2> QED
    BY <2>2, <2>3 DEF FirstOwnerOnly
<1> QED
  BY <1>1, <1>2

\* api/auth.py signup, auth/__main__.py bootstrap: however many open the first account
\* at once, and whatever members do meanwhile, one of them becomes the first owner.
THEOREM OneFirstOwner == AccountSpec => []FirstOwnerOnly
<1>1. AccountSpec => []AccountInv
  BY AccountStart, AccountStep, PTL DEF AccountSpec
<1>2. AccountInv => FirstOwnerOnly
  BY OneIsAtMostOne DEF AccountInv
<1> QED
  BY <1>1, <1>2, PTL

-----------------------------------------------------------------------------
(* Sessions.                                                               *)

Columns == {"id", "org", "user", "family", "live"}

\* A refresh token belongs to one of those who signed in where it lives.
Issued(t, in) == DOMAIN t = Columns /\ <<t.org, t.user>> \in in

\* An access token under way, or in the browser, is of one of them.
Earned(set, in) == "access" \in DOMAIN set => set["access"] = None \/ set["access"] \in in

\* What a refresh found it found in the organisation its cookies name.
FlightInv(r, in) ==
  /\ r.op = "refresh" => \A t \in r.found : Issued(t, in) /\ t.org = Pinned(r.cookies)
  /\ r.op = "response" => Earned(r.set, in)

SessionInv ==
  /\ \A t \in tokens : Issued(t, logins)
  /\ \A r \in flight : FlightInv(r, logins)
  /\ "access" \in DOMAIN jar /\ Earned(jar, logins)

LEMMA SessionStart == SessionInit => SessionInv
BY DEF SessionInit, SessionInv, NoCookies, Earned

\* Sign-ins are never forgotten: what was earned stays so.
LEMMA EarnedStays ==
  ASSUME NEW prior, NEW new, prior \subseteq new
  PROVE  /\ \A t : Issued(t, prior) => Issued(t, new)
         /\ \A c : Earned(c, prior) => Earned(c, new)
         /\ \A r : FlightInv(r, prior) => FlightInv(r, new)
<1>1. \A t : Issued(t, prior) => Issued(t, new)
  BY DEF Issued
<1>2. \A c : Earned(c, prior) => Earned(c, new)
  BY DEF Earned
<1> QED
  BY <1>1, <1>2 DEF FlightInv

\* Revoking a token leaves its organisation and its user alone.
SameOwner(x, t) == DOMAIN x = DOMAIN t /\ x.org = t.org /\ x.user = t.user

\* What the steps of the server have in common: they add issued tokens and earned
\* responses, and leave the browser alone.
LEMMA ServerKeeps ==
  ASSUME SessionInv, logins \subseteq logins', jar' = jar,
         \A x \in tokens' : Issued(x, logins') \/ \E t \in tokens : SameOwner(x, t),
         \A r \in flight' : r \in flight \/ FlightInv(r, logins')
  PROVE  SessionInv'
<1>1. \A t \in tokens : Issued(t, logins')
  BY EarnedStays DEF SessionInv
<1>2. \A t \in tokens' : Issued(t, logins')
  BY <1>1 DEF Issued, SameOwner
<1>3. \A r \in flight' : FlightInv(r, logins')
  BY EarnedStays DEF SessionInv
<1>4. "access" \in DOMAIN jar' /\ Earned(jar', logins')
  BY EarnedStays DEF SessionInv
<1> QED
  BY <1>2, <1>3, <1>4 DEF SessionInv

\* A step that only revokes, and sends nothing but empty cookies.
LEMMA RevokedKeeps ==
  ASSUME SessionInv, UNCHANGED <<jar, logins>>,
         \A x \in tokens' : \E t \in tokens : SameOwner(x, t),
         \A r \in flight' : r \in flight \/ r = Clear
  PROVE  SessionInv'
<1>1. FlightInv(Clear, logins')
  BY DEF FlightInv, Clear, Response, NoCookies, Earned
<1> HIDE DEF Clear
<1> QED
  BY <1>1, ServerKeeps

LEMMA MintIssues ==
  ASSUME NEW o, NEW u, NEW family, NEW in, <<o, u>> \in in
  PROVE  Issued(Mint(o, u, family), in)
BY DEF Mint, Issued, Columns

LEMMA LoginKeeps ==
  ASSUME SessionInv, NEW o \in Org, NEW u \in User, Login(o, u)
  PROVE  SessionInv'
<1> DEFINE t == Mint(o, u, Cardinality(tokens) + 1)
           r == Response([access |-> <<o, u>>, refresh |-> t.id, org |-> o])
<1>1. Issued(t, logins')
  BY MintIssues DEF Login
<1>2. FlightInv(r, logins')
  BY DEF Login, FlightInv, Response, Earned
<1>3. tokens' = tokens \cup {t} /\ flight' = flight \cup {r}
  BY DEF Login
<1>4. \A x \in tokens' : Issued(x, logins') \/ \E y \in tokens : SameOwner(x, y)
  BY <1>1, <1>3 DEF SameOwner
<1>5. logins \subseteq logins' /\ jar' = jar
  BY DEF Login
<1> HIDE DEF t, r
<1> QED
  BY <1>1, <1>2, <1>3, <1>4, <1>5, ServerKeeps

LEMMA RefreshReadKeeps ==
  ASSUME SessionInv, RefreshRead
  PROVE  SessionInv'
<1> DEFINE r == Sent("refresh", jar, Find(jar))
<1>1. FlightInv(r, logins)
  BY DEF FlightInv, Sent, Find, SessionInv
<1>2. flight' = flight \cup {r} /\ UNCHANGED <<tokens, jar, logins>>
  BY DEF RefreshRead
<1>3. \A x \in tokens' : \E t \in tokens : SameOwner(x, t)
  BY <1>2 DEF SameOwner
<1> HIDE DEF r
<1> QED
  BY <1>1, <1>2, <1>3, ServerKeeps

LEMMA RotateKeeps ==
  ASSUME SessionInv, NEW r \in flight, RotateRefresh(r)
  PROVE  SessionInv'
<1>1. PICK t \in r.found :
        LET n == Mint(t.org, t.user, t.family) IN
        /\ tokens' = {[x EXCEPT !.live = @ /\ x.id # t.id] : x \in tokens} \cup {n}
        /\ flight' = (flight \ {r}) \cup
             {Response([access |-> <<Pinned(r.cookies), t.user>>, refresh |-> n.id])}
  BY DEF RotateRefresh
<1> DEFINE n == Mint(t.org, t.user, t.family)
           a == Response([access |-> <<Pinned(r.cookies), t.user>>, refresh |-> n.id])
<1>2. Issued(t, logins) /\ t.org = Pinned(r.cookies)
  BY DEF SessionInv, FlightInv, RotateRefresh
<1>3. Issued(n, logins)
  BY <1>2, MintIssues DEF Issued
<1>4. FlightInv(a, logins)
  BY <1>2 DEF FlightInv, Response, Earned, Issued
<1>5. UNCHANGED <<jar, logins>>
  BY DEF RotateRefresh
<1>6. ASSUME NEW x \in tokens' PROVE Issued(x, logins') \/ \E y \in tokens : SameOwner(x, y)
  BY <1>1, <1>3, <1>5 DEF SameOwner, SessionInv, Issued, Columns
<1>7. \A x \in flight' : x \in flight \/ x = a
  BY <1>1
<1> HIDE DEF n, a
<1> QED
  BY <1>3, <1>4, <1>5, <1>6, <1>7, ServerKeeps

LEMMA ArriveKeeps ==
  ASSUME SessionInv, NEW r \in Responses, Arrive(r)
  PROVE  SessionInv'
<1>1. Earned(r.set, logins)
  BY DEF Responses, SessionInv, FlightInv
<1>2. "access" \in DOMAIN jar' /\ Earned(jar', logins)
  BY <1>1 DEF Arrive, SessionInv, Earned
<1> QED
  BY <1>2 DEF Arrive, SessionInv

LEMMA SessionStep == SessionInv /\ [SessionNext]_sessionVars => SessionInv'
<1> SUFFICES ASSUME SessionInv, [SessionNext]_sessionVars PROVE SessionInv'
  OBVIOUS
<1>1. ASSUME RefreshRead \/ Logout \/ LogoutAll PROVE SessionInv'
  <2>1. CASE RefreshRead
    BY <2>1, RefreshReadKeeps
  <2>2. CASE Logout
    <3>1. \A x \in tokens' : \E t \in tokens : SameOwner(x, t)
      BY <2>2 DEF Logout, SameOwner, SessionInv, Issued, Columns
    <3> QED
      BY <2>2, <3>1, RevokedKeeps DEF Logout
  <2>3. CASE LogoutAll
    <3>1. \A x \in tokens' : \E t \in tokens : SameOwner(x, t)
      BY <2>3 DEF LogoutAll, SameOwner, SessionInv, Issued, Columns
    <3> QED
      BY <2>3, <3>1, RevokedKeeps DEF LogoutAll
  <2> QED
    BY <1>1, <2>1, <2>2, <2>3
<1>2. ASSUME NEW r \in flight, RotateRefresh(r) \/ RefreshRefused(r) PROVE SessionInv'
  <2>1. CASE RefreshRefused(r)
    <3>1. \A x \in tokens' : \E t \in tokens : SameOwner(x, t)
      BY <2>1 DEF RefreshRefused, SameOwner
    <3> QED
      BY <2>1, <3>1, RevokedKeeps DEF RefreshRefused
  <2> QED
    BY <1>2, <2>1, RotateKeeps
<1>3. ASSUME NEW r \in Responses, Arrive(r) \/ Lose(r) PROVE SessionInv'
  <2>1. CASE Lose(r)
    <3>1. \A x \in tokens' : \E t \in tokens : SameOwner(x, t)
      BY <2>1 DEF Lose, SameOwner
    <3> QED
      BY <2>1, <3>1, RevokedKeeps DEF Lose
  <2> QED
    BY <1>3, <2>1, ArriveKeeps
<1>4. ASSUME NEW t \in tokens, Expire(t) PROVE SessionInv'
  <2>1. \A x \in tokens' : \E y \in tokens : SameOwner(x, y)
    BY <1>4 DEF Expire, SameOwner, SessionInv, Issued, Columns
  <2> QED
    BY <1>4, <2>1, RevokedKeeps DEF Expire
<1>5. CASE UNCHANGED sessionVars
  BY <1>5 DEF sessionVars, SessionInv
<1> QED
  BY <1>1, <1>2, <1>3, <1>4, <1>5, LoginKeeps DEF SessionNext

\* api/auth.py refresh: whatever responses are lost or overtake one another, the access
\* token a browser holds is of a user who signed in to that organisation.
THEOREM AccessIsEarned == SessionSpec => []SignedInThere
<1>1. SessionSpec => []SessionInv
  BY SessionStart, SessionStep, PTL DEF SessionSpec
<1>2. SessionInv => SignedInThere
  BY DEF SessionInv, Earned, SignedInThere
<1> QED
  BY <1>1, <1>2, PTL

-----------------------------------------------------------------------------
(* Who sees which calls.                                                    *)

\* A view over calls admits those the endpoint for the bound call shows.
LEMMA CallView ==
  ASSUME NEW id
  PROVE  ViewRows("call", listed, listed, Settings(member, id)) = Bound(id)
<1>1. \A c : In(c.agent, VisibleAgentIds(member)) /\ (id = None \/ c.id = id)
               <=> Admits("call", c, listed, Settings(member, id))
  BY DEF Admits, AgentMember, CallMatch, Settings
<1>2. Bound(id) = {c \in listed : In(c.agent, VisibleAgentIds(member)) /\ (id = None \/ c.id = id)}
  BY DEF Bound, Shown, Scoped, ScopedCall
<1> QED
  BY <1>1, <1>2 DEF ViewRows

\* A row joined to its call is admitted as its call is.
LEMMA JoinedView ==
  ASSUME NEW id
  PROVE  CallsOf("via_call", Turns, id) = Ids(Bound(id))
<1>1. \A c \in listed : c \in Bound(id) <=> Admits("call", c, listed, Settings(member, id))
  BY CallView DEF ViewRows
<1>2. \A r : Admits("via_call", r, listed, Settings(member, id))
               <=> \E c \in listed : c.id = r.call /\ c \in Bound(id)
  BY <1>1 DEF Admits
<1>3. ASSUME NEW x \in CallsOf("via_call", Turns, id) PROVE x \in Ids(Bound(id))
  <2>1. PICK r \in Turns : x = r.call /\ Admits("via_call", r, listed, Settings(member, id))
    BY <1>3 DEF CallsOf, ViewRows
  <2> QED
    BY <1>2, <2>1 DEF Ids
<1>4. ASSUME NEW c \in Bound(id) PROVE c.id \in CallsOf("via_call", Turns, id)
  <2> DEFINE r == [call |-> c.id]
  <2>1. c \in listed
    BY DEF Bound, Shown, Scoped, ScopedCall
  <2>2. r \in Turns /\ r.call = c.id
    BY <2>1 DEF Turns
  <2> HIDE DEF r
  <2>3. r \in ViewRows("via_call", Turns, listed, Settings(member, id))
    BY <1>2, <2>1, <2>2 DEF ViewRows
  <2> QED
    BY <2>2, <2>3 DEF CallsOf
<1> QED
  BY <1>3, <1>4 DEF Ids

\* A row that names its call and its agent is admitted as its call is.
LEMMA OwnCallView ==
  ASSUME NEW id
  PROVE  CallsOf("own_call", Placed, id) = Ids(Bound(id))
<1>1. \A c \in listed : c \in Bound(id) <=> Admits("call", c, listed, Settings(member, id))
  BY CallView DEF ViewRows
<1>2. \A r, c : r.call = c.id /\ r.agent = c.agent =>
        (Admits("own_call", r, listed, Settings(member, id))
           <=> Admits("call", c, listed, Settings(member, id)))
  BY DEF Admits
<1>3. ASSUME NEW x \in CallsOf("own_call", Placed, id) PROVE x \in Ids(Bound(id))
  <2>1. PICK r \in Placed : x = r.call /\ Admits("own_call", r, listed, Settings(member, id))
    BY <1>3 DEF CallsOf, ViewRows
  <2>2. PICK c \in listed : r = [call |-> c.id, agent |-> c.agent]
    BY <2>1 DEF Placed
  <2>3. r.call = c.id /\ r.agent = c.agent
    BY <2>2
  <2> QED
    BY <1>1, <1>2, <2>1, <2>3 DEF Ids
<1>4. ASSUME NEW c \in Bound(id) PROVE c.id \in CallsOf("own_call", Placed, id)
  <2> DEFINE r == [call |-> c.id, agent |-> c.agent]
  <2>1. c \in listed
    BY DEF Bound, Shown, Scoped, ScopedCall
  <2>2. r \in Placed /\ r.call = c.id /\ r.agent = c.agent
    BY <2>1 DEF Placed
  <2> HIDE DEF r
  <2>3. r \in ViewRows("own_call", Placed, listed, Settings(member, id))
    BY <1>1, <1>2, <2>1, <2>2 DEF ViewRows
  <2> QED
    BY <2>2, <2>3 DEF CallsOf
<1> QED
  BY <1>3, <1>4 DEF Ids

\* The agents a view lists are those whose calls are shown.
LEMMA AgentViews ==
  /\ AgentView("agent") = AgentView("own")
  /\ \A a \in AgentId :
       (\E c \in Shown : c.agent = a) => [id |-> a, agent |-> a] \in AgentView("agent")
<1>1. \A r : /\ Admits("agent", r, listed, Settings(member, None)) = In(r.id, VisibleAgentIds(member))
             /\ Admits("own", r, listed, Settings(member, None)) = In(r.agent, VisibleAgentIds(member))
  BY DEF Admits, AgentMember, Settings
<1>2. \A r \in Agents : r.id = r.agent
  BY DEF Agents
<1>3. ASSUME NEW a \in AgentId, NEW c \in Shown, c.agent = a
      PROVE  [id |-> a, agent |-> a] \in AgentView("agent")
  <2> DEFINE r == [id |-> a, agent |-> a]
  <2>1. r \in Agents /\ r.id = a
    BY DEF Agents
  <2>2. In(a, VisibleAgentIds(member))
    BY <1>3 DEF Shown, Scoped
  <2> HIDE DEF r
  <2>3. r \in AgentView("agent")
    BY <1>1, <2>1, <2>2 DEF AgentView, ViewRows
  <2> QED
    BY <2>3 DEF r
<1> QED
  BY <1>1, <1>2, <1>3 DEF AgentView, ViewRows

\* auth/deps.py, db/agent_views.py, chat/sql.py: the chat's SQL reads what the endpoints
\* show, whatever the role and the grants, for any calls and agents.
THEOREM OneScope == ScopeSpec => []ChatSeesWhatApiShows
<1>1. ChatSeesWhatApiShows
  <2>1. \A a \in AgentId : Scoped(listed, member, a) \subseteq Shown
    BY DEF Shown, Scoped
  <2> QED
    BY <2>1, CallView, JoinedView, OwnCallView, AgentViews DEF ChatSeesWhatApiShows
<1> QED
  BY <1>1, PTL

-----------------------------------------------------------------------------
(* The limits of the login endpoint.                                        *)

Events(es, m) ==
  IsFiniteSet(es) /\ \A e \in es : e.at \in Int /\ e.at <= m

Recent(es, m, length) == {e \in es : e.at > m - length}

Key == [n : Nat, expires : Nat \cup {None}]

\* The failures kept are of one lock, which counted each; while it stands, they and the
\* requests that may fail yet are no more than the limit lets in.
Locked(es, key, ts, m) ==
  /\ Events(es, m)
  /\ key \in Key
  /\ Cardinality(es) <= LockoutMax + Cardinality(Visitor) - 1
  /\ Cardinality(es) <= key.n
  /\ \A e \in es : key.expires # None /\ e.at + LockoutS <= key.expires
  /\ (key.expires = None \/ m < key.expires) =>
       Cardinality(es) + Cardinality(ts) <= LockoutMax + Cardinality(Visitor) - 1

\* Of what was admitted of late, C in the window of the key and no more than the limit
\* before it; what is before it is older than the key's end by a window.
CountedIn(es, key, m, C) ==
  /\ C \subseteq es /\ Cardinality(C) <= key.n /\ Cardinality(C) <= RateLimit
  /\ Cardinality(Recent(es \ C, m, RateWindow)) <= RateLimit
  /\ key.expires # None => \A e \in es \ C : e.at + RateWindow <= key.expires

Limited(es, key, m) ==
  /\ Events(es, m)
  /\ key \in Key
  /\ Cardinality(es) <= 2 * RateLimit
  /\ \E C \in SUBSET es : CountedIn(es, key, m, C)

LimitInv ==
  /\ moment \in Nat /\ trying \subseteq Visitor
  /\ Locked(wrong, lock, trying, moment)
  /\ Limited(admitted, rate, moment)

LEMMA VisitorsFinite ==
  /\ IsFiniteSet(Visitor) /\ Cardinality(Visitor) \in Nat
  /\ \A T \in SUBSET Visitor :
       IsFiniteSet(T) /\ Cardinality(T) \in Nat /\ Cardinality(T) <= Cardinality(Visitor)
BY LimitAssumption, FS_Subset, FS_CardinalityType

LEMMA PartOf ==
  ASSUME NEW S, IsFiniteSet(S), NEW T, T \subseteq S
  PROVE  /\ IsFiniteSet(T) /\ Cardinality(T) \in Nat /\ Cardinality(S) \in Nat
         /\ Cardinality(T) <= Cardinality(S)
BY FS_Subset, FS_CardinalityType

LEMMA OneMore ==
  ASSUME NEW S, IsFiniteSet(S), NEW x
  PROVE  /\ IsFiniteSet(S \cup {x}) /\ Cardinality(S \cup {x}) \in Nat /\ Cardinality(S) \in Nat
         /\ Cardinality(S \cup {x}) <= Cardinality(S) + 1
<1>1. IsFiniteSet(S \cup {x})
  BY FS_AddElement
<1>2. Cardinality(S \cup {x}) \in Nat /\ Cardinality(S) \in Nat
  BY <1>1, FS_CardinalityType
<1>3. CASE x \in S
  <2>1. S \cup {x} = S
    BY <1>3
  <2> QED
    BY <1>1, <1>2, <2>1
<1>4. CASE x \notin S
  <2>1. Cardinality(S \cup {x}) = Cardinality(S) + 1
    BY <1>4, FS_AddElement
  <2> QED
    BY <1>1, <1>2, <2>1
<1> QED
  BY <1>3, <1>4

LEMMA UnionOf ==
  ASSUME NEW S, IsFiniteSet(S), NEW T, IsFiniteSet(T)
  PROVE  /\ Cardinality(S \cup T) \in Nat
         /\ Cardinality(S \cup T) <= Cardinality(S) + Cardinality(T)
<1>1. Cardinality(S \cup T) = Cardinality(S) + Cardinality(T) - Cardinality(S \cap T)
      /\ IsFiniteSet(S \cup T)
  BY FS_Union
<1>2. Cardinality(S \cap T) \in Nat
  BY FS_Subset, FS_CardinalityType
<1>3. Cardinality(S) \in Nat /\ Cardinality(T) \in Nat /\ Cardinality(S \cup T) \in Nat
  BY <1>1, FS_CardinalityType
<1> QED
  BY <1>1, <1>2, <1>3

\* What is kept of a history: what is of late, and one more.
LEMMA LatelyIs ==
  ASSUME NEW es, NEW m \in Nat, Events(es, m), moment = m, NEW length \in Nat
  PROVE  \E x : /\ x.at = m /\ Lately(es, length) = Recent(es, m, length) \cup {x}
                /\ Events(Lately(es, length), m)
<1> DEFINE x == [at |-> m, n |-> Cardinality({e \in es : e.at = m})]
<1>1. x.at = m /\ Lately(es, length) = Recent(es, m, length) \cup {x}
  BY DEF Lately, OfLate, Recent
<1> HIDE DEF x
<1>2. IsFiniteSet(Recent(es, m, length))
  BY PartOf DEF Events, Recent
<1>3. IsFiniteSet(Recent(es, m, length) \cup {x})
  BY <1>2, OneMore
<1>4. \A e \in Recent(es, m, length) \cup {x} : e.at \in Int /\ e.at <= m
  BY <1>1 DEF Events, Recent
<1> QED
  BY <1>1, <1>3, <1>4 DEF Events

LEMMA LimitStart == LimitInit => LimitInv
<1> SUFFICES ASSUME LimitInit PROVE LimitInv
  OBVIOUS
<1>1. /\ moment = 0 /\ trying = {} /\ wrong = {} /\ admitted = {}
      /\ rate.n = 0 /\ rate.expires = None /\ lock.n = 0 /\ lock.expires = None
      /\ rate \in Key /\ lock \in Key
  BY DEF LimitInit, NoKey, Key
<1>2. IsFiniteSet({}) /\ Cardinality({}) = 0
  BY FS_EmptySet
<1>3. Locked(wrong, lock, trying, moment)
  BY <1>1, <1>2, VisitorsFinite, LimitAssumption DEF Locked, Events
<1>4. Recent({} \ {}, 0, RateWindow) = {}
  BY DEF Recent
<1>5. CountedIn(admitted, rate, moment, {})
  BY <1>1, <1>2, <1>4, LimitAssumption DEF CountedIn
<1>6. Limited(admitted, rate, moment)
  BY <1>1, <1>2, <1>5, LimitAssumption DEF Limited, Events
<1> QED
  BY <1>1, <1>3, <1>6 DEF LimitInv

\* A request on the way more, where the lock does not stand.
LEMMA AdmitKeeps ==
  ASSUME LimitInv, NEW r \in Visitor, Admit(r)
  PROVE  trying' \subseteq Visitor /\ Locked(wrong, lock, trying', moment)
<1>1. CASE trying' = trying
  BY <1>1 DEF LimitInv
<1>2. CASE FailCount < LockoutMax /\ trying' = trying \cup {r}
  <2>1. trying' = trying \cup {r}
    BY <1>2
  <2>2. trying' \subseteq Visitor
    BY <2>1 DEF LimitInv
  <2>3. Cardinality(trying') \in Nat /\ Cardinality(trying') <= Cardinality(Visitor)
    BY <2>2, VisitorsFinite
  <2>4. Cardinality(wrong) \in Nat /\ Cardinality(wrong) <= lock.n /\ lock.n \in Nat
    BY FS_CardinalityType DEF LimitInv, Locked, Events, Key
  <2>5. (lock.expires = None \/ moment < lock.expires) => lock.n < LockoutMax
    <3>1. FailCount = IF Expired(lock) THEN 0 ELSE lock.n
      BY DEF FailCount
    <3>2. (lock.expires = None \/ moment < lock.expires) => ~Expired(lock)
      BY DEF Expired, LimitInv, Locked, Key
    <3> QED
      BY <1>2, <2>4, <3>1, <3>2, LimitAssumption
  <2>6. (lock.expires = None \/ moment < lock.expires) =>
          Cardinality(wrong) + Cardinality(trying') <= LockoutMax + Cardinality(Visitor) - 1
    BY <2>3, <2>4, <2>5, LimitAssumption, VisitorsFinite
  <2> QED
    BY <2>2, <2>6 DEF LimitInv, Locked
<1> QED
  BY <1>1, <1>2 DEF Admit

\* Requests leave, failures are forgotten, and the lock is as it was, has ended, or goes on.
LEMMA LeavesKeeps ==
  ASSUME LimitInv, NEW ts \in SUBSET trying, NEW key \in Key,
         \/ Expired(lock)
         \/ /\ key.n >= lock.n
            /\ key.expires = lock.expires \/ key.expires = moment + LockoutS
  PROVE  ts \subseteq Visitor /\ Locked(OfLate(wrong, LockoutS), key, ts, moment)
<1> DEFINE es == OfLate(wrong, LockoutS)
           most == LockoutMax + Cardinality(Visitor) - 1
<1>1. /\ moment \in Nat /\ trying \subseteq Visitor /\ ts \subseteq Visitor /\ lock \in Key
      /\ lock.n \in Nat /\ key.n \in Nat /\ LockoutS \in Nat /\ None \notin Nat
  BY LimitAssumption DEF LimitInv, Locked, Key
<1>2. /\ IsFiniteSet(trying) /\ Cardinality(trying) \in Nat
      /\ Cardinality(ts) \in Nat /\ Cardinality(ts) <= Cardinality(trying)
      /\ Cardinality(ts) <= Cardinality(Visitor)
  BY <1>1, VisitorsFinite, PartOf
<1>3. /\ IsFiniteSet(wrong) /\ Cardinality(wrong) <= lock.n /\ Cardinality(wrong) <= most
      /\ \A e \in wrong : e.at \in Int /\ e.at <= moment
      /\ \A e \in wrong : lock.expires # None /\ e.at + LockoutS <= lock.expires
  BY DEF LimitInv, Locked, Events
<1>4. es \subseteq wrong /\ \A e \in es : e.at > moment - LockoutS
  BY DEF OfLate
<1>5. /\ IsFiniteSet(es) /\ Cardinality(es) \in Nat /\ Cardinality(wrong) \in Nat
      /\ Cardinality(es) <= Cardinality(wrong)
  BY <1>3, <1>4, PartOf
<1>6. Events(es, moment)
  BY <1>3, <1>4, <1>5 DEF Events
<1>7. Cardinality(Visitor) \in Nat /\ LockoutMax \in Nat \ {0} /\ Cardinality(es) <= most
  BY <1>3, <1>5, VisitorsFinite, LimitAssumption
<1> HIDE DEF es
<1>8. CASE Expired(lock)
  <2>1. lock.expires # None /\ lock.expires \in Nat /\ lock.expires <= moment
    BY <1>1, <1>8 DEF Expired, Key
  <2>2. es = {}
    BY <1>1, <1>3, <1>4, <2>1
  <2>3. Cardinality(es) = 0
    BY <2>2, FS_EmptySet
  <2>4. Cardinality(es) <= key.n /\ Cardinality(es) + Cardinality(ts) <= most
    BY <1>1, <1>2, <1>7, <2>3
  <2>5. Locked(es, key, ts, moment)
    BY <1>6, <1>7, <2>2, <2>4 DEF Locked
  <2> QED
    BY <1>1, <2>5 DEF es
<1>9. CASE ~Expired(lock)
  <2>1. lock.expires = None \/ moment < lock.expires
    BY <1>1, <1>9 DEF Expired, Key
  <2>2. Cardinality(wrong) + Cardinality(trying) <= most
    BY <2>1 DEF LimitInv, Locked
  <2>3. Cardinality(es) <= key.n /\ Cardinality(es) + Cardinality(ts) <= most
    BY <1>1, <1>2, <1>3, <1>5, <1>7, <1>9, <2>2
  <2>4. \A e \in es : key.expires # None /\ e.at + LockoutS <= key.expires
    BY <1>1, <1>3, <1>4, <1>9
  <2>5. Locked(es, key, ts, moment)
    BY <1>6, <1>7, <2>3, <2>4 DEF Locked
  <2> QED
    BY <1>1, <2>5 DEF es
<1> QED
  BY <1>8, <1>9

-----------------------------------------------------------------------------
\* Stepwise: a failure is recorded.
LEMMA FailedIs ==
  ASSUME moment \in Nat, NEW key \in Key
  PROVE  /\ Failed(key) \in Key /\ Failed(key).expires = moment + LockoutS
         /\ Expired(key) => Failed(key).n = 1
         /\ ~Expired(key) => Failed(key).n = key.n + 1
<1>1. Incr(key) \in Key
      /\ (Expired(key) => Incr(key).n = 1) /\ (~Expired(key) => Incr(key).n = key.n + 1)
  BY DEF Incr, NoKey, Key
<1> QED
  BY <1>1, LimitAssumption DEF Failed, Key

LEMMA WrongKeeps ==
  ASSUME LimitInv, NEW r \in Visitor, Wrong(r)
  PROVE  trying' \subseteq Visitor /\ Locked(wrong', lock', trying', moment)
<1> DEFINE most == LockoutMax + Cardinality(Visitor) - 1
<1>1. /\ trying' = trying \ {r} /\ lock' = Failed(lock) /\ moment \in Nat /\ lock \in Key
      /\ trying \subseteq Visitor /\ Events(wrong, moment) /\ LockoutS \in Nat
      /\ wrong' = IF r \in trying THEN Lately(wrong, LockoutS) ELSE OfLate(wrong, LockoutS)
  BY LimitAssumption DEF Wrong, Leaves, LimitInv, Locked
<1>2. CASE r \notin trying
  <2>1. /\ Failed(lock) \in Key /\ Failed(lock).expires = moment + LockoutS
        /\ ~Expired(lock) => Failed(lock).n >= lock.n
    BY <1>1, FailedIs DEF Key
  <2>2. trying' \subseteq Visitor /\ Locked(OfLate(wrong, LockoutS), Failed(lock), trying', moment)
    BY <1>1, <2>1, LeavesKeeps
  <2> QED
    BY <1>1, <1>2, <2>2
<1>3. CASE r \in trying
  <2>1. /\ r \in trying /\ trying' = trying \ {r} /\ lock' = Failed(lock)
        /\ wrong' = Lately(wrong, LockoutS) /\ moment \in Nat /\ lock \in Key
        /\ trying \subseteq Visitor /\ Events(wrong, moment) /\ LockoutS \in Nat
    BY <1>1, <1>3
  <2>2. PICK x : /\ x.at = moment /\ wrong' = Recent(wrong, moment, LockoutS) \cup {x}
                 /\ Events(wrong', moment)
    BY <2>1, LatelyIs
  <2>3. lock' \in Key /\ lock'.expires = moment + LockoutS /\ lock'.expires # None
    BY <2>1, FailedIs, LimitAssumption
  <2>4. \A e \in wrong' : e.at + LockoutS <= lock'.expires
    BY <2>1, <2>2, <2>3 DEF Events
  <2>5. /\ IsFiniteSet(trying) /\ Cardinality(trying) \in Nat
        /\ Cardinality(trying) <= Cardinality(Visitor) /\ Cardinality(trying') = Cardinality(trying) - 1
    BY <2>1, VisitorsFinite, FS_RemoveElement
  <2>6. IsFiniteSet(wrong) /\ Cardinality(wrong) \in Nat /\ Cardinality(wrong) <= lock.n
    BY FS_CardinalityType DEF LimitInv, Locked, Events
  <2>7. Recent(wrong, moment, LockoutS) \subseteq wrong
    BY DEF Recent
  <2>8. /\ IsFiniteSet(Recent(wrong, moment, LockoutS))
        /\ Cardinality(Recent(wrong, moment, LockoutS)) \in Nat
        /\ Cardinality(Recent(wrong, moment, LockoutS)) <= Cardinality(wrong)
    BY <2>6, <2>7, PartOf
  <2>9. Cardinality(wrong') \in Nat
        /\ Cardinality(wrong') <= Cardinality(Recent(wrong, moment, LockoutS)) + 1
    BY <2>2, <2>8, OneMore
  <2>10. /\ Cardinality(wrong') <= lock'.n
         /\ Cardinality(wrong') + Cardinality(trying') <= most
    <3>1. CASE Expired(lock)
      <4>1. lock.expires # None /\ lock.expires \in Nat /\ lock.expires <= moment
        BY <2>1, <3>1 DEF Expired, Key
      <4>2. \A e \in wrong : e.at \in Int /\ e.at + LockoutS <= lock.expires
        BY DEF LimitInv, Locked, Events
      <4>3. Recent(wrong, moment, LockoutS) = {}
        BY <2>1, <4>1, <4>2 DEF Recent
      <4>4. Cardinality(Recent(wrong, moment, LockoutS)) = 0
        BY <4>3, FS_EmptySet
      <4>5. lock'.n = 1
        BY <2>1, <3>1, FailedIs
      <4> QED
        BY <2>5, <2>9, <4>4, <4>5, VisitorsFinite, LimitAssumption
    <3>2. CASE ~Expired(lock)
      <4>1. lock.expires = None \/ moment < lock.expires
        BY <2>1, <3>2 DEF Expired, Key
      <4>2. Cardinality(wrong) + Cardinality(trying) <= most
        BY <4>1 DEF LimitInv, Locked
      <4>3. lock'.n = lock.n + 1 /\ lock.n \in Nat
        BY <2>1, <3>2, FailedIs DEF Key
      <4> QED
        BY <2>5, <2>6, <2>8, <2>9, <4>2, <4>3, VisitorsFinite, LimitAssumption
    <3> QED
      BY <3>1, <3>2
  <2>11. Cardinality(trying') \in Nat /\ Cardinality(wrong') <= most
    BY <2>1, <2>5, <2>9, <2>10, VisitorsFinite, LimitAssumption
  <2> QED
    BY <2>1, <2>2, <2>3, <2>4, <2>10, <2>11 DEF Locked
<1> QED
  BY <1>2, <1>3

\* A good login forgets them.
LEMMA RightKeeps ==
  ASSUME LimitInv, NEW r \in Visitor, Right(r)
  PROVE  trying' \subseteq Visitor /\ Locked(wrong', lock', trying', moment)
<1>1. /\ trying' = trying \ {r} /\ trying' \subseteq Visitor
      /\ lock'.n = 0 /\ lock'.expires = None /\ lock' \in Key /\ wrong' = {}
  BY DEF Right, Leaves, LimitInv, NoKey, Key
<1>2. IsFiniteSet({}) /\ Cardinality({}) = 0
  BY FS_EmptySet
<1>3. Cardinality(trying') \in Nat /\ Cardinality(trying') <= Cardinality(Visitor)
  BY <1>1, VisitorsFinite
<1> QED
  BY <1>1, <1>2, <1>3, VisitorsFinite, LimitAssumption DEF Locked, Events

\* A request is counted: in a new window, or one more in the old one.
LEMMA CountedIs ==
  ASSUME moment \in Nat, NEW key \in Key
  PROVE  /\ Counted(key) \in Key
         /\ Expired(key) => Counted(key).n = 1 /\ Counted(key).expires = moment + RateWindow
         /\ ~Expired(key) =>
              /\ Counted(key).n = key.n + 1
              /\ Counted(key).expires = IF key.n = 0 THEN moment + RateWindow ELSE key.expires
<1>1. /\ Incr(key) \in Key
      /\ Expired(key) => Incr(key).n = 1
      /\ ~Expired(key) => Incr(key).n = key.n + 1 /\ Incr(key).expires = key.expires
  BY DEF Incr, NoKey, Key
<1>2. /\ Incr(key).n = 1 => Counted(key) = [Incr(key) EXCEPT !.expires = moment + RateWindow]
      /\ Incr(key).n # 1 => Counted(key) = Incr(key)
  BY DEF Counted
<1>3. key.n \in Nat
  BY DEF Key
<1>4. CASE Incr(key).n = 1
  <2>1. Counted(key).n = 1 /\ Counted(key).expires = moment + RateWindow /\ Counted(key) \in Key
    BY <1>1, <1>2, <1>4, LimitAssumption DEF Key
  <2> QED
    BY <1>1, <1>3, <1>4, <2>1
<1>5. CASE Incr(key).n # 1
  BY <1>1, <1>2, <1>3, <1>5
<1> QED
  BY <1>4, <1>5

\* What a window that has ended left behind is no longer of late.
LEMMA OldIsOld ==
  ASSUME moment \in Nat, NEW es, NEW key \in Key, NEW C, Events(es, moment),
         CountedIn(es, key, moment, C), Expired(key)
  PROVE  Recent(es, moment, RateWindow) \subseteq C
<1>1. key.expires # None /\ key.expires \in Nat /\ key.expires <= moment
  BY DEF Expired, Key
<1>2. \A e \in es \ C : e.at + RateWindow <= key.expires /\ e.at \in Int
  BY <1>1 DEF CountedIn, Events
<1>3. \A e \in es \ C : ~(e.at > moment - RateWindow)
  BY <1>1, <1>2, LimitAssumption
<1> QED
  BY <1>3 DEF Recent

\* A request is counted and refused.
LEMMA RefusedKeeps ==
  ASSUME moment \in Nat, NEW es, NEW key, Limited(es, key, moment), Counted(key).n > RateLimit
  PROVE  Limited(es, Counted(key), moment)
<1>1. /\ key \in Key /\ Events(es, moment) /\ RateLimit \in Nat /\ key.n \in Nat
      /\ RateWindow \in Nat /\ None \notin Nat
  BY LimitAssumption DEF Limited, Key
<1>2. PICK C \in SUBSET es : CountedIn(es, key, moment, C)
  BY DEF Limited
<1>3. IsFiniteSet(C) /\ Cardinality(C) \in Nat
  BY <1>1, PartOf DEF Events
<1>4. Counted(key) \in Key /\ Counted(key).n \in Nat /\ Cardinality(C) <= Counted(key).n
  BY <1>1, <1>2, <1>3, CountedIs DEF CountedIn, Key
<1>5. Counted(key).expires = moment + RateWindow \/ Counted(key).expires = key.expires
  BY <1>1, CountedIs
<1>6. \A e \in es : e.at \in Int /\ e.at + RateWindow <= moment + RateWindow
  BY <1>1 DEF Events
<1>7. Counted(key).expires # None =>
        \A e \in es \ C : e.at + RateWindow <= Counted(key).expires
  BY <1>2, <1>5, <1>6 DEF CountedIn
<1>8. CountedIn(es, Counted(key), moment, C)
  BY <1>2, <1>4, <1>7 DEF CountedIn
<1> QED
  BY <1>4, <1>8 DEF Limited

\* A request is counted and let through.
LEMMA AdmittedKeeps ==
  ASSUME moment \in Nat, NEW es, NEW key, Limited(es, key, moment), Counted(key).n <= RateLimit
  PROVE  Limited(Lately(es, RateWindow), Counted(key), moment)
<1> DEFINE fs == Lately(es, RateWindow)
           prior == Recent(es, moment, RateWindow)
<1>1. /\ key \in Key /\ Events(es, moment) /\ RateLimit \in Nat /\ key.n \in Nat
      /\ RateWindow \in Nat /\ None \notin Nat
  BY LimitAssumption DEF Limited, Key
<1>2. PICK x : x.at = moment /\ fs = prior \cup {x} /\ Events(fs, moment)
  BY <1>1, LatelyIs
<1>3. PICK C \in SUBSET es : CountedIn(es, key, moment, C)
  BY DEF Limited
<1>4. prior \subseteq es /\ IsFiniteSet(es) /\ IsFiniteSet(prior)
  BY <1>1, PartOf DEF Recent, Events
<1>5. /\ Counted(key) \in Key /\ Counted(key).n \in Nat
      /\ Counted(key).expires = moment + RateWindow \/ Counted(key).expires = key.expires
  BY <1>1, CountedIs DEF Key
<1> HIDE DEF fs
\* The window the request is counted in, and what it leaves out.
<1>6. \E D \in SUBSET fs :
        /\ Cardinality(D) <= Counted(key).n
        /\ Cardinality(fs \ D) <= RateLimit
        /\ Counted(key).expires = moment + RateWindow
           \/ (fs \ D \subseteq es \ C /\ Counted(key).expires = key.expires)
  <2>1. CASE Expired(key)
    <3>1. prior \subseteq C /\ Counted(key).n = 1 /\ Counted(key).expires = moment + RateWindow
      BY <1>1, <1>3, <2>1, OldIsOld, CountedIs
    <3>2. Cardinality({x}) = 1
      BY FS_Singleton
    <3>3. IsFiniteSet(C)
      BY <1>4, PartOf
    <3>4. fs \ {x} \subseteq C
      BY <1>2, <3>1
    <3>5. Cardinality(fs \ {x}) \in Nat /\ Cardinality(fs \ {x}) <= Cardinality(C)
          /\ Cardinality(C) \in Nat
      BY <3>3, <3>4, PartOf
    <3>6. Cardinality(C) <= RateLimit
      BY <1>3 DEF CountedIn
    <3>7. {x} \in SUBSET fs
      BY <1>2
    <3>8. Cardinality({x}) <= Counted(key).n /\ Cardinality(fs \ {x}) <= RateLimit
      BY <1>1, <3>1, <3>2, <3>5, <3>6
    <3> QED
      BY <3>1, <3>7, <3>8
  <2>2. CASE ~Expired(key)
    <3> DEFINE D == (C \cap prior) \cup {x}
    <3>1. Counted(key).n = key.n + 1
          /\ (Counted(key).expires = moment + RateWindow \/ Counted(key).expires = key.expires)
      BY <1>1, <2>2, CountedIs
    <3>2. C \cap prior \subseteq C /\ IsFiniteSet(C)
      BY <1>4, PartOf
    <3>3. IsFiniteSet(C \cap prior) /\ Cardinality(C \cap prior) \in Nat
          /\ Cardinality(C \cap prior) <= Cardinality(C) /\ Cardinality(C) \in Nat
      BY <3>2, PartOf
    <3>4. Cardinality(D) <= Cardinality(C \cap prior) + 1 /\ Cardinality(D) \in Nat
      BY <3>3, OneMore
    <3>5. fs \ D \subseteq Recent(es \ C, moment, RateWindow) /\ fs \ D \subseteq es \ C
          /\ D \in SUBSET fs
      BY <1>2 DEF Recent
    <3>6. IsFiniteSet(Recent(es \ C, moment, RateWindow))
      BY <1>4, PartOf DEF Recent
    <3>7. Cardinality(fs \ D) \in Nat
          /\ Cardinality(fs \ D) <= Cardinality(Recent(es \ C, moment, RateWindow))
          /\ Cardinality(Recent(es \ C, moment, RateWindow)) \in Nat
      BY <3>5, <3>6, PartOf
    <3>8. Cardinality(Recent(es \ C, moment, RateWindow)) <= RateLimit /\ Cardinality(C) <= key.n
      BY <1>3 DEF CountedIn
    <3> HIDE DEF D
    <3>9. Cardinality(D) <= Counted(key).n /\ Cardinality(fs \ D) <= RateLimit
      BY <1>1, <3>1, <3>3, <3>4, <3>7, <3>8
    <3> QED
      BY <3>1, <3>5, <3>9
  <2> QED
    BY <2>1, <2>2
<1>7. PICK D \in SUBSET fs :
        /\ Cardinality(D) <= Counted(key).n
        /\ Cardinality(fs \ D) <= RateLimit
        /\ Counted(key).expires = moment + RateWindow
           \/ (fs \ D \subseteq es \ C /\ Counted(key).expires = key.expires)
  BY <1>6
<1>8. IsFiniteSet(fs) /\ D \subseteq fs /\ fs \ D \subseteq fs
  BY <1>2 DEF Events
<1>9. IsFiniteSet(D) /\ Cardinality(D) \in Nat /\ IsFiniteSet(fs \ D) /\ Cardinality(fs \ D) \in Nat
  BY <1>8, PartOf
<1>10. Cardinality(D) <= RateLimit
  BY <1>1, <1>5, <1>7, <1>9
<1>11. fs = D \cup (fs \ D)
  BY <1>8
<1>12. Cardinality(fs) \in Nat /\ Cardinality(fs) <= Cardinality(D) + Cardinality(fs \ D)
  <2>1. /\ Cardinality(D \cup (fs \ D)) \in Nat
        /\ Cardinality(D \cup (fs \ D)) <= Cardinality(D) + Cardinality(fs \ D)
    BY <1>9, UnionOf
  <2> QED
    BY <1>11, <2>1
<1>13. Cardinality(fs) <= 2 * RateLimit
  BY <1>1, <1>7, <1>9, <1>10, <1>12
<1>14. Cardinality(Recent(fs \ D, moment, RateWindow)) <= RateLimit
  <2>1. Recent(fs \ D, moment, RateWindow) \subseteq fs \ D
    BY DEF Recent
  <2>2. Cardinality(Recent(fs \ D, moment, RateWindow)) \in Nat
        /\ Cardinality(Recent(fs \ D, moment, RateWindow)) <= Cardinality(fs \ D)
    BY <1>9, <2>1, PartOf
  <2> QED
    BY <1>1, <1>7, <1>9, <2>2
<1>15. Counted(key).expires # None =>
         \A e \in fs \ D : e.at + RateWindow <= Counted(key).expires
  <2>1. \A e \in fs : e.at \in Int /\ e.at + RateWindow <= moment + RateWindow
    BY <1>1, <1>2 DEF Events
  <2>2. key.expires # None => \A e \in es \ C : e.at + RateWindow <= key.expires
    BY <1>3 DEF CountedIn
  <2> QED
    BY <1>7, <2>1, <2>2
<1>16. CountedIn(fs, Counted(key), moment, D)
  BY <1>7, <1>8, <1>10, <1>14, <1>15 DEF CountedIn
<1>17. Limited(fs, Counted(key), moment)
  BY <1>2, <1>5, <1>13, <1>16 DEF Limited
<1> QED
  BY <1>17 DEF fs

\* A request is let through uncounted, or under a key without an end.
LEMMA UncountedKeeps ==
  ASSUME moment \in Nat, NEW es, NEW key, Limited(es, key, moment), Incr(key).n = 1
  PROVE  Limited(es, Incr(key), moment)
<1>1. /\ key \in Key /\ Events(es, moment) /\ RateLimit \in Nat /\ key.n \in Nat
      /\ RateWindow \in Nat /\ None \notin Nat
  BY LimitAssumption DEF Limited, Key
<1>2. /\ Incr(key) \in Key
      /\ Expired(key) => Incr(key).expires = None
      /\ ~Expired(key) => Incr(key).n = key.n + 1 /\ Incr(key).expires = key.expires
  BY <1>1 DEF Incr, NoKey, Key
<1>3. PICK C \in SUBSET es : CountedIn(es, key, moment, C)
  BY DEF Limited
<1>4. IsFiniteSet(es) /\ IsFiniteSet(C) /\ Cardinality(C) \in Nat /\ Cardinality(C) <= RateLimit
  BY <1>1, <1>3, PartOf DEF Events, CountedIn
<1>5. \E D \in SUBSET es : CountedIn(es, Incr(key), moment, D)
  <2>1. CASE Expired(key)
    <3>1. IsFiniteSet({}) /\ Cardinality({}) = 0
      BY FS_EmptySet
    <3>2. Recent(es \ {}, moment, RateWindow) \subseteq C
      <4>1. Recent(es, moment, RateWindow) \subseteq C
        BY <1>1, <1>3, <2>1, OldIsOld
      <4>2. es \ {} = es
        OBVIOUS
      <4> QED
        BY <4>1, <4>2
    <3>3. Cardinality(Recent(es \ {}, moment, RateWindow)) \in Nat
          /\ Cardinality(Recent(es \ {}, moment, RateWindow)) <= Cardinality(C)
      BY <1>4, <3>2, PartOf
    <3>4. Cardinality(Recent(es \ {}, moment, RateWindow)) <= RateLimit
      BY <1>1, <1>4, <3>3
    <3>5. CountedIn(es, Incr(key), moment, {})
      BY <1>1, <1>2, <2>1, <3>1, <3>4 DEF CountedIn
    <3> QED
      BY <3>5
  <2>2. CASE ~Expired(key)
    <3>1. Cardinality(C) <= Incr(key).n
      BY <1>1, <1>2, <1>3, <1>4, <2>2 DEF CountedIn
    <3>2. CountedIn(es, Incr(key), moment, C)
      BY <1>2, <1>3, <2>2, <3>1 DEF CountedIn
    <3> QED
      BY <3>2
  <2> QED
    BY <2>1, <2>2
<1> QED
  BY <1>2, <1>5 DEF Limited

\* Time passes: what is of late becomes less, and a lock may end.
LEMMA LimitTickKeeps == LimitInv /\ LimitTick => LimitInv'
<1> SUFFICES ASSUME LimitInv, LimitTick PROVE LimitInv'
  OBVIOUS
<1> DEFINE m == moment + 1
<1>1. /\ moment \in Nat /\ moment' = m /\ m \in Nat /\ moment < m
      /\ rate' = rate /\ lock' = lock /\ trying' = trying /\ admitted' = admitted /\ wrong' = wrong
      /\ trying \subseteq Visitor
  BY DEF LimitInv, LimitTick
<1> HIDE DEF m
<1>2. Locked(wrong, lock, trying, m)
  <2>1. Events(wrong, m)
    BY <1>1 DEF LimitInv, Locked, Events
  <2>2. lock.expires = None \/ m < lock.expires => lock.expires = None \/ moment < lock.expires
    BY <1>1 DEF LimitInv, Locked, Key
  <2> QED
    BY <2>1, <2>2 DEF LimitInv, Locked
<1>3. Limited(admitted, rate, m)
  <2>1. PICK C \in SUBSET admitted : CountedIn(admitted, rate, moment, C)
    BY DEF LimitInv, Limited
  <2>2. Events(admitted, m) /\ Events(admitted, moment) /\ IsFiniteSet(admitted)
    BY <1>1 DEF LimitInv, Limited, Events
  <2>3. Recent(admitted \ C, m, RateWindow) \subseteq Recent(admitted \ C, moment, RateWindow)
    BY <1>1, <2>2, LimitAssumption DEF Recent, Events
  <2>4. IsFiniteSet(Recent(admitted \ C, moment, RateWindow))
    BY <2>2, PartOf DEF Recent
  <2>5. Cardinality(Recent(admitted \ C, m, RateWindow)) \in Nat
        /\ Cardinality(Recent(admitted \ C, moment, RateWindow)) \in Nat
        /\ Cardinality(Recent(admitted \ C, m, RateWindow))
             <= Cardinality(Recent(admitted \ C, moment, RateWindow))
    BY <2>3, <2>4, PartOf
  <2>6. Cardinality(Recent(admitted \ C, m, RateWindow)) <= RateLimit
    BY <2>1, <2>5, LimitAssumption DEF CountedIn
  <2>7. CountedIn(admitted, rate, m, C)
    BY <2>1, <2>6 DEF CountedIn
  <2> QED
    BY <2>2, <2>7 DEF LimitInv, Limited
<1> QED
  BY <1>1, <1>2, <1>3 DEF LimitInv

LEMMA LimitStep == LimitInv /\ [LimitNext]_limitVars => LimitInv'
<1> SUFFICES ASSUME LimitInv, [LimitNext]_limitVars PROVE LimitInv'
  OBVIOUS
<1>1. moment \in Nat /\ trying \subseteq Visitor /\ lock \in Key /\ rate \in Key
  BY DEF LimitInv, Locked, Limited
<1>2. Locked(wrong, lock, trying, moment) /\ Limited(admitted, rate, moment)
  BY DEF LimitInv
<1>3. CASE LimitTick
  BY <1>3, LimitTickKeeps
<1>4. ASSUME NEW r \in Visitor, LoginCounted(r) PROVE LimitInv'
  <2>1. moment' = moment /\ lock' = lock /\ wrong' = wrong /\ rate' = Counted(rate)
    BY <1>4 DEF LoginCounted
  <2>2. Counted(rate).n \in Nat
    BY <1>1, CountedIs DEF Key
  <2>3. CASE Counted(rate).n <= RateLimit
    <3>1. Admit(r) /\ admitted' = Lately(admitted, RateWindow)
      BY <1>4, <2>1, <2>3 DEF LoginCounted
    <3>2. trying' \subseteq Visitor /\ Locked(wrong, lock, trying', moment)
      BY <3>1, AdmitKeeps
    <3>3. Limited(admitted', rate', moment)
      BY <1>1, <1>2, <2>1, <2>3, <3>1, AdmittedKeeps
    <3> QED
      BY <1>1, <2>1, <3>2, <3>3 DEF LimitInv
  <2>4. CASE ~(Counted(rate).n <= RateLimit)
    <3>1. trying' = trying /\ admitted' = admitted
      BY <1>4, <2>1, <2>4 DEF LoginCounted
    <3>2. Counted(rate).n > RateLimit
      BY <2>2, <2>4, LimitAssumption
    <3>3. Limited(admitted', rate', moment)
      BY <1>1, <1>2, <2>1, <3>1, <3>2, RefusedKeeps
    <3> QED
      BY <1>1, <1>2, <2>1, <3>1, <3>3 DEF LimitInv
  <2> QED
    BY <2>3, <2>4
<1>5. ASSUME NEW r \in Visitor, LoginUncounted(r) PROVE LimitInv'
  <2>1. /\ moment' = moment /\ lock' = lock /\ wrong' = wrong /\ admitted' = admitted /\ Admit(r)
        /\ rate' = rate \/ (rate' = Incr(rate) /\ Incr(rate).n = 1)
    BY <1>5 DEF LoginUncounted
  <2>2. trying' \subseteq Visitor /\ Locked(wrong, lock, trying', moment)
    BY <2>1, AdmitKeeps
  <2>3. Limited(admitted, rate', moment)
    BY <1>1, <1>2, <2>1, UncountedKeeps
  <2> QED
    BY <1>1, <2>1, <2>2, <2>3 DEF LimitInv
<1>6. ASSUME NEW r \in Visitor, Wrong(r) PROVE LimitInv'
  <2>1. moment' = moment /\ rate' = rate /\ admitted' = admitted
    BY <1>6 DEF Wrong
  <2> QED
    BY <1>1, <1>2, <1>6, <2>1, WrongKeeps DEF LimitInv
<1>7. ASSUME NEW r \in Visitor, Right(r) PROVE LimitInv'
  <2>1. moment' = moment /\ rate' = rate /\ admitted' = admitted
    BY <1>7 DEF Right
  <2> QED
    BY <1>1, <1>2, <1>7, <2>1, RightKeeps DEF LimitInv
<1>8. ASSUME NEW r \in Visitor, Unrecorded(r) PROVE LimitInv'
  <2>1. /\ moment' = moment /\ rate' = rate /\ admitted' = admitted /\ trying' = trying \ {r}
        /\ (lock' = lock \/ lock' = Incr(lock)) /\ wrong' = OfLate(wrong, LockoutS)
    BY <1>8 DEF Unrecorded, Leaves
  <2>2. /\ Incr(lock) \in Key
        /\ ~Expired(lock) => Incr(lock).n = lock.n + 1 /\ Incr(lock).expires = lock.expires
    BY <1>1 DEF Incr, NoKey, Key
  <2>3. /\ lock' \in Key
        /\ ~Expired(lock) => lock'.n >= lock.n /\ lock'.expires = lock.expires
    BY <1>1, <2>1, <2>2 DEF Key
  <2>4. trying' \in SUBSET trying
    BY <2>1
  <2>5. trying' \subseteq Visitor /\ Locked(OfLate(wrong, LockoutS), lock', trying', moment)
    BY <2>3, <2>4, LeavesKeeps
  <2> QED
    BY <1>1, <1>2, <2>1, <2>5 DEF LimitInv
<1>9. CASE UNCHANGED limitVars
  BY <1>1, <1>2, <1>9 DEF limitVars, LimitInv
<1> QED
  BY <1>3, <1>4, <1>5, <1>6, <1>7, <1>8, <1>9 DEF LimitNext

\* Limits!LimitsHold (ratelimit.py, api/auth.py login): however many visitors sign in at
\* once, and whichever calls Redis fails to answer, no stretch of the lockout's length holds
\* more wrong passwords, of requests it answered, than the limit and the other requests that
\* were past the check; and no stretch of the window's length more counted requests than two
\* windows let in.
THEOREM LimitsKept == LimitSpec => []LimitsHold
<1>1. LimitInv => LimitsHold
  <2> SUFFICES ASSUME LimitInv, NEW from \in 0 .. MaxMoment
               PROVE  /\ Cardinality(Within(wrong, from, LockoutS))
                           <= LockoutMax + Cardinality(Visitor) - 1
                      /\ Cardinality(Within(admitted, from, RateWindow)) <= 2 * RateLimit
    BY DEF LimitsHold
  <2>1. Within(wrong, from, LockoutS) \subseteq wrong
        /\ Within(admitted, from, RateWindow) \subseteq admitted
    BY DEF Within
  <2>2. /\ IsFiniteSet(wrong) /\ Cardinality(wrong) <= LockoutMax + Cardinality(Visitor) - 1
        /\ IsFiniteSet(admitted) /\ Cardinality(admitted) <= 2 * RateLimit
    BY DEF LimitInv, Locked, Limited, Events
  <2>3. /\ Cardinality(Within(wrong, from, LockoutS)) \in Nat /\ Cardinality(wrong) \in Nat
        /\ Cardinality(Within(wrong, from, LockoutS)) <= Cardinality(wrong)
    BY <2>1, <2>2, PartOf
  <2>4. /\ Cardinality(Within(admitted, from, RateWindow)) \in Nat /\ Cardinality(admitted) \in Nat
        /\ Cardinality(Within(admitted, from, RateWindow)) <= Cardinality(admitted)
    BY <2>1, <2>2, PartOf
  <2> QED
    BY <2>2, <2>3, <2>4, VisitorsFinite, LimitAssumption
<1> QED
  BY <1>1, LimitStart, LimitStep, PTL DEF LimitSpec

-----------------------------------------------------------------------------
(* The poller.                                                             *)

\* The newest object of a call is at n.
NewestIsAt(objects, n) ==
  /\ \E k \in DOMAIN objects : objects[k].at = n
  /\ \A k \in DOMAIN objects : objects[k].at <= n

\* What the store may hold of a call, at some time.
Objects(objects, time) ==
  /\ objects = [k \in DOMAIN objects |-> objects[k]]
  /\ \A k \in DOMAIN objects : objects[k].at \in Nat /\ objects[k].at <= time
  /\ DOMAIN objects # {} => NewestIsAt(objects, Newest(objects))

\* Neither the watermark nor a call of the sweep has come to time n.
Ahead(n, mark, objects) == n > mark /\ \A d \in DOMAIN objects : n > objects[d].newest

\* A call is as the sweep found it.
AsListed(objects, entry) == entry.kinds = DOMAIN objects /\ entry.newest = Newest(objects)

PollerInv ==
  /\ clock \in Nat /\ watermark \in Nat /\ watermark < clock
  /\ manifest \in Nat /\ held \in 1 .. manifest
  /\ DOMAIN store = Polled /\ DOMAIN callRow = Polled /\ DOMAIN dropped = Polled
  /\ \A c \in Polled : Objects(store[c], clock)
  /\ DOMAIN sweep \subseteq Polled
  /\ \A c \in DOMAIN sweep :
       /\ sweep[c].newest \in Nat /\ sweep[c].newest < clock
       /\ AsListed(store[c], sweep[c]) \/ Ahead(Newest(store[c]), watermark, sweep)
  /\ \A c \in Polled :
       \/ DOMAIN store[c] = {} \/ UpToDate(c)
       \/ Ahead(Newest(store[c]), watermark, sweep)
       \/ c \in DOMAIN sweep
       \/ dropped[c] = Newest(store[c])

LEMMA NewestIs ==
  ASSUME NEW objects, NEW n \in Nat, NewestIsAt(objects, n),
         \A k \in DOMAIN objects : objects[k].at \in Nat
  PROVE  Newest(objects) = n
<1> DEFINE times == {objects[k].at : k \in DOMAIN objects}
<1>1. n \in times /\ (\A t \in times : t <= n /\ t \in Nat)
  BY DEF NewestIsAt
<1>2. Newest(objects) = CHOOSE x \in times : \A y \in times : y <= x
  BY DEF Newest, Maximum
<1> HIDE DEF times
<1>3. Newest(objects) \in times /\ (\A t \in times : t <= Newest(objects))
  BY <1>1, <1>2
<1>4. Newest(objects) \in Nat /\ Newest(objects) <= n /\ n <= Newest(objects)
  BY <1>1, <1>3
<1> QED
  BY <1>4

LEMMA MaximumOfTwo ==
  ASSUME NEW a \in Nat, NEW b \in Nat
  PROVE  Maximum({a, b}) \in {a, b} /\ Maximum({a, b}) >= a /\ Maximum({a, b}) >= b
<1>1. \E x \in {a, b} : \A y \in {a, b} : y <= x
  <2>1. CASE a <= b
    BY <2>1
  <2>2. CASE b <= a
    BY <2>2
  <2> QED
    BY <2>1, <2>2
<1> QED
  BY <1>1 DEF Maximum

LEMMA PollerStart == PollerInit => PollerInv
BY DEF PollerInit, PollerInv, Objects

LEMMA PollerTickKeeps == PollerInv /\ PollerTick => PollerInv'
BY DEF PollerInv, PollerTick, Objects, UpToDate

LEMMA RegisterKeeps == PollerInv /\ Register => PollerInv'
BY DEF PollerInv, Register, UpToDate

\* What is written now is newer than all a sweep has listed, as the grace window is not
\* empty: it is ahead of both.
LEMMA WriteKeeps ==
  ASSUME PollerInv, NEW c \in Polled, NEW k \in Kind, Write(c, k) PROVE PollerInv'
<1>1. PICK named \in BOOLEAN :
        store' = [store EXCEPT ![c] =
                    [o \in DOMAIN store[c] \cup {k} |->
                       IF o = k THEN [at |-> clock, named |-> named] ELSE store[c][o]]]
  BY DEF Write
<1> DEFINE new == [o \in DOMAIN store[c] \cup {k} |->
                     IF o = k THEN [at |-> clock, named |-> named] ELSE store[c][o]]
<1>2. /\ DOMAIN store' = Polled /\ store'[c] = new
      /\ \A d \in Polled : d # c => store'[d] = store[d]
  BY <1>1 DEF PollerInv
<1>3. /\ new = [o \in DOMAIN new |-> new[o]] /\ DOMAIN new # {}
      /\ \A o \in DOMAIN new : new[o].at \in Nat /\ new[o].at <= clock
      /\ new[k].at = clock /\ k \in DOMAIN new
  BY DEF PollerInv, Objects
<1>4. NewestIsAt(new, clock)
  BY <1>3 DEF NewestIsAt
<1>5. Newest(new) = clock /\ Objects(new, clock)
  <2>1. Newest(new) = clock
    <3> HIDE DEF new
    <3> QED
      BY <1>3, <1>4, NewestIs DEF PollerInv
  <2> HIDE DEF new
  <2> QED
    BY <1>3, <1>4, <2>1 DEF Objects
<1> HIDE DEF new
<1>6. UNCHANGED <<clock, manifest, held, watermark, sweep, callRow, dropped>>
  BY DEF Write
<1>7. Ahead(clock, watermark, sweep)
  BY DEF PollerInv, Ahead
<1>8. \A d \in Polled : d # c /\ UpToDate(d) => UpToDate(d)'
  BY <1>2, <1>6 DEF UpToDate
<1> QED
  BY <1>2, <1>5, <1>6, <1>7, <1>8 DEF PollerInv

\* A sweep leaves out only what is not settled yet, which is newer than all it lists.
LEMMA ListKeeps == PollerInv /\ List => PollerInv'
<1> SUFFICES ASSUME PollerInv, List PROVE PollerInv'
  OBVIOUS
<1>1. UNCHANGED <<clock, store, writes, manifest, watermark, callRow, dropped>>
  BY DEF List
<1>2. /\ DOMAIN sweep' = Windowed(watermark, clock - Grace)
      /\ \A c \in DOMAIN sweep' : AsListed(store[c], sweep'[c])
  BY DEF List, AsListed
<1>3. DOMAIN sweep' \subseteq Polled
  BY <1>2 DEF Windowed, Unsettled
<1>4. ASSUME NEW c \in DOMAIN sweep'
      PROVE  sweep'[c].newest \in Nat /\ sweep'[c].newest <= clock - Grace
  <2>1. c \in Polled /\ DOMAIN store[c] # {} /\ Newest(store[c]) <= clock - Grace
    BY <1>2, <1>4 DEF Windowed, Unsettled
  <2>2. Newest(store[c]) \in Nat
    BY <2>1 DEF PollerInv, Objects, NewestIsAt
  <2> QED
    BY <1>2, <2>1, <2>2 DEF AsListed
<1>5. clock - Grace < clock /\ clock - Grace \in Int /\ held' \in 1 .. manifest
  BY PollerAssumption DEF List, PollerInv
<1>6. DOMAIN sweep = {}
  BY DEF List
<1>7. ASSUME NEW c \in Polled, DOMAIN store[c] # {}, Newest(store[c]) > watermark,
             c \notin DOMAIN sweep'
      PROVE  Ahead(Newest(store[c]), watermark, sweep')
  <2>1. Newest(store[c]) \in Nat
    BY <1>7 DEF PollerInv, Objects, NewestIsAt
  <2>2. Newest(store[c]) > clock - Grace
    BY <1>2, <1>5, <1>7, <2>1 DEF Windowed, Unsettled
  <2> QED
    BY <1>4, <1>5, <1>7, <2>1, <2>2 DEF Ahead
<1>8. \A c \in Polled : UpToDate(c) => UpToDate(c)'
  BY <1>1 DEF UpToDate
<1>9. ASSUME NEW c \in Polled
      PROVE  \/ DOMAIN store[c] = {} \/ UpToDate(c)'
             \/ Ahead(Newest(store[c]), watermark, sweep')
             \/ c \in DOMAIN sweep'
             \/ dropped[c] = Newest(store[c])
  BY <1>6, <1>7, <1>8 DEF PollerInv, Ahead
<1>10. \A c \in DOMAIN sweep' : sweep'[c].newest \in Nat /\ sweep'[c].newest < clock
  BY <1>4, <1>5 DEF PollerInv
<1> QED
  BY <1>1, <1>2, <1>3, <1>5, <1>9, <1>10 DEF PollerInv

\* The watermark comes as far as the call that is ingested, and no call of the sweep was
\* found to be older.
LEMMA IngestKeeps == ASSUME PollerInv, NEW c \in Polled, IngestOne(c) PROVE PollerInv'
<1>1. /\ UNCHANGED <<clock, store, writes, manifest, held, dropped>>
      /\ c \in DOMAIN sweep /\ sweep' = Rest(c)
      /\ callRow' = [callRow EXCEPT ![c] =
                       Ingested([k \in sweep[c].kinds |-> store[c][k]], held)]
      /\ watermark' = Maximum({watermark, sweep[c].newest})
  BY DEF IngestOne, Oldest
<1>2. /\ DOMAIN sweep' = DOMAIN sweep \ {c}
      /\ \A d \in DOMAIN sweep' : sweep'[d] = sweep[d]
  BY <1>1 DEF Rest
<1>3. sweep[c].newest \in Nat /\ sweep[c].newest < clock
  BY <1>1 DEF PollerInv
<1>4. watermark' \in Nat /\ watermark' < clock /\ watermark' \in {watermark, sweep[c].newest}
  BY <1>1, <1>3, MaximumOfTwo DEF PollerInv
<1>5. \A n : Ahead(n, watermark, sweep) => Ahead(n, watermark', sweep')
  BY <1>1, <1>2, <1>4 DEF Ahead
<1>6. /\ DOMAIN callRow' = Polled
      /\ callRow'[c] = Ingested([k \in sweep[c].kinds |-> store[c][k]], held)
      /\ \A d \in Polled : d # c => callRow'[d] = callRow[d]
  BY <1>1 DEF PollerInv
<1>7. AsListed(store[c], sweep[c]) => UpToDate(c)'
  <2> SUFFICES ASSUME AsListed(store[c], sweep[c]) PROVE UpToDate(c)'
    OBVIOUS
  <2>1. [k \in sweep[c].kinds |-> store[c][k]] = store[c]
    BY DEF AsListed, PollerInv, Objects
  <2>2. callRow'[c] = Ingested(store[c], held)
    BY <1>6, <2>1
  <2> QED
    BY <1>1, <2>2 DEF UpToDate, PollerInv
<1>8. \A d \in Polled : d # c /\ UpToDate(d) => UpToDate(d)'
  BY <1>1, <1>6 DEF UpToDate
<1>9. ASSUME NEW d \in Polled
      PROVE  \/ DOMAIN store[d] = {} \/ UpToDate(d)'
             \/ Ahead(Newest(store[d]), watermark', sweep')
             \/ d \in DOMAIN sweep'
             \/ dropped[d] = Newest(store[d])
  <2>1. CASE d = c
    BY <1>1, <1>5, <1>7, <2>1 DEF PollerInv
  <2>2. CASE d # c
    BY <1>2, <1>5, <1>8, <2>2 DEF PollerInv
  <2> QED
    BY <2>1, <2>2
<1>10. ASSUME NEW d \in DOMAIN sweep'
       PROVE  /\ sweep'[d].newest \in Nat /\ sweep'[d].newest < clock
              /\ AsListed(store[d], sweep'[d]) \/ Ahead(Newest(store[d]), watermark', sweep')
  BY <1>2, <1>5 DEF PollerInv
<1> QED
  BY <1>1, <1>2, <1>4, <1>6, <1>9, <1>10 DEF PollerInv

\* A call that leaves the sweep without being ingested is noted as it was found.
LEMMA DroppedKeeps ==
  ASSUME PollerInv, UNCHANGED <<clock, store, manifest, watermark, callRow>>,
         held' \in 1 .. manifest, DOMAIN dropped' = Polled, DOMAIN sweep' \subseteq DOMAIN sweep,
         \A d \in DOMAIN sweep' : sweep'[d] = sweep[d],
         \A d \in Polled : dropped'[d] = IF d \in DOMAIN sweep \ DOMAIN sweep'
                                         THEN sweep[d].newest ELSE dropped[d]
  PROVE  PollerInv'
<1>1. \A n : Ahead(n, watermark, sweep) => Ahead(n, watermark', sweep')
  BY DEF Ahead
<1>2. \A d \in Polled : UpToDate(d) => UpToDate(d)'
  BY DEF UpToDate
<1>3. ASSUME NEW d \in Polled
      PROVE  \/ DOMAIN store[d] = {} \/ UpToDate(d)'
             \/ Ahead(Newest(store[d]), watermark', sweep')
             \/ d \in DOMAIN sweep'
             \/ dropped'[d] = Newest(store[d])
  <2>1. CASE d \in DOMAIN sweep \ DOMAIN sweep'
    <3>1. dropped'[d] = sweep[d].newest
      BY <2>1
    <3>2. AsListed(store[d], sweep[d]) \/ Ahead(Newest(store[d]), watermark, sweep)
      BY <2>1 DEF PollerInv
    <3> QED
      BY <1>1, <3>1, <3>2 DEF AsListed
  <2>2. CASE d \notin DOMAIN sweep \ DOMAIN sweep'
    BY <1>1, <1>2, <2>2 DEF PollerInv
  <2> QED
    BY <2>1, <2>2
<1>4. ASSUME NEW d \in DOMAIN sweep'
      PROVE  /\ sweep'[d].newest \in Nat /\ sweep'[d].newest < clock
             /\ AsListed(store[d], sweep'[d]) \/ Ahead(Newest(store[d]), watermark', sweep')
  BY <1>1 DEF PollerInv
<1> QED
  BY <1>3, <1>4 DEF PollerInv

LEMMA SkipKeeps == ASSUME PollerInv, NEW c \in Polled, Skip(c) PROVE PollerInv'
<1>1. /\ UNCHANGED <<clock, store, manifest, watermark, callRow>>
      /\ c \in DOMAIN sweep /\ sweep' = Rest(c) /\ held' = manifest
      /\ dropped' = [dropped EXCEPT ![c] = sweep[c].newest]
  BY DEF Skip, Oldest
<1>2. /\ DOMAIN sweep' = DOMAIN sweep \ {c}
      /\ \A d \in DOMAIN sweep' : sweep'[d] = sweep[d]
  BY <1>1 DEF Rest
<1>3. /\ held' \in 1 .. manifest /\ DOMAIN dropped' = Polled
      /\ \A d \in Polled : dropped'[d] = IF d \in DOMAIN sweep \ DOMAIN sweep'
                                         THEN sweep[d].newest ELSE dropped[d]
  BY <1>1, <1>2 DEF PollerInv
<1> QED
  BY <1>1, <1>2, <1>3, DroppedKeeps

LEMMA AbandonKeeps == PollerInv /\ Abandon => PollerInv'
<1> SUFFICES ASSUME PollerInv, Abandon PROVE PollerInv'
  OBVIOUS
<1>1. /\ UNCHANGED <<clock, store, manifest, watermark, callRow, held>>
      /\ DOMAIN sweep' = {}
      /\ dropped' = [c \in Polled |-> IF c \in DOMAIN sweep THEN sweep[c].newest ELSE dropped[c]]
  BY DEF Abandon
<1>2. held' \in 1 .. manifest
  BY <1>1 DEF PollerInv
<1> QED
  BY <1>1, <1>2, DroppedKeeps

LEMMA PollerStep == PollerInv /\ [PollerNext]_pollerVars => PollerInv'
<1>1. PollerInv /\ UNCHANGED pollerVars => PollerInv'
  BY DEF PollerInv, pollerVars, UpToDate
<1> QED
  BY <1>1, PollerTickKeeps, RegisterKeeps, WriteKeeps, ListKeeps, IngestKeeps, SkipKeeps,
     AbandonKeeps DEF PollerNext

\* worker/poller.py _poll_agent, integration/runtime.py discover_manifest_windowed: with a
\* grace window and the oldest call first, the watermark overtakes nothing it has not
\* ingested or given up as it is, for any number of calls, artifacts and manifests.
THEOREM NeverOvertaken == PollerSpec => []NothingOvertaken
<1>1. PollerSpec => []PollerInv
  BY PollerStart, PollerStep, PTL DEF PollerSpec
<1>2. PollerInv => NothingOvertaken
  BY DEF PollerInv, NothingOvertaken, Ahead
<1> QED
  BY <1>1, <1>2, PTL

-----------------------------------------------------------------------------
(* The clusters.                                                           *)

SamePlace(x, y) == x.agent = y.agent /\ x.key = y.key

\* Assignments and clusters agree, and where they do one pass wrote both.
Agree(rows, shown) ==
  /\ \A k \in shown :
       /\ k.key # None
       /\ k.size = Cardinality({r \in rows : SamePlace(r, k)})
       /\ \A l \in shown : SamePlace(k, l) => k = l
  /\ \A r \in rows : r.key # None => \E k \in shown : SamePlace(k, r)

\* What a pass deletes takes an assignment along with its cluster.
Together(rows, shown, p) ==
  \A r \in rows, k \in shown : SamePlace(k, r) => (r \in p.deleted <=> k \in p.dropped)

WrittenBy(ids, rows) == \A r \in rows : r.by \in ids

\* The passes that are done: none of them is under way.
Done(n, under) == {i \in 1 .. n : \A w \in Clusterer : under[w] # None => under[w].id # i}

\* A pass has a number of its own, and deletes only what a pass that is done has written.
PassOk(w, n, under, rows, shown) ==
  under[w] # None =>
    /\ under[w].id \in 1 .. n /\ under[w].new \subseteq Call
    /\ \A v \in Clusterer : under[v] # None /\ under[v].id = under[w].id => v = w
    /\ under[w].at = "read" =>
         /\ under[w].rows \subseteq Call
         /\ WrittenBy(Done(n, under), under[w].deleted)
         /\ WrittenBy(Done(n, under), under[w].dropped)
         /\ Together(rows, shown, under[w])

ClusterInv ==
  /\ passes \in Nat /\ prose \subseteq Call /\ embedded \subseteq Call
  /\ DOMAIN pass = Clusterer
  /\ WrittenBy(Done(passes, pass), placed) /\ WrittenBy(Done(passes, pass), clusters)
  /\ Agree(placed, clusters)
  /\ \A w \in Clusterer : PassOk(w, passes, pass, placed, clusters)

LEMMA ClusterStart == ClusterInit => ClusterInv
BY DEF ClusterInit, ClusterInv, WrittenBy, Agree, PassOk

\* The rows of one cluster are the calls with its label.
LEMMA SizeIs ==
  ASSUME NEW w, NEW label, IsFiniteSet(DOMAIN label), NEW a, NEW key
  PROVE  Cardinality({r \in NewPlaced(w, label) : r.agent = a /\ r.key = key})
           = Cardinality(Group(label, a, key))
<1> DEFINE rows == {r \in NewPlaced(w, label) : r.agent = a /\ r.key = key}
           group == Group(label, a, key)
           RowOf(c) == [call |-> c, agent |-> AgentOf[c], key |-> label[c], by |-> pass[w].id]
           f == [c \in group |-> RowOf(c)]
<1>1. \A r : r \in rows <=> \E c \in group : r = RowOf(c)
  BY DEF NewPlaced, Group
<1>2. \A c, d : RowOf(c) = RowOf(d) => c = d
  OBVIOUS
<1> HIDE DEF RowOf, rows
<1>3. f \in [group -> rows]
  BY <1>1
<1>4. \A c, d \in group : f[c] = f[d] => c = d
  BY <1>2
<1>5. \A r \in rows : \E c \in group : f[c] = r
  BY <1>1
<1> HIDE DEF f
<1>6. f \in Bijection(group, rows)
  BY <1>3, <1>4, <1>5, Fun_IsBij
<1>7. ExistsBijection(group, rows)
  BY <1>6 DEF ExistsBijection
<1>8. IsFiniteSet(group)
  BY FS_Subset DEF Group
<1> QED
  BY <1>7, <1>8, FS_Bijection DEF rows

\* A pass begins, reads or ends, and writes nothing.
LEMMA PassKeeps ==
  ASSUME ClusterInv, NEW w \in Clusterer, NEW v, pass' = [pass EXCEPT ![w] = v],
         passes' \in Nat, passes <= passes', Done(passes, pass) \subseteq Done(passes', pass'),
         PassOk(w, passes', pass', placed, clusters),
         UNCHANGED <<placed, clusters>>, prose' \subseteq Call, embedded' \subseteq Call
  PROVE  ClusterInv'
<1>1. /\ DOMAIN pass' = Clusterer
      /\ \A u \in Clusterer : u # w => pass'[u] = pass[u]
  BY DEF ClusterInv
<1>2. ASSUME NEW u \in Clusterer, u # w PROVE PassOk(u, passes', pass', placed, clusters)
  <2> SUFFICES ASSUME pass'[u] # None
               PROVE  /\ pass'[u].id \in 1 .. passes' /\ pass'[u].new \subseteq Call
                      /\ \A x \in Clusterer :
                           pass'[x] # None /\ pass'[x].id = pass'[u].id => x = u
                      /\ pass'[u].at = "read" =>
                           /\ pass'[u].rows \subseteq Call
                           /\ WrittenBy(Done(passes', pass'), pass'[u].deleted)
                           /\ WrittenBy(Done(passes', pass'), pass'[u].dropped)
                           /\ Together(placed, clusters, pass'[u])
    BY DEF PassOk
  <2>1. pass'[u] = pass[u] /\ PassOk(u, passes, pass, placed, clusters)
    BY <1>1, <1>2 DEF ClusterInv
  <2>2. pass'[u].id \in 1 .. passes' /\ pass'[u].new \subseteq Call
    BY <2>1 DEF PassOk, ClusterInv
  <2>3. ASSUME NEW x \in Clusterer, pass'[x] # None, pass'[x].id = pass'[u].id PROVE x = u
    <3>1. CASE x = w
      BY <1>2, <2>3, <3>1 DEF PassOk
    <3>2. CASE x # w
      BY <1>1, <2>1, <2>3, <3>2 DEF PassOk
    <3> QED
      BY <3>1, <3>2
  <2>4. pass'[u].at = "read" =>
          /\ pass'[u].rows \subseteq Call
          /\ WrittenBy(Done(passes', pass'), pass'[u].deleted)
          /\ WrittenBy(Done(passes', pass'), pass'[u].dropped)
          /\ Together(placed, clusters, pass'[u])
    BY <2>1 DEF PassOk, WrittenBy
  <2> QED
    BY <2>2, <2>3, <2>4
<1>3. \A u \in Clusterer : PassOk(u, passes', pass', placed, clusters)
  BY <1>2
<1>4. WrittenBy(Done(passes', pass'), placed) /\ WrittenBy(Done(passes', pass'), clusters)
  BY DEF ClusterInv, WrittenBy
<1> QED
  BY <1>1, <1>3, <1>4 DEF ClusterInv

LEMMA EmbedKeeps == ASSUME ClusterInv, NEW w \in Clusterer, Embed(w) PROVE ClusterInv'
<1>1. PICK new \in SUBSET (prose \ embedded) :
        pass' = [pass EXCEPT ![w] = [id |-> passes + 1, at |-> "embedded", new |-> new]]
  BY DEF Embed
<1> DEFINE v == [id |-> passes + 1, at |-> "embedded", new |-> new]
<1>2. /\ passes' = passes + 1 /\ passes \in Nat
      /\ pass[w] = None /\ pass'[w] = v /\ DOMAIN pass = Clusterer
      /\ \A u \in Clusterer : u # w => pass'[u] = pass[u]
      /\ UNCHANGED <<prose, old, embedded, placed, clusters>>
  BY <1>1 DEF Embed, ClusterInv
<1>3. v.id = passes + 1 /\ v.at # "read" /\ v.new \subseteq Call
  BY DEF ClusterInv
<1> HIDE DEF v
<1>4. \A u \in Clusterer : pass[u] # None => pass[u].id \in 1 .. passes
  BY DEF ClusterInv, PassOk
<1>5. PassOk(w, passes', pass', placed, clusters)
  <2>1. ASSUME NEW u \in Clusterer, pass'[u] # None, pass'[u].id = pass'[w].id PROVE u = w
    BY <1>2, <1>3, <1>4, <2>1
  <2> QED
    BY <1>2, <1>3, <2>1 DEF PassOk
<1>6. Done(passes, pass) \subseteq Done(passes', pass')
  BY <1>2, <1>3 DEF Done
<1>7. prose' \subseteq Call /\ embedded' \subseteq Call /\ passes' \in Nat /\ passes <= passes'
  BY <1>2 DEF ClusterInv
<1>8. pass' = [pass EXCEPT ![w] = v]
  BY <1>1 DEF v
<1> QED
  BY <1>2, <1>5, <1>6, <1>7, <1>8, PassKeeps

\* A pass reads, and marks for deletion, what is there: all of it written by passes that
\* are done, and assignments together with their clusters.
LEMMA ReadKeeps == ASSUME ClusterInv, NEW w \in Clusterer, ReadWindow(w) PROVE ClusterInv'
<1> DEFINE v == [id |-> pass[w].id, at |-> "read", new |-> pass[w].new,
                 rows |-> (embedded \cup pass[w].new) \ old,
                 deleted |-> Deleted((embedded \cup pass[w].new) \ old), dropped |-> clusters]
<1>1. /\ pass[w] # None /\ pass' = [pass EXCEPT ![w] = v]
      /\ UNCHANGED <<prose, old, embedded, placed, clusters, passes>>
  BY DEF ReadWindow
<1>2. /\ v.id = pass[w].id /\ v.new = pass[w].new
      /\ v.rows = (embedded \cup pass[w].new) \ old
      /\ v.deleted = placed /\ v.dropped = clusters
  BY DEF Deleted
<1> HIDE DEF v
<1>3. /\ pass'[w] = v /\ DOMAIN pass = Clusterer
      /\ \A u \in Clusterer : u # w => pass'[u] = pass[u]
  BY <1>1 DEF ClusterInv
<1>4. PassOk(w, passes, pass, placed, clusters)
  BY DEF ClusterInv
<1>5. Done(passes, pass) \subseteq Done(passes', pass')
  BY <1>1, <1>2, <1>3 DEF Done
<1>6. PassOk(w, passes', pass', placed, clusters)
  <2> SUFFICES ASSUME v # None PROVE PassOk(w, passes', pass', placed, clusters)
    BY <1>3 DEF PassOk
  <2>1. v.id \in 1 .. passes /\ v.new \subseteq Call
    BY <1>1, <1>2, <1>4 DEF PassOk
  <2>2. ASSUME NEW u \in Clusterer, pass'[u] # None, pass'[u].id = pass'[w].id PROVE u = w
    BY <1>1, <1>2, <1>3, <1>4, <2>2 DEF PassOk
  <2>3. v.rows \subseteq Call
    BY <1>2, <2>1 DEF ClusterInv
  <2>4. /\ WrittenBy(Done(passes', pass'), v.deleted)
        /\ WrittenBy(Done(passes', pass'), v.dropped)
    BY <1>2, <1>5 DEF ClusterInv, WrittenBy
  <2>5. Together(placed, clusters, v)
    BY <1>2 DEF Together
  <2> QED
    BY <1>1, <1>3, <2>1, <2>2, <2>3, <2>4, <2>5 DEF PassOk
<1>7. passes' \in Nat /\ passes <= passes' /\ prose' \subseteq Call /\ embedded' \subseteq Call
  BY <1>1 DEF ClusterInv
<1> QED
  BY <1>1, <1>5, <1>6, <1>7, PassKeeps

\* The end of a pass that wrote nothing: it was aborted, or its commit failed.
LEMMA EndKeeps ==
  ASSUME ClusterInv, NEW w \in Clusterer, pass' = [pass EXCEPT ![w] = None],
         UNCHANGED <<prose, embedded, placed, clusters, passes>>
  PROVE  ClusterInv'
<1>1. pass'[w] = None /\ \A u \in Clusterer : u # w => pass'[u] = pass[u]
  BY DEF ClusterInv
<1>2. Done(passes, pass) \subseteq Done(passes', pass')
  BY <1>1 DEF Done
<1>3. PassOk(w, passes', pass', placed, clusters)
  BY <1>1 DEF PassOk
<1>4. passes' \in Nat /\ passes <= passes' /\ prose' \subseteq Call /\ embedded' \subseteq Call
  BY DEF ClusterInv
<1> QED
  BY <1>2, <1>3, <1>4, PassKeeps

\* Each new assignment has its new cluster.
LEMMA NewAgree ==
  ASSUME NEW w, NEW label
  PROVE  /\ \A r \in NewPlaced(w, label) :
              r.by = pass[w].id /\ (r.key # None => \E k \in NewClusters(w, label) : SamePlace(k, r))
         /\ \A k \in NewClusters(w, label) : k.by = pass[w].id /\ k.key # None
<1>1. ASSUME NEW r \in NewPlaced(w, label), r.key # None
      PROVE  \E k \in NewClusters(w, label) : SamePlace(k, r)
  <2>1. PICK c \in DOMAIN label : r.agent = AgentOf[c] /\ r.key = label[c]
    BY DEF NewPlaced
  <2> DEFINE n == [agent |-> AgentOf[c], key |-> label[c], by |-> pass[w].id,
                   size |-> Cardinality(Group(label, AgentOf[c], label[c]))]
  <2>2. n \in NewClusters(w, label)
    BY <1>1, <2>1 DEF NewClusters
  <2>3. SamePlace(n, r)
    BY <2>1 DEF SamePlace
  <2> QED
    BY <2>2, <2>3
<1>2. /\ \A r \in NewPlaced(w, label) : r.by = pass[w].id
      /\ \A k \in NewClusters(w, label) : k.by = pass[w].id /\ k.key # None
  BY DEF NewPlaced, NewClusters
<1> QED
  BY <1>1, <1>2

\* What a commit writes agrees within itself and with what it leaves: it leaves whole
\* clusters, and a cluster in the place of a new one makes it fail.
LEMMA CommitAgrees ==
  ASSUME ClusterInv, NEW w \in Clusterer, pass[w] # None, pass[w].at = "read",
         NEW label, DOMAIN label \subseteq Call, ~Conflicts(w, label)
  PROVE  Agree((placed \ pass[w].deleted) \cup NewPlaced(w, label),
               (clusters \ pass[w].dropped) \cup NewClusters(w, label))
<1> DEFINE kept == placed \ pass[w].deleted
           left == clusters \ pass[w].dropped
           added == NewPlaced(w, label)
           made == NewClusters(w, label)
<1>1. Agree(placed, clusters) /\ Together(placed, clusters, pass[w])
  BY DEF ClusterInv, PassOk
<1>2. \A k \in left, n \in made : ~SamePlace(k, n)
  BY DEF Conflicts, SamePlace
<1>3. /\ \A r \in added : r.key # None => \E k \in made : SamePlace(k, r)
      /\ \A k \in made : k.key # None
  BY NewAgree
<1>4. \A k, l \in made : SamePlace(k, l) => k = l
  BY DEF NewClusters, SamePlace
<1>5. \A k \in made : k.size = Cardinality({r \in added : SamePlace(r, k)})
  <2> TAKE k \in made
  <2>1. PICK c \in DOMAIN label :
          /\ k.agent = AgentOf[c] /\ k.key = label[c]
          /\ k.size = Cardinality(Group(label, AgentOf[c], label[c]))
    BY DEF NewClusters
  <2>2. IsFiniteSet(DOMAIN label)
    BY ClusterAssumption, FS_Subset
  <2>3. {r \in added : SamePlace(r, k)}
          = {r \in NewPlaced(w, label) : r.agent = AgentOf[c] /\ r.key = label[c]}
    BY <2>1 DEF SamePlace
  <2> QED
    BY <2>1, <2>2, <2>3, SizeIs
<1>6. \A r \in kept : r.key # None => \E k \in left : SamePlace(k, r)
  <2> SUFFICES ASSUME NEW r \in kept, r.key # None PROVE \E k \in left : SamePlace(k, r)
    OBVIOUS
  <2>1. PICK k \in clusters : SamePlace(k, r)
    BY <1>1 DEF Agree
  <2>2. k \notin pass[w].dropped
    BY <1>1, <2>1 DEF Together
  <2> QED
    BY <2>1, <2>2
<1> HIDE DEF added, made
<1>7. \A r \in kept, k \in made : ~SamePlace(r, k)
  <2> SUFFICES ASSUME NEW r \in kept, NEW k \in made, SamePlace(r, k) PROVE FALSE
    OBVIOUS
  <2>1. r.key # None
    BY <1>3 DEF SamePlace
  <2>2. PICK l \in left : SamePlace(l, r)
    BY <1>6, <2>1
  <2>3. SamePlace(l, k)
    BY <2>2 DEF SamePlace
  <2> QED
    BY <1>2, <2>3
<1>8. \A r \in added, k \in left : ~SamePlace(r, k)
  <2> SUFFICES ASSUME NEW r \in added, NEW k \in left, SamePlace(r, k) PROVE FALSE
    OBVIOUS
  <2>1. r.key # None
    BY <1>1 DEF SamePlace, Agree
  <2>2. PICK n \in made : SamePlace(n, r)
    BY <1>3, <2>1
  <2>3. SamePlace(k, n)
    BY <2>2 DEF SamePlace
  <2> QED
    BY <1>2, <2>3
<1>9. \A k \in left : k.size = Cardinality({r \in kept \cup added : SamePlace(r, k)})
  <2> TAKE k \in left
  <2>1. \A r \in placed : SamePlace(r, k) => r \in kept
    BY <1>1 DEF Together, SamePlace
  <2>2. {r \in kept \cup added : SamePlace(r, k)} = {r \in placed : SamePlace(r, k)}
    BY <1>8, <2>1
  <2> QED
    BY <1>1, <2>2 DEF Agree
<1>10. \A k \in made : k.size = Cardinality({r \in kept \cup added : SamePlace(r, k)})
  <2> TAKE k \in made
  <2>1. {r \in kept \cup added : SamePlace(r, k)} = {r \in added : SamePlace(r, k)}
    BY <1>7
  <2> QED
    BY <1>5, <2>1
<1>11. \A k, l \in left \cup made : SamePlace(k, l) => k = l
  <2>1. \A k, l \in left : SamePlace(k, l) => k = l
    BY <1>1 DEF Agree
  <2>2. \A k \in made, l \in left : ~SamePlace(k, l)
    BY <1>2 DEF SamePlace
  <2> QED
    BY <1>2, <1>4, <2>1, <2>2
<1>12. \A k \in left \cup made : k.key # None
  BY <1>1, <1>3 DEF Agree
<1>13. \A r \in kept \cup added : r.key # None => \E k \in left \cup made : SamePlace(k, r)
  BY <1>3, <1>6
<1>14. \A k \in left \cup made : k.size = Cardinality({r \in kept \cup added : SamePlace(r, k)})
  BY <1>9, <1>10
<1> HIDE DEF kept, left
<1>15. Agree(kept \cup added, left \cup made)
  BY <1>11, <1>12, <1>13, <1>14 DEF Agree
<1> QED
  BY <1>15 DEF kept, left, added, made

\* Another pass under way deletes what it read, and of what this one writes nothing.
LEMMA OthersTogether ==
  ASSUME ClusterInv, NEW w \in Clusterer, pass[w] # None, pass[w].at = "read",
         NEW label, DOMAIN label \subseteq Call, ~Conflicts(w, label),
         NEW u \in Clusterer, u # w, pass[u] # None, pass[u].at = "read"
  PROVE  Together((placed \ pass[w].deleted) \cup NewPlaced(w, label),
                  (clusters \ pass[w].dropped) \cup NewClusters(w, label), pass[u])
<1> DEFINE kept == placed \ pass[w].deleted
           left == clusters \ pass[w].dropped
           added == NewPlaced(w, label)
           made == NewClusters(w, label)
<1>1. /\ Together(placed, clusters, pass[u])
      /\ WrittenBy(Done(passes, pass), pass[u].deleted)
      /\ WrittenBy(Done(passes, pass), pass[u].dropped)
  BY DEF ClusterInv, PassOk
<1>2. pass[w].id \notin Done(passes, pass)
  BY DEF Done
<1>3. /\ \A r \in added : r.by = pass[w].id
      /\ \A k \in made : k.by = pass[w].id
  BY NewAgree
<1>4. added \cap pass[u].deleted = {} /\ made \cap pass[u].dropped = {}
  BY <1>1, <1>2, <1>3 DEF WrittenBy
<1>5. \A r \in kept, k \in made : ~SamePlace(k, r)
  <2> SUFFICES ASSUME NEW r \in kept, NEW k \in made, SamePlace(k, r) PROVE FALSE
    OBVIOUS
  <2>1. k.key # None
    BY DEF NewClusters
  <2>2. r.key # None /\ r \in placed
    BY <2>1 DEF SamePlace
  <2>3. PICK l \in clusters : SamePlace(l, r)
    BY <2>2 DEF ClusterInv, Agree
  <2>4. l \in left
    BY <2>2, <2>3 DEF ClusterInv, PassOk, Together
  <2>5. l.agent = k.agent /\ l.key = k.key
    BY <2>3 DEF SamePlace
  <2> QED
    BY <2>4, <2>5 DEF Conflicts
<1>6. \A r \in added, k \in left : ~SamePlace(k, r)
  <2> SUFFICES ASSUME NEW r \in added, NEW k \in left, SamePlace(k, r) PROVE FALSE
    OBVIOUS
  <2>1. r.key # None
    BY DEF SamePlace, ClusterInv, Agree
  <2>2. PICK n \in made : SamePlace(n, r)
    BY <2>1, NewAgree
  <2> QED
    BY <2>2 DEF Conflicts, SamePlace
<1> HIDE DEF added, made
<1>7. \A r \in kept \cup added, k \in left \cup made :
        SamePlace(k, r) => (r \in pass[u].deleted <=> k \in pass[u].dropped)
  <2> SUFFICES ASSUME NEW r \in kept \cup added, NEW k \in left \cup made, SamePlace(k, r)
               PROVE  r \in pass[u].deleted <=> k \in pass[u].dropped
    OBVIOUS
  <2>1. CASE r \in kept /\ k \in left
    BY <1>1, <2>1 DEF Together
  <2>2. CASE r \in added /\ k \in made
    BY <1>4, <2>2
  <2> QED
    BY <1>5, <1>6, <2>1, <2>2
<1> QED
  BY <1>7 DEF Together, added, made

LEMMA CommitKeeps == ASSUME ClusterInv, NEW w \in Clusterer, CommitPass(w) PROVE ClusterInv'
<1>1. /\ pass[w] # None /\ pass[w].at = "read"
      /\ pass' = [pass EXCEPT ![w] = None] /\ UNCHANGED <<prose, old, passes>>
  BY DEF CommitPass
<1>2. PICK label \in Labels(pass[w].rows) :
        IF Conflicts(w, label) THEN UNCHANGED <<embedded, placed, clusters>>
        ELSE /\ embedded' = embedded \cup pass[w].new
             /\ placed' = (placed \ pass[w].deleted) \cup NewPlaced(w, label)
             /\ clusters' = (clusters \ pass[w].dropped) \cup NewClusters(w, label)
  BY DEF CommitPass
<1>3. CASE Conflicts(w, label)
  BY <1>1, <1>2, <1>3, EndKeeps
<1>4. CASE ~Conflicts(w, label)
  <2>1. /\ embedded' = embedded \cup pass[w].new
        /\ placed' = (placed \ pass[w].deleted) \cup NewPlaced(w, label)
        /\ clusters' = (clusters \ pass[w].dropped) \cup NewClusters(w, label)
    BY <1>2, <1>4
  <2>2. PassOk(w, passes, pass, placed, clusters)
    BY DEF ClusterInv
  <2>3. DOMAIN label \subseteq Call
    <3>1. pass[w].rows \subseteq Call
      BY <1>1, <2>2 DEF PassOk
    <3>2. DOMAIN label \subseteq pass[w].rows
      BY DEF Labels, Clustered
    <3> QED
      BY <3>1, <3>2
  <2>4. /\ pass'[w] = None /\ DOMAIN pass' = Clusterer
        /\ \A u \in Clusterer : u # w => pass'[u] = pass[u]
    BY <1>1 DEF ClusterInv
  <2>5. Done(passes, pass) \cup {pass[w].id} \subseteq Done(passes', pass')
    <3>1. Done(passes, pass) \subseteq Done(passes', pass')
      BY <1>1, <2>4 DEF Done
    <3>2. pass[w].id \in 1 .. passes
      BY <1>1, <2>2 DEF PassOk
    <3>3. \A u \in Clusterer : pass'[u] # None => pass'[u].id # pass[w].id
      BY <1>1, <2>2, <2>4 DEF PassOk
    <3> QED
      BY <1>1, <3>1, <3>2, <3>3 DEF Done
  <2>6. WrittenBy(Done(passes', pass'), placed') /\ WrittenBy(Done(passes', pass'), clusters')
    <3>1. /\ \A r \in NewPlaced(w, label) : r.by \in Done(passes', pass')
          /\ \A k \in NewClusters(w, label) : k.by \in Done(passes', pass')
      BY <2>5, NewAgree
    <3> QED
      BY <2>1, <2>5, <3>1 DEF ClusterInv, WrittenBy
  <2>7. Agree(placed', clusters')
    BY <1>1, <1>4, <2>1, <2>3, CommitAgrees
  <2>8. ASSUME NEW u \in Clusterer PROVE PassOk(u, passes', pass', placed', clusters')
    <3>1. CASE u = w
      BY <2>4, <3>1 DEF PassOk
    <3>2. CASE u # w /\ pass[u] # None
      <4>1. pass'[u] = pass[u] /\ PassOk(u, passes, pass, placed, clusters)
        BY <2>4, <3>2 DEF ClusterInv
      <4>2. pass'[u].id \in 1 .. passes' /\ pass'[u].new \subseteq Call
        BY <1>1, <3>2, <4>1 DEF PassOk
      <4>3. ASSUME NEW x \in Clusterer, pass'[x] # None, pass'[x].id = pass'[u].id PROVE x = u
        BY <2>4, <3>2, <4>1, <4>3 DEF PassOk
      <4>4. ASSUME pass'[u].at = "read"
            PROVE  /\ pass'[u].rows \subseteq Call
                   /\ WrittenBy(Done(passes', pass'), pass'[u].deleted)
                   /\ WrittenBy(Done(passes', pass'), pass'[u].dropped)
                   /\ Together(placed', clusters', pass'[u])
        <5>1. Together(placed', clusters', pass'[u])
          BY <1>1, <1>4, <2>1, <2>3, <3>2, <4>1, <4>4, OthersTogether
        <5> QED
          BY <2>5, <3>2, <4>1, <4>4, <5>1 DEF PassOk, WrittenBy
      <4> QED
        BY <4>2, <4>3, <4>4 DEF PassOk
    <3>3. CASE u # w /\ pass[u] = None
      BY <2>4, <3>3 DEF PassOk
    <3> QED
      BY <3>1, <3>2, <3>3
  <2>9. /\ passes' \in Nat /\ prose' \subseteq Call /\ embedded' \subseteq Call
    BY <1>1, <2>1, <2>2 DEF ClusterInv, PassOk
  <2> QED
    BY <2>4, <2>6, <2>7, <2>8, <2>9 DEF ClusterInv
<1> QED
  BY <1>3, <1>4

LEMMA ClusterStep == ClusterInv /\ [ClusterNext]_clusterVars => ClusterInv'
<1> SUFFICES ASSUME ClusterInv, [ClusterNext]_clusterVars PROVE ClusterInv'
  OBVIOUS
<1>1. ASSUME prose' \subseteq Call, UNCHANGED <<embedded, placed, clusters, pass, passes>>
      PROVE  ClusterInv'
  BY <1>1 DEF ClusterInv
<1>2. ASSUME NEW c \in Call, Reviewed(c) \/ Ages(c) PROVE ClusterInv'
  BY <1>1, <1>2 DEF Reviewed, Ages, ClusterInv
<1>3. ASSUME NEW w \in Clusterer, Abort(w) PROVE ClusterInv'
  BY <1>3, EndKeeps DEF Abort
<1>4. CASE UNCHANGED clusterVars
  BY <1>1, <1>4 DEF clusterVars, ClusterInv
<1> QED
  BY <1>2, <1>3, <1>4, EmbedKeeps, ReadKeeps, CommitKeeps DEF ClusterNext

\* clustering/service.py recluster: however many passes overlap, and whatever leaves the
\* window, the clusters shown and the calls in them agree.
THEOREM ClustersStayWhole == ClusterSpec => []ClustersAgree
<1>1. ClusterSpec => []ClusterInv
  BY ClusterStart, ClusterStep, PTL DEF ClusterSpec
<1>2. ClusterInv => ClustersAgree
  BY DEF ClusterInv, Agree, SamePlace, ClustersAgree
<1> QED
  BY <1>1, <1>2, PTL

-----------------------------------------------------------------------------
(* The boards.                                                             *)

\* A set of naturals with a bound has a greatest element.
LEMMA BoundedHasMax ==
  ASSUME NEW n \in Nat, NEW S \in SUBSET (0 .. n), S # {}
  PROVE  Max(S) \in S /\ \A k \in S : k <= Max(S)
<1> DEFINE Has(m) == \A R \in SUBSET (0 .. m) : R # {} => \E x \in R : \A k \in R : x >= k
           T == {m \in Nat : Has(m)}
<1>1. Has(0)
  <2> SUFFICES ASSUME NEW R \in SUBSET (0 .. 0), NEW r \in R
               PROVE  \E x \in R : \A k \in R : x >= k
    OBVIOUS
  <2>1. \A k \in R : k = 0
    OBVIOUS
  <2> QED  BY <2>1
<1>2. ASSUME NEW m \in Nat, Has(m) PROVE Has(m + 1)
  <2> SUFFICES ASSUME NEW R \in SUBSET (0 .. m + 1), R # {} PROVE \E x \in R : \A k \in R : x >= k
    OBVIOUS
  <2>1. CASE m + 1 \in R
    BY <2>1
  <2>2. CASE m + 1 \notin R
    <3>1. R \in SUBSET (0 .. m)
      BY <2>2
    <3> QED  BY <1>2, <3>1
  <2> QED  BY <2>1, <2>2
<1>3. Nat \subseteq T
  <2>1. 0 \in T /\ \A m \in Nat : m \in T => m + 1 \in T
    <3> HIDE DEF Has
    <3> QED  BY <1>1, <1>2
  <2> HIDE DEF T
  <2> QED  BY <2>1, NaturalInduction
<1>4. \E x \in S : \A k \in S : x >= k
  BY <1>3
<1>5. Max(S) \in S /\ \A k \in S : Max(S) >= k
  BY <1>4 DEF Max
<1> QED  BY <1>5

(* The stamps and the start of each call are moments.                      *)
StampedCalls(rows) ==
  /\ rows = [c \in DOMAIN rows |-> rows[c]]
  /\ \A c \in DOMAIN rows : /\ rows[c] = [created |-> rows[c].created, activity |-> rows[c].activity,
                                           judged |-> rows[c].judged, started |-> rows[c].started]
                           /\ \A f \in Field \cup {"started"} : rows[c][f] \in Nat

\* A stamp no open transaction holds: it is on the calls, or was, or never will be.
Spent(n) ==
  n \in Nat /\ n < stamp /\ \A w \in Committer : committing[w] # None => committing[w].stamp # n

Change == [call : BoardCall, field : Field, stamp : Nat]

\* What the last cursor saw of f is on the rows read since.
Shows(rows, f) ==
  \A c \in DOMAIN calls : calls[c][f] = stream.cur[f] /\ stream.cur[f] > 0 =>
    c \in DOMAIN rows /\ rows[c][f] = calls[c][f]

\* A cursor has been read, so a snapshot has begun.
Begun == stream.cur # <<>>

IsCursor(cur) ==
  /\ cur = [count |-> cur.count, activity |-> cur.activity, created |-> cur.created,
            judged |-> cur.judged]
  /\ \A f \in Field : cur[f] = 0 \/ Spent(cur[f])

StampsInv ==
  /\ stamp \in 1 .. MaxStamps
  /\ StampedCalls(calls)
  /\ committing = [w \in Committer |-> committing[w]]
  /\ \A w \in Committer : committing[w] # None =>
       /\ committing[w] \in Change /\ committing[w].stamp \in 1 .. stamp - 1
       /\ \A v \in Committer \ {w} : committing[v] # None => committing[v].stamp # committing[w].stamp
  /\ \A c \in DOMAIN calls : \A f \in Field : Spent(calls[c][f]) \/ calls[c][f] = 0

StreamInv ==
  /\ stream = [at |-> stream.at, cur |-> stream.cur, new |-> stream.new, until |-> stream.until,
               rows |-> stream.rows, judged |-> stream.judged, last |-> stream.last]
  /\ stream.at \in {"closed", "cursor", "calls", "judgments", "turns", "tools", "idle"}
  /\ stream.until \in 0 .. MaxStamps
  /\ StampedCalls(stream.rows) /\ StampedCalls(stream.judged) /\ StampedCalls(stream.last)
  /\ stream.at = "closed" => ~Begun
  /\ stream.at = "cursor" => IsCursor(stream.new)
  /\ stream.at \in {"calls", "judgments", "turns", "tools", "idle"} => Begun
  /\ Begun => IsCursor(stream.cur)
  /\ Begun /\ stream.at # "calls" => Shows(stream.rows, "created") /\ Shows(stream.rows, "activity")
  /\ Begun /\ stream.at \notin {"calls", "judgments"} => Shows(stream.judged, "judged")
BoardInv == StampsInv /\ StreamInv

\* A step of a writer: what is spent stays spent, and comes to no further call.
Onward ==
  /\ \A n \in Nat : Spent(n) => Spent(n)'
  /\ \A n \in Nat, f \in Field : \A c \in DOMAIN calls' :
       Spent(n) /\ n > 0 /\ calls'[c][f] = n => c \in DOMAIN calls /\ calls[c][f] = n

LEMMA StampKeeps ==
  ASSUME StampsInv, NEW w \in Committer, NEW c \in BoardCall, NEW field \in Field, Stamp(w, c, field)
  PROVE  StampsInv' /\ Onward
<1> USE DEF Stamp
<1>1. stamp \in Nat /\ stamp' = stamp + 1 /\ stamp' \in 1 .. MaxStamps
  BY BoardAssumption DEF StampsInv, BoardAssumption
<1>2. committing' = [v \in Committer |-> committing'[v]]
  BY DEF StampsInv
<1>3. committing'[w] = [call |-> c, field |-> field, stamp |-> stamp]
      /\ \A v \in Committer \ {w} : committing'[v] = committing[v]
  BY DEF StampsInv
<1>4. ASSUME NEW n \in Nat, Spent(n) PROVE Spent(n)'
  BY <1>1, <1>3, <1>4 DEF Spent
<1>5. \A v \in Committer : committing'[v] # None =>
        /\ committing'[v] \in Change /\ committing'[v].stamp \in 1 .. stamp' - 1
        /\ \A u \in Committer \ {v} : committing'[u] # None => committing'[u].stamp # committing'[v].stamp
  <2> SUFFICES ASSUME NEW v \in Committer, committing'[v] # None
               PROVE  /\ committing'[v] \in Change /\ committing'[v].stamp \in 1 .. stamp' - 1
                      /\ \A u \in Committer \ {v} :
                           committing'[u] # None => committing'[u].stamp # committing'[v].stamp
    OBVIOUS
  <2>1. \A u \in Committer : u # w /\ committing[u] # None => committing[u].stamp \in 1 .. stamp - 1
    BY DEF StampsInv
  <2>2. CASE v = w
    BY <1>1, <1>3, <2>1, <2>2 DEF Change, StampsInv
  <2>3. CASE v # w
    BY <1>1, <1>3, <2>1, <2>3 DEF StampsInv
  <2> QED
    BY <2>2, <2>3
<1>6. \A d \in DOMAIN calls : \A f \in Field : Spent(calls[d][f])' \/ calls[d][f] = 0
  BY <1>4 DEF StampsInv, StampedCalls
<1> QED
  BY <1>1, <1>2, <1>4, <1>5, <1>6 DEF StampsInv, Onward, StampedCalls

LEMMA CommitStampKeeps ==
  ASSUME StampsInv, NEW w \in Committer, CommitStamp(w)
  PROVE  StampsInv' /\ Onward
<1> DEFINE now == committing[w]
<1> USE DEF CommitStamp
<1>1. stamp' = stamp /\ stamp \in Nat
  BY BoardAssumption DEF StampsInv, BoardAssumption
<1>2. now \in Change /\ now.stamp \in 1 .. stamp - 1
  BY DEF StampsInv
<1>3. /\ committing' = [v \in Committer |-> committing'[v]] /\ committing'[w] = None
      /\ \A v \in Committer \ {w} : committing'[v] = committing[v]
  BY DEF StampsInv
<1>4. ASSUME NEW n \in Nat, Spent(n) PROVE Spent(n)' /\ n # now.stamp
  BY <1>1, <1>3, <1>4 DEF Spent
<1>5. \A n \in Nat : n = now.stamp => Spent(n)'
  BY <1>1, <1>2, <1>3 DEF Spent, StampsInv
<1>6. CASE calls' = calls
  <2>1. \A d \in DOMAIN calls : \A f \in Field : Spent(calls[d][f])' \/ calls[d][f] = 0
    BY <1>4, <1>6 DEF StampsInv, StampedCalls
  <2> QED
    BY <1>1, <1>3, <1>4, <1>6, <2>1 DEF StampsInv, Onward, StampedCalls
<1>7. CASE Applies(now) /\ calls' = WithStamp(now.call, now)
  <2> DEFINE c == now.call
  <2>1. DOMAIN calls' = DOMAIN calls \cup {c} /\ calls' = [d \in DOMAIN calls' |-> calls'[d]]
        /\ \A d \in DOMAIN calls' \ {c} : d \in DOMAIN calls /\ calls'[d] = calls[d]
    BY <1>7 DEF WithStamp
  <2>2. CASE now.field = "created"
    <3>1. calls'[c] = [created |-> now.stamp, activity |-> now.stamp, judged |-> 0, started |-> 0]
      BY <1>7, <2>2 DEF WithStamp
    <3>2. StampedCalls(calls')
      BY <1>2, <2>1, <3>1 DEF StampedCalls, StampsInv, Field
    <3>3. \A d \in DOMAIN calls' : \A f \in Field : calls'[d][f] = 0 \/ calls'[d][f] = now.stamp
             \/ (d \in DOMAIN calls /\ calls'[d][f] = calls[d][f])
      BY <2>1, <3>1 DEF Field
    <3>5. Onward
      BY <1>2, <1>4, <3>3 DEF Onward
    <3>6. (\A d \in DOMAIN calls : \A f \in Field : Spent(calls[d][f]) \/ calls[d][f] = 0)'
      BY <1>2, <1>4, <1>5, <3>3 DEF StampsInv, StampedCalls
    <3> QED
      BY <1>1, <1>3, <3>2, <3>5, <3>6 DEF StampsInv
  <2>3. CASE now.field # "created"
    <3>1. c \in DOMAIN calls /\ calls'[c] = [calls[c] EXCEPT ![now.field] = now.stamp]
      BY <1>7, <2>3 DEF WithStamp, Applies
    <3>2. now.field \in {"activity", "judged"}
      BY <1>2, <2>3 DEF Change, Field
    <3>3. StampedCalls(calls')
      BY <1>2, <2>1, <3>1, <3>2 DEF StampedCalls, StampsInv, Field
    <3>4. \A d \in DOMAIN calls' : \A f \in Field : calls'[d][f] = now.stamp
             \/ (d \in DOMAIN calls /\ calls'[d][f] = calls[d][f])
      BY <2>1, <3>1, <3>2 DEF Field, StampsInv, StampedCalls
    <3>5. Onward
      BY <1>2, <1>4, <3>4 DEF Onward
    <3>6. (\A d \in DOMAIN calls : \A f \in Field : Spent(calls[d][f]) \/ calls[d][f] = 0)'
      BY <1>2, <1>4, <1>5, <3>4 DEF StampsInv, StampedCalls
    <3> QED
      BY <1>1, <1>3, <3>3, <3>5, <3>6 DEF StampsInv
  <2> QED
    BY <2>2, <2>3
<1> QED
  BY <1>6, <1>7

LEMMA RewriteKeeps ==
  ASSUME StampsInv, NEW e \in BoardCall, NEW start \in StartAt \cup {0}, Rewrite(e, start)
  PROVE  StampsInv' /\ Onward
<1> USE DEF Rewrite
<1>1. DOMAIN calls' = DOMAIN calls /\ calls' = [c \in DOMAIN calls' |-> calls'[c]]
      /\ \A c \in DOMAIN calls \ {e} : calls'[c] = calls[c]
      /\ calls'[e] = [calls[e] EXCEPT !.started = start]
  BY DEF StampsInv, StampedCalls
<1>2. start \in Nat
  BY BoardAssumption DEF BoardAssumption
<1>3. \A c \in DOMAIN calls' : \A f \in Field : calls'[c][f] = calls[c][f]
  BY <1>1 DEF Field, StampsInv, StampedCalls
<1>4. \A n : Spent(n)' <=> Spent(n)
  BY DEF Spent
<1>5. StampedCalls(calls')
  BY <1>1, <1>2 DEF StampsInv, StampedCalls, Field
<1>6. (\A c \in DOMAIN calls : \A f \in Field : Spent(calls[c][f]) \/ calls[c][f] = 0)'
  BY <1>1, <1>3, <1>4 DEF StampsInv
<1>7. StampsInv'
  BY <1>5, <1>6 DEF StampsInv
<1> QED
  BY <1>1, <1>3, <1>4, <1>7 DEF Onward

LEMMA EraseCallKeeps ==
  ASSUME StampsInv, NEW e \in BoardCall, EraseCall(e)
  PROVE  StampsInv' /\ Onward
<1>1. DOMAIN calls' \subseteq DOMAIN calls /\ calls' = [c \in DOMAIN calls' |-> calls'[c]]
      /\ \A c \in DOMAIN calls' : calls'[c] = calls[c]
  BY DEF EraseCall
<1>2. stamp' = stamp /\ committing' = committing
  BY DEF EraseCall
<1>3. \A n : Spent(n)' <=> Spent(n)
  BY <1>2 DEF Spent
<1>4. StampedCalls(calls')
  BY <1>1 DEF StampsInv, StampedCalls
<1>5. (\A c \in DOMAIN calls : \A f \in Field : Spent(calls[c][f]) \/ calls[c][f] = 0)'
  BY <1>1, <1>2 DEF StampsInv, Spent
<1>6. StampsInv'
  BY <1>2, <1>4, <1>5 DEF StampsInv
<1> QED
  BY <1>1, <1>3, <1>6 DEF Onward

\* No step of a writer makes a snapshot older than its cursor.
LEMMA WriterKeepsStream ==
  ASSUME StampsInv, StreamInv, Onward, UNCHANGED stream
  PROVE  StreamInv'
<1>1. ASSUME NEW cur, IsCursor(cur) PROVE IsCursor(cur)'
  BY <1>1 DEF IsCursor, Onward, Spent
<1>2. ASSUME NEW rows, NEW f \in Field, Begun, IsCursor(stream.cur), Shows(rows, f)
      PROVE  Shows(rows, f)'
  <2>1. \A c \in DOMAIN calls' : calls'[c][f] = stream.cur[f] /\ stream.cur[f] > 0 =>
          c \in DOMAIN calls /\ calls[c][f] = stream.cur[f]
    BY <1>2 DEF IsCursor, Onward, Spent
  <2> QED
    BY <1>2, <2>1 DEF Shows
<1>3. Begun' <=> Begun
  BY DEF Begun
<1> USE DEF Field
<1> QED
  BY <1>1, <1>2, <1>3 DEF StreamInv, StampedCalls

LEMMA LatestIsSpent ==
  ASSUME StampsInv, NEW f \in Field
  PROVE  Latest(f) = 0 \/ Spent(Latest(f))
<1> DEFINE S == {0} \cup {calls[c][f] : c \in DOMAIN calls}
<1>1. stamp \in Nat /\ stamp > 0
  BY BoardAssumption DEF StampsInv, BoardAssumption
<1>2. S \in SUBSET (0 .. stamp)
  BY <1>1 DEF StampsInv, Spent
<1>3. Max(S) \in S
  <2> HIDE DEF S
  <2>1. S # {}
    BY DEF S
  <2> QED
    BY <1>1, <1>2, <2>1, BoundedHasMax
<1> QED
  BY <1>3 DEF Latest, StampsInv

LEMMA CursorRead ==
  ASSUME StampsInv
  PROVE  IsCursor(CursorOfCalls)
<1>1. \A f \in Field : Latest(f) = 0 \/ Spent(Latest(f))
  BY LatestIsSpent
<1> QED
  BY <1>1 DEF IsCursor, CursorOfCalls, Field

LEMMA JudgedRead ==
  ASSUME StampsInv, NEW new, IsCursor(new)
  PROVE  IsCursor(WithJudged(new)) /\ WithJudged(new) # <<>>
<1>1. Latest("judged") = 0 \/ Spent(Latest("judged"))
  BY LatestIsSpent DEF Field
<1>2. WithJudged(new) = [count |-> new.count, activity |-> new.activity, created |-> new.created,
                         judged |-> Latest("judged")]
  BY DEF WithJudged, IsCursor
<1>3. WithJudged(new) # <<>>
  BY <1>2
<1> QED
  BY <1>1, <1>2, <1>3 DEF IsCursor, Field

LEMMA LookKeeps ==
  ASSUME BoardInv, Look
  PROVE  StreamInv'
<1>1. IsCursor(CursorOfCalls)
  BY CursorRead DEF BoardInv
<1>2. \A cur : IsCursor(cur)' <=> IsCursor(cur)
  BY DEF Look, IsCursor, Spent
<1>3. StampedCalls(NoRows)
  BY DEF StampedCalls, NoRows
<1> QED
  BY <1>1, <1>2, <1>3 DEF Look, BoardInv, StreamInv, Shows, Begun

LEMMA LookAtJudgedKeeps ==
  ASSUME BoardInv, LookAtJudged
  PROVE  StreamInv'
<1>1. IsCursor(WithJudged(stream.new)) /\ WithJudged(stream.new) # <<>>
  BY JudgedRead DEF BoardInv, StreamInv, LookAtJudged
<1>2. \A cur : IsCursor(cur)' <=> IsCursor(cur)
  BY DEF LookAtJudged, IsCursor, Spent
<1>3. stamp \in 0 .. MaxStamps
  BY BoardAssumption DEF BoardInv, StampsInv, BoardAssumption
<1>4. CASE WithJudged(stream.new) = stream.cur
  <2>1. stream' = [stream EXCEPT !.at = "idle"]
    BY <1>4 DEF LookAtJudged
  <2> QED
    BY <1>1, <1>2, <1>4, <2>1 DEF LookAtJudged, BoardInv, StreamInv, Shows, Begun
<1>5. CASE WithJudged(stream.new) # stream.cur
  <2>1. stream' = [stream EXCEPT !.at = "calls", !.cur = WithJudged(stream.new), !.until = stamp]
    BY <1>5 DEF LookAtJudged
  <2> HIDE DEF WithJudged
  <2> QED
    BY <1>1, <1>2, <1>3, <2>1 DEF LookAtJudged, BoardInv, StreamInv, Begun
<1> QED
  BY <1>4, <1>5

LEMMA SnapCallsKeeps ==
  ASSUME BoardInv, SnapCalls
  PROVE  StreamInv'
<1>1. \A cur : IsCursor(cur)' <=> IsCursor(cur)
  BY DEF SnapCalls, IsCursor, Spent
<1> QED
  BY <1>1 DEF SnapCalls, BoardInv, StampsInv, StreamInv, Shows, Begun

LEMMA SnapJudgmentsKeeps ==
  ASSUME BoardInv, SnapJudgments
  PROVE  StreamInv'
<1>1. \A cur : IsCursor(cur)' <=> IsCursor(cur)
  BY DEF SnapJudgments, IsCursor, Spent
<1>2. StampedCalls(JudgedCalls)
  BY DEF BoardInv, StampsInv, StampedCalls, JudgedCalls
<1>3. \A c \in DOMAIN calls : calls[c].judged > 0 => c \in DOMAIN JudgedCalls /\ JudgedCalls[c] = calls[c]
  BY DEF JudgedCalls
<1> HIDE DEF JudgedCalls
<1> QED
  BY <1>1, <1>2, <1>3 DEF SnapJudgments, BoardInv, StreamInv, Shows, Begun

LEMMA SnapLastKeeps ==
  ASSUME BoardInv, SnapTurns \/ SnapTools
  PROVE  StreamInv'
<1>1. \A cur : IsCursor(cur)' <=> IsCursor(cur)
  BY DEF SnapTurns, SnapTools, IsCursor, Spent
<1>2. CASE SnapTurns
  BY <1>1, <1>2 DEF SnapTurns, BoardInv, StampsInv, StreamInv, Shows, Begun
<1>3. CASE SnapTools
  BY <1>1, <1>3 DEF SnapTools, BoardInv, StampsInv, StreamInv, Shows, Begun
<1> QED
  BY <1>2, <1>3

LEMMA BoardStart == BoardInit => BoardInv
<1> SUFFICES ASSUME BoardInit PROVE BoardInv
  OBVIOUS
<1>1. StampedCalls(NoRows)
  BY DEF StampedCalls, NoRows
<1>2. StampsInv
  BY <1>1, BoardAssumption DEF BoardInit, StampsInv, BoardAssumption, NoRows
<1>3. StreamInv
  BY <1>1, BoardAssumption DEF BoardInit, StreamInv, BoardAssumption, Closed, Begun
<1> QED
  BY <1>2, <1>3 DEF BoardInv

LEMMA CloseKeeps ==
  ASSUME BoardInv, CloseBoard
  PROVE  StreamInv'
<1>1. StampedCalls(NoRows)
  BY DEF StampedCalls, NoRows
<1> QED
  BY <1>1, BoardAssumption DEF CloseBoard, StreamInv, BoardAssumption, Closed, Begun

LEMMA BoardStep == BoardInv /\ [BoardNext]_boardVars => BoardInv'
<1> SUFFICES ASSUME BoardInv, [BoardNext]_boardVars PROVE BoardInv'
  OBVIOUS
<1>1. CASE \E w \in Committer, c \in BoardCall, field \in Field : Stamp(w, c, field)
  BY <1>1, StampKeeps, WriterKeepsStream DEF BoardInv, Stamp
<1>2. CASE \E w \in Committer : CommitStamp(w)
  BY <1>2, CommitStampKeeps, WriterKeepsStream DEF BoardInv, CommitStamp
<1>3. CASE \E c \in BoardCall : EraseCall(c)
  BY <1>3, EraseCallKeeps, WriterKeepsStream DEF BoardInv, EraseCall
<1>4. ASSUME UNCHANGED <<stamp, calls, committing>> PROVE StampsInv'
  BY <1>4 DEF BoardInv, StampsInv, Spent
<1>5. CASE Look \/ LookAtJudged
  BY <1>4, <1>5, LookKeeps, LookAtJudgedKeeps DEF BoardInv, Look, LookAtJudged
<1>6. CASE SnapCalls \/ SnapJudgments \/ SnapTurns \/ SnapTools
  BY <1>4, <1>6, SnapCallsKeeps, SnapJudgmentsKeeps, SnapLastKeeps
  DEF BoardInv, SnapCalls, SnapJudgments, SnapTurns, SnapTools
<1>7. CASE CloseBoard
  BY <1>4, <1>7, CloseKeeps DEF BoardInv, CloseBoard
<1>8. CASE UNCHANGED boardVars
  BY <1>8 DEF boardVars, BoardInv, StampsInv, StreamInv, Spent, IsCursor, Shows, Begun
<1>9. CASE \E c \in BoardCall, start \in StartAt \cup {0} : Rewrite(c, start)
  BY <1>9, RewriteKeeps, WriterKeepsStream DEF BoardInv, Rewrite
<1> QED
  BY <1>1, <1>2, <1>3, <1>5, <1>6, <1>7, <1>8, <1>9 DEF BoardNext

(* The bars of a window.                                                   *)
LEMMA KeyIs ==
  ASSUME NEW t \in Nat
  PROVE  t \div BucketS \in Nat /\ KeyOf(t) \in Nat /\ KeyOf(t) <= t /\ t < KeyOf(t) + BucketS
BY BoardAssumption DEF BoardAssumption, KeyOf

LEMMA KeysApart ==
  ASSUME NEW a \in Nat, NEW b \in Nat, a <= b
  PROVE  KeyOf(a) <= KeyOf(b) /\ (KeyOf(b) - KeyOf(a)) % BucketS = 0
<1>1. BucketS \in Nat \ {0}
  BY BoardAssumption DEF BoardAssumption
<1>2. a \div BucketS \in Nat /\ b \div BucketS \in Nat /\ a \div BucketS <= b \div BucketS
  BY <1>1
<1>3. ASSUME NEW p \in Nat, NEW q \in Nat, p <= q
      PROVE  p * BucketS <= q * BucketS /\ (q * BucketS - p * BucketS) % BucketS = 0
  BY <1>1, <1>3
<1> QED
  BY <1>2, <1>3 DEF KeyOf

LEMMA RowsAreCharted ==
  ASSUME NEW rows, StampedCalls(rows), stream.until \in Nat
  PROVE  Charted(rows)
<1> DEFINE until == stream.until
<1>1. BucketS \in Nat \ {0} /\ Since(until) \in Nat
  BY BoardAssumption DEF BoardAssumption, Since
<1>2. ASSUME NEW c \in InWindow(rows, until), CallTime(rows[c]) <= until
      PROVE  c \in InBars(rows, until)
  <2> DEFINE t == CallTime(rows[c])
  <2>1. t \in Nat /\ Since(until) <= t
    BY <1>1 DEF InWindow, StampedCalls, Field, CallTime
  <2>2. KeyOf(t) \in Nat /\ KeyOf(Since(until)) \in Nat /\ KeyOf(t) <= t
    BY <1>1, <2>1, KeyIs
  <2>3. KeyOf(Since(until)) <= KeyOf(t) /\ (KeyOf(t) - KeyOf(Since(until))) % BucketS = 0
    BY <1>1, <2>1, KeysApart
  <2>4. KeyOf(t) \in BucketKeys(until)
    <3> HIDE DEF t
    <3> QED
      BY <1>1, <1>2, <2>1, <2>2, <2>3 DEF BucketKeys, t
  <2> QED
    BY <1>2, <2>4 DEF InBars, Bar
<1> QED
  BY <1>2 DEF Charted, Bar

LEMMA BoardInvShows == BoardInv => BoardIsLatest
<1> SUFFICES ASSUME BoardInv PROVE BoardIsLatest
  OBVIOUS
<1>1. stream.until \in Nat /\ \A f \in Field : Latest(f) = 0 \/ Spent(Latest(f))
  BY LatestIsSpent, BoardAssumption DEF BoardInv, StreamInv, BoardAssumption
<1>2. Charted(stream.rows) /\ Charted(stream.judged) /\ Charted(stream.last)
  BY <1>1, RowsAreCharted DEF BoardInv, StreamInv
<1>3. ASSUME stream.at = "idle", stream.cur = WithJudged(CursorOfCalls),
             NEW f \in Field, NEW c \in DOMAIN calls, calls[c][f] = Latest(f), Latest(f) > 0
      PROVE  LET shown == IF f = "judged" THEN stream.judged ELSE stream.rows
             IN  c \in DOMAIN shown /\ shown[c][f] = calls[c][f]
  <2>1. stream.cur[f] = Latest(f)
    BY <1>3 DEF WithJudged, CursorOfCalls, Field
  <2>2. Shows(stream.rows, "created") /\ Shows(stream.rows, "activity") /\ Shows(stream.judged, "judged")
    BY <1>3 DEF BoardInv, StreamInv
  <2> QED
    BY <1>3, <2>1, <2>2 DEF Shows, Field
<1>4. InBars(stream.judged, stream.until) \subseteq Dispositions
  BY DEF InBars, Bar, Dispositions
<1> QED
  BY <1>2, <1>3, <1>4 DEF BoardIsLatest

(* The live view of a job.                                                 *)
Called == JobFile \cup OtherCall

Ended == {"done", "failed", "cancelled"}

JobInv ==
  /\ job = [status |-> job.status, completed |-> job.completed, failed |-> job.failed]
  /\ job.completed \in Nat /\ job.failed \in Nat
  /\ hand = [at |-> hand.at, left |-> hand.left]
  /\ hand.at # None => hand.at \in JobFile
  /\ hand.left \subseteq JobFile
  /\ DOMAIN found \subseteq Called
  /\ job.status = "done" => hand.at = None /\ hand.left = {}

ToldAll == JobFile \cap WithResult \subseteq Range(sse.told)

SseInv ==
  /\ sse = [at |-> sse.at, job |-> sse.job, told |-> sse.told, boards |-> sse.boards]
  /\ sse.told \in Seq(Called) /\ IsInjective(sse.told)
  /\ sse.boards \in Nat
  /\ sse.job # None =>
       /\ sse.job.completed \in Nat
       /\ sse.job.status = "done" => job.status = "done"
       /\ sse.at # "calls" => sse.job.completed - sse.boards < BoardsEvery
  /\ sse.at = "calls" => /\ sse.job.completed \in Nat
                         /\ sse.job.status = "done" => job.status = "done"
  /\ sse.at = "ended" /\ sse.job.status = "done" => ToldAll /\ job.status = "done"

ProgressInv == JobInv /\ SseInv

\* What was done is done: the files of a job that is done have the results they have.
LEMMA JobStep ==
  ASSUME JobInv,
         \/ \E f \in JobFile : TakeFile(f)
         \/ AnalyseFile \/ FinishJob \/ CancelJob
         \/ \E c \in OtherCall : IngestOther(c)
  PROVE  /\ JobInv' /\ UNCHANGED sse
         /\ job.status = "done" => job'.status = "done" /\ JobFile \cap WithResult' \subseteq WithResult
<1>1. ASSUME NEW f \in JobFile, TakeFile(f)
      PROVE  /\ JobInv' /\ UNCHANGED sse
             /\ job.status = "done" => job'.status = "done" /\ JobFile \cap WithResult' \subseteq WithResult
  BY <1>1 DEF TakeFile, JobInv
<1>2. CASE AnalyseFile
  <2>1. hand.at \in JobFile /\ hand.at \in Called /\ job.status # "done"
    BY <1>2 DEF AnalyseFile, JobInv, Called
  <2>2. DOMAIN found' \subseteq Called
    BY <1>2, <2>1 DEF AnalyseFile, JobInv, FoundWith
  <2>3. /\ job' = [status |-> job'.status, completed |-> job'.completed, failed |-> job'.failed]
        /\ job'.completed \in Nat /\ job'.failed \in Nat /\ job'.status = job.status
    BY <1>2 DEF AnalyseFile, JobInv
  <2> QED
    BY <1>2, <2>1, <2>2, <2>3 DEF AnalyseFile, JobInv
<1>3. CASE FinishJob
  BY <1>3 DEF FinishJob, JobInv
<1>4. CASE CancelJob
  BY <1>4 DEF CancelJob, JobInv
<1>5. ASSUME NEW c \in OtherCall, IngestOther(c)
      PROVE  /\ JobInv' /\ UNCHANGED sse
             /\ job.status = "done" => job'.status = "done" /\ JobFile \cap WithResult' \subseteq WithResult
  <2>1. DOMAIN found' = DOMAIN found \cup {c} /\ \A d \in DOMAIN found' \ {c} : found'[d] = found[d]
    BY <1>5 DEF IngestOther, FoundWith
  <2>2. c \notin JobFile /\ c \in Called
    BY JobStreamAssumption DEF JobStreamAssumption, Called
  <2>3. JobInv'
    BY <1>5, <2>1, <2>2 DEF IngestOther, JobInv
  <2>4. JobFile \cap WithResult' \subseteq WithResult
    BY <2>1, <2>2 DEF WithResult
  <2> QED
    BY <1>5, <2>3, <2>4 DEF IngestOther
<1> QED
  BY <1>1, <1>2, <1>3, <1>4, <1>5

LEMMA JobKeepsSse ==
  ASSUME SseInv, UNCHANGED sse,
         job.status = "done" => job'.status = "done" /\ JobFile \cap WithResult' \subseteq WithResult
  PROVE  SseInv'
BY DEF SseInv, ToldAll

\* An enumeration of the calls not told yet tells each of them, and none twice.
LEMMA ToldOnce ==
  ASSUME NEW told \in Seq(Called), IsInjective(told), NEW S, S \subseteq Called,
         NEW order \in SetToSeqs(S \ Range(told))
  PROVE  /\ told \o order \in Seq(Called) /\ IsInjective(told \o order)
         /\ S \subseteq Range(told \o order)
<1> DEFINE R == S \ Range(told)
           n == Cardinality(R)
<1>1. IsFiniteSet(R)
  <2>1. IsFiniteSet(Called)
    BY JobStreamAssumption, FS_Union DEF JobStreamAssumption, Called
  <2>2. R \in SUBSET Called
    OBVIOUS
  <2> HIDE DEF R
  <2> QED
    BY <2>1, <2>2, FS_Subset
<1>2. n \in Nat
  BY <1>1, FS_CardinalityType
<1>3. order \in [1 .. n -> R] /\ \A i, j \in 1 .. n : i # j => order[i] # order[j]
  BY DEF SetToSeqs
<1>4. \A x \in R : \E i \in 1 .. n : order[i] = x
  <2> HIDE DEF R
  <2>1. order \in Injection(1 .. n, R)
    BY <1>3 DEF Injection, IsInjective
  <2>2. IsFiniteSet(1 .. n) /\ Cardinality(1 .. n) = n
    BY <1>2, FS_Interval
  <2> HIDE DEF n
  <2>3. Cardinality(1 .. n) = Cardinality(R)
    BY <2>2 DEF n
  <2>4. order \in Surjection(1 .. n, R)
    BY <1>1, <2>1, <2>3, FS_Injection
  <2> QED
    BY <2>4 DEF Surjection
<1>5. order \in Seq(R) /\ order \in Seq(Called) /\ Len(order) = n
  <2> HIDE DEF n
  <2> QED
    BY <1>2, <1>3
<1>6. told \o order \in Seq(Called) /\ Len(told \o order) = Len(told) + n
  BY <1>5
<1>7. \A i \in 1 .. Len(told) : (told \o order)[i] = told[i]
  BY <1>5
<1>8. \A i \in 1 .. n : (told \o order)[Len(told) + i] = order[i]
  BY <1>5
<1>9. \A i \in 1 .. Len(told) + n :
        i \in 1 .. Len(told) \/ \E k \in 1 .. n : i = Len(told) + k
  <2> SUFFICES ASSUME NEW i \in 1 .. Len(told) + n, i \notin 1 .. Len(told)
               PROVE  \E k \in 1 .. n : i = Len(told) + k
    OBVIOUS
  <2>1. i - Len(told) \in 1 .. n /\ i = Len(told) + (i - Len(told))
    BY <1>2
  <2> QED
    BY <2>1
<1>10. DOMAIN told = 1 .. Len(told) /\ DOMAIN (told \o order) = 1 .. Len(told) + n
  BY <1>2, <1>6
<1>11. \A x \in R : x \notin Range(told)
  OBVIOUS
<1>12. \A i \in 1 .. Len(told) : told[i] \in Range(told)
  BY <1>10 DEF Range
<1>13. IsInjective(told \o order)
  <2> SUFFICES ASSUME NEW i \in 1 .. Len(told) + n, NEW j \in 1 .. Len(told) + n,
                      (told \o order)[i] = (told \o order)[j]
               PROVE  i = j
    BY <1>10 DEF IsInjective
  <2> HIDE DEF R, n
  <2>9. ASSUME NEW k \in 1 .. Len(told) + n, k \notin 1 .. Len(told)
        PROVE  \E m \in 1 .. n : k = Len(told) + m /\ (told \o order)[k] = order[m] /\ order[m] \in R
    BY <1>3, <1>8, <1>9, <2>9
  <2>1. CASE i \in 1 .. Len(told) /\ j \in 1 .. Len(told)
    BY <1>7, <1>10, <2>1 DEF IsInjective
  <2>2. CASE i \in 1 .. Len(told) /\ j \notin 1 .. Len(told)
    BY <1>7, <1>11, <1>12, <2>9, <2>2
  <2>3. CASE i \notin 1 .. Len(told) /\ j \in 1 .. Len(told)
    BY <1>7, <1>11, <1>12, <2>9, <2>3
  <2>4. CASE i \notin 1 .. Len(told) /\ j \notin 1 .. Len(told)
    <3>1. PICK k, m \in 1 .. n : /\ i = Len(told) + k /\ (told \o order)[i] = order[k]
                                 /\ j = Len(told) + m /\ (told \o order)[j] = order[m]
      BY <2>9, <2>4
    <3> QED
      BY <1>3, <3>1
  <2> QED
    BY <2>1, <2>2, <2>3, <2>4
<1>14. S \subseteq Range(told \o order)
  <2> SUFFICES ASSUME NEW x \in S PROVE \E i \in 1 .. Len(told) + n : (told \o order)[i] = x
    BY <1>10 DEF Range
  <2>1. CASE x \in Range(told)
    <3>1. PICK i \in 1 .. Len(told) : told[i] = x
      BY <1>10, <2>1 DEF Range
    <3> QED
      BY <1>2, <1>7, <3>1
  <2>2. CASE x \in R
    <3>1. PICK i \in 1 .. n : order[i] = x
      BY <1>4, <2>2
    <3>2. Len(told) + i \in 1 .. Len(told) + n
      BY <1>2
    <3> QED
      BY <1>8, <3>1, <3>2
  <2> QED
    BY <2>1, <2>2
<1> QED
  BY <1>6, <1>13, <1>14

LEMMA ProgressStart == ProgressInit => ProgressInv
<1> SUFFICES ASSUME ProgressInit PROVE ProgressInv
  OBVIOUS
<1>1. JobInv
  BY DEF ProgressInit, JobInv
<1>2. <<>> \in Seq(Called) /\ IsInjective(<<>>)
  BY DEF IsInjective
<1>3. SseInv
  BY <1>2 DEF ProgressInit, SseInv, Unwatched
<1> QED
  BY <1>1, <1>3 DEF ProgressInv

LEMMA TellCallsKeeps ==
  ASSUME ProgressInv, TellCalls
  PROVE  SseInv'
<1>1. PICK order \in SetToSeqs(NewCalls) : sse' =
        [sse EXCEPT !.at = IF sse.job.status \in Ended THEN "ended" ELSE "job",
                    !.told = @ \o order,
                    !.boards = IF sse.job.completed - @ >= BoardsEvery THEN sse.job.completed ELSE @]
  BY DEF TellCalls, Ended
<1>2. WithResult \subseteq Called
  BY DEF ProgressInv, JobInv, WithResult
<1>3. /\ sse.told \o order \in Seq(Called) /\ IsInjective(sse.told \o order)
      /\ WithResult \subseteq Range(sse.told \o order)
  <2>1. order \in SetToSeqs(WithResult \ Range(sse.told)) /\ sse.told \in Seq(Called) /\ IsInjective(sse.told)
    BY DEF NewCalls, ProgressInv, SseInv
  <2> QED
    BY <1>2, <2>1, ToldOnce
<1>4. sse'.told = sse.told \o order /\ sse'.job = sse.job /\ UNCHANGED <<job, found>>
      /\ sse' = [at |-> sse'.at, job |-> sse'.job, told |-> sse'.told, boards |-> sse'.boards]
  BY <1>1 DEF ProgressInv, SseInv, TellCalls
<1>5. sse'.boards = (IF sse.job.completed - sse.boards >= BoardsEvery THEN sse.job.completed ELSE sse.boards)
      /\ sse'.at \in {"ended", "job"}
  BY <1>1 DEF ProgressInv, SseInv
<1>6. sse.job.completed \in Nat /\ sse.boards \in Nat /\ sse.at = "calls"
      /\ (sse.job.status = "done" => job.status = "done")
  BY DEF ProgressInv, SseInv, TellCalls
<1>7. sse'.boards \in Nat /\ sse'.job.completed - sse'.boards < BoardsEvery
  BY <1>4, <1>5, <1>6, JobStreamAssumption DEF JobStreamAssumption
<1>8. ToldAll'
  BY <1>3, <1>4 DEF ToldAll, WithResult
<1> QED
  BY <1>3, <1>4, <1>5, <1>6, <1>7, <1>8 DEF SseInv

LEMMA ProgressStep == ProgressInv /\ [ProgressNext]_progressVars => ProgressInv'
<1> SUFFICES ASSUME ProgressInv, [ProgressNext]_progressVars PROVE ProgressInv'
  OBVIOUS
<1>1. CASE \/ \E f \in JobFile : TakeFile(f)
           \/ AnalyseFile \/ FinishJob \/ CancelJob
           \/ \E c \in OtherCall : IngestOther(c)
  BY <1>1, JobStep, JobKeepsSse DEF ProgressInv
<1>2. ASSUME UNCHANGED <<job, hand, found>> PROVE JobInv'
  BY <1>2 DEF ProgressInv, JobInv
<1>3. <<>> \in Seq(Called) /\ IsInjective(<<>>)
  BY DEF IsInjective
<1>4. CASE Watch
  BY <1>2, <1>3, <1>4 DEF Watch, Unwatched, ProgressInv, SseInv
<1>5. CASE WatchJob
  BY <1>2, <1>5 DEF WatchJob, ProgressInv, JobInv, SseInv
<1>6. CASE TellCalls
  BY <1>2, <1>6, TellCallsKeeps DEF TellCalls, ProgressInv
<1>7. CASE LeaveJob
  BY <1>2, <1>3, <1>7 DEF LeaveJob, Unwatched, ProgressInv, SseInv
<1>8. CASE UNCHANGED progressVars
  BY <1>8 DEF progressVars, ProgressInv, JobInv, SseInv, ToldAll, WithResult
<1> QED
  BY <1>1, <1>4, <1>5, <1>6, <1>7, <1>8 DEF ProgressNext

\* api/boards.py _stream and build_snapshot, api/backfill.py _stream: whatever is stamped,
\* committed late, rewritten, erased or ingested in between, a board at rest shows what was
\* ingested or judged last and charts its window, and a stream of a job that is done has
\* told every result.
THEOREM StreamsTold == BoardSpec /\ ProgressSpec => []LatestIsShown
<1>1. BoardInv => BoardIsLatest
  BY BoardInvShows
<1>2. ProgressInv => NothingUntold
  BY DEF ProgressInv, SseInv, NothingUntold, ToldAll
<1>3. BoardInv /\ ProgressInv => LatestIsShown
  BY <1>1, <1>2 DEF LatestIsShown
<1> QED
  BY BoardStart, BoardStep, ProgressStart, ProgressStep, <1>3, PTL DEF BoardSpec, ProgressSpec
=============================================================================
