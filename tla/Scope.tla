------------------------------- MODULE Scope -------------------------------
(***************************************************************************)
(* Who sees which calls: the membership's visible agents (auth/deps.py),   *)
(* the clauses each reading endpoint adds (api/boards.py, clusters.py,     *)
(* export.py, read.py), and the views the chat's SQL runs over             *)
(* (db/agent_views.py), scoped by settings of its transaction              *)
(* (chat/sql.py, tools.py).  An agent column may be NULL.                  *)
(***************************************************************************)
EXTENDS NoValue

CONSTANTS AgentId, CallKey

(* A member of the organisation with its role and grants, and the calls.    *)
VARIABLES member, listed

scopeVars == <<member, listed>>

ScopeInit == member = [role |-> "viewer", grants |-> {}] /\ listed = {}

SetMemberRole(role) ==
  member' = [member EXCEPT !.role = role] /\ UNCHANGED listed

SetGrants(ids) ==
  member' = [member EXCEPT !.grants = ids] /\ UNCHANGED listed

(* A call comes in, of an agent or of none; an id comes once.               *)
ListCall(id, agent) ==
  /\ \A c \in listed : c.id # id
  /\ listed' = listed \cup {[id |-> id, agent |-> agent]} /\ UNCHANGED member

ScopeNext ==
  \/ \E role \in {"owner", "admin", "viewer"} : SetMemberRole(role)
  \/ \E ids \in SUBSET AgentId : SetGrants(ids)
  \/ \E id \in CallKey, agent \in AgentId \cup {None} : ListCall(id, agent)

ScopeSpec == ScopeInit /\ [][ScopeNext]_scopeVars

-----------------------------------------------------------------------------
(* The code's None, which the SQL settings write as a star.                 *)
AllAgents == None

(* visible_agent_ids: no restriction for an admin, and for whoever has no   *)
(* grant.                                                                   *)
VisibleAgentIds(m) ==
  IF m.role \in {"owner", "admin"} \/ m.grants = {} THEN AllAgents ELSE m.grants

(* IN, and the check of get_scoped_call: NULL is in no list.                *)
In(agent, ids) == ids = AllAgents \/ agent \in ids

(* _scope: the membership's agents, then the filter the request names.      *)
FilteredOnly(calls, m, agent) ==
  {c \in calls : IF agent = None THEN In(c.agent, VisibleAgentIds(m)) ELSE c.agent = agent}

Scoped(calls, m, agent) ==
  {c \in calls : In(c.agent, VisibleAgentIds(m)) /\ (agent = None \/ c.agent = agent)}

(* get_scoped_call: the call of an id, or 404.                              *)
ScopedCall(calls, m, id) == {c \in calls : c.id = id /\ In(c.agent, VisibleAgentIds(m))}

-----------------------------------------------------------------------------
(* _agent_member and _call_match, over the settings of the transaction: the *)
(* visible agents, and the bound call or None.                              *)
AgentMember(agent, settings) == In(agent, settings.agents)
CallMatch(call, settings) == settings.call = None \/ call = settings.call

(* _predicate, by the scope kind of the view.                               *)
Admits(scope, row, calls, settings) ==
  CASE scope = "call" -> AgentMember(row.agent, settings) /\ CallMatch(row.id, settings)
    [] scope = "agent" -> AgentMember(row.id, settings)
    [] scope = "own_call" -> AgentMember(row.agent, settings) /\ CallMatch(row.call, settings)
    [] scope = "own" -> AgentMember(row.agent, settings)
    [] scope = "via_call" ->
         \E c \in calls : /\ c.id = row.call
                          /\ AgentMember(c.agent, settings) /\ CallMatch(c.id, settings)

ViewRows(scope, rows, calls, settings) == {r \in rows : Admits(scope, r, calls, settings)}

(* execute_sql: the settings of a chat of m, about a call or about all.     *)
Settings(m, call) == [agents |-> VisibleAgentIds(m), call |-> call]

-----------------------------------------------------------------------------
(* What the chat's SQL can read is what the endpoints show: of all calls    *)
(* the same ones, of a bound call that call or nothing, and of the tables   *)
(* keyed by a call or an agent the rows of those; a filter never widens     *)
(* what a membership sees.                                                  *)
Shown == Scoped(listed, member, None)

Bound(id) == IF id = None THEN Shown ELSE ScopedCall(listed, member, id)

Turns == {[call |-> c.id] : c \in listed}
Placed == {[call |-> c.id, agent |-> c.agent] : c \in listed}

Ids(rows) == {r.id : r \in rows}
CallsOf(scope, rows, id) == {r.call : r \in ViewRows(scope, rows, listed, Settings(member, id))}

Agents == {[id |-> a, agent |-> a] : a \in AgentId}
AgentView(scope) == ViewRows(scope, Agents, listed, Settings(member, None))

ChatSeesWhatApiShows ==
  /\ \A a \in AgentId : Scoped(listed, member, a) \subseteq Shown
  /\ \A id \in Ids(listed) \cup {None} :
       /\ ViewRows("call", listed, listed, Settings(member, id)) = Bound(id)
       /\ CallsOf("via_call", Turns, id) = Ids(Bound(id))
       /\ CallsOf("own_call", Placed, id) = Ids(Bound(id))
  /\ AgentView("agent") = AgentView("own")
  /\ \A a \in AgentId :
       (\E c \in Shown : c.agent = a) => [id |-> a, agent |-> a] \in AgentView("agent")
=============================================================================
