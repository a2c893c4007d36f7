----------------------------- MODULE Accounts -----------------------------
(***************************************************************************)
(* The people of the default organisation: how the first owner comes to be *)
(* (signup, auth/__main__.py bootstrap, the development login), and how    *)
(* members are invited, promoted, granted agents and removed (api/orgs.py).*)
(* The three ways to the first owner are transactions that read the user   *)
(* table first and commit later; each other request is one step.           *)
(***************************************************************************)
EXTENDS Integers, FiniteSets, NoValue

CONSTANTS Founder, Guest, Agent

(* Who is invited has another email than who founds.                        *)
ASSUME AccountAssumption == Founder \cap Guest = {}

VARIABLES org, users, members, grants, invites, founding

accountVars == <<org, users, members, grants, invites, founding>>

(* A user is known by its email: each way to the first owner brings its own. *)
Person == Founder \cup Guest
Role == {"owner", "admin", "viewer"}

AccountInit ==
  /\ org = FALSE /\ users = [p \in {} |-> None] /\ members = [p \in {} |-> None]
  /\ grants = {} /\ invites = {} /\ founding = [f \in Founder |-> None]

With(f, p, v) == [x \in DOMAIN f \cup {p} |-> IF x = p THEN v ELSE f[x]]
Without(f, p) == [x \in DOMAIN f \ {p} |-> f[x]]

-----------------------------------------------------------------------------
(* provision_org finds or inserts the one organisation, whose key is fixed; *)
(* signup and bootstrap then count the users, as the login page has done,   *)
(* and the development login looks for its own email.                       *)
SignupOpen == users = <<>>
DevMissing == "dev" \notin DOMAIN users

Open(f) == IF f = "dev" THEN DevMissing ELSE SignupOpen

Begin(f) ==
  /\ founding[f] = None /\ Open(f)
  /\ founding' = [founding EXCEPT ![f] = IF org THEN "adopts" ELSE "inserts"]
  /\ UNCHANGED <<org, users, members, grants, invites>>

EmailTaken(f) == f \in DOMAIN users

(* The organisation was inserted by another meanwhile, or the email was.    *)
Taken(f) == (founding[f] = "inserts" /\ org) \/ f \in DOMAIN users

Found(f) ==
  /\ founding[f] # None /\ ~Taken(f)
  /\ org' = TRUE /\ users' = With(users, f, "active") /\ members' = With(members, f, "owner")
  /\ founding' = [founding EXCEPT ![f] = None]
  /\ UNCHANGED <<grants, invites>>

FoundFails(f) ==
  /\ founding[f] # None /\ Taken(f)
  /\ founding' = [founding EXCEPT ![f] = None]
  /\ UNCHANGED <<org, users, members, grants, invites>>

-----------------------------------------------------------------------------
(* Who acts has signed in, which takes a password, and stays so after the   *)
(* membership has gone.                                                     *)
SignedIn(p) == p \in DOMAIN users /\ users[p] = "active"

Admin(p) == SignedIn(p) /\ p \in DOMAIN members /\ members[p] \in {"owner", "admin"}

(* A new person gets a stub, without a password, and an invite; a person    *)
(* known here, but no member any more, is a member again.                   *)
AddMember(by, p, role) ==
  /\ Admin(by) /\ p \in Guest \cup DOMAIN users /\ p \notin DOMAIN members
  /\ members' = With(members, p, role)
  /\ IF p \in DOMAIN users THEN UNCHANGED <<users, invites>>
     ELSE users' = With(users, p, "stub") /\ invites' = invites \cup {p}
  /\ UNCHANGED <<org, grants, founding>>

(* The signed invite outlives the membership and its own use.               *)
AcceptInvite(p) ==
  /\ p \in invites /\ users' = [users EXCEPT ![p] = "active"]
  /\ UNCHANGED <<org, members, grants, invites, founding>>

SetRole(by, p, role) ==
  /\ Admin(by) /\ p \in DOMAIN members /\ members' = [members EXCEPT ![p] = role]
  /\ UNCHANGED <<org, users, grants, invites, founding>>

(* A membership that has grants cannot go: they refer to it.                *)
RemoveMember(by, p) ==
  /\ Admin(by) /\ p \in DOMAIN members /\ ~\E a \in Agent : <<p, a>> \in grants
  /\ members' = Without(members, p)
  /\ UNCHANGED <<org, users, grants, invites, founding>>

SetAgentAccess(by, p, agents) ==
  /\ Admin(by) /\ p \in DOMAIN members
  /\ grants' = {g \in grants : g[1] # p} \cup ({p} \X agents)
  /\ UNCHANGED <<org, users, members, invites, founding>>

AccountNext ==
  \/ \E f \in Founder : Begin(f) \/ Found(f) \/ FoundFails(f)
  \/ \E by, p \in Person :
       \/ \E role \in Role : SetRole(by, p, role) \/ AddMember(by, p, role)
       \/ RemoveMember(by, p)
       \/ \E agents \in SUBSET Agent : SetAgentAccess(by, p, agents)
  \/ \E p \in Guest : AcceptInvite(p)

AccountSpec == AccountInit /\ [][AccountNext]_accountVars

-----------------------------------------------------------------------------
(* Signup is open only on a fresh install: of the ways to the first owner   *)
(* at most one succeeds, however they overlap, apart from the development   *)
(* login, which adds its own account to an organisation that has users.     *)
FirstOwnerOnly == Cardinality((Founder \ {"dev"}) \cap DOMAIN users) <= 1
=============================================================================
