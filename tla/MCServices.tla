---------------------------- MODULE MCServices ----------------------------
(***************************************************************************)
(* The services around the pipeline, each on a small instance.  They share *)
(* no state here: part says which of them a behaviour is about, and the    *)
(* variables of the others stay as they are.                               *)
(***************************************************************************)
EXTENDS Judging, Accounts, Sessions, Agents, TokenCache, Ingest, Poller, Clusters,
        Threads, Limits, Scope, Streams, TLC

CONSTANT Part

VARIABLE part

vars == <<part, judgingVars, pollerVars, accountVars, sessionVars, agentVars, ingestVars,
          tokenVars, threadVars, clusterVars, boardVars, progressVars, limitVars, scopeVars>>

MCAgentOf == [c \in Call |-> IF c = "d" THEN "a2" ELSE "a1"]

-----------------------------------------------------------------------------
(* The clients that send requests at once, and the calls on a board, can be *)
(* told apart by nothing.                                                   *)
Sym == Permutations(Visitor) \cup Permutations(BoardCall)

Init ==
  /\ part \in Part
  /\ JudgingInit /\ (part # "judging" => call.spoke /\ call.required)
  /\ PollerInit /\ AccountInit /\ SessionInit /\ AgentInit
  /\ IngestInit /\ (part # "ingest" => receiver = "go")
  /\ TokenInit /\ ThreadInit /\ ClusterInit /\ BoardInit
  /\ ProgressInit /\ LimitInit /\ ScopeInit

Unchanged(p) ==
  /\ p # "judging" => UNCHANGED judgingVars
  /\ p # "poller" => UNCHANGED pollerVars
  /\ p # "accounts" => UNCHANGED accountVars
  /\ p # "sessions" => UNCHANGED sessionVars
  /\ p # "agents" => UNCHANGED agentVars
  /\ p # "ingest" => UNCHANGED ingestVars
  /\ p # "tokens" => UNCHANGED tokenVars
  /\ p # "threads" => UNCHANGED threadVars
  /\ p # "clusters" => UNCHANGED clusterVars
  /\ p # "boards" => UNCHANGED boardVars
  /\ p # "progress" => UNCHANGED progressVars
  /\ p # "limits" => UNCHANGED limitVars
  /\ p # "scope" => UNCHANGED scopeVars

Next ==
  \/ part = "judging" /\ JudgingNext /\ Unchanged(part) /\ UNCHANGED part
  \/ part = "poller" /\ PollerNext /\ Unchanged(part) /\ UNCHANGED part
  \/ part = "accounts" /\ AccountNext /\ Unchanged(part) /\ UNCHANGED part
  \/ part = "sessions" /\ SessionNext /\ Unchanged(part) /\ UNCHANGED part
  \/ part = "agents" /\ AgentNext /\ Unchanged(part) /\ UNCHANGED part
  \/ part = "ingest" /\ IngestNext /\ Unchanged(part) /\ UNCHANGED part
  \/ part = "tokens" /\ TokenNext /\ Unchanged(part) /\ UNCHANGED part
  \/ part = "threads" /\ ThreadNext /\ Unchanged(part) /\ UNCHANGED part
  \/ part = "clusters" /\ ClusterNext /\ Unchanged(part) /\ UNCHANGED part
  \/ part = "boards" /\ BoardNext /\ Unchanged(part) /\ UNCHANGED part
  \/ part = "progress" /\ ProgressNext /\ Unchanged(part) /\ UNCHANGED part
  \/ part = "limits" /\ LimitNext /\ Unchanged(part) /\ UNCHANGED part
  \/ part = "scope" /\ ScopeNext /\ Unchanged(part) /\ UNCHANGED part

Spec == Init /\ [][Next]_vars
=============================================================================
