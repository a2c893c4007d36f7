------------------------------ MODULE Agents ------------------------------
(***************************************************************************)
(* One agent, the versions of its script and its other child rows          *)
(* (api/agents.py, api/ingest_config.py; the guardrails are the script     *)
(* again in a table of their own).  Setting the script is a transaction of *)
(* several statements, each of which sees what others committed before it: *)
(* it selects the active version, deactivates it (waiting for whoever does *)
(* the same), selects the highest version and inserts the next.            *)
(***************************************************************************)
EXTENDS Integers, FiniteSets, NoValue

CONSTANTS Text, Writer, MaxVersion

VARIABLES agent, versions, children, writing

agentVars == <<agent, versions, children, writing>>

Child == {"access", "token", "audioConfig", "mapping", "params", "manifest"}

AgentInit ==
  /\ agent = "unborn" /\ versions = {} /\ children = {}
  /\ writing = [w \in Writer |-> None]

Version(n, text) == [version |-> n, text |-> text, active |-> TRUE]

LastVersion ==
  IF versions = {} THEN 0
  ELSE CHOOSE n \in {v.version : v \in versions} : \A v \in versions : v.version <= n

Idle(w) == writing' = [writing EXCEPT ![w] = None]

-----------------------------------------------------------------------------
(* create_agent, with a script or without, with an audio configuration or   *)
(* without.                                                                 *)
Create ==
  /\ agent = "unborn" /\ agent' = "live"
  /\ \E text \in Text \cup {None} :
       versions' = IF text = None THEN {} ELSE {Version(1, text)}
  /\ children' \in SUBSET {"audioConfig"}
  /\ UNCHANGED writing

(* The version in force, as whoever reads it may get it: one of the active  *)
(* ones, or none.                                                           *)
InForce == IF \E v \in versions : v.active THEN {v \in versions : v.active} ELSE {None}

(* set_agent_script: the text may be the one of the version in force.       *)
ReadActive(w, text) ==
  /\ agent = "live" /\ writing[w] = None
  /\ \E old \in InForce :
       /\ old # None => old.text # text
       /\ writing' = [writing EXCEPT ![w] =
            [step |-> IF old = None THEN "count" ELSE "deactivate",
             text |-> text, old |-> IF old = None THEN 0 ELSE old.version, last |-> 0]]
  /\ UNCHANGED <<agent, versions, children>>

Locked(n) == \E w \in Writer : writing[w] # None /\ writing[w].step # "deactivate" /\ writing[w].old = n

(* The update waits while another transaction holds the row.                *)
Deactivate(w) ==
  /\ writing[w] # None /\ writing[w].step = "deactivate" /\ ~Locked(writing[w].old)
  /\ writing' = [writing EXCEPT ![w].step = "count"]
  /\ UNCHANGED <<agent, versions, children>>

Count(w) ==
  /\ writing[w] # None /\ writing[w].step = "count"
  /\ writing' = [writing EXCEPT ![w].step = "insert", ![w].last = LastVersion]
  /\ UNCHANGED <<agent, versions, children>>

(* The agent is gone, the row to deactivate is, or the version number is    *)
(* taken (uq_agent_script_version): nothing of the transaction stays.       *)
Gone(w) == agent = "gone" \/ \A v \in versions : v.version # writing[w].old /\ writing[w].old # 0

VersionConflict(w) == Gone(w) \/ \E v \in versions : v.version = writing[w].last + 1

Insert(w) ==
  /\ writing[w] # None /\ writing[w].step = "insert" /\ ~VersionConflict(w)
  /\ writing[w].last < MaxVersion
  /\ versions' = {[v EXCEPT !.active = @ /\ v.version # writing[w].old] : v \in versions}
                   \cup {Version(writing[w].last + 1, writing[w].text)}
  /\ Idle(w)
  /\ UNCHANGED <<agent, children>>

InsertFails(w) ==
  /\ writing[w] # None /\ writing[w].step = "insert" /\ VersionConflict(w)
  /\ Idle(w)
  /\ UNCHANGED <<agent, versions, children>>

(* One request to set the script, statement by statement.                   *)
SetScript(w) ==
  Deactivate(w) \/ Count(w) \/ Insert(w) \/ InsertFails(w) \/ \E text \in Text : ReadActive(w, text)

(* The other child rows: each endpoint finds the agent, then inserts a row  *)
(* or replaces the one there is.                                            *)
Keep(rows) ==
  /\ agent = "live" /\ children' = rows
  /\ UNCHANGED <<agent, versions, writing>>

Upserted(c) == children \cup {c}

CreateToken == Keep(Upserted("token"))

SetAudioConfig == Keep(Upserted("audioConfig"))

SetOtlpMapping == Keep(Upserted("mapping"))

PutManifest == Keep(Upserted("manifest"))

UploadParams == Keep(Upserted("params"))

(* The rows of the last upload.                                             *)
DeleteParams == Keep(children \ {"params"})

(* The grants of a member are replaced: the agent is among them, or nobody  *)
(* has it any more.                                                         *)
SetAccess == Keep(Upserted("access")) \/ Keep(children \ {"access"})

(* delete_agent removes the children it names, then the agent: it waits for *)
(* whoever holds a version, and fails on a child it does not name.          *)
Named == Child \ {"manifest"}

Delete ==
  /\ agent = "live" /\ children \subseteq Named /\ ~\E v \in versions : Locked(v.version)
  /\ agent' = "gone" /\ versions' = {} /\ children' = {}
  /\ UNCHANGED writing

AgentNext ==
  \/ Create \/ Delete
  \/ CreateToken \/ SetAudioConfig \/ SetOtlpMapping \/ PutManifest
  \/ UploadParams \/ DeleteParams \/ SetAccess
  \/ \E w \in Writer : SetScript(w)

AgentSpec == AgentInit /\ [][AgentNext]_agentVars

-----------------------------------------------------------------------------
(* A version number names one script, so that a call judged under it can be *)
(* read back, the numbers have no gap, and the newest is in force, however  *)
(* many writers overlap.                                                    *)
VersionNamesOneScript ==
  /\ \A v, u \in versions : v.version = u.version => v = u
  /\ {v.version : v \in versions} = 1 .. LastVersion
  /\ \A v \in versions : v.version = LastVersion => v.active

(* models.py:616-617, "Exactly one active row per agent (enforced in code)". *)
ExactlyOneActive == versions # {} => Cardinality({v \in versions : v.active}) = 1
=============================================================================
