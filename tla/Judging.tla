------------------------------ MODULE Judging ------------------------------
(***************************************************************************)
(* The judging of one call: the two request topics, the judge worker that  *)
(* drains them (worker/judge.py), the API that judges on demand            *)
(* (api/judge.py), judge_call itself (judge/run.py) and the upload of the  *)
(* per-call parameters that gates it (api/agents.py).  A judge works on    *)
(* the row it loaded and writes, at its commit, the columns it changed.    *)
(***************************************************************************)
EXTENDS Integers, NoValue

CONSTANTS Judge, MaxRequests, MaxAttempts

(* A nullable boolean column has three values.                              *)
ASSUME JudgingAssumption == None \notin BOOLEAN

VARIABLES call, row, requests, uploading, judging, sent

judgingVars == <<call, row, requests, uploading, judging, sent>>

Worker == Judge \ {"api"}

(* The judgment row of a call nobody has judged yet.                        *)
Unjudged == [disposition |-> None, status |-> "skipped", error |-> None,
             objective |-> None, violation |-> None, points |-> None,
             isFailure |-> None, rootCause |-> None, fault |-> None, corrections |-> None]

JudgingInit ==
  /\ call \in [exists : {TRUE}, spoke : BOOLEAN, talked : {TRUE}, byo : {None},
                required : BOOLEAN, params : {FALSE}]
  /\ row = None /\ uploading = FALSE /\ sent = 0
  /\ requests = [realtime |-> 0, backfill |-> 0]
  /\ judging = [w \in Judge |-> None]

-----------------------------------------------------------------------------
(* What the models answer.  The reply has failed once every attempt did,    *)
(* and is skipped, as the analysis is None, where no model is configured.   *)
NoReply(status, error) ==
  [status |-> status, error |-> error, objective |-> None, violation |-> None, points |-> None]

Refused == {NoReply("skipped", None), NoReply("failed", "error")}

(* JudgeOutput: an objective out of the vocabulary is the fallback, and     *)
(* points without a violation are dropped.                                  *)
Valid(answer) ==
  [answer EXCEPT !.objective = IF @ \in {"achieved", "partial"} THEN @ ELSE "not_achieved",
                 !.points = @ /\ answer.violation]

Replies == Refused \cup {Valid(a) : a \in [status : {"ok"}, error : {None}, points : {TRUE},
                                           objective : {"achieved", "poor"}, violation : BOOLEAN]}

(* FailureAnalysis: what is not said to be a failure has no root cause, and *)
(* corrections are kept for a fault of the LLM only.                        *)
Clean(analysis) ==
  LET a == IF analysis.isFailure THEN analysis
           ELSE [analysis EXCEPT !.rootCause = None, !.fault = "none"]
  IN [a EXCEPT !.corrections = @ /\ a.fault = "llm"]

Analyses == {None} \cup {Clean(a) : a \in [isFailure : BOOLEAN, rootCause : {"r1", "r2"},
                                            fault : {"asr", "llm"}, corrections : {TRUE}]}

NoFailure == [isFailure |-> FALSE, rootCause |-> None, fault |-> "none", corrections |-> FALSE]

Flags(reply) ==
  reply.status = "ok" /\ (reply.violation \/ reply.objective \in {"not_achieved", "partial"})

(* resolve: the caller speaks in the transcript that was uploaded or, if    *)
(* none was, in the one derived from the turns.                             *)
Spoke(c) == IF c.byo = None THEN c.spoke ELSE c.byo

Disposition(c) ==
  CASE Spoke(c) -> "connected" [] ~Spoke(c) /\ c.talked -> "unknown" [] OTHER -> "no_answer"

(* The agent wants the parameters of a call before it is judged, and there  *)
(* are none.                                                                *)
AwaitsParams(c) == c.required /\ ~c.params

-----------------------------------------------------------------------------
(* judge_call: the row it leaves, given the row it found and the replies.   *)
ClearedReply(j) == [j EXCEPT !.objective = None, !.violation = None, !.points = None]
ClearedButFailure(j) == ClearedReply(j)

Cleared(j) == [ClearedReply(j) EXCEPT !.isFailure = None, !.rootCause = None,
                                      !.fault = None, !.corrections = None]

WithReply(j, reply) == [f \in DOMAIN j |-> IF f \in DOMAIN reply THEN reply[f] ELSE j[f]]

ApplyFailure(j, f) ==
  [j EXCEPT !.isFailure = f.isFailure, !.rootCause = f.rootCause,
            !.fault = f.fault, !.corrections = f.corrections]

WithFailure(j, reply, analysis) ==
  ApplyFailure(j, IF ~Flags(reply) \/ analysis = None THEN NoFailure
                  ELSE [analysis EXCEPT !.isFailure = TRUE])

Judged(found, c, reply, analysis) ==
  LET j == [found EXCEPT !.disposition = Disposition(c)] IN
  IF ~Spoke(c) THEN [Cleared(j) EXCEPT !.status = "skipped"]
  ELSE IF AwaitsParams(c)
  THEN [Cleared(j) EXCEPT !.status = "skipped", !.error = "no_params"]
  ELSE WithFailure(WithReply(j, reply), reply, analysis)

(* Of the row only the columns that differ from the one loaded are written. *)
Written(loaded, next) ==
  [f \in DOMAIN next |-> IF next[f] = loaded[f] THEN row[f] ELSE next[f]]

-----------------------------------------------------------------------------
(* The analysis worker stores a transcript and, having committed, asks.     *)
Analysed ==
  /\ call.exists /\ sent < MaxRequests
  /\ \E spoke \in BOOLEAN : call' = [call EXCEPT !.spoke = spoke]
  /\ sent' = sent + 1 /\ requests' = [requests EXCEPT !.realtime = @ + 1]
  /\ UNCHANGED <<row, uploading, judging>>

(* A producer's own transcript replaces the one before; nobody is asked to  *)
(* judge again.                                                             *)
UploadTranscript ==
  /\ call.exists /\ \E spoke \in BOOLEAN : call' = [call EXCEPT !.byo = spoke]
  /\ UNCHANGED <<row, requests, uploading, judging, sent>>

(* upload_call_params asks for the calls it unblocks and commits afterwards. *)
Upload ==
  /\ ~uploading /\ sent < MaxRequests
  /\ uploading' = TRUE
  /\ IF call.exists THEN sent' = sent + 1 /\ requests' = [requests EXCEPT !.backfill = @ + 1]
     ELSE UNCHANGED <<sent, requests>>
  /\ UNCHANGED <<call, row, judging>>

UploadCommit ==
  /\ uploading /\ uploading' = FALSE
  /\ call' = [call EXCEPT !.params = TRUE]
  /\ UNCHANGED <<row, requests, judging, sent>>

DeleteCallParams ==
  /\ call.params /\ call' = [call EXCEPT !.params = FALSE]
  /\ UNCHANGED <<row, requests, uploading, judging, sent>>

SetParamsRequired ==
  /\ call' = [call EXCEPT !.required = ~@]
  /\ UNCHANGED <<row, requests, uploading, judging, sent>>

Erase ==
  /\ call.exists /\ call' = [call EXCEPT !.exists = FALSE] /\ row' = None
  /\ UNCHANGED <<requests, uploading, judging, sent>>

(* A judge loads the call, its transcript, its parameters and its row, and  *)
(* asks the models; a call that is gone is skipped.                         *)
Load(w, topic, tries) ==
  \E reply \in Replies, analysis \in Analyses :
    LET found == IF row = None THEN Unjudged ELSE row IN
    judging' = [judging EXCEPT ![w] =
      IF call.exists THEN [loaded |-> row, next |-> Judged(found, call, reply, analysis),
                           topic |-> topic, tries |-> tries]
      ELSE None]

Poll(w, topic) ==
  /\ judging[w] = None /\ requests[topic] > 0
  /\ topic = "backfill" => requests.realtime = 0
  /\ requests' = [requests EXCEPT ![topic] = @ - 1]
  /\ Load(w, topic, 1)
  /\ UNCHANGED <<call, row, uploading, sent>>

RunJudge ==
  /\ "api" \in Judge /\ judging["api"] = None /\ call.exists
  /\ Load("api", None, MaxAttempts)
  /\ UNCHANGED <<call, row, requests, uploading, sent>>

(* A row inserted meanwhile is a duplicate, one deleted meanwhile is stale. *)
Conflict(w) == (judging[w].loaded = None) # (row = None) \/ ~call.exists

Commit(w) ==
  /\ judging[w] # None /\ ~Conflict(w)
  /\ row' = IF row = None THEN judging[w].next ELSE Written(judging[w].loaded, judging[w].next)
  /\ judging' = [judging EXCEPT ![w] = None]
  /\ UNCHANGED <<call, requests, uploading, sent>>

(* Retried up to the limit, then the record is a dead letter (or a 500).    *)
Rollback(w) ==
  /\ judging[w] # None /\ Conflict(w)
  /\ IF judging[w].tries < MaxAttempts THEN Load(w, judging[w].topic, judging[w].tries + 1)
     ELSE judging' = [judging EXCEPT ![w] = None]
  /\ UNCHANGED <<call, row, requests, uploading, sent>>

(* A worker that dies before its offset is committed reads the record again. *)
Crash(w) ==
  /\ judging[w] # None /\ judging' = [judging EXCEPT ![w] = None]
  /\ requests' = [requests EXCEPT ![judging[w].topic] = @ + 1]
  /\ UNCHANGED <<call, row, uploading, sent>>

JudgingNext ==
  \/ Analysed \/ UploadTranscript \/ Upload \/ UploadCommit \/ DeleteCallParams \/ SetParamsRequired \/ Erase \/ RunJudge
  \/ \E w \in Worker : Crash(w) \/ \E topic \in {"realtime", "backfill"} : Poll(w, topic)
  \/ \E w \in Judge : Commit(w) \/ Rollback(w)

JudgingSpec == JudgingInit /\ [][JudgingNext]_judgingVars

-----------------------------------------------------------------------------
(* chat/schema_doc.py:58, "Failure fields are non-null only when is_failure *)
(* = true."                                                                 *)
FailureFieldsOnlyOnFailure ==
  row # None => (row.rootCause # None \/ row.corrections = TRUE => row.isFailure = TRUE)

(* A judgment is of one reply, whatever the call was judged before and      *)
(* however its judging was retried: it says failure only if the objective   *)
(* and the guardrails it shows do, only then gives a cause, and only of a   *)
(* judgment that was made.                                                  *)
JudgmentIsWhole ==
  row # None =>
    /\ row.isFailure = TRUE =>
         row.status = "ok" /\ (row.violation = TRUE \/ row.objective \in {"not_achieved", "partial"})
    /\ FailureFieldsOnlyOnFailure
    /\ row.objective # None => row.status = "ok" /\ row.disposition = "connected"
=============================================================================
