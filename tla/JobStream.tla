----------------------------- MODULE JobStream -----------------------------
(***************************************************************************)
(* The live view of a backfill job (api/backfill.py _stream, _new_calls):  *)
(* each turn reads the job, tells its progress, then reads the calls and   *)
(* tells those it has not told yet, and ends with a job that has ended.    *)
(* The job (worker/backfill.py run_job; module Backfill has its detail)    *)
(* commits a call and its counter together; other calls of the agent come  *)
(* in meanwhile.                                                           *)
(***************************************************************************)
EXTENDS Integers, Sequences, SequencesExt, NoValue

CONSTANTS
  JobFile,      \* the files of the job, each named as the call it makes
  OtherCall,    \* calls of the agent that come in otherwise
  BoardsEvery   \* completed files between two snapshots of the boards

ASSUME JobStreamAssumption ==
  /\ IsFiniteSet(JobFile) /\ IsFiniteSet(OtherCall) /\ JobFile \cap OtherCall = {}
  /\ BoardsEvery \in Nat \ {0}

VARIABLES
  job,          \* its row
  hand,         \* the file run_job is at, and those it has not taken
  found,        \* the calls created since the job was, by id
  sse           \* the stream: the job as last read, the calls told

progressVars == <<job, hand, found, sse>>

Unwatched == [at |-> "closed", job |-> None, told |-> <<>>, boards |-> 0]

ProgressInit ==
  /\ job = [status |-> "running", completed |-> 0, failed |-> 0]
  /\ hand = [at |-> None, left |-> JobFile] /\ found = [c \in {} |-> None]
  /\ sse = Unwatched

FoundWith(id, status) ==
  [c \in DOMAIN found \cup {id} |-> IF c = id THEN status ELSE found[c]]

-----------------------------------------------------------------------------
(* A cancelled job takes no further file.                                   *)
TakeFile(f) ==
  /\ hand.at = None /\ f \in hand.left /\ job.status = "running"
  /\ hand' = [at |-> f, left |-> hand.left \ {f}]
  /\ UNCHANGED <<job, found, sse>>

(* A call analysed without audio stays as ingestion left it; a file that    *)
(* raised may leave no call, or one that has no result.  The call of a file *)
(* may be older than the job: analysed or failed, it is not among those     *)
(* created since.                                                           *)
AnalyseFile ==
  /\ hand.at # None /\ hand' = [hand EXCEPT !.at = None]
  /\ \/ /\ found' \in {found, FoundWith(hand.at, "ingested"), FoundWith(hand.at, "awaiting_media")}
        /\ job' = [job EXCEPT !.completed = @ + 1]
     \/ /\ found' \in {found, FoundWith(hand.at, "failed"), FoundWith(hand.at, "awaiting_media")}
        /\ job' = [job EXCEPT !.failed = @ + 1]
  /\ UNCHANGED sse

(* After the last file nobody looks whether the job was cancelled.          *)
FinishJob ==
  /\ hand = [at |-> None, left |-> {}] /\ job.status # "done"
  /\ job' = [job EXCEPT !.status = "done"]
  /\ UNCHANGED <<hand, found, sse>>

CancelJob ==
  /\ job.status = "running" /\ job' = [job EXCEPT !.status = "cancelled"]
  /\ UNCHANGED <<hand, found, sse>>

IngestOther(c) ==
  /\ found' = FoundWith(c, IF c \in DOMAIN found THEN "ingested" ELSE "awaiting_media")
  /\ UNCHANGED <<job, hand, sse>>

-----------------------------------------------------------------------------
Watch ==
  /\ sse.at = "closed" /\ sse' = [Unwatched EXCEPT !.at = "job"]
  /\ UNCHANGED <<job, hand, found>>

(* The rollback before it makes the read a fresh one.                       *)
WatchJob ==
  /\ sse.at = "job" /\ sse' = [sse EXCEPT !.at = "calls", !.job = job]
  /\ UNCHANGED <<job, hand, found>>

WithResult == {c \in DOMAIN found : found[c] \in {"ingested", "failed"}}

NewCalls == WithResult \ Range(sse.told)

(* The calls in an order nothing depends on; the boards are due again after *)
(* BoardsEvery completed files.                                             *)
TellCalls ==
  /\ sse.at = "calls"
  /\ \E order \in SetToSeqs(NewCalls) : sse' =
       [sse EXCEPT !.at = IF sse.job.status \in {"done", "failed", "cancelled"} THEN "ended" ELSE "job",
                   !.told = @ \o order,
                   !.boards = IF sse.job.completed - @ >= BoardsEvery THEN sse.job.completed ELSE @]
  /\ UNCHANGED <<job, hand, found>>

LeaveJob ==
  /\ sse.at \in {"job", "calls"} /\ sse' = Unwatched
  /\ UNCHANGED <<job, hand, found>>

ProgressNext ==
  \/ \E f \in JobFile : TakeFile(f)
  \/ AnalyseFile \/ FinishJob \/ CancelJob
  \/ \E c \in OtherCall : IngestOther(c)
  \/ Watch \/ WatchJob \/ TellCalls \/ LeaveJob

ProgressSpec == ProgressInit /\ [][ProgressNext]_progressVars

-----------------------------------------------------------------------------
(* _stream, _new_calls (api/backfill.py): no call is told twice; when a     *)
(* stream ends because the job is done, every call created since the job    *)
(* that its files left with a result was told; and after a turn the boards  *)
(* are less than BoardsEvery completed files behind the progress that was   *)
(* told.  Of a cancelled job the file in hand may come too late.            *)
NothingUntold ==
  sse.at # "closed" =>
    /\ IsInjective(sse.told)
    /\ sse.at = "ended" /\ sse.job.status = "done" => JobFile \cap WithResult \subseteq Range(sse.told)
    /\ sse.at # "calls" /\ sse.job # None => sse.job.completed - sse.boards < BoardsEvery
=============================================================================
