----------------------------- MODULE Backfill -----------------------------
(***************************************************************************)
(* Backfill jobs (worker/backfill.py, api/backfill.py): a user creates a   *)
(* job, one sidecar claims the oldest queued one, lists the agent's store, *)
(* analyses one file after the other with a commit for each, and finishes  *)
(* the job; the user may cancel it meanwhile, calls may be inserted by     *)
(* other writers, and erased.                                              *)
(*                                                                         *)
(* One action is one transaction, or the part of one before or after a     *)
(* point where another process can act: between the select of the call and *)
(* the flush that inserts it, and between the read of the job and the      *)
(* write of its status, for cancel and for claim_next.                     *)
(***************************************************************************)
EXTENDS Integers, Sequences

CONSTANTS
  MaxJob,            \* jobs are numbered in the order of their created_at
  Id,                \* external call ids
  File,              \* objects of the store, one per call
  Files,             \* Files[j]: what discover finds for job j, sorted by call id
  Source,            \* Source[j]: "audio", "otlp" or "manifest"
  PathId,            \* the call id in the path of a file
  ContentId,         \* the call id that identify finds in an OTLP file
  MaxCancel,         \* cancel requests per job (bound)
  MaxCrash           \* times the sidecar dies (bound)

Job == 1 .. MaxJob

ASSUME BackfillAssumption ==
  /\ MaxJob \in Nat
  /\ Files \in [Job -> Seq(File)]
  /\ Source \in [Job -> {"audio", "otlp", "manifest"}]
  /\ PathId \in [File -> Id]
  /\ ContentId \in [File -> Id]
  /\ MaxCancel \in Nat
  /\ MaxCrash \in Nat

VARIABLES
  job,        \* the rows of backfill_job
  call,       \* the rows of call: status, and whether metric_version is set
  tombstone,  \* ids erased
  asked,      \* ids for which a judge request was sent
  sidecar,    \* local state of run_job
  canceller,  \* cancel requests: how many so far, and whether one has read the job
  late,       \* history: files committed while the job said "cancelled"
  crashes

vars == <<job, call, tombstone, asked, sidecar, canceller, late, crashes>>

Active == {"scanning", "running", "clustering"}
Final == {"done", "failed", "cancelled"}
JobStatus == {"absent", "queued"} \cup Active \cup Final
NoCall == [status |-> "absent", analysed |-> FALSE]

\* pc: where run_job is; next: files dealt with; found: was there a row for the
\* file's call when it was selected.
Resting == [pc |-> "idle", job |-> 0, next |-> 0, found |-> FALSE]

Init ==
  /\ job = [j \in Job |-> [status |-> "absent", total |-> 0, completed |-> 0,
                           failed |-> 0, finished |-> FALSE]]
  /\ call = [i \in Id |-> NoCall]
  /\ tombstone = {} /\ asked = {}
  /\ sidecar = Resting
  /\ canceller = [j \in Job |-> [count |-> 0, read |-> FALSE]]
  /\ late = [j \in Job |-> 0]
  /\ crashes = 0

-----------------------------------------------------------------------------
(* The endpoints.                                                          *)

\* create: jobs are numbered as they are created.
Create ==
  /\ \E j \in Job :
       /\ job[j].status = "absent"
       /\ \A i \in 1 .. j - 1 : job[i].status # "absent"
       /\ job' = [job EXCEPT ![j].status = "queued"]
  /\ UNCHANGED <<call, tombstone, asked, sidecar, canceller, late, crashes>>

\* cancel reads the job and finds it not final; then it writes.
CancelRead(j) ==
  /\ job[j].status \in Active \cup {"queued"}
  /\ ~canceller[j].read
  /\ canceller[j].count < MaxCancel
  /\ canceller' = [canceller EXCEPT ![j] = [count |-> @.count + 1, read |-> TRUE]]
  /\ UNCHANGED <<job, call, tombstone, asked, sidecar, late, crashes>>

CancelWrite(j) ==
  /\ canceller[j].read
  /\ canceller' = [canceller EXCEPT ![j].read = FALSE]
  /\ job' = [job EXCEPT ![j].status = "cancelled"]
  /\ UNCHANGED <<call, tombstone, asked, sidecar, late, crashes>>

\* Another writer, the analysis consumer or the poller, inserts the call: it
\* drops ids that bear a tombstone.
OtherInsert(i) ==
  /\ call[i].status = "absent" /\ i \notin tombstone
  /\ call' = [call EXCEPT ![i].status = "awaiting_media"]
  /\ UNCHANGED <<job, tombstone, asked, sidecar, canceller, late, crashes>>

\* erase_call: the call goes, a tombstone stays.
Erase(i) ==
  /\ call[i].status # "absent" /\ i \notin tombstone
  /\ call' = [call EXCEPT ![i] = NoCall]
  /\ tombstone' = tombstone \cup {i}
  /\ UNCHANGED <<job, asked, sidecar, canceller, late, crashes>>

-----------------------------------------------------------------------------
(* The sidecar.                                                            *)

Now == sidecar.job
Goto(pc) == sidecar' = [sidecar EXCEPT !.pc = pc]

Queued == {j \in Job : job[j].status = "queued"}
\* Mutants: the oldest job that has not ended; jobs that were cancelled too.
OldestUnended == {j \in Queued : \A i \in 1 .. j - 1 : job[i].status \in Final}
OldestUndone ==
  LET Open == {j \in Job : job[j].status \in {"queued", "cancelled"}}
  IN {j \in Open : \A i \in Open : j <= i}
Oldest == {j \in Queued : \A i \in Queued : j <= i}

\* claim_next reads the oldest queued job; then it writes "scanning", whatever
\* the row says by then.  The first write of run_job changes no status.
ClaimRead ==
  /\ sidecar.pc = "idle"
  /\ \E j \in Oldest : sidecar' = [Resting EXCEPT !.pc = "claim", !.job = j]
  /\ UNCHANGED <<job, call, tombstone, asked, canceller, late, crashes>>

ClaimWrite ==
  /\ sidecar.pc = "claim"
  /\ job' = [job EXCEPT ![Now].status = "scanning"]
  /\ Goto("scan")
  /\ UNCHANGED <<call, tombstone, asked, canceller, late, crashes>>

\* _finish.
Finish(status) ==
  /\ job' = [job EXCEPT ![Now].status = status, ![Now].finished = TRUE]
  /\ sidecar' = Resting
  /\ UNCHANGED <<call, tombstone, asked, canceller, late, crashes>>

\* No storage, no manifest, or discover raised.
ScanFails == sidecar.pc = "scan" /\ Finish("failed")

\* Mutant: the total is counted before the listing is grouped by call.
TotalObjects == Len(Files[Now]) + 1
Total == Len(Files[Now])

Scan ==
  /\ sidecar.pc = "scan"
  /\ job' = [job EXCEPT ![Now].status = "running", ![Now].total = Total]
  /\ Goto("loop")
  /\ UNCHANGED <<call, tombstone, asked, canceller, late, crashes>>

\* Mutant: the status as loaded with the job, which no other session changes.
IsCancelledCached == FALSE
IsCancelled == job[Now].status = "cancelled"

More == sidecar.next < Len(Files[Now])
Current == Files[Now][sidecar.next + 1]
\* The row the file is written to: an OTLP file says itself which.
RowId(s, f) == IF s = "otlp" THEN ContentId[f] ELSE PathId[f]
Row == RowId(Source[Now], Current)

Stop == sidecar.pc = "loop" /\ More /\ IsCancelled /\ Finish("cancelled")

\* ensure_audio_call or upsert_call selects the row.
Select ==
  /\ sidecar.pc = "loop" /\ More /\ ~IsCancelled
  /\ sidecar' = [sidecar EXCEPT !.pc = "file", !.found = call[Row].status # "absent"]
  /\ UNCHANGED <<job, call, tombstone, asked, canceller, late, crashes>>

\* What becomes of a file.  "unread": no row is touched (the fetch raised, the
\* export is empty).  "raised": after the row was inserted or found.
Outcome(s) ==
  CASE s = "audio" -> {"ok", "transcribed", "failed"}
    [] s = "otlp" -> {"unread", "raised", "failed", "ok"}
    [] s = "manifest" -> {"raised", "ok"}
Completed(o) == o \in {"ok", "transcribed"}
Judgeable(s, o) == o = "transcribed" \/ (o = "ok" /\ s # "audio")

\* Mutant: only a reported failure is counted, an exception is not.
FailedReported(o) == o = "failed"
Failed(o) == ~Completed(o)

\* The row afterwards.  The exception handler does not roll back, so a row
\* inserted before the exception is committed.
Written(r, s, o) ==
  LET Kept == IF r.status = "absent" THEN "awaiting_media" ELSE r.status
  IN CASE o = "unread" -> r
       [] o = "failed" -> [r EXCEPT !.status = "failed"]
       [] o = "raised" -> [r EXCEPT !.status = Kept]
       [] OTHER -> [status |-> IF s = "audio" THEN "ingested" ELSE Kept, analysed |-> TRUE]

\* The insert collides with one made since the select, or the row is gone.
Stale == sidecar.found # (call[Row].status # "absent")

\* Mutant: the judge is asked also when processing raised.
AskedAnyway(s, o) == IF Judgeable(s, o) \/ o = "raised" THEN "enqueue" ELSE "loop"
AfterFile(s, o) == IF Judgeable(s, o) THEN "enqueue" ELSE "loop"

\* The call and the counters of the job are one commit.
Process ==
  /\ sidecar.pc = "file"
  /\ \E o \in Outcome(Source[Now]) :
       /\ o = "unread" \/ ~Stale
       /\ call' = [call EXCEPT ![Row] = Written(@, Source[Now], o)]
       /\ job' = [job EXCEPT ![Now].completed = @ + (IF Completed(o) THEN 1 ELSE 0),
                             ![Now].failed = @ + (IF Failed(o) THEN 1 ELSE 0)]
       /\ sidecar' = [sidecar EXCEPT !.pc = AfterFile(Source[Now], o), !.next = @ + 1]
  /\ late' = [late EXCEPT ![Now] = @ + (IF job[Now].status = "cancelled" THEN 1 ELSE 0)]
  /\ UNCHANGED <<tombstone, asked, canceller, crashes>>

\* The flush raises inside the handler's try.  The session must be rolled back
\* before it is used again, and is not: counting the failure raises again, out
\* of run_job and out of the process.
FlushRaises ==
  /\ sidecar.pc = "file" /\ Stale
  /\ sidecar' = [Resting EXCEPT !.pc = "down"]
  /\ UNCHANGED <<job, call, tombstone, asked, canceller, late, crashes>>

\* enqueue_judge, after the commit, with the id of the path.
Enqueue ==
  /\ sidecar.pc = "enqueue"
  /\ asked' = asked \cup {PathId[Files[Now][sidecar.next]]}
  /\ Goto("loop")
  /\ UNCHANGED <<job, call, tombstone, canceller, late, crashes>>

\* After the last file there is no further look at the status.
Cluster ==
  /\ sidecar.pc = "loop" /\ ~More
  /\ job' = [job EXCEPT ![Now].status = "clustering"]
  /\ Goto("clustering")
  /\ UNCHANGED <<call, tombstone, asked, canceller, late, crashes>>

Done == sidecar.pc = "clustering" /\ Finish("done")

\* The process dies, or an exception no handler catches ends it: the broker
\* refuses a judge request, the database fails.
Crash ==
  /\ sidecar.pc \notin {"idle", "down"}
  /\ crashes < MaxCrash
  /\ crashes' = crashes + 1
  /\ sidecar' = [Resting EXCEPT !.pc = "down"]
  /\ UNCHANGED <<job, call, tombstone, asked, canceller, late>>

Restart ==
  /\ sidecar.pc = "down"
  /\ sidecar' = Resting
  /\ UNCHANGED <<job, call, tombstone, asked, canceller, late, crashes>>

RunJob == ScanFails \/ Scan \/ Stop \/ Select \/ Process \/ FlushRaises \/ Enqueue
          \/ Cluster \/ Done
Sidecar == ClaimRead \/ ClaimWrite \/ RunJob \/ Restart

Next ==
  \/ Create
  \/ \E j \in Job : CancelRead(j) \/ CancelWrite(j)
  \/ \E i \in Id : OtherInsert(i) \/ Erase(i)
  \/ Sidecar \/ Crash

Spec == Init /\ [][Next]_vars
\* The sidecar's loop goes on, and the orchestrator starts a dead process again.
FairSpec == Spec /\ WF_vars(Sidecar)

-----------------------------------------------------------------------------
JobRow == [status : JobStatus, total : Nat, completed : Nat, failed : Nat, finished : BOOLEAN]
CallRow == [status : {"absent", "awaiting_media", "ingested", "failed"}, analysed : BOOLEAN]

BackfillTypeOK ==
  /\ job \in [Job -> JobRow]
  /\ \A j \in Job : job[j].total <= Len(Files[j])
  /\ call \in [Id -> CallRow]
  /\ tombstone \subseteq Id
  /\ asked \subseteq Id
  /\ sidecar \in [pc : {"idle", "claim", "scan", "loop", "file", "enqueue", "clustering",
                        "down"},
                  job : Nat, next : Nat, found : BOOLEAN]
  /\ canceller \in [Job -> [count : 0 .. MaxCancel, read : BOOLEAN]]
  /\ late \in [Job -> Nat]
  /\ crashes \in 0 .. MaxCrash

Working(j) == sidecar.job = j /\ sidecar.pc \notin {"idle", "down"}
Analysing(j) == sidecar.job = j /\ sidecar.pc \in {"loop", "file", "enqueue", "clustering"}

\* The progress that the SSE endpoint shows adds up: each file is counted once,
\* as completed or as failed, whatever becomes of it (an exception included), a
\* job that is done has counted them all, and one that a dying sidecar left
\* behind has counted what it committed.
CountsMatch ==
  \A j \in Job :
    /\ job[j].completed + job[j].failed <= job[j].total
    /\ Analysing(j) => /\ job[j].completed + job[j].failed = sidecar.next
                       /\ job[j].total = Len(Files[j])
    /\ job[j].status \in {"clustering", "done"} =>
         job[j].completed + job[j].failed = job[j].total

\* Once a cancellation stands in the row of a job that is being analysed, at
\* most the file already in hand is still committed, however the cancel request,
\* the check before each file and the commits interleave.
CancelStops == \A j \in Job : late[j] <= 1

\* A job that run_job has ended is never claimed and run again: not by a claim,
\* not by a late cancel, not after a restart.
NotRunTwice == [][\A j \in Job : job[j].finished => job'[j].status \notin Active \cup {"queued"}]_vars

\* The judge is asked for a file of the job only when the analysis of the call
\* that the file was written to is committed (or has been erased since).
AskedAfterCommit ==
  [][asked' # asked =>
       LET r == RowId(Source[Now], Files[Now][sidecar.next])
       IN call[r].analysed \/ r \in tombstone]_vars

\* A queued job is driven to an end, unless the sidecar dies on it: a job that
\* was left behind holds up no other.
Stranded(j) == job[j].status \in Active /\ ~Working(j)
JobSettles == \A j \in Job : job[j].status = "queued" ~> (job[j].status \in Final \/ Stranded(j))

\* worker/backfill.py: "Per-call failures are recorded on the Call [...] and
\* counted; they never abort the job."
NeverAborted == \A j \in Job : ~Stranded(j)
=============================================================================
