--------------------------- MODULE CallPipeline ---------------------------
(***************************************************************************)
(* The life of a call between the raw-spans topic and the judge queue: the *)
(* analysis consumers of worker/run.py (fast path, grace path, retries,    *)
(* dead letters, offset commits), the producer endpoints that attach audio *)
(* to a call or erase it (api/ingest.py), and the reconcile sweep.  They   *)
(* share the tables of CallStore and nothing else.                         *)
(*                                                                         *)
(* A consumer runs one transaction per attempt at a record.  Its reads are *)
(* separate steps (Identify, Upsert); from the flush of upsert_call to the *)
(* commit it holds the lock of the call row, so that part is one step      *)
(* (Store).  A sweep locks no row before it reads the fragments of a call, *)
(* so its reads are steps of their own (FlushRead).  The log is what       *)
(* producers have sent: a record that no consumer has polled yet cannot be *)
(* told from one that is still to come.                                    *)
(***************************************************************************)
EXTENDS CallStore, Sequences

CONSTANTS
  Partition, Log,   \* Log[p] is the sequence of records of partition p
  Malformed,        \* records that decode_record or identify cannot read
  Consumer,         \* analysis processes of the consumer group
  MaxRetries,       \* kafka_max_retries
  Batch,            \* worker_batch, the LIMIT of a grace sweep
  Artifact, ArtifactOf, \* recordings, and the call id each is registered for
  Erasable,         \* ids whose erasure is requested
  Faults, MaxFaults \* which faults can strike, and how often (bounds crashes)

ASSUME PipelineAssumption ==
  /\ Log \in [Partition -> Seq(Record)]
  /\ Malformed \subseteq Record
  /\ MaxRetries \in Nat \ {0}
  /\ Batch \in Nat \ {0}
  /\ ArtifactOf \in [Artifact -> CallId]
  /\ Erasable \subseteq CallId
  /\ Faults \subseteq {"db", "broker", "crash", "rebalance", "eviction"}
  /\ MaxFaults \in Nat

VARIABLES
  owner,      \* consumer each partition is assigned to
  position,   \* records of each partition delivered under that assignment
  committed,  \* committed offset of each partition
  worker,     \* local state of each consumer
  judgeQueue, \* ids for which a judge request was sent
  dlq,        \* records sent to the dead letter topic
  media,      \* media rows: which recordings each call has
  request,    \* the register request in flight for each recording
  erasing,    \* the erase request in flight for each id (the row it loaded)
  gone,       \* history: records dropped as tombstoned or erased with their call
  faults      \* faults so far

busVars == <<owner, position, committed>>
apiVars == <<media, request, erasing>>
vars == <<dbVars, busVars, apiVars, worker, judgeQueue, dlq, gone, faults>>

\* What a sweep has read of each call: no fragment yet.
NothingRead == [k \in CallPk |-> [r \in Record |-> 0]]

Idle == [pc |-> "poll", part |-> None, off |-> 0, attempt |-> 0, cid |-> None,
         found |-> None, seen |-> Unborn, due |-> {}, got |-> NothingRead, judge |-> {}]

NoRequest == [by |-> "none", found |-> None, complete |-> FALSE, status |-> "awaiting_media"]

\* The record a consumer is at work on; it is at work on one in these steps.
Rec(c) == Log[worker[c].part][worker[c].off]
Busy == {"identify", "upsert", "store", "enqueue", "dlq", "commit"}

Init ==
  /\ DBInit
  /\ owner \in [Partition -> Consumer]
  /\ position = [p \in Partition |-> 0]
  /\ committed = [p \in Partition |-> 0]
  /\ worker = [c \in Consumer |-> Idle]
  /\ judgeQueue = {} /\ dlq = {} /\ media = {} /\ gone = {}
  /\ request = [a \in Artifact |-> NoRequest]
  /\ erasing = [i \in CallId |-> None]
  /\ faults = 0

-----------------------------------------------------------------------------
(* The consumer: one record at a time.                                     *)

Step(c, pc) == worker' = [worker EXCEPT ![c].pc = pc]
Rest(c) == worker' = [worker EXCEPT ![c] = Idle]

\* Mutants: a poison record is dropped, or attempted for ever.
RetryThenDrop(c) ==
  worker' = [worker EXCEPT ![c].attempt = @ + 1,
                           ![c].pc = IF worker[c].attempt + 1 < MaxRetries
                                     THEN "identify" ELSE "commit"]
RetryForEver(c) == Step(c, "identify")

\* The attempt raised: session rollback, then the next attempt or the DLQ.
Retry(c) ==
  worker' = [worker EXCEPT ![c].attempt = @ + 1,
                           ![c].pc = IF worker[c].attempt + 1 < MaxRetries
                                     THEN "identify" ELSE "dlq"]

Poll(c) ==
  /\ worker[c].pc = "poll"
  /\ \E p \in Partition :
       /\ owner[p] = c
       /\ position[p] < Len(Log[p])
       /\ position' = [position EXCEPT ![p] = @ + 1]
       /\ worker' = [worker EXCEPT ![c] = [Idle EXCEPT !.pc = "identify", !.part = p,
                                                       !.off = position[p] + 1]]
  /\ UNCHANGED <<dbVars, apiVars, owner, committed, judgeQueue, dlq, gone, faults>>

\* decode_record, identify and the tombstone check.
Identify(c) ==
  /\ worker[c].pc = "identify"
  /\ Rec(c) \notin Malformed
  /\ \E i \in Identified(Rec(c)) :
       IF Tombstoned(i)
       THEN Step(c, "commit") /\ gone' = gone \cup {Rec(c)}
       ELSE /\ worker' = [worker EXCEPT ![c].pc = IF i = None THEN "store" ELSE "upsert",
                                        ![c].cid = i, ![c].found = None, ![c].seen = Unborn]
            /\ UNCHANGED gone
  /\ UNCHANGED <<dbVars, busVars, apiVars, judgeQueue, dlq, faults>>

\* upsert_call reads: by external id, else by trace id.
Upsert(c) ==
  /\ worker[c].pc = "upsert"
  /\ \E k \in Found(worker[c].cid, Rec(c)) :
       worker' = [worker EXCEPT ![c].pc = "store", ![c].found = k,
                                ![c].seen = IF k = None THEN Unborn ELSE calls[k]]
  /\ UNCHANGED <<dbVars, busVars, apiVars, judgeQueue, dlq, gone, faults>>

\* A batch with no identity at all: kept as an unattributed fragment.
StoreUnattributed(c) ==
  /\ worker[c].pc = "store" /\ worker[c].cid = None
  /\ frags' = Stored(None, Rec(c))
  /\ Step(c, "commit")
  /\ UNCHANGED <<calls, tombstones, older, busVars, apiVars, judgeQueue, dlq, gone, faults>>

\* upsert_call's flush, store_fragment, the readiness test and, on the fast
\* path, process(); then the database commit.
Store(c) ==
  LET w == worker[c]
      r == Rec(c)
  IN
  /\ w.pc = "store" /\ w.cid # None
  /\ ~Rejected(w.cid, w.found, w.seen)
  /\ \E t \in Flushed(w.cid, w.found, w.seen, r) :
       LET k == PkOf(t, w.cid)
           \* the session's own object for a row it loaded, a fresh one otherwise
           row == IF k = w.found THEN Upserted(w.seen, w.seen, w.cid, r) ELSE t[k]
           upserted == IF w.found = None THEN k ELSE w.found
           f == Stored(k, r)
       IN
       /\ frags' = f
       /\ older' = Touched(upserted, t)
       /\ IF k # None /\ ReadyNow(row)
          THEN /\ ~ProcessRaises(f, k)
               /\ calls' = [t EXCEPT ![k] = Analysed(@, f, k)]
               /\ IF ProcessUnsupported(f, k)
                  THEN Step(c, "commit")
                  ELSE worker' = [worker EXCEPT ![c].pc = "enqueue", ![c].judge = {w.cid}]
          ELSE calls' = t /\ Step(c, "commit")
  /\ UNCHANGED <<tombstones, busVars, apiVars, judgeQueue, dlq, gone, faults>>

\* An attempt raises: unreadable record, rejected flush, process() failing on
\* what the call holds - or the database, at any point.
AttemptFails(c) ==
  LET w == worker[c]
      r == Rec(c)
  IN
  /\ \/ w.pc = "identify" /\ r \in Malformed
     \/ w.pc = "store" /\ w.cid # None /\ Rejected(w.cid, w.found, w.seen)
     \/ /\ w.pc = "store" /\ w.cid # None /\ ~Rejected(w.cid, w.found, w.seen)
        /\ \E t \in Flushed(w.cid, w.found, w.seen, r) :
             LET k == PkOf(t, w.cid)
                 row == IF k = w.found THEN Upserted(w.seen, w.seen, w.cid, r) ELSE t[k]
             IN k # None /\ ReadyNow(row) /\ ProcessRaises(Stored(k, r), k)
     \/ "db" \in Faults /\ w.pc \in {"identify", "upsert", "store"}
  /\ Retry(c)
  /\ UNCHANGED <<dbVars, busVars, apiVars, judgeQueue, dlq, gone, faults>>

\* After the database commit: send the judge request(s).
EnqueueJudge(c) ==
  /\ worker[c].pc \in {"enqueue", "flushEnqueue"}
  /\ judgeQueue' = judgeQueue \cup worker[c].judge
  /\ IF worker[c].pc = "enqueue" THEN Step(c, "commit") ELSE Rest(c)
  /\ UNCHANGED <<dbVars, busVars, apiVars, dlq, gone, faults>>

\* The send raises: the record is attempted again; a sweep is given up.
EnqueueFails(c) ==
  /\ "broker" \in Faults
  /\ \/ worker[c].pc = "enqueue" /\ Retry(c)
     \/ worker[c].pc = "flushEnqueue" /\ Rest(c)
  /\ UNCHANGED <<dbVars, busVars, apiVars, judgeQueue, dlq, gone, faults>>

ToDlq(c) ==
  /\ worker[c].pc = "dlq"
  /\ dlq' = dlq \cup {Rec(c)}
  /\ Step(c, "commit")
  /\ UNCHANGED <<dbVars, busVars, apiVars, judgeQueue, gone, faults>>

\* Mutant: one past the record's own position.
OffsetPast(c) == worker[c].off + 1

\* commit(record): everything up to and including the record is done.
OffsetAfter(c) == worker[c].off

CommitOffset(c) ==
  /\ worker[c].pc = "commit"
  /\ owner[worker[c].part] = c
  /\ committed' = [committed EXCEPT ![worker[c].part] = OffsetAfter(c)]
  /\ Rest(c)
  /\ UNCHANGED <<dbVars, apiVars, owner, position, judgeQueue, dlq, gone, faults>>

\* A process that dies restarts idle, and its partitions are read again from
\* the committed offset.
Restart(c) ==
  /\ Rest(c)
  /\ position' = [p \in Partition |-> IF owner[p] = c THEN committed[p] ELSE position[p]]
  /\ UNCHANGED <<dbVars, apiVars, owner, committed, judgeQueue, dlq, gone>>

\* The partition was taken away meanwhile: the commit raises out of main().
CommitRefused(c) ==
  /\ worker[c].pc = "commit"
  /\ owner[worker[c].part] # c
  /\ Restart(c)
  /\ UNCHANGED faults

Crash(c) ==
  /\ "crash" \in Faults /\ faults < MaxFaults
  /\ worker[c].pc # "poll"
  /\ faults' = faults + 1
  /\ Restart(c)

\* The group hands a partition to a consumer that is polling.  An owner at work
\* on a record of it keeps the assignment, unless it was evicted for not polling
\* within max.poll.interval: then it goes on with that record regardless.
Rebalance(p, c) ==
  /\ faults < MaxFaults
  /\ owner[p] # c /\ worker[c].pc = "poll"
  /\ \/ "rebalance" \in Faults /\ worker[owner[p]].pc \notin Busy
     \/ "eviction" \in Faults
  /\ faults' = faults + 1
  /\ owner' = [owner EXCEPT ![p] = c]
  /\ position' = [position EXCEPT ![p] = committed[p]]
  /\ UNCHANGED <<dbVars, apiVars, committed, worker, judgeQueue, dlq, gone>>

-----------------------------------------------------------------------------
(* The grace path, between two polls.                                      *)

\* Mutant: no grace path.
DueWithMedia(quiet) == {k \in Live(calls) : ReadyNow(calls[k])}

\* What flush_due selects when the rows of quiet have waited out the grace
\* window, before ORDER BY and LIMIT.
Due(quiet) == {k \in Live(calls) : /\ calls[k].complete
                                   /\ calls[k].status # "unsupported"
                                   /\ calls[k].media \/ k \in quiet
                                   /\ ~calls[k].analysed}

\* The Batch least recently active of them.
Selected(quiet) ==
  {S \in SUBSET Due(quiet) :
     /\ Cardinality(S) <= Batch
     /\ S # Due(quiet) => Cardinality(S) = Batch
     /\ \A x \in S, y \in Due(quiet) : <<y, x>> \in older => y \in S}

\* Time has passed some prefix of the rows by last activity.
Quiet == {Q \in SUBSET Live(calls) :
            \A x \in Q, y \in Live(calls) : <<y, x>> \in older => y \in Q}

FlushSelect(c, quiet) ==
  /\ worker[c].pc = "poll"
  /\ \E S \in Selected(quiet) :
       /\ S # {}
       /\ worker' = [worker EXCEPT ![c] = [Idle EXCEPT !.pc = "flush",
                       !.due = {<<k, calls[k].ext>> : k \in S}]]
  /\ UNCHANGED <<dbVars, busVars, apiVars, judgeQueue, dlq, gone, faults>>

DuePks(c) == {d[1] : d \in worker[c].due}

\* Mutant: the sweep forgets to queue its calls.
JudgedNone(c) == {}

\* The ids of the calls of a sweep that were analysed, as loaded by its select.
Judged(c) == {d[2] : d \in {e \in worker[c].due : ~ProcessUnsupported(worker[c].got, e[1])}}

\* Whether a sweep has read call k (a call that is due holds its root at least).
HasRead(c, k) == Held(worker[c].got, k) # {}

\* process() reads the fragments of one call of the sweep, and no lock keeps a
\* consumer from storing more of them, or analysing the call, before the commit.
\* The locks a sweep does take on the way (of a call it wrote, when it comes to
\* the next) are left out, as is the order of its reads: more can happen here.
FlushRead(c) ==
  /\ worker[c].pc = "flush"
  /\ \E k \in DuePks(c) \cap Live(calls) :
       /\ ~HasRead(c, k)
       /\ worker' = [worker EXCEPT ![c].got[k] = frags[k]]
  /\ UNCHANGED <<dbVars, busVars, apiVars, judgeQueue, dlq, gone, faults>>

\* Every selected call was processed, on the fragments read then; one commit
\* closes the sweep.
FlushCommit(c) ==
  LET got == worker[c].got
  IN
  /\ worker[c].pc = "flush"
  /\ \A k \in DuePks(c) : k \in Live(calls) /\ HasRead(c, k) /\ ~ProcessRaises(got, k)
  /\ calls' = [k \in CallPk |-> IF k \in DuePks(c) THEN Analysed(calls[k], got, k)
                                                   ELSE calls[k]]
  /\ worker' = [worker EXCEPT ![c].pc = "flushEnqueue", ![c].due = {},
                              ![c].got = NothingRead, ![c].judge = Judged(c)]
  /\ UNCHANGED <<frags, tombstones, older, busVars, apiVars, judgeQueue, dlq, gone, faults>>

\* One call that cannot be processed, or that another transaction analysed
\* or erased since the select, rolls the whole sweep back.
FlushAborts(c) ==
  /\ worker[c].pc = "flush"
  /\ \/ \E k \in DuePks(c) : \/ k \notin Live(calls)
                             \/ ProcessRaises(worker[c].got, k)
                             \/ calls[k].analysed
     \/ "db" \in Faults
  /\ Rest(c)
  /\ UNCHANGED <<dbVars, busVars, apiVars, judgeQueue, dlq, gone, faults>>

-----------------------------------------------------------------------------
(* The producer endpoints and the reconcile sweep.                         *)

\* The call a recording is registered for is loaded; a recording the call
\* already has changes nothing.
Load(a, by) ==
  /\ request[a] = NoRequest
  /\ \E k \in ByExternalId(calls, ArtifactOf[a]) :
       /\ <<k, a>> \notin media
       /\ request' = [request EXCEPT ![a] = [by |-> by, found |-> k,
                         complete |-> calls[k].complete, status |-> calls[k].status]]
  /\ UNCHANGED <<dbVars, busVars, worker, judgeQueue, dlq, media, erasing, gone, faults>>

RegisterLoad(a) == Load(a, "api")

\* The reconcile sweep passes over an id with a tombstone.
ReconcileLoad(a) == ArtifactOf[a] \notin tombstones /\ Load(a, "sweep")

\* Mutant: no foreign key from media to call.
AttachesAlways(q) == q # NoRequest

\* The insert into media and the update of the call take effect: the call exists.
Attaches(q) == q.found \in Live(calls)

\* The commit of either writes the columns that differ from what it loaded; only
\* the endpoint counts as activity on the call.
RegisterCommit(a) ==
  LET q == request[a]
  IN
  /\ q # NoRequest
  /\ request' = [request EXCEPT ![a] = NoRequest]
  /\ IF Attaches(q)
     THEN /\ media' = media \cup {<<q.found, a>>}
          /\ calls' = [calls EXCEPT ![q.found].media = TRUE,
                         ![q.found].status = IF q.complete /\ q.status # "ingested"
                                             THEN "ingested" ELSE @]
          /\ older' = IF q.by = "api" THEN Touched(q.found, calls) ELSE older
     ELSE UNCHANGED <<media, calls, older>>
  /\ UNCHANGED <<frags, tombstones, busVars, worker, judgeQueue, dlq, erasing, gone, faults>>

EraseLoad(i) ==
  /\ erasing[i] = None
  /\ \E k \in ByExternalId(calls, i) : erasing' = [erasing EXCEPT ![i] = k]
  /\ UNCHANGED <<dbVars, busVars, worker, judgeQueue, dlq, media, request, gone, faults>>

\* The tombstone, the child rows and the call go in one transaction.  It fails
\* if the row is gone, the id has a tombstone already, or children keep coming.
EraseCommit(i) ==
  LET k == erasing[i]
  IN
  /\ k # None
  /\ k \in Live(calls) /\ i \notin tombstones
  /\ erasing' = [erasing EXCEPT ![i] = None]
  /\ tombstones' = tombstones \cup {i}
  /\ calls' = [calls EXCEPT ![k].life = "erased"]
  /\ frags' = [frags EXCEPT ![k] = [r \in Record |-> 0]]
  /\ media' = {m \in media : m[1] # k}
  /\ gone' = gone \cup Held(frags, k)
  /\ UNCHANGED <<older, busVars, worker, judgeQueue, dlq, request, faults>>

EraseFails(i) ==
  /\ erasing[i] # None
  /\ \/ erasing[i] \notin Live(calls)
     \/ i \in tombstones
     \/ "db" \in Faults
  /\ erasing' = [erasing EXCEPT ![i] = None]
  /\ UNCHANGED <<dbVars, busVars, worker, judgeQueue, dlq, media, request, gone, faults>>

-----------------------------------------------------------------------------

Consume(c) ==
  \/ Identify(c) \/ Upsert(c) \/ StoreUnattributed(c) \/ Store(c) \/ AttemptFails(c)
  \/ EnqueueJudge(c) \/ EnqueueFails(c) \/ ToDlq(c) \/ CommitOffset(c) \/ CommitRefused(c)

Flush(c) ==
  \/ \E Q \in Quiet : FlushSelect(c, Q)
  \/ FlushRead(c)
  \/ FlushCommit(c)
  \/ FlushAborts(c)

Api ==
  \/ \E a \in Artifact : RegisterLoad(a) \/ ReconcileLoad(a) \/ RegisterCommit(a)
  \/ \E i \in Erasable : EraseLoad(i) \/ EraseCommit(i) \/ EraseFails(i)

Next ==
  \/ \E c \in Consumer : \/ Poll(c) \/ Consume(c) \/ Flush(c) \/ Crash(c)
                         \/ \E p \in Partition : Rebalance(p, c)
  \/ Api

Spec == Init /\ [][Next]_vars

\* main() polls in every turn of its loop and sweeps every worker_poll_s, so
\* neither can be put off for ever by the other; a step once begun is finished.
\* A call that nothing touches ends up past the grace window of every sweep.
Fairness ==
  \A c \in Consumer :
    /\ WF_vars(Consume(c))
    /\ WF_vars(FlushRead(c) \/ FlushCommit(c) \/ FlushAborts(c))
    /\ SF_vars(Poll(c))
    /\ SF_vars(FlushSelect(c, Live(calls)))

FairSpec == Spec /\ Fairness

-----------------------------------------------------------------------------
(* Properties.                                                             *)

WorkerState == [pc: Busy \cup {"poll", "flush", "flushEnqueue"},
                part: Partition \cup {None}, off: Nat, attempt: Nat,
                cid: CallId \cup {None}, found: CallPk \cup {None}, seen: Row,
                due: SUBSET (CallPk \X (CallId \cup {None})),
                got: [CallPk -> [Record -> Nat]],
                judge: SUBSET (CallId \cup {None})]

Request == [by: {"none", "api", "sweep"}, found: CallPk \cup {None},
            complete: BOOLEAN, status: Status]

BusTypeOK ==
  /\ owner \in [Partition -> Consumer]
  /\ position \in [Partition -> Nat] /\ committed \in [Partition -> Nat]
  /\ \A p \in Partition : position[p] <= Len(Log[p]) /\ committed[p] <= Len(Log[p])

WorkerTypeOK ==
  /\ worker \in [Consumer -> WorkerState]
  /\ \A c \in Consumer : worker[c].pc \in Busy =>
       worker[c].part \in Partition /\ worker[c].off \in 1 .. Len(Log[worker[c].part])

ApiTypeOK ==
  /\ media \subseteq CallPk \X Artifact
  /\ request \in [Artifact -> Request]
  /\ erasing \in [CallId -> CallPk \cup {None}]

\* The type of every variable; offsets stay inside the log, and a consumer at
\* work on a record has one.
TypeOK ==
  /\ DBTypeOK /\ BusTypeOK /\ WorkerTypeOK /\ ApiTypeOK
  /\ judgeQueue \subseteq CallId \cup {None} /\ dlq \subseteq Record /\ gone \subseteq Record
  /\ faults \in 0 .. MaxFaults

\* What became of a record: a fragment row, a dead letter, or gone with an
\* erased call.
Accounted(r) ==
  \/ \E k \in CallPk \cup {None} : frags[k][r] > 0
  \/ r \in dlq
  \/ r \in gone

\* At-least-once: no record below a committed offset was lost, whatever crashes,
\* rebalances and failing attempts happened (run.py commits the offset last).
NoRecordSkipped ==
  \A p \in Partition : \A n \in 1 .. committed[p] : Accounted(Log[p][n])

\* What NoRecordSkipped rests on.  The owner of a partition is at work on the one
\* record after the committed offset, or has had nothing delivered beyond it; an
\* evicted consumer may be at work on any record, but not as the owner.
OneRecordInFlight ==
  \A p \in Partition :
    LET w == worker[owner[p]]
    IN  IF w.pc \in Busy /\ w.part = p
        THEN w.off = position[p] /\ position[p] = committed[p] + 1
        ELSE position[p] = committed[p]

\* A consumer about to commit has stored its record, or sent it to the dead letters.
CommitsAfterStore ==
  \A c \in Consumer : worker[c].pc \in {"enqueue", "commit"} => Accounted(Rec(c))

\* Redelivery never doubles the spans of a call: all calls together hold a
\* record at most once (store_fragment's check, made under the call row's lock).
FragmentAtMostOnce ==
  \A r \in Record : \A j, k \in CallPk \cup {None} :
    frags[j][r] > 0 /\ frags[k][r] > 0 => j = k /\ frags[k][r] = 1

\* No fragment and no recording outlives the call it belonged to, even when a
\* consumer or an upload was half-way through when the call was erased.
ErasedLeavesNothing ==
  \A k \in CallPk : calls[k].life = "erased" =>
    Held(frags, k) = {} /\ \A a \in Artifact : <<k, a>> \notin media

\* Batches of one trace are assembled into one call (identify resolves a batch
\* without call id through the trace of the call that has one).
OneCallPerTrace ==
  \A j, k \in Live(calls) :
    calls[j].trace # None /\ calls[j].trace = calls[k].trace => j = k

\* A batch that names a trace or a call is never filed as unattributed.
NothingUnattributed ==
  \A r \in Record : TraceOf[r] # None \/ HintOf[r] # None => frags[None][r] = 0

\* Once a call bears the id its producer chose, no later batch renames it: artifacts
\* and erasure address the call by that id (_promote only ever replaces a trace id).
ProducerIds == {HintOf[r] : r \in Record} \ {None}
IdentityStable ==
  [][\A k \in CallPk : calls[k].ext \in ProducerIds => calls'[k].ext = calls[k].ext]_vars

\* A batch of an erased call that arrives after the erasure is dropped.
StragglerDropped ==
  [][\A c \in Consumer : worker[c].pc = "identify" /\ worker'[c].pc = "upsert" =>
       \A k \in CallPk : calls[k].life = "erased" =>
         calls[k].trace = None \/ calls[k].trace # TraceOf[Rec(c)]]_vars

\* Every record is eventually consumed and its offset committed.
EveryRecordConsumed == \A p \in Partition : <>[](committed[p] = Len(Log[p]))

\* A call whose spans are complete is eventually analysed - with its audio, or
\* without once the grace window is over - or found unsupported, or erased; unless
\* what it holds itself makes process() raise.
CompleteIsAnalysed ==
  \A k \in CallPk : calls[k].complete ~>
    \/ calls[k].analysed \/ calls[k].status = "unsupported" \/ calls[k].life = "erased"
    \/ ProcessRaises(frags, k)

\* Every analysed call is eventually handed to the judge.
AnalysedIsJudged ==
  \A k \in CallPk : calls[k].analysed ~> (calls[k].ext \in judgeQueue)

\* CallPipeline implements CallLife: whatever the consumers, retries, sweeps,
\* crashes and evictions do, each step is one of a call's life, or none.
Phase(row) ==
  CASE row.life = "unborn" -> "none"
    [] row.life = "erased" -> "erased"
    [] row.life = "live" /\ row.status = "unsupported" -> "unsupported"
    [] row.life = "live" /\ row.status # "unsupported" ->
         IF row.complete THEN "complete" ELSE "open"

Life == INSTANCE CallLife WITH
  phase <- [k \in CallPk |-> Phase(calls[k])],
  name <- [k \in CallPk |-> calls[k].ext],
  buffer <- frags,
  covers <- [k \in CallPk |-> calls[k].covers],
  asked <- judgeQueue

ImplementsCallLife == Life!Spec
=============================================================================
