# Actioneer Pulse: TLA+ specifications and proofs

Pulse receives OpenTelemetry batches of voice-agent calls, assembles them into calls, attaches
recordings, analyses each call, and hands it to an LLM judge. This directory models the part of it
whose correctness depends on the order of things, and the rules of the analysis that are easy to get
wrong at an edge. There are four groups of modules:

* the *pipeline* from the raw-spans topic to the judge queue (`CallStore`, `CallPipeline`), shown to
  implement an abstract call (`CallLife`); its delivery guarantee and the completeness of erasure are
  proved with TLAPS for every instance, and so are its other safety properties and the refinement for
  every instance in which producers identify their calls in one way; what identity promises, and the
  refinement if the root names the call, are also proved where calls are renamed on the way;
* the *backfill* worker (`Backfill`), with all its safety properties proved;
* the *analysis* of one call (nine parts under `MCAnalysis`), checked over all small inputs; how
  turns are made, from spans, from events and from a recording, the voice activity loop, the metrics of a
  recording and the waterfall of a turn are proved for all inputs;
* the *services* around the pipeline (thirteen modules under `MCServices`), each checked on a small
  instance, all of them proved about.

Source paths are relative to `src/src/voiceobs/` unless they start with `services/`, `tests/` or
`alembic/`.

## 1. Inventory

| Component | State it keeps | Operations | Talks to |
|---|---|---|---|
| Ingest (`api/ingest.py`, `ingestion.py: shard, produce`; Go twin in `services/ingest`) | none (the Go service: a token cache) | decode an OTLP body, shard spans by call id or trace id, send one record per shard | raw-spans topic |
| Bus (`bus/`) | topics, partitions, committed offsets | send, poll, commit, flush | every worker |
| Analysis consumer (`worker/run.py`, `ingestion.py`) | none between records; database and offsets | per record: identify, tombstone check, upsert, store fragment, analyse if ready, request judging, commit the offset; every few seconds: the grace sweep | bus, database, judge topic, DLQ |
| Call store (`db/models.py`, `db/session.py`) | `call`, `raw_fragment`, `media`, `tombstone` and the analysis tables, one schema per organisation | one transaction per request or record, READ COMMITTED | everything |
| Artifact and erasure endpoints (`api/ingest.py`) | - | `register_artifact`, `upload_transcript`, `register_prompt`, `erase_call` | call store |
| Reconcile sweep (`worker/reconcile.py`) | - | list a store, register recordings of known calls | call store, object storage |
| Analysis of a call (`worker/process.py`, `core/`, `frameworks/`, `mapping/`) | - | assemble fragments, adapt to a canonical trace, compute metrics, replace the analysis rows | call store |
| Judge worker (`worker/judge.py`, `judge/`) | `judgment` rows, per-agent parameters | drain a realtime and a backfill topic, call an LLM, write judgments | call store, LLM gateway, DLQ |
| Backfill (`worker/backfill.py`, `api/backfill.py`) | `backfill_job` | create, claim, run, cancel, stream progress | call store, storage, judge topic |
| Poller (`worker/poller.py`, `integration/runtime.py`) | a watermark per agent | window a store by modification time, process each new call | call store, storage, judge topic |
| Accounts (`auth/`, `api/auth.py`) | users, refresh-token families | log in, rotate, revoke | database |
| Agents and configuration (`api/agents.py`, `api/ingest_config.py`, `api/orgs.py`) | scripts and guardrails (versioned, one active), ingest tokens, parameters | publish, activate, upload parameters | database, judge topic |
| Provisioning (`db/provision.py`, `alembic/`) | schemas | create and migrate an organisation's schema | database |
| Audio (`core/audio`, `diarize/`, `groundtruth/`, `worker/audio_stt.py`) | - | layout, VAD intervals, talk metrics, transcripts | external models |
| Clustering (`clustering/`, `api/clusters.py`) | embeddings, clusters | recluster | database, embedding model |
| Boards, reads, export (`api/boards.py`, `api/read.py`, `api/export.py`) | - | queries | database |
| Chat (`chat/`, `api/chat.py`, `api/call_chat.py`, `llm/`) | conversations | tool loop over read-only SQL | LLM gateway, database |
| Telemetry and rate limits (`telemetry/`, `ratelimit.py`) | an event buffer and a flush thread; request windows | emit, flush; admit | HTTP |
| Storage drivers (`storage/`), web UI (`ui/`) | - | I/O, presentation | - |

### What is hard, and what makes it correct

* **Delivery.** Offsets are committed after the database, so a record may be processed twice, and
  after an eviction by two processes at once. Correct: nothing below a committed offset is lost, and
  no call holds a batch twice.
* **Identity.** A call is known first by its trace, later by the id its producer chose. Correct: one
  call per trace, a producer's id never replaced, no batch of a known call left unattributed.
* **Readiness.** Two gates (root span stored, recording registered) closed by different actors, two
  paths (fast path, grace sweep) that may both take the call. Correct: an analysis is computed from
  the root, every complete call is analysed in the end, every analysed call is handed to the judge,
  and none before its analysis is committed.
* **Erasure.** It races consumers, uploads and sweeps that hold the row. Correct: nothing is left
  under an erased row, and batches that arrive later are dropped.
* **Failure.** Unreadable records, database and broker errors, a process that dies between any two
  steps, a partition that moves. Correct: bounded retries, then a dead letter, and the partition
  moves on.
* **Backfill.** One session runs a whole job, with a commit per file, while the user cancels it and
  others insert and erase the calls it is about to write. Correct: every file is counted once, a
  cancellation takes effect after at most the file in hand, an ended job stays ended, the judge is
  asked only for what is committed, and one job left behind does not hold up the next.
* **Analysis.** Rows are rewritten by every analysis, from fragments in the order of a number that does
  not say when they were sent. Correct: the rows, the columns of the call and the trust report are those of the last
  analysis; every instant of the recording is counted once; a turn is anchored, timed and answered by
  its own spans, and what no stage explains is what no stage covers.
* **Judging.** Two judges hold one row while models answer. Correct: a judgment is of one reply, and
  nothing of an earlier one shines through.
* **Poller.** One watermark for many calls that are still being written. Correct: what is written is
  never overtaken by the watermark, unless an attempt at exactly that was given up.
* **Accounts, sessions, tokens, limits.** Reads before writes, responses in any order, caches and
  counters with an expiry. Correct: one first owner, an access token of somebody who signed in there,
  a revoked ingest token dead within the TTL, no more attempts than the limits say.
* **Scripts, clusters, chat threads.** Several writers number, replace and append without a lock.
  Correct: a version names one script, clusters and assignments agree, an answer stands behind its
  own question.
* **Live streams and scope.** A stream compares what it sent with what is there; the chat's SQL must
  see what the endpoints show. Correct: a stream at rest shows the latest, and nobody sees more
  through one door than through the other.

`PROJECT.json` lists each hazard at its line, with the properties that guard it, or the reason why
none does.

## 2. Modules

`CallStore` is the database behind the pipeline: the tables, the reads and the writes as operators.
`CallPipeline` extends it with the actors, and implements `CallLife`. `MCCallPipeline` gives small
instances; `CallPipeline_proofs` has, in three parts, the theorems that hold of all of them, those that
need ids that agree, and those about calls that are renamed on the way. `Backfill`, `MCBackfill` and `Backfill_proofs` do the same for
backfill jobs. The two meet in the `call` table only; what the other writers do to it appears in
`Backfill` as `OtherInsert` and `Erase`. What `Store` does in one step when it analyses is the subject
of `Analysis` and the modules of pure rules; the other components run in `MCServices`.

A component that a theorem is about is extended by the MC module, so the property TLC checks and the
property proved are one definition: `MCServices` and `MCAnalysis` extend all of theirs. Their common constant is `None` (module
`NoValue`, the absent column, key or field); their `Init`, `Next` and `Spec` bear the component's
name. The theorems of a component are in
`Services_proofs` (who gets in and what they see: accounts, sessions, scope, limits; and what runs
beside the pipeline: poller, clusters, live streams), `Agents_proofs`
(scripts, tokens, the receiver, and what is written while a model answers: judging, chat threads),
`Analysis_proofs` (the loops over spans, utterances,
events and frames), `Trace_proofs` (from fragments to a trace, its turn ids and its rows) and
`Measures_proofs` (interval lists, talk metrics, the waterfall, the word error rate).
`Induction` has what several of them need: induction and recursion over the naturals.

### CallStore

A span batch is an element of `Record`. What matters about its spans is a function of it: `TraceOf`,
`HintOf` (the call id on the resource or a span), `RootRecord`, and whether it makes `process()`
raise (`Breaks`) or be unsupported (`Unsupported`). `calls` is the `call` table by primary key; a row
keeps the columns some decision reads: the two ids, the gates, the status, the metric version (as
`analysed`), and `covers`, the fragments its current analysis was computed from. `older` keeps
`last_activity_at` as the order it induces, which is all `ORDER BY` and the grace cutoff see.
`frags` counts `raw_fragment` rows per call and batch: a count, because the table has no unique
constraint and doubling is what `store_fragment` must prevent.

Postgres runs READ COMMITTED. The operators split accordingly: reads (`Identified`, `Found`) take
the table as it is when they run; writes (`Flushed`, `Upserted`) take the row as it was *loaded*
(`seen`) and the row as it *is*, because SQLAlchemy writes only the columns that differ from what it
loaded; `Rejected` is a flush the database refuses, by `UNIQUE(external_call_id)` or because its
UPDATE matched no row.

### CallPipeline

Each consumer has a program counter:

| Step | Code | pc after |
|---|---|---|
| `Poll` | `main`: `consumer.poll` | `identify` |
| `Identify` | `handle_record` up to the tombstone check | `upsert`, `store` (no identity), or `commit` (dropped) |
| `Upsert` | `upsert_call`'s two selects | `store` |
| `Store`, `StoreUnattributed` | the flush, `store_fragment`, `_ready_now`, `process`, database commit | `enqueue` or `commit` |
| `EnqueueJudge` | `enqueue_judge` after the commit | `commit` |
| `AttemptFails`, `EnqueueFails` | the `except` of `_consume_one` | `identify` again, or `dlq` |
| `ToDlq` | `_to_dlq` | `commit` |
| `CommitOffset`, `CommitRefused` | `consumer.commit` | `poll` |
| `FlushSelect`, `FlushRead`, `FlushCommit`, `FlushAborts` | `flush_due` between two polls: the select, what `process` reads of one call, the commit | `flush`, `flush`, `flushEnqueue`, `poll` |
| `Crash`, `Rebalance` | the process dies; the group moves a partition | |

`Store` is one step although it is several statements: `upsert_call` always changes
`last_activity_at`, the first flush therefore locks the row (or inserts it under the unique
constraint), and the lock is held to the commit, so no other writer of the same call gets in
between. Everything before that flush is interleaved freely with the other actors.

A sweep has no such lock. `process` reads the fragments of one selected call after another
(`FlushRead`, into the worker's `got`), and one commit stamps them all (`FlushCommit`). In between another
consumer may store a batch of such a call, or analyse it; the sweep then commits an analysis of what it
had read. At the latest when a sweep comes to its second call, autoflush writes the first and locks it; the
model leaves these locks out and lets the reads come in any order, so it has every behaviour of the code and
some more.

`RegisterLoad`/`ReconcileLoad`/`RegisterCommit` are the upload endpoint and the reconcile sweep,
`EraseLoad`/`EraseCommit`/`EraseFails` the erasure: each loads the call, and writes later.

The log of a partition is a constant sequence. A record nobody has polled yet cannot be told from
one that has not been sent, so every timing of the producers is covered; what a producer can choose,
the partition, is chosen by the instance. The judge queue and the dead letters are sets: the
pipeline never reads them.

Faults are enabled by the constant `Faults` (`db`: any statement of an attempt fails; `broker`: a
send fails; `crash`; `rebalance`: of a partition whose owner is between records; `eviction`: of one
whose owner is at work). `crash`, `rebalance` and `eviction` together happen at most `MaxFaults`
times; retries are bounded by `MaxRetries` as in the code; primary keys by `CallPk`.

### CallLife

What a reader of a call relies on, without consumers, offsets, transactions, retries or sweeps: per
call a phase, a name, a buffer of batches, the batches its analysis covers, and the set of calls the
judge was asked for. `CallPipeline` defines the refinement mapping `Life`, an `INSTANCE` of it in which
the phase is read off a row (`Phase`), and `ImplementsCallLife` is `Life!Spec`: every step of every
consumer, endpoint, sweep and fault is a step of the abstract call or leaves it as it is. It says in
one formula that an analysis made as a batch comes in is of everything collected, and one made by a
sweep of batches collected by then, the root among them in either case (what a sweep misses is
spelled out in section 5); that only analysed calls are asked about; that a batch is collected once; that an erased call is empty and stays
so.

### Backfill

`job` is the `backfill_job` table, `call` the two columns of `call` that matter here (`status`, and
whether `metric_version` is set), `sidecar` the local state of `run_job`.

| Step | Code | pc after |
|---|---|---|
| `ClaimRead`, `ClaimWrite` | `claim_next`: the select; the write | `claim`, `scan` |
| `ScanFails`, `Scan` | `run_job` to the commit of `running` | `idle`, `loop` |
| `Stop` | `_is_cancelled` says so: `_finish` | `idle` |
| `Select` | not cancelled; `ensure_audio_call` or `upsert_call` selects the row | `file` |
| `Process` | analysis, counters, one commit | `enqueue` or `loop` |
| `FlushRaises` | the row changed under the selected one; the handler does not roll back | `down` |
| `Enqueue` | `enqueue_judge` after the commit | `loop` |
| `Cluster`, `Done` | status `clustering`; `_finish` | `clustering`, `idle` |
| `Crash`, `Restart` | the process dies; is started again | `down`, `idle` |

`Create`, `CancelRead` and `CancelWrite` are the endpoints: a cancel request reads the job and writes
it in one transaction, but takes no lock for the read, so the two are separate actions. Between
`Select` and `Process` the row may be inserted or erased by others: the flush then inserts a
duplicate, or updates no row, and raises (`Stale`). From the first flush to the commit the row is
locked, so `Process` is one step. Sessions are made with `expire_on_commit=False`; `_is_cancelled`
expires everything first, which is why it sees the cancellation of another session (the mutant
`IsCancelledCached` is that line removed). What may become of a file is `Outcome`, by source: an
analysis of recordings reports failures on the call and does not raise, an OTLP file can be
unreadable before any row is touched, a manifest either raises or succeeds. `late` is a history
variable: the files committed while the row said `cancelled`.

### The analysis of one call

`MCAnalysis` holds nine parts that share no state; `part` says which one a behaviour is about. A part
that is a loop in the code has a module with variables, and a step is one turn of the loop; in a part
that is a function of a trace or a recording, the input grows by one
element in a step, so that the property is evaluated at every input up to the bound. The inputs of
`AudioIntervals`, `Waterfall` and `GroundTruth` are variables of theirs, `talk`, `turnSpans` and
`claimed`, and grow by an utterance, a span, a report, a turn or a word as `Clock`, `Read`, `Moment`
and `Word` allow, so that a theorem is about all of them. A recording has utterances on both channels;
the agent's side of its metrics are the spans of the call, or, in a recording without any (`traced`), the
agent's utterances. Those utterances count towards the duration in either case (`calculator.py:526`), so an
agent heard after its last span leaves a silence at the end. In `Analysis` a fragment carries the number
of its shard within its request, and `process` orders by that alone: which of several with one number
comes last is the database's choice (`Payloads`).

| Module | Code | What it is |
|---|---|---|
| `Intervals` | `core/audio/intervals.py` | union, intersection, difference, complement and total of lists of windows |
| `AudioIntervals` | `core/audio/metrics.py`, `calculator._audio_metrics` | talk ratio, dead air, barge-ins; both channels of a recording |
| `Vad` | `core/audio/vad.py`, `padding`, `quality.dropout_count` | the voice activity loop, a frame per step |
| `TurnIds` | `frameworks/generic.py`, `livekit/adapter.py` | which exchange a span belongs to |
| `TurnSpans` | `calculator._turn_spans` | one anchor per exchange, spans in any order |
| `DerivedTurns` | `calculator._turns_from_events` | turns from events when there are no TURN spans |
| `Waterfall` | `calculator.build_turn` | anchors, stage durations, the unattributed rest |
| `AudioOnly` | `process_audio_only`, `audio_stt.py`, `diarize/`, `layout.py` | a recording without spans |
| `GroundTruth` | `groundtruth/` | word error rate, first audio, what counts as material |
| `Analysis` | `worker/process.py` | fragments to trace (`assemble`), rows replaced, columns of the call, trust report |

### The services

`MCServices` holds thirteen parts in the same way.

| Module | Code | What it interleaves |
|---|---|---|
| `Judging` | `worker/judge.py`, `judge/`, `api/judge.py`, parameters in `api/agents.py` | realtime and backfill requests, redelivery, the on-demand endpoint, parameters before or after the request, another analysis, erasure |
| `Poller` | `worker/poller.py`, `integration/` | a sweep with artifacts written, and manifests registered, meanwhile; failures in the middle |
| `Accounts` | `api/auth.py`, `auth/__main__.py`, `api/orgs.py`, `db/provision.py` | three ways to the first owner, invitations, roles, grants, removal |
| `Sessions` | `auth/refresh.py`, `api/auth.py` | refresh requests and their responses in any order, logouts, organisation switches |
| `Agents` | `api/agents.py`, `api/ingest_config.py` | script updates of several writers, statement by statement; deletion |
| `Ingest` | `services/ingest` (Go), `api/ingest.py`, `ingestion.py` | records of one batch that fail one by one, the answer, the retry |
| `TokenCache` | `tokencache.go`, `authpg.go`, `auth/tokens.py` | slow verifications, revocations, the LRU and its clock |
| `Threads` | `api/chat.py`, `api/call_chat.py`, `chat/agent.py` | two questions in one thread, tool rounds, deletion |
| `Clusters` | `clustering/`, `worker/clustering.py` | overlapping passes, calls leaving the window |
| `Boards` | `api/boards.py` | changes stamped and not yet committed, and changes that stamp nothing (`Rewrite`), the statements of a cursor and of a snapshot, a window that cuts buckets |
| `JobStream` | `api/backfill.py: _stream` | the job, its stream, and other calls coming in |
| `Streams` | the two together | - |
| `Limits` | `ratelimit.py`, `api/auth.py: login` | logins at once, expiring keys, Redis errors |
| `Scope` | `auth/deps.py`, `db/agent_views.py`, `chat/sql.py`, the reading endpoints | every membership and every assignment of calls to agents |

### Properties

| Property | What could break it |
|---|---|
| `NoRecordSkipped` | an offset committed for a record that was neither stored nor dead-lettered |
| `FragmentAtMostOnce` | redelivery, or two consumers on one record, doubling the spans of a call |
| `ImplementsCallLife` | the span gate ahead of the buffer after a failed attempt, a request sent before or without its analysis, an analysis on the fast path of fewer batches than were there, one of any kind without the root |
| `ErasedLeavesNothing` | a consumer or an upload finishing after the erasure |
| `StragglerDropped` | a batch of an erased call accepted after the erasure |
| `OneCallPerTrace`, `IdentityStable`, `NothingUnattributed` | lookups by trace and by id, renames, and two consumers |
| `EveryRecordConsumed` | a poison record that blocks its partition |
| `CompleteIsAnalysed`, `AnalysedIsJudged` | readiness paths that miss a call, requests that are not sent |
| `CountsMatch` | exceptions, collisions and crashes that leave a file uncounted, or counted twice |
| `CancelStops` | a check that reads a stale status |
| `NotRunTwice` | a claim, a late cancel or a restart that revives an ended job |
| `AskedAfterCommit` | a request ahead of the commit, or after an exception |
| `JobSettles` | a job left behind that blocks the queue |
| `TimeAccounted` | intervals that touch, overlap, are empty or lie before the recording; silence after the last word |
| `RegionsAreBreaths` | a pause of exactly the hangover, a recording that ends in one |
| `OneAnchorPerExchange`, `NearestTurnWins`, `AgentAnswersPrecedingTurn` | spans stored out of order, without a clock, nested, or without their parent |
| `AnswerFollowsItsQuestion`, `TranscriptInOrder` | anybody speaking twice, first, last, or not at all |
| `UnattributedIsUncovered` | overlapping stages, holds and missing ends |
| `RowsAreOfLastAnalysis` | rows, columns or reasons left over from an earlier analysis |
| `MaterialIsMeasured` | a distance or a band off by one, a recogniser that fails |
| `JudgmentIsWhole` | a failed, skipped or repeated judging that leaves columns of the one before |
| `NothingOvertaken` | a watermark taken from the sweep's newest object, or moved past a failure |
| `FirstOwnerOnly` | two ways to the first owner at once |
| `SignedInThere` | a rotation in an organisation other than the token's |
| `VersionNamesOneScript` | numbers given out twice, or a newest version that is not in force |
| `AckedIsOnTopic` | an acknowledgement of a batch of which a record failed; keys that depend on the encoding |
| `RevokedWithinTTL` | an entry put after the revocation, or renewed by a hit |
| `AnswersItsQuestion` | two questions in one thread that share a number, or an answer behind the other's question |
| `ClustersAgree` | two passes that delete and insert over one another |
| `LatestIsShown` | a cursor that a stamp does not move; a job read after its calls |
| `LimitsHold` | a counter or a lock that requests at once outrun |
| `ChatSeesWhatApiShows` | a NULL agent, a bound call, or an empty list that widens the view |

Each has a mutant in `PROJECT.json`: a plausible bug in the code it is about, under which TLC finds it
violated.

## 3. Runs

| Run | Expect | Instance | What it shows |
|---|---|---|---|
| `Hinted` | pass | one call, two batches with its id, one partition, two consumers, one recording, erasure, all faults, two crashes or moves | the safety properties of delivery, analysis and erasure under every fault (1.6 million states) |
| `Mixed` | pass | two partitions; a call of three batches of which only the root carries the id and the third breaks `process()`; a second trace without any id; database errors, one crash or rebalance | identity by trace and promotion to the producer's id (1.7 million states) |
| `Live` | pass | two calls, one unsupported, a batch without identity, an unreadable batch; no faults; fairness | everything is consumed, analysed or found unsupported, and judged |
| `TombstoneAlias` | violation | `Mixed` with one consumer and an erasure | a straggling batch without call id resurrects an erased call |
| `PoisonSweep` | violation | two calls, one of which breaks `process()`, `worker_batch` 1 | the sweep is starved by one poisoned call |
| `SplitCall` | violation | the root batch in one partition, the others in another | one trace becomes two calls |
| `Backfill` | pass | two jobs over one store: the recordings of two calls, then an OTLP export whose content names the other call; one cancel request each, one crash, erasures and inserts by others; fairness | all properties of the job (241 thousand states) |
| `JobAborted` | violation | one manifest job, no crash | a call inserted by another writer at the wrong moment ends the job for ever |
| `Analysis` | pass | nine parts (bounds below) | every property of the analysis at every small input (1.1 million states) |
| `Services` | pass | thirteen parts (bounds below) | every property of the services in every interleaving of the instance (2.9 million states) |
| `Torn` | violation | `Judging` with the worker and the on-demand endpoint, one request | two judges write one row column by column: a failure's causes on a success |
| `TwoActive` | violation | `Agents` with two writers | two script updates at once leave two versions active |

**Bounds.** Two consumers are enough for every race between a slow consumer and its successor; two
batches for a gate that closes after, and one that closes before, the last fragment; three for a
batch on either side of the root. Two primary keys let an erased or unnoticed call be inserted a
second time. `MaxRetries` 2 gives both a second attempt and the dead letter (the default is 5, and
attempts differ only in their number). Two faults allow an eviction and a crash of the successor.
`Batch` 1 makes `ORDER BY ... LIMIT` matter with two calls. For backfill, two jobs are what ordering
and a job left behind need, two files make one "in hand" and one to be stopped before, one cancel
request per job suffices because a second one meets a final status or repeats the first, and one
crash leaves one job behind; `manifest` has the outcomes of `otlp` but two, and runs in the
violations. Logs and jobs are finite, so the system stops
when everything is done: deadlock is not checked.

In `Analysis`: a recording of five units (`Clock`) with three utterances or spans between the caller, the
agent's channel and its spans (`MaxSpoken`; the agent's clock up to one unit ahead, `Offset`) and a stretch of padding, which makes every way two intervals can
touch, overlap or be empty, on either side of the start; nine frames at a hangover of two and a
minimum of two, enough for a blip, a pause on both sides of the hangover and an open end; traces of
three spans with any parents and turn ids (an ancestor between two others, a cycle, a parent that never
arrived); three
TURN spans of one exchange on a clock of two ticks; four events, four utterances; a turn with two stage
spans and two of speech (`MaxSpans`); two turns with any of nine first audios around a band of three, or transcripts of up to
five words (`MaxWords`), since a fifth is the threshold: all of one track's, and of both tracks those
with two words between them (`MCClaims`); four spans in two fragments, each the first or the second shard of its request (`MaxShards`), and two
analyses, with the overlay and the recording changing in between.

In `Services`: two clients or writers wherever any number may race (the races are between one that
read and one that wrote since), one agent, one browser, one thread with a second beside it; three
tokens for a family of two and a second login; a TTL, a grace period and a window of one to three
ticks on a clock of four to six, so that each expires and one more tick passes; three files, so that
the stream's turns fall before, in and after a job, with `BoardsEvery` 2; three calls of two agents for
the clusters and, some without an agent, for the scope. `Judging` is checked with one judge: with two
it does not hold, which is what `Torn` shows.

**Symmetry.** Consumers are interchangeable, and so are clients and the calls of a board: `Sym`
permutes them in the runs that check invariants only.

**Fairness** (`FairSpec`). A consumer in the middle of a record or a sweep goes on (`WF`): the loop
body has no wait but the retry pause. `Poll` and `FlushSelect` are each taken if enabled again and
again (`SF`): `main` polls in every turn and sweeps every `worker_poll_s`, so each is regularly
enabled and tried, but neither continuously, since the other one disables it. The sweep that is
fair is the one in which every call has waited out the grace window: without new activity it comes.
Nothing is assumed of producers, endpoints, erasures or faults. In `Backfill`, `WF(Sidecar)`: the
loop of `main` never waits for anybody, and a dead process is started again by whoever runs it. The
latter is the deployment's to grant (`docker-compose.yml` has no restart policy for the service);
`JobSettles` needs it after a crash only.

## 4. Proofs

`CallPipeline_proofs` proves, for any constants that satisfy `RecordAssumption` and
`PipelineAssumption` (any numbers of records, partitions, consumers, calls, retries and faults):

* `TypeCorrect`: `Spec => []TypeOK`. One lemma per action or group of actions, over lemmas on what
  the operators of `CallStore` return (`FlushedType`, `StoredType`, `UpsertedType`, ...) and on the
  moves of a consumer (`StepType`, `RestType`, `RetryType`).
* `AtLeastOnce`: `Spec => []NoRecordSkipped`. `NoRecordSkipped` alone is not inductive: an offset
  commit jumps to the position of the record in hand, and nothing in the property says that this is
  the next one, or that it was stored. `OneRecordInFlight` says the first (the *owner* of a partition
  has at most the one record after the committed offset; an evicted consumer may hold any record,
  but its commit is refused), `CommitsAfterStore` the second. `AccountedStable` shows that no step
  loses a record: fragments are deleted by erasures only. `SameRecord`, `InFlightKept`,
  `InFlightMoved` and `ReachesCommit` split the induction step by what happens to the record in hand.
* `ErasureComplete`: `Spec => []ErasedLeavesNothing`. Inductive with `TypeOK`: `FlushedKeepsErased`
  shows a flush neither revives nor creates an erased row, and `_call_pk` only returns live ones.

`Backfill_proofs` proves every safety and action property of `Backfill` for any jobs, listings,
sources, ids, cancellations and crashes that satisfy `BackfillAssumption`: `BackfillTypeCorrect`,
`ProgressAddsUp` (`CountsMatch`), `CancelIsPrompt` (`CancelStops`), `EndedIsEnded` (`NotRunTwice`) and
`JudgeAfterAnalysis` (`AskedAfterCommit`). One inductive invariant, `JobInv`, carries them all. Its
part `RowInv` says of each row what no single property does: a job absent or queued has counted
nothing, one that ended has a final status and is in nobody's hands, one that is clustering or done
has counted everything, and at most one file was late. Its part `SidecarInv` ties the row in hand to
the program counter: which statuses it can have (the one written last, or `cancelled`), that nothing
is counted before the listing is, and that while files are analysed the counters are the loop's
position and the total the listing's length. Two of its conjuncts make the properties inductive: a
late file leaves the row `cancelled` and a file is taken only when nothing is late, so the check after
a late file can only stop; and at `enqueue` the call of the file just committed is analysed or
erased. Each action has its lemma, over small ones on what one status write does
(`OneRow`, `KeepsOn`).

The second part of `CallPipeline_proofs` assumes `IdsAgree`: every batch names a call or a trace, and the
batches of one trace all bear the same call id or all bear none. `Hinted` satisfies it; `Mixed` does not,
and is the subject of the third part; `SplitCall` and `TombstoneAlias` show two properties failing when
it is not met. Under it a batch
has one call, `CallOf`, and the invariant `CallInv` says:

* `RowsNamed`: a row bears the id of the batches whose trace it has, and an erased one has left its
  tombstone; `OneLiveRow`: no id has two live rows;
* `BufferNamed`: a stored batch is in the buffer of its own call, which is live, once;
* `GatesFounded`: what closed the span gate, or made the call unsupported, is in that buffer;
* `ConsumersCurrent`, `ErasuresCurrent`: what an actor loaded and still holds is true of the rows it will
  write: an id resolved stays resolved, a row found keeps its id, what was due is still complete.

From it follow `OneCall` (`OneCallPerTrace`), `FragmentOnce` (`FragmentAtMostOnce`: the flush takes the
lock, so the check of `store_fragment` sees every committed copy), `AllAttributed`
(`NothingUnattributed`), `NeverRenamed` (`IdentityStable`) and `StragglersDropped` (`StragglerDropped`: the
id a batch resolves to is the one the tombstone was left for). `LifeImplemented` is the refinement:
`Spec => ImplementsCallLife`. The part `ReadsFounded` of `CallInv` is for the sweep: what
it has read of a call is in the buffer still, the root among it, as fragments go only with their call
(`ReadsKept`). The step lemmas compare `Life`'s variables, as the mapping computes them
from the rows, before and after each action: a `Store` is a `Collect`, with an `Analyse` when the gates
are closed; a sweep analyses the calls it took (`Analyse`); a recording reopens a call for analysis (`Retry`), a judge
request is an `Ask`, the commit of an erasure an `Erase`; everything else leaves the calls as their
reader sees them. `CallInv` is needed for `Collect` (the batch is in no buffer yet), for `Analyse` (the
root is among what was collected, or read by the sweep) and for `Ask` (what is asked about has been analysed).

The third part of `CallPipeline_proofs` is about calls of which only some batches bear the id: the row is
found by the trace and *promoted* to the id once a batch brings it. It assumes two things. By
`OneTraceOneCall`, every batch has a trace, two call ids are equal just when their traces are, and an id that
looks like a trace is that of its own. By `CoPartitioned`, batches of a trace share a partition, and no
partition is taken from a consumer at work. `Mixed` satisfies both; the comment in `ingestion.py:61-62`
takes the first half of `CoPartitioned` for granted, `SplitCall` shows `OneCallPerTrace` failing without it.
The second half is needed too: with one eviction in `Mixed`, TLC finds each of the four properties below
violated, as the evicted consumer writes by what it found before another one renamed the row. Crashes, rebalances
between records, failed attempts and redelivery, sweeps, recordings and erasures are all allowed. The
invariant `PromotionInv` says:

* `RowsTraced`: a row is of one trace for good and bears that trace or the id its producer wrote;
* `BufferTraced`: a stored batch is in the buffer of the live row of its trace, once;
* `OwnersAtWork`: who is at work on a record still has its partition, so only one consumer is at work on
  a trace (`OneAtWork`);
* `ConsumersKnow`: what that consumer resolved and found is still so. The row bears the id resolved, or
  the trace that this id is about to replace; a row it found may have been erased since, but
  not renamed, and where it found none there is none.

So a store renames at most from the trace to the id (`StorePromotes`), and nobody else renames, bears or
revives a row (`Fades`). From it follow `OneCallPromoted` (`OneCallPerTrace`), `FragmentOncePromoted`
(`FragmentAtMostOnce`), `AllAttributedPromoted` (`NothingUnattributed`) and `RenamedOnce`
(`IdentityStable`). `StragglerDropped` is not among them: `TombstoneAlias`, which satisfies both
assumptions, shows it false.

`LifePromoted` is the refinement there. It needs a third assumption, `RootNamesCall`: where a producer
names the call on any batch of a trace, it does so on the one with the root, the span in which `identify`
looks for the id first (`ingestion.py:105`). A call is analysed only once its root is there, so its name
is settled before anybody asks about it. `Mixed` satisfies it, and TLC finds no error there when it is given
`ImplementsCallLife` too. `LifeInv` adds to `PromotionInv`, and to `GatesFounded` and `ReadsFounded` of the
second part:

* `RowsSettled`: a call whose spans are complete bears the id its producer chose, if it chose one, so no
  later batch renames it (`SettledStays`);
* `ConsumersPursue`: what a consumer goes by without reading it again is still so: a batch that names its
  call carries that id, the calls of a sweep are complete and bear the ids selected, and each id the judge
  will be asked about is that of a call that is complete and analysed.

A store gives what `RowsSettled` needs of the row it writes (`StoreLasts`), and no step takes it back
(`Lasts`). The steps themselves are mapped by the lemmas of the second part: `CollectsIsCollect` for a
store, `NextLife` for the rest, which ask only what both invariants provide. The third assumption cannot be dropped: with a
root that does not bear the id, while another batch does, TLC finds a sweep by a second
consumer that asks the judge about the trace, when the batch that names the call has renamed it between the
select of the sweep and its request.

The services are proved for any number of clients, tokens, calls and steps, from one inductive
invariant each:

| Theorem | Property | Assumes | What the invariant adds |
|---|---|---|---|
| `OneFirstOwner` | `FirstOwnerOnly` | founders and guests are disjoint | the organisation is there once somebody is; signup and bootstrap, which go on only where nobody is, insert it and never adopt one, so the second meets its key |
| `AccessIsEarned` | `SignedInThere` | - | every refresh token, and every cookie in a response on its way, is of a sign-in (`Issued`, `Earned`) |
| `JudgedWhollyByOne` | `JudgmentIsWhole` | `OneJudge` | the row as the judge holds it differs from the row stored only in what this judging has written; `Torn` has two judges |
| `VersionsNumbered` | `VersionNamesOneScript` | - | versions are numbered from 1 without a gap, and a writer that counted them knows the number it may still use |
| `LimitsKept` | `LimitsHold` | finitely many visitors, `LockoutMax` at least 1 | while a lock stands, the failures it counted and the requests past its check are no more than the property allows, and what it leaves behind when it ends is old; what was admitted of late is of the present window, or of the one before and then within its limit |
| `OneScope` | `ChatSeesWhatApiShows` | - | none: the views and the endpoints are compared clause by clause, over every membership and assignment of calls |
| `AnswersStandBehind` | `AnswersItsQuestion` | - | the messages of a thread are numbered from 1 without a gap, a request's number is behind all it read and not past the next, and while it waits for the model its question stands there under that number |
| `RevokedDies` | `RevokedWithinTTL` | capacity at least 1, any TTL and delay | each entry and each verification under way was read before the revocation, or not long after; a token is cached once |
| `AckedIsWhole` | `AckedIsOnTopic` | the base64 form of an id is not an id | each record of the batch in hand is yet to be produced, failed, or on the topic |
| `NeverOvertaken` | `NothingOvertaken` | grace window of at least one tick | the sweep's listing is still what is stored, or what changed since is ahead of the watermark and of every call still to come |
| `ClustersStayWhole` | `ClustersAgree` | finitely many calls | the clusters and the calls placed in them were written by one pass, and a pass that read others fails on a unique constraint |
| `StreamsTold` | `LatestIsShown` | finitely many files and calls of a job, apart from one another; `BoardsEvery` and the bucket at least 1 | a rewrite keeps the stamps, of which alone the property speaks (section 5 has the rest); a stamp a cursor has seen is spent: no open transaction holds it, so it comes to no other call, and one that is committed later is newer or moves the cursor; what the files of a done job left is frozen |
| `AnchoredOnce` | `OneAnchorPerExchange` | - | `_order_key` is a strict order |
| `AnswersFollow` | `AnswerFollowsItsQuestion` | - | a group without a word of the caller is the first, and none was said before it; a group knows whether the agent is heard in it; a closed one ends where the next begins, so later events are no part of it |
| `TranscriptTold` | `TranscriptInOrder` | - | what is pending is the last thing the caller said since the last turn, and whoever spoke first is known from the first utterance on, so roles never change |
| `RowsOfLast` | `RowsAreOfLastAnalysis` | - | the rows are what the last analysis makes of the fragments it read, in one of the orders that follow their numbers, the discrepancies of an older one excepted, and the columns what it makes of a row it found empty or not, which is the same |
| `TimeAlwaysAccounted` | `TimeAccounted` | times are whole numbers, windows of padding have a length | utterances have a length (`TalkTyped`); they may touch and overlap |
| `UnattributedAlways` | `UnattributedIsUncovered` | times are whole numbers, `None` is none | spans and reports have the types read (`TurnTyped`) |
| `NearestWinsAlways`, `AgentAnswers` | `NearestTurnWins`, `AgentAnswersPrecedingTurn` | the absent turn id is none that is written | none: they hold of every trace |
| `MaterialAlwaysMeasured` | `MaterialIsMeasured` | times are whole numbers, `None` is none and no text | turns, texts and what was heard have the types read (`ClaimedTyped`) |
| `BreathsFound` | `RegionsAreBreaths` | the hangover is a number of frames | a closed region is a breath and the pause that ended it lies behind it; the open one is a breath up to its last speech, `gap` frames ago; before every sample as many zero runs have begun as have ended, and one more inside a run |

`LimitsHold` is no invariant of the counters alone. A lock that ends forgets failures that are still
in the history, so the invariant has to say that none of them is of late by then; and a window begins
anew while requests of the last one are still of late, so it has to split what was admitted in two, each
part within the limit. Where Redis fails (`_safe`) a request is let in unchecked, or a failure is counted
without a new expiry; those requests the property leaves out, but their counting does not loosen it for
the others.

The assumption of `NeverOvertaken` is the default's (`poller_grace_s` is 600 s, `config.py:104`): with no
grace, what is written at the time of a sweep, after its listing, would be behind the watermark.

Two more kinds of proof. That the mask's edges, zipped, are the runs needs a count over all samples; but
frames come one at a time, and that the counts agree at every sample so far is an invariant of the loop,
as is that the samples with audio have a first and a last one. Where the code is a function of its whole
input, there is no loop to carry an invariant, and `Induction` takes its place. The library's induction
theorems are schemas over an operator, which the provers cannot instantiate; `NaturalInduction` says the
same of a set (a set of naturals with 0 and the successor of each of its members has all of them, since
between 0 and the first one it lacks there would be more numbers than pigeonholes), and
`RecursionExists` that a function defined from its own predecessor exists. With them `Trace_proofs` shows
what `Assemble` returns for any list of fragments (`AssembleIs`), and that `Climb`, which takes as many
steps as there are spans, finds the nearest stop there is above a span, in any nesting, with cycles and
missing parents (`ClimbFinds`, `ClimbNearest`). A climb looks at parents only (`ClimbSame`), so it is the
same before and after turn ids are filled in; that is all the second pass, and the pairing of agent turns
between the two, need.

`Measures_proofs` begins with a theory of `intervals.py`, of the same kind: every loop there is a function with a
loop invariant. Sorting a finite set of windows lists each once in order (`SortedIs`); a merge is a
list of windows that stand apart, neither overlapping nor touching, and covers what the set covers
(`MergeIs`); the total of a list that does not overlap is the number of unit instants it covers (`TotalIs`);
an intersection, a difference and a complement cover what their names say and keep the order
(`IntersectIs`, `RunsSubtracted`, `GapsAre`). What makes the metrics more than set algebra is that dead air
looks at each gap on its own: two gaps that touch, with only an empty agent span between, are two, and a
cut by padding makes new ones. `Runs` says that the windows of a list are the maximal silent stretches
between such marks; complement makes such a list (`GapRuns`), each cut keeps it one
(`RunsSubtracted`), and of such a list the windows that last `MinGap` add up to the instants of
stretches that long (`LongRuns`). For the waterfall the clipped segments are a set of windows inside
the latency, so what the union leaves of it is neither negative nor counted twice (`UncoveredIs`).

Its second part is about the word error rate. The property says what makes a transcript diverge without
the table that computes it: over every way to align the words said with the words heard, in order, too
many are left to edit. The proof gives each cell its meaning: the cell of the first `i` words said and
the first `j` heard is the least number of edits over their alignments (`Cheapest`). An alignment
of `i` and `j` words does one of three things with the last two: it leaves the one said unheard
(`Dropped`), pairs the two (`Paired`), or has the one heard beside the rest (`Beside`); each is
an alignment of fewer words and one edit more, or none for a pair that is equal, so a cell is what its
three neighbours make it (`CellIs`). Induction along a row and over the rows carries this to the corner
(`TableIs`, `RowIs`, `DistanceLeast`), and `RoundedOver` to the rate as it is rounded.

Model-checked only, and why:

* liveness: `EveryRecordConsumed`, `CompleteIsAnalysed`, `AnalysedIsJudged`, `JobSettles`;
* the identity properties and the refinement in instances that meet neither `IdsAgree` nor the
  assumptions of the third part: only the failures there are known.

No module with a theorem declares, or reaches, a `RECURSIVE` operator.

## 5. Where the code and what is said of it differ

The six violation runs are reproduced disagreements, quoted in `PROJECT.json` (`findings`). The models
follow the code. Three more are stated in the modules as
what a comment of the code promises, and are a property of no run because the code does not keep them; add
one as an INVARIANT to the `.cfg` named and TLC finds it violated at once:

* `LastWriteWins` (`Analysis.cfg`). `process.py:60-61` says "Last write wins - a retry carries the more
  complete span". Fragments are read in the order of `seq` alone (`process.py:88`), the place of the call's
  shard in its request (`ingestion.py:84`, `shard.go:75`), so a copy sent later under a lower number loses,
  and among equal numbers the database decides. `RowsAreOfLastAnalysis` says what does hold: the copy shown
  is one that no other follows by `seq`, and the same one everywhere.
* `ThinAudioAccusesNobody` (`Analysis.cfg`). `report.py:8-9` says "too little real audio -> `unverifiable`,
  never `material`", and 81 that coverage below `min_coverage` gates a channel's checks. `service.py` never reads
  `min_coverage`: a transcript or a first audio measured on a channel that is mostly missing is reported
  as material, which `MaterialIsMeasured` says too, at any coverage (the instance has two fifths).
* `UpdateIsShown` (`Services.cfg`). `boards.py:220` says the cursor "changes when a call is added/updated or
  judged". The analyses of the grace sweep (`process.py:254-330`), a reconciliation (`reconcile.py:82-85`)
  and `_fail` (`process.py:574-576`) change what a board shows and move none of its stamps, so an open board
  keeps the old figures until something else is stamped. `LatestIsShown` is about what is stamped.

Others met on the way, which no run shows:

*Pipeline.* A process that dies between the commit of an analysis and the judge request leaves a call
that is never judged: `run.py:79` finds it analysed already. The race between the tombstone check and
the insert (`run.py:72`); unattributed fragments doubled by redelivery; a status found unsupported
and then overwritten by a late upload; late batches that are never analysed; a sweep that stamps an
analysis of fewer fragments than are stored by then, also over a newer one of another consumer
(`run.py:101-105`, where `process` read them at 85-90), after which no path takes the call again; an erased id that came
back and cannot be erased again; child tables the erasure forgets; a call whose root does not name it,
swept under its trace while a later batch renames it, is never judged (`run.py:107`). `calculator.py:18` and
`config.py:9-10` promise a reason for every gap and a new analysis of every stored call on a version
bump; neither is always so.

*Analysis.* A greeting before any user turn is folded into the last one (`livekit/adapter.py:137-138`
against its 5-6). A user turn nested below an agent turn is itself given the exchange of the user turn
before it (155-160), although a later agent turn is folded into the one that starts with it; hence the
exception in `AgentAnswersPrecedingTurn`. The padding that `config.py:52-53` excludes never reaches the metrics
(`calculator.py:535`). Agent spans before the start of the recording make ratios exceed 1.
`build_turns` keeps the last of two utterances the caller says in a row (`audio_stt.py:67-68`).
Discrepancies of an earlier run stay when the overlay is off or raises (`process.py:160-162` says
"Rewritten each run"), and `duration_s` keeps an older value when the last copy of the root has no end
(373-374). Unattributed spans are counted in two ways (`process.py:269-272`, `calculator.py:620`).
`report.py:86` says that up to 20 % word error agrees; since the rate is rounded to thousandths first
(`service.py:99`), up to 20.05 % does: 81 errors in 404 words agree. `MaterialIsMeasured` says what the
code does, which is the same for texts of up to 400 words. A delta within its band is in the report,
as `agree`, where `service.py:10` and `report.py:6-7` say it is not emitted; what is stored is the
material ones only (`process.py:177`).

*Judging.* `FailureAnalysis._clean_conditionals` wipes the cause where `judge/run.py:78` says to keep
it; a non-failure still gets a model fault (99-103) that `schema_doc.py:58` says is null; an old
`no_params` error survives on the path for calls that never connected (48-51) and is counted as
awaiting parameters. `upload_call_params` sends the judge request before it commits
(`agents.py:532-533`).

*Backfill, poller.* Both create calls without looking for a tombstone (`process.py:442`; `models.py:14`
says an erased id does not come back). A cancellation can be overwritten by a status write; the judge
is asked for the id in a path although the file may name another. The watermark skips a call that
failed while a later one succeeded, and one with an equal time (`poller.py:12-15`). The live view of a
job never tells a call without audio, nor one that was there before the job (`api/backfill.py:194`), and ends before the file in hand on a cancel.

*Accounts, agents, tokens.* The revocation of a family after reuse is rolled back by the 401 that
follows (`refresh.py:6-7`). Removing a member who has grants fails on a foreign key; deleting an agent
omits its integration manifest. Revoking somebody's last grant lets them see all agents, as documented.
A crash between `INCR` and `EXPIRE` leaves a counter that never expires.

*Ingest.* The Python producer ignores what `flush` returns. The Go and the Python service take a call
id of `false` or `0` differently. A partial failure of `ProduceSync` is answered with an error and sent
again under a new batch id, so what succeeded is there twice. The Python service answers a corrupt gzip
body, or an unreadable protobuf message, with a 500 (`api/ingest.py:64-70`), the Go service with a 400.

*Boards, chat, clusters.* The failure rate counts some calls twice (`boards.py:107-134`); dispositions
are counted for calls outside every bucket (129 before 130); changes committed late under an older
stamp are missed by the stream, which is why `LatestIsShown` speaks of the newest. Nothing makes the
thread of a call unique; an answer is lost when its question's thread is written concurrently. Prose
that is judged again keeps its old embedding, and a unique conflict between two passes ends the
clustering sidecar.

## 6. Not modelled, and why

Within the pipeline: organisations (one schema is modelled; a consumer switches schema per record
and carries nothing over), the columns no decision reads, the contents of a payload, batches sent
but still in a producer's buffer, non-audio artifacts, transcripts and prompts, ownership by agent.
Time appears as order only; in `Backfill`, the read-only preview and the grouping of a listing by
regular expression.

In the analysis: the attribute mappings and JSONata expressions of the adapters (data tables), the
renames of the adapters other than the generic and the LiveKit one, percentiles, prices and costs, the
decoding of audio, energy thresholds and quality scores, the models behind transcription and
diarization (external: their answers are arbitrary).

In the services: prompts, transcripts and what a model says (arbitrary); passwords, email and signing
keys; storage credentials and the forms of the configuration; embeddings and HDBSCAN; percentiles,
paging and export formats; protobuf framing, compression and size limits.

Whole components: the telemetry client (best effort by design: every failure is dropped, and a flush
takes the buffer as a whole under its lock, so it promises nothing that an order of steps could break),
the storage drivers (I/O against external stores), the web interface (presentation), and the creation
and migration of schemas (DDL in one transaction per schema, generated by Alembic).

## 7. Plan

Every safety property a passing run checks is now stated by a theorem; what is left to TLC is listed at
the end of section 4. An extension would start from the model: the renames of the other adapters, and
several organisations, between which a consumer switches with every record.
