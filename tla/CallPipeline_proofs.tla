----------------------- MODULE CallPipeline_proofs -----------------------
(***************************************************************************)
(* What holds of CallPipeline for every set of records, consumers,         *)
(* partitions, faults and bounds.                                          *)
(***************************************************************************)
EXTENDS CallPipeline, TLAPS

Pc == Busy \cup {"poll", "flush", "flushEnqueue"}
MaybeId == CallId \cup {None}
MaybePk == CallPk \cup {None}
Frags == [MaybePk -> [Record -> Nat]]

-----------------------------------------------------------------------------
(* Lemmas: what the reads and writes of CallStore return.                  *)

\* identify resolves to an id or to nothing.
LEMMA IdentifiedType ==
  ASSUME DBTypeOK, NEW r \in Record
  PROVE  Identified(r) \subseteq MaybeId
  BY RecordAssumption DEF Identified, ByTrace, Live, DBTypeOK, Row, MaybeId

\* upsert_call's selects return a row of the table or nothing.
LEMMA FoundType ==
  ASSUME NEW i \in MaybeId, NEW r \in Record
  PROVE  Found(i, r) \subseteq MaybePk
  BY DEF Found, ByExternalId, ByTrace, Live, MaybePk

\* _call_pk returns a primary key or nothing.
LEMMA PkOfType ==
  ASSUME NEW t, NEW i
  PROVE  PkOf(t, i) \in MaybePk
  BY DEF PkOf, ByExternalId, Live, MaybePk

LEMMA UnbornType == Unborn \in Row
  BY DEF Unborn, Row, Status

\* A row upsert_call inserts or updates is a row.
LEMMA UpsertedType ==
  ASSUME NEW row \in Row, NEW seen \in Row, NEW i \in MaybeId, NEW r \in Record
  PROVE  NewRow(i, r) \in Row /\ Upserted(row, seen, i, r) \in Row
<1>1. TraceOf[r] \in MaybeId /\ (r \in RootRecord) \in BOOLEAN
  BY RecordAssumption DEF MaybeId
<1>2. NewRow(i, r) \in Row
  BY <1>1 DEF NewRow, Unborn, Row, Status, MaybeId
<1>3. Upserted(row, seen, i, r) \in Row
  <2> DEFINE ext == IF seen.ext # i THEN i ELSE row.ext
             trace == IF seen.trace = None THEN TraceOf[r] ELSE row.trace
             complete == row.complete \/ r \in RootRecord
  <2>1. ext \in MaybeId /\ trace \in MaybeId
    <3>1. row.ext \in MaybeId /\ row.trace \in MaybeId BY DEF Row, MaybeId
    <3> QED BY <1>1, <3>1
  <2>2. complete \in BOOLEAN
    OBVIOUS
  <2>3. Upserted(row, seen, i, r) = [row EXCEPT !.ext = ext, !.trace = trace, !.complete = complete]
    BY Zenon DEF Upserted
  <2> HIDE DEF ext, trace, complete
  <2> QED BY <2>1, <2>2, <2>3 DEF Row, MaybeId
<1> QED BY <1>2, <1>3

\* The flush of upsert_call leaves a call table.
LEMMA FlushedType ==
  ASSUME DBTypeOK, NEW i \in MaybeId, NEW k \in MaybePk, NEW seen \in Row,
         NEW r \in Record, NEW t \in Flushed(i, k, seen, r)
  PROVE  t \in [CallPk -> Row]
<1>1. calls \in [CallPk -> Row] BY DEF DBTypeOK
<1>2. CASE k = None
  BY <1>1, <1>2, UpsertedType DEF Flushed
<1>3. CASE k # None
  <2>1. k \in CallPk BY <1>3 DEF MaybePk
  <2>2. calls[k] \in Row BY <1>1, <2>1
  <2>3. Upserted(calls[k], seen, i, r) \in Row BY <2>2, UpsertedType
  <2>4. t = [calls EXCEPT ![k] = Upserted(calls[k], seen, i, r)] BY <1>1, <1>3, <2>1 DEF Flushed
  <2> QED BY <1>1, <2>3, <2>4
<1> QED BY <1>2, <1>3

\* store_fragment only ever adds to the buffer, and leaves the record in it.
LEMMA StoredType ==
  ASSUME DBTypeOK, NEW k \in MaybePk, NEW r \in Record
  PROVE  /\ Stored(k, r) \in Frags
         /\ Stored(k, r)[k][r] > 0
         /\ \A j \in MaybePk, s \in Record : frags[j][s] > 0 => Stored(k, r)[j][s] > 0
<1>1. frags \in Frags BY DEF DBTypeOK, Frags, MaybePk
<1>2. CASE k # None /\ frags[k][r] > 0
  BY <1>1, <1>2 DEF Stored
<1>3. CASE ~(k # None /\ frags[k][r] > 0)
  <2>1. Stored(k, r) = [frags EXCEPT ![k][r] = frags[k][r] + 1] BY <1>3 DEF Stored
  <2>2. frags[k] \in [Record -> Nat] /\ frags[k][r] \in Nat BY <1>1 DEF Frags
  <2>3. Stored(k, r) \in Frags BY <1>1, <2>1, <2>2 DEF Frags
  <2>4. Stored(k, r)[k][r] = frags[k][r] + 1 BY <1>1, <2>1, <2>2 DEF Frags
  <2>5. \A j \in MaybePk, s \in Record : frags[j][s] > 0 => Stored(k, r)[j][s] > 0
    BY <1>1, <2>1, <2>2 DEF Frags
  <2> QED BY <2>2, <2>3, <2>4, <2>5
<1> QED BY <1>2, <1>3

\* What process() writes to a row is a row.
LEMMA AnalysedType ==
  ASSUME NEW row \in Row, NEW f, NEW k
  PROVE  Analysed(row, f, k) \in Row
<1>1. Held(f, k) \in SUBSET Record BY DEF Held
<1> QED BY <1>1 DEF Analysed, Row, Status

LEMMA TouchedType ==
  ASSUME DBTypeOK, NEW k \in CallPk, NEW t
  PROVE  Touched(k, t) \subseteq CallPk \X CallPk
  BY DEF DBTypeOK, Touched, Live


\* An upsert that finds no row leaves one that bears the id, so _call_pk finds it.
LEMMA InsertedIsFound ==
  ASSUME DBTypeOK, NEW i \in MaybeId, NEW seen \in Row, NEW r \in Record,
         NEW t \in Flushed(i, None, seen, r)
  PROVE  PkOf(t, i) \in CallPk
<1>1. PICK n \in CallPk : t = [calls EXCEPT ![n] = NewRow(i, r)] BY DEF Flushed
<1>2. t[n].life = "live" /\ t[n].ext = i
  BY <1>1 DEF DBTypeOK, NewRow, Unborn
<1>3. n \in ByExternalId(t, i) BY <1>2 DEF ByExternalId, Live
<1> QED BY <1>3 DEF PkOf, ByExternalId, Live

-----------------------------------------------------------------------------
(* Lemmas: the moves of a consumer.                                        *)

LEMMA IdleType == Idle \in WorkerState /\ Idle.pc \notin Busy
<1>1. NothingRead \in [CallPk -> [Record -> Nat]] BY DEF NothingRead
<1> QED BY <1>1, UnbornType DEF Idle, WorkerState, Busy

LEMMA RestType ==
  ASSUME WorkerTypeOK, NEW c \in Consumer, Rest(c)
  PROVE  WorkerTypeOK'
  BY IdleType DEF WorkerTypeOK, Rest

LEMMA StepType ==
  ASSUME WorkerTypeOK, NEW c \in Consumer, NEW pc \in Pc, Step(c, pc), worker[c].pc \in Busy
  PROVE  WorkerTypeOK'
<1>1. worker[c] \in WorkerState BY DEF WorkerTypeOK
<1>2. [worker[c] EXCEPT !.pc = pc] \in WorkerState BY <1>1 DEF WorkerState, Pc
<1>3. worker' = [worker EXCEPT ![c] = [worker[c] EXCEPT !.pc = pc]] BY DEF Step
<1>4. worker'[c] = [worker[c] EXCEPT !.pc = pc] BY <1>3 DEF WorkerTypeOK
<1>5. worker'[c].part = worker[c].part /\ worker'[c].off = worker[c].off
  BY <1>1, <1>4 DEF WorkerState
<1> QED BY <1>2, <1>3, <1>5 DEF WorkerTypeOK

LEMMA RetryType ==
  ASSUME WorkerTypeOK, NEW c \in Consumer, Retry(c), worker[c].pc \in Busy
  PROVE  WorkerTypeOK' /\ worker'[c].pc \in {"identify", "dlq"}
<1>1. worker[c] \in WorkerState BY DEF WorkerTypeOK
<1>2. PICK pc \in {"identify", "dlq"} :
        worker' = [worker EXCEPT ![c] = [worker[c] EXCEPT !.attempt = worker[c].attempt + 1, !.pc = pc]]
  BY DEF Retry
<1> DEFINE w == [worker[c] EXCEPT !.attempt = worker[c].attempt + 1, !.pc = pc]
<1>3. worker[c].attempt + 1 \in Nat BY <1>1 DEF WorkerState
<1>4. [worker[c] EXCEPT !.attempt = worker[c].attempt + 1] \in WorkerState
  BY <1>1, <1>3 DEF WorkerState
<1>5. w \in WorkerState BY <1>4 DEF WorkerState, Busy
<1>6. w.pc = pc /\ w.part = worker[c].part /\ w.off = worker[c].off BY <1>1 DEF WorkerState
<1>7. worker'[c] = w BY <1>2 DEF WorkerTypeOK
<1> QED BY <1>2, <1>5, <1>6, <1>7 DEF WorkerTypeOK

LEMMA RecType ==
  ASSUME WorkerTypeOK, NEW c \in Consumer, worker[c].pc \in Busy
  PROVE  Rec(c) \in Record
<1>1. worker[c].part \in Partition /\ worker[c].off \in 1 .. Len(Log[worker[c].part])
  BY DEF WorkerTypeOK
<1>2. Log[worker[c].part] \in Seq(Record) BY <1>1, PipelineAssumption
<1> QED BY <1>1, <1>2 DEF Rec

-----------------------------------------------------------------------------
(* Type correctness, action by action.                                     *)

LEMMA PollTypeOK ==
  ASSUME TypeOK, NEW c \in Consumer, Poll(c)
  PROVE  TypeOK'
<1> USE DEF TypeOK
<1>1. PICK p \in Partition :
        /\ position[p] < Len(Log[p])
        /\ position' = [position EXCEPT ![p] = position[p] + 1]
        /\ worker' = [worker EXCEPT ![c] = [Idle EXCEPT !.pc = "identify", !.part = p,
                                                        !.off = position[p] + 1]]
  BY DEF Poll
<1>2. Log[p] \in Seq(Record) /\ position[p] \in Nat
  BY PipelineAssumption DEF BusTypeOK
<1>3. position[p] + 1 \in 1 .. Len(Log[p]) BY <1>1, <1>2
<1>4. BusTypeOK' BY <1>1, <1>2, <1>3 DEF Poll, BusTypeOK
<1> DEFINE w == [Idle EXCEPT !.pc = "identify", !.part = p, !.off = position[p] + 1]
<1>5. w \in WorkerState /\ w.part = p /\ w.off = position[p] + 1
  <2>1. Idle \in WorkerState BY IdleType
  <2>2. position[p] + 1 \in Nat BY <1>2
  <2> QED BY <2>1, <2>2 DEF WorkerState, Busy
<1>6. WorkerTypeOK' BY <1>1, <1>3, <1>5 DEF WorkerTypeOK
<1>7. DBTypeOK' /\ ApiTypeOK' BY DEF Poll, DBTypeOK, ApiTypeOK, dbVars, apiVars
<1> QED BY <1>4, <1>6, <1>7 DEF Poll

LEMMA IdentifyTypeOK ==
  ASSUME TypeOK, NEW c \in Consumer, Identify(c)
  PROVE  TypeOK'
<1> USE DEF TypeOK
<1>1. worker[c].pc \in Busy BY DEF Identify, Busy
<1>2. Rec(c) \in Record BY <1>1, RecType
<1>3. PICK i \in Identified(Rec(c)) :
        \/ Step(c, "commit") /\ gone' = gone \cup {Rec(c)}
        \/ /\ worker' = [worker EXCEPT ![c].pc = IF i = None THEN "store" ELSE "upsert",
                                       ![c].cid = i, ![c].found = None, ![c].seen = Unborn]
           /\ gone' = gone
  BY DEF Identify
<1>4. i \in MaybeId BY <1>2, IdentifiedType
<1>5. WorkerTypeOK'
  <2>1. CASE Step(c, "commit") BY <1>1, <2>1, StepType DEF Pc, Busy
  <2>2. CASE ~Step(c, "commit")
    <3>1. PICK pc \in {"store", "upsert"} :
            worker' = [worker EXCEPT ![c].pc = pc, ![c].cid = i, ![c].found = None,
                                     ![c].seen = Unborn]
      BY <1>3, <2>2
    <3> DEFINE w == [worker[c] EXCEPT !.pc = pc, !.cid = i, !.found = None, !.seen = Unborn]
    <3>2. worker[c] \in WorkerState BY DEF WorkerTypeOK
    <3>3. w \in WorkerState BY <1>4, <3>2, UnbornType DEF WorkerState, Busy, MaybeId
    <3>4. w.part = worker[c].part /\ w.off = worker[c].off BY <3>2 DEF WorkerState
    <3>5. worker' = [worker EXCEPT ![c] = w] BY <3>1
    <3> HIDE DEF w
    <3> QED BY <1>1, <3>3, <3>4, <3>5 DEF WorkerTypeOK
  <2> QED BY <2>1, <2>2
<1>6. (gone \subseteq Record)' BY <1>2, <1>3
<1>7. DBTypeOK' /\ BusTypeOK' /\ ApiTypeOK'
  BY DEF Identify, DBTypeOK, BusTypeOK, ApiTypeOK, dbVars, busVars, apiVars
<1> QED BY <1>5, <1>6, <1>7 DEF Identify

LEMMA UpsertTypeOK ==
  ASSUME TypeOK, NEW c \in Consumer, Upsert(c)
  PROVE  TypeOK'
<1> USE DEF TypeOK
<1>1. worker[c].pc \in Busy /\ worker[c] \in WorkerState BY DEF Upsert, Busy, WorkerTypeOK
<1>2. Rec(c) \in Record /\ worker[c].cid \in MaybeId
  BY <1>1, RecType DEF WorkerState, MaybeId
<1>3. PICK k \in Found(worker[c].cid, Rec(c)) :
        worker' = [worker EXCEPT ![c].pc = "store", ![c].found = k,
                                 ![c].seen = IF k = None THEN Unborn ELSE calls[k]]
  BY DEF Upsert
<1>4. k \in MaybePk BY <1>2, FoundType
<1> DEFINE seen == IF k = None THEN Unborn ELSE calls[k]
           w == [worker[c] EXCEPT !.pc = "store", !.found = k, !.seen = seen]
<1>5. seen \in Row BY <1>4, UnbornType DEF DBTypeOK, MaybePk
<1>6. worker' = [worker EXCEPT ![c] = w] BY <1>3
<1> HIDE DEF seen
<1>7. w \in WorkerState BY <1>1, <1>4, <1>5 DEF WorkerState, Busy, MaybePk
<1>8. w.part = worker[c].part /\ w.off = worker[c].off BY <1>1 DEF WorkerState
<1> HIDE DEF w
<1>9. WorkerTypeOK' BY <1>1, <1>6, <1>7, <1>8 DEF WorkerTypeOK
<1>10. DBTypeOK' /\ BusTypeOK' /\ ApiTypeOK'
  BY DEF Upsert, DBTypeOK, BusTypeOK, ApiTypeOK, dbVars, busVars, apiVars
<1> QED BY <1>9, <1>10 DEF Upsert

LEMMA StoreUnattributedTypeOK ==
  ASSUME TypeOK, NEW c \in Consumer, StoreUnattributed(c)
  PROVE  TypeOK'
<1> USE DEF TypeOK
<1>1. worker[c].pc \in Busy BY DEF StoreUnattributed, Busy
<1>2. Rec(c) \in Record BY <1>1, RecType
<1>3. (frags \in Frags)' BY <1>2, StoredType DEF StoreUnattributed, MaybePk
<1>4. WorkerTypeOK' BY <1>1, StepType DEF StoreUnattributed, Pc, Busy
<1>5. BusTypeOK' /\ ApiTypeOK'
  BY DEF StoreUnattributed, BusTypeOK, ApiTypeOK, busVars, apiVars
<1>6. DBTypeOK' BY <1>3 DEF StoreUnattributed, DBTypeOK, Frags, MaybePk
<1> QED BY <1>4, <1>5, <1>6 DEF StoreUnattributed

LEMMA StoreTypeOK ==
  ASSUME TypeOK, NEW c \in Consumer, Store(c)
  PROVE  TypeOK'
<1> USE DEF TypeOK
<1> DEFINE w == worker[c]
           r == Rec(c)
<1>1. w.pc = "store" /\ w.pc \in Busy /\ w \in WorkerState BY DEF Store, Busy, WorkerTypeOK
<1>2. r \in Record /\ w.cid \in MaybeId /\ w.found \in MaybePk /\ w.seen \in Row
  BY <1>1, RecType DEF WorkerState, MaybeId, MaybePk
<1>3. PICK t \in Flushed(w.cid, w.found, w.seen, r) :
        LET k == PkOf(t, w.cid)
            upserted == IF w.found = None THEN k ELSE w.found
            f == Stored(k, r)
        IN  /\ frags' = f
            /\ older' = Touched(upserted, t)
            /\ calls' \in {t, [t EXCEPT ![k] = Analysed(t[k], f, k)]}
            /\ \/ Step(c, "commit")
               \/ worker' = [worker EXCEPT ![c].pc = "enqueue", ![c].judge = {w.cid}]
  BY DEF Store
<1> DEFINE k == PkOf(t, w.cid)
           f == Stored(k, r)
<1>4. t \in [CallPk -> Row] /\ k \in MaybePk
  BY <1>2, FlushedType, PkOfType
<1>5. f \in Frags BY <1>2, <1>4, StoredType
<1>6. (calls \in [CallPk -> Row])'
  <2>1. CASE k \in CallPk
    <3>1. Analysed(t[k], f, k) \in Row BY <1>4, <1>5, <2>1, AnalysedType
    <3> QED BY <1>3, <1>4, <3>1
  <2>2. CASE k \notin CallPk BY <1>3, <1>4, <2>2
  <2> QED BY <2>1, <2>2
<1>7. (older \subseteq CallPk \X CallPk)'
  <2> DEFINE upserted == IF w.found = None THEN k ELSE w.found
  <2>1. upserted \in CallPk
    <3>1. CASE w.found = None BY <1>2, <3>1, InsertedIsFound
    <3>2. CASE w.found # None BY <1>2, <3>2 DEF MaybePk
    <3> QED BY <3>1, <3>2
  <2>2. older' = Touched(upserted, t) BY <1>3
  <2> QED BY <2>1, <2>2, TouchedType
<1>8. DBTypeOK' BY <1>3, <1>5, <1>6, <1>7 DEF Store, DBTypeOK, Frags, MaybePk
<1>9. WorkerTypeOK'
  <2>1. CASE Step(c, "commit") BY <1>1, <2>1, StepType DEF Pc, Busy
  <2>2. CASE ~Step(c, "commit")
    <3> DEFINE v == [w EXCEPT !.pc = "enqueue", !.judge = {w.cid}]
    <3>1. worker' = [worker EXCEPT ![c] = v] BY <1>3, <2>2
    <3>2. v \in WorkerState BY <1>1, <1>2 DEF WorkerState, Busy, MaybeId
    <3>3. v.part = w.part /\ v.off = w.off BY <1>1 DEF WorkerState
    <3> HIDE DEF v
    <3> QED BY <1>1, <3>1, <3>2, <3>3 DEF WorkerTypeOK
  <2> QED BY <2>1, <2>2
<1>10. BusTypeOK' /\ ApiTypeOK'
  BY DEF Store, BusTypeOK, ApiTypeOK, busVars, apiVars
<1> QED BY <1>8, <1>9, <1>10 DEF Store

\* The steps of a consumer that end an attempt or a record.
LEMMA CloseTypeOK ==
  ASSUME TypeOK, NEW c \in Consumer,
         AttemptFails(c) \/ EnqueueJudge(c) \/ EnqueueFails(c) \/ ToDlq(c) \/ CommitOffset(c)
  PROVE  TypeOK'
<1> USE DEF TypeOK
<1>1. worker[c] \in WorkerState BY DEF WorkerTypeOK
<1>2. CASE AttemptFails(c)
  <2>1. worker[c].pc \in Busy BY <1>2 DEF AttemptFails, Busy
  <2>2. WorkerTypeOK' BY <1>2, <2>1, RetryType DEF AttemptFails
  <2> QED BY <1>2, <2>2
       DEF AttemptFails, DBTypeOK, BusTypeOK, ApiTypeOK, dbVars, busVars, apiVars
<1>3. CASE EnqueueJudge(c)
  <2>1. worker[c].judge \subseteq CallId \cup {None} BY <1>1 DEF WorkerState
  <2>2. WorkerTypeOK'
    <3>1. CASE worker[c].pc = "enqueue"
      BY <1>3, <3>1, StepType DEF EnqueueJudge, Pc, Busy
    <3>2. CASE worker[c].pc # "enqueue" BY <1>3, <3>2, RestType DEF EnqueueJudge
    <3> QED BY <3>1, <3>2
  <2> QED BY <1>3, <2>1, <2>2
       DEF EnqueueJudge, DBTypeOK, BusTypeOK, ApiTypeOK, dbVars, busVars, apiVars
<1>4. CASE EnqueueFails(c)
  <2>1. WorkerTypeOK'
    <3>1. CASE worker[c].pc = "enqueue" /\ Retry(c) BY <3>1, RetryType DEF Busy
    <3>2. CASE Rest(c) BY <3>2, RestType
    <3> QED BY <1>4, <3>1, <3>2 DEF EnqueueFails
  <2> QED BY <1>4, <2>1
       DEF EnqueueFails, DBTypeOK, BusTypeOK, ApiTypeOK, dbVars, busVars, apiVars
<1>5. CASE ToDlq(c)
  <2>1. worker[c].pc \in Busy BY <1>5 DEF ToDlq, Busy
  <2>2. Rec(c) \in Record BY <2>1, RecType
  <2>3. WorkerTypeOK' BY <1>5, <2>1, StepType DEF ToDlq, Pc, Busy
  <2> QED BY <1>5, <2>2, <2>3
       DEF ToDlq, DBTypeOK, BusTypeOK, ApiTypeOK, dbVars, busVars, apiVars
<1>6. CASE CommitOffset(c)
  <2>1. worker[c].pc \in Busy BY <1>6 DEF CommitOffset, Busy
  <2>2. worker[c].part \in Partition /\ worker[c].off \in 1 .. Len(Log[worker[c].part])
    BY <2>1 DEF WorkerTypeOK
  <2>3. WorkerTypeOK' BY <1>6, RestType DEF CommitOffset
  <2>4. BusTypeOK' BY <1>6, <2>2 DEF CommitOffset, OffsetAfter, BusTypeOK
  <2> QED BY <1>6, <2>3, <2>4
       DEF CommitOffset, DBTypeOK, ApiTypeOK, dbVars, apiVars
<1> QED BY <1>2, <1>3, <1>4, <1>5, <1>6

LEMMA GroupTypeOK ==
  ASSUME TypeOK, NEW c \in Consumer,
         CommitRefused(c) \/ Crash(c) \/ \E p \in Partition : Rebalance(p, c)
  PROVE  TypeOK'
<1> USE DEF TypeOK
<1>1. ASSUME Restart(c), faults' \in 0 .. MaxFaults PROVE TypeOK'
  <2>1. WorkerTypeOK' BY <1>1, RestType DEF Restart
  <2>2. BusTypeOK' BY <1>1 DEF Restart, BusTypeOK
  <2> QED BY <1>1, <2>1, <2>2 DEF Restart, DBTypeOK, ApiTypeOK, dbVars, apiVars
<1>2. CASE CommitRefused(c) BY <1>1, <1>2 DEF CommitRefused
<1>3. CASE Crash(c)
  <2>1. faults' \in 0 .. MaxFaults BY <1>3, PipelineAssumption DEF Crash
  <2> QED BY <1>1, <1>3, <2>1 DEF Crash
<1>4. ASSUME NEW p \in Partition, Rebalance(p, c) PROVE TypeOK'
  <2>1. faults' \in 0 .. MaxFaults BY <1>4, PipelineAssumption DEF Rebalance
  <2>2. BusTypeOK' BY <1>4 DEF Rebalance, BusTypeOK
  <2> QED BY <1>4, <2>1, <2>2
       DEF Rebalance, DBTypeOK, ApiTypeOK, WorkerTypeOK, dbVars, apiVars
<1> QED BY <1>2, <1>3, <1>4

\* A read of a sweep leaves everything alone but what its consumer has read of one
\* call, which was live then.
LEMMA ReadMoves ==
  ASSUME TypeOK, NEW c \in Consumer, FlushRead(c)
  PROVE  /\ worker[c].pc = "flush" /\ worker'[c].pc = "flush"
         /\ worker'[c].due = worker[c].due /\ worker'[c] \in WorkerState
         /\ worker' = [worker EXCEPT ![c] = worker'[c]]
         /\ \E k \in DuePks(c) \cap Live(calls) :
              worker'[c].got = [worker[c].got EXCEPT ![k] = frags[k]]
<1>1. worker \in [Consumer -> WorkerState] /\ worker[c] \in WorkerState
  BY DEF TypeOK, WorkerTypeOK
<1>2. PICK k \in DuePks(c) \cap Live(calls) : worker' = [worker EXCEPT ![c].got[k] = frags[k]]
  BY DEF FlushRead
<1>3. k \in CallPk /\ frags[k] \in [Record -> Nat]
  <2>1. k \in CallPk BY <1>2 DEF Live
  <2> QED BY <2>1 DEF TypeOK, DBTypeOK
<1> DEFINE g == [worker[c].got EXCEPT ![k] = frags[k]]
           w == [worker[c] EXCEPT !.got = g]
<1>4. g \in [CallPk -> [Record -> Nat]] BY <1>1, <1>3 DEF WorkerState
<1>5. worker' = [worker EXCEPT ![c] = w] BY <1>1, <1>2
<1> HIDE DEF g
<1>6. w \in WorkerState /\ w.pc = worker[c].pc /\ w.due = worker[c].due /\ w.got = g
  BY <1>1, <1>4 DEF WorkerState
<1>7. worker[c].pc = "flush" BY DEF FlushRead
<1> HIDE DEF w
<1>8. worker'[c] = w BY <1>1, <1>5
<1>9. \E j \in DuePks(c) \cap Live(calls) :
        worker'[c].got = [worker[c].got EXCEPT ![j] = frags[j]]
  BY <1>2, <1>6, <1>8 DEF g
<1> QED BY <1>5, <1>6, <1>7, <1>8, <1>9

LEMMA FlushTypeOK ==
  ASSUME TypeOK, NEW c \in Consumer, Flush(c)
  PROVE  TypeOK'
<1> USE DEF TypeOK
<1>1. worker[c] \in WorkerState BY DEF WorkerTypeOK
<1>2. ASSUME NEW Q \in Quiet, FlushSelect(c, Q) PROVE TypeOK'
  <2>1. PICK S \in Selected(Q) :
          worker' = [worker EXCEPT ![c] = [Idle EXCEPT !.pc = "flush",
                                            !.due = {<<k, calls[k].ext>> : k \in S}]]
    BY <1>2 DEF FlushSelect
  <2> DEFINE due == {<<k, calls[k].ext>> : k \in S}
             w == [Idle EXCEPT !.pc = "flush", !.due = due]
  <2>2. due \subseteq CallPk \X (CallId \cup {None})
    BY DEF Selected, Due, Live, DBTypeOK, Row
  <2> HIDE DEF due
  <2>3. w \in WorkerState /\ w.pc = "flush"
    <3>1. Idle \in WorkerState BY IdleType
    <3> QED BY <2>2, <3>1 DEF WorkerState
  <2>4. worker' = [worker EXCEPT ![c] = w] BY <2>1 DEF due
  <2>5. "flush" \notin Busy BY DEF Busy
  <2> HIDE DEF w
  <2>6. WorkerTypeOK' BY <2>3, <2>4, <2>5 DEF WorkerTypeOK
  <2> QED BY <1>2, <2>6
       DEF FlushSelect, DBTypeOK, BusTypeOK, ApiTypeOK, dbVars, busVars, apiVars
<1>3. CASE FlushCommit(c)
  <2>1. Judged(c) \subseteq CallId \cup {None} BY <1>1 DEF Judged, WorkerState
  <2>2. (calls \in [CallPk -> Row])'
    <3>1. \A k \in CallPk : calls[k] \in Row /\ Analysed(calls[k], worker[c].got, k) \in Row
      BY AnalysedType DEF DBTypeOK
    <3> QED BY <1>3, <3>1 DEF FlushCommit
  <2> DEFINE w == [worker[c] EXCEPT !.pc = "flushEnqueue", !.due = {}, !.got = NothingRead,
                                    !.judge = Judged(c)]
  <2>3. worker' = [worker EXCEPT ![c] = w] BY <1>3 DEF FlushCommit
  <2>4. w \in WorkerState /\ w.pc = "flushEnqueue"
    <3>1. NothingRead \in [CallPk -> [Record -> Nat]] BY DEF NothingRead
    <3> QED BY <1>1, <2>1, <3>1 DEF WorkerState
  <2>5. "flushEnqueue" \notin Busy BY DEF Busy
  <2> HIDE DEF w
  <2>6. WorkerTypeOK' BY <2>3, <2>4, <2>5 DEF WorkerTypeOK
  <2> QED BY <1>3, <2>2, <2>6
       DEF FlushCommit, DBTypeOK, BusTypeOK, ApiTypeOK, busVars, apiVars
<1>4. CASE FlushAborts(c)
  <2>1. WorkerTypeOK' BY <1>4, RestType DEF FlushAborts
  <2> QED BY <1>4, <2>1
       DEF FlushAborts, DBTypeOK, BusTypeOK, ApiTypeOK, dbVars, busVars, apiVars
<1>5. CASE FlushRead(c)
  <2>1. /\ worker' = [worker EXCEPT ![c] = worker'[c]] /\ worker'[c] \in WorkerState
        /\ worker'[c].pc \notin Busy
    BY <1>5, ReadMoves DEF Busy
  <2>2. WorkerTypeOK' BY <2>1 DEF WorkerTypeOK
  <2> QED BY <1>5, <2>2
       DEF FlushRead, DBTypeOK, BusTypeOK, ApiTypeOK, dbVars, busVars, apiVars
<1> QED BY <1>2, <1>3, <1>4, <1>5 DEF Flush

LEMMA RegisterTypeOK ==
  ASSUME TypeOK, NEW a \in Artifact,
         RegisterLoad(a) \/ ReconcileLoad(a) \/ RegisterCommit(a)
  PROVE  TypeOK'
<1> USE DEF TypeOK
<1>1. ASSUME NEW by \in {"api", "sweep"}, Load(a, by) PROVE TypeOK'
  <2>1. PICK k \in CallPk :
          request' = [request EXCEPT ![a] = [by |-> by, found |-> k,
                         complete |-> calls[k].complete, status |-> calls[k].status]]
    BY <1>1 DEF Load, ByExternalId, Live
  <2>2. calls[k].complete \in BOOLEAN /\ calls[k].status \in Status BY DEF DBTypeOK, Row
  <2>3. ApiTypeOK' BY <1>1, <2>1, <2>2 DEF Load, ApiTypeOK, Request
  <2> QED BY <1>1, <2>3
       DEF Load, DBTypeOK, BusTypeOK, WorkerTypeOK, dbVars, busVars
<1>2. CASE RegisterCommit(a)
  <2> DEFINE q == request[a]
  <2>1. ApiTypeOK' BY <1>2, UnbornType
    DEF RegisterCommit, Attaches, ApiTypeOK, NoRequest, Request, Status, Live
  <2>2. (calls \in [CallPk -> Row])'
    <3>1. CASE q.found \in Live(calls)
      <4> DEFINE st == IF q.complete /\ q.status # "ingested" THEN "ingested"
                       ELSE calls[q.found].status
      <4>1. q.found \in CallPk /\ calls[q.found] \in Row BY <3>1 DEF Live, DBTypeOK
      <4>2. st \in Status BY <4>1 DEF Row, Status
      <4>3. calls' = [calls EXCEPT ![q.found] = [calls[q.found] EXCEPT !.media = TRUE,
                                                                       !.status = st]]
        BY <1>2, <3>1 DEF RegisterCommit, Attaches
      <4> HIDE DEF st
      <4>4. [calls[q.found] EXCEPT !.media = TRUE, !.status = st] \in Row
        BY <4>1, <4>2 DEF Row
      <4> QED BY <4>1, <4>3, <4>4 DEF DBTypeOK
    <3>2. CASE q.found \notin Live(calls) BY <1>2, <3>2 DEF RegisterCommit, Attaches, DBTypeOK
    <3> QED BY <3>1, <3>2
  <2>3. (older \subseteq CallPk \X CallPk)'
    <3>1. CASE q.found \in Live(calls)
      <4>1. q.found \in CallPk BY <3>1 DEF Live
      <4>2. Touched(q.found, calls) \subseteq CallPk \X CallPk BY <4>1, TouchedType
      <4> QED BY <1>2, <3>1, <4>2 DEF RegisterCommit, Attaches, DBTypeOK
    <3>2. CASE q.found \notin Live(calls) BY <1>2, <3>2 DEF RegisterCommit, Attaches, DBTypeOK
    <3> QED BY <3>1, <3>2
  <2> QED BY <1>2, <2>1, <2>2, <2>3
       DEF RegisterCommit, DBTypeOK, BusTypeOK, WorkerTypeOK, busVars
<1> QED BY <1>1, <1>2 DEF RegisterLoad, ReconcileLoad

LEMMA EraseTypeOK ==
  ASSUME TypeOK, NEW i \in Erasable, EraseLoad(i) \/ EraseCommit(i) \/ EraseFails(i)
  PROVE  TypeOK'
<1> USE DEF TypeOK
<1>1. i \in CallId BY PipelineAssumption
<1>2. CASE EraseLoad(i)
  <2>1. ApiTypeOK' BY <1>2 DEF EraseLoad, ApiTypeOK, ByExternalId, Live
  <2> QED BY <1>2, <2>1
       DEF EraseLoad, DBTypeOK, BusTypeOK, WorkerTypeOK, dbVars, busVars
<1>3. CASE EraseCommit(i)
  <2> DEFINE k == erasing[i]
  <2>1. k \in CallPk /\ calls[k] \in Row BY <1>3 DEF EraseCommit, Live, DBTypeOK
  <2>2. [calls[k] EXCEPT !.life = "erased"] \in Row BY <2>1 DEF Row
  <2>3. (calls \in [CallPk -> Row])' BY <1>3, <2>1, <2>2 DEF EraseCommit, DBTypeOK
  <2>4. (frags \in Frags)'
    <3>1. frags' = [frags EXCEPT ![k] = [r \in Record |-> 0]] BY <1>3 DEF EraseCommit
    <3>2. frags \in Frags BY DEF DBTypeOK, Frags, MaybePk
    <3> QED BY <3>1, <3>2 DEF Frags
  <2>5. DBTypeOK' BY <1>1, <1>3, <2>3, <2>4 DEF EraseCommit, DBTypeOK, Frags, MaybePk
  <2>6. ApiTypeOK' BY <1>3 DEF EraseCommit, ApiTypeOK
  <2>7. (gone \subseteq Record)' BY <1>3 DEF EraseCommit, Held
  <2> QED BY <1>3, <2>5, <2>6, <2>7
       DEF EraseCommit, BusTypeOK, WorkerTypeOK, busVars
<1>4. CASE EraseFails(i)
  <2>1. ApiTypeOK' BY <1>4 DEF EraseFails, ApiTypeOK
  <2> QED BY <1>4, <2>1
       DEF EraseFails, DBTypeOK, BusTypeOK, WorkerTypeOK, dbVars, busVars
<1> QED BY <1>2, <1>3, <1>4

LEMMA InitTypeOK == Init => TypeOK
<1> SUFFICES ASSUME Init PROVE TypeOK OBVIOUS
<1>1. DBTypeOK BY UnbornType DEF Init, DBInit, DBTypeOK
<1>2. WorkerTypeOK BY IdleType DEF Init, WorkerTypeOK
<1>3. ApiTypeOK BY DEF Init, ApiTypeOK, NoRequest, Request, Status
<1>4. BusTypeOK BY PipelineAssumption DEF Init, BusTypeOK
<1> QED BY <1>1, <1>2, <1>3, <1>4, PipelineAssumption DEF Init, TypeOK

LEMMA NextTypeOK == TypeOK /\ [Next]_vars => TypeOK'
<1> SUFFICES ASSUME TypeOK, [Next]_vars PROVE TypeOK' OBVIOUS
<1>1. ASSUME NEW c \in Consumer, Poll(c) \/ Consume(c) \/ Flush(c) \/ Crash(c)
                                 \/ \E p \in Partition : Rebalance(p, c)
      PROVE  TypeOK'
  BY <1>1, PollTypeOK, IdentifyTypeOK, UpsertTypeOK, StoreUnattributedTypeOK, StoreTypeOK,
     CloseTypeOK, GroupTypeOK, FlushTypeOK DEF Consume
<1>2. CASE Api BY <1>2, RegisterTypeOK, EraseTypeOK DEF Api
<1>3. CASE UNCHANGED vars
  BY <1>3 DEF vars, dbVars, busVars, apiVars, TypeOK, DBTypeOK, BusTypeOK, WorkerTypeOK,
              ApiTypeOK
<1> QED BY <1>1, <1>2, <1>3 DEF Next

\* Every variable keeps its type, every offset stays inside its partition's log
\* and a consumer at work on a record has one (main loop of worker/run.py).
THEOREM TypeCorrect == Spec => []TypeOK
<1> QED BY InitTypeOK, NextTypeOK, PTL DEF Spec

-----------------------------------------------------------------------------
(* No record is skipped.                                                   *)

\* Consumer d stays at work on the record it has, if any.
Same(d) ==
  /\ worker'[d].pc \in Busy <=> worker[d].pc \in Busy
  /\ worker'[d].pc \in Busy => worker'[d].part = worker[d].part /\ worker'[d].off = worker[d].off

DeliveryInv == TypeOK /\ OneRecordInFlight /\ CommitsAfterStore /\ NoRecordSkipped

\* Whatever a step does, a record accounted for stays accounted for: fragments are
\* only deleted by an erasure, which counts the records they held as gone.
LEMMA AccountedStable ==
  ASSUME TypeOK, [Next]_vars, NEW r \in Record, Accounted(r)
  PROVE  Accounted(r)'
<1> USE DEF TypeOK
<1>1. ASSUME UNCHANGED frags, dlq \subseteq dlq', gone \subseteq gone'
      PROVE  Accounted(r)'
  BY <1>1 DEF Accounted
<1>2. ASSUME NEW k \in MaybePk, NEW s \in Record, frags' = Stored(k, s),
             UNCHANGED <<dlq, gone>>
      PROVE  Accounted(r)'
  BY <1>2, StoredType DEF Accounted, MaybePk
<1>3. ASSUME NEW c \in Consumer, StoreUnattributed(c) PROVE Accounted(r)'
  <2>1. Rec(c) \in Record BY <1>3, RecType DEF StoreUnattributed, Busy
  <2> QED BY <1>2, <1>3, <2>1 DEF StoreUnattributed, MaybePk
<1>4. ASSUME NEW c \in Consumer, Store(c) PROVE Accounted(r)'
  <2>1. Rec(c) \in Record BY <1>4, RecType DEF Store, Busy
  <2>2. PICK k \in MaybePk : frags' = Stored(k, Rec(c)) BY <1>4, PkOfType DEF Store
  <2> QED BY <1>2, <1>4, <2>1, <2>2 DEF Store
<1>5. ASSUME NEW i \in Erasable, EraseCommit(i) PROVE Accounted(r)'
  <2> DEFINE k == erasing[i]
  <2>1. /\ frags' = [frags EXCEPT ![k] = [s \in Record |-> 0]]
        /\ gone' = gone \cup Held(frags, k) /\ dlq' = dlq
    BY <1>5 DEF EraseCommit
  <2>2. CASE r \in Held(frags, k) BY <2>1, <2>2 DEF Accounted
  <2>3. CASE r \notin Held(frags, k)
    <3>1. frags \in Frags BY DEF DBTypeOK, Frags, MaybePk
    <3>2. ~(frags[k][r] > 0) BY <2>3 DEF Held
    <3>3. \A j \in MaybePk : frags[j][r] > 0 => frags'[j][r] > 0
      BY <2>1, <3>1, <3>2 DEF Frags
    <3> QED BY <2>1, <3>3 DEF Accounted, MaybePk
  <2> QED BY <2>2, <2>3
<1>6. ASSUME NEW c \in Consumer,
             Poll(c) \/ Flush(c) \/ Crash(c) \/ \E p \in Partition : Rebalance(p, c)
      PROVE  Accounted(r)'
  BY <1>1, <1>6 DEF Poll, Flush, FlushSelect, FlushRead, FlushCommit, FlushAborts,
                    Crash, Restart, Rebalance, dbVars
<1>7. ASSUME NEW c \in Consumer, Consume(c) PROVE Accounted(r)'
  <2>1. CASE Identify(c) BY <1>1, <2>1 DEF Identify, dbVars
  <2>2. CASE ~Identify(c) /\ ~StoreUnattributed(c) /\ ~Store(c)
    BY <1>1, <1>7, <2>2 DEF Consume, Upsert, AttemptFails, EnqueueJudge, EnqueueFails, ToDlq,
                            CommitOffset, CommitRefused, Restart, dbVars
  <2> QED BY <1>3, <1>4, <2>1, <2>2
<1>8. CASE Api
  BY <1>1, <1>5, <1>8 DEF Api, RegisterLoad, ReconcileLoad, Load, RegisterCommit, EraseLoad, EraseFails, dbVars
<1>9. CASE UNCHANGED vars BY <1>1, <1>9 DEF vars, dbVars
<1> QED BY <1>6, <1>7, <1>8, <1>9 DEF Next

\* Steps within a record, and sweeps, neither take up nor give up a record.
LEMMA SameRecord ==
  ASSUME TypeOK, NEW c \in Consumer,
         \/ Identify(c) \/ Upsert(c) \/ StoreUnattributed(c) \/ Store(c)
         \/ AttemptFails(c) \/ EnqueueJudge(c) \/ EnqueueFails(c) \/ ToDlq(c)
         \/ Flush(c)
  PROVE  /\ \A d \in Consumer : Same(d) /\ (d # c => worker'[d] = worker[d])
         /\ UNCHANGED busVars
<1> USE DEF TypeOK
<1>1. worker \in [Consumer -> WorkerState] /\ worker[c] \in WorkerState BY DEF WorkerTypeOK
<1>2. ASSUME NEW w, worker' = [worker EXCEPT ![c] = w],
             w.pc \in Busy <=> worker[c].pc \in Busy,
             w.pc \in Busy => w.part = worker[c].part /\ w.off = worker[c].off
      PROVE  \A d \in Consumer : Same(d) /\ (d # c => worker'[d] = worker[d])
  BY <1>1, <1>2 DEF Same
<1>3. ASSUME NEW pc \in Busy, Step(c, pc), worker[c].pc \in Busy
      PROVE  \A d \in Consumer : Same(d) /\ (d # c => worker'[d] = worker[d])
  <2> DEFINE w == [worker[c] EXCEPT !.pc = pc]
  <2>1. worker' = [worker EXCEPT ![c] = w] BY <1>3 DEF Step
  <2>2. w.pc = pc /\ w.part = worker[c].part /\ w.off = worker[c].off BY <1>1 DEF WorkerState
  <2> HIDE DEF w
  <2> QED BY <1>2, <1>3, <2>1, <2>2
<1>4. ASSUME Rest(c), worker[c].pc \notin Busy
      PROVE  \A d \in Consumer : Same(d) /\ (d # c => worker'[d] = worker[d])
  BY <1>2, <1>4, IdleType DEF Rest
<1>5. ASSUME Retry(c), worker[c].pc \in Busy
      PROVE  \A d \in Consumer : Same(d) /\ (d # c => worker'[d] = worker[d])
  <2>1. PICK pc \in {"identify", "dlq"} :
          worker' = [worker EXCEPT ![c] = [worker[c] EXCEPT !.attempt = worker[c].attempt + 1,
                                                            !.pc = pc]]
    BY <1>5 DEF Retry
  <2> DEFINE w == [worker[c] EXCEPT !.attempt = worker[c].attempt + 1, !.pc = pc]
  <2>2. w.pc = pc /\ w.part = worker[c].part /\ w.off = worker[c].off BY <1>1 DEF WorkerState
  <2>3. w.pc \in Busy BY <2>2 DEF Busy
  <2>4. worker' = [worker EXCEPT ![c] = w] BY <2>1
  <2> HIDE DEF w
  <2> QED BY <1>2, <1>5, <2>2, <2>3, <2>4
<1>6. CASE Identify(c)
  <2>1. worker[c].pc \in Busy BY <1>6 DEF Identify, Busy
  <2>2. CASE Step(c, "commit") BY <1>3, <1>6, <2>1, <2>2 DEF Identify, Busy
  <2>3. CASE ~Step(c, "commit")
    <3>1. PICK i \in Identified(Rec(c)), pc \in {"store", "upsert"} :
            worker' = [worker EXCEPT ![c].pc = pc, ![c].cid = i, ![c].found = None,
                                     ![c].seen = Unborn]
      BY <1>6, <2>3 DEF Identify
    <3> DEFINE w == [worker[c] EXCEPT !.pc = pc, !.cid = i, !.found = None, !.seen = Unborn]
    <3>2. w.pc = pc /\ w.part = worker[c].part /\ w.off = worker[c].off
      BY <1>1 DEF WorkerState
    <3>3. w.pc \in Busy BY <3>2 DEF Busy
    <3>4. worker' = [worker EXCEPT ![c] = w] BY <3>1
    <3> HIDE DEF w
    <3> QED BY <1>2, <1>6, <2>1, <3>2, <3>3, <3>4 DEF Identify
  <2> QED BY <2>2, <2>3
<1>7. CASE Upsert(c)
  <2>1. worker[c].pc \in Busy BY <1>7 DEF Upsert, Busy
  <2>2. PICK k \in Found(worker[c].cid, Rec(c)) :
          worker' = [worker EXCEPT ![c].pc = "store", ![c].found = k,
                                   ![c].seen = IF k = None THEN Unborn ELSE calls[k]]
    BY <1>7 DEF Upsert
  <2> DEFINE seen == IF k = None THEN Unborn ELSE calls[k]
             w == [worker[c] EXCEPT !.pc = "store", !.found = k, !.seen = seen]
  <2>3. w.pc = "store" /\ w.part = worker[c].part /\ w.off = worker[c].off
    BY <1>1 DEF WorkerState
  <2>4. w.pc \in Busy BY <2>3 DEF Busy
  <2>5. worker' = [worker EXCEPT ![c] = w] BY <2>2
  <2> HIDE DEF w
  <2> QED BY <1>2, <1>7, <2>1, <2>3, <2>4, <2>5 DEF Upsert
<1>8. CASE StoreUnattributed(c)
  BY <1>3, <1>8 DEF StoreUnattributed, Busy
<1>9. CASE Store(c)
  <2>1. worker[c].pc \in Busy BY <1>9 DEF Store, Busy
  <2>2. CASE Step(c, "commit") BY <1>3, <1>9, <2>1, <2>2 DEF Store, Busy
  <2>3. CASE ~Step(c, "commit")
    <3> DEFINE w == [worker[c] EXCEPT !.pc = "enqueue", !.judge = {worker[c].cid}]
    <3>1. worker' = [worker EXCEPT ![c] = w] BY <1>9, <2>3 DEF Store
    <3>2. w.pc = "enqueue" /\ w.part = worker[c].part /\ w.off = worker[c].off
      BY <1>1 DEF WorkerState
    <3>3. w.pc \in Busy BY <3>2 DEF Busy
    <3> HIDE DEF w
    <3> QED BY <1>2, <1>9, <2>1, <3>1, <3>2, <3>3 DEF Store
  <2> QED BY <2>2, <2>3
<1>10. CASE AttemptFails(c)
  <2>1. worker[c].pc \in Busy BY <1>10 DEF AttemptFails, Busy
  <2> QED BY <1>5, <1>10, <2>1 DEF AttemptFails
<1>11. CASE EnqueueJudge(c)
  BY <1>3, <1>4, <1>11 DEF EnqueueJudge, Busy
<1>12. CASE EnqueueFails(c)
  BY <1>4, <1>5, <1>12 DEF EnqueueFails, Busy
<1>13. CASE ToDlq(c)
  BY <1>3, <1>13 DEF ToDlq, Busy
<1>14. CASE Flush(c)
  <2>1. CASE \E Q \in Quiet : FlushSelect(c, Q)
    <3>1. PICK due : worker' = [worker EXCEPT ![c] = [Idle EXCEPT !.pc = "flush", !.due = due]]
      BY <2>1 DEF FlushSelect
    <3> DEFINE w == [Idle EXCEPT !.pc = "flush", !.due = due]
    <3>2. w.pc = "flush" BY IdleType DEF WorkerState
    <3>3. worker[c].pc = "poll" /\ UNCHANGED busVars BY <2>1 DEF FlushSelect
    <3>4. w.pc \notin Busy /\ worker[c].pc \notin Busy BY <3>2, <3>3 DEF Busy
    <3>5. worker' = [worker EXCEPT ![c] = w] BY <3>1
    <3> HIDE DEF w
    <3> QED BY <1>2, <3>3, <3>4, <3>5
  <2>2. CASE FlushCommit(c)
    <3> DEFINE w == [worker[c] EXCEPT !.pc = "flushEnqueue", !.due = {}, !.got = NothingRead,
                                      !.judge = Judged(c)]
    <3>1. worker' = [worker EXCEPT ![c] = w] /\ UNCHANGED busVars BY <2>2 DEF FlushCommit
    <3>2. w.pc = "flushEnqueue" BY <1>1 DEF WorkerState
    <3>3. w.pc \notin Busy /\ worker[c].pc \notin Busy BY <2>2, <3>2 DEF FlushCommit, Busy
    <3> HIDE DEF w
    <3> QED BY <1>2, <3>1, <3>3
  <2>3. CASE FlushAborts(c) BY <1>4, <2>3 DEF FlushAborts, Busy
  <2>4. CASE FlushRead(c)
    <3>1. /\ worker' = [worker EXCEPT ![c] = worker'[c]]
          /\ worker[c].pc \notin Busy /\ worker'[c].pc \notin Busy
      BY <2>4, ReadMoves DEF Busy
    <3> QED BY <1>2, <2>4, <3>1 DEF FlushRead
  <2> QED BY <1>14, <2>1, <2>2, <2>3, <2>4 DEF Flush
<1> QED BY <1>6, <1>7, <1>8, <1>9, <1>10, <1>11, <1>12, <1>13, <1>14

\* OneRecordInFlight survives any step that leaves the offsets and the records
\* consumers are at work on alone.
LEMMA InFlightKept ==
  ASSUME TypeOK, OneRecordInFlight, UNCHANGED busVars, \A d \in Consumer : Same(d)
  PROVE  OneRecordInFlight'
  BY DEF TypeOK, BusTypeOK, OneRecordInFlight, busVars, Same

\* A consumer that starts, commits or loses its assignments.
LEMMA InFlightMoved ==
  ASSUME TypeOK, OneRecordInFlight, NEW c \in Consumer,
         \/ Poll(c) \/ CommitOffset(c) \/ CommitRefused(c) \/ Crash(c)
         \/ \E p \in Partition : Rebalance(p, c)
  PROVE  OneRecordInFlight'
<1> USE DEF TypeOK
<1>1. worker \in [Consumer -> WorkerState] /\ worker[c] \in WorkerState BY DEF WorkerTypeOK
<1>2. CASE Poll(c)
  <2>1. PICK p \in Partition :
          /\ owner[p] = c
          /\ position' = [position EXCEPT ![p] = position[p] + 1]
          /\ worker' = [worker EXCEPT ![c] = [Idle EXCEPT !.pc = "identify", !.part = p,
                                                          !.off = position[p] + 1]]
    BY <1>2 DEF Poll
  <2> DEFINE w == [Idle EXCEPT !.pc = "identify", !.part = p, !.off = position[p] + 1]
  <2>2. w.pc = "identify" /\ w.part = p /\ w.off = position[p] + 1
    BY IdleType DEF WorkerState
  <2>3. w.pc \in Busy /\ worker[c].pc \notin Busy BY <1>2, <2>2 DEF Poll, Busy
  <2>4. worker' = [worker EXCEPT ![c] = w] BY <2>1
  <2> HIDE DEF w
  <2>5. worker'[c] = w /\ \A d \in Consumer : d # c => worker'[d] = worker[d]
    BY <1>1, <2>4
  <2>6. position[p] = committed[p] BY <2>1, <2>3 DEF OneRecordInFlight
  <2>7. UNCHANGED <<owner, committed>> BY <1>2 DEF Poll
  <2>8. ASSUME NEW q \in Partition, q # p, owner[q] = c
        PROVE  position'[q] = committed'[q]
    BY <2>1, <2>3, <2>7, <2>8 DEF OneRecordInFlight, BusTypeOK
  <2> QED BY <2>1, <2>2, <2>3, <2>5, <2>6, <2>7, <2>8 DEF OneRecordInFlight, BusTypeOK
<1>3. CASE CommitOffset(c)
  <2> DEFINE p == worker[c].part
  <2>1. worker[c].pc \in Busy /\ p \in Partition /\ owner[p] = c
    BY <1>3 DEF CommitOffset, Busy, WorkerTypeOK
  <2>2. worker[c].off = position[p] BY <2>1 DEF OneRecordInFlight
  <2>3. /\ UNCHANGED <<owner, position>> /\ committed' = [committed EXCEPT ![p] = position[p]]
    BY <1>3, <2>2 DEF CommitOffset, OffsetAfter
  <2>4. /\ worker'[c].pc \notin Busy
        /\ \A d \in Consumer : d # c => worker'[d] = worker[d]
    BY <1>1, <1>3, IdleType DEF CommitOffset, Rest
  <2> QED BY <2>1, <2>3, <2>4 DEF OneRecordInFlight, BusTypeOK
<1>4. ASSUME Restart(c) PROVE OneRecordInFlight'
  <2>1. /\ worker'[c].pc \notin Busy
        /\ \A d \in Consumer : d # c => worker'[d] = worker[d]
    BY <1>1, <1>4, IdleType DEF Restart, Rest
  <2> QED BY <1>4, <2>1 DEF Restart, OneRecordInFlight, BusTypeOK
<1>5. ASSUME NEW p \in Partition, Rebalance(p, c) PROVE OneRecordInFlight'
  <2>1. worker[c].pc \notin Busy BY <1>5 DEF Rebalance, Busy
  <2> QED BY <1>5, <2>1 DEF Rebalance, OneRecordInFlight, BusTypeOK
<1> QED BY <1>2, <1>3, <1>4, <1>5 DEF CommitRefused, Crash

\* A consumer that reaches "enqueue" or "commit" has just accounted for its record.
LEMMA ReachesCommit ==
  ASSUME TypeOK, CommitsAfterStore, NEW c \in Consumer,
         \/ Identify(c) \/ Upsert(c) \/ StoreUnattributed(c) \/ Store(c)
         \/ AttemptFails(c) \/ EnqueueJudge(c) \/ EnqueueFails(c) \/ ToDlq(c)
         \/ Flush(c)
  PROVE  worker'[c].pc \in {"enqueue", "commit"} => Accounted(Rec(c))'
<1> USE DEF TypeOK
<1> SUFFICES ASSUME worker'[c].pc \in {"enqueue", "commit"} PROVE Accounted(Rec(c))'
  OBVIOUS
<1>1. worker'[c].pc \in Busy BY DEF Busy
<1>2. Rec(c)' = Rec(c) /\ worker[c].pc \in Busy BY <1>1, SameRecord DEF Same, Rec
<1>3. Rec(c) \in Record BY <1>2, RecType
<1>4. worker[c] \in WorkerState /\ worker \in [Consumer -> WorkerState] BY DEF WorkerTypeOK
<1>5. CASE Identify(c)
  <2>1. PICK i \in Identified(Rec(c)) :
          \/ gone' = gone \cup {Rec(c)}
          \/ worker' = [worker EXCEPT ![c].pc = IF i = None THEN "store" ELSE "upsert",
                                   ![c].cid = i, ![c].found = None, ![c].seen = Unborn]
    BY <1>5 DEF Identify
  <2>2. worker' # [worker EXCEPT ![c].pc = IF i = None THEN "store" ELSE "upsert",
                                   ![c].cid = i, ![c].found = None, ![c].seen = Unborn]
    BY <1>4 DEF WorkerState
  <2> QED BY <1>2, <2>1, <2>2 DEF Accounted
<1>6. CASE Upsert(c)
  <2>1. PICK k \in Found(worker[c].cid, Rec(c)) :
          worker' = [worker EXCEPT ![c].pc = "store", ![c].found = k,
                                   ![c].seen = IF k = None THEN Unborn ELSE calls[k]]
    BY <1>6 DEF Upsert
  <2>2. worker'[c].pc = "store" BY <1>4, <2>1 DEF WorkerState
  <2> QED BY <2>2
<1>7. CASE StoreUnattributed(c)
  <2>1. frags'[None][Rec(c)] > 0 BY <1>3, <1>7, StoredType DEF StoreUnattributed, MaybePk
  <2> QED BY <1>2, <2>1 DEF Accounted
<1>8. CASE Store(c)
  <2>1. PICK k \in MaybePk : frags' = Stored(k, Rec(c)) BY <1>8, PkOfType DEF Store
  <2>2. frags'[k][Rec(c)] > 0 BY <1>3, <2>1, StoredType
  <2> QED BY <1>2, <2>2 DEF Accounted, MaybePk
<1>9. CASE AttemptFails(c)
  <2>1. worker'[c].pc \in {"identify", "dlq"} BY <1>2, <1>9, RetryType DEF AttemptFails
  <2> QED BY <2>1
<1>10. CASE EnqueueJudge(c)
  <2>1. worker[c].pc = "enqueue" BY <1>2, <1>10 DEF EnqueueJudge, Busy
  <2>2. Accounted(Rec(c)) BY <2>1 DEF CommitsAfterStore
  <2> QED BY <1>2, <1>10, <2>2 DEF EnqueueJudge, dbVars, Accounted
<1>11. CASE EnqueueFails(c)
  <2>1. worker'[c].pc \in {"identify", "dlq"}
    BY <1>1, <1>2, <1>4, <1>11, RetryType, IdleType DEF EnqueueFails, Rest
  <2> QED BY <2>1
<1>12. CASE ToDlq(c)
  BY <1>2, <1>12 DEF ToDlq, Accounted
<1>13. CASE Flush(c)
  <2>1. CASE FlushRead(c) BY <1>2, <2>1, ReadMoves DEF Busy
  <2> QED BY <1>2, <1>13, <2>1 DEF Flush, FlushSelect, FlushCommit, FlushAborts, Busy
<1> QED BY <1>5, <1>6, <1>7, <1>8, <1>9, <1>10, <1>11, <1>12, <1>13

LEMMA InitDelivery == Init => DeliveryInv
<1> SUFFICES ASSUME Init PROVE DeliveryInv OBVIOUS
<1>1. TypeOK BY InitTypeOK
<1>2. OneRecordInFlight BY IdleType DEF Init, OneRecordInFlight
<1>3. CommitsAfterStore BY DEF Init, Idle, CommitsAfterStore
<1>4. NoRecordSkipped BY DEF Init, NoRecordSkipped
<1> QED BY <1>1, <1>2, <1>3, <1>4 DEF DeliveryInv

LEMMA NextDelivery == DeliveryInv /\ [Next]_vars => DeliveryInv'
<1> SUFFICES ASSUME DeliveryInv, [Next]_vars PROVE DeliveryInv' OBVIOUS
<1> USE DEF DeliveryInv
<1>1. TypeOK' BY NextTypeOK
<1>2. ASSUME NEW c \in Consumer,
             \/ Identify(c) \/ Upsert(c) \/ StoreUnattributed(c) \/ Store(c)
             \/ AttemptFails(c) \/ EnqueueJudge(c) \/ EnqueueFails(c) \/ ToDlq(c)
             \/ Flush(c)
      PROVE  OneRecordInFlight' /\ CommitsAfterStore' /\ UNCHANGED committed
  <2>1. /\ \A d \in Consumer : Same(d) /\ (d # c => worker'[d] = worker[d])
        /\ UNCHANGED busVars
    BY <1>2, SameRecord
  <2>2. OneRecordInFlight' BY <2>1, InFlightKept
  <2>3. ASSUME NEW d \in Consumer, worker'[d].pc \in {"enqueue", "commit"}
        PROVE  Accounted(Rec(d))'
    <3>1. CASE d = c BY <1>2, <2>3, <3>1, ReachesCommit
    <3>2. CASE d # c
      <4>1. worker'[d] = worker[d] /\ Rec(d)' = Rec(d) BY <2>1, <3>2 DEF Rec
      <4>2. Accounted(Rec(d)) /\ worker[d].pc \in Busy
        BY <2>3, <4>1 DEF CommitsAfterStore, Busy
      <4>3. Rec(d) \in Record BY <4>2, RecType DEF TypeOK
      <4>4. Accounted(Rec(d))' BY <4>2, <4>3, AccountedStable, <4>1 DEF Accounted
      <4> QED BY <4>4
    <3> QED BY <3>1, <3>2
  <2> QED BY <2>1, <2>2, <2>3 DEF CommitsAfterStore, busVars
<1>3. ASSUME NEW c \in Consumer,
             \/ Poll(c) \/ CommitOffset(c) \/ CommitRefused(c) \/ Crash(c)
             \/ \E p \in Partition : Rebalance(p, c)
      PROVE  OneRecordInFlight' /\ CommitsAfterStore'
  <2>1. OneRecordInFlight' BY <1>3, InFlightMoved
  <2>2. ASSUME NEW d \in Consumer
        PROVE  worker'[d] = worker[d] \/ worker'[d].pc \notin {"enqueue", "commit"}
    <3>1. CASE \E p \in Partition : Rebalance(p, c) BY <3>1 DEF Rebalance
    <3>2. CASE CommitOffset(c) \/ CommitRefused(c) \/ Crash(c)
      BY <3>2, IdleType DEF CommitOffset, CommitRefused, Crash, Restart, Rest, TypeOK,
                            WorkerTypeOK, Busy
    <3>3. CASE Poll(c)
      <4>1. PICK p \in Partition :
              worker' = [worker EXCEPT ![c] = [Idle EXCEPT !.pc = "identify", !.part = p,
                                                           !.off = position[p] + 1]]
        BY <3>3 DEF Poll
      <4> DEFINE w == [Idle EXCEPT !.pc = "identify", !.part = p, !.off = position[p] + 1]
      <4>2. w.pc = "identify" BY IdleType DEF WorkerState
      <4>3. worker' = [worker EXCEPT ![c] = w] BY <4>1
      <4> HIDE DEF w
      <4> QED BY <4>2, <4>3 DEF TypeOK, WorkerTypeOK
    <3> QED BY <1>3, <3>1, <3>2, <3>3
  <2>3. ASSUME NEW d \in Consumer, worker'[d].pc \in {"enqueue", "commit"}
        PROVE  Accounted(Rec(d))'
    <3>1. worker'[d] = worker[d] /\ Rec(d)' = Rec(d) BY <2>2, <2>3 DEF Rec
    <3>2. Accounted(Rec(d)) /\ worker[d].pc \in Busy
      BY <2>3, <3>1 DEF CommitsAfterStore, Busy
    <3>3. Rec(d) \in Record BY <3>2, RecType DEF TypeOK
    <3> QED BY <3>1, <3>2, <3>3, AccountedStable DEF Accounted
  <2> QED BY <2>1, <2>3 DEF CommitsAfterStore
<1>4. ASSUME UNCHANGED <<worker, busVars>>
      PROVE  OneRecordInFlight' /\ CommitsAfterStore'
  <2>1. OneRecordInFlight' BY <1>4 DEF OneRecordInFlight, busVars
  <2>2. ASSUME NEW d \in Consumer, worker'[d].pc \in {"enqueue", "commit"}
        PROVE  Accounted(Rec(d))'
    <3>1. Rec(d)' = Rec(d) BY <1>4 DEF Rec
    <3>2. Accounted(Rec(d)) /\ worker[d].pc \in Busy
      BY <1>4, <2>2 DEF CommitsAfterStore, Busy
    <3>3. Rec(d) \in Record BY <3>2, RecType DEF TypeOK
    <3> QED BY <3>1, <3>2, <3>3, AccountedStable DEF Accounted
  <2> QED BY <2>1, <2>2 DEF CommitsAfterStore
<1>5. OneRecordInFlight' /\ CommitsAfterStore'
  <2>1. CASE Api
    BY <1>4, <2>1 DEF Api, RegisterLoad, ReconcileLoad, Load, RegisterCommit, EraseLoad, EraseCommit, EraseFails
  <2>2. CASE UNCHANGED vars BY <1>4, <2>2 DEF vars
  <2> QED BY <1>2, <1>3, <2>1, <2>2 DEF Next, Consume
<1>6. ASSUME NEW p \in Partition, NEW n \in 1 .. committed'[p]
      PROVE  Accounted(Log[p][n])'
  <2>1. committed[p] \in Nat /\ committed[p] <= Len(Log[p]) /\ Log[p] \in Seq(Record)
    BY PipelineAssumption DEF TypeOK, BusTypeOK
  <2>2. CASE n \in 1 .. committed[p]
    <3>1. Log[p][n] \in Record BY <2>1, <2>2
    <3> QED BY <2>2, <3>1, AccountedStable DEF NoRecordSkipped
  <2>3. CASE n \notin 1 .. committed[p]
    <3>1. PICK c \in Consumer : CommitOffset(c)
      <4>1. committed' # committed BY <1>6, <2>3
      <4> QED BY <1>2, <4>1
           DEF Next, Consume, Poll, CommitRefused, Crash, Restart, Rebalance, Api, RegisterLoad,
               ReconcileLoad, Load, RegisterCommit, EraseLoad, EraseCommit, EraseFails, vars, busVars
    <3>2. /\ worker[c].pc = "commit" /\ owner[worker[c].part] = c
          /\ committed' = [committed EXCEPT ![worker[c].part] = worker[c].off]
      BY <3>1 DEF CommitOffset, OffsetAfter
    <3>3. worker[c].part = p BY <1>6, <2>3, <3>2 DEF TypeOK, BusTypeOK
    <3>4. worker[c].off = committed[p] + 1
      BY <3>2, <3>3 DEF OneRecordInFlight, Busy
    <3>5. committed'[p] = committed[p] + 1
      BY <3>2, <3>3, <3>4 DEF TypeOK, BusTypeOK
    <3>6. n = worker[c].off BY <1>6, <2>1, <2>3, <3>4, <3>5
    <3>7. Rec(c) = Log[p][n] /\ Accounted(Rec(c))
      BY <3>2, <3>3, <3>6 DEF Rec, CommitsAfterStore
    <3>8. Rec(c) \in Record BY <3>2, RecType DEF TypeOK, Busy
    <3> QED BY <3>7, <3>8, AccountedStable
  <2> QED BY <2>2, <2>3
<1> QED BY <1>1, <1>5, <1>6 DEF NoRecordSkipped

\* No batch below a committed offset is lost, whatever the consumers, the group
\* and the endpoints did: it is in the buffer, a dead letter, or erased with its
\* call (worker/run.py commits an offset last, and only of the record it has).
THEOREM AtLeastOnce == Spec => []NoRecordSkipped
<1>1. Spec => []DeliveryInv BY InitDelivery, NextDelivery, PTL DEF Spec
<1>2. DeliveryInv => NoRecordSkipped BY DEF DeliveryInv
<1> QED BY <1>1, <1>2, PTL

-----------------------------------------------------------------------------
(* Erasure is complete.                                                    *)

\* A flush touches no erased row, and brings none about.
LEMMA FlushedKeepsErased ==
  ASSUME DBTypeOK, NEW i \in MaybeId, NEW k \in MaybePk, NEW seen \in Row,
         NEW r \in Record, NEW t \in Flushed(i, k, seen, r), NEW j \in CallPk
  PROVE  t[j].life = "erased" <=> calls[j].life = "erased"
<1>1. calls \in [CallPk -> Row] BY DEF DBTypeOK
<1>2. CASE k = None
  <2>1. PICK n \in CallPk : t = [calls EXCEPT ![n] = NewRow(i, r)] /\ calls[n].life = "unborn"
    BY <1>2 DEF Flushed
  <2>2. NewRow(i, r).life = "live" BY DEF NewRow, Unborn
  <2> QED BY <1>1, <2>1, <2>2
<1>3. CASE k # None
  <2>1. k \in CallPk /\ calls[k] \in Row BY <1>1, <1>3 DEF MaybePk
  <2>2. t = [calls EXCEPT ![k] = Upserted(calls[k], seen, i, r)] BY <1>1, <1>3, <2>1 DEF Flushed
  <2>3. Upserted(calls[k], seen, i, r).life = calls[k].life BY <2>1 DEF Upserted, Row
  <2> QED BY <1>1, <2>1, <2>2, <2>3
<1> QED BY <1>2, <1>3

\* No step brings a fragment or a recording back to an erased call.
LEMMA NextErased ==
  ASSUME TypeOK, ErasedLeavesNothing, [Next]_vars
  PROVE  ErasedLeavesNothing'
<1> USE DEF TypeOK
<1>1. calls \in [CallPk -> Row] /\ frags \in Frags BY DEF DBTypeOK, Frags, MaybePk
<1>2. ASSUME UNCHANGED <<frags, media>>,
             \A k \in CallPk : calls'[k].life = "erased" => calls[k].life = "erased"
      PROVE  ErasedLeavesNothing'
  BY <1>2 DEF ErasedLeavesNothing, Held
<1>3. ASSUME NEW c \in Consumer, StoreUnattributed(c) PROVE ErasedLeavesNothing'
  <2>1. Rec(c) \in Record BY <1>3, RecType DEF StoreUnattributed, Busy
  <2>2. frags' = [frags EXCEPT ![None][Rec(c)] = @ + 1] /\ UNCHANGED <<calls, media>>
    BY <1>3 DEF StoreUnattributed, Stored, apiVars
  <2>3. \A k \in CallPk : frags'[k] = frags[k]
    BY <1>1, <2>2, RecordAssumption DEF Frags, MaybePk
  <2> QED BY <2>2, <2>3 DEF ErasedLeavesNothing, Held
<1>4. ASSUME NEW c \in Consumer, Store(c) PROVE ErasedLeavesNothing'
  <2> DEFINE w == worker[c]
             r == Rec(c)
  <2>1. w.pc \in Busy /\ w \in WorkerState BY <1>4 DEF Store, Busy, WorkerTypeOK
  <2>2. r \in Record /\ w.cid \in MaybeId /\ w.found \in MaybePk /\ w.seen \in Row
    BY <2>1, RecType DEF WorkerState, MaybeId, MaybePk
  <2>3. PICK t \in Flushed(w.cid, w.found, w.seen, r) :
          LET k == PkOf(t, w.cid)
          IN  /\ frags' = Stored(k, r)
              /\ calls' \in {t, [t EXCEPT ![k] = Analysed(t[k], Stored(k, r), k)]}
    BY <1>4 DEF Store
  <2> DEFINE k == PkOf(t, w.cid)
  <2>4. t \in [CallPk -> Row] /\ k \in MaybePk BY <2>2, FlushedType, PkOfType
  <2>5. ASSUME NEW j \in CallPk, calls'[j].life = "erased"
        PROVE  j # k /\ calls[j].life = "erased"
    <3>1. t[j].life = "erased"
      <4>1. CASE calls' = t \/ j # k BY <2>3, <2>4, <2>5, <4>1
      <4>2. CASE calls' = [t EXCEPT ![k] = Analysed(t[k], Stored(k, r), k)] /\ j = k
        <5>1. Analysed(t[j], Stored(k, r), k).life = t[j].life
          BY <2>4 DEF Analysed, Row
        <5> QED BY <2>4, <2>5, <4>2, <5>1
      <4> QED BY <2>3, <4>1, <4>2
    <3>2. calls[j].life = "erased" BY <2>2, <3>1, FlushedKeepsErased
    <3>3. k = None \/ t[k].life = "live" BY DEF PkOf, ByExternalId, Live
    <3> QED BY <2>5, <3>1, <3>2, <3>3, RecordAssumption
  <2>6. \A j \in CallPk : j # k => frags'[j] = frags[j]
    <3>1. frags' = frags \/ frags' = [frags EXCEPT ![k][r] = @ + 1] BY <2>3 DEF Stored
    <3> QED BY <1>1, <3>1 DEF Frags, MaybePk
  <2>7. media' = media BY <1>4 DEF Store, apiVars
  <2> QED BY <2>5, <2>6, <2>7 DEF ErasedLeavesNothing, Held
<1>5. ASSUME NEW a \in Artifact, RegisterCommit(a) PROVE ErasedLeavesNothing'
  <2> DEFINE q == request[a]
  <2>1. CASE q.found \in Live(calls)
    <3> DEFINE k == q.found
    <3>1. k \in CallPk /\ calls[k] \in Row /\ calls[k].life = "live"
      BY <1>1, <2>1 DEF Live
    <3>2. media' = media \cup {<<k, a>>} /\ frags' = frags
      BY <1>5, <2>1 DEF RegisterCommit, Attaches
    <3>3. PICK st : calls' = [calls EXCEPT ![k] = [calls[k] EXCEPT !.media = TRUE,
                                                                   !.status = st]]
      <4> DEFINE st == IF q.complete /\ q.status # "ingested" THEN "ingested"
                       ELSE calls[k].status
      <4>1. calls' = [calls EXCEPT ![k] = [calls[k] EXCEPT !.media = TRUE, !.status = st]]
        BY <1>5, <2>1 DEF RegisterCommit, Attaches
      <4> HIDE DEF st
      <4> QED BY <4>1
    <3>4. [calls[k] EXCEPT !.media = TRUE, !.status = st].life = "live" BY <3>1 DEF Row
    <3>5. \A j \in CallPk : calls'[j].life = "erased" => j # k /\ calls[j].life = "erased"
      BY <1>1, <3>3, <3>4
    <3> QED BY <3>2, <3>5 DEF ErasedLeavesNothing, Held
  <2>2. CASE q.found \notin Live(calls) BY <1>2, <1>5, <2>2 DEF RegisterCommit, Attaches
  <2> QED BY <2>1, <2>2
<1>6. ASSUME NEW i \in Erasable, EraseCommit(i) PROVE ErasedLeavesNothing'
  <2> DEFINE k == erasing[i]
  <2>1. k \in CallPk BY <1>6 DEF EraseCommit, Live
  <2>2. /\ calls' = [calls EXCEPT ![k].life = "erased"]
        /\ frags' = [frags EXCEPT ![k] = [s \in Record |-> 0]]
        /\ media' = {m \in media : m[1] # k}
    BY <1>6 DEF EraseCommit
  <2>3. \A s \in Record : frags'[k][s] = 0 BY <1>1, <2>1, <2>2 DEF Frags, MaybePk
  <2>4. \A j \in CallPk : j # k => frags'[j] = frags[j] /\ calls'[j] = calls[j]
    BY <1>1, <2>1, <2>2 DEF Frags, MaybePk
  <2>5. Held(frags', k) = {} BY <2>3 DEF Held
  <2> QED BY <2>2, <2>4, <2>5 DEF ErasedLeavesNothing, Held
<1>7. ASSUME NEW c \in Consumer, FlushCommit(c) PROVE ErasedLeavesNothing'
  <2>1. ASSUME NEW k \in CallPk PROVE Analysed(calls[k], worker[c].got, k).life = calls[k].life
    BY <1>1 DEF Analysed, Row
  <2>2. \A k \in CallPk : calls'[k].life = calls[k].life
    BY <1>1, <1>7, <2>1 DEF FlushCommit
  <2> QED BY <1>2, <1>7, <2>2 DEF FlushCommit, apiVars
<1>8. ASSUME UNCHANGED <<calls, frags, media>> PROVE ErasedLeavesNothing'
  BY <1>2, <1>8
<1>9. ASSUME NEW c \in Consumer,
             Poll(c) \/ Consume(c) \/ Flush(c) \/ Crash(c) \/ \E p \in Partition : Rebalance(p, c)
      PROVE  ErasedLeavesNothing'
  BY <1>3, <1>4, <1>7, <1>8, <1>9
     DEF Poll, Consume, Identify, Upsert, AttemptFails, EnqueueJudge, EnqueueFails, ToDlq,
         CommitOffset, CommitRefused, Restart, Flush, FlushSelect, FlushRead, FlushAborts, Crash,
         Rebalance, dbVars, apiVars
<1>10. CASE Api
  BY <1>5, <1>6, <1>8, <1>10 DEF Api, RegisterLoad, ReconcileLoad, Load, EraseLoad, EraseFails, dbVars
<1>11. CASE UNCHANGED vars BY <1>8, <1>11 DEF vars, dbVars, apiVars
<1> QED BY <1>9, <1>10, <1>11 DEF Next

\* Once a call is erased nothing of it ever comes back under its row - no fragment
\* from a batch that was half-way through, no recording from an upload that had
\* loaded the call (erase_call deletes both with the call, in one transaction).
THEOREM ErasureComplete == Spec => []ErasedLeavesNothing
<1>1. Init => ErasedLeavesNothing
  BY DEF Init, DBInit, Unborn, ErasedLeavesNothing
<1>2. TypeOK /\ ErasedLeavesNothing /\ [Next]_vars => (TypeOK /\ ErasedLeavesNothing)'
  BY NextTypeOK, NextErased
<1> QED BY <1>1, <1>2, InitTypeOK, PTL DEF Spec

-----------------------------------------------------------------------------
(* When producers identify their calls in one way: each batch names a call *)
(* or a trace, and the batches of one trace all bear the same call id or   *)
(* all bear none.  Then no row is ever renamed, every batch has one call,  *)
(* and CallPipeline implements CallLife.  Without it SplitCall and         *)
(* TombstoneAlias show the contrary.                                       *)

\* The call a batch is of: identify without its lookup of the trace.
CallOf(r) == IF HintOf[r] # None THEN HintOf[r] ELSE TraceOf[r]

IdsAgree ==
  \A r, s \in Record :
    /\ CallOf(r) # None
    /\ TraceOf[r] # None /\ TraceOf[r] = TraceOf[s] => HintOf[r] = HintOf[s]

-----------------------------------------------------------------------------
(* The inductive invariant.                                                *)

Born(t, k) == t[k].life # "unborn"

\* A row bears the id of the batches whose trace it has, for good; the id of an
\* erased one has a tombstone.
RowsNamed ==
  \A k \in CallPk :
    IF Born(calls, k)
    THEN /\ calls[k].ext \in CallId
         /\ calls[k].trace # None =>
              \E r \in Record : TraceOf[r] = calls[k].trace /\ CallOf(r) = calls[k].ext
         /\ calls[k].life = "erased" => calls[k].ext \in tombstones
    ELSE calls[k] = Unborn

OneLiveRow == \A j, k \in Live(calls) : calls[j].ext = calls[k].ext => j = k

\* A batch is in the buffer of its own call, which is live, and once.
BufferNamed ==
  \A k \in MaybePk, r \in Record : frags[k][r] > 0 =>
    k \in Live(calls) /\ calls[k].ext = CallOf(r) /\ frags[k][r] = 1

\* What closed the span gate of a call, or made it unsupported, is in its buffer.
GatesFounded ==
  \A k \in Live(calls) :
    /\ calls[k].complete => Held(frags, k) \cap RootRecord # {}
    /\ calls[k].status = "unsupported" => calls[k].complete /\ ProcessUnsupported(frags, k)

\* What a sweep has read of a call is still in the buffer of the call, the root among it,
\* unless the call was erased since.
ReadsFounded ==
  \A c \in Consumer, k \in CallPk :
    LET read == Held(worker[c].got, k)
    IN  calls[k].life # "erased" /\ read # {} =>
          read \subseteq Held(frags, k) /\ read \cap RootRecord # {}

\* What a consumer carries from one step to the next is still true of the rows.
Carries(t, w, r) ==
  /\ w.pc \in {"upsert", "store"} => w.cid = CallOf(r)
  /\ w.pc = "store" /\ w.found # None =>
       /\ Born(t, w.found) /\ t[w.found].ext = w.cid /\ w.seen.ext = w.cid
       /\ w.seen.complete => t[w.found].complete
  /\ w.pc = "flush" => \A d \in w.due :
       Born(t, d[1]) /\ t[d[1]].ext = d[2] /\ t[d[1]].complete
  /\ w.pc \in {"enqueue", "flushEnqueue"} => \A i \in w.judge :
       \E k \in CallPk : Born(t, k) /\ t[k].ext = i /\ t[k].covers # {}

ConsumersCurrent == \A c \in Consumer : Carries(calls, worker[c], Rec(c))

ErasuresCurrent ==
  \A i \in CallId : erasing[i] # None => Born(calls, erasing[i]) /\ calls[erasing[i]].ext = i

CallInv ==
  /\ TypeOK /\ RowsNamed /\ OneLiveRow /\ BufferNamed /\ GatesFounded /\ ReadsFounded
  /\ ConsumersCurrent /\ ErasuresCurrent

-----------------------------------------------------------------------------
(* Lemmas: what the reads of a batch return, and what its store does.      *)

\* A batch resolves to its own call, whichever rows the lookup by trace sees.
LEMMA IdentifiedNamed ==
  ASSUME IdsAgree, RowsNamed, NEW r \in Record, NEW i \in Identified(r)
  PROVE  i = CallOf(r) /\ i \in CallId
<1>1. CallOf(r) \in CallId
  <2>1. HintOf[r] \in MaybeId /\ TraceOf[r] \in MaybeId BY RecordAssumption DEF MaybeId
  <2> QED BY <2>1 DEF IdsAgree, CallOf, MaybeId
<1>2. CASE HintOf[r] # None \/ TraceOf[r] = None \/ ByTrace(calls, TraceOf[r]) = {}
  BY <1>1, <1>2 DEF IdsAgree, Identified, CallOf
<1>3. CASE HintOf[r] = None /\ TraceOf[r] # None /\ ByTrace(calls, TraceOf[r]) # {}
  <2>1. PICK k \in ByTrace(calls, TraceOf[r]) : i = calls[k].ext BY <1>3 DEF Identified
  <2>2. k \in CallPk /\ Born(calls, k) /\ calls[k].trace = TraceOf[r]
    BY <2>1 DEF ByTrace, Live, Born
  <2>3. PICK s \in Record : TraceOf[s] = TraceOf[r] /\ CallOf(s) = calls[k].ext
    BY <1>3, <2>2 DEF RowsNamed
  <2>4. HintOf[s] = None BY <1>3, <2>3 DEF IdsAgree
  <2>5. CallOf(s) = CallOf(r) BY <1>3, <2>3, <2>4 DEF CallOf
  <2> QED BY <1>1, <2>1, <2>3, <2>5
<1> QED BY <1>1, <1>2, <1>3

\* upsert_call never has to promote a row: a row of the trace bears the id already.
LEMMA FoundNamed ==
  ASSUME IdsAgree, RowsNamed, NEW r \in Record, NEW k \in Found(CallOf(r), r), k # None
  PROVE  k \in Live(calls) /\ calls[k].ext = CallOf(r)
<1>1. CASE k \in ByExternalId(calls, CallOf(r)) BY <1>1 DEF ByExternalId
<1>2. CASE k \in ByTrace(calls, TraceOf[r]) /\ TraceOf[r] # None
  <2>1. k \in Live(calls) /\ k \in CallPk /\ Born(calls, k) /\ calls[k].trace = TraceOf[r]
    BY <1>2 DEF ByTrace, Live, Born
  <2>2. PICK s \in Record : TraceOf[s] = TraceOf[r] /\ CallOf(s) = calls[k].ext
    BY <1>2, <2>1 DEF RowsNamed
  <2> QED BY <1>2, <2>1, <2>2 DEF IdsAgree, CallOf
<1> QED BY <1>1, <1>2 DEF Found

\* store_fragment leaves every buffer but k's alone, and k's with the batch in it once.
LEMMA StoredOnce ==
  ASSUME DBTypeOK, BufferNamed, NEW k \in CallPk, NEW r \in Record
  PROVE  \/ frags[k][r] = 1 /\ Stored(k, r) = frags
         \/ frags[k][r] = 0 /\ Stored(k, r) = [frags EXCEPT ![k][r] = 1]
<1>1. frags[k][r] \in Nat /\ k # None /\ k \in MaybePk
  BY RecordAssumption DEF DBTypeOK, MaybePk
<1>2. CASE frags[k][r] > 0 BY <1>1, <1>2 DEF Stored, BufferNamed
<1>3. CASE frags[k][r] = 0 BY <1>1, <1>3 DEF Stored
<1> QED BY <1>1, <1>2, <1>3

\* What a store of batch r does to the row of call k, which bears the id i from then on,
\* and to its buffer.
Collects(k, i, r, new) ==
  LET old == calls[k]
  IN
  /\ old.life = "live" \/ old = Unborn
  /\ calls' = [calls EXCEPT ![k] = new] /\ frags' = Stored(k, r)
  /\ new.life = "live" /\ new.ext = i
  /\ new.complete <=> old.complete \/ r \in RootRecord
  /\ \/ new.status = old.status /\ new.covers = old.covers
     \/ /\ new.complete /\ ProcessUnsupported(frags', k)
        /\ new.status = "unsupported" /\ new.covers = old.covers
     \/ /\ new.complete /\ ~ProcessUnsupported(frags', k)
        /\ new.status = old.status /\ new.covers = Held(frags', k)

\* Where the consumer goes from there.
Proceeds(c, k, new) ==
  \/ worker' = [worker EXCEPT ![c].pc = "commit"]
  \/ /\ new.complete /\ new.covers = Held(frags', k)
     /\ worker' = [worker EXCEPT ![c].pc = "enqueue", ![c].judge = {worker[c].cid}]

\* A store either records the batch, or records it and analyses the call, if the flush
\* leaves one new or updated row with the id, and what was loaded was not more complete.
LEMMA StoreWrites ==
  ASSUME TypeOK, NEW c \in Consumer, Store(c),
         \A k \in CallPk : calls[k].life = "unborn" => calls[k] = Unborn,
         worker[c].found # None /\ worker[c].seen.complete => calls[worker[c].found].complete,
         \A t \in Flushed(worker[c].cid, worker[c].found, worker[c].seen, Rec(c)) :
           LET k == PkOf(t, worker[c].cid)
           IN  /\ k \in CallPk /\ worker[c].found \in {k, None}
               /\ calls[k].life = IF worker[c].found = None THEN "unborn" ELSE "live"
               /\ t[k].ext = worker[c].cid
               /\ t = [calls EXCEPT ![k] = IF worker[c].found = k
                                           THEN Upserted(calls[k], worker[c].seen, worker[c].cid, Rec(c))
                                           ELSE NewRow(worker[c].cid, Rec(c))]
  PROVE  \E t \in Flushed(worker[c].cid, worker[c].found, worker[c].seen, Rec(c)) :
           LET k == PkOf(t, worker[c].cid)
           IN  /\ calls'[k] \in Row /\ calls'[k].trace = t[k].trace
               /\ t[k].trace \in {calls[k].trace, TraceOf[Rec(c)]}
               /\ Collects(k, worker[c].cid, Rec(c), calls'[k]) /\ Proceeds(c, k, calls'[k])
<1> DEFINE w == worker[c]
           r == Rec(c)
           i == w.cid
<1>1. w.pc \in Busy /\ w \in WorkerState /\ calls \in [CallPk -> Row] /\ r \in Record
  BY RecType DEF Store, TypeOK, WorkerTypeOK, DBTypeOK, Busy
<1>2. w.seen \in Row /\ i \in MaybeId BY <1>1 DEF WorkerState, MaybeId
<1>3. PICK t \in Flushed(i, w.found, w.seen, r) :
        LET k == PkOf(t, i)
            row == IF k = w.found THEN Upserted(w.seen, w.seen, i, r) ELSE t[k]
            f == Stored(k, r)
        IN  /\ frags' = f
            /\ IF k # None /\ ReadyNow(row)
               THEN /\ calls' = [t EXCEPT ![k] = Analysed(t[k], f, k)]
                    /\ IF ProcessUnsupported(f, k) THEN Step(c, "commit")
                       ELSE worker' = [worker EXCEPT ![c].pc = "enqueue", ![c].judge = {i}]
               ELSE calls' = t /\ Step(c, "commit")
  BY DEF Store
<1> DEFINE k == PkOf(t, i)
           row == IF k = w.found THEN Upserted(w.seen, w.seen, i, r) ELSE t[k]
           up == IF w.found = k THEN Upserted(calls[k], w.seen, i, r) ELSE NewRow(i, r)
<1>4. /\ k \in CallPk /\ k # None /\ w.found \in {k, None}
      /\ calls[k].life = IF w.found = None THEN "unborn" ELSE "live"
      /\ t = [calls EXCEPT ![k] = up] /\ t[k].ext = i
  BY RecordAssumption
<1>5. up \in Row BY <1>1, <1>2, <1>4, UpsertedType
<1>6. t[k] = up /\ calls[k] \in Row BY <1>1, <1>4
<1>7. w.found = None => calls[k] = Unborn BY <1>4
<1>8. /\ up.life = "live" /\ up.ext = i /\ up.trace \in {calls[k].trace, TraceOf[r]}
      /\ up.complete <=> calls[k].complete \/ r \in RootRecord
      /\ up.status = calls[k].status /\ up.covers = calls[k].covers
  <2>1. CASE w.found = None
    <3>1. up = [Unborn EXCEPT !.life = "live", !.ext = i, !.trace = TraceOf[r],
                              !.complete = r \in RootRecord]
      BY <1>4, <2>1 DEF NewRow
    <3>2. ~calls[k].complete BY <1>7, <2>1 DEF Unborn
    <3>3. up.complete <=> r \in RootRecord BY <3>1 DEF Unborn
    <3> HIDE DEF up, i, r
    <3>4. /\ up.life = "live" /\ up.ext = i /\ up.trace = TraceOf[r]
          /\ up.status = Unborn.status /\ up.covers = Unborn.covers
      BY <3>1 DEF Unborn
    <3> QED BY <1>7, <2>1, <3>2, <3>3, <3>4
  <2>2. CASE w.found = k
    <3>1. up = [calls[k] EXCEPT !.ext = IF w.seen.ext # i THEN i ELSE calls[k].ext,
                  !.trace = IF w.seen.trace = None THEN TraceOf[r] ELSE calls[k].trace,
                  !.complete = calls[k].complete \/ r \in RootRecord]
      BY <2>2 DEF Upserted
    <3>2. up.complete <=> calls[k].complete \/ r \in RootRecord BY <1>6, <3>1 DEF Row
    <3> HIDE DEF up, i, r, k
    <3>3. /\ up.life = calls[k].life /\ up.status = calls[k].status
          /\ up.covers = calls[k].covers
          /\ up.trace = IF w.seen.trace = None THEN TraceOf[r] ELSE calls[k].trace
      BY <1>6, <3>1 DEF Row
    <3>4. up.ext = i BY <1>4, <1>6
    <3>5. up.life = "live" BY <1>4, <2>2, <3>3, RecordAssumption
    <3> QED BY <3>2, <3>3, <3>4, <3>5
  <2> QED BY <1>4, <2>1, <2>2
<1>9. row.complete => up.complete
  <2>1. CASE w.found = k
    <3>1. w.seen.complete => calls[k].complete BY <1>4, <2>1
    <3>2. row.complete <=> w.seen.complete \/ r \in RootRecord
      BY <1>2, <2>1 DEF Upserted, Row
    <3> QED BY <1>8, <3>1, <3>2
  <2>2. CASE w.found # k BY <1>6, <2>2
  <2> QED BY <2>1, <2>2
<1> DEFINE new == calls'[k]
<1>10. calls' = [calls EXCEPT ![k] = new] /\ new \in Row /\ frags' = Stored(k, r)
  <2>1. Stored(k, r) \in Frags BY <1>1, <1>4, StoredType DEF TypeOK, MaybePk
  <2>2. Analysed(up, Stored(k, r), k) \in Row BY <1>4, <1>5, <2>1, AnalysedType DEF MaybePk
  <2>3. calls' \in {t, [t EXCEPT ![k] = Analysed(up, Stored(k, r), k)]}
    BY <1>3, <1>6
  <2> QED BY <1>1, <1>3, <1>4, <1>5, <2>2, <2>3
<1>11. /\ new.life = up.life /\ new.ext = up.ext /\ new.trace = up.trace /\ new.complete = up.complete
       /\ \/ /\ new.status = up.status /\ new.covers = up.covers
             /\ worker' = [worker EXCEPT ![c].pc = "commit"]
          \/ /\ row.complete /\ ProcessUnsupported(frags', k)
             /\ new.status = "unsupported" /\ new.covers = up.covers
             /\ worker' = [worker EXCEPT ![c].pc = "commit"]
          \/ /\ row.complete /\ ~ProcessUnsupported(frags', k)
             /\ new.status = up.status /\ new.covers = Held(frags', k)
             /\ worker' = [worker EXCEPT ![c].pc = "enqueue", ![c].judge = {i}]
  <2>1. CASE ReadyNow(row)
    <3>1. calls' = [t EXCEPT ![k] = Analysed(up, frags', k)]
      BY <1>3, <1>4, <1>6, <2>1
    <3>2. new = Analysed(up, frags', k) BY <1>1, <1>4, <3>1
    <3>3. row.complete BY <2>1 DEF ReadyNow
    <3>4. CASE ProcessUnsupported(frags', k)
      <4>1. worker' = [worker EXCEPT ![c].pc = "commit"]
        BY <1>3, <1>4, <2>1, <3>4 DEF Step
      <4>2. new = [up EXCEPT !.status = "unsupported"] BY <3>2, <3>4 DEF Analysed
      <4> QED BY <1>5, <3>3, <3>4, <4>1, <4>2 DEF Row
    <3>5. CASE ~ProcessUnsupported(frags', k)
      <4>1. worker' = [worker EXCEPT ![c].pc = "enqueue", ![c].judge = {i}]
        BY <1>3, <1>4, <2>1, <3>5
      <4>2. new = [up EXCEPT !.analysed = TRUE, !.covers = Held(frags', k)]
        BY <3>2, <3>5 DEF Analysed
      <4> QED BY <1>5, <3>3, <3>5, <4>1, <4>2 DEF Row
    <3> QED BY <3>4, <3>5
  <2>2. CASE ~ReadyNow(row)
    <3>1. calls' = t /\ worker' = [worker EXCEPT ![c].pc = "commit"]
      BY <1>3, <2>2 DEF Step
    <3> QED BY <1>6, <3>1
  <2> QED BY <2>1, <2>2
<1>12. Collects(k, i, r, new) /\ Proceeds(c, k, new)
  <2>1. calls[k].life = "live" \/ calls[k] = Unborn BY <1>4, <1>7
  <2> HIDE DEF new, up, row, k, r
  <2>2. Collects(k, i, r, new) BY <1>8, <1>9, <1>10, <1>11, <2>1 DEF Collects
  <2>3. Proceeds(c, k, new) BY <1>8, <1>9, <1>11 DEF Proceeds, i, w
  <2> QED BY <2>2, <2>3
<1>13. new \in Row /\ new.trace = t[k].trace /\ t[k].trace \in {calls[k].trace, TraceOf[r]}
  <2> HIDE DEF new, up, row, k, r
  <2> QED BY <1>6, <1>8, <1>10, <1>11
<1> QED BY <1>12, <1>13

\* What a store does where ids agree: nothing else bears the id.
Collected(c, k, new) ==
  LET r == Rec(c)
      old == calls[k]
  IN
  /\ old.life = "live" => old.ext = CallOf(r)
  /\ \A j \in Live(calls) : j # k => calls[j].ext # CallOf(r)
  /\ Collects(k, CallOf(r), r, new) /\ new.trace \in {old.trace, TraceOf[r]}
  /\ worker[c].cid = CallOf(r) /\ Proceeds(c, k, new)

\* The flush leaves one new or updated row that bears the id, and _call_pk finds it.
LEMMA FlushedRow ==
  ASSUME TypeOK, IdsAgree, CallInv, NEW c \in Consumer, Store(c),
         NEW t \in Flushed(worker[c].cid, worker[c].found, worker[c].seen, Rec(c))
  PROVE  LET i == CallOf(Rec(c))
             k == PkOf(t, i)
         IN /\ worker[c].cid = i /\ i \in CallId
            /\ k \in CallPk /\ worker[c].found \in {k, None}
            /\ calls[k].life = IF worker[c].found = None THEN "unborn" ELSE "live"
            /\ \A j \in Live(calls) : j # k => calls[j].ext # i
            /\ worker[c].found = k => calls[k].ext = i /\ worker[c].seen.ext = i
            /\ t = [calls EXCEPT ![k] = IF worker[c].found = k
                                        THEN Upserted(calls[k], worker[c].seen, i, Rec(c))
                                        ELSE NewRow(i, Rec(c))]
<1> DEFINE w == worker[c]
           r == Rec(c)
           i == CallOf(r)
<1>1. /\ w.pc = "store" /\ w.cid # None /\ ~Rejected(w.cid, w.found, w.seen) /\ w \in WorkerState
      /\ calls \in [CallPk -> Row]
  BY DEF Store, TypeOK, WorkerTypeOK, DBTypeOK
<1>2. r \in Record BY <1>1, RecType DEF TypeOK, Busy
<1>3. w.cid = i BY <1>1 DEF CallInv, ConsumersCurrent, Carries
<1>4. i \in CallId BY <1>2, RecordAssumption DEF IdsAgree, CallOf
<1>5. w.seen \in Row /\ w.found \in MaybePk BY <1>1 DEF WorkerState, MaybePk
<1>6. CASE w.found = None
  <2>1. ByExternalId(calls, i) = {} BY <1>1, <1>3, <1>6 DEF Rejected
  <2>2. PICK n \in CallPk : calls[n].life = "unborn" /\ t = [calls EXCEPT ![n] = NewRow(i, r)]
    BY <1>3, <1>6 DEF Flushed
  <2>3. t[n].life = "live" /\ t[n].ext = i BY <1>1, <2>2 DEF NewRow, Unborn
  <2>4. \A j \in CallPk : j # n => t[j] = calls[j] BY <1>1, <2>2
  <2>5. ByExternalId(t, i) = {n} BY <2>1, <2>3, <2>4 DEF ByExternalId, Live
  <2>6. PkOf(t, i) = n BY <2>5 DEF PkOf
  <2> QED BY <1>3, <1>4, <1>6, <2>1, <2>2, <2>6, RecordAssumption DEF ByExternalId
<1>7. CASE w.found # None
  <2> DEFINE k == w.found
  <2>1. k \in CallPk /\ k \in Live(calls) /\ calls[k].ext = i /\ w.seen.ext = i
    BY <1>1, <1>3, <1>5, <1>7 DEF Rejected, CallInv, ConsumersCurrent, Carries, MaybePk
  <2>2. t = [calls EXCEPT ![k] = Upserted(calls[k], w.seen, i, r)]
    BY <1>1, <1>3, <1>7, <2>1 DEF Flushed
  <2>3. t[k].life = "live" /\ t[k].ext = i BY <1>1, <2>1, <2>2 DEF Upserted, Live, Row
  <2>4. \A j \in CallPk : j # k => t[j] = calls[j] BY <1>1, <2>2
  <2>5. \A j \in Live(calls) : j # k => calls[j].ext # i BY <2>1 DEF CallInv, OneLiveRow
  <2>6. ByExternalId(t, i) = {k} BY <2>1, <2>3, <2>4, <2>5 DEF ByExternalId, Live
  <2>7. PkOf(t, i) = k BY <2>6 DEF PkOf
  <2> QED BY <1>3, <1>4, <1>7, <2>1, <2>2, <2>5, <2>7, RecordAssumption DEF Live
<1> QED BY <1>6, <1>7

\* So a store collects the batch for the call that bears its id.
LEMMA StoreCollects ==
  ASSUME TypeOK, IdsAgree, CallInv, NEW c \in Consumer, Store(c)
  PROVE  \E k \in CallPk, new \in Row : Collected(c, k, new)
<1> DEFINE w == worker[c]
           r == Rec(c)
<1>1. /\ \A k \in CallPk : calls[k].life = "unborn" => calls[k] = Unborn
      /\ w.found # None /\ w.seen.complete => calls[w.found].complete
  BY DEF CallInv, RowsNamed, Born, ConsumersCurrent, Carries, Store
<1>2. ASSUME NEW t \in Flushed(w.cid, w.found, w.seen, r)
      PROVE  LET k == PkOf(t, w.cid)
             IN  /\ w.cid = CallOf(r) /\ k \in CallPk /\ w.found \in {k, None}
                 /\ calls[k].life = IF w.found = None THEN "unborn" ELSE "live"
                 /\ calls[k].life = "live" => calls[k].ext = CallOf(r)
                 /\ \A j \in Live(calls) : j # k => calls[j].ext # CallOf(r)
                 /\ t[k].ext = w.cid
                 /\ t = [calls EXCEPT ![k] = IF w.found = k
                                             THEN Upserted(calls[k], w.seen, w.cid, r)
                                             ELSE NewRow(w.cid, r)]
  <2> DEFINE k == PkOf(t, w.cid)
  <2>1. /\ w.cid = CallOf(r) /\ k \in CallPk /\ w.found \in {k, None}
        /\ calls[k].life = IF w.found = None THEN "unborn" ELSE "live"
        /\ \A j \in Live(calls) : j # k => calls[j].ext # w.cid
        /\ w.found = k => calls[k].ext = w.cid /\ w.seen.ext = w.cid
        /\ t = [calls EXCEPT ![k] = IF w.found = k THEN Upserted(calls[k], w.seen, w.cid, r)
                                    ELSE NewRow(w.cid, r)]
    BY FlushedRow
  <2>2. calls \in [CallPk -> Row] BY DEF TypeOK, DBTypeOK
  <2>3. t[k].ext = w.cid
    <3>1. Upserted(calls[k], w.seen, w.cid, r).ext = IF w.seen.ext # w.cid THEN w.cid ELSE calls[k].ext
      BY <2>1, <2>2 DEF Upserted, Row
    <3>2. NewRow(w.cid, r).ext = w.cid BY DEF NewRow, Unborn
    <3> HIDE DEF k
    <3> QED BY <2>1, <2>2, <3>1, <3>2
  <2> QED BY <2>1, <2>3
<1>3. PICK t \in Flushed(w.cid, w.found, w.seen, r) :
        LET k == PkOf(t, w.cid)
        IN  /\ calls'[k] \in Row /\ calls'[k].trace = t[k].trace
            /\ t[k].trace \in {calls[k].trace, TraceOf[r]}
            /\ Collects(k, w.cid, r, calls'[k]) /\ Proceeds(c, k, calls'[k])
  BY <1>1, <1>2, StoreWrites
<1> QED BY <1>2, <1>3 DEF Collected

-----------------------------------------------------------------------------
(* The invariant is inductive: the tables.                                 *)

Tables == RowsNamed /\ OneLiveRow /\ BufferNamed /\ GatesFounded

\* What no step takes back from a row.
Grows ==
  \A k \in CallPk : Born(calls, k) =>
    /\ Born(calls', k) /\ calls'[k].ext = calls[k].ext
    /\ calls[k].complete => calls'[k].complete
    /\ calls[k].covers # {} => calls'[k].covers # {}

\* The batches a call holds at a store: those it held, and the one stored.
LEMMA StoredHeld ==
  ASSUME DBTypeOK, BufferNamed, NEW k \in CallPk, NEW r \in Record, frags' = Stored(k, r)
  PROVE  /\ Held(frags', k) = Held(frags, k) \cup {r} /\ frags'[k][r] = 1
         /\ \A s \in Record : s # r => frags'[k][s] = frags[k][s]
         /\ \A j \in MaybePk : j # k => frags'[j] = frags[j]
<1>1. frags \in [MaybePk -> [Record -> Nat]] /\ k \in MaybePk BY DEF DBTypeOK, MaybePk
<1>2. CASE frags[k][r] = 1 /\ frags' = frags BY <1>1, <1>2 DEF Held
<1>3. CASE frags[k][r] = 0 /\ frags' = [frags EXCEPT ![k][r] = 1]
  <2>1. frags'[k] = [frags[k] EXCEPT ![r] = 1] BY <1>1, <1>3
  <2>2. frags'[k][r] = 1 /\ \A s \in Record : s # r => frags'[k][s] = frags[k][s]
    BY <1>1, <2>1
  <2>3. \A j \in MaybePk : j # k => frags'[j] = frags[j] BY <1>1, <1>3
  <2> QED BY <2>2, <2>3 DEF Held
<1> QED BY <1>2, <1>3, StoredOnce

\* What a sweep does to one row.
LEMMA SweptRow ==
  ASSUME calls \in [CallPk -> Row], NEW c \in Consumer, FlushCommit(c), NEW k \in CallPk
  PROVE  /\ calls'[k].life = calls[k].life /\ calls'[k].ext = calls[k].ext
         /\ calls'[k].trace = calls[k].trace /\ calls'[k].complete = calls[k].complete
         /\ k \in DuePks(c) /\ ProcessUnsupported(worker[c].got, k) =>
              calls'[k].status = "unsupported" /\ calls'[k].covers = calls[k].covers
         /\ k \in DuePks(c) /\ ~ProcessUnsupported(worker[c].got, k) =>
              calls'[k].status = calls[k].status /\ calls'[k].covers = Held(worker[c].got, k)
         /\ k \notin DuePks(c) => calls'[k] = calls[k]
<1>1. calls'[k] = IF k \in DuePks(c) THEN Analysed(calls[k], worker[c].got, k) ELSE calls[k]
  BY DEF FlushCommit
<1>2. calls[k] \in Row OBVIOUS
<1>3. CASE k \in DuePks(c) /\ ProcessUnsupported(worker[c].got, k)
  <2>1. calls'[k] = [calls[k] EXCEPT !.status = "unsupported"] BY <1>1, <1>3 DEF Analysed
  <2> QED BY <1>2, <1>3, <2>1 DEF Row
<1>4. CASE k \in DuePks(c) /\ ~ProcessUnsupported(worker[c].got, k)
  <2>1. calls'[k] = [calls[k] EXCEPT !.analysed = TRUE, !.covers = Held(worker[c].got, k)]
    BY <1>1, <1>4 DEF Analysed
  <2> QED BY <1>2, <1>4, <2>1 DEF Row
<1>5. CASE k \notin DuePks(c) BY <1>1, <1>5
<1> QED BY <1>3, <1>4, <1>5

\* Attaching a recording changes no row but in its media flag and its status, and an
\* unsupported one only to be tried again.
LEMMA RegisteredRow ==
  ASSUME TypeOK, NEW a \in Artifact, RegisterCommit(a)
  PROVE  UNCHANGED calls \/ \E k \in Live(calls), new \in Row :
              /\ calls' = [calls EXCEPT ![k] = new]
              /\ new.life = "live" /\ new.ext = calls[k].ext /\ new.covers = calls[k].covers
              /\ new.trace = calls[k].trace
              /\ new.complete = calls[k].complete /\ new.status \in {"ingested", calls[k].status}
<1>1. CASE request[a].found \in Live(calls)
  <2> DEFINE q == request[a]
             k == q.found
             st == IF q.complete /\ q.status # "ingested" THEN "ingested" ELSE calls[k].status
             new == [calls[k] EXCEPT !.media = TRUE, !.status = st]
  <2>1. k \in Live(calls) /\ calls[k] \in Row /\ calls[k].life = "live"
    BY <1>1 DEF TypeOK, DBTypeOK, Live
  <2>2. calls' = [calls EXCEPT ![k] = new] BY <1>1 DEF RegisterCommit, Attaches
  <2>3. st \in {"ingested", calls[k].status} OBVIOUS
  <2> HIDE DEF st
  <2>4. new \in Row BY <2>1, <2>3 DEF Row, Status
  <2>5. /\ new.life = "live" /\ new.ext = calls[k].ext /\ new.covers = calls[k].covers
        /\ new.complete = calls[k].complete /\ new.status = st /\ new.trace = calls[k].trace
    BY <2>1 DEF Row
  <2> HIDE DEF new, k
  <2> QED BY <2>1, <2>2, <2>3, <2>4, <2>5
<1> QED BY <1>1 DEF RegisterCommit, Attaches

\* What a store leaves in the buffer of the call, whatever was there.
LEMMA StoredHolds ==
  ASSUME TypeOK, NEW k \in CallPk, NEW r \in Record, frags' = Stored(k, r)
  PROVE  /\ Held(frags', k) = Held(frags, k) \cup {r}
         /\ \A j \in CallPk : j # k => Held(frags', j) = Held(frags, j)
<1>1. /\ frags \in [MaybePk -> [Record -> Nat]] /\ k \in MaybePk /\ k # None
      /\ frags[k][r] \in Nat /\ CallPk \subseteq MaybePk
  BY RecordAssumption DEF TypeOK, DBTypeOK, MaybePk
<1>2. CASE frags[k][r] > 0 BY <1>1, <1>2 DEF Stored, Held
<1>3. CASE frags[k][r] = 0
  <2>1. frags' = [frags EXCEPT ![k][r] = 1] BY <1>1, <1>3 DEF Stored
  <2>2. /\ frags'[k] = [frags[k] EXCEPT ![r] = 1]
        /\ \A j \in MaybePk : j # k => frags'[j] = frags[j]
    BY <1>1, <2>1
  <2>3. frags'[k][r] = 1 /\ \A q \in Record : q # r => frags'[k][q] = frags[k][q]
    BY <1>1, <2>2
  <2> QED BY <1>1, <2>2, <2>3 DEF Held
<1> QED BY <1>1, <1>2, <1>3

\* What closed a gate is still in the buffer after a store ...
LEMMA CollectsFounds ==
  ASSUME TypeOK, GatesFounded, NEW r \in Record, NEW i, NEW k \in CallPk, NEW new \in Row,
         Collects(k, i, r, new)
  PROVE  /\ GatesFounded' /\ (new.complete => Held(frags', k) \cap RootRecord # {})
         /\ calls[k].covers # {} => new.covers # {}
<1>1. calls \in [CallPk -> Row] BY DEF TypeOK, DBTypeOK
<1>2. /\ calls' = [calls EXCEPT ![k] = new] /\ frags' = Stored(k, r)
      /\ calls[k].life = "live" \/ calls[k] = Unborn
      /\ new.life = "live" /\ (new.complete <=> calls[k].complete \/ r \in RootRecord)
  BY DEF Collects
<1>3. calls'[k] = new /\ \A j \in CallPk : j # k => calls'[j] = calls[j] BY <1>1, <1>2
<1>4. /\ Held(frags', k) = Held(frags, k) \cup {r}
      /\ \A j \in CallPk : j # k => Held(frags', j) = Held(frags, j)
  BY <1>2, StoredHolds
<1>5. new.complete => Held(frags', k) \cap RootRecord # {}
  BY <1>2, <1>4 DEF GatesFounded, Live, Unborn
<1>6. calls[k].status = "unsupported" => calls[k].complete /\ ProcessUnsupported(frags, k)
  BY <1>2 DEF GatesFounded, Live, Unborn
<1>7. ProcessUnsupported(frags, k) => ProcessUnsupported(frags', k)
  BY <1>4 DEF ProcessUnsupported
<1>8. new.status = "unsupported" => new.complete /\ ProcessUnsupported(frags', k)
  BY <1>2, <1>6, <1>7 DEF Collects
<1>9. ASSUME NEW j \in Live(calls)', j # k
      PROVE  /\ calls'[j].complete => Held(frags', j) \cap RootRecord # {}
             /\ calls'[j].status = "unsupported" => calls'[j].complete /\ ProcessUnsupported(frags', j)
  <2>1. j \in Live(calls) /\ calls'[j] = calls[j] /\ Held(frags', j) = Held(frags, j)
    BY <1>3, <1>4, <1>9 DEF Live
  <2> QED BY <2>1 DEF GatesFounded, ProcessUnsupported
<1>10. GatesFounded' BY <1>3, <1>5, <1>8, <1>9 DEF GatesFounded
<1>11. calls[k].covers # {} => new.covers # {} BY <1>5 DEF Collects
<1> QED BY <1>5, <1>10, <1>11

\* ... after a sweep of complete calls ...
LEMMA SweepFounds ==
  ASSUME TypeOK, GatesFounded, ReadsFounded, NEW c \in Consumer, FlushCommit(c),
         \A k \in DuePks(c) : calls[k].complete
  PROVE  /\ GatesFounded'
         /\ \A k \in DuePks(c) :
              /\ k \in CallPk /\ calls[k].life = "live" /\ Held(worker[c].got, k) # {}
              /\ Held(worker[c].got, k) \subseteq Held(frags, k)
              /\ Held(worker[c].got, k) \cap RootRecord # {}
<1>1. calls \in [CallPk -> Row] BY DEF TypeOK, DBTypeOK
<1>2. \A k \in DuePks(c) : k \in CallPk /\ calls[k].life = "live" /\ Held(worker[c].got, k) # {}
  BY DEF FlushCommit, HasRead, Live
<1>3. UNCHANGED frags BY DEF FlushCommit
<1>4. Live(calls)' = Live(calls) BY <1>1, SweptRow DEF Live
<1>5. \A k \in DuePks(c) : /\ Held(worker[c].got, k) \subseteq Held(frags, k)
                           /\ Held(worker[c].got, k) \cap RootRecord # {}
  BY <1>2 DEF ReadsFounded
<1>6. ASSUME NEW k \in Live(calls)
      PROVE  /\ calls'[k].complete => Held(frags', k) \cap RootRecord # {}
             /\ calls'[k].status = "unsupported" =>
                  calls'[k].complete /\ ProcessUnsupported(frags', k)
  <2>1. k \in CallPk BY DEF Live
  <2>2. /\ calls[k].complete => Held(frags, k) \cap RootRecord # {}
        /\ calls[k].status = "unsupported" => calls[k].complete /\ ProcessUnsupported(frags, k)
    BY DEF GatesFounded
  <2>3. k \in DuePks(c) /\ ProcessUnsupported(worker[c].got, k) => ProcessUnsupported(frags, k)
    BY <1>5 DEF ProcessUnsupported
  <2> QED BY <1>1, <1>3, <2>1, <2>2, <2>3, SweptRow
<1> QED BY <1>2, <1>4, <1>5, <1>6 DEF GatesFounded

\* ... after a recording came in ...
LEMMA RegisterFounds ==
  ASSUME TypeOK, GatesFounded, NEW a \in Artifact, RegisterCommit(a)
  PROVE  GatesFounded'
<1>1. calls \in [CallPk -> Row] /\ UNCHANGED frags BY DEF TypeOK, DBTypeOK, RegisterCommit
<1>2. CASE UNCHANGED calls BY <1>1, <1>2 DEF GatesFounded, Live, ProcessUnsupported, Held
<1>3. ASSUME NEW k \in Live(calls), NEW new \in Row,
             /\ calls' = [calls EXCEPT ![k] = new]
             /\ new.life = "live" /\ new.complete = calls[k].complete
             /\ new.status \in {"ingested", calls[k].status}
      PROVE  GatesFounded'
  <2>1. ASSUME NEW j \in CallPk
        PROVE  /\ calls'[j].life = calls[j].life /\ calls'[j].complete = calls[j].complete
               /\ calls'[j].status = "unsupported" => calls[j].status = "unsupported"
    BY <1>1, <1>3 DEF Live
  <2>2. Live(calls)' = Live(calls) BY <2>1 DEF Live
  <2>3. \A j \in CallPk : Held(frags', j) = Held(frags, j)
                          /\ (ProcessUnsupported(frags', j) <=> ProcessUnsupported(frags, j))
    BY <1>1
  <2> QED BY <2>1, <2>2, <2>3 DEF GatesFounded, Live
<1> QED BY <1>2, <1>3, RegisteredRow

\* ... and after an erasure, which empties the buffer of the row it takes.
LEMMA EraseFounds ==
  ASSUME TypeOK, GatesFounded, NEW i \in Erasable, EraseCommit(i)
  PROVE  GatesFounded'
<1> DEFINE k == erasing[i]
<1>1. /\ calls \in [CallPk -> Row] /\ frags \in [MaybePk -> [Record -> Nat]]
      /\ k \in CallPk /\ calls' = [calls EXCEPT ![k].life = "erased"]
      /\ frags' = [frags EXCEPT ![k] = [r \in Record |-> 0]]
  BY DEF TypeOK, DBTypeOK, MaybePk, EraseCommit, Live
<1>2. calls'[k].life = "erased" BY <1>1 DEF Row
<1>3. ASSUME NEW j \in Live(calls)'
      PROVE  j \in Live(calls) /\ calls'[j] = calls[j] /\ Held(frags', j) = Held(frags, j)
  <2>1. j # k /\ j \in CallPk BY <1>2 DEF Live
  <2> QED BY <1>1, <2>1 DEF Live, Held, MaybePk
<1> QED BY <1>3 DEF GatesFounded, ProcessUnsupported

\* Whoever does what, a call that is not erased was not, and keeps what it has collected.
LEMMA BuffersGrow ==
  ASSUME TypeOK, [Next]_vars, NEW k \in CallPk, calls'[k].life # "erased"
  PROVE  calls[k].life # "erased" /\ Held(frags, k) \subseteq Held(frags', k)
<1>1. /\ DBTypeOK /\ calls \in [CallPk -> Row] /\ frags \in [MaybePk -> [Record -> Nat]]
      /\ k \in MaybePk
  BY DEF TypeOK, DBTypeOK, MaybePk
<1>2. ASSUME NEW j \in MaybePk, NEW r \in Record, frags' = Stored(j, r)
      PROVE  Held(frags, k) \subseteq Held(frags', k)
  BY <1>1, <1>2, StoredType DEF Held
<1>3. ASSUME NEW c \in Consumer, StoreUnattributed(c)
      PROVE  calls[k].life # "erased" /\ Held(frags, k) \subseteq Held(frags', k)
  <2>1. Rec(c) \in Record BY <1>3, RecType DEF StoreUnattributed, Busy, TypeOK
  <2>2. frags' = Stored(None, Rec(c)) /\ UNCHANGED calls BY <1>3 DEF StoreUnattributed
  <2> QED BY <1>2, <2>1, <2>2 DEF MaybePk
<1>4. ASSUME NEW c \in Consumer, Store(c)
      PROVE  calls[k].life # "erased" /\ Held(frags, k) \subseteq Held(frags', k)
  <2> DEFINE w == worker[c]
             r == Rec(c)
  <2>1. w.pc \in Busy /\ w \in WorkerState BY <1>4 DEF Store, Busy, WorkerTypeOK, TypeOK
  <2>2. r \in Record /\ w.cid \in MaybeId /\ w.found \in MaybePk /\ w.seen \in Row
    BY <2>1, RecType DEF WorkerState, MaybeId, MaybePk, TypeOK
  <2>3. PICK t \in Flushed(w.cid, w.found, w.seen, r) :
          LET j == PkOf(t, w.cid)
          IN  /\ frags' = Stored(j, r)
              /\ calls' \in {t, [t EXCEPT ![j] = Analysed(t[j], Stored(j, r), j)]}
    BY <1>4 DEF Store
  <2> DEFINE j == PkOf(t, w.cid)
  <2>4. t \in [CallPk -> Row] /\ j \in MaybePk BY <1>1, <2>2, FlushedType, PkOfType
  <2>5. t[k].life = "erased" <=> calls[k].life = "erased" BY <1>1, <2>2, FlushedKeepsErased
  <2>6. calls'[k].life = t[k].life
    <3>1. Analysed(t[k], Stored(j, r), j).life = t[k].life BY <2>4 DEF Analysed, Row
    <3> QED BY <2>3, <2>4, <3>1
  <2> QED BY <1>2, <2>2, <2>3, <2>4, <2>5, <2>6
<1>5. ASSUME NEW c \in Consumer, FlushCommit(c)
      PROVE  calls[k].life # "erased" /\ Held(frags, k) \subseteq Held(frags', k)
  <2>1. calls'[k].life = calls[k].life BY <1>1, <1>5, SweptRow
  <2> QED BY <1>5, <2>1 DEF FlushCommit
<1>6. ASSUME NEW a \in Artifact, RegisterCommit(a)
      PROVE  calls[k].life # "erased" /\ Held(frags, k) \subseteq Held(frags', k)
  <2>1. calls'[k].life = calls[k].life BY <1>1, <1>6, RegisteredRow DEF Live
  <2> QED BY <1>6, <2>1 DEF RegisterCommit
<1>7. ASSUME NEW i \in Erasable, EraseCommit(i)
      PROVE  calls[k].life # "erased" /\ Held(frags, k) \subseteq Held(frags', k)
  <2>1. /\ calls' = [calls EXCEPT ![erasing[i]].life = "erased"]
        /\ frags' = [frags EXCEPT ![erasing[i]] = [r \in Record |-> 0]]
    BY <1>7 DEF EraseCommit
  <2>2. k # erasing[i] BY <1>1, <2>1 DEF Row
  <2> QED BY <1>1, <2>1, <2>2 DEF Held
<1>8. ASSUME UNCHANGED <<calls, frags>>
      PROVE  calls[k].life # "erased" /\ Held(frags, k) \subseteq Held(frags', k)
  BY <1>8
<1>9. CASE Api
  BY <1>6, <1>7, <1>8, <1>9 DEF Api, RegisterLoad, ReconcileLoad, Load, EraseLoad, EraseFails, dbVars
<1>10. ASSUME NEW c \in Consumer,
              Poll(c) \/ Consume(c) \/ Flush(c) \/ Crash(c) \/ \E p \in Partition : Rebalance(p, c)
       PROVE  calls[k].life # "erased" /\ Held(frags, k) \subseteq Held(frags', k)
  BY <1>3, <1>4, <1>5, <1>8, <1>10
     DEF Poll, Consume, Identify, Upsert, AttemptFails, EnqueueJudge, EnqueueFails, ToDlq,
         CommitOffset, CommitRefused, Restart, Flush, FlushSelect, FlushRead, FlushAborts, Crash,
         Rebalance, dbVars
<1>11. CASE UNCHANGED vars BY <1>8, <1>11 DEF vars, dbVars
<1> QED BY <1>9, <1>10, <1>11 DEF Next

\* A consumer keeps what it has read, forgets it, or reads on.
LEMMA GotKept ==
  ASSUME TypeOK, [Next]_vars, NEW c \in Consumer
  PROVE  FlushRead(c) \/ worker'[c].got \in {worker[c].got, NothingRead}
<1>1. /\ worker \in [Consumer -> WorkerState] /\ worker[c] \in WorkerState
      /\ Idle \in WorkerState /\ Idle.got = NothingRead
  <2>1. Idle.got = NothingRead BY DEF Idle
  <2> QED BY <2>1, IdleType DEF TypeOK, WorkerTypeOK
<1>2. ASSUME NEW d \in Consumer, Rest(d)
      PROVE  worker'[c].got \in {worker[c].got, NothingRead}
  BY <1>1, <1>2 DEF Rest
<1>3. ASSUME NEW d \in Consumer, NEW pc, Step(d, pc)
      PROVE  worker'[c].got \in {worker[c].got, NothingRead}
  BY <1>1, <1>3 DEF Step, WorkerState
<1>4. ASSUME NEW d \in Consumer, Retry(d)
      PROVE  worker'[c].got \in {worker[c].got, NothingRead}
  <2>1. PICK w : /\ worker' = [worker EXCEPT ![d] = w] /\ w.got = worker[d].got
    <3> DEFINE pc == IF worker[d].attempt + 1 < MaxRetries THEN "identify" ELSE "dlq"
               n == worker[d].attempt + 1
               w == [worker[d] EXCEPT !.attempt = n, !.pc = pc]
    <3>1. worker' = [worker EXCEPT ![d] = w] BY <1>4 DEF Retry
    <3>2. worker[d] \in WorkerState BY <1>1
    <3> HIDE DEF pc, n
    <3>3. w.got = worker[d].got BY <3>2 DEF WorkerState
    <3> HIDE DEF w
    <3> QED BY <3>1, <3>3
  <2> QED BY <1>1, <2>1
<1>5. ASSUME UNCHANGED worker PROVE worker'[c].got \in {worker[c].got, NothingRead}
  BY <1>5
<1>6. ASSUME NEW d \in Consumer, Poll(d)
      PROVE  worker'[c].got \in {worker[c].got, NothingRead}
  <2>1. PICK p \in Partition :
          worker' = [worker EXCEPT ![d] = [Idle EXCEPT !.pc = "identify", !.part = p,
                                                       !.off = position[p] + 1]]
    BY <1>6 DEF Poll
  <2> DEFINE n == position[p] + 1
             w == [Idle EXCEPT !.pc = "identify", !.part = p, !.off = n]
  <2>2. worker' = [worker EXCEPT ![d] = w] BY <2>1
  <2> HIDE DEF n
  <2>3. w.got = NothingRead BY <1>1 DEF WorkerState
  <2> HIDE DEF w
  <2> QED BY <1>1, <2>2, <2>3
<1>7. ASSUME NEW d \in Consumer, Identify(d)
      PROVE  worker'[c].got \in {worker[c].got, NothingRead}
  <2>1. CASE Step(d, "commit") BY <1>3, <2>1
  <2>2. CASE ~Step(d, "commit")
    <3>1. PICK i \in Identified(Rec(d)), pc \in {"store", "upsert"} :
            worker' = [worker EXCEPT ![d].pc = pc, ![d].cid = i, ![d].found = None,
                                     ![d].seen = Unborn]
      BY <1>7, <2>2 DEF Identify
    <3> QED BY <1>1, <3>1 DEF WorkerState
  <2> QED BY <2>1, <2>2
<1>8. ASSUME NEW d \in Consumer, Upsert(d)
      PROVE  worker'[c].got \in {worker[c].got, NothingRead}
  <2>1. PICK k \in Found(worker[d].cid, Rec(d)) :
          worker' = [worker EXCEPT ![d].pc = "store", ![d].found = k,
                                   ![d].seen = IF k = None THEN Unborn ELSE calls[k]]
    BY <1>8 DEF Upsert
  <2> DEFINE seen == IF k = None THEN Unborn ELSE calls[k]
  <2>2. worker' = [worker EXCEPT ![d].pc = "store", ![d].found = k, ![d].seen = seen] BY <2>1
  <2> HIDE DEF seen
  <2> QED BY <1>1, <2>2 DEF WorkerState
<1>9. ASSUME NEW d \in Consumer, Store(d)
      PROVE  worker'[c].got \in {worker[c].got, NothingRead}
  <2>1. CASE Step(d, "commit") BY <1>3, <2>1
  <2>2. CASE worker' = [worker EXCEPT ![d].pc = "enqueue", ![d].judge = {worker[d].cid}]
    BY <1>1, <2>2 DEF WorkerState
  <2> QED BY <1>9, <2>1, <2>2 DEF Store
<1>10. ASSUME NEW d \in Consumer, \E Q \in Quiet : FlushSelect(d, Q)
       PROVE  worker'[c].got \in {worker[c].got, NothingRead}
  <2>1. PICK due : worker' = [worker EXCEPT ![d] = [Idle EXCEPT !.pc = "flush", !.due = due]]
    BY <1>10 DEF FlushSelect
  <2>2. [Idle EXCEPT !.pc = "flush", !.due = due].got = NothingRead BY <1>1 DEF WorkerState
  <2> QED BY <1>1, <2>1, <2>2
<1>11. ASSUME NEW d \in Consumer, FlushCommit(d)
       PROVE  worker'[c].got \in {worker[c].got, NothingRead}
  <2> DEFINE w == [worker[d] EXCEPT !.pc = "flushEnqueue", !.due = {}, !.got = NothingRead,
                                    !.judge = Judged(d)]
  <2>1. worker' = [worker EXCEPT ![d] = w] BY <1>11 DEF FlushCommit
  <2>2. w.got = NothingRead BY <1>1 DEF WorkerState
  <2> HIDE DEF w
  <2> QED BY <1>1, <2>1, <2>2
<1>12. ASSUME NEW d \in Consumer, FlushRead(d), d # c
       PROVE  worker'[c].got \in {worker[c].got, NothingRead}
  BY <1>1, <1>12, ReadMoves
<1>13. ASSUME NEW d \in Consumer, Consume(d)
       PROVE  worker'[c].got \in {worker[c].got, NothingRead}
  BY <1>2, <1>3, <1>4, <1>7, <1>8, <1>9, <1>13
     DEF Consume, StoreUnattributed, AttemptFails, EnqueueJudge, EnqueueFails, ToDlq,
         CommitOffset, CommitRefused, Restart
<1>14. CASE Api
  BY <1>5, <1>14 DEF Api, RegisterLoad, ReconcileLoad, Load, RegisterCommit, EraseLoad,
                     EraseCommit, EraseFails
<1>15. ASSUME NEW d \in Consumer, Flush(d)
       PROVE  FlushRead(c) \/ worker'[c].got \in {worker[c].got, NothingRead}
  BY <1>2, <1>10, <1>11, <1>12, <1>15 DEF Flush, FlushAborts
<1>16. CASE UNCHANGED vars BY <1>5, <1>16 DEF vars
<1> QED BY <1>2, <1>5, <1>6, <1>13, <1>14, <1>15, <1>16 DEF Next, Crash, Restart, Rebalance

\* So what a sweep has read stays founded, if it takes calls whose spans are complete.
LEMMA ReadsKept ==
  ASSUME TypeOK, GatesFounded, ReadsFounded, [Next]_vars,
         \A c \in Consumer : worker[c].pc = "flush" =>
           \A d \in worker[c].due : calls[d[1]].complete
  PROVE  ReadsFounded'
<1> SUFFICES ASSUME NEW c \in Consumer, NEW k \in CallPk, calls'[k].life # "erased",
                    Held(worker'[c].got, k) # {}
             PROVE  /\ Held(worker'[c].got, k) \subseteq Held(frags', k)
                    /\ Held(worker'[c].got, k) \cap RootRecord # {}
  BY DEF ReadsFounded
<1>1. calls[k].life # "erased" /\ Held(frags, k) \subseteq Held(frags', k) BY BuffersGrow
<1>2. CASE Held(worker'[c].got, k) = Held(worker[c].got, k)
  BY <1>1, <1>2 DEF ReadsFounded
<1>3. CASE worker'[c].got = NothingRead
  <2>1. Held(NothingRead, k) = {} BY DEF Held, NothingRead
  <2> QED BY <1>3, <2>1
<1>4. CASE FlushRead(c)
  <2>1. /\ worker[c].pc = "flush" /\ worker[c].got \in [CallPk -> [Record -> Nat]]
    BY <1>4, ReadMoves DEF TypeOK, WorkerTypeOK, WorkerState
  <2>2. PICK j \in DuePks(c) \cap Live(calls) :
          worker'[c].got = [worker[c].got EXCEPT ![j] = frags[j]]
    BY <1>4, ReadMoves
  <2>3. CASE j = k
    <3>1. worker'[c].got[k] = frags[k] BY <2>1, <2>2, <2>3
    <3>2. Held(worker'[c].got, k) = Held(frags, k) BY <3>1 DEF Held
    <3>3. calls[k].complete BY <2>1, <2>2, <2>3 DEF DuePks
    <3>4. Held(frags, k) \cap RootRecord # {} BY <2>2, <2>3, <3>3 DEF GatesFounded
    <3> QED BY <1>1, <3>2, <3>4
  <2>4. CASE j # k
    <3>1. worker'[c].got[k] = worker[c].got[k] BY <2>1, <2>2, <2>4
    <3>2. Held(worker'[c].got, k) = Held(worker[c].got, k) BY <3>1 DEF Held
    <3> QED BY <1>2, <3>2
  <2> QED BY <2>3, <2>4
<1> QED BY <1>2, <1>3, <1>4, GotKept

\* At first nobody has read anything.
LEMMA InitReads == Init => ReadsFounded
<1> SUFFICES ASSUME Init, NEW c \in Consumer, NEW k \in CallPk
             PROVE  Held(worker[c].got, k) = {}
  BY DEF ReadsFounded
<1>1. worker[c].got = NothingRead BY DEF Init, Idle
<1> QED BY <1>1 DEF Held, NothingRead

\* A store keeps the tables, and what its consumer carries on is true of them.
LEMMA StoreTables ==
  ASSUME TypeOK, IdsAgree, CallInv, NEW c \in Consumer, Store(c)
  PROVE  Tables' /\ Grows /\ Carries(calls', worker'[c], Rec(c)')
<1>1. PICK k \in CallPk, new \in Row : Collected(c, k, new) BY StoreCollects
<1> DEFINE r == Rec(c)
           i == CallOf(r)
<1>2. /\ calls \in [CallPk -> Row] /\ frags \in [MaybePk -> [Record -> Nat]] /\ k \in MaybePk
      /\ worker \in [Consumer -> WorkerState] /\ worker[c] \in WorkerState
  BY DEF TypeOK, DBTypeOK, WorkerTypeOK, MaybePk
<1>3. r \in Record BY RecType DEF Store, TypeOK, Busy
<1>4. /\ calls'[k] = new /\ (\A j \in CallPk : j # k => calls'[j] = calls[j])
      /\ calls[k].life # "erased" /\ (calls[k].life = "live" => calls[k].ext = i)
      /\ \A j \in Live(calls) : j # k => calls[j].ext # i
      /\ new.life = "live" /\ new.ext = i /\ new.trace \in {calls[k].trace, TraceOf[r]}
      /\ new.complete <=> calls[k].complete \/ r \in RootRecord
  BY <1>1, <1>2 DEF Collected, Collects, Unborn
<1>5. /\ Held(frags', k) = Held(frags, k) \cup {r} /\ frags'[k][r] = 1
      /\ \A s \in Record : s # r => frags'[k][s] = frags[k][s]
      /\ \A j \in MaybePk : j # k => frags'[j] = frags[j]
  <2>1. DBTypeOK /\ BufferNamed /\ frags' = Stored(k, r)
    BY <1>1 DEF Collected, Collects, CallInv, TypeOK
  <2> QED BY <1>3, <2>1, StoredHeld
<1>6. i \in CallId /\ i # None
  <2>1. HintOf[r] \in MaybeId /\ TraceOf[r] \in MaybeId BY <1>3, RecordAssumption DEF MaybeId
  <2> QED BY <1>3, <2>1, RecordAssumption DEF IdsAgree, CallOf, MaybeId
<1>7. calls[k].life = "live" \/ calls[k] = Unborn
  BY <1>2, <1>4 DEF CallInv, RowsNamed, Born, Row
<1>8. RowsNamed'
  <2>1. ASSUME NEW j \in CallPk, j # k
        PROVE  calls'[j] = calls[j] /\ (Born(calls', j) <=> Born(calls, j))
    BY <1>4, <2>1 DEF Born
  <2>2. UNCHANGED tombstones BY DEF Store
  <2>3. new.trace # None =>
          \E s \in Record : TraceOf[s] = new.trace /\ CallOf(s) = i
    <3>1. CASE new.trace = TraceOf[r] BY <1>3, <3>1
    <3>2. CASE new.trace = calls[k].trace /\ calls[k].life = "live"
      BY <1>4, <3>2 DEF CallInv, RowsNamed, Born
    <3>3. CASE new.trace = calls[k].trace /\ calls[k] = Unborn BY <3>3 DEF Unborn
    <3> QED BY <1>4, <1>7, <3>1, <3>2, <3>3
  <2>4. Born(calls', k) BY <1>4 DEF Born
  <2> QED BY <1>4, <1>6, <2>1, <2>2, <2>3, <2>4 DEF CallInv, RowsNamed
<1>9. OneLiveRow'
  <2>1. \A j \in Live(calls)' : j # k => j \in Live(calls) /\ calls'[j] = calls[j]
    BY <1>4 DEF Live
  <2> QED BY <1>4, <2>1 DEF CallInv, OneLiveRow
<1>10. BufferNamed'
  <2>1. ASSUME NEW j \in MaybePk, NEW s \in Record, frags'[j][s] > 0
        PROVE  j \in Live(calls)' /\ calls'[j].ext = CallOf(s) /\ frags'[j][s] = 1
    <3>1. CASE j # k
      <4>1. j \in Live(calls) /\ calls[j].ext = CallOf(s) /\ frags[j][s] = 1
        BY <1>5, <2>1, <3>1 DEF CallInv, BufferNamed
      <4> QED BY <1>4, <1>5, <3>1, <4>1 DEF Live
    <3>2. CASE j = k /\ s # r
      <4>1. calls[k].ext = CallOf(s) /\ frags[k][s] = 1 /\ k \in Live(calls)
        BY <1>2, <1>5, <2>1, <3>2 DEF CallInv, BufferNamed
      <4> QED BY <1>4, <1>5, <3>2, <4>1 DEF Live
    <3>3. CASE j = k /\ s = r BY <1>4, <1>5, <3>3 DEF Live
    <3> QED BY <3>1, <3>2, <3>3
  <2> QED BY <2>1 DEF BufferNamed
<1>11. GatesFounded' /\ (new.complete => Held(frags', k) \cap RootRecord # {})
       /\ (calls[k].covers # {} => new.covers # {})
  BY <1>1, <1>3, CollectsFounds DEF CallInv, Collected
<1>12. Grows
  <2>1. Born(calls', k) BY <1>4 DEF Born
  <2>2. Born(calls, k) => calls[k].ext = i BY <1>7, <1>4 DEF Born, Unborn
  <2>3. calls[k].covers # {} => new.covers # {} BY <1>11
  <2> QED BY <1>4, <2>1, <2>2, <2>3 DEF Grows, Born
<1>13. Carries(calls', worker'[c], r')
  <2>1. CASE worker'[c].pc = "commit" BY <2>1 DEF Carries
  <2>2. CASE worker'[c].pc = "enqueue" /\ worker'[c].judge = {i} /\ new.covers # {}
    BY <1>4, <2>2 DEF Carries, Born
  <2>3. worker' = [worker EXCEPT ![c].pc = "commit"] => worker'[c].pc = "commit"
    BY <1>2 DEF WorkerState
  <2>4. worker' = [worker EXCEPT ![c].pc = "enqueue", ![c].judge = {i}]
          => worker'[c].pc = "enqueue" /\ worker'[c].judge = {i}
    BY <1>2 DEF WorkerState
  <2> QED BY <1>1, <1>4, <1>11, <2>1, <2>2, <2>3, <2>4 DEF Collected, Proceeds
<1> QED BY <1>8, <1>9, <1>10, <1>11, <1>12, <1>13 DEF Tables

\* A sweep analyses rows whose span gate is closed, over buffers that hold a root.
LEMMA SweepTables ==
  ASSUME TypeOK, CallInv, NEW c \in Consumer, FlushCommit(c)
  PROVE  /\ Tables' /\ Grows /\ Carries(calls', worker'[c], Rec(c)')
         /\ \A k \in DuePks(c) : calls[k].life = "live" /\ calls[k].complete
<1>1. /\ calls \in [CallPk -> Row] /\ worker[c] \in WorkerState /\ worker \in [Consumer -> WorkerState]
  BY DEF TypeOK, DBTypeOK, WorkerTypeOK
<1>2. \A d \in worker[c].due :
        d[1] \in CallPk /\ Born(calls, d[1]) /\ calls[d[1]].ext = d[2] /\ calls[d[1]].complete
  BY <1>1 DEF FlushCommit, CallInv, ConsumersCurrent, Carries, WorkerState
<1>3. \A k \in DuePks(c) : k \in Live(calls) /\ calls[k].complete
  BY <1>2 DEF FlushCommit, DuePks
<1>4. \A k \in CallPk :
        /\ calls'[k].life = calls[k].life /\ calls'[k].ext = calls[k].ext
        /\ calls'[k].trace = calls[k].trace /\ calls'[k].complete = calls[k].complete
        /\ calls'[k].status # calls[k].status =>
             calls'[k].status = "unsupported" /\ k \in DuePks(c) /\ ProcessUnsupported(worker[c].got, k)
        /\ calls'[k].covers # calls[k].covers => k \in DuePks(c) /\ calls'[k].covers = Held(worker[c].got, k)
        /\ k \in DuePks(c) /\ ~ProcessUnsupported(worker[c].got, k) => calls'[k].covers = Held(worker[c].got, k)
        /\ k \notin DuePks(c) => calls'[k] = calls[k]
  BY <1>1, SweptRow
<1>5. \A k \in CallPk : Born(calls', k) <=> Born(calls, k) BY <1>4 DEF Born
<1>6. Live(calls)' = Live(calls) BY <1>4 DEF Live
<1>7. UNCHANGED <<frags, tombstones>> BY DEF FlushCommit
<1>8. \A k \in CallPk : calls[k] = Unborn => calls'[k] = calls[k]
  BY <1>3, <1>4 DEF Live, Unborn
<1>9. RowsNamed'
  BY <1>4, <1>5, <1>7, <1>8 DEF CallInv, RowsNamed
<1>10. OneLiveRow' BY <1>4, <1>6 DEF CallInv, OneLiveRow, Live
<1>11. BufferNamed' BY <1>4, <1>6, <1>7 DEF CallInv, BufferNamed, Live
<1>12. GatesFounded' BY <1>3, SweepFounds DEF CallInv
<1>13. \A k \in DuePks(c) : Held(worker[c].got, k) # {} BY <1>3, SweepFounds DEF CallInv
<1>14. Grows BY <1>4, <1>5, <1>13 DEF Grows
<1>15. Carries(calls', worker'[c], Rec(c)')
  <2>1. worker'[c].pc = "flushEnqueue" /\ worker'[c].judge = Judged(c)
    BY <1>1 DEF FlushCommit, WorkerState
  <2>2. ASSUME NEW i \in Judged(c)
        PROVE  \E k \in CallPk : Born(calls', k) /\ calls'[k].ext = i /\ calls'[k].covers # {}
    <3>1. PICK d \in worker[c].due : d[2] = i /\ ~ProcessUnsupported(worker[c].got, d[1])
      BY DEF Judged
    <3>2. d[1] \in DuePks(c) BY DEF DuePks
    <3> QED BY <1>2, <1>4, <1>5, <1>13, <3>1, <3>2
  <2> QED BY <2>1, <2>2 DEF Carries
<1> QED BY <1>3, <1>9, <1>10, <1>11, <1>12, <1>14, <1>15 DEF Tables, Live

\* So the tables stay as they should be.
LEMMA RegisterTables ==
  ASSUME TypeOK, CallInv, NEW a \in Artifact, RegisterCommit(a)
  PROVE  Tables' /\ Grows
<1>1. calls \in [CallPk -> Row] BY DEF TypeOK, DBTypeOK
<1>2. UNCHANGED <<frags, tombstones>> BY DEF RegisterCommit
<1>3. CASE UNCHANGED calls
  BY <1>2, <1>3 DEF CallInv, Tables, RowsNamed, OneLiveRow, BufferNamed, GatesFounded, Grows,
                    ProcessUnsupported, Held
<1>4. ASSUME NEW k \in Live(calls), NEW new \in Row,
             /\ calls' = [calls EXCEPT ![k] = new]
             /\ new.life = "live" /\ new.ext = calls[k].ext /\ new.covers = calls[k].covers
             /\ new.trace = calls[k].trace
             /\ new.complete = calls[k].complete /\ new.status \in {"ingested", calls[k].status}
      PROVE  Tables' /\ Grows
  <2>1. k \in CallPk /\ calls[k].life = "live" BY DEF Live
  <2>2. ASSUME NEW j \in CallPk
        PROVE  /\ calls'[j].life = calls[j].life /\ calls'[j].ext = calls[j].ext
               /\ calls'[j].trace = calls[j].trace /\ calls'[j].complete = calls[j].complete
               /\ calls'[j].covers = calls[j].covers
               /\ j # k => calls'[j] = calls[j]
               /\ calls'[j].status = "unsupported" => calls[j].status = "unsupported"
    BY <1>1, <1>4, <2>1
  <2>3. \A j \in CallPk : (Born(calls', j) <=> Born(calls, j))
                          /\ (calls[j] = Unborn => calls'[j] = calls[j])
    BY <2>1, <2>2 DEF Born, Unborn
  <2>4. Live(calls)' = Live(calls) BY <2>2 DEF Live
  <2>5. RowsNamed' BY <1>2, <2>2, <2>3 DEF CallInv, RowsNamed
  <2>6. OneLiveRow' BY <2>2, <2>4 DEF CallInv, OneLiveRow, Live
  <2>7. BufferNamed' BY <1>2, <2>2, <2>4 DEF CallInv, BufferNamed, Live
  <2>8. GatesFounded' BY RegisterFounds DEF CallInv
  <2>9. Grows BY <2>2, <2>3 DEF Grows
  <2> QED BY <2>5, <2>6, <2>7, <2>8, <2>9 DEF Tables
<1> QED BY <1>3, <1>4, RegisteredRow

\* An erasure takes the row it loaded, the one of the id it leaves a tombstone for.
LEMMA EraseTables ==
  ASSUME TypeOK, CallInv, NEW i \in Erasable, EraseCommit(i)
  PROVE  Tables' /\ Grows
<1> DEFINE k == erasing[i]
<1>1. /\ calls \in [CallPk -> Row] /\ frags \in [MaybePk -> [Record -> Nat]]
      /\ i \in CallId
  BY PipelineAssumption DEF TypeOK, DBTypeOK, MaybePk
<1>2. k \in CallPk /\ calls[k].life = "live" /\ calls[k].ext = i
  BY <1>1 DEF EraseCommit, Live, CallInv, ErasuresCurrent
<1>3. /\ calls' = [calls EXCEPT ![k].life = "erased"]
      /\ frags' = [frags EXCEPT ![k] = [r \in Record |-> 0]]
      /\ tombstones' = tombstones \cup {i}
  BY DEF EraseCommit
<1>4. /\ calls'[k] = [calls[k] EXCEPT !.life = "erased"]
      /\ \A j \in CallPk : j # k => calls'[j] = calls[j]
  BY <1>1, <1>2, <1>3
<1>5. /\ calls'[k].life = "erased" /\ calls'[k].ext = i /\ calls'[k].trace = calls[k].trace
      /\ calls'[k].complete = calls[k].complete /\ calls'[k].covers = calls[k].covers
  BY <1>1, <1>2, <1>4 DEF Row
<1>6. (\A r \in Record : frags'[k][r] = 0) /\ \A j \in MaybePk : j # k => frags'[j] = frags[j]
  BY <1>1, <1>2, <1>3 DEF MaybePk
<1>7. Live(calls)' = Live(calls) \ {k} BY <1>2, <1>4, <1>5 DEF Live
<1>8. RowsNamed'
  <2>1. \A j \in CallPk : j # k => calls'[j] = calls[j] BY <1>4
  <2>2. Born(calls', k) /\ Born(calls, k) BY <1>2, <1>5 DEF Born
  <2>3. ASSUME NEW j \in CallPk, j # k
        PROVE  IF Born(calls', j)
               THEN /\ calls'[j].ext \in CallId
                    /\ calls'[j].trace # None =>
                         \E r \in Record : TraceOf[r] = calls'[j].trace /\ CallOf(r) = calls'[j].ext
                    /\ calls'[j].life = "erased" => calls'[j].ext \in tombstones'
               ELSE calls'[j] = Unborn
    <3>1. CASE Born(calls, j)
      <4>1. /\ calls[j].ext \in CallId
            /\ calls[j].trace # None =>
                 \E r \in Record : TraceOf[r] = calls[j].trace /\ CallOf(r) = calls[j].ext
            /\ calls[j].life = "erased" => calls[j].ext \in tombstones
        BY <3>1 DEF CallInv, RowsNamed
      <4> QED BY <1>3, <2>1, <2>3, <3>1, <4>1 DEF Born
    <3>2. CASE ~Born(calls, j)
      <4>1. calls[j] = Unborn BY <3>2 DEF CallInv, RowsNamed
      <4> QED BY <2>1, <2>3, <3>2, <4>1 DEF Born
    <3> QED BY <3>1, <3>2
  <2>4. calls'[k].trace # None =>
          \E r \in Record : TraceOf[r] = calls'[k].trace /\ CallOf(r) = calls'[k].ext
    <3>1. calls[k].trace # None =>
            \E r \in Record : TraceOf[r] = calls[k].trace /\ CallOf(r) = calls[k].ext
      BY <1>2, <2>2 DEF CallInv, RowsNamed
    <3> QED BY <1>2, <1>5, <3>1
  <2>5. calls'[k].ext \in CallId /\ calls'[k].ext \in tombstones' BY <1>1, <1>3, <1>5
  <2> QED BY <2>2, <2>3, <2>4, <2>5 DEF RowsNamed
<1>9. OneLiveRow' BY <1>4, <1>7 DEF CallInv, OneLiveRow, Live
<1>10. BufferNamed' BY <1>4, <1>6, <1>7 DEF CallInv, BufferNamed, Live
<1>11. GatesFounded' BY EraseFounds DEF CallInv
<1>12. Grows BY <1>2, <1>4, <1>5 DEF Grows, Born
<1> QED BY <1>8, <1>9, <1>10, <1>11, <1>12 DEF Tables

-----------------------------------------------------------------------------
(* The invariant is inductive: what the consumers and the endpoints carry. *)

\* What a consumer carries survives what the others do to the rows.
LEMMA CarriesKept ==
  ASSUME NEW w \in WorkerState, NEW r, Carries(calls, w, r), Grows
  PROVE  Carries(calls', w, r)
<1>1. w.due \in SUBSET (CallPk \X MaybeId) /\ w.found \in MaybePk
  BY DEF WorkerState, MaybeId, MaybePk
<1>2. ASSUME w.pc = "store", w.found # None
      PROVE  /\ Born(calls', w.found) /\ calls'[w.found].ext = w.cid /\ w.seen.ext = w.cid
             /\ w.seen.complete => calls'[w.found].complete
  BY <1>1, <1>2 DEF Carries, Grows, MaybePk
<1>3. ASSUME w.pc = "flush", NEW d \in w.due
      PROVE  Born(calls', d[1]) /\ calls'[d[1]].ext = d[2] /\ calls'[d[1]].complete
  BY <1>1, <1>3 DEF Carries, Grows
<1>4. ASSUME w.pc \in {"enqueue", "flushEnqueue"}, NEW i \in w.judge
      PROVE  \E k \in CallPk : Born(calls', k) /\ calls'[k].ext = i /\ calls'[k].covers # {}
  BY <1>4 DEF Carries, Grows
<1>5. w.pc \in {"upsert", "store"} => w.cid = CallOf(r) BY DEF Carries
<1> QED BY <1>2, <1>3, <1>4, <1>5 DEF Carries

\* A consumer that begins, ends or gives up a record carries nothing.
LEMMA CarriesNothing ==
  ASSUME NEW t, NEW w, NEW r,
         w.pc \notin {"upsert", "store", "flush", "enqueue", "flushEnqueue"}
  PROVE  Carries(t, w, r)
BY DEF Carries

\* A step of consumer c that touches no table: what c carries after it.
LEMMA StepCarries ==
  ASSUME TypeOK, IdsAgree, CallInv, NEW c \in Consumer, UNCHANGED calls,
         \/ Poll(c) \/ Identify(c) \/ Upsert(c) \/ AttemptFails(c) \/ EnqueueJudge(c)
         \/ EnqueueFails(c) \/ ToDlq(c) \/ CommitOffset(c) \/ CommitRefused(c) \/ Crash(c)
         \/ (\E Q \in Quiet : FlushSelect(c, Q)) \/ FlushRead(c) \/ FlushAborts(c)
  PROVE  Carries(calls', worker'[c], Rec(c)')
<1> DEFINE w == worker[c]
           r == Rec(c)
<1>1. w \in WorkerState /\ worker \in [Consumer -> WorkerState] /\ Idle \in WorkerState
  BY IdleType DEF TypeOK, WorkerTypeOK
<1>2. ASSUME worker' = [worker EXCEPT ![c] = Idle] PROVE Carries(calls', worker'[c], Rec(c)')
  <2>1. worker'[c].pc = "poll" BY <1>1, <1>2 DEF Idle
  <2> QED BY <2>1, CarriesNothing
<1>3. ASSUME NEW pc \in {"identify", "dlq", "commit"}, worker'[c].pc = pc
      PROVE  Carries(calls', worker'[c], Rec(c)')
  BY <1>3, CarriesNothing
<1>4. CASE Poll(c)
  <2>1. PICK p \in Partition :
          worker' = [worker EXCEPT ![c] = [Idle EXCEPT !.pc = "identify", !.part = p,
                                                       !.off = position[p] + 1]]
    BY <1>4 DEF Poll
  <2>2. worker'[c].pc = "identify" BY <1>1, <2>1 DEF Idle
  <2> QED BY <1>3, <2>2
<1>5. CASE Identify(c)
  <2>1. w.pc = "identify" /\ r \in Record BY <1>5, RecType DEF Identify, TypeOK, Busy
  <2>2. PICK i \in Identified(r) :
          \/ Step(c, "commit")
          \/ worker' = [worker EXCEPT ![c].pc = IF i = None THEN "store" ELSE "upsert",
                          ![c].cid = i, ![c].found = None, ![c].seen = Unborn]
    BY <1>5 DEF Identify
  <2>3. i = CallOf(r) /\ i \in CallId /\ i # None
    BY <2>1, IdentifiedNamed, RecordAssumption DEF CallInv
  <2>4. CASE Step(c, "commit")
    <3>1. worker'[c].pc = "commit" BY <1>1, <2>4 DEF Step, WorkerState
    <3> QED BY <1>3, <3>1
  <2>5. CASE worker' = [worker EXCEPT ![c].pc = IF i = None THEN "store" ELSE "upsert",
                          ![c].cid = i, ![c].found = None, ![c].seen = Unborn]
    <3>1. worker'[c].pc = "upsert" /\ worker'[c].cid = i
      BY <1>1, <2>3, <2>5 DEF WorkerState
    <3>2. Rec(c)' = r
      <4>1. Same(c) BY <1>5, SameRecord
      <4> QED BY <3>1, <4>1 DEF Same, Rec, Busy
    <3> QED BY <2>3, <3>1, <3>2 DEF Carries
  <2> QED BY <2>2, <2>4, <2>5
<1>6. CASE Upsert(c)
  <2>1. w.pc = "upsert" /\ r \in Record BY <1>6, RecType DEF Upsert, TypeOK, Busy
  <2>2. w.cid = CallOf(r) BY <2>1 DEF CallInv, ConsumersCurrent, Carries
  <2>3. PICK k \in Found(w.cid, r) :
          worker' = [worker EXCEPT ![c].pc = "store", ![c].found = k,
                                   ![c].seen = IF k = None THEN Unborn ELSE calls[k]]
    BY <1>6 DEF Upsert
  <2>4. /\ worker'[c].pc = "store" /\ worker'[c].found = k /\ worker'[c].cid = w.cid
        /\ k # None => worker'[c].seen = calls[k]
    BY <1>1, <2>3 DEF WorkerState
  <2>5. k # None => k \in Live(calls) /\ calls[k].ext = CallOf(r)
    BY <2>1, <2>2, FoundNamed DEF CallInv
  <2>6. k # None => Born(calls', k) /\ calls'[k].ext = w.cid
    BY <2>2, <2>5 DEF Live, Born
  <2>7. Rec(c)' = r
    <3>1. Same(c) BY <1>6, SameRecord
    <3> QED BY <2>4, <3>1 DEF Same, Rec, Busy
  <2> QED BY <2>2, <2>4, <2>5, <2>6, <2>7 DEF Carries
<1>7. CASE AttemptFails(c) \/ (EnqueueFails(c) /\ w.pc = "enqueue")
  <2>1. Retry(c) /\ w.pc \in Busy BY <1>7 DEF AttemptFails, EnqueueFails, Busy
  <2>2. worker'[c].pc \in {"identify", "dlq"} BY <2>1, RetryType DEF TypeOK
  <2> QED BY <1>3, <2>2
<1>8. CASE ToDlq(c) \/ (EnqueueJudge(c) /\ w.pc = "enqueue")
  <2>1. Step(c, "commit") BY <1>8 DEF ToDlq, EnqueueJudge
  <2>2. worker'[c].pc = "commit" BY <1>1, <2>1 DEF Step, WorkerState
  <2> QED BY <1>3, <2>2
<1>9. CASE \/ CommitOffset(c) \/ CommitRefused(c) \/ Crash(c) \/ FlushAborts(c)
           \/ w.pc # "enqueue" /\ (EnqueueJudge(c) \/ EnqueueFails(c))
  BY <1>2, <1>9 DEF CommitOffset, CommitRefused, Crash, Restart, FlushAborts, EnqueueJudge,
                    EnqueueFails, Rest
<1>10. CASE \E Q \in Quiet : FlushSelect(c, Q)
  <2>1. PICK Q \in Quiet : \E S \in Selected(Q) :
          worker' = [worker EXCEPT ![c] = [Idle EXCEPT !.pc = "flush",
                       !.due = {<<k, calls[k].ext>> : k \in S}]]
    BY <1>10 DEF FlushSelect
  <2>2. PICK S \in Selected(Q) :
          worker' = [worker EXCEPT ![c] = [Idle EXCEPT !.pc = "flush",
                       !.due = {<<k, calls[k].ext>> : k \in S}]]
    BY <2>1
  <2>3. worker'[c].pc = "flush" /\ worker'[c].due = {<<k, calls[k].ext>> : k \in S}
    BY <1>1, <2>2 DEF Idle
  <2>4. \A k \in S : Born(calls', k) /\ calls'[k].ext = calls[k].ext /\ calls'[k].complete
    BY DEF Selected, Due, Live, Born
  <2> QED BY <2>3, <2>4 DEF Carries
<1>11. CASE FlushRead(c)
  <2>1. w.pc = "flush" /\ worker'[c].pc = "flush" /\ worker'[c].due = w.due
    BY <1>11, ReadMoves DEF CallInv
  <2>2. Carries(calls, w, r) BY DEF CallInv, ConsumersCurrent
  <2> QED BY <2>1, <2>2 DEF Carries
<1> QED BY <1>4, <1>5, <1>6, <1>7, <1>8, <1>9, <1>10, <1>11

LEMMA NextCallInv ==
  ASSUME IdsAgree, CallInv, [Next]_vars
  PROVE  CallInv' /\ Grows
<1> DEFINE Named == Tables' /\ Grows
<1>0. ReadsFounded'
  <2>1. \A c \in Consumer : worker[c].pc = "flush" =>
          \A d \in worker[c].due : calls[d[1]].complete
    BY DEF CallInv, ConsumersCurrent, Carries
  <2> QED BY <2>1, ReadsKept DEF CallInv
<1>1. TypeOK /\ TypeOK' BY NextTypeOK DEF CallInv
<1>2. ASSUME Named, NEW c \in Consumer, \A d \in Consumer : d # c => worker'[d] = worker[d],
             Carries(calls', worker'[c], Rec(c)'), UNCHANGED erasing
      PROVE  CallInv' /\ Grows
  <2>1. ASSUME NEW d \in Consumer, d # c PROVE Carries(calls', worker'[d], Rec(d)')
    <3>1. worker'[d] = worker[d] /\ Rec(d)' = Rec(d) BY <1>2, <2>1 DEF Rec
    <3>2. worker[d] \in WorkerState BY <1>1 DEF TypeOK, WorkerTypeOK
    <3>3. Carries(calls, worker[d], Rec(d)) BY DEF CallInv, ConsumersCurrent
    <3> QED BY <1>2, <3>1, <3>2, <3>3, CarriesKept
  <2>2. ConsumersCurrent' BY <1>2, <2>1 DEF ConsumersCurrent
  <2>3. ErasuresCurrent'
    BY <1>1, <1>2 DEF CallInv, ErasuresCurrent, Grows, TypeOK, ApiTypeOK
  <2> QED BY <1>0, <1>1, <1>2, <2>2, <2>3 DEF CallInv, Tables
<1>3. ASSUME Named, UNCHANGED worker,
             \A i \in CallId : erasing'[i] # None =>
               erasing'[i] = erasing[i]
               \/ (erasing'[i] \in CallPk /\ Born(calls', erasing'[i]) /\ calls'[erasing'[i]].ext = i)
      PROVE  CallInv' /\ Grows
  <2>1. ASSUME NEW d \in Consumer PROVE Carries(calls', worker'[d], Rec(d)')
    <3>1. worker'[d] = worker[d] /\ Rec(d)' = Rec(d) BY <1>3 DEF Rec
    <3>2. worker[d] \in WorkerState BY <1>1 DEF TypeOK, WorkerTypeOK
    <3>3. Carries(calls, worker[d], Rec(d)) BY DEF CallInv, ConsumersCurrent
    <3> QED BY <1>3, <3>1, <3>2, <3>3, CarriesKept
  <2>2. ConsumersCurrent' BY <2>1 DEF ConsumersCurrent
  <2>3. ErasuresCurrent'
    BY <1>1, <1>3 DEF CallInv, ErasuresCurrent, Grows, TypeOK, ApiTypeOK
  <2> QED BY <1>0, <1>1, <1>3, <2>2, <2>3 DEF CallInv, Tables
<1>4. ASSUME UNCHANGED <<calls, frags, tombstones>> PROVE Named
  BY <1>4 DEF CallInv, Tables, RowsNamed, OneLiveRow, BufferNamed, GatesFounded, Grows,
              ProcessUnsupported, Held
<1>5. ASSUME NEW c \in Consumer, Store(c) \/ FlushCommit(c) PROVE CallInv' /\ Grows
  <2>1. Named /\ Carries(calls', worker'[c], Rec(c)') BY <1>1, <1>5, StoreTables, SweepTables
  <2>2. UNCHANGED erasing BY <1>5 DEF Store, FlushCommit, apiVars
  <2>3. \A d \in Consumer : d # c => worker'[d] = worker[d] BY <1>1, <1>5, SameRecord DEF Flush
  <2> QED BY <1>2, <2>1, <2>2, <2>3
<1>6. ASSUME NEW c \in Consumer,
             \/ Poll(c) \/ Identify(c) \/ Upsert(c) \/ AttemptFails(c) \/ EnqueueJudge(c)
             \/ EnqueueFails(c) \/ ToDlq(c) \/ CommitOffset(c) \/ CommitRefused(c) \/ Crash(c)
             \/ (\E Q \in Quiet : FlushSelect(c, Q)) \/ FlushRead(c) \/ FlushAborts(c)
      PROVE  CallInv' /\ Grows
  <2>1. UNCHANGED <<calls, frags, tombstones, erasing>>
    BY <1>6 DEF Poll, Identify, Upsert, AttemptFails, EnqueueJudge, EnqueueFails, ToDlq,
         CommitOffset, CommitRefused, Crash, Restart, FlushSelect, FlushRead, FlushAborts, dbVars, apiVars
  <2>2. Carries(calls', worker'[c], Rec(c)') BY <1>1, <1>6, <2>1, StepCarries
  <2>3. ASSUME NEW d \in Consumer, d # c PROVE worker'[d] = worker[d]
    <3>1. worker \in [Consumer -> WorkerState] BY <1>1 DEF TypeOK, WorkerTypeOK
    <3>2. CASE Poll(c) \/ CommitOffset(c) \/ CommitRefused(c) \/ Crash(c)
      BY <2>3, <3>1, <3>2 DEF Poll, CommitOffset, CommitRefused, Crash, Restart, Rest
    <3> QED BY <1>1, <1>6, <2>3, <3>2, SameRecord DEF Flush
  <2> QED BY <1>2, <1>4, <2>1, <2>2, <2>3
<1>7. ASSUME NEW c \in Consumer, StoreUnattributed(c) PROVE FALSE
  <2>1. worker[c].pc = "store" /\ worker[c].cid = None BY <1>7 DEF StoreUnattributed
  <2>2. Rec(c) \in Record BY <1>1, <2>1, RecType DEF TypeOK, Busy
  <2>3. worker[c].cid = CallOf(Rec(c)) BY <2>1 DEF CallInv, ConsumersCurrent, Carries
  <2> QED BY <2>1, <2>2, <2>3 DEF IdsAgree
<1>8. ASSUME NEW c \in Consumer, NEW p \in Partition, Rebalance(p, c) PROVE CallInv' /\ Grows
  <2>1. UNCHANGED <<calls, frags, tombstones, worker, erasing>>
    BY <1>8 DEF Rebalance, dbVars, apiVars
  <2> QED BY <1>3, <1>4, <2>1
<1>9. CASE Api
  <2>1. ASSUME NEW a \in Artifact, RegisterLoad(a) \/ ReconcileLoad(a) PROVE CallInv' /\ Grows
    <3>1. UNCHANGED <<calls, frags, tombstones, worker, erasing>>
      BY <2>1 DEF RegisterLoad, ReconcileLoad, Load, dbVars
    <3> QED BY <1>3, <1>4, <3>1
  <2>2. ASSUME NEW a \in Artifact, RegisterCommit(a) PROVE CallInv' /\ Grows
    <3>1. Named BY <1>1, <2>2, RegisterTables
    <3>2. UNCHANGED <<worker, erasing>> BY <2>2 DEF RegisterCommit
    <3> QED BY <1>3, <3>1, <3>2
  <2>3. ASSUME NEW i \in Erasable, EraseCommit(i) \/ EraseLoad(i) \/ EraseFails(i)
        PROVE  CallInv' /\ Grows
    <3>1. Named
      <4>1. CASE EraseCommit(i) BY <1>1, <4>1, EraseTables
      <4>2. CASE EraseLoad(i) \/ EraseFails(i) BY <1>4, <4>2 DEF EraseLoad, EraseFails, dbVars
      <4> QED BY <2>3, <4>1, <4>2
    <3>2. UNCHANGED worker BY <2>3 DEF EraseCommit, EraseLoad, EraseFails
    <3>3. erasing \in [CallId -> MaybePk] /\ i \in CallId
      BY <1>1, PipelineAssumption DEF TypeOK, ApiTypeOK, MaybePk
    <3>4. CASE EraseCommit(i) \/ EraseFails(i)
      <4>1. erasing' = [erasing EXCEPT ![i] = None] BY <3>4 DEF EraseCommit, EraseFails
      <4> QED BY <1>3, <3>1, <3>2, <3>3, <4>1
    <3>5. CASE EraseLoad(i)
      <4>1. PICK k \in ByExternalId(calls, i) : erasing' = [erasing EXCEPT ![i] = k]
        BY <3>5 DEF EraseLoad
      <4>2. k \in CallPk /\ Born(calls, k) /\ calls[k].ext = i
        BY <4>1 DEF ByExternalId, Live, Born
      <4>3. UNCHANGED calls BY <3>5 DEF EraseLoad, dbVars
      <4>4. Born(calls', k) /\ calls'[k].ext = i BY <4>2, <4>3 DEF Born
      <4>5. erasing'[i] = k /\ \A j \in CallId : j # i => erasing'[j] = erasing[j]
        BY <3>3, <4>1
      <4> QED BY <1>3, <3>1, <3>2, <4>2, <4>4, <4>5
    <3> QED BY <2>3, <3>4, <3>5
  <2> QED BY <1>9, <2>1, <2>2, <2>3 DEF Api
<1>10. CASE UNCHANGED vars
  <2>1. UNCHANGED <<calls, frags, tombstones, worker, erasing>>
    BY <1>10 DEF vars, dbVars, apiVars
  <2> QED BY <1>3, <1>4, <2>1
<1> QED BY <1>5, <1>6, <1>7, <1>8, <1>9, <1>10 DEF Next, Consume, Flush

LEMMA InitCallInv == Init => CallInv
<1> SUFFICES ASSUME Init PROVE CallInv OBVIOUS
<1>1. TypeOK BY InitTypeOK
<1>2. calls = [k \in CallPk |-> Unborn] /\ Unborn.life = "unborn"
  BY DEF Init, DBInit, Unborn
<1>3. Live(calls) = {} BY <1>2 DEF Live
<1>4. RowsNamed BY <1>2 DEF RowsNamed, Born
<1>5. OneLiveRow /\ GatesFounded BY <1>3 DEF OneLiveRow, GatesFounded
<1>6. BufferNamed BY DEF Init, DBInit, BufferNamed, MaybePk
<1>7. \A c \in Consumer : worker[c].pc = "poll" BY DEF Init, Idle
<1>8. ConsumersCurrent BY <1>7, CarriesNothing DEF ConsumersCurrent
<1>9. ErasuresCurrent BY DEF Init, ErasuresCurrent
<1> QED BY <1>1, <1>4, <1>5, <1>6, <1>8, <1>9, InitReads DEF CallInv

\* The invariant holds of every behaviour.
LEMMA CallInvHolds ==
  ASSUME IdsAgree
  PROVE  Spec => []CallInv
<1>1. CallInv /\ [Next]_vars => CallInv' BY NextCallInv
<1> QED BY <1>1, InitCallInv, PTL DEF Spec

-----------------------------------------------------------------------------
(* What follows for a call.                                                *)

\* Only identify takes a consumer from "identify" to "upsert".
LEMMA IdentifiesNext ==
  ASSUME TypeOK, Next, NEW c \in Consumer,
         worker[c].pc = "identify", worker'[c].pc = "upsert"
  PROVE  Identify(c)
<1>1. worker \in [Consumer -> WorkerState] /\ Idle \in WorkerState
  BY IdleType DEF TypeOK, WorkerTypeOK
<1>2. worker'[c] # worker[c] OBVIOUS
<1>3. ~Api
  BY <1>2 DEF Api, RegisterLoad, ReconcileLoad, Load, RegisterCommit, EraseLoad, EraseCommit,
              EraseFails
<1>4. PICK d \in Consumer : \/ Poll(d) \/ Consume(d) \/ Flush(d) \/ Crash(d)
                            \/ \E p \in Partition : Rebalance(p, d)
  BY <1>3 DEF Next
<1>5. ~\E p \in Partition : Rebalance(p, d) BY <1>2 DEF Rebalance
<1>6. d = c
  <2>1. CASE Poll(d) \/ CommitOffset(d) \/ CommitRefused(d) \/ Crash(d)
    BY <1>1, <1>2, <2>1 DEF Poll, CommitOffset, CommitRefused, Crash, Restart, Rest
  <2> QED BY <1>2, <1>4, <1>5, <2>1, SameRecord DEF Consume
<1>7. Identify(c) \/ AttemptFails(c) \/ Crash(c)
  BY <1>4, <1>5, <1>6 DEF Poll, Consume, Flush, Upsert, StoreUnattributed, Store, EnqueueJudge,
     EnqueueFails, ToDlq, CommitOffset, CommitRefused, FlushSelect, FlushRead, FlushCommit, FlushAborts
<1>8. ~AttemptFails(c) BY RetryType DEF AttemptFails, TypeOK, Busy
<1>9. ~Crash(c)
  <2>1. Idle.pc = "poll" BY DEF Idle
  <2> QED BY <1>1, <2>1 DEF Crash, Restart, Rest
<1> QED BY <1>7, <1>8, <1>9

\* Batches of one trace are assembled into one call, whichever consumers took them
\* at once: identify and upsert_call find the row by the id or by the trace, the
\* UNIQUE id rejects the second insert.
THEOREM OneCall ==
  ASSUME IdsAgree
  PROVE  Spec => []OneCallPerTrace
<1>1. CallInv => OneCallPerTrace
  <2> SUFFICES ASSUME CallInv, NEW j \in Live(calls), NEW k \in Live(calls),
                      calls[j].trace # None, calls[j].trace = calls[k].trace
               PROVE  j = k
    BY DEF OneCallPerTrace
  <2>1. j \in CallPk /\ k \in CallPk /\ Born(calls, j) /\ Born(calls, k) BY DEF Live, Born
  <2>2. PICK r \in Record : TraceOf[r] = calls[j].trace /\ CallOf(r) = calls[j].ext
    BY <2>1 DEF CallInv, RowsNamed
  <2>3. PICK s \in Record : TraceOf[s] = calls[k].trace /\ CallOf(s) = calls[k].ext
    BY <2>1 DEF CallInv, RowsNamed
  <2>4. CallOf(r) = CallOf(s) BY <2>2, <2>3 DEF IdsAgree, CallOf
  <2> QED BY <2>2, <2>3, <2>4 DEF CallInv, OneLiveRow
<1> QED BY <1>1, CallInvHolds, PTL

\* Redelivery, retries and evictions never double the spans of a call: a batch is
\* in one buffer at most, and once (store_fragment under the lock of the call row).
THEOREM FragmentOnce ==
  ASSUME IdsAgree
  PROVE  Spec => []FragmentAtMostOnce
<1>1. CallInv => FragmentAtMostOnce
  BY DEF CallInv, BufferNamed, OneLiveRow, FragmentAtMostOnce, MaybePk
<1> QED BY <1>1, CallInvHolds, PTL

\* No batch that names a call or a trace is filed as unattributed (_call_pk runs
\* after the flush that leaves the row with that id).
THEOREM AllAttributed ==
  ASSUME IdsAgree
  PROVE  Spec => []NothingUnattributed
<1>1. CallInv => NothingUnattributed
  <2> SUFFICES ASSUME CallInv, NEW r \in Record PROVE frags[None][r] = 0
    BY DEF NothingUnattributed
  <2>1. None \notin Live(calls) BY RecordAssumption DEF Live
  <2>2. frags[None][r] \in Nat BY DEF CallInv, TypeOK, DBTypeOK
  <2> QED BY <2>1, <2>2 DEF CallInv, BufferNamed, MaybePk
<1> QED BY <1>1, CallInvHolds, PTL

\* Once a call bears the id of its producer no later batch renames it: artifacts
\* and erasure reach it by that id for good (upsert_call never promotes it away).
THEOREM NeverRenamed ==
  ASSUME IdsAgree
  PROVE  Spec => IdentityStable
<1>1. CallInv /\ [Next]_vars =>
        [\A k \in CallPk : calls[k].ext \in ProducerIds => calls'[k].ext = calls[k].ext]_vars
  <2> SUFFICES ASSUME CallInv, [Next]_vars, NEW k \in CallPk, calls[k].ext \in ProducerIds
               PROVE  calls'[k].ext = calls[k].ext
    OBVIOUS
  <2>1. Born(calls, k) BY DEF CallInv, RowsNamed, Unborn, ProducerIds
  <2> QED BY <2>1, NextCallInv DEF Grows
<1> QED BY <1>1, CallInvHolds, PTL DEF Spec, IdentityStable

\* A batch of an erased call that arrives after the erasure is dropped: it resolves
\* to the id the tombstone was left for, with or without a call id of its own.
THEOREM StragglersDropped ==
  ASSUME IdsAgree
  PROVE  Spec => StragglerDropped
<1> DEFINE Dropped == \A c \in Consumer : worker[c].pc = "identify" /\ worker'[c].pc = "upsert" =>
              \A k \in CallPk : calls[k].life = "erased" =>
                calls[k].trace = None \/ calls[k].trace # TraceOf[Rec(c)]
<1>1. CallInv /\ [Next]_vars => [Dropped]_vars
  <2> SUFFICES ASSUME CallInv, Next, NEW c \in Consumer,
                      worker[c].pc = "identify", worker'[c].pc = "upsert",
                      NEW k \in CallPk, calls[k].life = "erased", calls[k].trace # None,
                      calls[k].trace = TraceOf[Rec(c)]
               PROVE  FALSE
    BY DEF vars
  <2>1. TypeOK BY DEF CallInv
  <2>2. Rec(c) \in Record BY <2>1, RecType DEF TypeOK, Busy
  <2>3. calls[k].ext = CallOf(Rec(c)) /\ calls[k].ext \in tombstones
    <3>1. Born(calls, k) BY DEF Born
    <3>2. PICK r \in Record : TraceOf[r] = calls[k].trace /\ CallOf(r) = calls[k].ext
      BY <3>1 DEF CallInv, RowsNamed
    <3>3. CallOf(r) = CallOf(Rec(c)) BY <2>2, <3>2 DEF IdsAgree, CallOf
    <3> QED BY <3>1, <3>2, <3>3 DEF CallInv, RowsNamed
  <2>4. Identify(c) BY <2>1, IdentifiesNext
  <2>5. PICK i \in Identified(Rec(c)) : Tombstoned(i) => Step(c, "commit")
    BY <2>4 DEF Identify
  <2>6. i = CallOf(Rec(c)) BY <2>2, IdentifiedNamed DEF CallInv
  <2>7. worker'[c].pc = "commit"
    BY <2>1, <2>3, <2>5, <2>6 DEF Tombstoned, Step, TypeOK, WorkerTypeOK, WorkerState
  <2> QED BY <2>7
<1> QED BY <1>1, CallInvHolds, PTL DEF Spec, StragglerDropped

-----------------------------------------------------------------------------
(* CallPipeline implements CallLife.                                       *)

\* The phase of a row, by its columns.
LEMMA PhaseOf ==
  ASSUME NEW row \in Row
  PROVE  /\ row.life = "unborn" <=> Phase(row) = "none"
         /\ row.life = "erased" <=> Phase(row) = "erased"
         /\ row.life = "live" /\ row.status = "unsupported" <=> Phase(row) = "unsupported"
         /\ row.life = "live" /\ row.status # "unsupported" /\ row.complete <=> Phase(row) = "complete"
         /\ row.life = "live" /\ row.status # "unsupported" /\ ~row.complete <=> Phase(row) = "open"
BY DEF Phase, Row

\* A step that touches no row, no buffer and no request to the judge is none of a
\* call's life.
LEMMA LifeStutters ==
  ASSUME UNCHANGED <<calls, frags, judgeQueue>>
  PROVE  UNCHANGED Life!vars
BY DEF Life!vars

\* A store collects the batch, unless another call holds it, and may analyse the call at once.
LEMMA CollectsIsCollect ==
  ASSUME TypeOK, GatesFounded, GatesFounded', NEW r \in Record, NEW i \in CallId,
         NEW k \in CallPk, NEW new \in Row, UNCHANGED judgeQueue, Collects(k, i, r, new),
         frags[k][r] <= 1, \A j \in MaybePk : j # k => frags[j][r] = 0
  PROVE  Life!Next
<1> DEFINE phase == [j \in CallPk |-> Phase(calls[j])]
           name == [j \in CallPk |-> calls[j].ext]
           covers == [j \in CallPk |-> calls[j].covers]
           open == phase[k] \in {"none", "open"}
           now == IF ~open THEN phase[k] ELSE IF r \in RootRecord THEN "complete" ELSE "open"
<1>1. calls \in [CallPk -> Row] /\ frags \in [MaybePk -> [Record -> Nat]]
  BY DEF TypeOK, DBTypeOK, MaybePk
<1>2. /\ calls' = [calls EXCEPT ![k] = new] /\ frags' = Stored(k, r)
      /\ calls[k].life # "erased" /\ new.life = "live" /\ new.ext = i
      /\ new.complete <=> calls[k].complete \/ r \in RootRecord
  BY DEF Collects, Unborn
<1>3. calls'[k] = new /\ \A j \in CallPk : j # k => calls'[j] = calls[j] BY <1>1, <1>2
<1>4. phase[k] = Phase(calls[k]) /\ calls[k] \in Row /\ phase[k] # "erased"
  BY <1>1, <1>2, PhaseOf
<1>5. Life!Enters(k, r)
  <2>1. frags[k][r] \in {0, 1} /\ k # None /\ k \in MaybePk
    <3>1. k \in MaybePk /\ k # None BY RecordAssumption DEF MaybePk
    <3>2. frags[k][r] \in Nat BY <1>1, <3>1
    <3> QED BY <3>1, <3>2
  <2>2. CASE frags[k][r] = 1
    <3>1. frags' = frags BY <1>2, <2>1, <2>2 DEF Stored
    <3> QED BY <2>2, <3>1 DEF Life!Enters
  <2>3. CASE frags[k][r] = 0
    <3>1. frags' = [frags EXCEPT ![k][r] = 1] BY <1>2, <2>1, <2>3 DEF Stored
    <3> QED BY <2>3, <3>1 DEF Life!Enters, MaybePk
  <2> QED BY <2>1, <2>2, <2>3
<1>6. name' = [name EXCEPT ![k] = i]
  <2>1. name' = [name EXCEPT ![k] = new.ext] BY <1>3
  <2> QED BY <1>2, <2>1
<1>7. /\ calls[k].life = "live" \/ calls[k] = Unborn
      /\ calls[k].status = "unsupported" => calls[k].life = "live" /\ calls[k].complete
  BY <1>2 DEF Collects, GatesFounded, Live, Unborn
<1>8. /\ new.complete => Held(frags', k) \cap RootRecord # {}
      /\ new.status = "unsupported" => ProcessUnsupported(frags', k)
  BY <1>2, <1>3 DEF GatesFounded, Live
<1>9. now = IF calls[k].status = "unsupported" THEN "unsupported"
            ELSE IF new.complete THEN "complete" ELSE "open"
  <2>1. CASE calls[k].life = "live" BY <1>2, <1>4, <1>7, <2>1, PhaseOf
  <2>2. CASE calls[k] = Unborn
    <3>1. phase[k] = "none" /\ ~calls[k].complete /\ calls[k].status = "awaiting_media"
      BY <1>4, <2>2, PhaseOf DEF Unborn
    <3> QED BY <1>2, <3>1
  <2> QED BY <1>7, <2>1, <2>2
<1>10. phase' = [phase EXCEPT ![k] = Phase(new)] BY <1>3
<1>11. Life!Collect(k, i, r)
  <2> DEFINE held == Held(frags', k)
  <2>1. CASE new.covers = calls[k].covers /\ Phase(new) = now
    <3>1. phase' = [phase EXCEPT ![k] = now] /\ covers' = covers BY <1>3, <1>10, <2>1
    <3> QED BY <1>4, <1>5, <1>6, <3>1 DEF Life!Collect
  <2>2. CASE /\ new.covers = calls[k].covers /\ Phase(new) = "unsupported"
             /\ now = "complete"
    <3>1. covers' = covers BY <1>3, <2>2
    <3> DEFINE S == [j \in {k} |-> Life!Holds(frags', j)]
    <3>2. covers' = [j \in CallPk |-> IF j \in {k} \ {k} THEN S[j] ELSE covers[j]]
      BY <3>1
    <3>3. Life!Analysed({k} \ {k}, S) BY <3>2 DEF Life!Analysed
    <3>4. phase' = [phase EXCEPT ![k] = IF k \in {k} THEN "unsupported" ELSE now] BY <1>10, <2>2
    <3>5. \E u \in SUBSET {k} : /\ Life!Analysed({k} \ u, S)
                               /\ phase' = [phase EXCEPT ![k] = IF k \in u THEN "unsupported" ELSE now]
      <4>1. {k} \in SUBSET {k} OBVIOUS
      <4>2. WITNESS {k} \in SUBSET {k}
      <4> QED BY <3>3, <3>4
    <3> QED BY <1>4, <1>5, <1>6, <2>2, <3>5 DEF Life!Collect
  <2>3. CASE new.covers = held /\ held \cap RootRecord # {} /\ Phase(new) = now /\ now = "complete"
    <3>1. covers' = [covers EXCEPT ![k] = held] BY <1>3, <2>3
    <3>2. held = Life!Holds(frags', k) BY DEF Held, Life!Holds
    <3> DEFINE S == [j \in {k} |-> Life!Holds(frags', j)]
    <3>3. Life!Analysed({k} \ {}, S)
      <4>1. \A j \in {k} \ {} : j = k /\ S[j] = held /\ S[j] = Life!Holds(frags', j) BY <3>2
      <4>2. covers' = [j \in CallPk |-> IF j \in {k} \ {} THEN S[j] ELSE covers[j]]
        BY <3>1, <4>1
      <4> HIDE DEF S, held
      <4> QED BY <2>3, <4>1, <4>2 DEF Life!Analysed
    <3>4. phase' = [phase EXCEPT ![k] = IF k \in {} THEN "unsupported" ELSE now] BY <1>10, <2>3
    <3>5. \E u \in SUBSET {k} : /\ Life!Analysed({k} \ u, S)
                               /\ phase' = [phase EXCEPT ![k] = IF k \in u THEN "unsupported" ELSE now]
      <4>1. {} \in SUBSET {k} OBVIOUS
      <4>2. WITNESS {} \in SUBSET {k}
      <4> QED BY <3>3, <3>4
    <3> QED BY <1>4, <1>5, <1>6, <2>3, <3>5 DEF Life!Collect
  <2>4. CASE new.status = calls[k].status /\ new.covers = calls[k].covers
    <3>1. Phase(new) = now BY <1>2, <1>9, <2>4, PhaseOf
    <3> QED BY <2>1, <2>4, <3>1
  <2>5. CASE /\ new.complete /\ new.status = "unsupported" /\ new.covers = calls[k].covers
    <3>1. Phase(new) = "unsupported" BY <1>2, <2>5, PhaseOf
    <3> QED BY <1>9, <2>1, <2>2, <2>5, <3>1
  <2>6. CASE /\ new.complete /\ ~ProcessUnsupported(frags', k)
             /\ new.status = calls[k].status /\ new.covers = held
    <3>1. new.status # "unsupported" BY <1>8, <2>6
    <3>2. Phase(new) = "complete" /\ now = "complete" BY <1>2, <1>9, <2>6, <3>1, PhaseOf
    <3> QED BY <1>8, <2>3, <2>6, <3>2
  <2> QED BY <2>4, <2>5, <2>6 DEF Collects
<1>12. \E q \in CallPk : \E j \in CallId, s \in Record : Life!Collect(q, j, s)
  <2>1. WITNESS k \in CallPk
  <2>2. WITNESS i \in CallId, r \in Record
  <2> QED BY <1>11
<1> QED BY <1>12 DEF Life!Next

\* A sweep analyses the calls it selected, finding some of them unsupported.
LEMMA SweepIsAnalyse ==
  ASSUME TypeOK, GatesFounded, ReadsFounded, NEW c \in Consumer, FlushCommit(c),
         \A k \in DuePks(c) : calls[k].life = "live" /\ calls[k].complete
  PROVE  \E K \in SUBSET CallPk : Life!Analyse(K)
<1>1. calls \in [CallPk -> Row] /\ worker[c] \in WorkerState
  BY DEF TypeOK, DBTypeOK, WorkerTypeOK
<1>2. PICK K : K = DuePks(c) OBVIOUS
<1>3. PICK u : u = {k \in K : ProcessUnsupported(worker[c].got, k)} OBVIOUS
<1>4. K \in SUBSET CallPk /\ u \in SUBSET K BY <1>1, <1>2, <1>3 DEF DuePks, WorkerState
<1>5. \A k \in K : calls[k].life = "live" /\ calls[k].complete BY <1>2
<1>6. \A k \in K : /\ Held(worker[c].got, k) \subseteq Held(frags, k)
                  /\ Held(worker[c].got, k) \cap RootRecord # {}
  BY <1>2, <1>5, SweepFounds
<1>7. UNCHANGED <<frags, judgeQueue>> BY DEF FlushCommit
<1>8. ASSUME NEW k \in CallPk
      PROVE  /\ calls'[k].ext = calls[k].ext
             /\ Phase(calls'[k]) = IF k \in u THEN "unsupported" ELSE Phase(calls[k])
             /\ calls'[k].covers = IF k \in K \ u THEN Held(worker[c].got, k) ELSE calls[k].covers
             /\ k \in K => Phase(calls[k]) \in {"complete", "unsupported"}
  <2>1. calls[k] \in Row /\ calls'[k] \in Row
    <3>1. TypeOK' BY NextTypeOK DEF Next, Flush
    <3> QED BY <1>1, <3>1 DEF TypeOK, DBTypeOK
  <2>2. CASE k \in u
    <3>1. calls'[k].status = "unsupported" /\ calls'[k].life = "live"
      BY <1>1, <1>2, <1>3, <1>4, <1>5, <2>2, SweptRow
    <3>2. Phase(calls'[k]) = "unsupported" BY <2>1, <3>1, PhaseOf
    <3> QED BY <1>1, <1>2, <1>3, <1>4, <1>5, <2>1, <2>2, <3>2, SweptRow, PhaseOf
  <2>3. CASE k \in K \ u
    <3>1. /\ calls'[k].life = "live" /\ calls'[k].status = calls[k].status
          /\ calls'[k].complete = calls[k].complete /\ calls'[k].ext = calls[k].ext
          /\ calls'[k].covers = Held(worker[c].got, k)
      BY <1>1, <1>2, <1>3, <1>4, <1>5, <2>3, SweptRow
    <3>2. Phase(calls'[k]) = Phase(calls[k]) BY <1>5, <2>1, <2>3, <3>1, PhaseOf
    <3>3. Phase(calls[k]) \in {"complete", "unsupported"} BY <1>5, <2>1, <2>3, PhaseOf
    <3> QED BY <2>3, <3>1, <3>2, <3>3
  <2>4. CASE k \notin K BY <1>1, <1>2, <1>4, <2>4, SweptRow
  <2> QED BY <2>2, <2>3, <2>4
<1> DEFINE phase == [k \in CallPk |-> Phase(calls[k])]
           name == [k \in CallPk |-> calls[k].ext]
           covers == [k \in CallPk |-> calls[k].covers]
<1>9. \A k \in CallPk : Held(frags, k) = Life!Holds(frags', k) BY <1>7 DEF Held, Life!Holds
<1>10. PICK S : S = [k \in K \ u |-> Held(worker[c].got, k)] OBVIOUS
<1>11. S \in [K \ u -> SUBSET Record] /\ Life!Analysed(K \ u, S)
  <2>1. \A k \in K \ u : S[k] \subseteq Life!Holds(frags', k) /\ S[k] \cap RootRecord # {}
    BY <1>4, <1>6, <1>9, <1>10
  <2>2. covers' = [k \in CallPk |-> IF k \in K \ u THEN S[k] ELSE covers[k]] BY <1>8, <1>10
  <2>3. S \in [K \ u -> SUBSET Record] BY <1>10 DEF Held
  <2> QED BY <2>1, <2>2, <2>3 DEF Life!Analysed
<1>12. \A k \in K : phase[k] \in {"complete", "unsupported"} BY <1>4, <1>8
<1>13. phase' = [k \in CallPk |-> IF k \in u THEN "unsupported" ELSE phase[k]] BY <1>8
<1>14. name' = name BY <1>8
<1>15. Life!Analyse(K)
  <2>1. \E v \in SUBSET K : \E T \in [K \ v -> SUBSET Record] :
          /\ Life!Analysed(K \ v, T)
          /\ phase' = [k \in CallPk |-> IF k \in v THEN "unsupported" ELSE phase[k]]
    <3> HIDE DEF phase
    <3>1. \E T \in [K \ u -> SUBSET Record] :
            /\ Life!Analysed(K \ u, T)
            /\ phase' = [k \in CallPk |-> IF k \in u THEN "unsupported" ELSE phase[k]]
      BY <1>11, <1>13
    <3> USE <1>4
    <3>2. WITNESS u \in SUBSET K
    <3> QED BY <3>1
  <2> QED BY <1>7, <1>12, <1>14, <2>1 DEF Life!Analyse
<1> USE <1>4
<1>16. WITNESS K \in SUBSET CallPk
<1> QED BY <1>15

\* A recording that comes in gives an unsupported call another try, or changes nothing
\* of its life.
LEMMA RegisterIsRetry ==
  ASSUME TypeOK, GatesFounded, NEW a \in Artifact, RegisterCommit(a)
  PROVE  (\E k \in CallPk : Life!Retry(k)) \/ UNCHANGED Life!vars
<1>1. UNCHANGED <<frags, judgeQueue>> BY DEF RegisterCommit
<1>2. CASE UNCHANGED calls BY <1>1, <1>2, LifeStutters
<1>3. ASSUME NEW k \in Live(calls), NEW new \in Row,
             /\ calls' = [calls EXCEPT ![k] = new]
             /\ new.life = "live" /\ new.ext = calls[k].ext /\ new.covers = calls[k].covers
             /\ new.complete = calls[k].complete /\ new.status \in {"ingested", calls[k].status}
      PROVE  (\E j \in CallPk : Life!Retry(j)) \/ UNCHANGED Life!vars
  <2> DEFINE phase == [j \in CallPk |-> Phase(calls[j])]
             name == [j \in CallPk |-> calls[j].ext]
             covers == [j \in CallPk |-> calls[j].covers]
  <2>1. /\ k \in CallPk /\ calls \in [CallPk -> Row] /\ calls[k] \in Row
        /\ calls[k].life = "live"
    BY DEF Live, TypeOK, DBTypeOK
  <2>2. calls'[k] = new /\ \A j \in CallPk : j # k => calls'[j] = calls[j]
    BY <1>3, <2>1
  <2>3. name' = name /\ covers' = covers BY <1>3, <2>2
  <2>4. phase' = [phase EXCEPT ![k] = Phase(new)] BY <2>2
  <2>5. CASE Phase(new) = Phase(calls[k])
    <3>1. phase' = phase BY <2>2, <2>5
    <3> QED BY <1>1, <2>3, <3>1 DEF Life!vars
  <2>6. CASE Phase(new) # Phase(calls[k])
    <3>1. calls[k].status = "unsupported" /\ new.status = "ingested"
      BY <1>3, <2>1, <2>6, PhaseOf DEF Status
    <3>2. calls[k].complete BY <3>1 DEF GatesFounded
    <3>3. phase[k] = "unsupported" /\ Phase(new) = "complete"
      BY <1>3, <2>1, <3>1, <3>2, PhaseOf
    <3>4. Life!Retry(k) BY <1>1, <2>3, <2>4, <3>3 DEF Life!Retry
    <3>5. \E j \in CallPk : Life!Retry(j)
      <4> USE <2>1
      <4>1. WITNESS k \in CallPk
      <4> QED BY <3>4
    <3> QED BY <3>5
  <2> QED BY <2>5, <2>6
<1> QED BY <1>2, <1>3, RegisteredRow

\* An erasure is one, whatever state the call is in.
LEMMA EraseIsErase ==
  ASSUME TypeOK, NEW i \in Erasable, EraseCommit(i)
  PROVE  \E k \in CallPk : Life!Erase(k)
<1>1. PICK k : k = erasing[i] OBVIOUS
<1>2. /\ k \in CallPk /\ calls[k].life = "live" /\ calls \in [CallPk -> Row] /\ calls[k] \in Row
      /\ calls' = [calls EXCEPT ![k].life = "erased"]
      /\ frags' = [frags EXCEPT ![k] = [r \in Record |-> 0]]
      /\ UNCHANGED judgeQueue
  BY <1>1 DEF EraseCommit, Live, TypeOK, DBTypeOK
<1>3. /\ calls'[k] = [calls[k] EXCEPT !.life = "erased"]
      /\ \A j \in CallPk : j # k => calls'[j] = calls[j]
  BY <1>2
<1>4. /\ calls'[k].life = "erased" /\ calls'[k].ext = calls[k].ext
      /\ calls'[k].covers = calls[k].covers /\ calls'[k] \in Row
  BY <1>2, <1>3 DEF Row
<1> DEFINE phase == [j \in CallPk |-> Phase(calls[j])]
           name == [j \in CallPk |-> calls[j].ext]
           covers == [j \in CallPk |-> calls[j].covers]
<1>5. phase[k] \notin {"none", "erased"} /\ Phase(calls'[k]) = "erased" BY <1>2, <1>4, PhaseOf
<1>6. phase' = [phase EXCEPT ![k] = "erased"]
  <2>1. phase' = [phase EXCEPT ![k] = Phase(calls'[k])] BY <1>3
  <2> QED BY <1>5, <2>1
<1>7. name' = name /\ covers' = covers BY <1>3, <1>4
<1>8. Life!Erase(k) BY <1>2, <1>5, <1>6, <1>7 DEF Life!Erase
<1> USE <1>2
<1>9. WITNESS k \in CallPk
<1> QED BY <1>8

\* Only analysed calls go to the judge.
LEMMA EnqueueIsAsk ==
  ASSUME TypeOK, NEW c \in Consumer, EnqueueJudge(c),
         \A i \in worker[c].judge : i \in CallId /\
           \E k \in CallPk : calls[k].ext = i /\ calls[k].covers # {}
  PROVE  \E I \in SUBSET CallId : Life!Ask(I)
<1>1. PICK I : I = worker[c].judge OBVIOUS
<1>2. \A i \in I : \E k \in CallPk : calls[k].ext = i /\ calls[k].covers # {}
  BY <1>1
<1>3. I \in SUBSET CallId BY <1>1
<1>4. judgeQueue' = judgeQueue \cup I /\ UNCHANGED <<calls, frags>>
  BY <1>1 DEF EnqueueJudge, dbVars
<1>5. Life!Ask(I)
  <2>1. \A i \in I : \E k \in CallPk : [j \in CallPk |-> calls[j].ext][k] = i
                                       /\ [j \in CallPk |-> calls[j].covers][k] # {}
    BY <1>2
  <2> QED BY <1>4, <2>1 DEF Life!Ask
<1> USE <1>3
<1>6. WITNESS I \in SUBSET CallId
<1> QED BY <1>5

\* At first there are no calls.
LEMMA InitLife == Init => Life!Init
<1> SUFFICES ASSUME Init PROVE Life!Init OBVIOUS
<1>1. \A k \in CallPk : Phase(Unborn) = "none" BY UnbornType, PhaseOf DEF Unborn
<1> QED BY <1>1 DEF Init, DBInit, Life!Init, Unborn

\* Each step is one of the life of a call, or none, if a store is one, if what a sweep
\* takes is complete, and if what the judge is asked about is analysed.
LEMMA NextLife ==
  ASSUME TypeOK, GatesFounded, ReadsFounded, [Next]_vars,
         \A c \in Consumer :
           /\ Store(c) => Life!Next
           /\ ~StoreUnattributed(c)
           /\ FlushCommit(c) => \A k \in DuePks(c) : calls[k].life = "live" /\ calls[k].complete
           /\ EnqueueJudge(c) => \A i \in worker[c].judge : i \in CallId /\
                \E k \in CallPk : calls[k].ext = i /\ calls[k].covers # {}
  PROVE  Life!Next \/ UNCHANGED Life!vars
<1>1. ASSUME NEW c \in Consumer, FlushCommit(c) PROVE Life!Next
  BY <1>1, SweepIsAnalyse DEF Life!Next
<1>2. ASSUME NEW c \in Consumer, EnqueueJudge(c) PROVE Life!Next
  BY <1>2, EnqueueIsAsk DEF Life!Next
<1>3. ASSUME NEW a \in Artifact, RegisterCommit(a) PROVE Life!Next \/ UNCHANGED Life!vars
  BY <1>3, RegisterIsRetry DEF Life!Next
<1>4. ASSUME NEW i \in Erasable, EraseCommit(i) PROVE Life!Next
  BY <1>4, EraseIsErase DEF Life!Next
<1>5. ASSUME UNCHANGED <<calls, frags, judgeQueue>> PROVE UNCHANGED Life!vars
  BY <1>5, LifeStutters
<1>6. ASSUME NEW c \in Consumer,
             \/ Poll(c) \/ Identify(c) \/ Upsert(c) \/ AttemptFails(c) \/ EnqueueFails(c)
             \/ ToDlq(c) \/ CommitOffset(c) \/ CommitRefused(c) \/ Crash(c) \/ FlushRead(c)
             \/ FlushAborts(c) \/ (\E Q \in Quiet : FlushSelect(c, Q)) \/ \E p \in Partition : Rebalance(p, c)
      PROVE  UNCHANGED <<calls, frags, judgeQueue>>
  BY <1>6 DEF Poll, Identify, Upsert, AttemptFails, EnqueueFails, ToDlq, CommitOffset,
       CommitRefused, Crash, Restart, FlushRead, FlushAborts, FlushSelect, Rebalance, dbVars
<1>7. CASE Api
  BY <1>3, <1>4, <1>5, <1>7
     DEF Api, RegisterLoad, ReconcileLoad, Load, EraseLoad, EraseFails, dbVars
<1>8. CASE UNCHANGED vars BY <1>5, <1>8 DEF vars, dbVars
<1> QED BY <1>1, <1>2, <1>5, <1>6, <1>7, <1>8 DEF Next, Consume, Flush

\* Where ids agree, the batch of a store is in no buffer but that of its call.
LEMMA StoreIsCollect ==
  ASSUME IdsAgree, CallInv, CallInv', NEW c \in Consumer, Store(c)
  PROVE  Life!Next
<1>1. TypeOK /\ GatesFounded /\ GatesFounded' BY DEF CallInv
<1>2. PICK k \in CallPk, new \in Row : Collected(c, k, new) BY <1>1, StoreCollects
<1>3. PICK r : r = Rec(c) OBVIOUS
<1>4. PICK i : i = CallOf(r) OBVIOUS
<1>5. r \in Record BY <1>1, <1>3, RecType DEF Store, TypeOK, Busy
<1>6. i \in CallId
  <2>1. HintOf[r] \in MaybeId /\ TraceOf[r] \in MaybeId BY <1>5, RecordAssumption DEF MaybeId
  <2> QED BY <1>4, <1>5, <2>1 DEF IdsAgree, CallOf, MaybeId
<1>7. Collects(k, i, r, new) /\ \A j \in Live(calls) : j # k => calls[j].ext # i
  BY <1>2, <1>3, <1>4 DEF Collected
<1>8. \A j \in MaybePk : frags[j][r] \in Nat
  BY <1>1, <1>5 DEF TypeOK, DBTypeOK, MaybePk
<1>9. \A j \in MaybePk : frags[j][r] > 0 => j \in Live(calls) /\ calls[j].ext = i /\ frags[j][r] = 1
  BY <1>4, <1>5 DEF CallInv, BufferNamed
<1>10. frags[k][r] <= 1 /\ \A j \in MaybePk : j # k => frags[j][r] = 0
  <2>1. k \in MaybePk BY DEF MaybePk
  <2> QED BY <1>7, <1>8, <1>9, <2>1
<1>11. UNCHANGED judgeQueue BY DEF Store
<1> QED BY <1>1, <1>5, <1>6, <1>7, <1>10, <1>11, CollectsIsCollect

\* CallPipeline implements CallLife: a store is a Collect, a sweep an Analyse, a
\* recording a Retry, a judge request an Ask and an erasure an Erase; whatever else
\* the consumers, the group and the endpoints do is invisible.
THEOREM LifeImplemented ==
  ASSUME IdsAgree
  PROVE  Spec => ImplementsCallLife
<1>1. CallInv /\ CallInv' /\ [Next]_vars => [Life!Next]_(Life!vars)
  <2> SUFFICES ASSUME CallInv, CallInv', [Next]_vars PROVE Life!Next \/ UNCHANGED Life!vars
    OBVIOUS
  <2>1. TypeOK /\ GatesFounded /\ ReadsFounded BY DEF CallInv
  <2>2. ASSUME NEW c \in Consumer, StoreUnattributed(c) PROVE FALSE
    <3>1. worker[c].pc = "store" /\ worker[c].cid = None BY <2>2 DEF StoreUnattributed
    <3>2. Rec(c) \in Record BY <2>1, <3>1, RecType DEF TypeOK, Busy
    <3>3. worker[c].cid = CallOf(Rec(c)) BY <3>1 DEF CallInv, ConsumersCurrent, Carries
    <3> QED BY <3>1, <3>2, <3>3 DEF IdsAgree
  <2>3. ASSUME NEW c \in Consumer, EnqueueJudge(c), NEW i \in worker[c].judge
        PROVE  i \in CallId /\ \E k \in CallPk : calls[k].ext = i /\ calls[k].covers # {}
    BY <2>3 DEF EnqueueJudge, CallInv, ConsumersCurrent, Carries, RowsNamed
  <2>4. ASSUME NEW c \in Consumer, Store(c) PROVE Life!Next BY <2>4, StoreIsCollect
  <2>5. ASSUME NEW c \in Consumer, FlushCommit(c)
        PROVE  \A k \in DuePks(c) : calls[k].life = "live" /\ calls[k].complete
    BY <2>1, <2>5, SweepTables
  <2> QED BY <2>1, <2>2, <2>3, <2>4, <2>5, NextLife
<1> QED BY <1>1, InitLife, CallInvHolds, PTL DEF Spec, ImplementsCallLife, Life!Spec
-----------------------------------------------------------------------------
(* When only some batches of a call name it.  A batch that does renames    *)
(* the row that the others found by the trace, so identity rests on who is *)
(* at work when: one trace is one call, the batches of a trace share a     *)
(* partition, and nobody goes on with a record after losing it.            *)

\* Every batch has a trace; a call id is of one trace, and a trace has one call id at
\* most; one that looks like a trace is that of its own.
OneTraceOneCall ==
  /\ \A r \in Record : TraceOf[r] # None
  /\ \A r, s \in Record :
       /\ HintOf[r] # None /\ HintOf[s] # None =>
            (HintOf[r] = HintOf[s] <=> TraceOf[r] = TraceOf[s])
       /\ HintOf[r] = TraceOf[s] => TraceOf[r] = TraceOf[s]

CoPartitioned ==
  /\ "eviction" \notin Faults
  /\ \A p, q \in Partition : \A m \in 1 .. Len(Log[p]), n \in 1 .. Len(Log[q]) :
       TraceOf[Log[p][m]] = TraceOf[Log[q][n]] => p = q

-----------------------------------------------------------------------------
(* The inductive invariant.                                                *)

\* The ids the call of a trace may bear: the trace itself, and what its producer wrote.
IdOf(x, i) == i = x \/ \E s \in Record : TraceOf[s] = x /\ HintOf[s] = i /\ i # None

\* A row is of one trace for good, and bears one of its ids.
RowsTraced ==
  \A k \in CallPk :
    IF Born(calls, k)
    THEN \E r \in Record : calls[k].trace = TraceOf[r] /\ IdOf(TraceOf[r], calls[k].ext)
    ELSE calls[k] = Unborn

\* A batch is in the buffer of the call of its trace, which is live, and once.
BufferTraced ==
  \A k \in MaybePk, r \in Record : frags[k][r] > 0 =>
    k \in Live(calls) /\ calls[k].trace = TraceOf[r] /\ frags[k][r] = 1

\* Who is at work on a record still has its partition.
OwnersAtWork == \A c \in Consumer : worker[c].pc \in Busy => owner[worker[c].part] = c

\* What a consumer has read of the call of its record's trace x is still true: the row, if
\* there is one, bears the id it resolved, or the trace that this id will replace.
Knows(t, w, x) ==
  /\ w.pc \in {"upsert", "store"} =>
       IdOf(x, w.cid) /\ \A k \in ByTrace(t, x) : t[k].ext \in {x, w.cid}
  /\ w.pc = "store" =>
       IF w.found = None THEN ByTrace(t, x) = {}
       ELSE /\ Born(t, w.found) /\ t[w.found].trace = x
            /\ w.seen.trace = x /\ w.seen.ext = t[w.found].ext
            /\ w.seen.complete => t[w.found].complete

ConsumersKnow == \A c \in Consumer : Knows(calls, worker[c], TraceOf[Rec(c)])

PromotionInv ==
  /\ TypeOK /\ RowsTraced /\ OneCallPerTrace /\ BufferTraced
  /\ OwnersAtWork /\ ConsumersKnow

-----------------------------------------------------------------------------
(* Lemmas: what the reads of a batch return.                               *)

\* The ids of two traces are apart.
LEMMA IdsApart ==
  ASSUME OneTraceOneCall, NEW r \in Record, NEW s \in Record, NEW i,
         IdOf(TraceOf[r], i), IdOf(TraceOf[s], i)
  PROVE  TraceOf[r] = TraceOf[s]
<1>1. CASE i = TraceOf[r] /\ i = TraceOf[s]
  BY <1>1
<1>2. ASSUME NEW a \in Record, TraceOf[a] = TraceOf[r], HintOf[a] = i, i = TraceOf[s]
      PROVE  TraceOf[r] = TraceOf[s]
  BY <1>2 DEF OneTraceOneCall
<1>3. ASSUME NEW b \in Record, TraceOf[b] = TraceOf[s], HintOf[b] = i, i = TraceOf[r]
      PROVE  TraceOf[r] = TraceOf[s]
  BY <1>3 DEF OneTraceOneCall
<1>4. ASSUME NEW a \in Record, TraceOf[a] = TraceOf[r], HintOf[a] = i,
             NEW b \in Record, TraceOf[b] = TraceOf[s], HintOf[b] = i, i # None
      PROVE  TraceOf[r] = TraceOf[s]
  BY <1>4 DEF OneTraceOneCall
<1> QED  BY <1>1, <1>2, <1>3, <1>4 DEF IdOf

\* What a producer wrote on one batch of a trace is all that replaces it.
LEMMA OneHint ==
  ASSUME OneTraceOneCall, NEW r \in Record, NEW s \in Record, TraceOf[r] = TraceOf[s],
         HintOf[s] # None, NEW i, IdOf(TraceOf[r], i)
  PROVE  i \in {TraceOf[r], HintOf[s]}
BY DEF OneTraceOneCall, IdOf

\* The rows of a trace: one at most, that bears one of its ids.
LEMMA TraceRows ==
  ASSUME PromotionInv, OneTraceOneCall, NEW r \in Record, NEW k \in ByTrace(calls, TraceOf[r])
  PROVE  /\ k \in CallPk /\ k \in Live(calls) /\ Born(calls, k) /\ calls[k].trace = TraceOf[r]
         /\ IdOf(TraceOf[r], calls[k].ext)
         /\ \A j \in ByTrace(calls, TraceOf[r]) : j = k
<1>1. k \in CallPk /\ k \in Live(calls) /\ Born(calls, k) /\ calls[k].trace = TraceOf[r]
  BY DEF ByTrace, Live, Born
<1>2. TraceOf[r] # None
  BY DEF OneTraceOneCall
<1>3. IdOf(TraceOf[r], calls[k].ext)
  BY <1>1 DEF PromotionInv, RowsTraced
<1>4. \A j \in ByTrace(calls, TraceOf[r]) : j = k
  BY <1>1, <1>2 DEF PromotionInv, OneCallPerTrace, ByTrace
<1> QED  BY <1>1, <1>3, <1>4

\* A row that bears an id of a trace is of that trace.
LEMMA NamedRow ==
  ASSUME PromotionInv, OneTraceOneCall, NEW r \in Record, NEW i, IdOf(TraceOf[r], i),
         NEW k \in ByExternalId(calls, i)
  PROVE  k \in ByTrace(calls, TraceOf[r])
<1>1. k \in CallPk /\ k \in Live(calls) /\ Born(calls, k) /\ calls[k].ext = i
  BY DEF ByExternalId, Live, Born
<1>2. PICK s \in Record : calls[k].trace = TraceOf[s] /\ IdOf(TraceOf[s], i)
  BY <1>1 DEF PromotionInv, RowsTraced
<1>3. TraceOf[s] = TraceOf[r]
  BY <1>2, IdsApart
<1> QED  BY <1>1, <1>2, <1>3 DEF ByTrace

\* identify resolves a batch to an id of its trace; no row of it bears another one but
\* the trace.
LEMMA IdentifiedKnown ==
  ASSUME PromotionInv, OneTraceOneCall, NEW r \in Record, NEW i \in Identified(r)
  PROVE  /\ IdOf(TraceOf[r], i) /\ i # None
         /\ \A k \in ByTrace(calls, TraceOf[r]) : calls[k].ext \in {TraceOf[r], i}
<1>1. TraceOf[r] # None
  BY DEF OneTraceOneCall
<1>2. CASE HintOf[r] # None
  <2>1. i = HintOf[r]
    BY <1>2 DEF Identified
  <2> QED  BY <1>2, <2>1, TraceRows, OneHint DEF IdOf
<1>3. CASE HintOf[r] = None /\ ByTrace(calls, TraceOf[r]) = {}
  BY <1>1, <1>3 DEF Identified, IdOf
<1>4. CASE HintOf[r] = None /\ ByTrace(calls, TraceOf[r]) # {}
  <2>1. PICK k \in ByTrace(calls, TraceOf[r]) : i = calls[k].ext
    BY <1>1, <1>4 DEF Identified
  <2>2. IdOf(TraceOf[r], i) /\ \A j \in ByTrace(calls, TraceOf[r]) : j = k
    BY <2>1, TraceRows
  <2> QED  BY <1>1, <2>1, <2>2 DEF IdOf
<1> QED  BY <1>2, <1>3, <1>4

\* upsert_call finds the row of the trace, by the id or by the trace, if there is one.
LEMMA FoundTraced ==
  ASSUME PromotionInv, OneTraceOneCall, NEW r \in Record, NEW i, IdOf(TraceOf[r], i),
         NEW k \in Found(i, r)
  PROVE  IF k = None THEN ByTrace(calls, TraceOf[r]) = {} ELSE k \in ByTrace(calls, TraceOf[r])
<1>1. TraceOf[r] # None
  BY DEF OneTraceOneCall
<1>2. None \notin ByTrace(calls, TraceOf[r]) /\ None \notin ByExternalId(calls, i)
  BY RecordAssumption DEF ByTrace, ByExternalId, Live
<1>3. CASE ByExternalId(calls, i) # {}
  BY <1>2, <1>3, NamedRow DEF Found
<1>4. CASE ByExternalId(calls, i) = {}
  BY <1>1, <1>2, <1>4 DEF Found
<1> QED  BY <1>3, <1>4

-----------------------------------------------------------------------------
(* A store.                                                                *)

\* What a store does here: the row of the call is new or was of the trace, and bears the
\* id now.
Promotes(c, k, new) ==
  LET w == worker[c]
      r == Rec(c)
      old == calls[k]
  IN
  /\ IF w.found = None THEN old.life = "unborn" ELSE old.life = "live" /\ old.trace = TraceOf[r]
  /\ \A j \in Live(calls) : j # k => calls[j].trace # TraceOf[r]
  /\ Collects(k, w.cid, r, new) /\ new.trace = TraceOf[r] /\ Proceeds(c, k, new)

\* The flush leaves one new or updated row of the trace, and _call_pk finds it by the id.
LEMMA FlushedTraced ==
  ASSUME PromotionInv, OneTraceOneCall, NEW c \in Consumer, Store(c),
         NEW t \in Flushed(worker[c].cid, worker[c].found, worker[c].seen, Rec(c))
  PROVE  LET w == worker[c]
             r == Rec(c)
             k == PkOf(t, w.cid)
         IN /\ k \in CallPk
            /\ IF w.found = None THEN calls[k].life = "unborn"
               ELSE calls[k].life = "live" /\ calls[k].trace = TraceOf[r]
            /\ \A j \in Live(calls) : j # k => calls[j].trace # TraceOf[r]
            /\ t[k].ext = w.cid /\ t[k].trace = TraceOf[r] /\ w.found \in {k, None}
            /\ t = [calls EXCEPT ![k] = IF w.found = k THEN Upserted(calls[k], w.seen, w.cid, r)
                                        ELSE NewRow(w.cid, r)]
<1> DEFINE w == worker[c]
           r == Rec(c)
           i == w.cid
<1>1. /\ w.pc = "store" /\ w.cid # None /\ ~Rejected(w.cid, w.found, w.seen) /\ w \in WorkerState
      /\ calls \in [CallPk -> Row]
  BY DEF Store, PromotionInv, TypeOK, WorkerTypeOK, DBTypeOK
<1>2. r \in Record
  BY <1>1, RecType DEF PromotionInv, TypeOK, Busy
<1>3. w.seen \in Row /\ w.found \in MaybePk /\ w.cid \in MaybeId
  BY <1>1 DEF WorkerState, MaybePk, MaybeId
<1>4. Knows(calls, w, TraceOf[r])
  BY DEF PromotionInv, ConsumersKnow
<1>5. t \in [CallPk -> Row]
  BY <1>2, <1>3, FlushedType DEF PromotionInv, TypeOK
<1>6. IdOf(TraceOf[r], i) /\ TraceOf[r] # None
  BY <1>1, <1>2, <1>4 DEF Knows, OneTraceOneCall
<1>7. CASE w.found = None
  <2>1. ByExternalId(calls, i) = {} /\ ByTrace(calls, TraceOf[r]) = {}
    BY <1>1, <1>4, <1>7 DEF Rejected, Knows
  <2>2. PICK n \in CallPk : calls[n].life = "unborn" /\ t = [calls EXCEPT ![n] = NewRow(i, r)]
    BY <1>7 DEF Flushed
  <2>3. t[n].life = "live" /\ t[n].ext = i /\ t[n].trace = TraceOf[r]
    BY <1>1, <2>2 DEF NewRow, Unborn
  <2>4. \A j \in CallPk : j # n => t[j] = calls[j]
    BY <1>1, <2>2
  <2>5. ByExternalId(t, i) = {n}
    BY <2>1, <2>3, <2>4 DEF ByExternalId, Live
  <2>6. PkOf(t, i) = n
    BY <2>5 DEF PkOf
  <2> QED  BY <1>7, <2>1, <2>2, <2>3, <2>6, RecordAssumption DEF ByTrace
<1>8. CASE w.found # None
  <2> DEFINE k == w.found
  <2>1. k \in CallPk /\ k \in Live(calls)
    BY <1>1, <1>3, <1>8 DEF Rejected, MaybePk
  <2>2. calls[k].trace = TraceOf[r] /\ w.seen.trace = TraceOf[r] /\ w.seen.ext = calls[k].ext
    BY <1>1, <1>4, <1>8 DEF Knows
  <2>3. k \in ByTrace(calls, TraceOf[r]) /\ \A j \in ByTrace(calls, TraceOf[r]) : j = k
    BY <1>2, <2>1, <2>2, TraceRows DEF ByTrace
  <2>4. t = [calls EXCEPT ![k] = Upserted(calls[k], w.seen, i, r)]
    BY <1>1, <1>8, <2>1 DEF Flushed
  <2>5. calls[k] \in Row /\ calls[k].life = "live"
    BY <1>1, <2>1 DEF Live
  <2>6. t[k].life = "live" /\ t[k].ext = i /\ t[k].trace = TraceOf[r]
    <3>1. t[k] = Upserted(calls[k], w.seen, i, r)
      BY <1>1, <2>1, <2>4
    <3> HIDE DEF w, r, k
    <3> QED  BY <1>6, <2>2, <2>5, <3>1 DEF Upserted, Row, i
  <2>7. \A j \in CallPk : j # k => t[j] = calls[j]
    BY <1>1, <2>4
  <2>8. \A j \in ByExternalId(calls, i) : j = k
    BY <1>2, <1>6, <2>3, NamedRow
  <2>9. ByExternalId(t, i) = {k}
    BY <2>1, <2>6, <2>7, <2>8 DEF ByExternalId, Live
  <2>10. PkOf(t, i) = k
    BY <2>9 DEF PkOf
  <2> QED  BY <1>8, <2>1, <2>2, <2>3, <2>4, <2>5, <2>6, <2>10 DEF ByTrace
<1> QED  BY <1>7, <1>8

\* So a store collects the batch for the call of its trace, which bears the id resolved.
LEMMA StorePromotes ==
  ASSUME PromotionInv, OneTraceOneCall, NEW c \in Consumer, Store(c)
  PROVE  \E k \in CallPk, new \in Row : Promotes(c, k, new)
<1> DEFINE w == worker[c]
           r == Rec(c)
<1>1. /\ TypeOK
      /\ \A k \in CallPk : calls[k].life = "unborn" => calls[k] = Unborn
      /\ w.found # None /\ w.seen.complete => calls[w.found].complete
  BY DEF PromotionInv, RowsTraced, Born, ConsumersKnow, Knows, Store
<1>2. ASSUME NEW t \in Flushed(w.cid, w.found, w.seen, r)
      PROVE  LET k == PkOf(t, w.cid)
             IN  /\ k \in CallPk /\ w.found \in {k, None}
                 /\ IF w.found = None THEN calls[k].life = "unborn"
                    ELSE calls[k].life = "live" /\ calls[k].trace = TraceOf[r]
                 /\ \A j \in Live(calls) : j # k => calls[j].trace # TraceOf[r]
                 /\ t[k].ext = w.cid /\ t[k].trace = TraceOf[r]
                 /\ t = [calls EXCEPT ![k] = IF w.found = k
                                             THEN Upserted(calls[k], w.seen, w.cid, r)
                                             ELSE NewRow(w.cid, r)]
  BY FlushedTraced
<1>3. PICK t \in Flushed(w.cid, w.found, w.seen, r) :
        LET k == PkOf(t, w.cid)
        IN  /\ calls'[k] \in Row /\ calls'[k].trace = t[k].trace
            /\ t[k].trace \in {calls[k].trace, TraceOf[r]}
            /\ Collects(k, w.cid, r, calls'[k]) /\ Proceeds(c, k, calls'[k])
  BY <1>1, <1>2, StoreWrites
<1> QED  BY <1>2, <1>3 DEF Promotes

\* Only one consumer is at work on the records of a trace.
LEMMA OneAtWork ==
  ASSUME PromotionInv, CoPartitioned, NEW c \in Consumer, NEW d \in Consumer,
         worker[c].pc \in Busy, worker[d].pc \in Busy, TraceOf[Rec(c)] = TraceOf[Rec(d)]
  PROVE  c = d
<1>1. /\ worker[c].part \in Partition /\ worker[c].off \in 1 .. Len(Log[worker[c].part])
      /\ worker[d].part \in Partition /\ worker[d].off \in 1 .. Len(Log[worker[d].part])
  BY DEF PromotionInv, TypeOK, WorkerTypeOK
<1>2. worker[c].part = worker[d].part
  BY <1>1 DEF CoPartitioned, Rec
<1> QED  BY <1>2 DEF PromotionInv, OwnersAtWork

\* What a step other than a store does to the rows: none is born, renamed or revived.
Fades ==
  \A k \in CallPk :
    /\ Born(calls', k) <=> Born(calls, k)
    /\ Born(calls, k) => calls'[k].ext = calls[k].ext /\ calls'[k].trace = calls[k].trace
    /\ calls'[k].life = "live" => calls[k].life = "live"
    /\ calls'[k].complete = calls[k].complete
    /\ ~Born(calls, k) => calls'[k] = calls[k]

\* What a consumer knows survives it ...
LEMMA KnowsKept ==
  ASSUME NEW w \in WorkerState, NEW x, Knows(calls, w, x), Fades
  PROVE  Knows(calls', w, x)
<1>1. ByTrace(calls', x) \subseteq ByTrace(calls, x)
      /\ \A k \in ByTrace(calls', x) : calls'[k].ext = calls[k].ext
  BY DEF Fades, ByTrace, Live, Born
<1>2. w.found \in MaybePk
  BY DEF WorkerState, MaybePk
<1>3. w.pc \in {"upsert", "store"} =>
        IdOf(x, w.cid) /\ \A k \in ByTrace(calls', x) : calls'[k].ext \in {x, w.cid}
  BY <1>1 DEF Knows
<1>4. ASSUME w.pc = "store", w.found = None PROVE ByTrace(calls', x) = {}
  BY <1>1, <1>4 DEF Knows
<1>5. ASSUME w.pc = "store", w.found # None
      PROVE  /\ Born(calls', w.found) /\ calls'[w.found].trace = x
             /\ w.seen.trace = x /\ w.seen.ext = calls'[w.found].ext
             /\ w.seen.complete => calls'[w.found].complete
  BY <1>2, <1>5 DEF Knows, Fades, MaybePk
<1> QED  BY <1>3, <1>4, <1>5 DEF Knows

\* ... and so do the rows.
LEMMA RowsFade ==
  ASSUME PromotionInv, Fades
  PROVE  RowsTraced' /\ OneCallPerTrace'
<1>1. RowsTraced'
  BY DEF PromotionInv, RowsTraced, Fades
<1>2. \A k \in Live(calls)' : k \in Live(calls) /\ calls'[k].trace = calls[k].trace
  BY DEF Fades, Live, Born
<1> QED  BY <1>1, <1>2 DEF PromotionInv, OneCallPerTrace

\* A consumer that begins, ends or gives up a record knows nothing.
LEMMA KnowsNothing ==
  ASSUME NEW t, NEW w, NEW x, w.pc \notin {"upsert", "store"}
  PROVE  Knows(t, w, x)
BY DEF Knows

\* A store leaves the rows, the buffers, and what the other consumers know as they should be.
LEMMA StorePromotion ==
  ASSUME PromotionInv, OneTraceOneCall, CoPartitioned, NEW c \in Consumer, Store(c)
  PROVE  RowsTraced' /\ OneCallPerTrace' /\ BufferTraced' /\ ConsumersKnow'
<1> DEFINE w == worker[c]
           r == Rec(c)
           x == TraceOf[r]
<1>1. /\ calls \in [CallPk -> Row] /\ frags \in [MaybePk -> [Record -> Nat]]
      /\ w \in WorkerState /\ w.pc = "store" /\ w.pc \in Busy
  BY DEF Store, PromotionInv, TypeOK, DBTypeOK, WorkerTypeOK, MaybePk, Busy
<1>2. r \in Record /\ x # None
  BY <1>1, RecType DEF PromotionInv, TypeOK, OneTraceOneCall
<1>3. PICK k \in CallPk, new \in Row : Promotes(c, k, new)
  BY StorePromotes
<1>4. /\ IF w.found = None THEN calls[k].life = "unborn"
         ELSE calls[k].life = "live" /\ calls[k].trace = x
      /\ \A j \in Live(calls) : j # k => calls[j].trace # x
      /\ calls'[k] = new /\ \A j \in CallPk : j # k => calls'[j] = calls[j]
      /\ frags' = Stored(k, r)
      /\ new.life = "live" /\ new.ext = w.cid /\ new.trace = x
  BY <1>1, <1>3 DEF Promotes, Collects
<1>5. IdOf(x, w.cid)
  BY <1>1 DEF PromotionInv, ConsumersKnow, Knows
<1>6. calls[k].life = "unborn" => calls[k] = Unborn
  BY DEF PromotionInv, RowsTraced, Born
<1>7. RowsTraced'
  <2>1. ASSUME NEW j \in CallPk, j # k
        PROVE  IF Born(calls', j)
               THEN \E s \in Record : calls'[j].trace = TraceOf[s] /\ IdOf(TraceOf[s], calls'[j].ext)
               ELSE calls'[j] = Unborn
    BY <1>4, <2>1 DEF PromotionInv, RowsTraced, Born
  <2>2. Born(calls', k) /\ calls'[k].trace = TraceOf[r] /\ IdOf(TraceOf[r], calls'[k].ext)
    BY <1>4, <1>5 DEF Born
  <2> QED  BY <1>2, <2>1, <2>2 DEF RowsTraced
<1>8. \A j \in Live(calls)' : j # k => j \in Live(calls) /\ calls'[j] = calls[j]
  BY <1>4 DEF Live
<1>9. OneCallPerTrace'
  BY <1>4, <1>8 DEF PromotionInv, OneCallPerTrace
<1>10. BufferTraced'
  <2>1. k # None /\ k \in MaybePk /\ frags[k][r] \in Nat
    BY <1>1, <1>2, RecordAssumption DEF MaybePk
  <2>2. frags[k][r] > 0 => frags[k][r] = 1
    BY <1>2, <2>1 DEF PromotionInv, BufferTraced
  <2>3. /\ frags'[k][r] = 1
        /\ \A s \in Record : s # r => frags'[k][s] = frags[k][s]
        /\ \A j \in MaybePk : j # k => frags'[j] = frags[j]
    <3>1. CASE frags[k][r] > 0
      BY <1>4, <2>1, <2>2, <3>1 DEF Stored
    <3>2. CASE frags[k][r] = 0
      <4>1. frags' = [frags EXCEPT ![k][r] = 1]
        BY <1>4, <2>1, <3>2 DEF Stored
      <4> QED  BY <1>1, <1>2, <2>1, <4>1
    <3> QED  BY <2>1, <3>1, <3>2
  <2>4. k \in Live(calls)'
    BY <1>4 DEF Live
  <2>5. ASSUME NEW j \in MaybePk, NEW s \in Record, frags'[j][s] > 0
        PROVE  j \in Live(calls)' /\ calls'[j].trace = TraceOf[s] /\ frags'[j][s] = 1
    <3>1. CASE j = k /\ s = r
      BY <1>4, <2>3, <2>4, <3>1
    <3>2. CASE j = k /\ s # r
      <4>1. frags[k][s] > 0 /\ frags'[k][s] = frags[k][s]
        BY <2>3, <2>5, <3>2
      <4>2. k \in Live(calls) /\ calls[k].trace = TraceOf[s] /\ frags[k][s] = 1
        BY <2>1, <4>1 DEF PromotionInv, BufferTraced
      <4> QED  BY <1>4, <2>4, <3>2, <4>1, <4>2 DEF Live
    <3>3. CASE j # k
      <4>1. frags[j][s] > 0 /\ frags'[j][s] = frags[j][s]
        BY <2>3, <2>5, <3>3
      <4>2. j \in Live(calls) /\ calls[j].trace = TraceOf[s] /\ frags[j][s] = 1
        BY <4>1 DEF PromotionInv, BufferTraced
      <4> QED  BY <1>4, <3>3, <4>1, <4>2 DEF Live
    <3> QED  BY <3>1, <3>2, <3>3
  <2> QED  BY <2>5 DEF BufferTraced
<1>11. worker' \in [Consumer -> WorkerState] /\ worker'[c].pc \notin {"upsert", "store"}
       /\ \A d \in Consumer : d # c => worker'[d] = worker[d]
  <2>1. worker'[c].pc \in {"commit", "enqueue"}
    <3>1. worker \in [Consumer -> WorkerState]
      BY DEF PromotionInv, TypeOK, WorkerTypeOK
    <3>2. \/ Step(c, "commit")
          \/ worker' = [worker EXCEPT ![c].pc = "enqueue", ![c].judge = {w.cid}]
      BY DEF Store
    <3> QED  BY <1>1, <3>1, <3>2 DEF Step, WorkerState
  <2>2. TypeOK'
    BY StoreTypeOK DEF PromotionInv
  <2>3. \A d \in Consumer : d # c => worker'[d] = worker[d]
    BY SameRecord DEF PromotionInv
  <2> QED  BY <2>1, <2>2, <2>3 DEF TypeOK, WorkerTypeOK
<1>12. ASSUME NEW d \in Consumer, d # c PROVE Knows(calls', worker'[d], TraceOf[Rec(d)'])
  <2> DEFINE y == TraceOf[Rec(d)]
  <2>1. worker'[d] = worker[d] /\ Rec(d)' = Rec(d) /\ Knows(calls, worker[d], y)
    BY <1>11, <1>12 DEF Rec, PromotionInv, ConsumersKnow
  <2>2. CASE worker[d].pc \notin {"upsert", "store"}
    BY <2>1, <2>2, KnowsNothing
  <2>3. CASE worker[d].pc \in {"upsert", "store"}
    <3>1. y # x
      BY <1>1, <1>12, <2>3, OneAtWork DEF Busy
    <3>2. ByTrace(calls', y) \subseteq ByTrace(calls, y)
          /\ \A j \in ByTrace(calls', y) : calls'[j] = calls[j]
      BY <1>4, <3>1 DEF ByTrace, Live
    <3>3. worker[d].found \in MaybePk
      BY DEF PromotionInv, TypeOK, WorkerTypeOK, WorkerState, MaybePk
    <3>4. ASSUME worker[d].pc = "store", worker[d].found # None
          PROVE  worker[d].found \in CallPk /\ worker[d].found # k
                 /\ Born(calls, worker[d].found)
      BY <1>4, <2>1, <3>1, <3>3, <3>4 DEF Knows, Born, MaybePk
    <3>5. ASSUME worker[d].pc = "store", worker[d].found # None
          PROVE  calls'[worker[d].found] = calls[worker[d].found]
      BY <1>4, <3>4, <3>5
    <3> HIDE DEF x, y
    <3>6. Knows(calls', worker[d], y)
      BY <2>1, <3>2, <3>4, <3>5 DEF Knows, Born
    <3> QED  BY <2>1, <3>6 DEF y
  <2> QED  BY <2>2, <2>3
<1>13. ConsumersKnow'
  <2>1. Knows(calls', worker'[c], TraceOf[Rec(c)'])
    BY <1>11, KnowsNothing
  <2>2. \A d \in Consumer : Knows(calls', worker'[d], TraceOf[Rec(d)'])
    BY <1>12, <2>1
  <2> QED  BY <2>2 DEF ConsumersKnow
<1> QED  BY <1>7, <1>9, <1>10, <1>13

-----------------------------------------------------------------------------
(* The other steps.                                                        *)

\* No step takes a partition from a consumer at work.
LEMMA OwnersStay ==
  ASSUME PromotionInv, CoPartitioned, [Next]_vars
  PROVE  OwnersAtWork'
<1>1. /\ worker \in [Consumer -> WorkerState] /\ owner \in [Partition -> Consumer]
      /\ Idle.pc \notin Busy /\ Idle \in WorkerState
      /\ \A c \in Consumer : worker[c].pc \in Busy => worker[c].part \in Partition
  BY IdleType DEF PromotionInv, TypeOK, WorkerTypeOK, BusTypeOK
<1>2. ASSUME UNCHANGED owner, \A d \in Consumer : Same(d) PROVE OwnersAtWork'
  BY <1>1, <1>2 DEF PromotionInv, OwnersAtWork, Same
<1>3. ASSUME UNCHANGED <<owner, worker>> PROVE OwnersAtWork'
  BY <1>3 DEF PromotionInv, OwnersAtWork
<1>4. ASSUME NEW c \in Consumer, Rest(c), UNCHANGED owner PROVE OwnersAtWork'
  BY <1>1, <1>4 DEF PromotionInv, OwnersAtWork, Rest
<1>5. ASSUME NEW c \in Consumer, Poll(c) PROVE OwnersAtWork'
  <2>1. PICK p \in Partition :
          /\ owner[p] = c
          /\ worker' = [worker EXCEPT ![c] = [Idle EXCEPT !.pc = "identify", !.part = p,
                                                          !.off = position[p] + 1]]
    BY <1>5 DEF Poll
  <2>2. worker'[c].part = p /\ \A d \in Consumer : d # c => worker'[d] = worker[d]
    BY <1>1, <2>1 DEF WorkerState
  <2>3. UNCHANGED owner
    BY <1>5 DEF Poll
  <2> QED  BY <2>1, <2>2, <2>3 DEF PromotionInv, OwnersAtWork
<1>6. ASSUME NEW c \in Consumer, NEW p \in Partition, Rebalance(p, c) PROVE OwnersAtWork'
  <2>1. worker[owner[p]].pc \notin Busy
    BY <1>6 DEF Rebalance, CoPartitioned
  <2>2. owner' = [owner EXCEPT ![p] = c] /\ UNCHANGED worker
    BY <1>6 DEF Rebalance
  <2> QED  BY <1>1, <2>1, <2>2 DEF PromotionInv, OwnersAtWork
<1>7. ASSUME NEW c \in Consumer,
             CommitOffset(c) \/ CommitRefused(c) \/ Crash(c)
      PROVE  OwnersAtWork'
  <2>1. Rest(c) /\ UNCHANGED owner
    BY <1>7 DEF CommitOffset, CommitRefused, Crash, Restart
  <2> QED  BY <1>4, <2>1
<1>8. ASSUME NEW c \in Consumer,
             \/ Identify(c) \/ Upsert(c) \/ StoreUnattributed(c) \/ Store(c)
             \/ AttemptFails(c) \/ EnqueueJudge(c) \/ EnqueueFails(c) \/ ToDlq(c)
             \/ Flush(c)
      PROVE  OwnersAtWork'
  BY <1>2, <1>8, SameRecord DEF PromotionInv, busVars
<1>9. CASE Api
  BY <1>3, <1>9 DEF Api, RegisterLoad, ReconcileLoad, Load, RegisterCommit, EraseLoad, EraseCommit,
                    EraseFails, busVars
<1>10. CASE UNCHANGED vars
  BY <1>3, <1>10 DEF vars, busVars
<1> QED  BY <1>5, <1>6, <1>7, <1>8, <1>9, <1>10 DEF Next, Consume

\* A step of consumer c that touches no table: what c knows after it.
LEMMA StepKnows ==
  ASSUME PromotionInv, OneTraceOneCall, NEW c \in Consumer, UNCHANGED calls,
         \/ Poll(c) \/ Identify(c) \/ Upsert(c) \/ AttemptFails(c) \/ EnqueueJudge(c)
         \/ EnqueueFails(c) \/ ToDlq(c) \/ CommitOffset(c) \/ CommitRefused(c) \/ Crash(c)
         \/ (\E Q \in Quiet : FlushSelect(c, Q)) \/ FlushRead(c) \/ FlushAborts(c)
  PROVE  Knows(calls', worker'[c], TraceOf[Rec(c)'])
<1> DEFINE w == worker[c]
           r == Rec(c)
<1>1. /\ w \in WorkerState /\ worker \in [Consumer -> WorkerState] /\ Idle \in WorkerState
      /\ TypeOK /\ WorkerTypeOK
  BY IdleType DEF PromotionInv, TypeOK, WorkerTypeOK
<1>2. ASSUME Rest(c) PROVE Knows(calls', worker'[c], TraceOf[Rec(c)'])
  <2>1. worker'[c].pc = "poll"
    BY <1>1, <1>2 DEF Idle, Rest
  <2> QED  BY <2>1, KnowsNothing
<1>3. ASSUME worker'[c].pc \notin {"upsert", "store"}
      PROVE  Knows(calls', worker'[c], TraceOf[Rec(c)'])
  BY <1>3, KnowsNothing
<1>4. CASE Poll(c)
  <2>1. PICK p \in Partition :
          worker' = [worker EXCEPT ![c] = [Idle EXCEPT !.pc = "identify", !.part = p,
                                                       !.off = position[p] + 1]]
    BY <1>4 DEF Poll
  <2>2. worker'[c].pc = "identify"
    BY <1>1, <2>1 DEF Idle
  <2> QED  BY <1>3, <2>2
<1>5. CASE Identify(c)
  <2>1. w.pc = "identify" /\ r \in Record
    BY <1>1, <1>5, RecType DEF Identify, Busy
  <2>2. PICK i \in Identified(r) :
          \/ Step(c, "commit")
          \/ worker' = [worker EXCEPT ![c].pc = IF i = None THEN "store" ELSE "upsert",
                          ![c].cid = i, ![c].found = None, ![c].seen = Unborn]
    BY <1>5 DEF Identify
  <2>3. /\ IdOf(TraceOf[r], i) /\ i # None
        /\ \A k \in ByTrace(calls, TraceOf[r]) : calls[k].ext \in {TraceOf[r], i}
    BY <2>1, IdentifiedKnown
  <2>4. CASE Step(c, "commit")
    <3>1. worker'[c].pc = "commit"
      BY <1>1, <2>4 DEF Step, WorkerState
    <3> QED  BY <1>3, <3>1
  <2>5. CASE worker' = [worker EXCEPT ![c].pc = IF i = None THEN "store" ELSE "upsert",
                          ![c].cid = i, ![c].found = None, ![c].seen = Unborn]
    <3>1. worker'[c].pc = "upsert" /\ worker'[c].cid = i
      BY <1>1, <2>3, <2>5 DEF WorkerState
    <3>2. Rec(c)' = r
      <4>1. Same(c)
        BY <1>1, <1>5, SameRecord
      <4> QED  BY <3>1, <4>1 DEF Same, Rec, Busy
    <3> QED  BY <2>3, <3>1, <3>2 DEF Knows, ByTrace, Live
  <2> QED  BY <2>2, <2>4, <2>5
<1>6. CASE Upsert(c)
  <2>1. w.pc = "upsert" /\ r \in Record
    BY <1>1, <1>6, RecType DEF Upsert, Busy
  <2>2. /\ IdOf(TraceOf[r], w.cid)
        /\ \A k \in ByTrace(calls, TraceOf[r]) : calls[k].ext \in {TraceOf[r], w.cid}
    BY <2>1 DEF PromotionInv, ConsumersKnow, Knows
  <2>3. PICK k \in Found(w.cid, r) :
          worker' = [worker EXCEPT ![c].pc = "store", ![c].found = k,
                                   ![c].seen = IF k = None THEN Unborn ELSE calls[k]]
    BY <1>6 DEF Upsert
  <2>4. /\ worker'[c].pc = "store" /\ worker'[c].found = k /\ worker'[c].cid = w.cid
        /\ k # None => worker'[c].seen = calls[k]
    BY <1>1, <2>3 DEF WorkerState
  <2>5. IF k = None THEN ByTrace(calls, TraceOf[r]) = {} ELSE k \in ByTrace(calls, TraceOf[r])
    BY <2>1, <2>2, FoundTraced
  <2>6. k # None => Born(calls, k) /\ calls[k].trace = TraceOf[r]
    BY <2>5 DEF ByTrace, Live, Born
  <2>7. Rec(c)' = r
    <3>1. Same(c)
      BY <1>1, <1>6, SameRecord
    <3> QED  BY <2>4, <3>1 DEF Same, Rec, Busy
  <2>8. Knows(calls, worker'[c], TraceOf[r])
    BY <2>2, <2>4, <2>5, <2>6 DEF Knows
  <2> QED  BY <2>7, <2>8
<1>7. CASE AttemptFails(c) \/ (EnqueueFails(c) /\ w.pc = "enqueue")
  <2>1. Retry(c) /\ w.pc \in Busy
    BY <1>7 DEF AttemptFails, EnqueueFails, Busy
  <2>2. worker'[c].pc \in {"identify", "dlq"}
    BY <1>1, <2>1, RetryType
  <2> QED  BY <1>3, <2>2
<1>8. CASE ToDlq(c) \/ (EnqueueJudge(c) /\ w.pc = "enqueue")
  <2>1. Step(c, "commit")
    BY <1>8 DEF ToDlq, EnqueueJudge
  <2>2. worker'[c].pc = "commit"
    BY <1>1, <2>1 DEF Step, WorkerState
  <2> QED  BY <1>3, <2>2
<1>9. CASE \/ CommitOffset(c) \/ CommitRefused(c) \/ Crash(c) \/ FlushAborts(c)
           \/ w.pc # "enqueue" /\ (EnqueueJudge(c) \/ EnqueueFails(c))
  <2>1. Rest(c)
    BY <1>9 DEF CommitOffset, CommitRefused, Crash, Restart, FlushAborts, EnqueueJudge, EnqueueFails
  <2> QED  BY <1>2, <2>1
<1>10. CASE \E Q \in Quiet : FlushSelect(c, Q)
  <2>1. PICK due : worker' = [worker EXCEPT ![c] = [Idle EXCEPT !.pc = "flush", !.due = due]]
    BY <1>10 DEF FlushSelect
  <2>2. worker'[c].pc = "flush"
    BY <1>1, <2>1 DEF Idle
  <2> QED  BY <1>3, <2>2
<1>11. CASE FlushRead(c)
  <2>1. worker'[c].pc = "flush"
    BY <1>1, <1>11, ReadMoves
  <2> QED  BY <1>3, <2>1
<1> QED  BY <1>4, <1>5, <1>6, <1>7, <1>8, <1>9, <1>10, <1>11

\* Sweeps, recordings and erasures leave every live row its trace, its id and its buffer.
LEMMA OthersFade ==
  ASSUME PromotionInv,
         \/ \E c \in Consumer : FlushCommit(c)
         \/ \E a \in Artifact : RegisterCommit(a)
         \/ \E i \in Erasable : EraseCommit(i)
  PROVE  Fades /\ BufferTraced'
<1>1. /\ calls \in [CallPk -> Row] /\ frags \in [MaybePk -> [Record -> Nat]]
      /\ \A i \in Erasable : erasing[i] \in MaybePk
      /\ \A k \in CallPk : ~Born(calls, k) => calls[k] = Unborn
  BY PipelineAssumption DEF PromotionInv, TypeOK, DBTypeOK, ApiTypeOK, MaybePk, RowsTraced
<1>2. ASSUME UNCHANGED frags, Live(calls)' = Live(calls),
             \A k \in Live(calls) : calls'[k].trace = calls[k].trace
      PROVE  BufferTraced'
  BY <1>2 DEF PromotionInv, BufferTraced
<1>3. ASSUME NEW c \in Consumer, FlushCommit(c) PROVE Fades /\ BufferTraced'
  <2>1. \A k \in CallPk : /\ calls'[k].life = calls[k].life /\ calls'[k].ext = calls[k].ext
                          /\ calls'[k].trace = calls[k].trace
                          /\ calls'[k].complete = calls[k].complete
                          /\ k \notin DuePks(c) => calls'[k] = calls[k]
    BY <1>1, <1>3, SweptRow
  <2>2. \A k \in DuePks(c) : k \in Live(calls)
    BY <1>3 DEF FlushCommit
  <2>3. Fades
    BY <2>1, <2>2 DEF Fades, Born, Live
  <2>4. UNCHANGED frags /\ Live(calls)' = Live(calls)
    BY <1>3, <2>1 DEF FlushCommit, Live
  <2> QED  BY <1>2, <2>1, <2>3, <2>4 DEF Live
<1>4. ASSUME NEW a \in Artifact, RegisterCommit(a) PROVE Fades /\ BufferTraced'
  <2>0. UNCHANGED frags
    BY <1>4 DEF RegisterCommit
  <2>1. CASE UNCHANGED calls
    <3>1. Fades
      BY <2>1 DEF Fades, Born
    <3>2. BufferTraced'
      BY <1>2, <2>0, <2>1 DEF Live
    <3> QED  BY <3>1, <3>2
  <2>2. ASSUME NEW k \in Live(calls), NEW new \in Row,
               /\ calls' = [calls EXCEPT ![k] = new]
               /\ new.life = "live" /\ new.ext = calls[k].ext /\ new.trace = calls[k].trace
               /\ new.complete = calls[k].complete
        PROVE  Fades /\ BufferTraced'
    <3>1. k \in CallPk /\ calls[k].life = "live"
      BY DEF Live
    <3>2. calls'[k] = new /\ \A j \in CallPk : j # k => calls'[j] = calls[j]
      BY <1>1, <2>2, <3>1
    <3>3. Fades
      BY <2>2, <3>1, <3>2 DEF Fades, Born
    <3>4. Live(calls)' = Live(calls)
      BY <2>2, <3>1, <3>2 DEF Live
    <3>5. \A j \in Live(calls) : calls'[j].trace = calls[j].trace
      BY <2>2, <3>2 DEF Live
    <3> QED  BY <1>2, <2>0, <3>3, <3>4, <3>5
  <2>3. TypeOK
    BY DEF PromotionInv
  <2> QED  BY <1>4, <2>1, <2>2, <2>3, RegisteredRow
<1>5. ASSUME NEW i \in Erasable, EraseCommit(i) PROVE Fades /\ BufferTraced'
  <2> DEFINE k == erasing[i]
  <2>1. k \in CallPk /\ calls[k].life = "live" /\ calls[k] \in Row
    BY <1>1, <1>5 DEF EraseCommit, Live
  <2>2. /\ calls' = [calls EXCEPT ![k].life = "erased"]
        /\ frags' = [frags EXCEPT ![k] = [r \in Record |-> 0]]
    BY <1>5 DEF EraseCommit
  <2>3. /\ calls'[k] = [calls[k] EXCEPT !.life = "erased"]
        /\ \A j \in CallPk : j # k => calls'[j] = calls[j]
    BY <1>1, <2>1, <2>2
  <2>4. calls'[k].life = "erased" /\ calls'[k].ext = calls[k].ext /\ calls'[k].trace = calls[k].trace
        /\ calls'[k].complete = calls[k].complete
    BY <2>1, <2>3 DEF Row
  <2>5. (\A r \in Record : frags'[k][r] = 0) /\ \A j \in MaybePk : j # k => frags'[j] = frags[j]
    BY <1>1, <2>1, <2>2 DEF MaybePk
  <2>6. Fades
    BY <2>1, <2>3, <2>4 DEF Fades, Born
  <2>7. BufferTraced'
    BY <2>3, <2>5 DEF PromotionInv, BufferTraced, Live
  <2> QED  BY <2>6, <2>7
<1> QED  BY <1>3, <1>4, <1>5

\* A batch always has an identity, so none is stored without.
LEMMA AlwaysIdentified ==
  ASSUME OneTraceOneCall, PromotionInv, NEW c \in Consumer
  PROVE  ~StoreUnattributed(c)
<1> SUFFICES ASSUME StoreUnattributed(c) PROVE FALSE
  OBVIOUS
<1>1. worker[c].pc = "store" /\ worker[c].cid = None
  BY DEF StoreUnattributed
<1>2. Rec(c) \in Record
  BY <1>1, RecType DEF Busy, PromotionInv, TypeOK
<1>3. IdOf(TraceOf[Rec(c)], None)
  BY <1>1 DEF PromotionInv, ConsumersKnow, Knows
<1> QED  BY <1>2, <1>3 DEF IdOf, OneTraceOneCall

\* Every step keeps the invariant.
LEMMA NextPromotion ==
  ASSUME OneTraceOneCall, CoPartitioned, PromotionInv, [Next]_vars
  PROVE  PromotionInv'
<1>1. TypeOK /\ TypeOK' /\ OwnersAtWork' /\ WorkerTypeOK
  BY NextTypeOK, OwnersStay DEF PromotionInv, TypeOK
<1>2. ASSUME Fades, NEW d \in Consumer, worker'[d] = worker[d]
      PROVE  Knows(calls', worker'[d], TraceOf[Rec(d)'])
  <2>1. Rec(d)' = Rec(d) /\ worker[d] \in WorkerState /\ Knows(calls, worker[d], TraceOf[Rec(d)])
    BY <1>1, <1>2 DEF Rec, WorkerTypeOK, PromotionInv, ConsumersKnow
  <2> QED  BY <1>2, <2>1, KnowsKept
<1>3. ASSUME Fades, BufferTraced', UNCHANGED worker PROVE PromotionInv'
  <2>1. ConsumersKnow'
    BY <1>2, <1>3 DEF ConsumersKnow
  <2> QED  BY <1>1, <1>3, <2>1, RowsFade DEF PromotionInv
<1>4. ASSUME UNCHANGED <<calls, frags>> PROVE Fades /\ BufferTraced'
  <2>1. Live(calls)' = Live(calls)
    BY <1>4 DEF Live
  <2> QED  BY <1>4, <2>1 DEF Fades, Born, PromotionInv, BufferTraced
<1>5. ASSUME NEW c \in Consumer, Store(c) PROVE PromotionInv'
  BY <1>1, <1>5, StorePromotion DEF PromotionInv
<1>6. ASSUME NEW c \in Consumer, FlushCommit(c) PROVE PromotionInv'
  <2>1. Fades /\ BufferTraced'
    BY <1>6, OthersFade
  <2>2. \A d \in Consumer : d # c => worker'[d] = worker[d]
    BY <1>1, <1>6, SameRecord DEF Flush
  <2>3. worker'[c].pc = "flushEnqueue"
    BY <1>1, <1>6 DEF FlushCommit, WorkerTypeOK, WorkerState
  <2>4. \A d \in Consumer : Knows(calls', worker'[d], TraceOf[Rec(d)'])
    BY <1>2, <2>1, <2>2, <2>3, KnowsNothing
  <2> QED  BY <1>1, <2>1, <2>4, RowsFade DEF PromotionInv, ConsumersKnow
<1>7. ASSUME NEW c \in Consumer,
             \/ Poll(c) \/ Identify(c) \/ Upsert(c) \/ AttemptFails(c) \/ EnqueueJudge(c)
             \/ EnqueueFails(c) \/ ToDlq(c) \/ CommitOffset(c) \/ CommitRefused(c) \/ Crash(c)
             \/ (\E Q \in Quiet : FlushSelect(c, Q)) \/ FlushRead(c) \/ FlushAborts(c)
      PROVE  PromotionInv'
  <2>1. UNCHANGED <<calls, frags>>
    BY <1>7 DEF Poll, Identify, Upsert, AttemptFails, EnqueueJudge, EnqueueFails, ToDlq,
         CommitOffset, CommitRefused, Crash, Restart, FlushSelect, FlushRead, FlushAborts, dbVars
  <2>2. Fades /\ BufferTraced'
    BY <1>4, <2>1
  <2>3. Knows(calls', worker'[c], TraceOf[Rec(c)'])
    BY <1>7, <2>1, StepKnows
  <2>4. ASSUME NEW d \in Consumer, d # c PROVE worker'[d] = worker[d]
    <3>1. worker \in [Consumer -> WorkerState]
      BY <1>1 DEF WorkerTypeOK
    <3>2. CASE Poll(c) \/ CommitOffset(c) \/ CommitRefused(c) \/ Crash(c)
      BY <2>4, <3>1, <3>2 DEF Poll, CommitOffset, CommitRefused, Crash, Restart, Rest
    <3> QED  BY <1>1, <1>7, <2>4, <3>2, SameRecord DEF Flush
  <2>5. \A d \in Consumer : Knows(calls', worker'[d], TraceOf[Rec(d)'])
    BY <1>2, <2>2, <2>3, <2>4
  <2> QED  BY <1>1, <2>2, <2>5, RowsFade DEF PromotionInv, ConsumersKnow
<1>8. ASSUME NEW c \in Consumer, StoreUnattributed(c) PROVE FALSE
  BY <1>8, AlwaysIdentified
<1>9. ASSUME NEW c \in Consumer, NEW p \in Partition, Rebalance(p, c) PROVE PromotionInv'
  <2>1. UNCHANGED <<calls, frags, worker>>
    BY <1>9 DEF Rebalance, dbVars
  <2> QED  BY <1>3, <1>4, <2>1
<1>10. CASE Api
  <2>1. ASSUME NEW a \in Artifact, RegisterLoad(a) \/ ReconcileLoad(a) PROVE PromotionInv'
    <3>1. UNCHANGED <<calls, frags, worker>>
      BY <2>1 DEF RegisterLoad, ReconcileLoad, Load, dbVars
    <3> QED  BY <1>3, <1>4, <3>1
  <2>2. ASSUME NEW i \in Erasable, EraseLoad(i) \/ EraseFails(i) PROVE PromotionInv'
    <3>1. UNCHANGED <<calls, frags, worker>>
      BY <2>2 DEF EraseLoad, EraseFails, dbVars
    <3> QED  BY <1>3, <1>4, <3>1
  <2>3. ASSUME \/ \E a \in Artifact : RegisterCommit(a)
               \/ \E i \in Erasable : EraseCommit(i)
        PROVE  PromotionInv'
    <3>1. UNCHANGED worker
      BY <2>3 DEF RegisterCommit, EraseCommit
    <3> QED  BY <1>3, <2>3, <3>1, OthersFade
  <2> QED  BY <1>10, <2>1, <2>2, <2>3 DEF Api
<1>11. CASE UNCHANGED vars
  <2>1. UNCHANGED <<calls, frags, worker>>
    BY <1>11 DEF vars, dbVars
  <2> QED  BY <1>3, <1>4, <2>1
<1> QED  BY <1>5, <1>6, <1>7, <1>8, <1>9, <1>10, <1>11 DEF Next, Consume, Flush

\* It holds at the start: no row, no fragment, nobody at work.
LEMMA InitPromotion == Init => PromotionInv
<1> SUFFICES ASSUME Init PROVE PromotionInv
  OBVIOUS
<1>1. TypeOK
  BY InitTypeOK
<1>2. calls = [k \in CallPk |-> Unborn] /\ Unborn.life = "unborn"
  BY DEF Init, DBInit, Unborn
<1>3. RowsTraced /\ OneCallPerTrace
  BY <1>2 DEF RowsTraced, Born, OneCallPerTrace, Live
<1>4. BufferTraced
  BY DEF Init, DBInit, BufferTraced, MaybePk
<1>5. \A c \in Consumer : worker[c].pc = "poll"
  BY DEF Init, Idle
<1>6. OwnersAtWork /\ ConsumersKnow
  BY <1>5 DEF OwnersAtWork, ConsumersKnow, Knows, Busy
<1> QED  BY <1>1, <1>3, <1>4, <1>6 DEF PromotionInv

\* So it holds always.
LEMMA PromotionInvHolds ==
  ASSUME OneTraceOneCall, CoPartitioned
  PROVE  Spec => []PromotionInv
<1>1. PromotionInv /\ [Next]_vars => PromotionInv'
  BY NextPromotion
<1> QED  BY <1>1, InitPromotion, PTL DEF Spec

-----------------------------------------------------------------------------
(* What follows for a call that is renamed on the way.                     *)

\* Batches of one trace are assembled into one call even if only some of them name it:
\* upsert_call finds the row by its trace and promotes it.
THEOREM OneCallPromoted ==
  ASSUME OneTraceOneCall, CoPartitioned
  PROVE  Spec => []OneCallPerTrace
<1>1. PromotionInv => OneCallPerTrace
  BY DEF PromotionInv
<1> QED  BY <1>1, PromotionInvHolds, PTL

\* Redelivery never doubles the spans of such a call: a batch stored before the promotion
\* is found under the new id (identify looks the trace up).
THEOREM FragmentOncePromoted ==
  ASSUME OneTraceOneCall, CoPartitioned
  PROVE  Spec => []FragmentAtMostOnce
<1>1. PromotionInv => FragmentAtMostOnce
  <2> SUFFICES ASSUME PromotionInv, NEW r \in Record, NEW j \in MaybePk, NEW k \in MaybePk,
                      frags[j][r] > 0, frags[k][r] > 0
               PROVE  j = k /\ frags[k][r] = 1
    BY DEF FragmentAtMostOnce, MaybePk
  <2>1. /\ j \in Live(calls) /\ k \in Live(calls) /\ frags[k][r] = 1
        /\ calls[j].trace = TraceOf[r] /\ calls[k].trace = TraceOf[r]
    BY DEF PromotionInv, BufferTraced
  <2>2. TraceOf[r] # None
    BY DEF OneTraceOneCall
  <2> QED  BY <2>1, <2>2 DEF PromotionInv, OneCallPerTrace
<1> QED  BY <1>1, PromotionInvHolds, PTL

\* No batch is filed as unattributed while its call is promoted (_call_pk runs after the
\* flush, under the id the row bears by then).
THEOREM AllAttributedPromoted ==
  ASSUME OneTraceOneCall, CoPartitioned
  PROVE  Spec => []NothingUnattributed
<1>1. PromotionInv => NothingUnattributed
  <2> SUFFICES ASSUME PromotionInv, NEW r \in Record PROVE frags[None][r] = 0
    BY DEF NothingUnattributed
  <2>1. None \notin Live(calls) /\ frags[None][r] \in Nat
    BY RecordAssumption DEF Live, PromotionInv, TypeOK, DBTypeOK
  <2> QED  BY <2>1 DEF PromotionInv, BufferTraced, MaybePk
<1> QED  BY <1>1, PromotionInvHolds, PTL

\* A call is renamed once at most, from its trace to the id its producer chose: _promote
\* never replaces a producer's id, whatever the consumer loaded meanwhile.
THEOREM RenamedOnce ==
  ASSUME OneTraceOneCall, CoPartitioned
  PROVE  Spec => IdentityStable
<1>1. PromotionInv /\ [Next]_vars =>
        [\A k \in CallPk : calls[k].ext \in ProducerIds => calls'[k].ext = calls[k].ext]_vars
  <2> SUFFICES ASSUME PromotionInv, Next, NEW k \in CallPk, calls[k].ext \in ProducerIds
               PROVE  calls'[k].ext = calls[k].ext
    BY DEF vars, dbVars
  <2>1. Born(calls, k)
    BY DEF PromotionInv, RowsTraced, Unborn, ProducerIds
  <2>2. ASSUME NEW c \in Consumer, Store(c) PROVE calls'[k].ext = calls[k].ext
    <3> DEFINE w == worker[c]
               r == Rec(c)
               x == TraceOf[r]
    <3>1. w.pc = "store" /\ w.pc \in Busy /\ calls \in [CallPk -> Row]
      BY <2>2 DEF Store, Busy, PromotionInv, TypeOK, DBTypeOK
    <3>2. r \in Record
      BY <3>1, RecType DEF PromotionInv, TypeOK
    <3>3. PICK n \in CallPk, new \in Row : Promotes(c, n, new)
      BY <2>2, StorePromotes
    <3>4. CASE n # k
      BY <3>1, <3>3, <3>4 DEF Promotes, Collects
    <3>5. CASE n = k
      <4>1. calls'[k].ext = w.cid /\ k \in ByTrace(calls, x)
        BY <2>1, <3>1, <3>3, <3>5 DEF Promotes, Collects, Born, ByTrace, Live
      <4>2. IdOf(x, w.cid) /\ calls[k].ext \in {x, w.cid}
        BY <3>1, <4>1 DEF PromotionInv, ConsumersKnow, Knows
      <4>3. CASE calls[k].ext = x
        <5>1. PICK s \in Record : HintOf[s] = x
          BY <4>3 DEF ProducerIds
        <5>2. TraceOf[s] = x
          BY <3>2, <5>1 DEF OneTraceOneCall
        <5>3. x # None
          BY <3>2 DEF OneTraceOneCall
        <5> HIDE DEF w, x
        <5>4. w.cid = x
          BY <4>2, <5>1, <5>2, <5>3 DEF IdOf, OneTraceOneCall
        <5> QED  BY <4>1, <4>3, <5>4
      <4> QED  BY <4>1, <4>2, <4>3
    <3> QED  BY <3>4, <3>5
  <2>3. ASSUME \/ \E c \in Consumer : FlushCommit(c)
               \/ \E a \in Artifact : RegisterCommit(a)
               \/ \E i \in Erasable : EraseCommit(i)
        PROVE  calls'[k].ext = calls[k].ext
    BY <2>1, <2>3, OthersFade DEF Fades
  <2>4. CASE UNCHANGED calls
    BY <2>4
  <2> QED
    BY <2>2, <2>3, <2>4 DEF Next, Api, Consume, Flush, Poll, Identify, Upsert, StoreUnattributed,
       AttemptFails, EnqueueJudge, EnqueueFails, ToDlq, CommitOffset, CommitRefused, Crash, Restart,
       FlushSelect, FlushRead, FlushAborts, Rebalance, RegisterLoad, ReconcileLoad, Load, EraseLoad,
       EraseFails, dbVars
<1> QED  BY <1>1, PromotionInvHolds, PTL DEF Spec, IdentityStable

-----------------------------------------------------------------------------
(* CallPipeline implements CallLife while calls are renamed, if the root   *)
(* bears the id of the call: by the time somebody may analyse a call, and  *)
(* ask the judge about it by its id, it has the id that it keeps.          *)

RootNamesCall ==
  \A r \in RootRecord, s \in Record :
    TraceOf[r] = TraceOf[s] /\ HintOf[s] # None => HintOf[r] # None

\* A call whose spans are complete bears the id its producer chose, if it chose one.
Settled(row) ==
  row.complete => \A s \in Record :
                    TraceOf[s] = row.trace /\ HintOf[s] # None => row.ext = HintOf[s]

RowsSettled == \A k \in CallPk : Born(calls, k) => Settled(calls[k])

\* What a consumer goes by without reading it again: the id on the batch, the calls it
\* selected for its sweep, and those it will ask the judge about.
Pursues(t, w, r) ==
  /\ w.pc \in {"upsert", "store"} /\ HintOf[r] # None => w.cid = HintOf[r]
  /\ w.pc = "flush" => \A d \in w.due :
       Born(t, d[1]) /\ t[d[1]].ext = d[2] /\ t[d[1]].complete
  /\ w.pc \in {"enqueue", "flushEnqueue"} => \A i \in w.judge :
       \E k \in CallPk : Born(t, k) /\ t[k].ext = i /\ t[k].complete /\ t[k].covers # {}

ConsumersPursue == \A c \in Consumer : Pursues(calls, worker[c], Rec(c))

LifeInv == PromotionInv /\ GatesFounded /\ ReadsFounded /\ RowsSettled /\ ConsumersPursue

\* What no step takes back from a row, or from one whose spans are complete.
Lasts ==
  \A k \in CallPk : Born(calls, k) =>
    /\ Born(calls', k)
    /\ calls[k].complete => calls'[k].complete /\ calls'[k].ext = calls[k].ext
    /\ calls[k].covers # {} => calls'[k].covers # {}

\* A row that is settled keeps its id, whatever a batch of its trace resolves to.
LEMMA SettledStays ==
  ASSUME OneTraceOneCall, NEW r \in Record, NEW row \in Row, Settled(row), row.complete,
         row.trace = TraceOf[r], NEW i, IdOf(TraceOf[r], i), row.ext \in {TraceOf[r], i}
  PROVE  row.ext = i
<1>1. CASE i = TraceOf[r]
  BY <1>1
<1>2. ASSUME NEW s \in Record, TraceOf[s] = TraceOf[r], HintOf[s] = i, i # None
      PROVE  row.ext = i
  BY <1>2 DEF Settled
<1> QED  BY <1>1, <1>2 DEF IdOf

\* A store leaves the gates founded, the rows settled, and asks about a row that will
\* keep its id.
LEMMA StoreLasts ==
  ASSUME LifeInv, OneTraceOneCall, RootNamesCall, NEW c \in Consumer, Store(c)
  PROVE  GatesFounded' /\ RowsSettled' /\ Lasts /\ Pursues(calls', worker'[c], Rec(c)')
<1> DEFINE w == worker[c]
           r == Rec(c)
           x == TraceOf[r]
<1>1. /\ TypeOK /\ calls \in [CallPk -> Row] /\ worker \in [Consumer -> WorkerState]
      /\ w.pc = "store" /\ w.pc \in Busy
  <2>1. TypeOK
    BY DEF LifeInv, PromotionInv
  <2>2. calls \in [CallPk -> Row] /\ worker \in [Consumer -> WorkerState]
    BY <2>1 DEF TypeOK, DBTypeOK, WorkerTypeOK
  <2>3. w.pc = "store"
    BY DEF Store
  <2>4. w.pc \in Busy
    BY <2>3 DEF Busy
  <2> QED  BY <2>1, <2>2, <2>3, <2>4
<1>2. r \in Record
  BY <1>1, RecType DEF TypeOK
<1>3. PICK k \in CallPk, new \in Row : Promotes(c, k, new)
  BY StorePromotes DEF LifeInv
<1>4. Collects(k, w.cid, r, new) /\ Proceeds(c, k, new) /\ new.trace = x
      /\ (calls[k].life = "live" => calls[k].trace = x)
  BY <1>3 DEF Promotes
<1>5. /\ calls' = [calls EXCEPT ![k] = new] /\ new.life = "live" /\ new.ext = w.cid
      /\ (new.complete <=> calls[k].complete \/ r \in RootRecord)
      /\ calls[k].life = "live" \/ calls[k] = Unborn
  BY <1>4 DEF Collects
<1>6. calls'[k] = new /\ \A j \in CallPk : j # k => calls'[j] = calls[j]
  BY <1>1, <1>5
<1>7. /\ GatesFounded' /\ (new.complete => Held(frags', k) \cap RootRecord # {})
      /\ (calls[k].covers # {} => new.covers # {})
  BY <1>1, <1>2, <1>4, CollectsFounds DEF LifeInv
<1>8. IdOf(x, w.cid) /\ (HintOf[r] # None => w.cid = HintOf[r])
      /\ \A j \in ByTrace(calls, x) : calls[j].ext \in {x, w.cid}
  BY <1>1 DEF LifeInv, PromotionInv, ConsumersKnow, Knows, ConsumersPursue, Pursues
<1>9. calls[k].life = "live" /\ calls[k].complete => calls[k].ext = w.cid
  <2> SUFFICES ASSUME calls[k].life = "live", calls[k].complete PROVE calls[k].ext = w.cid
    OBVIOUS
  <2>1. k \in ByTrace(calls, x) /\ calls[k].trace = x /\ Settled(calls[k]) /\ calls[k] \in Row
    BY <1>1, <1>4 DEF ByTrace, Live, LifeInv, RowsSettled, Born
  <2>2. calls[k].ext \in {x, w.cid}
    BY <1>8, <2>1
  <2> QED  BY <1>2, <1>8, <2>1, <2>2, SettledStays
<1>10. Settled(new)
  <2> SUFFICES ASSUME new.complete, NEW s \in Record, TraceOf[s] = x, HintOf[s] # None
               PROVE  w.cid = HintOf[s]
    BY <1>4, <1>5 DEF Settled
  <2>1. CASE r \in RootRecord
    <3>1. HintOf[r] # None
      BY <2>1 DEF RootNamesCall
    <3> QED  BY <1>2, <1>8, <3>1 DEF OneTraceOneCall
  <2>2. CASE calls[k].complete
    <3>1. calls[k].life = "live" /\ calls[k].trace = x
      BY <1>4, <1>5, <2>2 DEF Unborn
    <3>2. Settled(calls[k])
      BY <3>1 DEF LifeInv, RowsSettled, Born
    <3> QED  BY <1>9, <2>2, <3>1, <3>2 DEF Settled
  <2> QED  BY <1>5, <2>1, <2>2
<1>11. RowsSettled'
  BY <1>6, <1>10 DEF LifeInv, RowsSettled, Born
<1>12. Lasts
  <2>1. Born(calls', k) /\ (calls[k].complete => calls[k].life = "live")
    BY <1>5, <1>6 DEF Born, Unborn
  <2>2. \A j \in CallPk : j # k /\ Born(calls, j) => Born(calls', j)
    BY <1>6 DEF Born
  <2> QED  BY <1>5, <1>6, <1>7, <1>9, <2>1, <2>2 DEF Lasts
<1>13. Pursues(calls', worker'[c], Rec(c)')
  <2>1. CASE worker' = [worker EXCEPT ![c].pc = "commit"]
    <3>1. worker'[c].pc = "commit"
      BY <1>1, <2>1 DEF WorkerState
    <3> QED  BY <3>1 DEF Pursues
  <2>2. CASE /\ new.complete /\ new.covers = Held(frags', k)
             /\ worker' = [worker EXCEPT ![c].pc = "enqueue", ![c].judge = {w.cid}]
    <3>1. worker'[c].pc = "enqueue" /\ worker'[c].judge = {w.cid}
      BY <1>1, <2>2 DEF WorkerState
    <3>2. Born(calls', k) /\ calls'[k].ext = w.cid /\ calls'[k].complete /\ calls'[k].covers # {}
      BY <1>5, <1>6, <1>7, <2>2 DEF Born
    <3> QED  BY <3>1, <3>2 DEF Pursues
  <2> QED  BY <1>4, <2>1, <2>2 DEF Proceeds
<1> QED  BY <1>7, <1>11, <1>12, <1>13

\* What a consumer goes by survives what the others do.
LEMMA PursuesKept ==
  ASSUME NEW w \in WorkerState, NEW r, Pursues(calls, w, r), Lasts
  PROVE  Pursues(calls', w, r)
<1>1. w.due \in SUBSET (CallPk \X MaybeId)
  BY DEF WorkerState, MaybeId
<1>2. ASSUME w.pc = "flush", NEW d \in w.due
      PROVE  Born(calls', d[1]) /\ calls'[d[1]].ext = d[2] /\ calls'[d[1]].complete
  BY <1>1, <1>2 DEF Pursues, Lasts
<1>3. ASSUME w.pc \in {"enqueue", "flushEnqueue"}, NEW i \in w.judge
      PROVE  \E k \in CallPk : Born(calls', k) /\ calls'[k].ext = i /\ calls'[k].complete
                               /\ calls'[k].covers # {}
  <2>1. PICK k \in CallPk : Born(calls, k) /\ calls[k].ext = i /\ calls[k].complete
                            /\ calls[k].covers # {}
    BY <1>3 DEF Pursues
  <2> QED  BY <2>1 DEF Lasts
<1>4. w.pc \in {"upsert", "store"} /\ HintOf[r] # None => w.cid = HintOf[r]
  BY DEF Pursues
<1> QED  BY <1>2, <1>3, <1>4 DEF Pursues

\* A consumer that begins, ends or gives up a record pursues nothing.
LEMMA PursuesNothing ==
  ASSUME NEW t, NEW w, NEW r,
         w.pc \notin {"upsert", "store", "flush", "enqueue", "flushEnqueue"}
  PROVE  Pursues(t, w, r)
BY DEF Pursues

\* A step of consumer c that touches no table: what c goes by after it.
LEMMA StepPursues ==
  ASSUME LifeInv, NEW c \in Consumer, UNCHANGED calls,
         \/ Poll(c) \/ Identify(c) \/ Upsert(c) \/ AttemptFails(c) \/ EnqueueJudge(c)
         \/ EnqueueFails(c) \/ ToDlq(c) \/ CommitOffset(c) \/ CommitRefused(c) \/ Crash(c)
         \/ (\E Q \in Quiet : FlushSelect(c, Q)) \/ FlushRead(c) \/ FlushAborts(c)
  PROVE  Pursues(calls', worker'[c], Rec(c)')
<1> DEFINE w == worker[c]
           r == Rec(c)
<1>1. /\ w \in WorkerState /\ worker \in [Consumer -> WorkerState] /\ Idle \in WorkerState
      /\ TypeOK /\ WorkerTypeOK
  BY IdleType DEF LifeInv, PromotionInv, TypeOK, WorkerTypeOK
<1>2. ASSUME Rest(c) PROVE Pursues(calls', worker'[c], Rec(c)')
  <2>1. worker'[c].pc = "poll"
    BY <1>1, <1>2 DEF Idle, Rest
  <2> QED  BY <2>1, PursuesNothing
<1>3. ASSUME worker'[c].pc \in {"identify", "dlq", "commit"}
      PROVE  Pursues(calls', worker'[c], Rec(c)')
  BY <1>3, PursuesNothing
<1>4. CASE Poll(c)
  <2>1. PICK p \in Partition :
          worker' = [worker EXCEPT ![c] = [Idle EXCEPT !.pc = "identify", !.part = p,
                                                       !.off = position[p] + 1]]
    BY <1>4 DEF Poll
  <2>2. worker'[c].pc = "identify"
    BY <1>1, <2>1 DEF Idle
  <2> QED  BY <1>3, <2>2
<1>5. CASE Identify(c)
  <2>1. PICK i \in Identified(r) :
          \/ Step(c, "commit")
          \/ worker' = [worker EXCEPT ![c].pc = IF i = None THEN "store" ELSE "upsert",
                          ![c].cid = i, ![c].found = None, ![c].seen = Unborn]
    BY <1>5 DEF Identify
  <2>2. CASE Step(c, "commit")
    <3>1. worker'[c].pc = "commit"
      BY <1>1, <2>2 DEF Step, WorkerState
    <3> QED  BY <1>3, <3>1
  <2>3. CASE worker' = [worker EXCEPT ![c].pc = IF i = None THEN "store" ELSE "upsert",
                          ![c].cid = i, ![c].found = None, ![c].seen = Unborn]
    <3>1. worker'[c].pc \in {"upsert", "store"} /\ worker'[c].cid = i
      BY <1>1, <2>3 DEF WorkerState
    <3>2. Rec(c)' = r
      <4>1. Same(c)
        BY <1>1, <1>5, SameRecord
      <4> QED  BY <3>1, <4>1 DEF Same, Rec, Busy
    <3>3. HintOf[r] # None => i = HintOf[r]
      BY DEF Identified
    <3> QED  BY <3>1, <3>2, <3>3 DEF Pursues
  <2> QED  BY <2>1, <2>2, <2>3
<1>6. CASE Upsert(c)
  <2>1. PICK k \in Found(w.cid, r) :
          worker' = [worker EXCEPT ![c].pc = "store", ![c].found = k,
                                   ![c].seen = IF k = None THEN Unborn ELSE calls[k]]
    BY <1>6 DEF Upsert
  <2>2. worker'[c].pc = "store" /\ worker'[c].cid = w.cid
    BY <1>1, <2>1 DEF WorkerState
  <2>3. Rec(c)' = r
    <3>1. Same(c)
      BY <1>1, <1>6, SameRecord
    <3> QED  BY <2>2, <3>1 DEF Same, Rec, Busy
  <2>4. HintOf[r] # None => w.cid = HintOf[r]
    BY <1>6 DEF Upsert, LifeInv, ConsumersPursue, Pursues
  <2> QED  BY <2>2, <2>3, <2>4 DEF Pursues
<1>7. CASE AttemptFails(c) \/ (EnqueueFails(c) /\ w.pc = "enqueue")
  <2>1. Retry(c) /\ w.pc \in Busy
    BY <1>7 DEF AttemptFails, EnqueueFails, Busy
  <2>2. worker'[c].pc \in {"identify", "dlq"}
    BY <1>1, <2>1, RetryType
  <2> QED  BY <1>3, <2>2
<1>8. CASE ToDlq(c) \/ (EnqueueJudge(c) /\ w.pc = "enqueue")
  <2>1. Step(c, "commit")
    BY <1>8 DEF ToDlq, EnqueueJudge
  <2>2. worker'[c].pc = "commit"
    BY <1>1, <2>1 DEF Step, WorkerState
  <2> QED  BY <1>3, <2>2
<1>9. CASE \/ CommitOffset(c) \/ CommitRefused(c) \/ Crash(c) \/ FlushAborts(c)
           \/ w.pc # "enqueue" /\ (EnqueueJudge(c) \/ EnqueueFails(c))
  <2>1. Rest(c)
    BY <1>9 DEF CommitOffset, CommitRefused, Crash, Restart, FlushAborts, EnqueueJudge, EnqueueFails
  <2> QED  BY <1>2, <2>1
<1>10. CASE \E Q \in Quiet : FlushSelect(c, Q)
  <2>1. PICK Q \in Quiet : \E S \in Selected(Q) :
          worker' = [worker EXCEPT ![c] = [Idle EXCEPT !.pc = "flush",
                       !.due = {<<k, calls[k].ext>> : k \in S}]]
    BY <1>10 DEF FlushSelect
  <2>2. PICK S \in Selected(Q) :
          worker' = [worker EXCEPT ![c] = [Idle EXCEPT !.pc = "flush",
                       !.due = {<<k, calls[k].ext>> : k \in S}]]
    BY <2>1
  <2>3. worker'[c].pc = "flush" /\ worker'[c].due = {<<k, calls[k].ext>> : k \in S}
    BY <1>1, <2>2 DEF Idle
  <2>4. \A k \in S : Born(calls', k) /\ calls'[k].ext = calls[k].ext /\ calls'[k].complete
    BY DEF Selected, Due, Live, Born
  <2> QED  BY <2>3, <2>4 DEF Pursues
<1>11. CASE FlushRead(c)
  <2>1. w.pc = "flush" /\ worker'[c].pc = "flush" /\ worker'[c].due = w.due
    BY <1>1, <1>11, ReadMoves
  <2>2. Pursues(calls, w, r)
    BY DEF LifeInv, ConsumersPursue
  <2> QED  BY <2>1, <2>2 DEF Pursues
<1> QED  BY <1>4, <1>5, <1>6, <1>7, <1>8, <1>9, <1>10, <1>11

\* A sweep that commits has taken live calls whose spans are complete.
LEMMA SweepsComplete ==
  ASSUME ConsumersPursue, NEW c \in Consumer, FlushCommit(c)
  PROVE  \A k \in DuePks(c) : calls[k].life = "live" /\ calls[k].complete
<1>1. worker[c].pc = "flush" /\ \A k \in DuePks(c) : k \in Live(calls)
  BY DEF FlushCommit
<1>2. \A d \in worker[c].due : calls[d[1]].complete
  BY <1>1 DEF ConsumersPursue, Pursues
<1> QED  BY <1>1, <1>2 DEF DuePks, Live

\* Sweeps, recordings and erasures leave the gates founded and the rows settled.
LEMMA OthersLast ==
  ASSUME LifeInv,
         \/ \E c \in Consumer : FlushCommit(c)
         \/ \E a \in Artifact : RegisterCommit(a)
         \/ \E i \in Erasable : EraseCommit(i)
  PROVE  Lasts /\ GatesFounded' /\ RowsSettled'
<1>1. TypeOK /\ GatesFounded /\ ReadsFounded /\ ConsumersPursue /\ Fades
  BY OthersFade DEF LifeInv, PromotionInv
<1>2. calls \in [CallPk -> Row]
  BY <1>1 DEF TypeOK, DBTypeOK
<1>3. RowsSettled'
  BY <1>1 DEF LifeInv, RowsSettled, Settled, Fades
<1>4. ASSUME \A k \in CallPk : calls[k].covers # {} => calls'[k].covers # {} PROVE Lasts
  BY <1>1, <1>4 DEF Lasts, Fades
<1>5. ASSUME NEW c \in Consumer, FlushCommit(c) PROVE Lasts /\ GatesFounded'
  <2>1. GatesFounded' /\ \A k \in DuePks(c) : Held(worker[c].got, k) # {}
    BY <1>1, <1>5, SweepsComplete, SweepFounds
  <2>2. \A k \in CallPk : calls[k].covers # {} => calls'[k].covers # {}
    BY <1>2, <1>5, <2>1, SweptRow
  <2> QED  BY <1>4, <2>1, <2>2
<1>6. ASSUME NEW a \in Artifact, RegisterCommit(a) PROVE Lasts /\ GatesFounded'
  <2>1. \A k \in CallPk : calls'[k].covers = calls[k].covers
    BY <1>1, <1>2, <1>6, RegisteredRow DEF Live
  <2> QED  BY <1>1, <1>4, <1>6, <2>1, RegisterFounds
<1>7. ASSUME NEW i \in Erasable, EraseCommit(i) PROVE Lasts /\ GatesFounded'
  <2>1. \A k \in CallPk : calls'[k].covers = calls[k].covers
    <3>1. calls' = [calls EXCEPT ![erasing[i]].life = "erased"]
      BY <1>7 DEF EraseCommit
    <3> QED  BY <1>2, <3>1 DEF Row
  <2> QED  BY <1>1, <1>4, <1>7, <2>1, EraseFounds
<1> QED  BY <1>3, <1>5, <1>6, <1>7

\* What a sweep asks the judge about, it has just analysed.
LEMMA SweepPursues ==
  ASSUME LifeInv, NEW c \in Consumer, FlushCommit(c)
  PROVE  Pursues(calls', worker'[c], Rec(c)')
<1>1. /\ TypeOK /\ GatesFounded /\ ReadsFounded /\ ConsumersPursue
      /\ calls \in [CallPk -> Row] /\ worker \in [Consumer -> WorkerState]
  BY DEF LifeInv, PromotionInv, TypeOK, DBTypeOK, WorkerTypeOK
<1>2. worker'[c].pc = "flushEnqueue" /\ worker'[c].judge = Judged(c)
  BY <1>1 DEF FlushCommit, WorkerState
<1>3. ASSUME NEW i \in Judged(c)
      PROVE  \E k \in CallPk : Born(calls', k) /\ calls'[k].ext = i /\ calls'[k].complete
                               /\ calls'[k].covers # {}
  <2>1. PICK d \in worker[c].due : i = d[2] /\ ~ProcessUnsupported(worker[c].got, d[1])
    BY DEF Judged
  <2>2. d[1] \in DuePks(c) /\ d[1] \in CallPk
    BY DEF DuePks, FlushCommit, Live
  <2>3. calls[d[1]].ext = i /\ calls[d[1]].complete /\ Born(calls, d[1])
    BY <1>1, <2>1 DEF FlushCommit, ConsumersPursue, Pursues
  <2>4. Held(worker[c].got, d[1]) # {}
    BY <1>1, <2>2, SweepsComplete, SweepFounds
  <2>5. /\ calls'[d[1]].life = calls[d[1]].life /\ calls'[d[1]].ext = i
        /\ calls'[d[1]].complete /\ calls'[d[1]].covers # {}
    BY <1>1, <2>1, <2>2, <2>3, <2>4, SweptRow
  <2> QED  BY <2>2, <2>3, <2>5 DEF Born
<1> QED  BY <1>2, <1>3 DEF Pursues

\* Every step keeps the invariant.
LEMMA NextLifeInv ==
  ASSUME OneTraceOneCall, CoPartitioned, RootNamesCall, LifeInv, [Next]_vars
  PROVE  LifeInv'
<1>1. PromotionInv /\ TypeOK /\ worker \in [Consumer -> WorkerState] /\ PromotionInv'
  BY NextPromotion DEF LifeInv, PromotionInv, TypeOK, WorkerTypeOK
<1>0. ReadsFounded'
  <2>1. \A c \in Consumer : worker[c].pc = "flush" =>
          \A d \in worker[c].due : calls[d[1]].complete
    BY DEF LifeInv, ConsumersPursue, Pursues
  <2> QED  BY <1>1, <2>1, ReadsKept DEF LifeInv
<1>2. ASSUME Lasts, NEW d \in Consumer, worker'[d] = worker[d]
      PROVE  Pursues(calls', worker'[d], Rec(d)')
  <2>1. Rec(d)' = Rec(d) /\ worker[d] \in WorkerState /\ Pursues(calls, worker[d], Rec(d))
    BY <1>1, <1>2 DEF Rec, LifeInv, ConsumersPursue
  <2> QED  BY <1>2, <2>1, PursuesKept
<1>3. ASSUME Lasts, GatesFounded', RowsSettled', UNCHANGED worker PROVE LifeInv'
  BY <1>0, <1>1, <1>2, <1>3 DEF LifeInv, ConsumersPursue
<1>4. ASSUME Lasts, GatesFounded', RowsSettled', NEW c \in Consumer,
             Pursues(calls', worker'[c], Rec(c)'),
             \A d \in Consumer : d # c => worker'[d] = worker[d]
      PROVE  LifeInv'
  BY <1>0, <1>1, <1>2, <1>4 DEF LifeInv, ConsumersPursue
<1>5. ASSUME UNCHANGED <<calls, frags>> PROVE Lasts /\ GatesFounded' /\ RowsSettled'
  <2>1. Lasts
    BY <1>5 DEF Lasts, Born
  <2>2. GatesFounded'
    BY <1>5 DEF LifeInv, GatesFounded, Live, Held, ProcessUnsupported
  <2>3. RowsSettled'
    BY <1>5 DEF LifeInv, RowsSettled, Settled, Born
  <2> QED  BY <2>1, <2>2, <2>3
<1>6. ASSUME NEW c \in Consumer, Store(c) \/ FlushCommit(c) PROVE LifeInv'
  <2>1. \A d \in Consumer : d # c => worker'[d] = worker[d]
    BY <1>1, <1>6, SameRecord DEF Consume, Flush, TypeOK
  <2>2. CASE Store(c)
    BY <1>4, <2>1, <2>2, StoreLasts
  <2>3. CASE FlushCommit(c)
    BY <1>4, <2>1, <2>3, OthersLast, SweepPursues
  <2> QED  BY <1>6, <2>2, <2>3
<1>7. ASSUME NEW c \in Consumer,
             \/ Poll(c) \/ Identify(c) \/ Upsert(c) \/ AttemptFails(c) \/ EnqueueJudge(c)
             \/ EnqueueFails(c) \/ ToDlq(c) \/ CommitOffset(c) \/ CommitRefused(c) \/ Crash(c)
             \/ (\E Q \in Quiet : FlushSelect(c, Q)) \/ FlushRead(c) \/ FlushAborts(c)
      PROVE  LifeInv'
  <2>1. UNCHANGED <<calls, frags>>
    BY <1>7 DEF Poll, Identify, Upsert, AttemptFails, EnqueueJudge, EnqueueFails, ToDlq,
         CommitOffset, CommitRefused, Crash, Restart, FlushSelect, FlushRead, FlushAborts, dbVars
  <2>2. Pursues(calls', worker'[c], Rec(c)')
    BY <1>7, <2>1, StepPursues
  <2>3. ASSUME NEW d \in Consumer, d # c PROVE worker'[d] = worker[d]
    <3>1. CASE Poll(c) \/ CommitOffset(c) \/ CommitRefused(c) \/ Crash(c)
      BY <1>1, <2>3, <3>1 DEF Poll, CommitOffset, CommitRefused, Crash, Restart, Rest
    <3> QED  BY <1>1, <1>7, <2>3, <3>1, SameRecord DEF Flush, TypeOK
  <2> QED  BY <1>4, <1>5, <2>1, <2>2, <2>3
<1>8. ASSUME UNCHANGED <<calls, frags, worker>> PROVE LifeInv'
  BY <1>3, <1>5, <1>8
<1>9. ASSUME \/ \E a \in Artifact : RegisterCommit(a)
             \/ \E i \in Erasable : EraseCommit(i)
      PROVE  LifeInv'
  <2>1. UNCHANGED worker
    BY <1>9 DEF RegisterCommit, EraseCommit
  <2> QED  BY <1>3, <1>9, <2>1, OthersLast
<1>10. ASSUME NEW c \in Consumer, StoreUnattributed(c) PROVE FALSE
  BY <1>1, <1>10, AlwaysIdentified
<1>11. CASE Api
  BY <1>8, <1>9, <1>11
     DEF Api, RegisterLoad, ReconcileLoad, Load, EraseLoad, EraseFails, dbVars
<1>12. CASE \E c \in Consumer, p \in Partition : Rebalance(p, c)
  BY <1>8, <1>12 DEF Rebalance, dbVars
<1>13. CASE UNCHANGED vars
  BY <1>8, <1>13 DEF vars, dbVars
<1> QED  BY <1>6, <1>7, <1>10, <1>11, <1>12, <1>13 DEF Next, Consume, Flush

\* It holds at the start: there is no row, and nobody goes by one.
LEMMA InitLifeInv == Init => LifeInv
<1> SUFFICES ASSUME Init PROVE LifeInv
  OBVIOUS
<1>1. PromotionInv
  BY InitPromotion
<1>2. calls = [k \in CallPk |-> Unborn] /\ Unborn.life = "unborn"
  BY DEF Init, DBInit, Unborn
<1>3. GatesFounded /\ RowsSettled
  BY <1>2 DEF GatesFounded, Live, RowsSettled, Born
<1>4. \A c \in Consumer : worker[c].pc = "poll"
  BY DEF Init, Idle
<1> QED  BY <1>1, <1>3, <1>4, InitReads DEF LifeInv, ConsumersPursue, Pursues

\* So it holds always.
LEMMA LifeInvHolds ==
  ASSUME OneTraceOneCall, CoPartitioned, RootNamesCall
  PROVE  Spec => []LifeInv
<1>1. LifeInv /\ [Next]_vars => LifeInv'
  BY NextLifeInv
<1> QED  BY <1>1, InitLifeInv, PTL DEF Spec

\* The batch of a store is in no buffer but that of the call of its trace.
LEMMA StorePromotedIsCollect ==
  ASSUME OneTraceOneCall, LifeInv, LifeInv', NEW c \in Consumer, Store(c)
  PROVE  Life!Next
<1> DEFINE w == worker[c]
           r == Rec(c)
<1>1. PromotionInv /\ TypeOK /\ GatesFounded /\ GatesFounded'
  BY DEF LifeInv, PromotionInv
<1>2. r \in Record /\ w.cid \in CallId
  <2>1. w.pc \in Busy /\ w.cid # None /\ WorkerTypeOK
    BY <1>1 DEF Store, Busy, TypeOK
  <2>2. w.cid \in CallId \cup {None}
    BY <2>1 DEF WorkerTypeOK, WorkerState
  <2> QED  BY <2>1, <2>2, RecType
<1>3. PICK k \in CallPk, new \in Row : Promotes(c, k, new)
  BY <1>1, StorePromotes
<1>4. /\ Collects(k, w.cid, r, new)
      /\ \A j \in Live(calls) : j # k => calls[j].trace # TraceOf[r]
  BY <1>3 DEF Promotes
<1>5. \A j \in MaybePk : frags[j][r] \in Nat
  BY <1>1, <1>2 DEF TypeOK, DBTypeOK, MaybePk
<1>6. \A j \in MaybePk : frags[j][r] > 0 =>
        j \in Live(calls) /\ calls[j].trace = TraceOf[r] /\ frags[j][r] = 1
  BY <1>1, <1>2 DEF PromotionInv, BufferTraced
<1>7. frags[k][r] <= 1 /\ \A j \in MaybePk : j # k => frags[j][r] = 0
  <2>1. k \in MaybePk
    BY DEF MaybePk
  <2> QED  BY <1>4, <1>5, <1>6, <2>1
<1>8. UNCHANGED judgeQueue
  BY DEF Store
<1> QED  BY <1>1, <1>2, <1>4, <1>7, <1>8, CollectsIsCollect

\* CallPipeline implements CallLife where calls are renamed on the way too: a call that
\* may be analysed bears the id it keeps, so whoever sweeps it asks the judge about an id
\* that an analysed call bears.
THEOREM LifePromoted ==
  ASSUME OneTraceOneCall, CoPartitioned, RootNamesCall
  PROVE  Spec => ImplementsCallLife
<1>1. LifeInv /\ LifeInv' /\ [Next]_vars => [Life!Next]_(Life!vars)
  <2> SUFFICES ASSUME LifeInv, LifeInv', [Next]_vars PROVE Life!Next \/ UNCHANGED Life!vars
    OBVIOUS
  <2>1. TypeOK /\ GatesFounded /\ ReadsFounded /\ PromotionInv /\ ConsumersPursue
    BY DEF LifeInv, PromotionInv
  <2>2. ASSUME NEW c \in Consumer, EnqueueJudge(c), NEW i \in worker[c].judge
        PROVE  i \in CallId /\ \E k \in CallPk : calls[k].ext = i /\ calls[k].covers # {}
    <3>1. PICK k \in CallPk : Born(calls, k) /\ calls[k].ext = i /\ calls[k].covers # {}
      BY <2>1, <2>2 DEF EnqueueJudge, ConsumersPursue, Pursues
    <3>2. PICK r \in Record : IdOf(TraceOf[r], i)
      BY <2>1, <3>1 DEF PromotionInv, RowsTraced
    <3>3. i \in CallId
      BY <3>2, RecordAssumption DEF IdOf, OneTraceOneCall
    <3> QED  BY <3>1, <3>3
  <2>3. ASSUME NEW c \in Consumer, Store(c) PROVE Life!Next
    BY <2>3, StorePromotedIsCollect
  <2>4. \A c \in Consumer : ~StoreUnattributed(c)
    BY <2>1, AlwaysIdentified
  <2>5. ASSUME NEW c \in Consumer, FlushCommit(c)
        PROVE  \A k \in DuePks(c) : calls[k].life = "live" /\ calls[k].complete
    BY <2>1, <2>5, SweepsComplete
  <2> QED  BY <2>1, <2>2, <2>3, <2>4, <2>5, NextLife
<1> QED  BY <1>1, InitLife, LifeInvHolds, PTL DEF Spec, ImplementsCallLife, Life!Spec
=============================================================================
