------------------------------ MODULE Ingest ------------------------------
(***************************************************************************)
(* The OTLP receivers: the Go service (services/ingest) and its Python     *)
(* reference (api/ingest.py, ingestion.py).  A request is decoded, sharded *)
(* into one record per call, and the records are produced; the client      *)
(* sends again what was not acknowledged, as a new batch.  A span is its   *)
(* call id and trace id; an id that was base64 on the wire is hex after.   *)
(***************************************************************************)
EXTENDS Integers, Sequences, FiniteSets, NoValue

CONSTANTS CallId, TraceId, MaxSpans, MaxSends

Base64 == {<<"base64", t>> : t \in TraceId}

(* The hex form of a trace id is not the base64 form of another.            *)
ASSUME IngestAssumption == None \notin Nat /\ \A id \in TraceId \cup {None} : id \notin Base64

VARIABLES receiver, request, attempt, unsent, failed, topic, answer

ingestVars == <<receiver, request, attempt, unsent, failed, topic, answer>>

(* What is wrong with a body: it is too large, as it came or unpacked; its  *)
(* gzip is corrupt; or its message cannot be read (or was cut short).       *)
Encodings ==
  {e \in [gzip : BOOLEAN, protobuf : BOOLEAN, fault : {None, "size", "gzip", "message"}] :
     e.fault = "gzip" => e.gzip}

Bodies == [call : CallId \cup {None}, trace : TraceId \cup {None}]

IngestInit ==
  /\ receiver \in {"go", "python"}
  /\ request = [encoding |-> None, spans |-> <<>>]
  /\ attempt = 0 /\ unsent = {} /\ failed = {} /\ topic = {} /\ answer = None

-----------------------------------------------------------------------------
(* handleTraces: what is too large is refused as that, what cannot be       *)
(* decoded as unreadable.                                                   *)
DecodePayload(e) ==
  CASE e.fault = None -> None
    [] e.fault = "size" -> 413
    [] OTHER -> 400

(* otlp_payload catches what json.loads raises, and neither zlib's error    *)
(* nor the protobuf parser's: those are errors of the server.               *)
OtlpPayload(e) ==
  CASE e.fault = None -> None
    [] e.fault = "size" -> 413
    [] e.fault = "message" /\ ~e.protobuf -> 400
    [] OTHER -> 500

\* The ids of a protobuf message are made hex.
OnWire(e, id) == IF e.protobuf /\ id # None THEN <<"base64", id>> ELSE id
Hex(id) == IF id \in Base64 THEN id[2] ELSE id

Decoded(r) ==
  [i \in 1 .. Len(r.spans) |->
     [r.spans[i] EXCEPT !.trace = Hex(OnWire(r.encoding, @))]]

(* shard: the key of a span, the groups in the order they are first seen.   *)
SpanKey(span) == IF span.call # None THEN span.call ELSE span.trace

GroupOf(spans, key) == {i \in 1 .. Len(spans) : SpanKey(spans[i]) = key}

First(S) == CHOOSE i \in S : \A j \in S : i <= j

TracedGroup(spans, key) == {i \in GroupOf(spans, key) : spans[i].trace # None}

FirstTrace(spans, key) ==
  IF TracedGroup(spans, key) = {} THEN None ELSE spans[First(TracedGroup(spans, key))].trace

Seq0(spans, key) ==
  Cardinality({SpanKey(spans[i]) : i \in 1 .. First(GroupOf(spans, key)) - 1})

FirstNonEmpty(ids) == ids[First({i \in 1 .. Len(ids) : ids[i] # None})]

(* buildRecords: one record for each group, under one batch id.             *)
Records(spans, batch) ==
  {[batch |-> batch, seq |-> Seq0(spans, key), spans |-> GroupOf(spans, key),
    key |-> FirstNonEmpty(<<key, FirstTrace(spans, key), batch>>)] :
     key \in {SpanKey(spans[i]) : i \in 1 .. Len(spans)}}

-----------------------------------------------------------------------------
Export ==
  /\ attempt = 0 /\ Len(request.spans) < MaxSpans
  /\ \E body \in Bodies : request' = [request EXCEPT !.spans = Append(@, body)]
  /\ UNCHANGED <<receiver, attempt, unsent, failed, topic, answer>>

(* A batch is sent for the first time, or again as it was; what cannot be   *)
(* decoded is refused before anything is produced.                          *)
SendBatch(e, refusal) ==
  /\ attempt = 0 \/ (answer = 500 /\ e = request.encoding)
  /\ request.spans # <<>> /\ attempt < MaxSends /\ attempt' = attempt + 1
  /\ LET r == [request EXCEPT !.encoding = e] IN
     /\ request' = r /\ answer' = refusal
     /\ unsent' = IF refusal = None THEN Records(Decoded(r), attempt + 1) ELSE {}
  /\ failed' = {} /\ UNCHANGED <<receiver, topic>>

Receive(e) == receiver = "go" /\ SendBatch(e, DecodePayload(e))

IngestTraces(e) == receiver = "python" /\ SendBatch(e, OtlpPayload(e))

Produce(r) ==
  /\ topic' = topic \cup {r} /\ unsent' = unsent \ {r}
  /\ UNCHANGED <<receiver, request, attempt, failed, answer>>

(* The broker did not acknowledge the record, which it may have written.    *)
ProduceFails(r) ==
  /\ unsent' = unsent \ {r} /\ failed' = failed \cup {r}
  /\ topic' \in {topic, topic \cup {r}}
  /\ UNCHANGED <<receiver, request, attempt, answer>>

(* ProduceSync's FirstErr; the Python producer's flush reports no failure.  *)
SendErrOfFirst == receiver = "go" /\ \E r \in failed : r.seq = 0

SendErr == receiver = "go" /\ failed # {}

Answer ==
  /\ attempt > 0 /\ answer = None /\ unsent = {}
  /\ answer' = IF SendErr THEN 500 ELSE 200
  /\ UNCHANGED <<receiver, request, attempt, unsent, failed, topic>>

IngestNext ==
  \/ Export \/ Answer
  \/ \E e \in Encodings : Receive(e) \/ IngestTraces(e)
  \/ \E r \in unsent : Produce(r) \/ ProduceFails(r)

IngestSpec == IngestInit /\ [][IngestNext]_ingestVars

-----------------------------------------------------------------------------
(* The batch the Go service acknowledges is on the topic: each of its spans *)
(* in exactly one record, under the key that every batch of that call gets, *)
(* whichever way the trace id was encoded.                                  *)
AckedIsOnTopic ==
  answer = 200 /\ receiver = "go" =>
    \A i \in 1 .. Len(request.spans) :
      LET span == request.spans[i]
          holding == {r \in topic : r.batch = attempt /\ i \in r.spans}
      IN /\ Cardinality(holding) = 1
         /\ \A r \in holding :
              r.key = IF span.call # None THEN span.call
                      ELSE IF span.trace # None THEN span.trace ELSE attempt
=============================================================================
