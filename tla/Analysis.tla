------------------------------ MODULE Analysis ------------------------------
(***************************************************************************)
(* One call in the database as its analysis sees it: the stored fragments, *)
(* the settings it reads, and the rows it writes (worker/process.py        *)
(* process, process_trace, assemble, _persist, _reconcile).  A fragment    *)
(* carries a function from its spans to the version of its copy of each: a *)
(* producer sends a span again as it learns more of it; the second copy    *)
(* has an end, and names another model.  Its seq is the place of the       *)
(* call's shard in the request it came with, whatever came before          *)
(* (ingestion.produce, shard.go).  One analysis of the call runs at a time *)
(* and reads its fragments in one query, so it is one step; what arrives   *)
(* while it runs is for the next.                                          *)
(***************************************************************************)
EXTENDS Integers, Sequences, NoValue

CONSTANTS
  Span,            \* span ids
  StageOf,         \* stage of each span
  Eventful,          \* those with the events a turn is derived from
  Root,            \* the one without parent
  MaxFragments,    \* fragments of the call (bound)
  MaxShards,       \* calls in one request (bound)
  MaxRuns          \* analyses of the call (bound)

ASSUME AnalysisAssumption ==
  Root \in Span /\ None \notin {1, 2} /\ None \notin {"cascade", "s2s"}

VARIABLES
  fragments,       \* the call's raw_fragment rows, in order of arrival
  audioEnabled,    \* what _audio_enabled reads
  recording,       \* the audio registered: "none", "partial" or "full" coverage
  rows,            \* what analyses wrote: [kind, key, version, run]
  summary,         \* the columns of the call row an analysis fills in
  report,          \* the reasons in the ingest_run row of the last one
  runs,            \* analyses so far
  analysed         \* history: fragments the last one read, and whether it had audio

analysisVars == <<fragments, audioEnabled, recording, rows, summary, report, runs, analysed>>

Version == {1, 2}
Copies == UNION {[S -> Version] : S \in SUBSET Span}
Fragment == [spans : Copies, seq : 0 .. MaxShards - 1]

\* The agent's setting wins, then the organisation's, then the environment's.
AudioEnabled(agent, org, env) ==
  IF agent # "unset" THEN agent = "on" ELSE IF org # "unset" THEN org = "on" ELSE env

AnalysisInit ==
  /\ fragments = <<>> /\ rows = {} /\ runs = 0 /\ recording = "none" /\ report = {}
  /\ summary = [engine |-> None, llm |-> None, ended |-> None, duration |-> None]
  /\ \E agent, org \in {"on", "off", "unset"}, env \in BOOLEAN :
       audioEnabled = AudioEnabled(agent, org, env)
  /\ analysed = [fragments |-> 0, heard |-> FALSE]

\* The spans of both, in f's copy where both have one.
Over(f, g) ==
  [s \in DOMAIN f \cup DOMAIN g |-> IF s \in DOMAIN f THEN f[s] ELSE g[s]]

\* process: the copies in the order of seq; the database orders those of one number.
Payloads ==
  {[n \in DOMAIN fragments |-> fragments[order[n]].spans] :
     order \in {o \in [DOMAIN fragments -> DOMAIN fragments] :
                  \A i, j \in DOMAIN fragments :
                    i < j => o[i] # o[j] /\ fragments[o[i]].seq <= fragments[o[j]].seq}}

\* assemble: deduplicated by span id, the last copy in that order wins.
Assemble(payloads) ==
  LET spans[n \in 0 .. Len(payloads)] ==
        IF n = 0 THEN <<>> ELSE Over(payloads[n], spans[n - 1])
  IN  spans[Len(payloads)]

\* to_trace: a payload without a root is not supported.
Supported(spans) == Root \in DOMAIN spans

\* _persist deletes these before it writes.
\* Mutant: the timeline is left alone.
RewrittenButEvents == {"turn", "metric", "utterance", "peaks"}
Rewritten == RewrittenButEvents \cup {"event", "moment"}

OfStage(spans, stage) == {s \in DOMAIN spans : StageOf[s] = stage}

\* analyze: one turn for each TURN span; without any, the events are asked.
TurnsDerived(spans) == OfStage(spans, "turn") = {} /\ Eventful \cap DOMAIN spans # {}
TurnKeys(spans) == IF TurnsDerived(spans) THEN {Root} ELSE OfStage(spans, "turn")

Row(kind, s, spans, n) == [kind |-> kind, key |-> s, version |-> spans[s], run |-> n]

AudioRows(spans, n) == {Row(kind, Root, spans, n) : kind \in {"utterance", "peaks"}}

\* analyze: metrics of the recording, and of the turns.
MetricRows(spans, heard, n) ==
  IF heard \/ TurnKeys(spans) # {} THEN {Row("metric", Root, spans, n)} ELSE {}

\* _event_rows: one row for each span, and one for each event of a span, a moment of
\* the timeline; the content of the events is of the spans that turns are derived from.
EventRows(spans, n) ==
  {Row("event", s, spans, n) : s \in DOMAIN spans}
    \cup {Row("moment", s, spans, n) : s \in Eventful \cap DOMAIN spans}

RowsOf(spans, heard, n) ==
  EventRows(spans, n)
    \cup {Row("turn", s, spans, n) : s \in TurnKeys(spans)}
    \cup MetricRows(spans, heard, n)
    \cup (IF heard THEN AudioRows(spans, n) ELSE {})

\* _rollup: distinct spans for speech and text make a cascade.
Engine(spans) ==
  IF OfStage(spans, "llm") = {} THEN None
  ELSE IF OfStage(spans, "stt") \cup OfStage(spans, "tts") # {} THEN "cascade" ELSE "s2s"

\* The model the LLM span names: what the row says stays if there is none.
Model(spans, old) ==
  LET named == {spans[s] : s \in OfStage(spans, "llm")}
  IN  IF named = {} THEN old ELSE CHOOSE v \in named : TRUE

\* header of the generic adapter: the times of the root, and no engine and no model.
Header(spans) ==
  [engine |-> None, llm |-> None, ended |-> IF spans[Root] = 2 THEN 2 ELSE None]

\* _apply_header first: what the header does not say it takes off the row, but for the
\* duration.
HeaderOf(spans, old) ==
  LET h == Header(spans)
  IN  [engine |-> h.engine, llm |-> h.llm, ended |-> h.ended,
       duration |-> IF h.ended = None THEN old.duration ELSE h.ended]

SummaryOf(spans, old) ==
  LET header == HeaderOf(spans, old)
  IN  [header EXCEPT !.llm = Model(spans, @), !.engine = IF @ = None THEN Engine(spans) ELSE @]

\* _trust_report: why the analysis of this trace is less than it could be.  A trace the
\* generic adapter made has a root and clocks, and counts no dropped events.
Reasons(spans, heard) ==
  (IF TurnsDerived(spans) THEN {"turns_derived"} ELSE {})
    \cup (IF heard THEN {} ELSE IF audioEnabled THEN {"audio_missing"} ELSE {"audio_disabled"})
    \cup (IF heard /\ recording = "partial" THEN {"audio_partial"} ELSE {})

\* _reconcile, with the overlay on: rewritten, unless an exception ends it.
Reconciled(old, spans, n) ==
  {r \in old : r.kind # "discrepancy"}
    \cup {[kind |-> "discrepancy", key |-> Root, version |-> spans[Root], run |-> n]}

StoreFragment(f) ==
  /\ Len(fragments) < MaxFragments
  /\ fragments' = Append(fragments, f)
  /\ UNCHANGED <<audioEnabled, recording, rows, summary, report, runs, analysed>>

RegisterRecording ==
  /\ recording = "none" /\ recording' \in {"partial", "full"}
  /\ UNCHANGED <<fragments, audioEnabled, rows, summary, report, runs, analysed>>

SwitchAudio ==
  /\ audioEnabled' = ~audioEnabled
  /\ UNCHANGED <<fragments, recording, rows, summary, report, runs, analysed>>

ProcessCall == \E payloads \in Payloads :
  LET spans == Assemble(payloads)
      heard == audioEnabled /\ recording # "none"
      written == {r \in rows : r.kind \notin Rewritten} \cup RowsOf(spans, heard, runs + 1)
  IN  /\ runs < MaxRuns
      /\ Supported(spans)
      /\ runs' = runs + 1
      /\ \/ audioEnabled /\ rows' = Reconciled(written, spans, runs + 1)
         \/ rows' = written          \* the overlay is off, or reconcile raised
      /\ summary' = SummaryOf(spans, summary)
      /\ report' = Reasons(spans, heard)
      /\ analysed' = [fragments |-> Len(fragments), heard |-> heard]
      /\ UNCHANGED <<fragments, audioEnabled, recording>>

AnalysisNext ==
  (\E f \in Fragment : StoreFragment(f)) \/ RegisterRecording \/ SwitchAudio \/ ProcessCall

AnalysisSpec == AnalysisInit /\ [][AnalysisNext]_analysisVars

-----------------------------------------------------------------------------
\* The copies the last analysis read.
ReadByLast == 1 .. analysed.fragments
Has(n, s, v) == s \in DOMAIN fragments[n].spans /\ fragments[n].spans[s] = v

\* assemble, _persist: after any number of analyses the timeline shows every span the
\* last one read exactly once, in a copy no other copy follows by seq; all that is written
\* of a span, in rows and columns alike, is of that one copy; no fact has two rows; audio
\* rows are there exactly when that analysis heard the recording; the call row says what
\* a first analysis of the same spans would have said; and the report owns up to
\* everything a reader would miss: no audio rows, or turns no span stands for.
RowsAreOfLastAnalysis ==
  LET seen == UNION {DOMAIN fragments[n].spans : n \in ReadByLast}
      Of(kind) == {r \in rows : r.kind = kind}
      Newest(s, v) == \E n \in ReadByLast :
        Has(n, s, v) /\ \A m \in ReadByLast :
          s \in DOMAIN fragments[m].spans => fragments[m].seq <= fragments[n].seq
      Shown(s, v) == \E r \in Of("event") : r.key = s /\ r.version = v
      stages == {StageOf[s] : s \in seen}
  IN  /\ \A r, q \in rows : r.kind = q.kind /\ r.key = q.key => r = q
      /\ runs > 0 =>
           /\ {r.key : r \in Of("event")} = seen /\ {r.key : r \in Of("moment")} = seen \cap Eventful
           /\ \A r \in Of("event") : Newest(r.key, r.version)
           /\ \A r \in rows : r.kind # "discrepancy" => Shown(r.key, r.version)
           /\ (Of("utterance") # {}) = analysed.heard
           /\ summary.engine = "s2s" <=> "llm" \in stages /\ {"stt", "tts"} \cap stages = {}
           /\ summary.engine = None <=> "llm" \notin stages
           /\ summary.llm # None <=> \E s \in seen : StageOf[s] = "llm" /\ Shown(s, summary.llm)
           /\ summary.ended # None <=> Shown(Root, 2)
           /\ summary.ended # None => summary.duration = summary.ended
           /\ report \cap {"audio_missing", "audio_disabled"} # {} <=> Of("utterance") = {}
           /\ "turns_derived" \in report
                <=> \E r \in Of("turn") : StageOf[r.key] # "turn"

\* assemble says of the copies of a span: "Last write wins - a retry carries the more
\* complete span" (process.py:60).  The copy shown would be the one that arrived last.  It
\* is not: seq does not say when a copy was sent, and TLC finds this violated.  What holds
\* instead is in RowsAreOfLastAnalysis.
LastWriteWins ==
  runs > 0 => \A r \in rows : r.kind = "event" =>
    \E n \in ReadByLast : /\ Has(n, r.key, r.version)
                    /\ \A m \in ReadByLast : m > n => r.key \notin DOMAIN fragments[m].spans
=============================================================================
