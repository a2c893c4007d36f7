----------------------------- MODULE Waterfall -----------------------------
(***************************************************************************)
(* The waterfall of one turn (core/calculator.py build_turn and its anchor *)
(* hooks).  A turn holds its spans by stage, each [from, to] with None for *)
(* a time that is not known, in the order of the trace; the events and the *)
(* reported numbers the code reads, or None.  Times are on the clock of    *)
(* the recording already: _to_audio shifts every one of them by the same   *)
(* offset.  One unit of time is one unit of duration.                      *)
(***************************************************************************)
EXTENDS Intervals, NoValue

CONSTANTS
  Read,        \* of each stage the spans, of each report the values a trace may have
  MaxSpans     \* spans of a turn, those of speech apart (bound)

\* A span may come without a clock, or not be at its end.
StageSpan == [from : Int \cup {None}, to : Int \cup {None}, chars : BOOLEAN]
Stages == {"speech", "stt", "llm", "tts"}
Reports == {"firstToken", "firstAudio", "ttft", "ttfb", "endpointingDelay"}

ASSUME TurnAssumption ==
  /\ None \notin Int
  /\ \A f \in Stages : Read[f] \subseteq StageSpan
  /\ \A f \in Reports : Read[f] \subseteq Int

VARIABLE turnSpans

TurnInit ==
  turnSpans = [f \in Stages \cup Reports |-> IF f \in Stages THEN <<>> ELSE None]

ReadSpan(f) ==
  /\ IF f = "speech" THEN Len(turnSpans.speech) < MaxSpans
     ELSE Len(turnSpans.stt) + Len(turnSpans.llm) + Len(turnSpans.tts) < MaxSpans
  /\ \E s \in Read[f] : turnSpans' = [turnSpans EXCEPT ![f] = Append(@, s)]

ReadReport(f) ==
  turnSpans[f] = None /\ \E v \in Read[f] : turnSpans' = [turnSpans EXCEPT ![f] = v]

TurnNext == (\E f \in Stages : ReadSpan(f)) \/ (\E f \in Reports : ReadReport(f))

TurnSpec == TurnInit /\ [][TurnNext]_turnSpans

-----------------------------------------------------------------------------
\* The difference, when both are known and it is not negative.
Ms(a, b) == IF None \in {a, b} THEN None ELSE IF b >= a THEN b - a ELSE None

Default(a, b) == IF a # None THEN a ELSE b
Plus(a, b) == IF None \in {a, b} THEN None ELSE a + b

Known(spans, field) == {spans[n][field] : n \in DOMAIN spans} \ {None}
EarliestOf(S) == IF S = {} THEN None ELSE CHOOSE t \in S : \A u \in S : t <= u
LatestOf(S) == IF S = {} THEN None ELSE CHOOSE t \in S : \A u \in S : u <= t
FirstSpan(spans, field) == IF spans = <<>> THEN None ELSE spans[1][field]

EndOfSpeech(t) == LatestOf(Known(t.speech, "to"))
SttStart(t) == FirstSpan(t.stt, "from")
SttFinal(t) == FirstSpan(t.stt, "to")
TtsStart(t) == EarliestOf(Known(t.tts, "from"))

Endpointing(t) == Default(Ms(EndOfSpeech(t), SttStart(t)), t.endpointingDelay)

\* first_token: the event, or the start of the LLM plus what it reported.
FirstToken(t) == Default(t.firstToken, Plus(FirstSpan(t.llm, "from"), t.ttft))

\* tts_request_start: the earliest TTS span that carries the characters.
TtsRequestStart(t) ==
  EarliestOf({t.tts[n].from : n \in {m \in DOMAIN t.tts : t.tts[m].chars}} \ {None})

TtsTtfb(t) == Default(Ms(TtsStart(t), t.firstAudio), t.ttfb)

\* first_audio: the event; else the first TTS span plus its first byte.
FirstAudio(t) ==
  Default(t.firstAudio, Default(Plus(TtsStart(t), TtsTtfb(t)), TtsStart(t)))

CallerStop(t) == Default(EndOfSpeech(t), SttFinal(t))

\* _uncovered: what no span of the turn covers between the two.
Segments(t) ==
  LET spans == t.stt \o t.llm \o t.tts
  IN  {<<EndOfSpeech(t), SttStart(t)>>}
        \cup {<<spans[n].from, spans[n].to>> : n \in DOMAIN spans}

\* Mutant: "found by subtraction": durations are summed, overlap counted twice.
UncoveredBySubtraction(t) ==
  LET lo == CallerStop(t)
      hi == FirstAudio(t)
      known == {w \in Segments(t) : None \notin {w[1], w[2]}}
      sum == Total(Sorted({<<Greatest(lo, s[1]), Least(hi, s[2])>> :
                                 s \in {w \in known : Least(hi, w[2]) > Greatest(lo, w[1])}}))
  IN  IF None \in {lo, hi} THEN None
      ELSE IF hi <= lo THEN None
      ELSE Greatest(0, (hi - lo) - sum)

Uncovered(t) ==
  LET lo == CallerStop(t)
      hi == FirstAudio(t)
      clipped == {<<Greatest(lo, s[1]), Least(hi, s[2])>> :
                    s \in {w \in Segments(t) : None \notin {w[1], w[2]}}}
      covered == Total(Merge({s \in clipped : s[2] > s[1]}))
  IN  IF None \in {lo, hi} THEN None
      ELSE IF hi <= lo THEN None
      ELSE Greatest(0, (hi - lo) - covered)

BuildTurn(t) ==
  [responseLatency |-> Ms(CallerStop(t), FirstAudio(t)),
   sttLag          |-> Ms(SttStart(t), SttFinal(t)),
   endpointing     |-> Endpointing(t),
   llmTtft         |-> Default(Ms(FirstSpan(t.llm, "from"), t.firstToken), t.ttft),
   assembly        |-> Ms(FirstToken(t), TtsStart(t)),
   dispatch        |-> Ms(FirstToken(t), TtsRequestStart(t)),
   ttsTtfb         |-> TtsTtfb(t),
   unattributed    |-> Uncovered(t)]

\* _audio_endpoints: the agent's first utterance in the window, and the last of
\* the caller's to end by then.
AudioEndpoints(caller, agent, from, to) ==
  LET onset == EarliestOf({u[1] : u \in {v \in agent : from <= v[1] /\ v[1] <= to}})
      bound == Default(onset, to)
  IN  <<LatestOf({u[2] : u \in {v \in caller : v[2] <= bound}}), onset>>

-----------------------------------------------------------------------------
\* build_turn: unattributed_ms is the time between the end of the caller's speech and
\* the first audio in which no stage of the turn was at work and no endpointing hold
\* ran, however the stages overlap; it is known exactly when the response latency is
\* known and positive, and never more than that.
UnattributedIsUncovered ==
  LET built == BuildTurn(turnSpans)
      lo == CallerStop(turnSpans)
      hi == FirstAudio(turnSpans)
      Covers(w, i) == w[1] <= i /\ i < w[2]
      known == {w \in Segments(turnSpans) : None \notin {w[1], w[2]}}
  IN  /\ built.unattributed = None <=> built.responseLatency \in {None, 0}
      /\ built.unattributed # None =>
           /\ built.unattributed \in 0 .. built.responseLatency
           /\ built.unattributed
                = Cardinality({i \in lo .. hi - 1 : \A w \in known : ~Covers(w, i)})
=============================================================================
