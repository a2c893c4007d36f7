-------------------------- MODULE AudioIntervals --------------------------
(***************************************************************************)
(* The metrics of a recording (core/audio/metrics.py, and _audio_metrics   *)
(* in core/calculator.py): who talks when, together, or not at all.  Times *)
(* are whole units; rounding to four decimals is left out.                 *)
(***************************************************************************)
EXTENDS Intervals, FiniteSetsExt

CONSTANTS
  MinGap,      \* dead_air_min_s, in the same unit
  Clock,       \* times of utterances and spans
  Offset,      \* by how much the agent's clock may be ahead of the recording's
  Padding,     \* where audio may be absent: sets of windows
  MaxSpoken    \* utterances and spans of a call (bound)

Window == {w \in Int \X Int : w[1] < w[2]}

ASSUME IntervalAssumption ==
  /\ MinGap \in Int /\ Clock \subseteq Int /\ Offset \subseteq Int
  /\ \A p \in Padding : IsFiniteSet(p) /\ p \subseteq Window

VARIABLE talk    \* utterances heard on either channel, spans of the agent, and so on

TalkInit ==
  talk \in [caller : {{}}, heard : {{}}, agent : {{}}, traced : BOOLEAN,
            offset : Offset, padding : Padding]

Uttered == Cardinality(talk.caller) + Cardinality(talk.heard) + Cardinality(talk.agent)

\* An utterance the voice activity loop found on the caller's channel, or one the
\* diarization gave the caller: those may touch and overlap.  Two with the very same
\* ends are one here.
CallerSpeaks(w) ==
  /\ Uttered < MaxSpoken /\ w[1] < w[2]
  /\ talk' = [talk EXCEPT !.caller = @ \cup {w}]

\* The same of the agent's channel.
AgentHeard(w) ==
  /\ Uttered < MaxSpoken /\ w[1] < w[2]
  /\ talk' = [talk EXCEPT !.heard = @ \cup {w}]

\* A TTS or PLAYOUT span; an open one never got an end.
AgentSpeaks(w, open) ==
  /\ Uttered < MaxSpoken /\ talk.traced /\ w[1] <= w[2]
  /\ talk' = [talk EXCEPT !.agent = @ \cup {[from |-> w[1], to |-> w[2], open |-> open]}]

TalkNext ==
  \E w \in Clock \X Clock :
    CallerSpeaks(w) \/ AgentHeard(w) \/ \E open \in BOOLEAN : AgentSpeaks(w, open)

TalkSpec == TalkInit /\ [][TalkNext]_talk

-----------------------------------------------------------------------------
(* The metrics.  Times of spans are on the clock of the call, those of     *)
(* utterances on the clock of the recording, offset later.                 *)

Windows(list) == {list[n] : n \in 1 .. Len(list)}

SpokenWindows(spans, offset) ==
  {<<s.from - offset, s.to - offset>> : s \in {t \in spans : ~t.open}}

AgentIntervals(spans, offset) == Merge(SpokenWindows(spans, offset))

UttsToIntervals(utts) == Merge(utts)

\* The agent's side: its spans, or its channel when the call is only a recording.
AgentTalk ==
  IF talk.traced THEN AgentIntervals(talk.agent, talk.offset) ELSE UttsToIntervals(talk.heard)

\* The end of all that was heard or traced: an utterance of the agent may outlast its
\* spans.  0 stands for one before the recording, where neither talk nor silence counts.
Duration(utterances, agent) ==
  Max({0} \cup {u[2] : u \in utterances} \cup {w[2] : w \in Windows(agent)})

TalkRatio(caller, agent) ==
  [caller  |-> Total(UttsToIntervals(caller)),
   agent   |-> Total(agent),
   overlap |-> Total(Intersect(UttsToIntervals(caller), agent))]

DeadAir(caller, agent, duration, padding) ==
  LET lasts == Lengths(Subtract(Complement(caller \cup Windows(agent), duration), Merge(padding)))
  IN  Added([n \in DOMAIN lasts |-> IF lasts[n] >= MinGap THEN lasts[n] ELSE 0])

BargeInCount(caller, agent) ==
  Cardinality({u \in caller : \E w \in Windows(agent) : w[1] < u[1] /\ u[1] < w[2]})

-----------------------------------------------------------------------------
(* Reference: the same in terms of the unit instants that are covered.     *)

\* The silent stretch around i; even a span of no length ends one.
SilentRun(i, silent, marks) ==
  {k \in silent : /\ Least(i, k) .. Greatest(i, k) \subseteq silent
                  /\ ((Least(i, k) + 1 .. Greatest(i, k)) \cap marks) = {}}

\* intervals.py, metrics.py: talk, overlap and silence account for every instant of the
\* call exactly once, the silence after the last word included where the agent's channel
\* outlasts its spans; dead air is the instants of silent stretches that last MinGap;
\* and an utterance is a barge-in exactly when the agent speaks just before and just
\* after it starts, even where two agent windows only touch.
TimeAccounted ==
  LET caller == talk.caller
      padding == talk.padding
      agent == AgentTalk
      ratio == TalkRatio(caller, agent)
      heard == Instants(caller)
      spoken == Instants(IF talk.traced THEN SpokenWindows(talk.agent, talk.offset) ELSE talk.heard)
      duration == Duration(caller \cup talk.heard, agent)
      silent == (0 .. duration - 1) \ (heard \cup spoken)
      quiet == silent \ Instants(padding)
      marks == {w[1] : w \in Windows(agent)}
  IN  /\ ratio.caller + ratio.agent - ratio.overlap + Cardinality(silent)
           = Cardinality(heard \cup spoken \cup 0 .. duration - 1)
      /\ ratio.overlap = Cardinality(heard \cap spoken)
      /\ DeadAir(caller, agent, duration, padding)
           = Cardinality({i \in quiet : Cardinality(SilentRun(i, quiet, marks)) >= MinGap})
      /\ BargeInCount(caller, agent)
           = Cardinality({u \in caller : {u[1] - 1, u[1]} \subseteq spoken})
=============================================================================
