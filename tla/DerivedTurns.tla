--------------------------- MODULE DerivedTurns ---------------------------
(***************************************************************************)
(* _turns_from_events (core/calculator.py): when a producer sent no TURN   *)
(* span, its events, sorted by time, are folded into turns one by one.  An *)
(* event's time is its place in that order; so is the text it carries.     *)
(* Fields of a group that the code has not set hold 0.                     *)
(***************************************************************************)
EXTENDS Integers, Sequences, FiniteSets

CONSTANT MaxEvents    \* events of the call (bound)

VARIABLES
  events,   \* the names seen, in order of time
  cur,      \* the open group
  turns     \* the closed ones

turnVars == <<events, cur, turns>>

EventName == {"stt.final", "turn.committed", "llm.first_token", "llm.raw",
              "llm.spoken", "tts.first_audio", "bargein", "other"}
AgentSide == {"llm.first_token", "llm.raw", "llm.spoken", "tts.first_audio"}
CarriesText == {"stt.final", "llm.raw", "llm.spoken"}

EmptyGroup == [sttFinal |-> 0, committed |-> 0, llmFirst |-> 0, ttsFirst |-> 0,
               transcript |-> <<>>, llmRaw |-> 0, llmSpoken |-> 0,
               interrupted |-> FALSE, agentSeen |-> FALSE]

EventsInit == events = <<>> /\ cur = EmptyGroup /\ turns = <<>>

\* Milliseconds from a to b: only when both are known and in that order.
NoLatency == -1
Latency(a, b) == IF a # 0 /\ b # 0 /\ a <= b THEN b - a ELSE NoLatency

\* A group without one of these three facts makes no turn.
KeptGroup(g) == g.sttFinal # 0 \/ g.llmSpoken # 0 \/ g.ttsFirst # 0

Turn(g) ==
  [sttFinal |-> g.sttFinal, committed |-> g.committed,
   llmFirst |-> g.llmFirst, ttsFirst |-> g.ttsFirst,
   latency  |-> Latency(g.sttFinal, g.ttsFirst), ttft |-> Latency(g.committed, g.llmFirst),
   transcript |-> g.transcript, llmRaw |-> g.llmRaw, llmSpoken |-> g.llmSpoken,
   interrupted |-> g.interrupted]

Closed(g) == IF KeptGroup(g) THEN Append(turns, Turn(g)) ELSE turns

SetDefault(old, t) == IF old = 0 THEN t ELSE old

\* What event e, with or without text, leaves in group g.
Noted(g, e, hasText) ==
  LET t == Len(events) + 1
      fact == [g EXCEPT
        !.sttFinal    = IF e = "stt.final" THEN SetDefault(@, t) ELSE @,
        !.transcript  = IF e = "stt.final" /\ hasText THEN Append(@, t) ELSE @,
        !.committed   = IF e = "turn.committed" THEN SetDefault(@, t) ELSE @,
        !.llmFirst    = IF e = "llm.first_token" THEN SetDefault(@, t) ELSE @,
        !.llmRaw      = IF e = "llm.raw" /\ hasText THEN SetDefault(@, t) ELSE @,
        !.llmSpoken   = IF e = "llm.spoken" /\ hasText THEN SetDefault(@, t) ELSE @,
        !.ttsFirst    = IF e = "tts.first_audio" THEN SetDefault(@, t) ELSE @,
        !.interrupted = @ \/ e = "bargein"]
  IN  [fact EXCEPT !.agentSeen = @ \/ e \in AgentSide]

\* Mutant: only audio counts as the agent's answer.
OpensTurnAfterAudio(e) == e = "stt.final" /\ cur.ttsFirst # 0

\* A caller utterance after the agent spoke opens the next turn.
OpensTurn(e) == e = "stt.final" /\ cur.agentSeen

Event(e, hasText) ==
  /\ Len(events) < MaxEvents
  /\ e \notin CarriesText => ~hasText
  /\ events' = Append(events, e)
  /\ turns' = IF OpensTurn(e) THEN Closed(cur) ELSE turns
  /\ cur' = Noted(IF OpensTurn(e) THEN EmptyGroup ELSE cur, e, hasText)

EventsNext == \E e \in EventName, hasText \in BOOLEAN : Event(e, hasText)

EventsSpec == EventsInit /\ [][EventsNext]_turnVars

\* What the function returns when the events end here.
TurnsFromEvents == Closed(cur)

-----------------------------------------------------------------------------
At(names) == {n \in DOMAIN events : events[n] \in names}

\* Turn k's window: from the first word of the caller in it to the first word of
\* the caller in the next turn.
TurnWindow(k) ==
  LET begins(i) == TurnsFromEvents[i].sttFinal
  IN  {n \in DOMAIN events :
         /\ begins(k) # 0 => begins(k) <= n
         /\ \A i \in k + 1 .. Len(TurnsFromEvents) : n < begins(i)}

Spoken == [k \in DOMAIN TurnsFromEvents |-> TurnsFromEvents[k].transcript]

WordsKeepTheirOrder ==
  \A k \in DOMAIN Spoken : \A n \in DOMAIN Spoken[k] :
    /\ events[Spoken[k][n]] = "stt.final"
    /\ \A i \in DOMAIN Spoken : \A m \in DOMAIN Spoken[i] :
         (i < k \/ (i = k /\ m < n)) => Spoken[i][m] < Spoken[k][n]

\* _turns_from_events: within a turn nothing the caller says comes after anything
\* the agent says, so an answer is never timed against a later question; every
\* turn but the first begins with the caller; the transcripts of the turns, one
\* after the other, are the texts of the caller in the order of time, none of them
\* in two turns; and a latency is never negative.
AnswerFollowsItsQuestion ==
  /\ WordsKeepTheirOrder
  /\ \A k \in DOMAIN TurnsFromEvents :
       LET t == TurnsFromEvents[k]
           agent == TurnWindow(k) \cap At(AgentSide)
       IN  /\ t.sttFinal # 0 =>
                \A q \in TurnWindow(k) \cap At({"stt.final"}), a \in agent : q < a
           /\ t.ttsFirst # 0 => t.ttsFirst \in TurnWindow(k) \cap At({"tts.first_audio"})
           /\ t.sttFinal # 0 /\ t.ttsFirst # 0 =>
                t.latency = t.ttsFirst - t.sttFinal
           /\ k > 1 => t.sttFinal # 0

=============================================================================
