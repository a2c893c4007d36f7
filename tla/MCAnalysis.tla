---------------------------- MODULE MCAnalysis ----------------------------
(***************************************************************************)
(* The parts of the analysis of one call, each over all small inputs.  The *)
(* parts share no state: part says which of them a behaviour is about, and *)
(* the variables of the others stay as they are.  Where a part is a loop,  *)
(* a step is one of the loop's; where it is a function of what a call      *)
(* left, what it left grows by one turn, window or word in a step.         *)
(***************************************************************************)
EXTENDS AudioIntervals, Waterfall, GroundTruth, TurnSpans, DerivedTurns, AudioOnly, Vad, TurnIds, Analysis

CONSTANT Part

VARIABLE part

vars == <<part, claimed, vadVars, turnVars, spanVars, soundVars, trace, analysisVars, talk, turnSpans>>

MCPadding == {{}, {<<1, 3>>}}
MCStageOf == [s \in Span |->
                CASE s = "t" -> "turn" [] s = "l" -> "llm" [] s = "s" -> "stt" [] OTHER -> "call"]

-----------------------------------------------------------------------------
(* Inputs.  The stage spans of a turn: those of the LLM have ended.          *)
Spans == {[from |-> f, to |-> t, chars |-> c] : f \in {None} \cup 0 .. 3, t \in {None} \cup 1 .. 4, c \in BOOLEAN}
Ordered == {s \in Spans : s.to = None \/ (s.from # None /\ s.to >= s.from)}

MCRead ==
  [speech |-> {[from |-> 0, to |-> 1, chars |-> FALSE]}, stt |-> Ordered, tts |-> Ordered,
   llm |-> {s \in Ordered : s.from = None \/ s.to # None}, firstAudio |-> {3}, ttfb |-> {1},
   firstToken |-> {}, ttft |-> {}, endpointingDelay |-> {}]

(* Turns, or words: few of each track, or many of the caller's alone.       *)
MCClaims ==
  LET Words(f) == Len(claimed.tracks[f].ref)
                    + (IF claimed.tracks[f].heard = None THEN 0 ELSE Len(claimed.tracks[f].heard))
      Bare(f) == Words(f) = 0 /\ ~claimed.tracks[f].text /\ ~claimed.tracks[f].wav
      Full(f) == claimed.tracks[f].wav /\ claimed.tracks[f].heard # None
  IN  IF claimed.turns # <<>> THEN Bare("caller") /\ Bare("agent") /\ ~claimed.stt
      ELSE \/ Words("caller") + Words("agent") <= 2
           \/ claimed.stt /\ Full("caller") /\ Bare("agent") /\ claimed.tracks["agent"].heard = None

(* Copies of spans of a call: each once, or some of them twice.            *)
MCCopies ==
  Len(fragments) = 2 =>
    Cardinality(DOMAIN fragments[1].spans) + Cardinality(DOMAIN fragments[2].spans) <= 4

NoServices == [layout |-> "mono", diarize |-> "none", stt |-> "none", agentChannel |-> 0]

-----------------------------------------------------------------------------
Init ==
  /\ part \in Part
  /\ ClaimedInit /\ (part # "groundtruth" => ~claimed.stt /\ claimed.covered["agent"] = claimed.covered["caller"] /\ \A f \in Tracks :
                        claimed.tracks[f] = [text |-> FALSE, ref |-> <<>>, wav |-> FALSE, heard |-> None])
  /\ VadInit /\ EventsInit /\ TraceInit /\ TurnInit
  /\ TalkInit /\ (part # "intervals" => talk.offset = 0 /\ talk.padding = {} /\ ~talk.traced)
  /\ IF part = "spans" THEN TurnSpanInit
     ELSE turnId = {} /\ orderKey = {} /\ callerSide = {} /\ scanned = {} /\ best = <<>>
  /\ SoundInit /\ (part # "audioOnly" => setup = NoServices)
  /\ AnalysisInit /\ (part # "rows" => ~audioEnabled)

Next ==
  \/ /\ part = "groundtruth" /\ ClaimedNext /\ MCClaims'
     /\ UNCHANGED <<part, vadVars, turnVars, spanVars, soundVars, trace, analysisVars, talk, turnSpans>>
  \/ /\ part = "intervals" /\ TalkNext
     /\ UNCHANGED <<part, claimed, vadVars, turnVars, spanVars, soundVars, trace, analysisVars, turnSpans>>
  \/ /\ part = "waterfall" /\ TurnNext
     /\ UNCHANGED <<part, claimed, vadVars, turnVars, spanVars, soundVars, trace, analysisVars, talk>>
  \/ /\ part = "vad" /\ VadNext
     /\ UNCHANGED <<part, claimed, turnVars, spanVars, soundVars, trace, analysisVars, talk, turnSpans>>
  \/ /\ part = "events" /\ EventsNext
     /\ UNCHANGED <<part, claimed, vadVars, spanVars, soundVars, trace, analysisVars, talk, turnSpans>>
  \/ /\ part = "spans" /\ TurnSpanNext
     /\ UNCHANGED <<part, claimed, vadVars, turnVars, soundVars, trace, analysisVars, talk, turnSpans>>
  \/ /\ part = "audioOnly" /\ SoundNext
     /\ UNCHANGED <<part, claimed, vadVars, turnVars, spanVars, trace, analysisVars, talk, turnSpans>>
  \/ /\ part = "ids" /\ TraceNext
     /\ UNCHANGED <<part, claimed, vadVars, turnVars, spanVars, soundVars, analysisVars, talk, turnSpans>>
  \/ /\ part = "rows" /\ AnalysisNext /\ MCCopies'
     /\ UNCHANGED <<part, claimed, vadVars, turnVars, spanVars, soundVars, trace, talk, turnSpans>>

Spec == Init /\ [][Next]_vars
=============================================================================
