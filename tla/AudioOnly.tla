----------------------------- MODULE AudioOnly -----------------------------
(***************************************************************************)
(* The analysis of a recording without spans (worker/process.py            *)
(* process_audio_only, worker/audio_stt.py, diarize/, core/audio/layout).  *)
(* The recording is the sequence of its utterances: who speaks, and        *)
(* whether a word was recognised in it; its time is its place.  How the    *)
(* recording was made, what is configured for the agent and whether the    *)
(* services answer is chosen at the start.                                 *)
(***************************************************************************)
EXTENDS Integers, Sequences, NoValue

CONSTANT
  MaxUtterances  \* length of the recording (bound)

VARIABLES
  setup,         \* layout, diarization and STT answers, channel holding the agent
  heard,         \* [speaker, text]; the agent is speaker "A"
  pending,       \* build_turns: the caller's utterance waiting for an answer
  answered       \* build_turns: [caller, agent], each a sequence of times

soundVars == <<setup, heard, pending, answered>>

Layout == {"separated", "mixed", "mono"}
Answers == {"ok", "none"}     \* a service that is not configured or fails twice
Nothing == <<>>

\* detect_layout: one channel, silence or one dead channel is mono; two channels
\* carrying the same signal are mixed.
DetectLayout(channels, silent, alike) ==
  IF channels < 2 \/ silent THEN "mono" ELSE IF alike THEN "mixed" ELSE "separated"

\* diarize, transcribe: one retry, then None.
Twice(first, second) == IF "ok" \in {first, second} THEN "ok" ELSE "none"

SoundInit ==
  /\ \E channels \in {1, 2}, silent, alike \in BOOLEAN,
        d1, d2, s1, s2 \in Answers, agentChannel \in {0, 1} :
       setup = [layout  |-> DetectLayout(channels, silent, alike),
                diarize |-> Twice(d1, d2), stt |-> Twice(s1, s2),
                agentChannel |-> agentChannel]
  /\ heard = <<>> /\ pending = Nothing /\ answered = <<>>

\* assign_roles: the label that starts first is the agent.
FirstSpeaker == IF heard = <<>> THEN None ELSE heard[1].speaker

\* The role the analysis gives an utterance: by channel when the sides are separated
\* (channel 1 is taken for the agent's), by diarization when it answered, and
\* the caller's otherwise.
Role(speaker, firstSpeaker) ==
  IF setup.layout = "separated"
  THEN IF (speaker = "A") = (setup.agentChannel = 1) THEN "agent" ELSE "caller"
  ELSE IF setup.diarize = "ok"
       THEN IF speaker = firstSpeaker THEN "agent" ELSE "caller"
       ELSE "caller"

\* build_turns: one utterance after the other.
CallerSays(t) ==
  /\ pending' = <<t>>
  /\ UNCHANGED answered

\* Mutant: what the caller said is not cleared once answered.
AgentSaysAgain(t) ==
  /\ answered' = Append(answered, [caller |-> pending, agent |-> <<t>>])
  /\ UNCHANGED pending

AgentSays(t) ==
  /\ answered' = Append(answered, [caller |-> pending, agent |-> <<t>>])
  /\ pending' = Nothing

\* An utterance without a recognised word is skipped.
Say(speaker, text) ==
  /\ Len(heard) < MaxUtterances
  /\ heard' = Append(heard, [speaker |-> speaker, text |-> text])
  /\ LET first == IF heard = <<>> THEN speaker ELSE FirstSpeaker
         role == Role(speaker, first)
     IN  \/ ~text /\ UNCHANGED <<pending, answered>>
         \/ text /\ role = "caller" /\ CallerSays(Len(heard'))
         \/ text /\ role = "agent" /\ AgentSays(Len(heard'))
  /\ UNCHANGED setup

SoundNext == \E speaker \in {"A", "B"}, text \in BOOLEAN : Say(speaker, text)

SoundSpec == SoundInit /\ [][SoundNext]_soundVars

\* What build_turns returns if the recording ends here.
BuildTurns ==
  IF pending = Nothing THEN answered ELSE Append(answered, [caller |-> pending, agent |-> <<>>])

SttTurns == IF setup.stt = "none" THEN <<>> ELSE BuildTurns

\* process_audio_only: the mode written on the call.
AnalysisMode ==
  [diarized |-> setup.layout # "separated" /\ setup.diarize = "ok",
   stt      |-> SttTurns # <<>>]

\* derive_from_turns: the lines a turn gives the transcript, turn after turn.
Lines(turn) == turn.caller \o turn.agent

-----------------------------------------------------------------------------
Said(role) == {n \in DOMAIN heard :
                 /\ heard[n].text
                 /\ Role(heard[n].speaker, FirstSpeaker) = role}

\* build_turns: the transcript tells the utterances in the order they were said, none
\* twice and all of the agent's; and every turn answers the last thing the caller
\* said since the agent spoke before.
TranscriptInOrder ==
  setup.stt = "ok" =>
    /\ \A n, m \in DOMAIN SttTurns :
         \A i \in DOMAIN Lines(SttTurns[n]), j \in DOMAIN Lines(SttTurns[m]) :
           n < m \/ (n = m /\ i < j) => Lines(SttTurns[n])[i] < Lines(SttTurns[m])[j]
    /\ \A t \in Said("agent") : \E n \in DOMAIN SttTurns :
         \E i \in DOMAIN Lines(SttTurns[n]) : Lines(SttTurns[n])[i] = t
    /\ \A n \in DOMAIN SttTurns :
         LET since == IF n = 1 THEN 0 ELSE SttTurns[n - 1].agent[1]
             till == IF SttTurns[n].agent = <<>> THEN Len(heard) + 1 ELSE SttTurns[n].agent[1]
             asked == {t \in Said("caller") : since < t /\ t < till}
         IN  IF asked = {} THEN SttTurns[n].caller = <<>>
             ELSE SttTurns[n].caller = <<CHOOSE t \in asked : \A u \in asked : u <= t>>
=============================================================================
