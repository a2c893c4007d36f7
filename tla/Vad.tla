-------------------------------- MODULE Vad --------------------------------
(***************************************************************************)
(* The energy VAD (core/audio/vad.py detect_utterances) over the frames of *)
(* one channel, a frame per step, and the runs of zero samples that        *)
(* padding_intervals_for (core/audio/__init__.py) and dropout_count        *)
(* (core/audio/quality.py) measure.  Frames are numbered from 0; a frame   *)
(* is TRUE when its level is above the threshold.                          *)
(***************************************************************************)
EXTENDS Integers, Sequences, FiniteSets

CONSTANTS
  Hangover,    \* hangover_frames
  MinFrames,   \* min_utterance_s, in frames
  MaxFrames    \* length of the recording (bound)

ASSUME HangoverAssumption == Hangover \in Nat

VARIABLES
  frames,      \* the frames seen
  start,       \* first frame of the open utterance, or NoStart
  gap,         \* silent frames since its last speech frame
  utterances   \* the closed ones, each <<first frame, frame after the last>>

vadVars == <<frames, start, gap, utterances>>

NoStart == -1

VadInit == frames = <<>> /\ start = NoStart /\ gap = 0 /\ utterances = <<>>

\* Mutant: the pause is not restarted by speech within the utterance.
SpeechKeepsGap ==
  /\ Len(frames) < MaxFrames
  /\ frames' = Append(frames, TRUE)
  /\ start' = IF start = NoStart THEN Len(frames) ELSE start
  /\ UNCHANGED <<gap, utterances>>

Speech ==
  /\ Len(frames) < MaxFrames
  /\ frames' = Append(frames, TRUE)
  /\ start' = IF start = NoStart THEN Len(frames) ELSE start
  /\ gap' = 0
  /\ UNCHANGED utterances

Silence ==
  /\ Len(frames) < MaxFrames
  /\ frames' = Append(frames, FALSE)
  /\ \/ start = NoStart /\ UNCHANGED <<start, gap, utterances>>
     \/ /\ start # NoStart /\ gap + 1 <= Hangover
        /\ gap' = gap + 1
        /\ UNCHANGED <<start, utterances>>
     \/ /\ start # NoStart /\ gap + 1 > Hangover
        /\ utterances' = Append(utterances, <<start, Len(frames) - gap>>)
        /\ start' = NoStart /\ gap' = 0

VadNext == Speech \/ Silence

VadSpec == VadInit /\ [][VadNext]_vadVars

\* The frames end here: the open utterance takes everything up to the end.
Regions == IF start = NoStart THEN utterances
           ELSE Append(utterances, <<start, Len(frames)>>)

DetectUtterances == SelectSeq(Regions, LAMBDA u : u[2] - u[1] >= MinFrames)

-----------------------------------------------------------------------------
(* Runs of zero samples: a FALSE frame stands for a zero sample.           *)

Zero(i) == i + 1 \in DOMAIN frames /\ ~frames[i + 1]

\* The two edge lists of the mask, zipped in order.
Zipped(starts, ends) ==
  {r \in starts \X ends :
     Cardinality({x \in starts : x < r[1]}) = Cardinality({x \in ends : x < r[2]})}

\* _mask_to_intervals, over the samples from lo to hi - 1.
ZeroRuns(lo, hi) ==
  Zipped({i \in lo .. hi - 1 : Zero(i) /\ (i = lo \/ ~Zero(i - 1))},
         {i + 1 : i \in {j \in lo .. hi - 1 : Zero(j) /\ (j = hi - 1 \/ ~Zero(j + 1))}})

PaddingIntervals == ZeroRuns(0, Len(frames))

NonZero == {i \in 0 .. Len(frames) - 1 : ~Zero(i)}

InteriorZeroRuns(min) ==
  IF Cardinality(NonZero) < 2 THEN {}
  ELSE LET lo == CHOOSE i \in NonZero : \A j \in NonZero : i <= j
           hi == CHOOSE i \in NonZero : \A j \in NonZero : j <= i
       IN  {r \in ZeroRuns(lo, hi + 1) : r[2] - r[1] >= min}

-----------------------------------------------------------------------------
\* Frames i and j are heard as one utterance: no pause between them is longer
\* than the hangover.
SameBreath(i, j) ==
  \A k \in i .. j : \E m \in k .. k + Hangover : m <= j /\ ~Zero(m)

\* detect_utterances: every speech frame is in exactly one region; two of them
\* are in the same one exactly when no pause longer than the hangover separates
\* them; a region begins with speech, and ends with it unless the recording ends.  The dropouts are
\* the zero runs that real audio bounds on both sides.
RegionsAreBreaths ==
  LET Of(i) == {n \in DOMAIN Regions : Regions[n][1] <= i /\ i < Regions[n][2]}
  IN  /\ \A i \in NonZero : Cardinality(Of(i)) = 1
      /\ \A i, j \in NonZero : i < j => (Of(i) = Of(j) <=> SameBreath(i, j))
      /\ \A n \in DOMAIN Regions :
           /\ Regions[n][1] \in NonZero
           /\ Regions[n][2] - 1 \in NonZero \/ Regions[n][2] = Len(frames)
      /\ InteriorZeroRuns(1) = {r \in PaddingIntervals : r[1] > 0 /\ r[2] < Len(frames)}
=============================================================================
