---------------------------- MODULE GroundTruth ----------------------------
(***************************************************************************)
(* What a producer reported against what its recording shows               *)
(* (groundtruth): when the agent was first heard in each turn, and the     *)
(* word error rate of the transcript of a channel.  A text is the words    *)
(* that normalize finds in it; the rest of it does not count.              *)
(***************************************************************************)
EXTENDS Integers, Sequences, FiniteSets, NoValue

CONSTANTS
  Word,            \* what is said and heard
  Moment,          \* times of a first audio
  FirstAudioBand,  \* first_audio_band_ms, in the same unit
  Covered,         \* how many hundredths of a channel may be real audio
  MaxWords,        \* words of a text (bound)
  MaxTimed         \* turns (bound)

ASSUME GroundTruthAssumption ==
  /\ FirstAudioBand \in Nat /\ Moment \subseteq Int /\ Covered \subseteq Int
  /\ None \notin Int /\ None \notin Seq(Word)

\* caller_wer and agent_wer: what the turns say was said, whether there is a recording,
\* and what speech-to-text makes of it, None where it is down.
Tracks == {"caller", "agent"}

VARIABLE claimed    \* the turns, the two tracks, the real audio in each, and whether
                    \* speech-to-text is configured

ClaimedInit ==
  claimed \in [turns   : {<<>>},
               tracks  : [Tracks -> [text : BOOLEAN, ref : {<<>>}, wav : BOOLEAN, heard : {None, <<>>}]],
               covered : [Tracks -> Covered],
               stt     : BOOLEAN]

\* A turn with the two times, either of which may be unknown.
Timed(r, m) ==
  /\ Len(claimed.turns) < MaxTimed
  /\ claimed' = [claimed EXCEPT !.turns = Append(@, [reported |-> r, measured |-> m])]

\* One more word in the producer's transcript of a track, or in what was heard of it.
Claims(f, w) ==
  /\ Len(claimed.tracks[f].ref) < MaxWords
  /\ claimed' = [claimed EXCEPT !.tracks[f].ref = Append(@, w), !.tracks[f].text = TRUE]

Hears(f, w) ==
  /\ claimed.tracks[f].heard # None /\ Len(claimed.tracks[f].heard) < MaxWords
  /\ claimed' = [claimed EXCEPT !.tracks[f].heard = Append(@, w)]

ClaimedNext ==
  \/ \E r, m \in Moment \cup {None} : Timed(r, m)
  \/ \E f \in Tracks, w \in Word : Claims(f, w) \/ Hears(f, w)

ClaimedSpec == ClaimedInit /\ [][ClaimedNext]_claimed

-----------------------------------------------------------------------------
(* wer: one row of distances after another.                                *)

Smaller(a, b) == IF a <= b THEN a ELSE b

\* Mutant: no substitution.
NextRowNoSwap(prev, r, hyp) ==
  LET cur[j \in 0 .. Len(hyp)] ==
        IF j = 0 THEN prev[0] + 1
        ELSE IF hyp[j] = r THEN prev[j - 1]
        ELSE Smaller(prev[j], cur[j - 1]) + 1
  IN cur

NextRow(prev, r, hyp) ==
  LET cur[j \in 0 .. Len(hyp)] ==
        IF j = 0 THEN prev[0] + 1
        ELSE Smaller(Smaller(prev[j], cur[j - 1]) + 1,
                     prev[j - 1] + IF hyp[j] = r THEN 0 ELSE 1)
  IN cur

Distance(ref, hyp) ==
  LET row[n \in 0 .. Len(ref)] ==
        IF n = 0 THEN [j \in 0 .. Len(hyp) |-> j] ELSE NextRow(row[n - 1], ref[n], hyp)
  IN  row[Len(ref)][Len(hyp)]

\* The rate in thousandths, as it is rounded.
Wer(ref, hyp) ==
  IF ref = <<>> THEN IF hyp = <<>> THEN 0 ELSE 1000
  ELSE (2000 * Distance(ref, hyp) + Len(ref)) \div (2 * Len(ref))

-----------------------------------------------------------------------------
TranscriptBand == 200
MinCoverage == 80

Abs(x) == IF x < 0 THEN -x ELSE x

\* _timing: the turns with both times.
Timing(turns) ==
  {[turn |-> i, delta |-> turns[i].measured - turns[i].reported,
    verdict |-> IF Abs(turns[i].measured - turns[i].reported) > FirstAudioBand
                THEN "material" ELSE "agree"] :
     i \in {j \in 1 .. Len(turns) : turns[j].reported # None /\ turns[j].measured # None}}

Verdict(track) ==
  CASE track.heard = None -> "unverifiable"
    [] track.heard # None /\ Wer(track.ref, track.heard) > TranscriptBand -> "material"
    [] OTHER -> "agree"

\* _transcript: the tracks that have a text and a recording, if speech-to-text is
\* configured.
Transcript(tracks, stt) ==
  {[track |-> f, verdict |-> Verdict(tracks[f])] :
     f \in {g \in DOMAIN tracks : stt /\ tracks[g].text /\ tracks[g].wav}}

\* reconcile: the timing check always counts as run, the other one if it compared anything.
Reconcile(turns, tracks, stt) ==
  LET transcript == Transcript(tracks, stt) IN
  [layers        |-> {"timing"} \cup (IF transcript = {} THEN {} ELSE {"transcript"}),
   discrepancies |-> Timing(turns) \cup transcript]

-----------------------------------------------------------------------------
(* Reference: which word of the reference was heard as which, in order, 0  *)
(* for one that was not.  Each word not heard as it is, and each one heard *)
(* beside them, is an edit.                                                *)

Aligned(a) == \A i, k \in DOMAIN a : i < k /\ a[i] # 0 /\ a[k] # 0 => a[i] < a[k]

Edits(ref, hyp, a) ==
  Cardinality({i \in 1 .. Len(ref) : a[i] = 0 \/ ref[i] # hyp[a[i]]})
    + Cardinality({j \in 1 .. Len(hyp) : \A i \in 1 .. Len(ref) : a[i] # j})

\* groundtruth reconcile, wer: a transcript is called a material divergence exactly if, however its
\* words are aligned with those heard, more than the band allows must be edited: a fifth of
\* them, and what rounding to thousandths hides; a text without a word diverges from any
\* word heard.  A recogniser that fails accuses nobody.  And a first audio is material
\* exactly if the two clocks differ by more than the band.  How much of the recording is
\* real audio has no part in either, whatever report.py promises (ThinAudioAccusesNobody).
MaterialIsMeasured ==
  LET report == Reconcile(claimed.turns, claimed.tracks, claimed.stt)
      Accused(f) == \E d \in report.discrepancies :
                      "track" \in DOMAIN d /\ d.track = f /\ d.verdict = "material"
      Late(i) == \E d \in report.discrepancies :
                   "turn" \in DOMAIN d /\ d.turn = i /\ d.verdict = "material"
  IN  /\ \A f \in Tracks :
           LET t == claimed.tracks[f] IN
           Accused(f) <=>
             /\ claimed.stt /\ t.text /\ t.wav /\ t.heard # None
             /\ \A a \in [1 .. Len(t.ref) -> 0 .. Len(t.heard)] :
                  Aligned(a) => LET edits == Edits(t.ref, t.heard, a) IN
                                edits > 0 /\ 2000 * edits >= (2 * TranscriptBand + 1) * Len(t.ref)
      /\ \A i \in 1 .. Len(claimed.turns) :
           LET t == claimed.turns[i] IN
           Late(i) <=>
             /\ t.reported # None /\ t.measured # None
             /\ t.measured \notin t.reported - FirstAudioBand .. t.reported + FirstAudioBand

\* The policy says that "too little real audio" is "unverifiable, never material - bad
\* capture can't read as the producer lied" (report.py:8), and a channel's coverage below
\* min_coverage gates its checks (report.py:81): its transcript, and the agent's first audio.
\* service.py never reads min_coverage, and TLC finds this violated.
ThinAudioAccusesNobody ==
  LET report == Reconcile(claimed.turns, claimed.tracks, claimed.stt) IN
  \A f \in Tracks : claimed.covered[f] < MinCoverage =>
    \A d \in report.discrepancies :
      \/ "track" \in DOMAIN d /\ d.track # f
      \/ "turn" \in DOMAIN d /\ f = "caller"
      \/ d.verdict # "material"
=============================================================================
