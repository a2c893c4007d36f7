--------------------------- MODULE Analysis_proofs ---------------------------
(***************************************************************************)
(* What the loops of the analysis keep: over the TURN spans of a trace, in *)
(* whatever order they are stored; over the utterances of a recording;     *)
(* over the events of a call; and over the frames of a channel.            *)
(***************************************************************************)
EXTENDS TurnSpans, DerivedTurns, AudioOnly, Vad, FiniteSetTheorems, TLAPS

\* Of the spans of a key the loop has seen, no other would replace b.
Anchors(b, k, seen) ==
  /\ b \in seen /\ Key(b) = k
  /\ \A s \in seen : Key(s) = k =>
       /\ s \in callerSide => b \in callerSide
       /\ (s \in callerSide <=> b \in callerSide) => ~Before(orderKey[s], orderKey[b])

TurnSpanInv ==
  /\ orderKey \in [TurnSpan -> Int \X Int]
  /\ scanned \subseteq TurnSpan
  /\ DOMAIN best = {Key(s) : s \in scanned}
  /\ \A k \in DOMAIN best : Anchors(best[k], k, scanned)

\* _order_key is a strict order: what comes before the first comes before what it precedes.
LEMMA BeforeIsTransitive ==
  ASSUME NEW a \in Int \X Int, NEW b \in Int \X Int, NEW c \in Int \X Int,
         Before(a, b), Before(b, c)
  PROVE  Before(a, c)
BY DEF Before

LEMMA BeforeIsStrict == ASSUME NEW a \in Int \X Int PROVE ~Before(a, a)
BY DEF Before

LEMMA TurnSpanStart == TurnSpanInit => TurnSpanInv
<1> SUFFICES ASSUME TurnSpanInit PROVE TurnSpanInv
  OBVIOUS
<1>1. orderKey \in [TurnSpan -> Int \X Int]
  <2>1. OrderKeys \subseteq Int \X Int
    BY DEF OrderKeys
  <2> QED
    BY <2>1 DEF TurnSpanInit
<1> QED
  BY <1>1 DEF TurnSpanInit, TurnSpanInv

\* A span that takes the anchor's place is one no seen span would take it from.
LEMMA ReplacingAnchors ==
  ASSUME TurnSpanInv, NEW s \in TurnSpan, NEW b, Anchors(b, Key(s), scanned), Replaces(s, b)
  PROVE  Anchors(s, Key(s), scanned \cup {s})
<1>1. ASSUME NEW t \in scanned, Key(t) = Key(s), t \in callerSide PROVE s \in callerSide
  BY <1>1 DEF Anchors, Replaces
<1>2. ASSUME NEW t \in scanned, Key(t) = Key(s), t \in callerSide <=> s \in callerSide
      PROVE  ~Before(orderKey[t], orderKey[s])
  <2>1. (s \in callerSide <=> b \in callerSide) /\ Before(orderKey[s], orderKey[b])
    BY <1>2 DEF Anchors, Replaces
  <2>2. ~Before(orderKey[t], orderKey[b])
    BY <1>2, <2>1 DEF Anchors
  <2>3. /\ orderKey[t] \in Int \X Int /\ orderKey[s] \in Int \X Int
        /\ orderKey[b] \in Int \X Int
    BY DEF TurnSpanInv, Anchors
  <2> QED
    BY <2>1, <2>2, <2>3, BeforeIsTransitive
<1>3. ~Before(orderKey[s], orderKey[s])
  BY BeforeIsStrict DEF TurnSpanInv
<1> QED
  BY <1>1, <1>2, <1>3 DEF Anchors

\* A span that does not leaves it as it is.
LEMMA StayingAnchors ==
  ASSUME NEW s, NEW b, Anchors(b, Key(s), scanned), ~Replaces(s, b)
  PROVE  Anchors(b, Key(s), scanned \cup {s})
BY DEF Anchors, Replaces

LEMMA ScanKeeps ==
  ASSUME TurnSpanInv, NEW s \in TurnSpan, Scan(s) PROVE TurnSpanInv'
<1>1. UNCHANGED <<turnId, orderKey, callerSide>> /\ scanned' = scanned \cup {s}
  BY DEF Scan
<1>2. \A t : Key(t)' = Key(t)
  BY <1>1 DEF Key
<1>3. \A b, k, seen : Anchors(b, k, seen)' <=> Anchors(b, k, seen)
  BY <1>1, <1>2 DEF Anchors
<1>4. ASSUME NEW k \in DOMAIN best, k # Key(s)
      PROVE  Anchors(best[k], k, scanned \cup {s})
  BY <1>4 DEF TurnSpanInv, Anchors
<1>5. {Key(t) : t \in scanned \cup {s}} = DOMAIN best \cup {Key(s)}
  BY DEF TurnSpanInv
<1>6. CASE Key(s) \notin DOMAIN best \/ Replaces(s, best[Key(s)])
  <2>1. best' = [k \in DOMAIN best \cup {Key(s)} |-> IF k = Key(s) THEN s ELSE best[k]]
    BY <1>6 DEF Scan
  <2>2. Anchors(s, Key(s), scanned \cup {s})
    <3>1. CASE Key(s) \in DOMAIN best
      BY <1>6, <3>1, ReplacingAnchors DEF TurnSpanInv
    <3>2. CASE Key(s) \notin DOMAIN best
      <4>1. \A t \in scanned : Key(t) # Key(s)
        BY <3>2 DEF TurnSpanInv
      <4>2. ~Before(orderKey[s], orderKey[s])
        BY BeforeIsStrict DEF TurnSpanInv
      <4> QED
        BY <4>1, <4>2 DEF Anchors
    <3> QED
      BY <3>1, <3>2
  <2>3. \A k \in DOMAIN best' : Anchors(best'[k], k, scanned')
    BY <1>1, <1>4, <2>1, <2>2
  <2> QED
    BY <1>1, <1>2, <1>3, <1>5, <2>1, <2>3 DEF TurnSpanInv
<1>7. CASE Key(s) \in DOMAIN best /\ ~Replaces(s, best[Key(s)])
  <2>1. best' = best
    BY <1>7 DEF Scan
  <2>2. Anchors(best[Key(s)], Key(s), scanned \cup {s})
    BY <1>7, StayingAnchors DEF TurnSpanInv
  <2>3. \A k \in DOMAIN best' : Anchors(best'[k], k, scanned')
    BY <1>1, <1>4, <2>1, <2>2
  <2> QED
    BY <1>1, <1>2, <1>3, <1>5, <1>7, <2>1, <2>3 DEF TurnSpanInv
<1> QED
  BY <1>6, <1>7

LEMMA TurnSpanStep == TurnSpanInv /\ [TurnSpanNext]_spanVars => TurnSpanInv'
<1>1. TurnSpanInv /\ UNCHANGED spanVars => TurnSpanInv'
  BY DEF TurnSpanInv, spanVars, Anchors, Key
<1> QED
  BY <1>1, ScanKeeps DEF TurnSpanNext

\* calculator.py _turn_spans: whatever order the spans of a trace are stored in, each
\* exchange has one anchor, of the caller's side if it has one there, and then the first.
THEOREM AnchoredOnce == TurnSpanSpec => []OneAnchorPerExchange
<1>1. TurnSpanSpec => []TurnSpanInv
  BY TurnSpanStart, TurnSpanStep, PTL DEF TurnSpanSpec
<1>2. TurnSpanInv => OneAnchorPerExchange
  BY DEF TurnSpanInv, Anchors, OneAnchorPerExchange
<1> QED
  BY <1>1, <1>2, PTL

-----------------------------------------------------------------------------
(* Turns from the utterances of a recording.                               *)

Utterance == [speaker : {"A", "B"}, text : BOOLEAN]

RoleBy(st, speaker, first) ==
  IF st.layout = "separated"
  THEN IF (speaker = "A") = (st.agentChannel = 1) THEN "agent" ELSE "caller"
  ELSE IF st.diarize = "ok" THEN IF speaker = first THEN "agent" ELSE "caller" ELSE "caller"

SaidBy(hs, st, role) ==
  {n \in DOMAIN hs : hs[n].text /\ RoleBy(st, hs[n].speaker, hs[1].speaker) = role}

\* caller is the last of what was said between the two times.
LastBetween(caller, said, since, till) ==
  \/ caller = <<>> /\ \A t \in said : ~(since < t /\ t < till)
  \/ \E t \in said : /\ caller = <<t>> /\ since < t /\ t < till
                     /\ \A u \in said : since < u /\ u < till => u <= t

AnsweredTurn == [caller : Seq(Nat), agent : Seq(Nat)]

\* When the agent spoke last before turn n.
SinceOf(ts, n) == IF n = 1 THEN 0 ELSE ts[n - 1].agent[1]

AnsweredOk(ts, said, length) ==
  \A n \in DOMAIN ts :
    /\ ts[n].agent[1] \in 1 .. length /\ ts[n].agent = <<ts[n].agent[1]>>
    /\ SinceOf(ts, n) \in Nat /\ SinceOf(ts, n) < ts[n].agent[1]
    /\ \A m \in DOMAIN ts : m < n => ts[m].agent[1] <= SinceOf(ts, n)
    /\ LastBetween(ts[n].caller, said, SinceOf(ts, n), ts[n].agent[1])

\* What is heard, answered and pending, of a recording set up as st.
SoundOk(hs, st, ts, p) ==
  /\ hs \in Seq(Utterance) /\ ts \in Seq(AnsweredTurn) /\ p \in Seq(Nat)
  /\ AnsweredOk(ts, SaidBy(hs, st, "caller"), Len(hs))
  /\ LastBetween(p, SaidBy(hs, st, "caller"), SinceOf(ts, Len(ts) + 1), Len(hs) + 1)
  /\ \A t \in SaidBy(hs, st, "agent") : \E n \in DOMAIN ts : ts[n].agent[1] = t

SoundInv == SoundOk(heard, setup, answered, pending)

LEMMA SaidNames ==
  ASSUME heard \in Seq(Utterance), NEW role
  PROVE  Said(role) = SaidBy(heard, setup, role)
<1>1. \A n \in DOMAIN heard : FirstSpeaker = heard[1].speaker
  BY DEF FirstSpeaker
<1>2. \A a, b : Role(a, b) = RoleBy(setup, a, b)
  BY DEF Role, RoleBy
<1> QED
  BY <1>1, <1>2 DEF Said, SaidBy

\* Another utterance.
FirstBy(hs, u) == IF hs = <<>> THEN u.speaker ELSE hs[1].speaker

LEMMA SaidMore ==
  ASSUME NEW hs \in Seq(Utterance), NEW u \in Utterance, NEW st, NEW role
  PROVE  LET more == u.text /\ RoleBy(st, u.speaker, FirstBy(hs, u)) = role IN
         /\ more => SaidBy(Append(hs, u), st, role) = SaidBy(hs, st, role) \cup {Len(hs) + 1}
         /\ ~more => SaidBy(Append(hs, u), st, role) = SaidBy(hs, st, role)
<1> DEFINE gs == Append(hs, u)
<1>1. /\ DOMAIN hs = 1 .. Len(hs) /\ Len(hs) \in Nat
      /\ DOMAIN gs = 1 .. Len(hs) + 1
      /\ \A n \in 1 .. Len(hs) : gs[n] = hs[n]
      /\ gs[Len(hs) + 1] = u
  OBVIOUS
<1>2. gs[1].speaker = FirstBy(hs, u)
  <2>1. CASE hs = <<>>
    BY <1>1, <2>1 DEF FirstBy
  <2>2. CASE hs # <<>>
    BY <1>1, <2>2 DEF FirstBy
  <2> QED
    BY <2>1, <2>2
<1>3. \A n \in 1 .. Len(hs) : hs # <<>>
  BY <1>1
<1> HIDE DEF gs
<1>4. DOMAIN gs = DOMAIN hs \cup {Len(hs) + 1} /\ Len(hs) + 1 \notin DOMAIN hs
  BY <1>1
<1>5. SaidBy(gs, st, role) =
        {n \in DOMAIN hs : hs[n].text /\ RoleBy(st, hs[n].speaker, hs[1].speaker) = role}
          \cup {n \in {Len(hs) + 1} : u.text /\ RoleBy(st, u.speaker, gs[1].speaker) = role}
  BY <1>1, <1>2, <1>3, <1>4 DEF SaidBy
<1> QED
  BY <1>2, <1>5 DEF SaidBy, gs

LEMMA SaidBound ==
  ASSUME NEW hs \in Seq(Utterance), NEW st, NEW role
  PROVE  \A t \in SaidBy(hs, st, role) : t \in Nat /\ t <= Len(hs)
BY DEF SaidBy

LEMMA SinceBound ==
  ASSUME NEW ts \in Seq(AnsweredTurn), NEW said, NEW length \in Nat, AnsweredOk(ts, said, length)
  PROVE  /\ SinceOf(ts, Len(ts) + 1) \in Nat /\ SinceOf(ts, Len(ts) + 1) <= length
         /\ \A m \in DOMAIN ts : ts[m].agent[1] <= SinceOf(ts, Len(ts) + 1)
<1>1. Len(ts) \in Nat /\ DOMAIN ts = 1 .. Len(ts)
  OBVIOUS
<1>2. CASE Len(ts) = 0
  BY <1>1, <1>2 DEF SinceOf
<1>3. CASE Len(ts) # 0
  <2>1. Len(ts) \in DOMAIN ts /\ SinceOf(ts, Len(ts) + 1) = ts[Len(ts)].agent[1]
    BY <1>1, <1>3 DEF SinceOf
  <2>2. SinceOf(ts, Len(ts) + 1) \in 1 .. length
    BY <2>1 DEF AnsweredOk
  <2>3. \A m \in DOMAIN ts : m < Len(ts) =>
          ts[m].agent[1] \in 1 .. length /\ ts[m].agent[1] <= SinceOf(ts, Len(ts))
    BY <2>1 DEF AnsweredOk
  <2>4. SinceOf(ts, Len(ts)) \in Nat /\ SinceOf(ts, Len(ts)) < ts[Len(ts)].agent[1]
    BY <2>1 DEF AnsweredOk
  <2>5. \A m \in DOMAIN ts : m < Len(ts) \/ m = Len(ts)
    BY <1>1
  <2> QED
    BY <2>1, <2>2, <2>3, <2>4, <2>5
<1> QED
  BY <1>2, <1>3

LEMMA SoundStart == SoundInit => SoundInv
<1> SUFFICES ASSUME SoundInit PROVE SoundInv
  OBVIOUS
<1>1. heard = <<>> /\ pending = <<>> /\ answered = <<>>
  BY DEF SoundInit, Nothing
<1>2. SaidBy(<<>>, setup, "caller") = {} /\ SaidBy(<<>>, setup, "agent") = {}
  BY DEF SaidBy
<1> QED
  BY <1>1, <1>2 DEF SoundInv, SoundOk, AnsweredOk, LastBetween

\* What was answered stays so when only later things are said.
LEMMA AnsweredStays ==
  ASSUME NEW ts, NEW said, NEW more, NEW length \in Nat, AnsweredOk(ts, said, length),
         more \in {{}, {length + 1}}
  PROVE  AnsweredOk(ts, said \cup more, length + 1)
<1> SUFFICES ASSUME NEW n \in DOMAIN ts
             PROVE  /\ ts[n].agent[1] \in 1 .. length + 1
                    /\ LastBetween(ts[n].caller, said \cup more, SinceOf(ts, n), ts[n].agent[1])
  BY DEF AnsweredOk
<1>1. ts[n].agent[1] \in 1 .. length
      /\ LastBetween(ts[n].caller, said, SinceOf(ts, n), ts[n].agent[1])
  BY DEF AnsweredOk
<1>2. \A t \in more : ~(t < ts[n].agent[1]) /\ t \in Nat
  BY <1>1
<1>3. CASE ts[n].caller = <<>> /\ \A t \in said : ~(SinceOf(ts, n) < t /\ t < ts[n].agent[1])
  BY <1>1, <1>2, <1>3 DEF LastBetween
<1>4. ASSUME NEW t \in said, ts[n].caller = <<t>>, SinceOf(ts, n) < t, t < ts[n].agent[1],
             \A u \in said : SinceOf(ts, n) < u /\ u < ts[n].agent[1] => u <= t
      PROVE  LastBetween(ts[n].caller, said \cup more, SinceOf(ts, n), ts[n].agent[1])
  <2>1. \A u \in said \cup more : SinceOf(ts, n) < u /\ u < ts[n].agent[1] => u <= t
    BY <1>2, <1>4
  <2> QED
    BY <1>4, <2>1 DEF LastBetween
<1> QED
  BY <1>1, <1>3, <1>4 DEF LastBetween

\* Nobody is recognised.
LEMMA SilenceKeeps ==
  ASSUME NEW hs, NEW st, NEW ts, NEW p, SoundOk(hs, st, ts, p), NEW u \in Utterance, ~u.text
  PROVE  SoundOk(Append(hs, u), st, ts, p)
<1>1. /\ hs \in Seq(Utterance) /\ Append(hs, u) \in Seq(Utterance)
      /\ Len(hs) \in Nat /\ Len(Append(hs, u)) = Len(hs) + 1
      /\ ts \in Seq(AnsweredTurn) /\ p \in Seq(Nat)
  BY DEF SoundOk
<1>2. \A role : SaidBy(Append(hs, u), st, role) = SaidBy(hs, st, role)
  BY <1>1, SaidMore
<1>3. AnsweredOk(ts, SaidBy(hs, st, "caller"), Len(hs) + 1)
  <2>1. AnsweredOk(ts, SaidBy(hs, st, "caller") \cup {}, Len(hs) + 1)
    BY <1>1, AnsweredStays DEF SoundOk
  <2> QED
    BY <2>1
<1>4. LastBetween(p, SaidBy(hs, st, "caller"), SinceOf(ts, Len(ts) + 1), Len(hs) + 2)
  <2>1. \A t \in SaidBy(hs, st, "caller") : t < Len(hs) + 2 <=> t < Len(hs) + 1
    BY <1>1, SaidBound
  <2> QED
    BY <2>1 DEF SoundOk, LastBetween
<1>5. Len(hs) + 1 + 1 = Len(hs) + 2
  BY <1>1
<1> QED
  BY <1>1, <1>2, <1>3, <1>4, <1>5 DEF SoundOk

\* The caller says something: it is what is to be answered.
LEMMA CallerKeeps ==
  ASSUME NEW hs, NEW st, NEW ts, NEW p, SoundOk(hs, st, ts, p), NEW u \in Utterance, u.text,
         RoleBy(st, u.speaker, FirstBy(hs, u)) = "caller"
  PROVE  SoundOk(Append(hs, u), st, ts, <<Len(hs) + 1>>)
<1> DEFINE N == Len(hs) + 1
           said == SaidBy(hs, st, "caller")
           since == SinceOf(ts, Len(ts) + 1)
<1>1. /\ hs \in Seq(Utterance) /\ Append(hs, u) \in Seq(Utterance)
      /\ Len(hs) \in Nat /\ Len(Append(hs, u)) = N
      /\ ts \in Seq(AnsweredTurn) /\ <<N>> \in Seq(Nat)
  BY DEF SoundOk
<1>2. /\ SaidBy(Append(hs, u), st, "caller") = said \cup {N}
      /\ SaidBy(Append(hs, u), st, "agent") = SaidBy(hs, st, "agent")
  BY <1>1, SaidMore
<1>3. AnsweredOk(ts, said \cup {N}, N)
  BY <1>1, AnsweredStays DEF SoundOk
<1>4. since \in Nat /\ since <= Len(hs)
  BY <1>1, SinceBound DEF SoundOk
<1>5. \A t \in said : t \in Nat /\ t <= Len(hs)
  BY <1>1, SaidBound
<1>6. LastBetween(<<N>>, said \cup {N}, since, N + 1)
  <2>1. since < N /\ N < N + 1
    BY <1>1, <1>4
  <2>2. \A t \in said \cup {N} : t <= N
    BY <1>1, <1>5
  <2> HIDE DEF N, said, since
  <2> QED
    BY <2>1, <2>2 DEF LastBetween
<1> QED
  BY <1>1, <1>2, <1>3, <1>6 DEF SoundOk

\* The agent says something: a turn more.
LEMMA AgentKeeps ==
  ASSUME NEW hs, NEW st, NEW ts, NEW p, SoundOk(hs, st, ts, p), NEW u \in Utterance, u.text,
         RoleBy(st, u.speaker, FirstBy(hs, u)) = "agent"
  PROVE  SoundOk(Append(hs, u), st,
                 Append(ts, [caller |-> p, agent |-> <<Len(hs) + 1>>]), <<>>)
<1> DEFINE N == Len(hs) + 1
           L == Len(ts)
           t == [caller |-> p, agent |-> <<N>>]
           us == Append(ts, t)
           said == SaidBy(hs, st, "caller")
<1>1. /\ hs \in Seq(Utterance) /\ Append(hs, u) \in Seq(Utterance)
      /\ Len(hs) \in Nat /\ Len(Append(hs, u)) = N
      /\ ts \in Seq(AnsweredTurn) /\ p \in Seq(Nat) /\ <<N>> \in Seq(Nat) /\ N \in Nat /\ <<>> \in Seq(Nat)
  BY DEF SoundOk
<1>2. t \in AnsweredTurn /\ t.agent[1] = N /\ t.agent = <<N>> /\ t.caller = p
  BY <1>1 DEF AnsweredTurn
<1> HIDE DEF t
<1>3. /\ us \in Seq(AnsweredTurn) /\ L \in Nat /\ Len(us) = L + 1 /\ DOMAIN us = 1 .. L + 1
      /\ DOMAIN ts = 1 .. L /\ us[L + 1] = t /\ \A n \in 1 .. L : us[n] = ts[n]
  BY <1>1, <1>2
<1> HIDE DEF us
<1>4. /\ SaidBy(Append(hs, u), st, "caller") = said
      /\ SaidBy(Append(hs, u), st, "agent") = SaidBy(hs, st, "agent") \cup {N}
  <2>1. RoleBy(st, u.speaker, FirstBy(hs, u)) # "caller"
    OBVIOUS
  <2>2. SaidBy(Append(hs, u), st, "caller") = SaidBy(hs, st, "caller")
    BY <1>1, <2>1, SaidMore
  <2>3. SaidBy(Append(hs, u), st, "agent") = SaidBy(hs, st, "agent") \cup {Len(hs) + 1}
    <3>1. hs \in Seq(Utterance)
      BY <1>1
    <3>2. u.text /\ RoleBy(st, u.speaker, FirstBy(hs, u)) = "agent"
      OBVIOUS
    <3> QED
      BY <3>1, <3>2, SaidMore
  <2> QED
    BY <2>2, <2>3
<1>5. AnsweredOk(ts, said, Len(hs)) /\ LastBetween(p, said, SinceOf(ts, L + 1), N)
  BY DEF SoundOk
<1>6. AnsweredOk(ts, said, N)
  <2>1. AnsweredOk(ts, said \cup {}, N)
    BY <1>1, <1>5, AnsweredStays
  <2> QED
    BY <2>1
<1>7. /\ SinceOf(ts, L + 1) \in Nat /\ SinceOf(ts, L + 1) < N
      /\ \A m \in DOMAIN ts : ts[m].agent[1] <= SinceOf(ts, L + 1)
  BY <1>1, <1>5, SinceBound
<1>8. \A n \in 1 .. L + 1 : SinceOf(us, n) = SinceOf(ts, n)
  BY <1>3 DEF SinceOf
<1>9. AnsweredOk(us, said, N)
  <2> SUFFICES ASSUME NEW n \in 1 .. L + 1
               PROVE  /\ us[n].agent[1] \in 1 .. N /\ us[n].agent = <<us[n].agent[1]>>
                      /\ SinceOf(us, n) \in Nat /\ SinceOf(us, n) < us[n].agent[1]
                      /\ \A m \in 1 .. L + 1 : m < n => us[m].agent[1] <= SinceOf(us, n)
                      /\ LastBetween(us[n].caller, said, SinceOf(us, n), us[n].agent[1])
    BY <1>3 DEF AnsweredOk
  <2>1. CASE n \in 1 .. L
    <3>1. n \in DOMAIN ts /\ us[n] = ts[n] /\ SinceOf(us, n) = SinceOf(ts, n)
      BY <1>3, <1>8, <2>1
    <3>2. \A m \in 1 .. L + 1 : m < n => m \in DOMAIN ts /\ us[m] = ts[m]
      BY <1>3, <2>1
    <3> QED
      BY <1>6, <3>1, <3>2 DEF AnsweredOk
  <2>2. CASE n = L + 1
    <3>1. us[n] = t /\ SinceOf(us, n) = SinceOf(ts, L + 1)
      BY <1>3, <1>8, <2>2
    <3>2. \A m \in 1 .. L + 1 : m < n => m \in DOMAIN ts /\ us[m] = ts[m]
      BY <1>3, <2>2
    <3>3. N \in 1 .. N
      BY <1>1
    <3> HIDE DEF N
    <3> QED
      BY <1>2, <1>5, <1>7, <3>1, <3>2, <3>3
  <2> QED
    BY <1>3, <2>1, <2>2
<1>10. LastBetween(<<>>, said, SinceOf(us, Len(us) + 1), N + 1)
  <2>1. SinceOf(us, Len(us) + 1) = N
    BY <1>2, <1>3 DEF SinceOf
  <2>2. \A x \in said : ~(N < x)
    BY <1>1, SaidBound
  <2> QED
    BY <2>1, <2>2 DEF LastBetween
<1>11. \A x \in SaidBy(hs, st, "agent") \cup {N} : \E n \in DOMAIN us : us[n].agent[1] = x
  <2>1. L + 1 \in DOMAIN us /\ us[L + 1].agent[1] = N
    BY <1>2, <1>3
  <2>2. \A n \in DOMAIN ts : n \in DOMAIN us /\ us[n] = ts[n]
    BY <1>3
  <2> QED
    BY <2>1, <2>2 DEF SoundOk
<1> HIDE DEF said, N, L
<1>12. SoundOk(Append(hs, u), st, us, <<>>)
  BY <1>1, <1>3, <1>4, <1>9, <1>10, <1>11 DEF SoundOk
<1> QED
  BY <1>12 DEF us, t, N

LEMMA SoundStep == SoundInv /\ [SoundNext]_soundVars => SoundInv'
<1> SUFFICES ASSUME SoundInv, [SoundNext]_soundVars PROVE SoundInv'
  OBVIOUS
<1>1. ASSUME NEW speaker \in {"A", "B"}, NEW text \in BOOLEAN, Say(speaker, text) PROVE SoundInv'
  <2> DEFINE u == [speaker |-> speaker, text |-> text]
             first == FirstBy(heard, u)
  <2>1. u \in Utterance /\ u.text = text /\ u.speaker = speaker
    BY DEF Utterance
  <2>2. heard' = Append(heard, u) /\ setup' = setup /\ heard \in Seq(Utterance)
    BY <1>1 DEF Say, SoundInv, SoundOk
  <2>3. Len(heard') = Len(heard) + 1
    BY <2>1, <2>2
  <2>4. \/ ~text /\ pending' = pending /\ answered' = answered
        \/ text /\ Role(speaker, first) = "caller" /\ CallerSays(Len(heard'))
        \/ text /\ Role(speaker, first) = "agent" /\ AgentSays(Len(heard'))
    BY <1>1 DEF Say, FirstSpeaker, FirstBy
  <2>5. Role(speaker, first) = RoleBy(setup, speaker, first)
    BY DEF Role, RoleBy
  <2> HIDE DEF u, first
  <2>6. CASE ~text /\ pending' = pending /\ answered' = answered
    BY <2>1, <2>2, <2>6, SilenceKeeps DEF SoundInv
  <2>7. CASE text /\ Role(speaker, first) = "caller" /\ CallerSays(Len(heard'))
    <3>1. pending' = <<Len(heard) + 1>> /\ answered' = answered
      BY <2>3, <2>7 DEF CallerSays
    <3>2. SoundOk(Append(heard, u), setup, answered, <<Len(heard) + 1>>)
      BY <2>1, <2>5, <2>7, CallerKeeps DEF SoundInv, first
    <3> QED
      BY <2>2, <3>1, <3>2 DEF SoundInv
  <2>8. CASE text /\ Role(speaker, first) = "agent" /\ AgentSays(Len(heard'))
    <3>1. pending' = <<>>
          /\ answered' = Append(answered, [caller |-> pending, agent |-> <<Len(heard) + 1>>])
      BY <2>3, <2>8 DEF AgentSays, Nothing
    <3>2. SoundOk(Append(heard, u), setup,
                  Append(answered, [caller |-> pending, agent |-> <<Len(heard) + 1>>]), <<>>)
      BY <2>1, <2>5, <2>8, AgentKeeps DEF SoundInv, first
    <3> QED
      BY <2>2, <3>1, <3>2 DEF SoundInv
  <2> QED
    BY <2>4, <2>6, <2>7, <2>8
<1>2. CASE UNCHANGED soundVars
  BY <1>2 DEF soundVars, SoundInv
<1> QED
  BY <1>1, <1>2 DEF SoundNext

\* What build_turns returns: the answered turns, and the open one if there is.
TillOf(ts, n, length) == IF ts[n].agent = <<>> THEN length + 1 ELSE ts[n].agent[1]

ToldOk(ts, said, length) ==
  \A n \in DOMAIN ts :
    /\ SinceOf(ts, n) \in Nat /\ TillOf(ts, n, length) \in Nat
    /\ SinceOf(ts, n) < TillOf(ts, n, length)
    /\ ts[n].agent = <<>> \/ ts[n].agent = <<TillOf(ts, n, length)>>
    /\ \A m \in DOMAIN ts : m < n => ts[m].agent # <<>> /\ TillOf(ts, m, length) <= SinceOf(ts, n)
    /\ LastBetween(ts[n].caller, said, SinceOf(ts, n), TillOf(ts, n, length))

LEMMA OneIsNotNone == \A x : <<x>> # <<>> /\ <<x>>[1] = x
OBVIOUS

LEMMA AnsweredTold ==
  ASSUME NEW ts, NEW said, NEW length \in Nat, AnsweredOk(ts, said, length)
  PROVE  ToldOk(ts, said, length)
<1>1. \A n \in DOMAIN ts : ts[n].agent # <<>> /\ TillOf(ts, n, length) = ts[n].agent[1]
                           /\ ts[n].agent[1] \in Nat
  BY OneIsNotNone DEF AnsweredOk, TillOf
<1> QED
  BY <1>1 DEF AnsweredOk, ToldOk

LEMMA TurnsTold ==
  ASSUME NEW hs, NEW st, NEW ts, NEW p, SoundOk(hs, st, ts, p)
  PROVE  ToldOk(IF p = <<>> THEN ts ELSE Append(ts, [caller |-> p, agent |-> <<>>]),
                SaidBy(hs, st, "caller"), Len(hs))
<1> DEFINE L == Len(ts)
           said == SaidBy(hs, st, "caller")
           t == [caller |-> p, agent |-> <<>>]
           us == Append(ts, t)
           length == Len(hs)
<1>1. /\ ts \in Seq(AnsweredTurn) /\ p \in Seq(Nat) /\ length \in Nat
      /\ AnsweredOk(ts, said, length) /\ LastBetween(p, said, SinceOf(ts, L + 1), length + 1)
  BY DEF SoundOk
<1>2. CASE p = <<>>
  BY <1>1, <1>2, AnsweredTold
<1>3. CASE p # <<>>
  <2>1. t \in AnsweredTurn /\ t.caller = p /\ t.agent = <<>>
    BY <1>1 DEF AnsweredTurn
  <2> HIDE DEF t
  <2>2. /\ L \in Nat /\ DOMAIN us = 1 .. L + 1 /\ DOMAIN ts = 1 .. L /\ us[L + 1] = t
        /\ \A n \in 1 .. L : us[n] = ts[n]
    BY <1>1, <2>1
  <2> HIDE DEF us
  <2>3. ToldOk(ts, said, length)
    BY <1>1, AnsweredTold
  <2>4. /\ SinceOf(ts, L + 1) \in Nat /\ SinceOf(ts, L + 1) <= length
        /\ \A m \in DOMAIN ts : ts[m].agent[1] <= SinceOf(ts, L + 1)
    BY <1>1, SinceBound
  <2>5. \A m \in DOMAIN ts : ts[m].agent # <<>> /\ TillOf(ts, m, length) = ts[m].agent[1]
    BY <1>1, OneIsNotNone DEF AnsweredOk, TillOf
  <2>6. \A n \in 1 .. L + 1 : SinceOf(us, n) = SinceOf(ts, n)
    BY <2>2 DEF SinceOf
  <2>7. /\ \A n \in 1 .. L : TillOf(us, n, length) = TillOf(ts, n, length)
        /\ TillOf(us, L + 1, length) = length + 1
    BY <2>1, <2>2 DEF TillOf
  <2>8. ToldOk(us, said, length)
    <3> SUFFICES ASSUME NEW n \in 1 .. L + 1
                 PROVE  /\ SinceOf(us, n) \in Nat /\ TillOf(us, n, length) \in Nat
                        /\ SinceOf(us, n) < TillOf(us, n, length)
                        /\ us[n].agent = <<>> \/ us[n].agent = <<TillOf(us, n, length)>>
                        /\ \A m \in 1 .. L + 1 : m < n =>
                             us[m].agent # <<>> /\ TillOf(us, m, length) <= SinceOf(us, n)
                        /\ LastBetween(us[n].caller, said, SinceOf(us, n), TillOf(us, n, length))
      BY <2>2 DEF ToldOk
    <3>1. \A m \in 1 .. L + 1 : m < n =>
            m \in DOMAIN ts /\ us[m] = ts[m] /\ TillOf(us, m, length) = TillOf(ts, m, length)
      BY <2>2, <2>7
    <3>2. CASE n \in 1 .. L
      <4>1. n \in DOMAIN ts /\ us[n] = ts[n] /\ SinceOf(us, n) = SinceOf(ts, n)
            /\ TillOf(us, n, length) = TillOf(ts, n, length)
        BY <2>2, <2>6, <2>7, <3>2
      <4> QED
        BY <2>3, <3>1, <4>1 DEF ToldOk
    <3>3. CASE n = L + 1
      <4>1. us[n] = t /\ SinceOf(us, n) = SinceOf(ts, L + 1) /\ TillOf(us, n, length) = length + 1
        BY <2>2, <2>6, <2>7, <3>3
      <4> HIDE DEF length, said, L
      <4> QED
        BY <1>1, <2>1, <2>4, <2>5, <3>1, <4>1
    <3> QED
      BY <2>2, <3>2, <3>3
  <2> QED
    BY <1>3, <2>8 DEF us, t
<1> QED
  BY <1>2, <1>3

\* The lines of a turn: at most the caller's and then the agent's.
LEMMA LinesOf ==
  ASSUME NEW t, NEW said, \A x \in said : x \in Nat, NEW since \in Nat, NEW till \in Nat,
         LastBetween(t.caller, said, since, till), t.agent = <<>> \/ t.agent = <<till>>,
         since < till
  PROVE  /\ \A i \in DOMAIN Lines(t) :
              /\ Lines(t)[i] \in Nat /\ since < Lines(t)[i] /\ Lines(t)[i] <= till
              /\ \A j \in DOMAIN Lines(t) : i < j => Lines(t)[i] < Lines(t)[j]
         /\ t.agent # <<>> => \E i \in DOMAIN Lines(t) : Lines(t)[i] = till
<1>1. CASE t.caller = <<>>
  <2>1. CASE t.agent = <<>>
    <3>1. Lines(t) = <<>>
      BY <1>1, <2>1 DEF Lines
    <3> QED
      BY <2>1, <3>1
  <2>2. CASE t.agent = <<till>>
    <3>1. Lines(t) = <<till>>
      BY <1>1, <2>2 DEF Lines
    <3>2. DOMAIN Lines(t) = {1} /\ Lines(t)[1] = till
      BY <3>1
    <3> QED
      BY <3>2
  <2> QED
    BY <2>1, <2>2
<1>2. ASSUME NEW x \in said, t.caller = <<x>>, since < x, x < till
      PROVE  /\ \A i \in DOMAIN Lines(t) :
                  /\ Lines(t)[i] \in Nat /\ since < Lines(t)[i] /\ Lines(t)[i] <= till
                  /\ \A j \in DOMAIN Lines(t) : i < j => Lines(t)[i] < Lines(t)[j]
             /\ t.agent # <<>> => \E i \in DOMAIN Lines(t) : Lines(t)[i] = till
  <2>0. x \in Nat
    OBVIOUS
  <2>1. CASE t.agent = <<>>
    <3>1. Lines(t) = <<x>>
      BY <1>2, <2>1 DEF Lines
    <3>2. DOMAIN Lines(t) = {1} /\ Lines(t)[1] = x
      BY <3>1
    <3> QED
      BY <1>2, <2>0, <2>1, <3>2
  <2>2. CASE t.agent = <<till>>
    <3>1. Lines(t) = <<x>> \o <<till>> /\ <<x>> \in Seq(Nat) /\ <<till>> \in Seq(Nat)
      BY <1>2, <2>0, <2>2 DEF Lines
    <3>2. DOMAIN Lines(t) = 1 .. 2 /\ Lines(t)[1] = x /\ Lines(t)[2] = till
      BY <3>1
    <3> QED
      BY <1>2, <2>0, <3>2
  <2> QED
    BY <2>1, <2>2
<1> QED
  BY <1>1, <1>2 DEF LastBetween

\* AudioOnly!TranscriptInOrder (worker/audio_stt.py build_turns): whoever speaks when, and
\* whatever of it is recognised, the transcript tells the utterances in the order they were
\* said, misses none of the agent's, and answers the last thing the caller said.
THEOREM TranscriptTold == SoundSpec => []TranscriptInOrder
<1>1. SoundInv => TranscriptInOrder
  <2> SUFFICES ASSUME SoundInv, setup.stt = "ok" PROVE TranscriptInOrder
    BY DEF TranscriptInOrder
  <2> DEFINE ts == SttTurns
             length == Len(heard)
  <2>1. ts = IF pending = <<>> THEN answered ELSE Append(answered, [caller |-> pending, agent |-> <<>>])
    BY DEF SttTurns, BuildTurns, Nothing
  <2>2. /\ heard \in Seq(Utterance) /\ length \in Nat /\ answered \in Seq(AnsweredTurn)
        /\ Said("caller") = SaidBy(heard, setup, "caller")
        /\ Said("agent") = SaidBy(heard, setup, "agent")
    BY SaidNames DEF SoundInv, SoundOk
  <2>3. ToldOk(ts, Said("caller"), length)
    BY <2>1, <2>2, TurnsTold DEF SoundInv
  <2>4. \A x \in Said("caller") : x \in Nat
    BY <2>2, SaidBound
  <2>5. /\ Len(answered) \in Nat
        /\ DOMAIN ts = 1 .. Len(answered) \/ DOMAIN ts = 1 .. Len(answered) + 1
        /\ \A n \in DOMAIN answered : n \in DOMAIN ts /\ ts[n] = answered[n]
    <3>1. CASE pending = <<>>
      BY <2>1, <2>2, <3>1
    <3>2. CASE pending # <<>>
      <4>1. ts = Append(answered, [caller |-> pending, agent |-> <<>>])
        BY <2>1, <3>2
      <4>2. [caller |-> pending, agent |-> <<>>] \in AnsweredTurn
        BY DEF SoundInv, SoundOk, AnsweredTurn
      <4> QED
        BY <2>2, <4>1, <4>2
    <3> QED
      BY <3>1, <3>2
  <2> HIDE DEF ts, length
  <2>6. ASSUME NEW n \in DOMAIN ts
        PROVE  /\ \A i \in DOMAIN Lines(ts[n]) :
                    /\ Lines(ts[n])[i] \in Nat /\ SinceOf(ts, n) < Lines(ts[n])[i]
                    /\ Lines(ts[n])[i] <= TillOf(ts, n, length)
                    /\ \A j \in DOMAIN Lines(ts[n]) : i < j => Lines(ts[n])[i] < Lines(ts[n])[j]
               /\ ts[n].agent # <<>> =>
                    \E i \in DOMAIN Lines(ts[n]) : Lines(ts[n])[i] = TillOf(ts, n, length)
    <3>1. /\ SinceOf(ts, n) \in Nat /\ TillOf(ts, n, length) \in Nat
          /\ SinceOf(ts, n) < TillOf(ts, n, length)
          /\ ts[n].agent = <<>> \/ ts[n].agent = <<TillOf(ts, n, length)>>
          /\ LastBetween(ts[n].caller, Said("caller"), SinceOf(ts, n), TillOf(ts, n, length))
      BY <2>3 DEF ToldOk
    <3> QED
      BY <2>4, <3>1, LinesOf
  <2>7. ASSUME NEW n \in DOMAIN ts, NEW m \in DOMAIN ts,
               NEW i \in DOMAIN Lines(ts[n]), NEW j \in DOMAIN Lines(ts[m]),
               n < m \/ (n = m /\ i < j)
        PROVE  Lines(ts[n])[i] < Lines(ts[m])[j]
    <3>1. CASE n < m
      <4>1. TillOf(ts, n, length) <= SinceOf(ts, m) /\ TillOf(ts, n, length) \in Nat
            /\ SinceOf(ts, m) \in Nat
        BY <2>3, <3>1 DEF ToldOk
      <4>2. /\ Lines(ts[n])[i] \in Nat /\ Lines(ts[n])[i] <= TillOf(ts, n, length)
            /\ Lines(ts[m])[j] \in Nat /\ SinceOf(ts, m) < Lines(ts[m])[j]
        BY <2>6
      <4> QED
        BY <4>1, <4>2
    <3>2. CASE n = m /\ i < j
      BY <2>6, <3>2
    <3> QED
      BY <2>7, <3>1, <3>2
  <2>8. ASSUME NEW t \in Said("agent")
        PROVE  \E n \in DOMAIN ts : \E i \in DOMAIN Lines(ts[n]) : Lines(ts[n])[i] = t
    <3>1. PICK n \in DOMAIN answered : answered[n].agent[1] = t
      BY <2>2 DEF SoundInv, SoundOk
    <3>2. n \in DOMAIN ts /\ ts[n] = answered[n]
      BY <2>5
    <3>3. ts[n].agent # <<>>
      BY <3>2, OneIsNotNone DEF SoundInv, SoundOk, AnsweredOk
    <3>4. TillOf(ts, n, length) = t
      BY <3>1, <3>2, <3>3 DEF TillOf
    <3> QED
      BY <2>6, <3>2, <3>3, <3>4
  <2>9. ASSUME NEW n \in DOMAIN ts
        PROVE  LET since == IF n = 1 THEN 0 ELSE ts[n - 1].agent[1]
                   till == IF ts[n].agent = <<>> THEN Len(heard) + 1 ELSE ts[n].agent[1]
                   asked == {t \in Said("caller") : since < t /\ t < till}
               IN  IF asked = {} THEN ts[n].caller = <<>>
                   ELSE ts[n].caller = <<CHOOSE t \in asked : \A u \in asked : u <= t>>
    <3> DEFINE since == IF n = 1 THEN 0 ELSE ts[n - 1].agent[1]
               till == IF ts[n].agent = <<>> THEN Len(heard) + 1 ELSE ts[n].agent[1]
               asked == {t \in Said("caller") : since < t /\ t < till}
    <3>1. since = SinceOf(ts, n) /\ till = TillOf(ts, n, length)
      BY DEF SinceOf, TillOf, length
    <3> HIDE DEF since, till
    <3>2. LastBetween(ts[n].caller, Said("caller"), since, till)
      BY <2>3, <3>1 DEF ToldOk
    <3>3. CASE ts[n].caller = <<>> /\ \A t \in Said("caller") : ~(since < t /\ t < till)
      <4>1. asked = {}
        BY <3>3
      <4> QED
        BY <3>3, <4>1 DEF since, till
    <3>4. ASSUME NEW t \in Said("caller"), ts[n].caller = <<t>>, since < t, t < till,
                 \A u \in Said("caller") : since < u /\ u < till => u <= t
          PROVE  asked # {} /\ ts[n].caller = <<CHOOSE x \in asked : \A u \in asked : u <= x>>
      <4>1. t \in asked /\ \A u \in asked : u <= t /\ u \in Nat
        BY <2>4, <3>4
      <4> HIDE DEF asked
      <4>2. \A x \in asked : (\A u \in asked : u <= x) => x = t
        BY <4>1
      <4>3. (CHOOSE x \in asked : \A u \in asked : u <= x) = t
        BY <4>1, <4>2
      <4> QED
        BY <3>4, <4>1, <4>3
    <3>5. IF asked = {} THEN ts[n].caller = <<>>
          ELSE ts[n].caller = <<CHOOSE t \in asked : \A u \in asked : u <= t>>
      BY <3>2, <3>3, <3>4 DEF LastBetween
    <3> QED
      BY <3>5 DEF since, till
  <2> QED
    BY <2>7, <2>8, <2>9 DEF TranscriptInOrder, ts
<1> QED
  BY <1>1, SoundStart, SoundStep, PTL DEF SoundSpec

-----------------------------------------------------------------------------
(* Turns from events.                                                      *)

Group == [sttFinal : Nat, committed : Nat, llmFirst : Nat, ttsFirst : Nat,
          transcript : Seq(Nat), llmRaw : Nat, llmSpoken : Nat,
          interrupted : BOOLEAN, agentSeen : BOOLEAN]

TurnType == [sttFinal : Nat, committed : Nat, llmFirst : Nat, ttsFirst : Nat,
             latency : Int, ttft : Int, transcript : Seq(Nat), llmRaw : Nat,
             llmSpoken : Nat, interrupted : BOOLEAN]

\* A turn that begins at one event, with its first audio at another and these words, and
\* ends before event e.
TurnOk(es, e, begins, first, words) ==
  /\ e \in 1 .. Len(es) + 1 /\ begins \in 0 .. e - 1
  /\ begins # 0 =>
       /\ es[begins] = "stt.final"
       /\ \A q, a \in begins .. e - 1 : es[q] = "stt.final" /\ es[a] \in AgentSide => q < a
  /\ first # 0 => first \in 1 .. e - 1 /\ begins <= first /\ es[first] = "tts.first_audio"
  /\ words \in Seq(Nat)
  /\ \A n \in DOMAIN words :
       /\ words[n] \in 1 .. e - 1 /\ begins <= words[n] /\ es[words[n]] = "stt.final"
       /\ \A m \in DOMAIN words : m < n => words[m] < words[n]

\* Where the closed turn k ends: with the next one, or with the open group.
EndOf(ts, last, k) == IF k < Len(ts) THEN ts[k + 1].sttFinal ELSE last

ClosedOk(es, ts, last) ==
  \A k \in DOMAIN ts :
    /\ TurnOk(es, EndOf(ts, last, k), ts[k].sttFinal, ts[k].ttsFirst, ts[k].transcript)
    /\ ts[k].latency = Latency(ts[k].sttFinal, ts[k].ttsFirst)
    /\ EndOf(ts, last, k) <= last
    /\ \A j \in DOMAIN ts : k < j => EndOf(ts, last, k) <= ts[j].sttFinal

\* The open group: without a word of the caller it is the first and there was none; and
\* it knows whether the agent said anything in it.
OpenOk(es, g) ==
  /\ TurnOk(es, Len(es) + 1, g.sttFinal, g.ttsFirst, g.transcript)
  /\ g.sttFinal = 0 => \A n \in DOMAIN es : es[n] # "stt.final"
  /\ \A n \in DOMAIN es : g.sttFinal <= n /\ es[n] \in AgentSide => g.agentSeen

EventsInv ==
  /\ events \in Seq(EventName) /\ cur \in Group /\ turns \in Seq(TurnType)
  /\ OpenOk(events, cur)
  /\ ClosedOk(events, turns, cur.sttFinal)

LEMMA NotedIs ==
  ASSUME events \in Seq(EventName), NEW g \in Group, NEW e \in EventName, NEW h \in BOOLEAN
  PROVE  LET t == Len(events) + 1
             n == Noted(g, e, h)
         IN  /\ n \in Group
             /\ n.sttFinal = IF e = "stt.final" /\ g.sttFinal = 0 THEN t ELSE g.sttFinal
             /\ n.ttsFirst = IF e = "tts.first_audio" /\ g.ttsFirst = 0 THEN t ELSE g.ttsFirst
             /\ n.transcript = IF e = "stt.final" /\ h THEN Append(g.transcript, t) ELSE g.transcript
             /\ n.agentSeen <=> g.agentSeen \/ e \in AgentSide
<1> DEFINE t == Len(events) + 1
           w == [sttFinal    |-> IF e = "stt.final" THEN SetDefault(g.sttFinal, t) ELSE g.sttFinal,
                 committed   |-> IF e = "turn.committed" THEN SetDefault(g.committed, t) ELSE g.committed,
                 llmFirst    |-> IF e = "llm.first_token" THEN SetDefault(g.llmFirst, t) ELSE g.llmFirst,
                 ttsFirst    |-> IF e = "tts.first_audio" THEN SetDefault(g.ttsFirst, t) ELSE g.ttsFirst,
                 transcript  |-> IF e = "stt.final" /\ h THEN Append(g.transcript, t) ELSE g.transcript,
                 llmRaw      |-> IF e = "llm.raw" /\ h THEN SetDefault(g.llmRaw, t) ELSE g.llmRaw,
                 llmSpoken   |-> IF e = "llm.spoken" /\ h THEN SetDefault(g.llmSpoken, t) ELSE g.llmSpoken,
                 interrupted |-> g.interrupted \/ e = "bargein",
                 agentSeen   |-> g.agentSeen \/ e \in AgentSide]
<1>1. t \in Nat
  OBVIOUS
<1>2. g = [sttFinal |-> g.sttFinal, committed |-> g.committed, llmFirst |-> g.llmFirst,
           ttsFirst |-> g.ttsFirst, transcript |-> g.transcript, llmRaw |-> g.llmRaw,
           llmSpoken |-> g.llmSpoken, interrupted |-> g.interrupted, agentSeen |-> g.agentSeen]
  BY DEF Group
<1> DEFINE fact == [g EXCEPT
             !.sttFinal    = IF e = "stt.final" THEN SetDefault(@, t) ELSE @,
             !.transcript  = IF e = "stt.final" /\ h THEN Append(@, t) ELSE @,
             !.committed   = IF e = "turn.committed" THEN SetDefault(@, t) ELSE @,
             !.llmFirst    = IF e = "llm.first_token" THEN SetDefault(@, t) ELSE @,
             !.llmRaw      = IF e = "llm.raw" /\ h THEN SetDefault(@, t) ELSE @,
             !.llmSpoken   = IF e = "llm.spoken" /\ h THEN SetDefault(@, t) ELSE @,
             !.ttsFirst    = IF e = "tts.first_audio" THEN SetDefault(@, t) ELSE @,
             !.interrupted = @ \/ e = "bargein"]
<1>9. Noted(g, e, h) = [fact EXCEPT !.agentSeen = @ \/ e \in AgentSide]
  BY Zenon DEF Noted
<1>10. fact = [sttFinal |-> w.sttFinal, committed |-> w.committed, llmFirst |-> w.llmFirst,
               ttsFirst |-> w.ttsFirst, transcript |-> w.transcript, llmRaw |-> w.llmRaw,
               llmSpoken |-> w.llmSpoken, interrupted |-> w.interrupted,
               agentSeen |-> g.agentSeen]
  <2> DEFINE sf == IF e = "stt.final" THEN SetDefault(g.sttFinal, t) ELSE g.sttFinal
             cm == IF e = "turn.committed" THEN SetDefault(g.committed, t) ELSE g.committed
             lf == IF e = "llm.first_token" THEN SetDefault(g.llmFirst, t) ELSE g.llmFirst
             tf == IF e = "tts.first_audio" THEN SetDefault(g.ttsFirst, t) ELSE g.ttsFirst
             tr == IF e = "stt.final" /\ h THEN Append(g.transcript, t) ELSE g.transcript
             lr == IF e = "llm.raw" /\ h THEN SetDefault(g.llmRaw, t) ELSE g.llmRaw
             ls == IF e = "llm.spoken" /\ h THEN SetDefault(g.llmSpoken, t) ELSE g.llmSpoken
             ir == g.interrupted \/ e = "bargein"
  <2>1. fact = [g EXCEPT !.sttFinal = sf, !.transcript = tr, !.committed = cm, !.llmFirst = lf,
                         !.llmRaw = lr, !.llmSpoken = ls, !.ttsFirst = tf, !.interrupted = ir]
    BY Zenon
  <2>2. w = [sttFinal |-> sf, committed |-> cm, llmFirst |-> lf, ttsFirst |-> tf,
             transcript |-> tr, llmRaw |-> lr, llmSpoken |-> ls, interrupted |-> ir,
             agentSeen |-> g.agentSeen \/ e \in AgentSide]
    BY Zenon
  <2> HIDE DEF fact, w, sf, cm, lf, tf, tr, lr, ls, ir
  <2> QED
    BY <1>2, <2>1, <2>2
<1>3. Noted(g, e, h) = w
  <2>1. w = [sttFinal |-> w.sttFinal, committed |-> w.committed, llmFirst |-> w.llmFirst,
             ttsFirst |-> w.ttsFirst, transcript |-> w.transcript, llmRaw |-> w.llmRaw,
             llmSpoken |-> w.llmSpoken, interrupted |-> w.interrupted,
             agentSeen |-> g.agentSeen \/ e \in AgentSide]
    OBVIOUS
  <2> HIDE DEF fact, w
  <2> QED
    BY <1>9, <1>10, <2>1
<1>4. /\ g.sttFinal \in Nat /\ g.committed \in Nat /\ g.llmFirst \in Nat /\ g.ttsFirst \in Nat
      /\ g.transcript \in Seq(Nat) /\ g.llmRaw \in Nat /\ g.llmSpoken \in Nat
  BY DEF Group
<1>5. \A x \in Nat : SetDefault(x, t) \in Nat
  BY <1>1 DEF SetDefault
<1>6. Append(g.transcript, t) \in Seq(Nat)
  BY <1>1, <1>4
<1>7. w \in Group
  BY <1>4, <1>5, <1>6 DEF Group
<1>8. /\ w.sttFinal = IF e = "stt.final" /\ g.sttFinal = 0 THEN t ELSE g.sttFinal
      /\ w.ttsFirst = IF e = "tts.first_audio" /\ g.ttsFirst = 0 THEN t ELSE g.ttsFirst
      /\ w.transcript = IF e = "stt.final" /\ h THEN Append(g.transcript, t) ELSE g.transcript
      /\ w.agentSeen <=> g.agentSeen \/ e \in AgentSide
  BY DEF SetDefault
<1> QED
  BY <1>3, <1>7, <1>8

LEMMA OneMoreEvent ==
  ASSUME NEW es \in Seq(EventName), NEW x \in EventName
  PROVE  LET fs == Append(es, x) IN
         /\ fs \in Seq(EventName) /\ Len(fs) = Len(es) + 1 /\ Len(es) \in Nat
         /\ DOMAIN es = 1 .. Len(es) /\ DOMAIN fs = 1 .. Len(es) + 1
         /\ fs[Len(es) + 1] = x /\ \A n \in 1 .. Len(es) : fs[n] = es[n]
OBVIOUS

\* A turn that has ended stays as it is.
LEMMA TurnStays ==
  ASSUME NEW es \in Seq(EventName), NEW x \in EventName, NEW e, NEW b, NEW f, NEW w,
         TurnOk(es, e, b, f, w)
  PROVE  TurnOk(Append(es, x), e, b, f, w)
<1> DEFINE fs == Append(es, x)
<1>1. /\ Len(fs) = Len(es) + 1 /\ Len(es) \in Nat /\ \A n \in 1 .. Len(es) : fs[n] = es[n]
  BY OneMoreEvent
<1> HIDE DEF fs
<1>2. e \in 1 .. Len(es) + 1 /\ b \in 0 .. e - 1 /\ e \in 1 .. Len(fs) + 1
  BY <1>1 DEF TurnOk
<1>3. \A n \in 1 .. e - 1 : fs[n] = es[n]
  BY <1>1, <1>2
<1>4. b # 0 => /\ fs[b] = "stt.final"
               /\ \A q, a \in b .. e - 1 : fs[q] = "stt.final" /\ fs[a] \in AgentSide => q < a
  <2> SUFFICES ASSUME b # 0
               PROVE  /\ fs[b] = "stt.final"
                      /\ \A q, a \in b .. e - 1 : fs[q] = "stt.final" /\ fs[a] \in AgentSide => q < a
    OBVIOUS
  <2>1. b \in 1 .. e - 1 /\ \A q \in b .. e - 1 : q \in 1 .. e - 1
    BY <1>2
  <2> QED
    BY <1>3, <2>1 DEF TurnOk
<1>5. TurnOk(fs, e, b, f, w)
  BY <1>2, <1>3, <1>4 DEF TurnOk
<1> QED
  BY <1>5 DEF fs

\* A group that begins with the last event.
LEMMA FreshOk ==
  ASSUME NEW es \in Seq(EventName), NEW n \in Group,
         n.sttFinal = Len(es) + 1, n.ttsFirst = 0,
         \A i \in DOMAIN n.transcript : i = 1 /\ n.transcript[i] = Len(es) + 1
  PROVE  OpenOk(Append(es, "stt.final"), n)
<1> DEFINE t == Len(es) + 1
           fs == Append(es, "stt.final")
<1>1. /\ Len(fs) = t /\ t \in Nat \ {0} /\ DOMAIN fs = 1 .. t /\ fs[t] = "stt.final"
      /\ n.sttFinal = t /\ n.transcript \in Seq(Nat)
      /\ \A i \in DOMAIN n.transcript : i = 1 /\ n.transcript[i] = t
  BY OneMoreEvent DEF EventName, Group
<1> HIDE DEF t, fs
<1>2. "stt.final" \notin AgentSide
  BY DEF AgentSide
<1>3. TurnOk(fs, t + 1, n.sttFinal, n.ttsFirst, n.transcript)
  <2>1. \A q, a \in t .. t : ~(fs[q] = "stt.final" /\ fs[a] \in AgentSide)
    BY <1>1, <1>2
  <2>2. t \in 0 .. t /\ t \in 1 .. t /\ t + 1 \in 1 .. t + 1 /\ t + 1 - 1 = t
    BY <1>1
  <2>3. \A i \in DOMAIN n.transcript :
          /\ n.transcript[i] \in 1 .. t /\ t <= n.transcript[i] /\ fs[n.transcript[i]] = "stt.final"
          /\ \A m \in DOMAIN n.transcript : ~(m < i)
    BY <1>1, <2>2
  <2> QED
    BY <1>1, <2>1, <2>2, <2>3 DEF TurnOk
<1>4. \A i \in 1 .. t : t <= i /\ fs[i] \in AgentSide => n.agentSeen
  BY <1>1, <1>2
<1> QED
  BY <1>1, <1>3, <1>4 DEF OpenOk, fs

\* An event that goes into the open group.
LEMMA OpenNoted ==
  ASSUME events \in Seq(EventName), NEW g \in Group, OpenOk(events, g), NEW e \in EventName,
         NEW h \in BOOLEAN, ~(e = "stt.final" /\ g.agentSeen)
  PROVE  OpenOk(Append(events, e), Noted(g, e, h))
<1> DEFINE t == Len(events) + 1
           n == Noted(g, e, h)
           fs == Append(events, e)
<1>1. /\ n \in Group
      /\ n.sttFinal = IF e = "stt.final" /\ g.sttFinal = 0 THEN t ELSE g.sttFinal
      /\ n.ttsFirst = IF e = "tts.first_audio" /\ g.ttsFirst = 0 THEN t ELSE g.ttsFirst
      /\ n.transcript = IF e = "stt.final" /\ h THEN Append(g.transcript, t) ELSE g.transcript
      /\ n.agentSeen <=> g.agentSeen \/ e \in AgentSide
  BY NotedIs
<1>2. /\ Len(fs) = t /\ t \in Nat \ {0} /\ DOMAIN events = 1 .. t - 1 /\ DOMAIN fs = 1 .. t
      /\ fs[t] = e /\ \A i \in 1 .. t - 1 : fs[i] = events[i]
  BY OneMoreEvent
<1>3. /\ g.sttFinal \in Nat /\ g.ttsFirst \in Nat /\ g.transcript \in Seq(Nat)
      /\ n.sttFinal \in Nat /\ n.ttsFirst \in Nat /\ n.transcript \in Seq(Nat)
  BY <1>1 DEF Group
<1> HIDE DEF n, fs
<1>4. /\ g.sttFinal \in 0 .. t - 1
      /\ g.sttFinal # 0 =>
           /\ events[g.sttFinal] = "stt.final"
           /\ \A q, a \in g.sttFinal .. t - 1 :
                events[q] = "stt.final" /\ events[a] \in AgentSide => q < a
      /\ g.ttsFirst # 0 => /\ g.ttsFirst \in 1 .. t - 1 /\ g.sttFinal <= g.ttsFirst
                           /\ events[g.ttsFirst] = "tts.first_audio"
      /\ \A i \in DOMAIN g.transcript :
           /\ g.transcript[i] \in 1 .. t - 1 /\ g.sttFinal <= g.transcript[i]
           /\ events[g.transcript[i]] = "stt.final"
           /\ \A m \in DOMAIN g.transcript : m < i => g.transcript[m] < g.transcript[i]
      /\ g.sttFinal = 0 => \A i \in 1 .. t - 1 : events[i] # "stt.final"
      /\ \A i \in 1 .. t - 1 : g.sttFinal <= i /\ events[i] \in AgentSide => g.agentSeen
  BY <1>2 DEF OpenOk, TurnOk
<1> HIDE DEF t
<1>5. "stt.final" \notin AgentSide /\ "tts.first_audio" \in AgentSide
  BY DEF AgentSide
\* Where the caller's first word comes now, nothing is in the group that the property knows.
<1>6. CASE e = "stt.final" /\ g.sttFinal = 0
  <2>1. n.sttFinal = t /\ ~g.agentSeen /\ n.ttsFirst = g.ttsFirst
    BY <1>1, <1>6
  <2>2. g.ttsFirst = 0
    BY <1>4, <1>5, <1>6, <2>1
  <2>3. DOMAIN g.transcript = {}
    BY <1>4, <1>6
  <2>4. Len(g.transcript) = 0 /\ Len(g.transcript) \in Nat
    <3>1. Len(g.transcript) \in Nat /\ DOMAIN g.transcript = 1 .. Len(g.transcript)
      BY <1>3
    <3>2. 1 \notin 1 .. Len(g.transcript)
      BY <2>3, <3>1
    <3> QED
      BY <3>1, <3>2
  <2>5. \A i \in DOMAIN n.transcript : i = 1 /\ n.transcript[i] = t
    BY <1>1, <1>2, <1>3, <1>6, <2>3, <2>4
  <2> QED
    BY <1>1, <1>6, <2>1, <2>2, <2>5, FreshOk DEF n, fs, t
<1>7. CASE ~(e = "stt.final" /\ g.sttFinal = 0)
  <2>1. n.sttFinal = g.sttFinal
    BY <1>1, <1>7
  <2>2. g.sttFinal # 0 =>
          /\ fs[g.sttFinal] = "stt.final"
          /\ \A q, a \in g.sttFinal .. t : fs[q] = "stt.final" /\ fs[a] \in AgentSide => q < a
    <3> SUFFICES ASSUME g.sttFinal # 0, NEW q \in g.sttFinal .. t, NEW a \in g.sttFinal .. t,
                        fs[q] = "stt.final", fs[a] \in AgentSide
                 PROVE  fs[g.sttFinal] = "stt.final" /\ q < a
      <4>1. g.sttFinal # 0 => fs[g.sttFinal] = "stt.final"
        BY <1>2, <1>3, <1>4
      <4> QED
        BY <4>1
    <3>1. fs[g.sttFinal] = "stt.final"
      BY <1>2, <1>3, <1>4
    <3>2. CASE q = t
      <4>1. a # t
        BY <1>2, <1>5, <3>2
      <4>2. a \in 1 .. t - 1 /\ g.sttFinal <= a /\ events[a] \in AgentSide
        BY <1>2, <1>3, <4>1
      <4>3. e = "stt.final" /\ g.agentSeen
        BY <1>2, <1>4, <3>2, <4>2
      <4> QED
        BY <4>3
    <3>3. CASE q # t /\ a = t
      BY <1>2, <1>3, <3>1, <3>3
    <3>4. CASE q # t /\ a # t
      <4>1. q \in g.sttFinal .. t - 1 /\ a \in g.sttFinal .. t - 1
        BY <1>2, <1>3, <3>4
      <4>2. fs[q] = events[q] /\ fs[a] = events[a]
        BY <1>2, <1>3, <4>1
      <4> QED
        BY <1>4, <3>1, <4>1, <4>2
    <3> QED
      BY <3>2, <3>3, <3>4
  <2>3. n.ttsFirst # 0 => /\ n.ttsFirst \in 1 .. t /\ g.sttFinal <= n.ttsFirst
                          /\ fs[n.ttsFirst] = "tts.first_audio"
    <3>1. CASE e = "tts.first_audio" /\ g.ttsFirst = 0
      <4>1. n.ttsFirst = t
        BY <1>1, <3>1
      <4> QED
        BY <1>2, <1>3, <1>4, <3>1, <4>1
    <3>2. CASE ~(e = "tts.first_audio" /\ g.ttsFirst = 0)
      <4>1. n.ttsFirst = g.ttsFirst
        BY <1>1, <3>2
      <4> QED
        BY <1>2, <1>3, <1>4, <4>1
    <3> QED
      BY <3>1, <3>2
  <2>4. \A i \in DOMAIN n.transcript :
          /\ n.transcript[i] \in 1 .. t /\ g.sttFinal <= n.transcript[i]
          /\ fs[n.transcript[i]] = "stt.final"
          /\ \A m \in DOMAIN n.transcript : m < i => n.transcript[m] < n.transcript[i]
    <3>1. \A i \in DOMAIN g.transcript :
            /\ g.transcript[i] \in 1 .. t /\ g.transcript[i] < t /\ g.sttFinal <= g.transcript[i]
            /\ fs[g.transcript[i]] = "stt.final"
            /\ \A m \in DOMAIN g.transcript : m < i => g.transcript[m] < g.transcript[i]
      BY <1>2, <1>3, <1>4
    <3>2. CASE e = "stt.final" /\ h
      <4>1. n.transcript = Append(g.transcript, t) /\ fs[t] = "stt.final" /\ g.sttFinal <= t
        BY <1>1, <1>2, <1>3, <1>4, <3>2
      <4>2. /\ Len(g.transcript) \in Nat /\ DOMAIN g.transcript = 1 .. Len(g.transcript)
            /\ DOMAIN n.transcript = 1 .. Len(g.transcript) + 1
            /\ n.transcript[Len(g.transcript) + 1] = t
            /\ \A i \in 1 .. Len(g.transcript) : n.transcript[i] = g.transcript[i]
        BY <1>2, <1>3, <4>1
      <4>3. \A i \in DOMAIN n.transcript : i \in DOMAIN g.transcript \/ i = Len(g.transcript) + 1
        BY <4>2
      <4>4. \A i, m \in DOMAIN n.transcript : m < i => m \in DOMAIN g.transcript
        BY <4>2
      <4>5. t \in 1 .. t
        BY <1>2
      <4> QED
        BY <3>1, <4>1, <4>2, <4>3, <4>4, <4>5
    <3>3. CASE ~(e = "stt.final" /\ h)
      <4>1. n.transcript = g.transcript
        BY <1>1, <3>3
      <4> QED
        BY <3>1, <4>1
    <3> QED
      BY <3>2, <3>3
  <2>5. t + 1 \in 1 .. t + 1 /\ g.sttFinal \in 0 .. t /\ t + 1 - 1 = t
    BY <1>2, <1>4
  <2>6. TurnOk(fs, t + 1, g.sttFinal, n.ttsFirst, n.transcript)
    BY <1>2, <1>3, <2>2, <2>3, <2>4, <2>5 DEF TurnOk
  <2>7. g.sttFinal = 0 => \A i \in 1 .. t : fs[i] # "stt.final"
    BY <1>2, <1>4, <1>7
  <2>8. \A i \in 1 .. t : g.sttFinal <= i /\ fs[i] \in AgentSide => n.agentSeen
    BY <1>1, <1>2, <1>4
  <2> QED
    BY <1>2, <2>1, <2>6, <2>7, <2>8 DEF OpenOk, n, fs
<1> QED
  BY <1>6, <1>7

LEMMA OpenFresh ==
  ASSUME events \in Seq(EventName), NEW h \in BOOLEAN
  PROVE  LET n == Noted(EmptyGroup, "stt.final", h) IN
         /\ n \in Group /\ n.sttFinal = Len(events) + 1
         /\ OpenOk(Append(events, "stt.final"), n)
<1> DEFINE n == Noted(EmptyGroup, "stt.final", h)
           t == Len(events) + 1
<1>1. /\ EmptyGroup \in Group /\ "stt.final" \in EventName
      /\ EmptyGroup.sttFinal = 0 /\ EmptyGroup.ttsFirst = 0 /\ EmptyGroup.transcript = <<>>
  BY DEF EmptyGroup, Group, EventName
<1>2. /\ n \in Group /\ n.sttFinal = t /\ n.ttsFirst = 0
      /\ n.transcript = IF h THEN Append(<<>>, t) ELSE <<>>
  <2> DEFINE e == "stt.final"
  <2>1. e # "tts.first_audio" /\ e = "stt.final"
    OBVIOUS
  <2>3. e \in EventName /\ n = Noted(EmptyGroup, e, h) /\ EmptyGroup \in Group
    BY <1>1
  <2> HIDE DEF e, n
  <2>2. /\ n \in Group
        /\ n.sttFinal = IF e = "stt.final" /\ EmptyGroup.sttFinal = 0 THEN t ELSE EmptyGroup.sttFinal
        /\ n.ttsFirst = IF e = "tts.first_audio" /\ EmptyGroup.ttsFirst = 0 THEN t
                        ELSE EmptyGroup.ttsFirst
        /\ n.transcript = IF e = "stt.final" /\ h THEN Append(EmptyGroup.transcript, t)
                          ELSE EmptyGroup.transcript
    BY <2>3, NotedIs
  <2> QED
    BY <1>1, <2>1, <2>2
<1>3. t \in Nat /\ DOMAIN Append(<<>>, t) = {1} /\ Append(<<>>, t)[1] = t
  OBVIOUS
<1> HIDE DEF n, t
<1>4. \A i \in DOMAIN n.transcript : i = 1 /\ n.transcript[i] = t
  BY <1>2, <1>3
<1> QED
  BY <1>2, <1>4, FreshOk DEF n, t

LEMMA ClosedStays ==
  ASSUME NEW es \in Seq(EventName), NEW x \in EventName, NEW ts, NEW last,
         ClosedOk(es, ts, last)
  PROVE  ClosedOk(Append(es, x), ts, last)
BY TurnStays DEF ClosedOk

\* Before the caller's first word no turn has been closed.
LEMMA NoneClosed ==
  ASSUME NEW es, NEW ts \in Seq(TurnType), ClosedOk(es, ts, 0)
  PROVE  ts = <<>>
<1> SUFFICES ASSUME ts # <<>> PROVE FALSE
  OBVIOUS
<1>1. Len(ts) \in DOMAIN ts /\ ~(Len(ts) < Len(ts))
  OBVIOUS
<1>2. 0 \in 1 .. Len(es) + 1
  BY <1>1 DEF ClosedOk, TurnOk, EndOf
<1> QED
  BY <1>2

\* The open group closed at the end of the events.
LEMMA ClosedGrows ==
  ASSUME NEW es \in Seq(EventName), NEW g \in Group, OpenOk(es, g),
         NEW ts \in Seq(TurnType), ClosedOk(es, ts, g.sttFinal)
  PROVE  /\ Append(ts, Turn(g)) \in Seq(TurnType)
         /\ ClosedOk(es, Append(ts, Turn(g)), Len(es) + 1)
<1> DEFINE u == Turn(g)
           us == Append(ts, u)
           last == Len(es) + 1
           b == g.sttFinal
<1>1. /\ g.sttFinal \in Nat /\ g.committed \in Nat /\ g.llmFirst \in Nat /\ g.ttsFirst \in Nat
      /\ g.transcript \in Seq(Nat) /\ g.llmRaw \in Nat /\ g.llmSpoken \in Nat
      /\ g.interrupted \in BOOLEAN
  BY DEF Group
<1>2. \A x, y \in Nat : Latency(x, y) \in Int
  BY DEF Latency, NoLatency
<1>3. u \in TurnType
  BY <1>1, <1>2 DEF Turn, TurnType
<1>4. /\ u.sttFinal = b /\ u.ttsFirst = g.ttsFirst /\ u.transcript = g.transcript
      /\ u.latency = Latency(b, g.ttsFirst)
  BY DEF Turn
<1> HIDE DEF u
<1>5. /\ us \in Seq(TurnType) /\ Len(us) = Len(ts) + 1 /\ Len(ts) \in Nat
      /\ us[Len(ts) + 1] = u /\ \A k \in 1 .. Len(ts) : us[k] = ts[k]
      /\ DOMAIN us = 1 .. Len(ts) + 1 /\ DOMAIN ts = 1 .. Len(ts)
  BY <1>3
<1>6. last \in Nat /\ TurnOk(es, last, b, g.ttsFirst, g.transcript) /\ b \in 0 .. last - 1
  BY DEF OpenOk, TurnOk
<1> HIDE DEF us, last
<1>7. \A k \in 1 .. Len(ts) : EndOf(us, last, k) = EndOf(ts, b, k)
  <2> SUFFICES ASSUME NEW k \in 1 .. Len(ts) PROVE EndOf(us, last, k) = EndOf(ts, b, k)
    OBVIOUS
  <2>1. CASE k < Len(ts)
    <3>1. k < Len(us) /\ k + 1 \in 1 .. Len(ts)
      BY <1>5, <2>1
    <3> QED
      BY <1>5, <2>1, <3>1 DEF EndOf
  <2>2. CASE ~(k < Len(ts))
    <3>1. k = Len(ts) /\ k < Len(us)
      <4>1. Len(ts) \in Nat /\ Len(us) = Len(ts) + 1 /\ k \in 1 .. Len(ts)
        BY <1>5
      <4> QED
        BY <2>2, <4>1
    <3> QED
      BY <1>4, <1>5, <2>2, <3>1 DEF EndOf
  <2> QED
    BY <2>1, <2>2
<1>8. EndOf(us, last, Len(ts) + 1) = last
  BY <1>5 DEF EndOf
<1>9. ASSUME NEW k \in 1 .. Len(ts)
      PROVE  /\ TurnOk(es, EndOf(us, last, k), us[k].sttFinal, us[k].ttsFirst, us[k].transcript)
             /\ us[k].latency = Latency(us[k].sttFinal, us[k].ttsFirst)
             /\ EndOf(us, last, k) <= last
             /\ \A j \in DOMAIN us : k < j => EndOf(us, last, k) <= us[j].sttFinal
  <2>1. us[k] = ts[k] /\ k \in DOMAIN ts /\ EndOf(us, last, k) = EndOf(ts, b, k)
    BY <1>5, <1>7
  <2>2. TurnOk(es, EndOf(ts, b, k), ts[k].sttFinal, ts[k].ttsFirst, ts[k].transcript)
    BY <2>1 DEF ClosedOk
  <2>3. EndOf(ts, b, k) \in Nat /\ EndOf(ts, b, k) <= b
    BY <2>1, <2>2 DEF ClosedOk, TurnOk
  <2>4. ASSUME NEW j \in DOMAIN us, k < j PROVE EndOf(ts, b, k) <= us[j].sttFinal
    <3>1. CASE j \in 1 .. Len(ts)
      BY <1>5, <2>1, <2>4, <3>1 DEF ClosedOk
    <3>2. CASE j = Len(ts) + 1
      BY <1>4, <1>5, <2>3, <3>2
    <3> QED
      BY <1>5, <3>1, <3>2
  <2>5. ts[k].latency = Latency(ts[k].sttFinal, ts[k].ttsFirst)
    BY <2>1 DEF ClosedOk
  <2>6. EndOf(ts, b, k) <= last
    BY <1>6, <2>3
  <2> QED
    BY <2>1, <2>2, <2>4, <2>5, <2>6
<1>10. \A j \in DOMAIN us : ~(Len(ts) + 1 < j)
  BY <1>5
<1>11. ClosedOk(es, us, last)
  <2> SUFFICES ASSUME NEW k \in DOMAIN us
               PROVE  /\ TurnOk(es, EndOf(us, last, k), us[k].sttFinal, us[k].ttsFirst, us[k].transcript)
                      /\ us[k].latency = Latency(us[k].sttFinal, us[k].ttsFirst)
                      /\ EndOf(us, last, k) <= last
                      /\ \A j \in DOMAIN us : k < j => EndOf(us, last, k) <= us[j].sttFinal
    BY DEF ClosedOk
  <2>1. CASE k = Len(ts) + 1
    BY <1>4, <1>5, <1>6, <1>8, <1>10, <2>1
  <2> QED
    BY <1>5, <1>9, <2>1
<1> QED
  BY <1>5, <1>11 DEF us, u, last

\* The turns the function would return here.
LEMMA AllClosed ==
  ASSUME EventsInv
  PROVE  Closed(cur) \in Seq(TurnType) /\ ClosedOk(events, Closed(cur), Len(events) + 1)
<1>1. /\ events \in Seq(EventName) /\ cur \in Group /\ turns \in Seq(TurnType)
      /\ OpenOk(events, cur) /\ ClosedOk(events, turns, cur.sttFinal)
  BY DEF EventsInv
<1>2. CASE KeptGroup(cur)
  <2>1. Closed(cur) = Append(turns, Turn(cur))
    BY <1>2 DEF Closed
  <2> QED
    BY <1>1, <2>1, ClosedGrows
<1>3. CASE ~KeptGroup(cur)
  <2>1. cur.sttFinal = 0 /\ Closed(cur) = turns
    BY <1>3 DEF KeptGroup, Closed
  <2>2. turns = <<>>
    BY <1>1, <2>1, NoneClosed
  <2>3. ClosedOk(events, <<>>, Len(events) + 1)
    BY DEF ClosedOk
  <2> QED
    BY <1>1, <2>1, <2>2, <2>3
<1> QED
  BY <1>2, <1>3

LEMMA EventsStart == EventsInit => EventsInv
<1> SUFFICES ASSUME EventsInit PROVE EventsInv
  OBVIOUS
<1>1. events = <<>> /\ cur = EmptyGroup /\ turns = <<>>
  BY DEF EventsInit
<1>2. /\ EmptyGroup \in Group /\ EmptyGroup.sttFinal = 0 /\ EmptyGroup.ttsFirst = 0
      /\ EmptyGroup.transcript = <<>>
  BY DEF EmptyGroup, Group
<1>3. TurnOk(<<>>, 1, 0, 0, <<>>)
  BY DEF TurnOk
<1>4. OpenOk(<<>>, EmptyGroup)
  BY <1>2, <1>3 DEF OpenOk
<1>5. ClosedOk(<<>>, <<>>, 0)
  BY DEF ClosedOk
<1> QED
  BY <1>1, <1>2, <1>4, <1>5 DEF EventsInv

LEMMA EventsStep == EventsInv /\ [EventsNext]_turnVars => EventsInv'
<1> SUFFICES ASSUME EventsInv, [EventsNext]_turnVars PROVE EventsInv'
  OBVIOUS
<1>1. /\ events \in Seq(EventName) /\ cur \in Group /\ turns \in Seq(TurnType)
      /\ OpenOk(events, cur) /\ ClosedOk(events, turns, cur.sttFinal)
  BY DEF EventsInv
<1>2. SUFFICES /\ events' \in Seq(EventName) /\ cur' \in Group /\ turns' \in Seq(TurnType)
               /\ OpenOk(events', cur') /\ ClosedOk(events', turns', cur'.sttFinal)
  BY DEF EventsInv
<1>3. CASE UNCHANGED turnVars
  BY <1>1, <1>3 DEF turnVars
<1>4. ASSUME NEW e \in EventName, NEW h \in BOOLEAN, Event(e, h)
      PROVE  /\ events' \in Seq(EventName) /\ cur' \in Group /\ turns' \in Seq(TurnType)
             /\ OpenOk(events', cur') /\ ClosedOk(events', turns', cur'.sttFinal)
  <2>1. events' = Append(events, e) /\ events' \in Seq(EventName)
    BY <1>1, <1>4 DEF Event
  \* The caller speaks after the agent: the open group is closed at this event.
  <2>2. CASE OpensTurn(e)
    <3>1. e = "stt.final" /\ turns' = Closed(cur) /\ cur' = Noted(EmptyGroup, e, h)
      BY <1>4, <2>2 DEF Event, OpensTurn
    <3>2. cur' \in Group /\ cur'.sttFinal = Len(events) + 1 /\ OpenOk(events', cur')
      BY <1>1, <2>1, <3>1, OpenFresh
    <3>3. turns' \in Seq(TurnType) /\ ClosedOk(events, turns', Len(events) + 1)
      BY <3>1, AllClosed
    <3>4. ClosedOk(events', turns', Len(events) + 1)
      BY <1>1, <2>1, <3>3, ClosedStays
    <3> QED
      BY <2>1, <3>2, <3>3, <3>4
  <2>3. CASE ~OpensTurn(e)
    <3>1. turns' = turns /\ cur' = Noted(cur, e, h) /\ ~(e = "stt.final" /\ cur.agentSeen)
      BY <1>4, <2>3 DEF Event, OpensTurn
    <3>2. OpenOk(events', cur')
      BY <1>1, <2>1, <3>1, OpenNoted
    <3>3. /\ cur' \in Group
          /\ cur'.sttFinal = IF e = "stt.final" /\ cur.sttFinal = 0 THEN Len(events) + 1
                             ELSE cur.sttFinal
      BY <1>1, <3>1, NotedIs
    <3>4. ClosedOk(events', turns, cur.sttFinal)
      BY <1>1, <2>1, ClosedStays
    <3>5. ClosedOk(events', turns', cur'.sttFinal)
      <4>1. CASE cur'.sttFinal = cur.sttFinal
        BY <3>1, <3>4, <4>1
      <4>2. CASE cur.sttFinal = 0
        <5>1. turns' = <<>>
          BY <1>1, <3>1, <4>2, NoneClosed
        <5> QED
          BY <5>1 DEF ClosedOk
      <4> QED
        BY <3>3, <4>1, <4>2
    <3> QED
      BY <1>1, <2>1, <3>1, <3>2, <3>3, <3>5
  <2> QED
    BY <2>2, <2>3
<1> QED
  BY <1>3, <1>4 DEF EventsNext

LEMMA TurnFields ==
  ASSUME NEW ts \in Seq(TurnType), NEW k \in DOMAIN ts
  PROVE  /\ ts[k].sttFinal \in Nat /\ ts[k].ttsFirst \in Nat
         /\ ts[k].transcript \in Seq(Nat)
<1>1. ts[k] \in TurnType
  OBVIOUS
<1> QED
  BY <1>1 DEF TurnType

\* Turn k's window ends where the turn does.
LEMMA WindowIs ==
  ASSUME events \in Seq(EventName), NEW T \in Seq(TurnType), T = TurnsFromEvents,
         ClosedOk(events, T, Len(events) + 1), NEW k \in DOMAIN T
  PROVE  TurnWindow(k) = {n \in DOMAIN events :
                            T[k].sttFinal <= n /\ n < EndOf(T, Len(events) + 1, k)}
<1> DEFINE z == EndOf(T, Len(events) + 1, k)
<1>1. /\ DOMAIN events = 1 .. Len(events) /\ Len(events) \in Nat
      /\ DOMAIN T = 1 .. Len(T) /\ Len(T) \in Nat
  OBVIOUS
<1>2. \A i \in DOMAIN T : T[i].sttFinal \in Nat
  BY TurnFields
<1>3. z \in 1 .. Len(events) + 1 /\ \A j \in DOMAIN T : k < j => z <= T[j].sttFinal
  BY DEF ClosedOk, TurnOk
<1>4. IF k < Len(T) THEN z = T[k + 1].sttFinal ELSE z = Len(events) + 1
  BY DEF EndOf
<1> HIDE DEF z
<1>5. ASSUME NEW n \in DOMAIN events
      PROVE  (/\ T[k].sttFinal # 0 => T[k].sttFinal <= n
              /\ \A i \in k + 1 .. Len(T) : n < T[i].sttFinal)
             <=> T[k].sttFinal <= n /\ n < z
  <2>1. (T[k].sttFinal # 0 => T[k].sttFinal <= n) <=> T[k].sttFinal <= n
    BY <1>1, <1>2
  <2>2. ASSUME \A i \in k + 1 .. Len(T) : n < T[i].sttFinal PROVE n < z
    <3>1. CASE k < Len(T)
      <4>1. k + 1 \in k + 1 .. Len(T)
        BY <1>1, <3>1
      <4> QED
        BY <1>4, <2>2, <3>1, <4>1
    <3>2. CASE ~(k < Len(T))
      BY <1>1, <1>4, <3>2
    <3> QED
      BY <3>1, <3>2
  <2>3. ASSUME n < z, NEW i \in k + 1 .. Len(T) PROVE n < T[i].sttFinal
    <3>1. i \in DOMAIN T /\ k < i
      BY <1>1
    <3> QED
      BY <1>1, <1>2, <1>3, <2>3, <3>1
  <2> QED
    BY <2>1, <2>2, <2>3
<1> QED
  BY <1>5 DEF TurnWindow, z

\* Turns closed like these answer their questions.
LEMMA ClosedAnswer ==
  ASSUME events \in Seq(EventName), NEW T \in Seq(TurnType), T = TurnsFromEvents,
         ClosedOk(events, T, Len(events) + 1)
  PROVE  AnswerFollowsItsQuestion
<1> DEFINE last == Len(events) + 1
<1>1. /\ DOMAIN events = 1 .. last - 1 /\ last \in Nat \ {0}
      /\ DOMAIN T = 1 .. Len(T) /\ Len(T) \in Nat
  OBVIOUS
<1>2. DOMAIN Spoken = DOMAIN T /\ \A k \in DOMAIN T : Spoken[k] = T[k].transcript
  BY DEF Spoken
<1> HIDE DEF last
<1>3. ASSUME NEW k \in DOMAIN T
      PROVE  TurnOk(events, EndOf(T, last, k), T[k].sttFinal, T[k].ttsFirst, T[k].transcript)
  BY DEF ClosedOk, last
<1>4. \A k \in DOMAIN T : \A j \in DOMAIN T : k < j => EndOf(T, last, k) <= T[j].sttFinal
  BY DEF ClosedOk, last
<1>5. WordsKeepTheirOrder
  <2> SUFFICES ASSUME NEW k \in DOMAIN T, NEW n \in DOMAIN T[k].transcript
               PROVE  /\ events[T[k].transcript[n]] = "stt.final"
                      /\ \A i \in DOMAIN T : \A m \in DOMAIN T[i].transcript :
                           (i < k \/ (i = k /\ m < n)) => T[i].transcript[m] < T[k].transcript[n]
    BY <1>2 DEF WordsKeepTheirOrder
  <2>1. /\ events[T[k].transcript[n]] = "stt.final"
        /\ T[k].sttFinal <= T[k].transcript[n] /\ T[k].transcript[n] \in Nat
        /\ \A m \in DOMAIN T[k].transcript : m < n => T[k].transcript[m] < T[k].transcript[n]
    <3>1. TurnOk(events, EndOf(T, last, k), T[k].sttFinal, T[k].ttsFirst, T[k].transcript)
      BY <1>3
    <3>2. T[k].transcript[n] \in 1 .. EndOf(T, last, k) - 1 /\ EndOf(T, last, k) \in Nat
      BY <3>1 DEF TurnOk
    <3> QED
      BY <3>1, <3>2 DEF TurnOk
  <2>2. ASSUME NEW i \in DOMAIN T, NEW m \in DOMAIN T[i].transcript, i < k
        PROVE  T[i].transcript[m] < T[k].transcript[n]
    <3>1. /\ EndOf(T, last, i) \in Nat /\ T[i].transcript[m] \in Nat
          /\ T[i].transcript[m] < EndOf(T, last, i)
      <4>1. /\ EndOf(T, last, i) \in 1 .. last
            /\ T[i].transcript[m] \in 1 .. EndOf(T, last, i) - 1
        BY <1>3 DEF TurnOk, last
      <4> QED
        BY <1>1, <4>1
    <3>2. EndOf(T, last, i) <= T[k].sttFinal /\ T[k].sttFinal \in Nat
      BY <1>4, <2>2, TurnFields
    <3> QED
      BY <2>1, <3>1, <3>2
  <2> QED
    BY <2>1, <2>2
<1>6. ASSUME NEW k \in DOMAIN T
      PROVE  LET t == T[k]
                 agent == TurnWindow(k) \cap At(AgentSide)
             IN  /\ t.sttFinal # 0 =>
                      \A q \in TurnWindow(k) \cap At({"stt.final"}), a \in agent : q < a
                 /\ t.ttsFirst # 0 => t.ttsFirst \in TurnWindow(k) \cap At({"tts.first_audio"})
                 /\ t.sttFinal # 0 /\ t.ttsFirst # 0 =>
                      t.latency = t.ttsFirst - t.sttFinal
                 /\ k > 1 => t.sttFinal # 0
  <2> DEFINE b == T[k].sttFinal
             f == T[k].ttsFirst
             z == EndOf(T, last, k)
             within == TurnWindow(k)
  <2>1. within = {n \in DOMAIN events : b <= n /\ n < z}
    BY WindowIs DEF last
  <2>2. /\ z \in 1 .. last /\ b \in 0 .. z - 1 /\ f \in Nat
        /\ b # 0 => \A q, a \in b .. z - 1 :
             events[q] = "stt.final" /\ events[a] \in AgentSide => q < a
        /\ f # 0 => f \in 1 .. z - 1 /\ b <= f /\ events[f] = "tts.first_audio"
    BY <1>1, <1>3, TurnFields DEF TurnOk, last
  <2>3. T[k].latency = Latency(b, f)
    BY DEF ClosedOk
  <2>4. k > 1 => b # 0
    <3> SUFFICES ASSUME k > 1 PROVE b # 0
      OBVIOUS
    <3>1. k - 1 \in DOMAIN T /\ k - 1 < k
      BY <1>1
    <3>2. EndOf(T, last, k - 1) \in Nat \ {0} /\ EndOf(T, last, k - 1) <= b
      BY <1>3, <1>4, <3>1 DEF TurnOk
    <3> QED
      BY <2>2, <3>2
  <2> HIDE DEF b, f, z, within
  <2>5. \A n \in within : n \in b .. z - 1
    BY <1>1, <2>1, <2>2
  <2>6. ASSUME b # 0, NEW q \in within \cap At({"stt.final"}), NEW a \in within \cap At(AgentSide)
        PROVE  q < a
    <3>1. events[q] = "stt.final" /\ events[a] \in AgentSide
      BY DEF At
    <3> QED
      BY <2>2, <2>5, <2>6, <3>1
  <2>7. ASSUME f # 0 PROVE f \in within \cap At({"tts.first_audio"})
    <3>1. f \in DOMAIN events /\ b <= f /\ f < z /\ events[f] = "tts.first_audio"
      BY <1>1, <2>2, <2>7
    <3> QED
      BY <2>1, <3>1 DEF At
  <2>8. ASSUME b # 0, f # 0 PROVE Latency(b, f) = f - b
    BY <2>2, <2>8 DEF Latency
  <2> QED
    BY <2>3, <2>4, <2>6, <2>7, <2>8 DEF b, f, within
<1> QED
  BY <1>5, <1>6 DEF AnswerFollowsItsQuestion

\* _turns_from_events (core/calculator.py): whatever the events are and however many, the
\* turns it returns never time an answer against a later question, keep the caller's
\* words in their order and in one turn each, and only the first may lack a question.
THEOREM AnswersFollow == EventsSpec => []AnswerFollowsItsQuestion
<1>1. EventsInv => AnswerFollowsItsQuestion
  <2> SUFFICES ASSUME EventsInv PROVE AnswerFollowsItsQuestion
    OBVIOUS
  <2>1. /\ events \in Seq(EventName) /\ TurnsFromEvents \in Seq(TurnType)
        /\ ClosedOk(events, TurnsFromEvents, Len(events) + 1)
    BY AllClosed DEF EventsInv, TurnsFromEvents
  <2> QED
    BY <2>1, ClosedAnswer
<1> QED
  BY <1>1, EventsStart, EventsStep, PTL DEF EventsSpec

-----------------------------------------------------------------------------
(* The voice activity loop.  hd is the set of the frames with speech and    *)
(* len the number of frames.                                                *)

Loud(fs) == {i \in 0 .. Len(fs) - 1 : fs[i + 1]}

\* Nowhere from frame a to frame b is a pause longer than the hangover.
Breath(hd, a, b) == \A k \in a .. b : \E m \in k .. k + Hangover : m <= b /\ m \in hd

\* A closed region: a breath, and behind it a pause that ended it.
RegionOk(hd, len, u) ==
  /\ u[1] \in hd /\ u[2] - 1 \in hd /\ u[1] < u[2] /\ Breath(hd, u[1], u[2] - 1)
  /\ u[2] + Hangover < len /\ \A k \in u[2] .. u[2] + Hangover : k \notin hd

\* The open region: a breath up to its last speech, and gap silent frames since.
OpenRegion(hd, len, st, gp, us) ==
  LET last == len - 1 - gp
  IN  /\ gp \in 0 .. Hangover /\ st \in hd /\ last \in hd /\ st <= last /\ Breath(hd, st, last)
      /\ \A k \in hd : k <= last
      /\ \A n \in DOMAIN us : us[n][2] < st

LoopOk(hd, len, st, gp, us) ==
  /\ \A n \in DOMAIN us :
       /\ RegionOk(hd, len, us[n])
       /\ \A m \in DOMAIN us : n < m => us[n][2] < us[m][1]
  /\ \A i \in hd : \/ \E n \in DOMAIN us : us[n][1] <= i /\ i < us[n][2]
                   \/ st # NoStart /\ st <= i
  /\ st # NoStart => OpenRegion(hd, len, st, gp, us)

VadInv ==
  /\ frames \in Seq(BOOLEAN) /\ utterances \in Seq(Nat \X Nat)
  /\ start \in Nat \cup {NoStart} /\ gap \in Nat
  /\ LoopOk(Loud(frames), Len(frames), start, gap, utterances)

LEMMA LoudIn ==
  ASSUME NEW fs \in Seq(BOOLEAN)
  PROVE  Len(fs) \in Nat /\ Loud(fs) \in SUBSET (0 .. Len(fs) - 1) /\ Loud(fs) \in SUBSET Nat
BY DEF Loud

LEMMA LoudMore ==
  ASSUME NEW fs \in Seq(BOOLEAN), NEW x \in BOOLEAN
  PROVE  /\ Loud(fs) \in SUBSET (0 .. Len(fs) - 1) /\ Len(fs) \in Nat
         /\ Append(fs, x) \in Seq(BOOLEAN) /\ Len(Append(fs, x)) = Len(fs) + 1
         /\ Loud(Append(fs, x)) = IF x THEN Loud(fs) \cup {Len(fs)} ELSE Loud(fs)
<1> DEFINE gs == Append(fs, x)
<1>1. /\ gs \in Seq(BOOLEAN) /\ Len(gs) = Len(fs) + 1 /\ Len(fs) \in Nat
      /\ gs[Len(fs) + 1] = x /\ \A n \in 1 .. Len(fs) : gs[n] = fs[n]
  OBVIOUS
<1>2. Loud(fs) \in SUBSET (0 .. Len(fs) - 1)
  BY DEF Loud
<1> HIDE DEF gs
<1>3. \A i \in 0 .. Len(fs) - 1 : gs[i + 1] = fs[i + 1]
  BY <1>1
<1>4. ASSUME NEW i PROVE i \in Loud(gs) <=> i \in Loud(fs) \/ (x /\ i = Len(fs))
  <2>1. CASE i \in 0 .. Len(fs) - 1
    <3>1. i # Len(fs) /\ i \in 0 .. Len(gs) - 1
      BY <1>1, <2>1
    <3> QED
      BY <1>3, <2>1, <3>1 DEF Loud
  <2>2. CASE i = Len(fs)
    <3>1. i \in 0 .. Len(gs) - 1 /\ i \notin 0 .. Len(fs) - 1
      BY <1>1, <2>2
    <3> QED
      BY <1>1, <2>2, <3>1 DEF Loud
  <2>3. CASE i \notin 0 .. Len(fs) - 1 /\ i # Len(fs)
    <3>1. i \notin 0 .. Len(gs) - 1
      BY <1>1, <2>3
    <3> QED
      BY <2>3, <3>1 DEF Loud
  <2> QED
    BY <2>1, <2>2, <2>3
<1>5. Loud(gs) = IF x THEN Loud(fs) \cup {Len(fs)} ELSE Loud(fs)
  BY <1>4
<1> QED
  BY <1>1, <1>2, <1>5 DEF gs

\* A closed region stays one, whatever frame comes.
LEMMA RegionStays ==
  ASSUME NEW len \in Nat, NEW hd \in SUBSET (0 .. len - 1), NEW u \in Nat \X Nat,
         RegionOk(hd, len, u), NEW more \in SUBSET {len}
  PROVE  RegionOk(hd \cup more, len + 1, u)
<1>1. u[1] \in Nat /\ u[2] \in Nat /\ Hangover \in Nat
  BY HangoverAssumption
<1>2. Breath(hd \cup more, u[1], u[2] - 1)
  BY DEF RegionOk, Breath
<1>3. \A k \in u[2] .. u[2] + Hangover : k \notin hd \cup more
  BY <1>1 DEF RegionOk
<1> QED
  BY <1>1, <1>2, <1>3 DEF RegionOk

LEMMA VadStart == VadInit => VadInv
BY DEF VadInit, VadInv, LoopOk, Loud, NoStart

\* A frame with speech: it opens a region or goes into the open one.
LEMMA SpeechKeepsLoop ==
  ASSUME NEW len \in Nat, NEW hd \in SUBSET (0 .. len - 1), NEW us \in Seq(Nat \X Nat),
         NEW st \in Nat \cup {NoStart}, NEW gp, LoopOk(hd, len, st, gp, us)
  PROVE  LoopOk(hd \cup {len}, len + 1, IF st = NoStart THEN len ELSE st, 0, us)
<1> DEFINE on == hd \cup {len}
           new == IF st = NoStart THEN len ELSE st
<1>1. Hangover \in Nat /\ NoStart \notin Nat /\ new \in Nat /\ new # NoStart
  BY HangoverAssumption DEF NoStart
<1>2. \A n \in DOMAIN us : us[n] \in Nat \X Nat /\ us[n][1] \in Nat /\ us[n][2] \in Nat
  OBVIOUS
<1> HIDE DEF on, new
<1>3. ASSUME NEW n \in DOMAIN us
      PROVE  RegionOk(on, len + 1, us[n]) /\ \A m \in DOMAIN us : n < m => us[n][2] < us[m][1]
  <2>1. RegionOk(hd, len, us[n])
    BY DEF LoopOk
  <2>2. RegionOk(on, len + 1, us[n])
    BY <1>2, <2>1, RegionStays DEF on
  <2> QED
    BY <2>2 DEF LoopOk
<1>4. ASSUME NEW i \in on
      PROVE  (\E n \in DOMAIN us : us[n][1] <= i /\ i < us[n][2]) \/ new <= i
  <2>1. CASE i \in hd
    BY <2>1 DEF LoopOk, new
  <2>2. CASE i = len
    <3>1. CASE st = NoStart
      BY <1>1, <2>2, <3>1 DEF new
    <3>2. CASE st # NoStart
      <4>1. st \in hd /\ st = new
        BY <3>2 DEF LoopOk, OpenRegion, new
      <4> QED
        BY <2>2, <4>1
    <3> QED
      BY <3>1, <3>2
  <2> QED
    BY <2>1, <2>2 DEF on
<1>5. OpenRegion(on, len + 1, new, 0, us)
  <2>1. len \in on /\ \A k \in on : k <= len
    BY DEF on
  <2>2. new \in on /\ new <= len
    BY DEF LoopOk, OpenRegion, new, on
  <2>3. Breath(on, new, len)
    <3>1. CASE st = NoStart
      <4>1. new = len
        BY <3>1 DEF new
      <4>2. \A k \in len .. len : len \in k .. k + Hangover
        BY <1>1
      <4> QED
        BY <2>1, <4>1, <4>2 DEF Breath
    <3>2. CASE st # NoStart
      <4> DEFINE last == len - 1 - gp
      <4>1. gp \in 0 .. Hangover /\ Breath(hd, st, last) /\ new = st /\ st \in Nat
        BY <3>2 DEF LoopOk, OpenRegion, new
      <4> SUFFICES ASSUME NEW k \in new .. len
                   PROVE  \E m \in k .. k + Hangover : m <= len /\ m \in on
        BY DEF Breath
      <4>2. CASE k <= last
        <5>1. k \in st .. last /\ last <= len
          BY <1>1, <4>1, <4>2
        <5>2. PICK m \in k .. k + Hangover : m <= last /\ m \in hd
          BY <4>1, <5>1 DEF Breath
        <5>3. m \in Int /\ last \in Int
          BY <1>1, <4>1, <5>1
        <5> QED
          BY <5>1, <5>2, <5>3 DEF on
      <4>3. CASE ~(k <= last)
        <5>1. len \in k .. k + Hangover
          BY <1>1, <4>1, <4>3
        <5> QED
          BY <2>1, <5>1
      <4> QED
        BY <4>2, <4>3
    <3> QED
      BY <3>1, <3>2
  <2>4. \A n \in DOMAIN us : us[n][2] < new
    <3>1. CASE st = NoStart
      <4> SUFFICES ASSUME NEW n \in DOMAIN us PROVE us[n][2] < len
        BY <3>1 DEF new
      <4>1. us[n][2] + Hangover < len
        BY DEF LoopOk, RegionOk
      <4> QED
        BY <1>1, <1>2, <4>1
    <3>2. CASE st # NoStart
      BY <3>2 DEF LoopOk, OpenRegion, new
    <3> QED
      BY <3>1, <3>2
  <2>5. len + 1 - 1 - 0 = len /\ 0 \in 0 .. Hangover
    BY <1>1
  <2> QED
    BY <2>1, <2>2, <2>3, <2>4, <2>5 DEF OpenRegion
<1> QED
  BY <1>1, <1>3, <1>4, <1>5 DEF LoopOk, on, new

\* A silent frame that closes nothing.
LEMMA SilenceKeepsLoop ==
  ASSUME NEW len \in Nat, NEW hd \in SUBSET (0 .. len - 1), NEW us \in Seq(Nat \X Nat),
         NEW st \in Nat \cup {NoStart}, NEW gp \in Nat, LoopOk(hd, len, st, gp, us),
         NEW more \in Nat, st # NoStart => more = gp + 1 /\ more <= Hangover
  PROVE  LoopOk(hd, len + 1, st, more, us)
<1>1. Hangover \in Nat /\ \A n \in DOMAIN us : us[n] \in Nat \X Nat
  BY HangoverAssumption
<1>2. ASSUME NEW n \in DOMAIN us PROVE RegionOk(hd, len + 1, us[n])
  <2>1. RegionOk(hd, len, us[n])
    BY DEF LoopOk
  <2>2. RegionOk(hd \cup {}, len + 1, us[n])
    BY <1>1, <2>1, RegionStays
  <2>3. hd \cup {} = hd
    OBVIOUS
  <2> QED
    BY <2>2, <2>3
<1>3. ASSUME st # NoStart PROVE OpenRegion(hd, len + 1, st, more, us)
  <2>1. OpenRegion(hd, len, st, gp, us)
    BY <1>3 DEF LoopOk
  <2>2. len + 1 - 1 - more = len - 1 - gp /\ more \in 0 .. Hangover
    BY <1>1, <1>3
  <2> QED
    BY <2>1, <2>2 DEF OpenRegion
<1> QED
  BY <1>2, <1>3 DEF LoopOk

\* The silent frame that is one too many.
LEMMA PauseCloses ==
  ASSUME NEW len \in Nat, NEW hd \in SUBSET (0 .. len - 1), NEW us \in Seq(Nat \X Nat),
         NEW st \in Nat, NEW gp \in Nat, LoopOk(hd, len, st, gp, us), gp + 1 > Hangover
  PROVE  /\ <<st, len - gp>> \in Nat \X Nat
         /\ LoopOk(hd, len + 1, NoStart, 0, Append(us, <<st, len - gp>>))
<1> DEFINE b == len - gp
           u == <<st, b>>
           vs == Append(us, u)
<1>1. Hangover \in Nat /\ st # NoStart
  BY HangoverAssumption DEF NoStart
<1>2. /\ gp \in 0 .. Hangover /\ st \in hd /\ len - 1 - gp \in hd /\ st <= len - 1 - gp
      /\ Breath(hd, st, len - 1 - gp)
      /\ \A k \in hd : k <= len - 1 - gp
      /\ \A n \in DOMAIN us : us[n][2] < st
  BY <1>1 DEF LoopOk, OpenRegion
<1>3. gp = Hangover /\ b = len - Hangover /\ b - 1 = len - 1 - gp /\ b \in Nat /\ st < b
  BY <1>1, <1>2
<1>4. u \in Nat \X Nat /\ u[1] = st /\ u[2] = b
  BY <1>3
<1> HIDE DEF b, u
<1>5. RegionOk(hd, len + 1, u)
  <2>1. \A k \in b .. b + Hangover : k \notin hd
    BY <1>1, <1>2, <1>3
  <2>2. b + Hangover < len + 1
    BY <1>1, <1>3
  <2> QED
    BY <1>2, <1>3, <1>4, <2>1, <2>2 DEF RegionOk
<1>6. /\ vs \in Seq(Nat \X Nat) /\ Len(us) \in Nat /\ DOMAIN us = 1 .. Len(us)
      /\ DOMAIN vs = 1 .. Len(us) + 1 /\ vs[Len(us) + 1] = u
      /\ \A n \in DOMAIN us : vs[n] = us[n] /\ us[n] \in Nat \X Nat
  BY <1>4
<1> HIDE DEF vs
<1>7. ASSUME NEW n \in DOMAIN vs
      PROVE  /\ RegionOk(hd, len + 1, vs[n])
             /\ \A m \in DOMAIN vs : n < m => vs[n][2] < vs[m][1]
  <2>1. CASE n \in DOMAIN us
    <3>1. RegionOk(hd, len, us[n])
      BY <2>1 DEF LoopOk
    <3>2. RegionOk(hd \cup {}, len + 1, us[n])
      BY <1>6, <2>1, <3>1, RegionStays
    <3>3. hd \cup {} = hd /\ vs[n] = us[n]
      BY <1>6, <2>1
    <3>4. ASSUME NEW m \in DOMAIN vs, n < m PROVE vs[n][2] < vs[m][1]
      <4>1. CASE m \in DOMAIN us
        BY <1>6, <2>1, <3>4, <4>1 DEF LoopOk
      <4>2. CASE m = Len(us) + 1
        BY <1>2, <1>4, <1>6, <2>1, <4>2
      <4> QED
        BY <1>6, <4>1, <4>2
    <3> QED
      BY <3>2, <3>3, <3>4
  <2>2. CASE n = Len(us) + 1
    <3>1. \A m \in DOMAIN vs : ~(n < m)
      BY <1>6, <2>2
    <3> QED
      BY <1>5, <1>6, <2>2, <3>1
  <2> QED
    BY <1>6, <2>1, <2>2
<1>8. ASSUME NEW i \in hd PROVE \E n \in DOMAIN vs : vs[n][1] <= i /\ i < vs[n][2]
  <2>1. CASE \E n \in DOMAIN us : us[n][1] <= i /\ i < us[n][2]
    <3>1. PICK n \in DOMAIN us : us[n][1] <= i /\ i < us[n][2]
      BY <2>1
    <3>2. n \in DOMAIN vs /\ vs[n] = us[n]
      BY <1>6
    <3> QED
      BY <3>1, <3>2
  <2>2. CASE st <= i
    <3>1. i < b /\ Len(us) + 1 \in DOMAIN vs
      BY <1>2, <1>3, <1>6
    <3> QED
      BY <1>4, <1>6, <2>2, <3>1
  <2> QED
    BY <2>1, <2>2 DEF LoopOk
<1>9. LoopOk(hd, len + 1, NoStart, 0, vs)
  BY <1>7, <1>8 DEF LoopOk
<1> QED
  BY <1>4, <1>9 DEF b, u, vs

LEMMA VadStep == VadInv /\ [VadNext]_vadVars => VadInv'
<1> SUFFICES ASSUME VadInv, [VadNext]_vadVars PROVE VadInv'
  OBVIOUS
<1> DEFINE len == Len(frames)
           hd == Loud(frames)
<1>1. /\ frames \in Seq(BOOLEAN) /\ utterances \in Seq(Nat \X Nat)
      /\ start \in Nat \cup {NoStart} /\ gap \in Nat /\ Hangover \in Nat
      /\ LoopOk(hd, len, start, gap, utterances)
  BY HangoverAssumption DEF VadInv
<1>2. SUFFICES /\ frames' \in Seq(BOOLEAN) /\ utterances' \in Seq(Nat \X Nat)
               /\ start' \in Nat \cup {NoStart} /\ gap' \in Nat
               /\ LoopOk(Loud(frames'), Len(frames'), start', gap', utterances')
  BY DEF VadInv
<1>3. CASE UNCHANGED vadVars
  BY <1>1, <1>3 DEF vadVars
<1>4. len \in Nat /\ hd \in SUBSET (0 .. len - 1)
  BY <1>1, LoudMore
<1>5. CASE Speech
  <2>1. /\ frames' = Append(frames, TRUE) /\ utterances' = utterances /\ gap' = 0
        /\ start' = IF start = NoStart THEN len ELSE start
    BY <1>5 DEF Speech
  <2>2. frames' \in Seq(BOOLEAN) /\ Len(frames') = len + 1 /\ Loud(frames') = hd \cup {len}
    BY <1>1, <2>1, LoudMore
  <2> HIDE DEF len, hd
  <2>3. LoopOk(hd \cup {len}, len + 1, start', 0, utterances)
    BY <1>1, <1>4, <2>1, SpeechKeepsLoop
  <2> QED
    BY <1>1, <1>4, <2>1, <2>2, <2>3
<1>6. CASE Silence
  <2>1. frames' \in Seq(BOOLEAN) /\ Len(frames') = len + 1 /\ Loud(frames') = hd
    BY <1>1, <1>6, LoudMore DEF Silence
  <2>2. CASE start = NoStart /\ UNCHANGED <<start, gap, utterances>>
    <3>1. LoopOk(hd, len + 1, start, gap, utterances)
      BY <1>1, <1>4, <2>2, SilenceKeepsLoop
    <3> QED
      BY <1>1, <2>1, <2>2, <3>1
  <2>3. CASE /\ start # NoStart /\ gap + 1 <= Hangover /\ gap' = gap + 1
             /\ UNCHANGED <<start, utterances>>
    <3>1. gap + 1 \in Nat
      BY <1>1
    <3>2. LoopOk(hd, len + 1, start, gap + 1, utterances)
      BY <1>1, <1>4, <2>3, <3>1, SilenceKeepsLoop
    <3> QED
      BY <1>1, <2>1, <2>3, <3>1, <3>2
  <2>4. CASE /\ start # NoStart /\ gap + 1 > Hangover
             /\ utterances' = Append(utterances, <<start, len - gap>>)
             /\ start' = NoStart /\ gap' = 0
    <3>1. start \in Nat
      BY <1>1, <2>4
    <3>2. /\ <<start, len - gap>> \in Nat \X Nat
          /\ LoopOk(hd, len + 1, NoStart, 0, Append(utterances, <<start, len - gap>>))
      BY <1>1, <1>4, <2>4, <3>1, PauseCloses
    <3>3. utterances' \in Seq(Nat \X Nat)
      BY <1>1, <2>4, <3>2
    <3> QED
      BY <2>1, <2>4, <3>2, <3>3
  <2> QED
    BY <1>6, <2>2, <2>3, <2>4 DEF Silence
<1> QED
  BY <1>3, <1>5, <1>6 DEF VadNext

-----------------------------------------------------------------------------
(* What the regions of a recording that ends here say.                      *)

\* Regions of frames hd, the last one perhaps up to the end.
Covers(hd, len, rs) ==
  /\ rs \in Seq(Nat \X Nat)
  /\ \A n \in DOMAIN rs :
       /\ rs[n][1] \in hd /\ (rs[n][2] - 1 \in hd \/ rs[n][2] = len)
       /\ \A i, j \in hd : rs[n][1] <= i /\ i < j /\ j < rs[n][2] => Breath(hd, i, j)
       /\ \A m \in DOMAIN rs : n < m =>
            /\ rs[n][2] < rs[m][1]
            /\ \A k \in rs[n][2] .. rs[n][2] + Hangover : k \notin hd
  /\ \A i \in hd : \E n \in DOMAIN rs : rs[n][1] <= i /\ i < rs[n][2]

\* A part of a breath that ends with speech is one.
LEMMA BreathPart ==
  ASSUME NEW hd \in SUBSET Nat, NEW a \in Nat, NEW b \in Nat, Breath(hd, a, b),
         NEW i \in Nat, NEW j \in hd, a <= i, j <= b
  PROVE  Breath(hd, i, j)
<1>1. Hangover \in Nat /\ j \in Nat
  BY HangoverAssumption
<1> SUFFICES ASSUME NEW k \in i .. j PROVE \E m \in k .. k + Hangover : m <= j /\ m \in hd
  BY DEF Breath
<1>2. k \in a .. b
  BY <1>1
<1>3. PICK m \in k .. k + Hangover : m <= b /\ m \in hd
  BY <1>2 DEF Breath
<1>4. CASE m <= j
  BY <1>3, <1>4
<1>5. CASE ~(m <= j)
  <2>1. j \in k .. k + Hangover /\ j <= j
    BY <1>1, <1>3, <1>5
  <2> QED
    BY <2>1
<1> QED
  BY <1>4, <1>5

LEMMA RegionsCover == VadInv => Covers(Loud(frames), Len(frames), Regions)
<1> SUFFICES ASSUME VadInv PROVE Covers(Loud(frames), Len(frames), Regions)
  OBVIOUS
<1> DEFINE len == Len(frames)
           hd == Loud(frames)
           us == utterances
<1>1. /\ frames \in Seq(BOOLEAN) /\ us \in Seq(Nat \X Nat) /\ start \in Nat \cup {NoStart}
      /\ gap \in Nat /\ Hangover \in Nat /\ NoStart \notin Nat
      /\ LoopOk(hd, len, start, gap, us)
  BY HangoverAssumption DEF VadInv, NoStart
<1>2. len \in Nat /\ hd \in SUBSET (0 .. len - 1) /\ hd \in SUBSET Nat
  BY <1>1, LoudIn
<1> HIDE DEF len, hd
<1>3. \A n \in DOMAIN us : us[n] \in Nat \X Nat /\ us[n][1] \in Nat /\ us[n][2] \in Nat
  BY <1>1
<1>4. ASSUME NEW n \in DOMAIN us
      PROVE  /\ us[n][1] \in hd /\ us[n][2] - 1 \in hd
             /\ \A i, j \in hd : us[n][1] <= i /\ i < j /\ j < us[n][2] => Breath(hd, i, j)
             /\ \A m \in DOMAIN us : n < m => us[n][2] < us[m][1]
             /\ \A k \in us[n][2] .. us[n][2] + Hangover : k \notin hd
  <2>1. RegionOk(hd, len, us[n]) /\ \A m \in DOMAIN us : n < m => us[n][2] < us[m][1]
    BY <1>1 DEF LoopOk
  <2>2. ASSUME NEW i \in hd, NEW j \in hd, us[n][1] <= i, i < j, j < us[n][2]
        PROVE  Breath(hd, i, j)
    <3>1. Breath(hd, us[n][1], us[n][2] - 1) /\ us[n][2] - 1 \in Nat /\ j <= us[n][2] - 1
      BY <1>2, <1>3, <2>1, <2>2 DEF RegionOk
    <3> QED
      BY <1>2, <1>3, <2>2, <3>1, BreathPart
  <2> QED
    BY <2>1, <2>2 DEF RegionOk
<1>5. CASE start = NoStart
  <2>1. Regions = us
    BY <1>5 DEF Regions
  <2> QED
    BY <1>1, <1>4, <1>5, <2>1 DEF Covers, LoopOk, len, hd
<1>6. CASE start # NoStart
  <2> DEFINE u == <<start, len>>
             rs == Append(us, u)
             last == len - 1 - gap
  <2>1. Regions = rs
    BY <1>6 DEF Regions, len
  <2>2. /\ start \in hd /\ start \in Nat /\ last \in hd /\ Breath(hd, start, last)
        /\ \A k \in hd : k <= last
        /\ \A n \in DOMAIN us : us[n][2] < start
    BY <1>1, <1>6 DEF LoopOk, OpenRegion
  <2>3. u \in Nat \X Nat /\ u[1] = start /\ u[2] = len
    BY <1>2, <2>2
  <2> HIDE DEF u, last
  <2>4. /\ rs \in Seq(Nat \X Nat) /\ Len(us) \in Nat /\ DOMAIN us = 1 .. Len(us)
        /\ DOMAIN rs = 1 .. Len(us) + 1 /\ rs[Len(us) + 1] = u
        /\ \A n \in DOMAIN us : rs[n] = us[n]
    BY <1>1, <2>3
  <2> HIDE DEF rs
  <2>5. ASSUME NEW n \in DOMAIN rs
        PROVE  /\ rs[n][1] \in hd /\ (rs[n][2] - 1 \in hd \/ rs[n][2] = len)
               /\ \A i, j \in hd : rs[n][1] <= i /\ i < j /\ j < rs[n][2] => Breath(hd, i, j)
               /\ \A m \in DOMAIN rs : n < m =>
                    /\ rs[n][2] < rs[m][1]
                    /\ \A k \in rs[n][2] .. rs[n][2] + Hangover : k \notin hd
    <3>1. CASE n \in DOMAIN us
      <4>1. ASSUME NEW m \in DOMAIN rs, n < m PROVE us[n][2] < rs[m][1]
        <5>1. CASE m \in DOMAIN us
          BY <1>4, <2>4, <3>1, <4>1, <5>1
        <5>2. CASE m = Len(us) + 1
          BY <2>2, <2>3, <2>4, <3>1, <5>2
        <5> QED
          BY <2>4, <5>1, <5>2
      <4>2. rs[n] = us[n]
        BY <2>4, <3>1
      <4> QED
        BY <1>4, <3>1, <4>1, <4>2
    <3>2. CASE n = Len(us) + 1
      <4>1. \A m \in DOMAIN rs : ~(n < m)
        BY <2>4, <3>2
      <4>2. ASSUME NEW i \in hd, NEW j \in hd, start <= i PROVE Breath(hd, i, j)
        <5>1. last \in Nat /\ j <= last /\ i \in Nat
          BY <1>2, <2>2
        <5> QED
          BY <1>2, <2>2, <4>2, <5>1, BreathPart
      <4>3. rs[n][1] = start /\ rs[n][2] = len
        BY <2>3, <2>4, <3>2
      <4> QED
        BY <2>2, <4>1, <4>2, <4>3
    <3> QED
      BY <2>4, <3>1, <3>2
  <2>6. ASSUME NEW i \in hd PROVE \E n \in DOMAIN rs : rs[n][1] <= i /\ i < rs[n][2]
    <3>1. CASE \E n \in DOMAIN us : us[n][1] <= i /\ i < us[n][2]
      <4>1. PICK n \in DOMAIN us : us[n][1] <= i /\ i < us[n][2]
        BY <3>1
      <4>2. n \in DOMAIN rs /\ rs[n] = us[n]
        BY <2>4
      <4> QED
        BY <4>1, <4>2
    <3>2. CASE start <= i
      <4>1. i < len /\ Len(us) + 1 \in DOMAIN rs
        BY <1>2, <2>4
      <4> QED
        BY <2>3, <2>4, <3>2, <4>1
    <3> QED
      BY <1>1, <3>1, <3>2 DEF LoopOk
  <2> QED
    BY <2>1, <2>4, <2>5, <2>6 DEF Covers, len, hd
<1> QED
  BY <1>5, <1>6

LEMMA NonZeroIs == frames \in Seq(BOOLEAN) => NonZero = Loud(frames)
<1> SUFFICES ASSUME frames \in Seq(BOOLEAN) PROVE NonZero = Loud(frames)
  OBVIOUS
<1>1. DOMAIN frames = 1 .. Len(frames) /\ Len(frames) \in Nat
  OBVIOUS
<1>2. \A i \in 0 .. Len(frames) - 1 : i + 1 \in DOMAIN frames
  BY <1>1
<1> QED
  BY <1>2 DEF NonZero, Zero, Loud

\* The first three parts of the property.
LEMMA CoversBreaths ==
  ASSUME frames \in Seq(BOOLEAN), Covers(Loud(frames), Len(frames), Regions)
  PROVE  LET Of(i) == {n \in DOMAIN Regions : Regions[n][1] <= i /\ i < Regions[n][2]}
         IN  /\ \A i \in NonZero : Cardinality(Of(i)) = 1
             /\ \A i, j \in NonZero : i < j => (Of(i) = Of(j) <=> SameBreath(i, j))
             /\ \A n \in DOMAIN Regions :
                  /\ Regions[n][1] \in NonZero
                  /\ Regions[n][2] - 1 \in NonZero \/ Regions[n][2] = Len(frames)
<1> DEFINE rs == Regions
           hd == NonZero
           Of(i) == {n \in DOMAIN rs : rs[n][1] <= i /\ i < rs[n][2]}
<1>1. /\ Covers(hd, Len(frames), rs) /\ hd \in SUBSET (0 .. Len(frames) - 1) /\ hd \in SUBSET Nat
      /\ Len(frames) \in Nat
  BY NonZeroIs, LoudIn
<1> HIDE DEF rs, hd
<1>2. \A n \in DOMAIN rs : n \in Nat /\ rs[n][1] \in Nat /\ rs[n][2] \in Nat
  <2>1. rs \in Seq(Nat \X Nat)
    BY <1>1 DEF Covers
  <2> QED
    BY <2>1
<1>3. \A n \in DOMAIN rs : \A m \in DOMAIN rs : n < m =>
        rs[n][2] < rs[m][1] /\ \A k \in rs[n][2] .. rs[n][2] + Hangover : k \notin hd
  BY <1>1 DEF Covers
<1>4. ASSUME NEW i \in hd PROVE \E n \in DOMAIN rs : Of(i) = {n}
  <2>1. PICK n \in DOMAIN rs : rs[n][1] <= i /\ i < rs[n][2]
    BY <1>1 DEF Covers
  <2>2. ASSUME NEW m \in Of(i) PROVE m = n
    <3>1. i \in Nat /\ m \in DOMAIN rs /\ rs[m][1] <= i /\ i < rs[m][2]
      BY <1>1
    <3>2. ~(n < m)
      BY <1>2, <1>3, <2>1, <3>1
    <3>3. ~(m < n)
      BY <1>2, <1>3, <2>1, <3>1
    <3> QED
      BY <1>2, <3>1, <3>2, <3>3
  <2>3. n \in Of(i)
    BY <2>1
  <2> HIDE DEF Of
  <2> QED
    BY <2>2, <2>3
<1>5. ASSUME NEW i \in hd PROVE Cardinality(Of(i)) = 1
  BY <1>4, FS_Singleton
<1>6. ASSUME NEW i \in hd, NEW j \in hd, i < j PROVE SameBreath(i, j) <=> Breath(hd, i, j)
  <2>1. \A k \in i .. j : \A m \in k .. k + Hangover : m <= j => (~Zero(m) <=> m \in hd)
    <3> SUFFICES ASSUME NEW k \in i .. j, NEW m \in k .. k + Hangover, m <= j
                 PROVE  ~Zero(m) <=> m \in hd
      OBVIOUS
    <3>1. m \in 0 .. Len(frames) - 1
      BY <1>1
    <3> QED
      BY <3>1 DEF hd, NonZero
  <2> QED
    BY <2>1 DEF SameBreath, Breath
<1>7. ASSUME NEW i \in hd, NEW j \in hd, i < j PROVE Of(i) = Of(j) <=> Breath(hd, i, j)
  <2>1. PICK n \in DOMAIN rs : Of(i) = {n}
    BY <1>4
  <2>2. PICK m \in DOMAIN rs : Of(j) = {m}
    BY <1>4
  <2>3. rs[n][1] <= i /\ i < rs[n][2] /\ rs[m][1] <= j /\ j < rs[m][2] /\ i \in Nat /\ j \in Nat
    BY <1>1, <2>1, <2>2
  <2>4. ASSUME n = m PROVE Breath(hd, i, j)
    BY <1>1, <1>7, <2>3, <2>4 DEF Covers
  <2>5. ASSUME Breath(hd, i, j) PROVE n = m
    <3>1. ~(m < n)
      BY <1>2, <1>3, <1>7, <2>3
    <3>2. ASSUME n < m PROVE FALSE
      <4>1. /\ rs[n][2] < rs[m][1] /\ rs[n][2] \in i .. j
            /\ \A k \in rs[n][2] .. rs[n][2] + Hangover : k \notin hd
        <5>1. rs[n][2] < rs[m][1] /\ \A k \in rs[n][2] .. rs[n][2] + Hangover : k \notin hd
          BY <1>3, <3>2
        <5> QED
          BY <1>2, <2>3, <5>1
      <4> QED
        BY <2>5, <4>1 DEF Breath
    <3> QED
      BY <1>2, <3>1, <3>2
  <2> HIDE DEF Of
  <2> QED
    BY <2>1, <2>2, <2>4, <2>5
<1>8. \A n \in DOMAIN rs : rs[n][1] \in hd /\ (rs[n][2] - 1 \in hd \/ rs[n][2] = Len(frames))
  BY <1>1 DEF Covers
<1> QED
  BY <1>5, <1>6, <1>7, <1>8 DEF rs, hd

-----------------------------------------------------------------------------
(* Runs of zero samples.  The k-th run is the k-th beginning with the k-th  *)
(* end: before any sample as many runs have begun as have ended, and one    *)
(* more inside a run.                                                       *)

Below(S, x) == {s \in S : s < x}
Begins(fs) == {i \in 0 .. Len(fs) - 1 : ~fs[i + 1] /\ (i = 0 \/ fs[i])}
Ends(fs) == {i \in 1 .. Len(fs) - 1 : ~fs[i] /\ fs[i + 1]}
Inside(fs, x) == x > 0 /\ ~fs[x]

CountsOk(fs) ==
  \A x \in 0 .. Len(fs) :
    Cardinality(Below(Begins(fs), x)) =
      Cardinality(Below(Ends(fs), x)) + (IF Inside(fs, x) THEN 1 ELSE 0)

BoundsOk(fs) ==
  Loud(fs) = {} \/ \E lo, hi \in Loud(fs) : \A i \in Loud(fs) : lo <= i /\ i <= hi

ZerosInv == frames \in Seq(BOOLEAN) /\ CountsOk(frames) /\ BoundsOk(frames)

LEMMA BelowFinite ==
  ASSUME NEW fs \in Seq(BOOLEAN), NEW x
  PROVE  /\ Begins(fs) \in SUBSET (0 .. Len(fs) - 1) /\ Ends(fs) \in SUBSET (0 .. Len(fs) - 1)
         /\ IsFiniteSet(Begins(fs)) /\ IsFiniteSet(Ends(fs))
         /\ IsFiniteSet(Below(Begins(fs), x)) /\ Cardinality(Below(Begins(fs), x)) \in Nat
         /\ IsFiniteSet(Below(Ends(fs), x)) /\ Cardinality(Below(Ends(fs), x)) \in Nat
         /\ Cardinality(Begins(fs)) \in Nat /\ Cardinality(Ends(fs)) \in Nat
<1>1. Len(fs) \in Nat /\ Len(fs) - 1 \in Int /\ 0 \in Int
  OBVIOUS
<1>2. Begins(fs) \in SUBSET (0 .. Len(fs) - 1) /\ Ends(fs) \in SUBSET (0 .. Len(fs) - 1)
  BY DEF Begins, Ends
<1>3. IsFiniteSet(0 .. Len(fs) - 1)
  BY <1>1, FS_Interval
<1>4. \A S \in SUBSET (0 .. Len(fs) - 1) : IsFiniteSet(S) /\ Cardinality(S) \in Nat
  BY <1>3, FS_Subset, FS_CardinalityType
<1>5. /\ Below(Begins(fs), x) \in SUBSET (0 .. Len(fs) - 1)
      /\ Below(Ends(fs), x) \in SUBSET (0 .. Len(fs) - 1)
  BY <1>2 DEF Below
<1> QED
  BY <1>2, <1>4, <1>5

LEMMA CountsGrow ==
  ASSUME NEW fs \in Seq(BOOLEAN), CountsOk(fs), NEW x \in BOOLEAN
  PROVE  CountsOk(Append(fs, x))
<1> DEFINE gs == Append(fs, x)
           len == Len(fs)
           B == Begins(fs)
           E == Ends(fs)
<1>1. /\ gs \in Seq(BOOLEAN) /\ Len(gs) = len + 1 /\ len \in Nat
      /\ gs[len + 1] = x /\ \A n \in 1 .. len : gs[n] = fs[n]
  OBVIOUS
<1> HIDE DEF gs
<1>2. Begins(gs) = B \cup IF ~x /\ ~Inside(fs, len) THEN {len} ELSE {}
  <2>1. ASSUME NEW i \in 0 .. len - 1 PROVE i \in Begins(gs) <=> i \in B
    <3>1. /\ i \in 0 .. Len(gs) - 1 /\ i + 1 \in 1 .. len /\ (i # 0 => i \in 1 .. len)
      BY <1>1
    <3> QED
      BY <1>1, <3>1 DEF Begins
  <2>2. len \in Begins(gs) <=> ~x /\ ~Inside(fs, len)
    <3>1. len \in 0 .. Len(gs) - 1 /\ (len # 0 => len \in 1 .. len /\ len > 0) /\ ~(0 > 0)
      BY <1>1
    <3>2. len \in Begins(gs) <=> ~x /\ (len = 0 \/ fs[len])
      BY <1>1, <3>1 DEF Begins
    <3> QED
      BY <3>1, <3>2 DEF Inside
  <2>3. Begins(gs) \in SUBSET (0 .. len) /\ B \in SUBSET (0 .. len - 1)
    BY <1>1 DEF Begins
  <2>4. \A i \in 0 .. len : i \in 0 .. len - 1 \/ i = len
    BY <1>1
  <2>5. len \notin 0 .. len - 1
    BY <1>1
  <2> HIDE DEF B, len
  <2>6. CASE ~x /\ ~Inside(fs, len)
    BY <2>1, <2>2, <2>3, <2>4, <2>5, <2>6
  <2>7. CASE ~(~x /\ ~Inside(fs, len))
    BY <2>1, <2>2, <2>3, <2>4, <2>5, <2>7
  <2> QED
    BY <2>6, <2>7
<1>3. Ends(gs) = E \cup IF x /\ Inside(fs, len) THEN {len} ELSE {}
  <2>1. ASSUME NEW i \in 0 .. len - 1 PROVE i \in Ends(gs) <=> i \in E
    <3>1. CASE i = 0
      <4>1. i \notin 1 .. Len(gs) - 1 /\ i \notin 1 .. len - 1
        BY <1>1, <3>1
      <4> QED
        BY <4>1 DEF Ends
    <3>2. CASE i # 0
      <4>1. i \in 1 .. Len(gs) - 1 /\ i \in 1 .. len - 1 /\ i + 1 \in 1 .. len /\ i \in 1 .. len
        BY <1>1, <3>2
      <4> QED
        BY <1>1, <4>1 DEF Ends
    <3> QED
      BY <3>1, <3>2
  <2>2. len \in Ends(gs) <=> x /\ Inside(fs, len)
    <3>1. CASE len = 0
      <4>1. len \notin 1 .. Len(gs) - 1 /\ ~(len > 0)
        BY <1>1, <3>1
      <4> QED
        BY <4>1 DEF Ends, Inside
    <3>2. CASE len # 0
      <4>1. len \in 1 .. Len(gs) - 1 /\ len > 0 /\ len \in 1 .. len
        BY <1>1, <3>2
      <4>2. len \in Ends(gs) <=> ~fs[len] /\ x
        BY <1>1, <4>1 DEF Ends
      <4> QED
        BY <4>1, <4>2 DEF Inside
    <3> QED
      BY <3>1, <3>2
  <2>3. Ends(gs) \in SUBSET (0 .. len) /\ E \in SUBSET (0 .. len - 1)
    BY <1>1 DEF Ends
  <2>4. \A i \in 0 .. len : i \in 0 .. len - 1 \/ i = len
    BY <1>1
  <2>5. len \notin 0 .. len - 1
    BY <1>1
  <2> HIDE DEF E, len
  <2>6. CASE x /\ Inside(fs, len)
    BY <2>1, <2>2, <2>3, <2>4, <2>5, <2>6
  <2>7. CASE ~(x /\ Inside(fs, len))
    BY <2>1, <2>2, <2>3, <2>4, <2>5, <2>7
  <2> QED
    BY <2>6, <2>7
<1>4. /\ B \in SUBSET (0 .. len - 1) /\ E \in SUBSET (0 .. len - 1)
      /\ IsFiniteSet(B) /\ IsFiniteSet(E) /\ Cardinality(B) \in Nat /\ Cardinality(E) \in Nat
  BY BelowFinite
<1>5. ASSUME NEW y \in 0 .. len
      PROVE  /\ Below(Begins(gs), y) = Below(B, y) /\ Below(Ends(gs), y) = Below(E, y)
             /\ Inside(gs, y) <=> Inside(fs, y)
  <2>1. ~(len < y) /\ (y > 0 => y \in 1 .. len)
    BY <1>1
  <2>2. Below(Begins(gs), y) = Below(B, y)
    BY <1>2, <2>1 DEF Below
  <2>3. Below(Ends(gs), y) = Below(E, y)
    BY <1>3, <2>1 DEF Below
  <2> QED
    BY <1>1, <2>1, <2>2, <2>3 DEF Inside
<1>6. Cardinality(B) = Cardinality(E) + (IF Inside(fs, len) THEN 1 ELSE 0)
  <2>1. Below(B, len) = B /\ Below(E, len) = E /\ len \in 0 .. Len(fs)
    BY <1>1, <1>4 DEF Below
  <2> QED
    BY <2>1 DEF CountsOk
<1>7. Cardinality(Begins(gs)) = Cardinality(B) + (IF ~x /\ ~Inside(fs, len) THEN 1 ELSE 0)
  <2>1. len \notin B /\ IsFiniteSet(B) /\ Cardinality(B) \in Nat
    BY <1>1, <1>4
  <2>2. Begins(gs) = B \cup IF ~x /\ ~Inside(fs, len) THEN {len} ELSE {}
    BY <1>2
  <2> HIDE DEF B, E, len
  <2>3. Cardinality(B \cup {len}) = Cardinality(B) + 1
    BY <2>1, FS_AddElement
  <2>4. CASE ~x /\ ~Inside(fs, len)
    <3>1. Begins(gs) = B \cup {len}
      BY <2>2, <2>4
    <3> QED
      BY <2>3, <2>4, <3>1
  <2>5. CASE ~(~x /\ ~Inside(fs, len))
    <3>1. Begins(gs) = B
      BY <2>2, <2>5
    <3> QED
      BY <2>1, <2>5, <3>1
  <2> QED
    BY <2>4, <2>5
<1>8. Cardinality(Ends(gs)) = Cardinality(E) + (IF x /\ Inside(fs, len) THEN 1 ELSE 0)
  <2>1. len \notin E /\ IsFiniteSet(E) /\ Cardinality(E) \in Nat
    BY <1>1, <1>4
  <2>2. Ends(gs) = E \cup IF x /\ Inside(fs, len) THEN {len} ELSE {}
    BY <1>3
  <2> HIDE DEF B, E, len
  <2>3. Cardinality(E \cup {len}) = Cardinality(E) + 1
    BY <2>1, FS_AddElement
  <2>4. CASE x /\ Inside(fs, len)
    <3>1. Ends(gs) = E \cup {len}
      BY <2>2, <2>4
    <3> QED
      BY <2>3, <2>4, <3>1
  <2>5. CASE ~(x /\ Inside(fs, len))
    <3>1. Ends(gs) = E
      BY <2>2, <2>5
    <3> QED
      BY <2>1, <2>5, <3>1
  <2> QED
    BY <2>4, <2>5
<1>9. /\ Below(Begins(gs), len + 1) = Begins(gs) /\ Below(Ends(gs), len + 1) = Ends(gs)
      /\ Inside(gs, len + 1) <=> ~x
  <2>1. Begins(gs) \in SUBSET (0 .. len) /\ Ends(gs) \in SUBSET (0 .. len)
    BY <1>1 DEF Begins, Ends
  <2>2. len + 1 > 0 /\ \A i \in 0 .. len : i < len + 1
    BY <1>1
  <2> QED
    BY <1>1, <2>1, <2>2 DEF Below, Inside
<1>10. Cardinality(Begins(gs)) = Cardinality(Ends(gs)) + (IF ~x THEN 1 ELSE 0)
  BY <1>4, <1>6, <1>7, <1>8
<1> SUFFICES ASSUME NEW y \in 0 .. len + 1
             PROVE  Cardinality(Below(Begins(gs), y)) =
                      Cardinality(Below(Ends(gs), y)) + (IF Inside(gs, y) THEN 1 ELSE 0)
  BY <1>1 DEF CountsOk, gs
<1>11. CASE y \in 0 .. len
  BY <1>5, <1>11 DEF CountsOk
<1>12. CASE y = len + 1
  BY <1>9, <1>10, <1>12
<1> QED
  BY <1>1, <1>11, <1>12

LEMMA ZerosStart == VadInit => ZerosInv
<1> SUFFICES ASSUME VadInit PROVE ZerosInv
  OBVIOUS
<1>1. frames = <<>> /\ Loud(<<>>) = {}
  BY DEF VadInit, Loud
<1>2. \A x \in 0 .. Len(<<>>) : x = 0
  OBVIOUS
<1>3. Below(Begins(<<>>), 0) = {} /\ Below(Ends(<<>>), 0) = {} /\ ~Inside(<<>>, 0)
  BY DEF Below, Begins, Ends, Inside
<1>4. CountsOk(<<>>)
  <2>1. Cardinality({}) = 0
    BY FS_EmptySet
  <2>2. Cardinality(Below(Begins(<<>>), 0)) = 0 /\ Cardinality(Below(Ends(<<>>), 0)) = 0
    BY <1>3, <2>1
  <2>3. 0 = 0 + (IF Inside(<<>>, 0) THEN 1 ELSE 0)
    BY <1>3
  <2> SUFFICES ASSUME NEW x \in 0 .. Len(<<>>)
               PROVE  Cardinality(Below(Begins(<<>>), x)) =
                        Cardinality(Below(Ends(<<>>), x)) + (IF Inside(<<>>, x) THEN 1 ELSE 0)
    BY DEF CountsOk
  <2>4. x = 0
    BY <1>2
  <2> QED
    BY <2>2, <2>3, <2>4
<1> QED
  BY <1>1, <1>4 DEF ZerosInv, BoundsOk

LEMMA ZerosStep == ZerosInv /\ [VadNext]_vadVars => ZerosInv'
<1> SUFFICES ASSUME ZerosInv, [VadNext]_vadVars PROVE ZerosInv'
  OBVIOUS
<1>1. frames \in Seq(BOOLEAN) /\ CountsOk(frames) /\ BoundsOk(frames)
  BY DEF ZerosInv
<1>2. SUFFICES frames' \in Seq(BOOLEAN) /\ CountsOk(frames') /\ BoundsOk(frames')
  BY DEF ZerosInv
<1>3. CASE frames' = frames
  BY <1>1, <1>3
<1>4. ASSUME NEW x \in BOOLEAN, frames' = Append(frames, x)
      PROVE  frames' \in Seq(BOOLEAN) /\ CountsOk(frames') /\ BoundsOk(frames')
  <2> DEFINE hd == Loud(frames)
             len == Len(frames)
  <2>1. /\ frames' \in Seq(BOOLEAN) /\ len \in Nat /\ hd \in SUBSET (0 .. len - 1)
        /\ Loud(frames') = IF x THEN hd \cup {len} ELSE hd
    BY <1>1, <1>4, LoudMore
  <2>2. CountsOk(frames')
    BY <1>1, <1>4, CountsGrow
  <2> HIDE DEF hd, len
  <2>3. hd = {} \/ \E lo, hi \in hd : \A i \in hd : lo <= i /\ i <= hi
    BY <1>1 DEF BoundsOk, hd
  <2>4. BoundsOk(frames')
    <3>1. CASE ~x
      BY <2>1, <2>3, <3>1 DEF BoundsOk
    <3>2. CASE x /\ hd = {}
      <4>1. Loud(frames') = {len} /\ len <= len
        BY <2>1, <3>2
      <4> QED
        BY <4>1 DEF BoundsOk
    <3>3. CASE x /\ hd # {}
      <4>1. PICK lo \in hd : \A i \in hd : lo <= i
        BY <2>3, <3>3
      <4>2. Loud(frames') = hd \cup {len} /\ lo <= len /\ len <= len /\ \A i \in hd : i <= len
        BY <2>1, <3>3
      <4>3. \A i \in Loud(frames') : lo <= i /\ i <= len
        BY <4>1, <4>2
      <4> QED
        BY <4>2, <4>3 DEF BoundsOk
    <3> QED
      BY <3>1, <3>2, <3>3
  <2> QED
    BY <2>1, <2>2, <2>4
<1> QED
  BY <1>3, <1>4 DEF VadNext, Speech, Silence, vadVars

\* The edges that _mask_to_intervals zips, of the samples from lo to hi - 1.
RunStarts(lo, hi) == {i \in lo .. hi - 1 : Zero(i) /\ (i = lo \/ ~Zero(i - 1))}
RunEnds(lo, hi) ==
  {i + 1 : i \in {j \in lo .. hi - 1 : Zero(j) /\ (j = hi - 1 \/ ~Zero(j + 1))}}

LEMMA ZeroRunsIs ==
  \A lo, hi : ZeroRuns(lo, hi) =
    {r \in RunStarts(lo, hi) \X RunEnds(lo, hi) :
       Cardinality(Below(RunStarts(lo, hi), r[1])) = Cardinality(Below(RunEnds(lo, hi), r[2]))}
BY Zenon DEF ZeroRuns, Zipped, RunStarts, RunEnds, Below

LEMMA ZeroIs ==
  ASSUME frames \in Seq(BOOLEAN), NEW i \in Int
  PROVE  /\ Zero(i) <=> i \in 0 .. Len(frames) - 1 /\ ~frames[i + 1]
         /\ i \in 0 .. Len(frames) - 1 => (Zero(i) <=> ~frames[i + 1])
         /\ i \in Loud(frames) <=> i \in 0 .. Len(frames) - 1 /\ ~Zero(i)
<1>1. DOMAIN frames = 1 .. Len(frames) /\ Len(frames) \in Nat
  OBVIOUS
<1>2. i + 1 \in DOMAIN frames <=> i \in 0 .. Len(frames) - 1
  BY <1>1
<1> QED
  BY <1>2 DEF Zero, Loud

\* Over all samples the edges are those counted, and the end of a run still open.
LEMMA AllRuns ==
  ASSUME frames \in Seq(BOOLEAN)
  PROVE  LET len == Len(frames)
         IN  /\ RunStarts(0, len) = Begins(frames)
             /\ \A e : e \in RunEnds(0, len) <=>
                         e \in Ends(frames) \/ (e = len /\ Inside(frames, len))
<1> DEFINE len == Len(frames)
<1>1. len \in Nat
  OBVIOUS
<1>2. ASSUME NEW i \in 0 .. len - 1
      PROVE  (Zero(i) /\ (i = 0 \/ ~Zero(i - 1))) <=> ~frames[i + 1] /\ (i = 0 \/ frames[i])
  <2>1. Zero(i) <=> ~frames[i + 1]
    BY <1>1, ZeroIs
  <2>2. ASSUME i # 0 PROVE ~Zero(i - 1) <=> frames[i]
    <3>1. i - 1 \in 0 .. len - 1 /\ i - 1 + 1 = i /\ i - 1 \in Int
      BY <1>1, <2>2
    <3>2. Zero(i - 1) <=> ~frames[i - 1 + 1]
      BY <3>1, ZeroIs
    <3> QED
      BY <3>1, <3>2
  <2> QED
    BY <2>1, <2>2
<1>3. RunStarts(0, len) = Begins(frames)
  BY <1>2 DEF RunStarts, Begins
<1>4. ASSUME NEW j \in 0 .. len - 1
      PROVE  (Zero(j) /\ (j = len - 1 \/ ~Zero(j + 1))) <=>
               j + 1 \in Ends(frames) \/ (j + 1 = len /\ Inside(frames, len))
  <2>1. Zero(j) <=> ~frames[j + 1]
    BY <1>1, ZeroIs
  <2>2. CASE j = len - 1
    <3>1. j + 1 = len /\ len > 0 /\ len \notin 1 .. len - 1
      BY <1>1, <2>2
    <3> QED
      BY <2>1, <2>2, <3>1 DEF Ends, Inside
  <2>3. CASE j # len - 1
    <3>1. j + 1 # len /\ j + 1 \in 1 .. len - 1 /\ j + 1 \in 0 .. len - 1 /\ j + 1 \in Int
      BY <1>1, <2>3
    <3>2. Zero(j + 1) <=> ~frames[j + 1 + 1]
      BY <3>1, ZeroIs
    <3> QED
      BY <2>1, <2>3, <3>1, <3>2 DEF Ends
  <2> QED
    BY <2>2, <2>3
<1>5. ASSUME NEW e
      PROVE  e \in RunEnds(0, len) <=> e \in Ends(frames) \/ (e = len /\ Inside(frames, len))
  <2>1. ASSUME e \in RunEnds(0, len)
        PROVE  e \in Ends(frames) \/ (e = len /\ Inside(frames, len))
    <3>1. PICK j \in 0 .. len - 1 : Zero(j) /\ (j = len - 1 \/ ~Zero(j + 1)) /\ e = j + 1
      BY <2>1 DEF RunEnds
    <3> QED
      BY <1>4, <3>1
  <2>2. ASSUME e \in Ends(frames) \/ (e = len /\ Inside(frames, len))
        PROVE  e \in RunEnds(0, len)
    <3>1. e \in 1 .. len
      BY <1>1, <2>2 DEF Ends, Inside
    <3>2. e - 1 \in 0 .. len - 1 /\ e = (e - 1) + 1
      BY <1>1, <3>1
    <3>3. Zero(e - 1) /\ (e - 1 = len - 1 \/ ~Zero(e - 1 + 1))
      BY <1>4, <2>2, <3>2
    <3> QED
      BY <3>2, <3>3 DEF RunEnds
  <2> QED
    BY <2>1, <2>2
<1> QED
  BY <1>3, <1>5

\* What zip pairs, is a beginning and a later end.
LEMMA RunOrder ==
  ASSUME NEW fs \in Seq(BOOLEAN), CountsOk(fs), NEW s \in Begins(fs), NEW e,
         e \in Ends(fs) \/ (e = Len(fs) /\ Inside(fs, e)),
         Cardinality(Below(Begins(fs), s)) = Cardinality(Below(Ends(fs), e))
  PROVE  s < e
<1> DEFINE len == Len(fs)
           E == Ends(fs)
<1>1. len \in Nat /\ s \in 0 .. len - 1 /\ e \in 1 .. len /\ ~fs[e] /\ (s = 0 \/ fs[s])
  BY DEF Begins, Ends, Inside
<1> SUFFICES ASSUME ~(s < e) PROVE FALSE
  OBVIOUS
<1>2. e \in E /\ e < s
  <2>1. e # s /\ e # len
    BY <1>1
  <2> QED
    BY <1>1, <2>1
<1>3. Cardinality(Below(Begins(fs), s)) = Cardinality(Below(E, s))
  <2>1. s \in 0 .. Len(fs) /\ ~Inside(fs, s)
    BY <1>1 DEF Inside
  <2>2. Cardinality(Below(Begins(fs), s)) =
          Cardinality(Below(E, s)) + (IF Inside(fs, s) THEN 1 ELSE 0)
    BY <2>1 DEF CountsOk
  <2>3. Cardinality(Below(E, s)) \in Nat
    BY BelowFinite
  <2> QED
    BY <2>1, <2>2, <2>3
<1>4. /\ IsFiniteSet(Below(E, e)) /\ Cardinality(Below(E, e)) \in Nat
      /\ IsFiniteSet(Below(E, s)) /\ Cardinality(Below(E, s)) \in Nat
  BY BelowFinite
<1>5. E \in SUBSET Int
  BY DEF Ends
<1> HIDE DEF E
<1>6. e \notin Below(E, e) /\ Below(E, e) \cup {e} \in SUBSET Below(E, s)
  <2>1. e \notin Below(E, e) /\ e \in Below(E, s)
    BY <1>1, <1>2 DEF Below
  <2>2. \A x \in Below(E, e) : x \in E /\ x < s
    <3> SUFFICES ASSUME NEW x \in E, x < e PROVE x < s
      BY DEF Below
    <3>1. x \in Int /\ e \in Int /\ s \in Int
      BY <1>1, <1>5
    <3> QED
      BY <1>2, <3>1
  <2>3. \A x \in Below(E, e) : x \in Below(E, s)
    BY <2>2 DEF Below
  <2> QED
    BY <2>1, <2>3
<1>7. Cardinality(Below(E, e) \cup {e}) = Cardinality(Below(E, e)) + 1
  BY <1>4, <1>6, FS_AddElement
<1>8. Cardinality(Below(E, e) \cup {e}) <= Cardinality(Below(E, s))
  BY <1>4, <1>6, FS_Subset
<1> QED
  BY <1>3, <1>4, <1>7, <1>8 DEF E

\* Between two frames with speech, of which one sees all that begins and ends there.
LEMMA InnerRuns ==
  ASSUME frames \in Seq(BOOLEAN), NEW lo \in Loud(frames), NEW hi \in Loud(frames)
  PROVE  /\ RunStarts(lo, hi + 1) = {i \in Begins(frames) : lo < i /\ i <= hi}
         /\ RunEnds(lo, hi + 1) = {e \in Ends(frames) : lo < e /\ e <= hi}
<1> DEFINE len == Len(frames)
           top == hi + 1
<1>1. /\ len \in Nat /\ lo \in 0 .. len - 1 /\ hi \in 0 .. len - 1 /\ ~Zero(lo) /\ ~Zero(hi)
      /\ top - 1 = hi
  <2>1. len \in Nat /\ lo \in 0 .. len - 1 /\ hi \in 0 .. len - 1
    BY DEF Loud
  <2> QED
    BY <2>1, ZeroIs
<1>2. RunStarts(0, len) = Begins(frames)
  BY AllRuns
<1>3. \A e : e \in RunEnds(0, len) <=> e \in Ends(frames) \/ (e = len /\ Inside(frames, len))
  BY AllRuns
<1> HIDE DEF len, top
<1>4. ASSUME NEW i PROVE i \in RunStarts(lo, top) <=> i \in Begins(frames) /\ lo < i /\ i <= hi
  <2>1. ASSUME i \in RunStarts(lo, top) PROVE i \in Begins(frames) /\ lo < i /\ i <= hi
    <3>1. i \in lo .. hi /\ Zero(i) /\ (i = lo \/ ~Zero(i - 1))
      BY <1>1, <2>1 DEF RunStarts
    <3>2. i # lo /\ i \in 0 .. len - 1 /\ lo < i /\ i <= hi
      BY <1>1, <3>1
    <3>3. i \in RunStarts(0, len)
      BY <3>1, <3>2 DEF RunStarts
    <3> QED
      BY <1>2, <3>2, <3>3
  <2>2. ASSUME i \in Begins(frames), lo < i, i <= hi PROVE i \in RunStarts(lo, top)
    <3>1. i \in 0 .. len - 1 /\ Zero(i) /\ (i = 0 \/ ~Zero(i - 1))
      BY <1>2, <2>2 DEF RunStarts
    <3>2. i # 0 /\ i \in lo .. top - 1
      BY <1>1, <2>2, <3>1
    <3>3. Zero(i) /\ ~Zero(i - 1)
      BY <3>1, <3>2
    <3> QED
      BY <3>2, <3>3 DEF RunStarts
  <2> QED
    BY <2>1, <2>2
<1>5. ASSUME NEW e PROVE e \in RunEnds(lo, top) <=> e \in Ends(frames) /\ lo < e /\ e <= hi
  <2>1. ASSUME e \in RunEnds(lo, top) PROVE e \in Ends(frames) /\ lo < e /\ e <= hi
    <3>1. PICK j \in lo .. top - 1 : Zero(j) /\ (j = top - 1 \/ ~Zero(j + 1)) /\ e = j + 1
      BY <2>1 DEF RunEnds
    <3>2. j # hi /\ j # lo /\ j \in lo .. hi
      BY <1>1, <3>1
    <3>3. j \in 0 .. len - 1 /\ lo < e /\ e <= hi /\ e # len /\ ~Zero(j + 1)
      BY <1>1, <3>1, <3>2
    <3>4. e \in RunEnds(0, len)
      BY <3>1, <3>3 DEF RunEnds
    <3> QED
      BY <1>3, <3>3, <3>4
  <2>2. ASSUME e \in Ends(frames), lo < e, e <= hi PROVE e \in RunEnds(lo, top)
    <3>1. e \in RunEnds(0, len)
      BY <1>3, <2>2
    <3>2. PICK j \in 0 .. len - 1 : Zero(j) /\ (j = len - 1 \/ ~Zero(j + 1)) /\ e = j + 1
      BY <3>1 DEF RunEnds
    <3>3. j \in lo .. top - 1 /\ Zero(j) /\ ~Zero(j + 1)
      BY <1>1, <2>2, <3>2
    <3> QED
      BY <3>2, <3>3 DEF RunEnds
  <2> QED
    BY <2>1, <2>2
<1> QED
  BY <1>4, <1>5 DEF top

\* The elements of S below y: those up to lo and the others.
LEMMA BelowSplit ==
  ASSUME NEW S \in SUBSET Nat, IsFiniteSet(S), NEW lo \in Nat, NEW hi \in Nat,
         NEW y \in Nat, lo < y, y <= hi, NEW T, T = {i \in S : lo < i /\ i <= hi}
  PROVE  /\ Cardinality(Below(T, y)) \in Nat /\ Cardinality(Below(S, lo + 1)) \in Nat
         /\ Cardinality(Below(S, y)) = Cardinality(Below(T, y)) + Cardinality(Below(S, lo + 1))
<1> DEFINE a == Below(T, y)
           b == Below(S, lo + 1)
<1>1. a \in SUBSET S /\ b \in SUBSET S
  BY DEF Below
<1>2. \A i \in S : i \in Nat
  OBVIOUS
<1>3. a \cap b = {}
  <2>1. \A i \in S : ~(lo < i /\ i < lo + 1)
    BY <1>2
  <2> QED
    BY <2>1 DEF Below
<1>4. Below(S, y) = a \cup b
  <2>1. \A i \in S : i < y <=> (lo < i /\ i <= hi /\ i < y) \/ i < lo + 1
    BY <1>2
  <2>2. \A i : /\ i \in a <=> i \in S /\ lo < i /\ i <= hi /\ i < y
               /\ i \in b <=> i \in S /\ i < lo + 1
    BY DEF Below
  <2> HIDE DEF a, b
  <2>3. \A i : i \in Below(S, y) <=> i \in a \cup b
    BY <2>1, <2>2 DEF Below
  <2> QED
    BY <2>3
<1> HIDE DEF a, b
<1>5. IsFiniteSet(a) /\ IsFiniteSet(b) /\ Cardinality(a) \in Nat /\ Cardinality(b) \in Nat
  BY <1>1, FS_Subset, FS_CardinalityType
<1>6. Cardinality(a \cup b) = Cardinality(a) + Cardinality(b) - Cardinality(a \cap b)
  BY <1>5, FS_Union
<1>7. Cardinality(a \cap b) = 0
  BY <1>3, FS_EmptySet
<1>8. Cardinality(a \cup b) = Cardinality(a) + Cardinality(b)
  BY <1>5, <1>6, <1>7
<1> QED
  BY <1>4, <1>5, <1>8 DEF a, b

\* The dropouts are the zero runs that real audio bounds on both sides.
LEMMA RunsBounded ==
  ASSUME frames \in Seq(BOOLEAN), CountsOk(frames), BoundsOk(frames)
  PROVE  InteriorZeroRuns(1) = {r \in PaddingIntervals : r[1] > 0 /\ r[2] < Len(frames)}
<1> DEFINE len == Len(frames)
           B == Begins(frames)
           E == Ends(frames)
           pads == PaddingIntervals
<1>1. /\ len \in Nat /\ NonZero = Loud(frames) /\ NonZero \in SUBSET (0 .. len - 1)
      /\ IsFiniteSet(NonZero) /\ Cardinality(NonZero) \in Nat
  <2>1. len \in Nat /\ NonZero = Loud(frames) /\ NonZero \in SUBSET (0 .. len - 1)
    BY NonZeroIs, LoudIn
  <2>2. IsFiniteSet(0 .. len - 1)
    BY <2>1, FS_Interval
  <2> QED
    BY <2>1, <2>2, FS_Subset, FS_CardinalityType
<1>2. ASSUME NEW r
      PROVE  r \in pads <=>
               /\ r \in B \X RunEnds(0, len)
               /\ Cardinality(Below(B, r[1])) = Cardinality(Below(E, r[2]))
  <2>1. RunStarts(0, len) = B
    BY AllRuns
  <2>2. \A e \in RunEnds(0, len) : Below(RunEnds(0, len), e) = Below(E, e)
    <3> SUFFICES ASSUME NEW e \in RunEnds(0, len), NEW x
                 PROVE  x \in RunEnds(0, len) /\ x < e <=> x \in E /\ x < e
      BY DEF Below
    <3>1. e \in 1 .. len
      <4>1. e \in E \/ (e = len /\ Inside(frames, len))
        BY AllRuns
      <4> QED
        BY <1>1, <4>1 DEF Ends, Inside
    <3>2. x \in RunEnds(0, len) <=> x \in E \/ (x = len /\ Inside(frames, len))
      BY AllRuns
    <3>3. x = len => ~(x < e)
      BY <1>1, <3>1
    <3> QED
      BY <3>2, <3>3
  <2>3. r \in pads <=>
          /\ r \in RunStarts(0, len) \X RunEnds(0, len)
          /\ Cardinality(Below(RunStarts(0, len), r[1])) = Cardinality(Below(RunEnds(0, len), r[2]))
    BY ZeroRunsIs DEF PaddingIntervals
  <2> HIDE DEF B, E, len, pads
  <2>4. r \in B \X RunEnds(0, len) => r[2] \in RunEnds(0, len)
    OBVIOUS
  <2> QED
    BY <2>1, <2>2, <2>3, <2>4
<1>3. ASSUME NEW r \in pads
      PROVE  /\ r[1] \in B /\ r[2] \in RunEnds(0, len) /\ r[1] < r[2] /\ r = <<r[1], r[2]>>
             /\ r[1] > 0 => r[1] - 1 \in NonZero
             /\ r[2] < len => r[2] \in E /\ r[2] \in NonZero
  <2>1. /\ r \in B \X RunEnds(0, len)
        /\ Cardinality(Below(B, r[1])) = Cardinality(Below(E, r[2]))
    BY <1>2
  <2>2. r[1] \in B /\ r[2] \in RunEnds(0, len) /\ r = <<r[1], r[2]>>
    BY <2>1
  <2>3. r[2] \in E \/ (r[2] = len /\ Inside(frames, r[2]))
    BY <2>2, AllRuns
  <2>4. r[1] < r[2]
    BY <2>1, <2>2, <2>3, RunOrder
  <2>5. ASSUME r[1] > 0 PROVE r[1] - 1 \in NonZero
    <3>1. r[1] \in 0 .. len - 1 /\ frames[r[1]]
      BY <2>2, <2>5 DEF Begins
    <3>2. r[1] - 1 \in 0 .. len - 1 /\ r[1] - 1 + 1 = r[1]
      BY <1>1, <2>5, <3>1
    <3> QED
      BY <1>1, <3>1, <3>2 DEF Loud
  <2>6. ASSUME r[2] < len PROVE r[2] \in E /\ r[2] \in NonZero
    <3>1. r[2] \in E
      BY <1>1, <2>3, <2>6
    <3>2. r[2] \in 0 .. len - 1 /\ frames[r[2] + 1]
      BY <3>1 DEF Ends
    <3> QED
      BY <1>1, <3>1, <3>2 DEF Loud
  <2> QED
    BY <2>2, <2>4, <2>5, <2>6
<1>4. CASE Cardinality(NonZero) < 2
  <2>1. InteriorZeroRuns(1) = {}
    BY <1>4 DEF InteriorZeroRuns
  <2>2. ASSUME NEW r \in pads, r[1] > 0, r[2] < len PROVE FALSE
    <3> DEFINE a == r[1] - 1
               b == r[2]
    <3>1. a \in NonZero /\ b \in NonZero /\ r[1] < b
      BY <1>3, <2>2
    <3>2. a # b
      <4>1. r[1] \in Int /\ b \in Int
        BY <1>1, <1>3, <3>1 DEF Begins
      <4> QED
        BY <3>1, <4>1
    <3> HIDE DEF a, b
    <3>3. IsFiniteSet({a}) /\ Cardinality({a}) = 1
      BY FS_Singleton
    <3>4. IsFiniteSet({a} \cup {b}) /\ Cardinality({a} \cup {b}) = 2
      <4>1. b \notin {a}
        BY <3>2
      <4> DEFINE one == {a}
                 both == {a} \cup {b}
      <4>2. Cardinality(both) = Cardinality(one) + 1 /\ IsFiniteSet(both) /\ Cardinality(one) = 1
        BY <3>3, <4>1, FS_AddElement
      <4> HIDE DEF one, both
      <4>3. Cardinality(both) = 2 /\ IsFiniteSet(both)
        BY <4>2
      <4> QED
        BY <4>3 DEF both
    <3>5. {a} \cup {b} \in SUBSET NonZero
      BY <3>1
    <3>6. 2 <= Cardinality(NonZero)
      BY <1>1, <3>4, <3>5, FS_Subset
    <3> QED
      BY <1>1, <1>4, <3>6
  <2> QED
    BY <2>1, <2>2
<1>5. CASE ~(Cardinality(NonZero) < 2)
  <2>1. NonZero # {}
    BY <1>1, <1>5, FS_EmptySet
  <2>2. PICK x \in NonZero, y \in NonZero : \A i \in NonZero : x <= i /\ i <= y
    BY <1>1, <2>1 DEF BoundsOk
  <2> DEFINE lo == CHOOSE i \in NonZero : \A j \in NonZero : i <= j
             hi == CHOOSE i \in NonZero : \A j \in NonZero : j <= i
             S == RunStarts(lo, hi + 1)
             T == RunEnds(lo, hi + 1)
  <2>3. InteriorZeroRuns(1) = {r \in ZeroRuns(lo, hi + 1) : r[2] - r[1] >= 1}
    BY <1>5 DEF InteriorZeroRuns
  <2>4. lo \in NonZero /\ \A j \in NonZero : lo <= j
    BY <2>2
  <2>5. hi \in NonZero /\ \A j \in NonZero : j <= hi
    BY <2>2
  <2> HIDE DEF lo, hi
  <2>6. lo \in 0 .. len - 1 /\ hi \in 0 .. len - 1 /\ lo <= hi
    BY <1>1, <2>4, <2>5
  <2>7. S = {i \in B : lo < i /\ i <= hi} /\ T = {e \in E : lo < e /\ e <= hi}
    BY <1>1, <2>4, <2>5, InnerRuns
  <2>8. /\ B \in SUBSET (0 .. len) /\ E \in SUBSET (0 .. len)
        /\ IsFiniteSet(B) /\ IsFiniteSet(E)
    <3>1. /\ B \in SUBSET (0 .. len - 1) /\ E \in SUBSET (0 .. len - 1)
          /\ IsFiniteSet(B) /\ IsFiniteSet(E)
      BY BelowFinite
    <3>2. \A i \in 0 .. len - 1 : i \in 0 .. len
      BY <1>1
    <3> QED
      BY <3>1, <3>2
  <2>9. /\ Cardinality(Below(B, lo + 1)) = Cardinality(Below(E, lo + 1))
        /\ Cardinality(Below(E, lo + 1)) \in Nat
    <3>1. lo + 1 \in 0 .. Len(frames)
      BY <1>1, <2>6
    <3>2. ~Inside(frames, lo + 1)
      BY <1>1, <2>4 DEF Inside, Loud
    <3>3. Cardinality(Below(E, lo + 1)) \in Nat
      BY BelowFinite
    <3> QED
      BY <3>1, <3>2, <3>3 DEF CountsOk
  <2> HIDE DEF B, E, S, T, len, pads
  <2>10. ASSUME NEW s \in S, NEW e \in T
         PROVE  Cardinality(Below(S, s)) = Cardinality(Below(T, e)) <=>
                  Cardinality(Below(B, s)) = Cardinality(Below(E, e))
    <3>1. s \in lo + 1 .. hi /\ e \in lo + 1 .. hi /\ lo \in Nat /\ hi \in Nat
      BY <1>1, <2>6, <2>7, <2>8
    <3>2. /\ Cardinality(Below(S, s)) \in Nat
          /\ Cardinality(Below(B, s)) = Cardinality(Below(S, s)) + Cardinality(Below(B, lo + 1))
      <4>1. B \in SUBSET Nat /\ IsFiniteSet(B)
        BY <2>8
      <4>2. s \in Nat /\ lo < s /\ s <= hi /\ lo \in Nat /\ hi \in Nat
        BY <3>1
      <4> QED
        BY <2>7, <4>1, <4>2, BelowSplit
    <3>3. /\ Cardinality(Below(T, e)) \in Nat
          /\ Cardinality(Below(E, e)) = Cardinality(Below(T, e)) + Cardinality(Below(E, lo + 1))
      <4>1. E \in SUBSET Nat /\ IsFiniteSet(E)
        BY <2>8
      <4>2. e \in Nat /\ lo < e /\ e <= hi /\ lo \in Nat /\ hi \in Nat
        BY <3>1
      <4> QED
        BY <2>7, <4>1, <4>2, BelowSplit
    <3> QED
      BY <2>9, <3>2, <3>3
  <2>11. ASSUME NEW r
         PROVE  r \in ZeroRuns(lo, hi + 1) <=>
                  r \in S \X T /\ Cardinality(Below(S, r[1])) = Cardinality(Below(T, r[2]))
    BY ZeroRunsIs DEF S, T
  <2>12. ASSUME NEW r \in ZeroRuns(lo, hi + 1), r[2] - r[1] >= 1
         PROVE  r \in pads /\ r[1] > 0 /\ r[2] < len
    <3>1. /\ r \in S \X T /\ r[1] \in S /\ r[2] \in T
          /\ Cardinality(Below(S, r[1])) = Cardinality(Below(T, r[2]))
      BY <2>11
    <3>2. Cardinality(Below(B, r[1])) = Cardinality(Below(E, r[2]))
      BY <2>10, <3>1
    <3>3. r[1] \in B /\ r[2] \in E /\ lo < r[1] /\ r[2] <= hi /\ r[1] \in Int /\ r[2] \in Int
      <4>1. r[1] \in B /\ r[2] \in E /\ lo < r[1] /\ r[2] <= hi
        BY <2>7, <3>1
      <4>2. \A i \in B : i \in Int
        BY <2>8
      <4>3. \A e \in E : e \in Int
        BY <2>8
      <4> QED
        BY <4>1, <4>2, <4>3
    <3>4. r[2] \in RunEnds(0, len)
      BY <3>3, AllRuns DEF len, E
    <3>5. r \in B \X RunEnds(0, len)
      BY <3>1, <3>3, <3>4
    <3> QED
      BY <1>1, <1>2, <2>6, <3>2, <3>3, <3>5
  <2>13. ASSUME NEW r \in pads, r[1] > 0, r[2] < len
         PROVE  r \in ZeroRuns(lo, hi + 1) /\ r[2] - r[1] >= 1
    <3>1. /\ r[1] \in B /\ r[2] \in E /\ r[1] < r[2] /\ r = <<r[1], r[2]>>
          /\ r[1] - 1 \in NonZero /\ r[2] \in NonZero
      BY <1>3, <2>13
    <3>2. r[1] \in Int /\ r[2] \in Int /\ lo <= r[1] - 1 /\ r[2] <= hi
      BY <2>4, <2>5, <2>8, <3>1
    <3>3. lo < r[1] /\ r[1] <= hi /\ lo < r[2] /\ r[2] - r[1] >= 1
      BY <1>1, <2>6, <3>1, <3>2
    <3>4. r[1] \in S /\ r[2] \in T
      BY <2>7, <3>1, <3>2, <3>3
    <3>5. Cardinality(Below(B, r[1])) = Cardinality(Below(E, r[2]))
      BY <1>2
    <3>6. Cardinality(Below(S, r[1])) = Cardinality(Below(T, r[2]))
      BY <2>10, <3>4, <3>5
    <3>7. r \in S \X T
      BY <3>1, <3>4
    <3> QED
      BY <2>11, <3>3, <3>6, <3>7
  <2> QED
    BY <2>3, <2>12, <2>13 DEF pads, len
<1> QED
  BY <1>4, <1>5

\* detect_utterances, padding_intervals_for and dropout_count (core/audio): whatever the
\* frames, the hangover and the length of the recording, the regions are the caller's
\* breaths, and the dropouts the zero runs with audio on both sides.
THEOREM BreathsFound == VadSpec => []RegionsAreBreaths
<1>1. VadInv /\ ZerosInv => RegionsAreBreaths
  <2> SUFFICES ASSUME VadInv, ZerosInv PROVE RegionsAreBreaths
    OBVIOUS
  <2>1. /\ frames \in Seq(BOOLEAN) /\ CountsOk(frames) /\ BoundsOk(frames)
        /\ Covers(Loud(frames), Len(frames), Regions)
    BY RegionsCover DEF ZerosInv
  <2>2. InteriorZeroRuns(1) = {r \in PaddingIntervals : r[1] > 0 /\ r[2] < Len(frames)}
    BY <2>1, RunsBounded
  <2> QED
    BY <2>1, <2>2, CoversBreaths DEF RegionsAreBreaths
<1>2. VadInit => VadInv /\ ZerosInv
  BY VadStart, ZerosStart
<1>3. VadInv /\ ZerosInv /\ [VadNext]_vadVars => VadInv' /\ ZerosInv'
  BY VadStep, ZerosStep
<1> QED
  BY <1>1, <1>2, <1>3, PTL DEF VadSpec
=============================================================================
