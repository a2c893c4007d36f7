---------------------------- MODULE Trace_proofs ----------------------------
(***************************************************************************)
(* From fragments to a trace, whatever a producer sends and in however     *)
(* many pieces: the rows of an analysis are those its last run would write *)
(* over an empty table, and each span of the trace is in the exchange of   *)
(* the turn it belongs to.  Both follow recursions over sequences of any   *)
(* length, by induction.                                                   *)
(***************************************************************************)
EXTENDS Analysis, TurnIds, Induction

-----------------------------------------------------------------------------
(* The rows of an analysis.                                                *)

LEMMA CopiesAre ==
  /\ \A f \in Copies : DOMAIN f \in SUBSET Span /\ f \in [DOMAIN f -> Version]
  /\ \A D \in SUBSET Span : \A f \in [D -> Version] : f \in Copies
<1>1. ASSUME NEW f \in Copies PROVE DOMAIN f \in SUBSET Span /\ f \in [DOMAIN f -> Version]
  <2>1. PICK D \in SUBSET Span : f \in [D -> Version]
    BY DEF Copies
  <2>2. DOMAIN f = D
    BY <2>1
  <2> QED  BY <2>1, <2>2
<1>2. ASSUME NEW D \in SUBSET Span, NEW f \in [D -> Version] PROVE f \in Copies
  BY DEF Copies
<1> QED  BY <1>1, <1>2

\* One fragment over another: the copies of the first are kept.
LEMMA OverIs ==
  ASSUME NEW f \in Copies, NEW g \in Copies
  PROVE  /\ Over(f, g) \in Copies /\ DOMAIN Over(f, g) = DOMAIN f \cup DOMAIN g
         /\ \A s \in DOMAIN Over(f, g) : Over(f, g)[s] = IF s \in DOMAIN f THEN f[s] ELSE g[s]
<1> DEFINE h == Over(f, g)
<1>1. h = [s \in (DOMAIN f) \cup (DOMAIN g) |-> IF s \in DOMAIN f THEN f[s] ELSE g[s]]
  BY DEF Over
<1>2. /\ DOMAIN f \in SUBSET Span /\ f \in [DOMAIN f -> Version]
      /\ DOMAIN g \in SUBSET Span /\ g \in [DOMAIN g -> Version]
  BY CopiesAre
<1> HIDE DEF h
<1>3. DOMAIN h = DOMAIN f \cup DOMAIN g
  BY <1>1
<1>4. \A s \in DOMAIN h : h[s] = IF s \in DOMAIN f THEN f[s] ELSE g[s]
  BY <1>1
<1>5. h \in [DOMAIN f \cup DOMAIN g -> Version]
  <2>1. \A s \in DOMAIN f \cup DOMAIN g : (IF s \in DOMAIN f THEN f[s] ELSE g[s]) \in Version
    BY <1>2
  <2> QED  BY <1>1, <2>1
<1>6. h \in Copies
  <2>1. DOMAIN f \cup DOMAIN g \in SUBSET Span
    BY <1>2
  <2> QED  BY <1>5, <2>1, CopiesAre
<1> QED  BY <1>3, <1>4, <1>6 DEF h

LastCopy(frags, k, s, v) ==
  \E n \in 1 .. k : /\ s \in DOMAIN frags[n] /\ frags[n][s] = v
                    /\ \A m \in 1 .. k : m > n => s \notin DOMAIN frags[m]

LEMMA CopiesAssembled ==
  ASSUME NEW frags \in Seq(Copies)
  PROVE  /\ Assemble(frags) \in Copies
         /\ DOMAIN Assemble(frags) = UNION {DOMAIN frags[n] : n \in 1 .. Len(frags)}
         /\ \A s \in DOMAIN Assemble(frags) : LastCopy(frags, Len(frags), s, Assemble(frags)[s])
<1> DEFINE N == Len(frags)
           Is(f) == f = [n \in 0 .. N |-> IF n = 0 THEN <<>> ELSE Over(frags[n], f[n - 1])]
           spans == CHOOSE f : Is(f)
           Good(n) == /\ spans[n] \in Copies
                      /\ DOMAIN spans[n] = UNION {DOMAIN frags[m] : m \in 1 .. n}
                      /\ \A s \in DOMAIN spans[n] : LastCopy(frags, n, s, spans[n][s])
           T == {n \in Nat : n <= N => Good(n)}
<1>0. N \in Nat /\ \A n \in 1 .. N : frags[n] \in Copies
  OBVIOUS
<1>1. Is(spans)
  <2> DEFINE step == [p \in (1 .. N) \X Copies |-> Over(frags[p[1]], p[2])]
  <2>1. step \in [(1 .. N) \X Copies -> Copies]
    BY <1>0, OverIs
  <2>2. <<>> \in Copies
    <3>1. <<>> \in [{} -> Version]
      OBVIOUS
    <3> QED  BY <3>1, CopiesAre
  <2>3. PICK f : IsRecursion(f, N, Copies, <<>>, step)
    <3> HIDE DEF step, N
    <3> QED  BY <1>0, <2>1, <2>2, RecursionExists
  <2>4. ASSUME NEW n \in 1 .. N PROVE f[n] = Over(frags[n], f[n - 1])
    <3>1. <<n, f[n - 1]>> \in (1 .. N) \X Copies
      BY <1>0, <2>3 DEF IsRecursion
    <3> QED  BY <2>3, <3>1 DEF IsRecursion
  <2>5. Is(f)
    <3> HIDE DEF step, N
    <3>1. \A n \in 0 .. N : f[n] = IF n = 0 THEN <<>> ELSE Over(frags[n], f[n - 1])
      BY <1>0, <2>3, <2>4 DEF IsRecursion
    <3> QED  BY <2>3, <3>1 DEF IsRecursion
  <2> HIDE DEF Is
  <2> QED  BY <2>5
<1>2. Assemble(frags) = spans[N]
  BY DEF Assemble
<1>3. spans[0] = <<>> /\ \A n \in 1 .. N : spans[n] = Over(frags[n], spans[n - 1])
  <2> HIDE DEF spans
  <2>1. \A n \in 0 .. N : spans[n] = IF n = 0 THEN <<>> ELSE Over(frags[n], spans[n - 1])
    BY <1>1
  <2> HIDE DEF Is
  <2> QED  BY <1>0, <2>1
<1> HIDE DEF spans, Is
<1>4. 0 \in T
  <2>1. <<>> \in [{} -> Version] /\ DOMAIN <<>> = {}
    OBVIOUS
  <2>2. Good(0)
    <3>1. spans[0] \in Copies
      BY <1>3, <2>1, CopiesAre
    <3>2. DOMAIN spans[0] = UNION {DOMAIN frags[m] : m \in 1 .. 0}
      BY <1>3, <2>1
    <3> QED  BY <1>3, <2>1, <3>1, <3>2
  <2> QED  BY <2>2
<1>5. ASSUME NEW n \in Nat, n \in T PROVE n + 1 \in T
  <2> SUFFICES ASSUME n + 1 <= N PROVE Good(n + 1)
    OBVIOUS
  <2>1. Good(n) /\ n + 1 \in 1 .. N /\ (n + 1) - 1 = n
    BY <1>0, <1>5
  <2>2. spans[n + 1] = Over(frags[n + 1], spans[n])
    BY <1>3, <2>1
  <2>3. /\ spans[n + 1] \in Copies
        /\ DOMAIN spans[n + 1] = DOMAIN frags[n + 1] \cup DOMAIN spans[n]
        /\ \A s \in DOMAIN spans[n + 1] :
             spans[n + 1][s] = IF s \in DOMAIN frags[n + 1] THEN frags[n + 1][s] ELSE spans[n][s]
    <3>1. frags[n + 1] \in Copies /\ spans[n] \in Copies
      BY <1>0, <2>1
    <3> DEFINE a == frags[n + 1]
               b == spans[n]
    <3>0. a \in Copies /\ b \in Copies
      BY <3>1
    <3> HIDE DEF a, b
    <3>2. /\ Over(a, b) \in Copies /\ DOMAIN Over(a, b) = DOMAIN a \cup DOMAIN b
          /\ \A s \in DOMAIN Over(a, b) : Over(a, b)[s] = IF s \in DOMAIN a THEN a[s] ELSE b[s]
      BY ONLY <3>0, OverIs
    <3> QED  BY <2>2, <3>2 DEF a, b
  <2>4. DOMAIN spans[n + 1] = UNION {DOMAIN frags[m] : m \in 1 .. n + 1}
    <3>1. 1 .. n + 1 = (1 .. n) \cup {n + 1}
      OBVIOUS
    <3> QED  BY <2>1, <2>3, <3>1
  <2>5. ASSUME NEW s \in DOMAIN spans[n + 1]
        PROVE  LastCopy(frags, n + 1, s, spans[n + 1][s])
    <3>1. CASE s \in DOMAIN frags[n + 1]
      <4>1. spans[n + 1][s] = frags[n + 1][s] /\ n + 1 \in 1 .. n + 1
            /\ \A m \in 1 .. n + 1 : ~(m > n + 1)
        BY <2>3, <3>1
      <4> QED  BY <3>1, <4>1 DEF LastCopy
    <3>2. CASE s \notin DOMAIN frags[n + 1]
      <4>1. s \in DOMAIN spans[n] /\ spans[n + 1][s] = spans[n][s]
        BY <2>3, <3>2
      <4>2. LastCopy(frags, n, s, spans[n][s])
        BY <2>1, <4>1
      <4>3. PICK k \in 1 .. n : /\ s \in DOMAIN frags[k] /\ frags[k][s] = spans[n][s]
                                /\ \A m \in 1 .. n : m > k => s \notin DOMAIN frags[m]
        BY <4>2 DEF LastCopy
      <4>4. k \in 1 .. n + 1 /\ \A m \in 1 .. n + 1 : m > k => s \notin DOMAIN frags[m]
        <5>1. \A m \in 1 .. n + 1 : m \in 1 .. n \/ m = n + 1
          OBVIOUS
        <5> QED  BY <3>2, <4>3, <5>1
      <4> QED  BY <4>1, <4>3, <4>4 DEF LastCopy
    <3> QED  BY <3>1, <3>2
  <2> QED  BY <2>3, <2>4, <2>5
<1>6. N \in T
  <2> HIDE DEF T, N
  <2> QED  BY <1>0, <1>4, <1>5, NaturalInduction
<1> QED  BY <1>2, <1>6

\* Of each span the copy with the last number among the first k fragments, or one of them.
Newest(k, s, v) ==
  \E n \in 1 .. k :
    /\ s \in DOMAIN fragments[n].spans /\ fragments[n].spans[s] = v
    /\ \A m \in 1 .. k : s \in DOMAIN fragments[m].spans => fragments[m].seq <= fragments[n].seq

LEMMA AssembleIs ==
  ASSUME fragments \in Seq(Fragment), NEW payloads \in Payloads
  PROVE  LET spans == Assemble(payloads)
             N == Len(fragments)
         IN  /\ spans \in Copies
             /\ DOMAIN spans = UNION {DOMAIN fragments[n].spans : n \in 1 .. N}
             /\ \A s \in DOMAIN spans : Newest(N, s, spans[s])
<1> DEFINE N == Len(fragments)
           list == payloads
           spans == Assemble(list)
<1>0. DOMAIN fragments = 1 .. N
  OBVIOUS
<1>9. PICK order \in [1 .. N -> 1 .. N] :
        /\ \A i, j \in 1 .. N :
             i < j => order[i] # order[j] /\ fragments[order[i]].seq <= fragments[order[j]].seq
        /\ payloads = [n \in 1 .. N |-> fragments[order[n]].spans]
  BY <1>0 DEF Payloads
<1>1. N \in Nat /\ \A n \in 1 .. N : fragments[n] \in Fragment
  OBVIOUS
<1>2. \A n \in 1 .. N : fragments[n].spans \in Copies /\ fragments[n].seq \in Int
  BY <1>1 DEF Fragment
<1>3. list \in Seq(Copies) /\ Len(list) = N /\ \A n \in 1 .. N : list[n] = fragments[order[n]].spans
  BY <1>1, <1>2, <1>9
<1>4. \A n \in 1 .. N : \E i \in 1 .. N : order[i] = n
  <2>1. \A i, j \in 1 .. N : order[i] = order[j] => i = j
    <3> SUFFICES ASSUME NEW i \in 1 .. N, NEW j \in 1 .. N, order[i] = order[j], i # j PROVE FALSE
      OBVIOUS
    <3>1. i < j \/ j < i
      BY <1>1
    <3> QED  BY <1>9, <3>1
  <2>2. order \in Injection(1 .. N, 1 .. N)
    BY <2>1 DEF Injection, IsInjective
  <2>3. IsFiniteSet(1 .. N)
    BY <1>1, FS_Interval
  <2>4. order \in Surjection(1 .. N, 1 .. N)
    BY <2>2, <2>3, FS_Injection
  <2> QED  BY <2>4 DEF Surjection
<1> HIDE DEF list
<1>6. /\ spans \in Copies
      /\ DOMAIN spans = UNION {DOMAIN list[n] : n \in 1 .. N}
      /\ \A s \in DOMAIN spans : LastCopy(list, N, s, spans[s])
  BY <1>3, CopiesAssembled
<1> HIDE DEF spans
<1>7. UNION {DOMAIN list[n] : n \in 1 .. N} = UNION {DOMAIN fragments[n].spans : n \in 1 .. N}
  <2>1. \A n \in 1 .. N : order[n] \in 1 .. N
    OBVIOUS
  <2>2. \A n \in 1 .. N : DOMAIN list[n] = DOMAIN fragments[order[n]].spans
    BY <1>3
  <2> HIDE DEF list
  <2>3. \A x : (\E n \in 1 .. N : x \in DOMAIN list[n]) <=> \E n \in 1 .. N : x \in DOMAIN fragments[n].spans
    BY <1>4, <2>1, <2>2
  <2> QED  BY <2>3
<1>8. ASSUME NEW s \in DOMAIN spans PROVE Newest(N, s, spans[s])
  <2>1. PICK i \in 1 .. N : /\ s \in DOMAIN list[i] /\ list[i][s] = spans[s]
                            /\ \A j \in 1 .. N : j > i => s \notin DOMAIN list[j]
    BY <1>6, <1>8 DEF LastCopy
  <2>2. /\ order[i] \in 1 .. N /\ s \in DOMAIN fragments[order[i]].spans
        /\ fragments[order[i]].spans[s] = spans[s]
    BY <1>3, <2>1
  <2>3. ASSUME NEW m \in 1 .. N, s \in DOMAIN fragments[m].spans
        PROVE  fragments[m].seq <= fragments[order[i]].seq
    <3>1. PICK j \in 1 .. N : order[j] = m
      BY <1>4
    <3>2. ~(j > i)
      BY <1>3, <2>1, <2>3, <3>1
    <3>3. j < i \/ j = i
      BY <3>2
    <3> QED  BY <1>2, <1>9, <2>2, <3>1, <3>3
  <2> QED  BY <2>2, <2>3 DEF Newest
<1> HIDE DEF list
<1> QED  BY <1>6, <1>7, <1>8 DEF spans, list

-----------------------------------------------------------------------------
(* The rows, the columns and the reasons of a call.                        *)

\* spans may be what assemble makes of the first k fragments.
Assembles(spans, k) ==
  /\ spans \in Copies
  /\ DOMAIN spans = UNION {DOMAIN fragments[n].spans : n \in 1 .. k}
  /\ \A s \in DOMAIN spans : Newest(k, s, spans[s])

\* What a call holds is what its last analysis makes of the fragments it read, and
\* of what older analyses found in the audio at most one.
RowsInv ==
  /\ fragments \in Seq(Fragment)
  /\ analysed \in [fragments : 0 .. Len(fragments), heard : BOOLEAN]
  /\ runs \in Nat
  /\ runs = 0 => rows = {}
  /\ \A r, q \in rows : r.kind = "discrepancy" /\ q.kind = "discrepancy" => r = q
  /\ runs > 0 =>
       \E spans :
       /\ Assembles(spans, analysed.fragments)
       /\ Supported(spans)
       /\ {r \in rows : r.kind # "discrepancy"} = RowsOf(spans, analysed.heard, runs)
       /\ summary.engine = Engine(spans) /\ summary.llm = Model(spans, None)
       /\ summary.ended = Header(spans).ended
       /\ summary.ended # None => summary.duration = summary.ended
       /\ report \cap {"audio_missing", "audio_disabled"} # {} <=> ~analysed.heard
       /\ "turns_derived" \in report <=> TurnsDerived(spans)

LEMMA RowsStart == AnalysisInit => RowsInv
<1> SUFFICES ASSUME AnalysisInit PROVE RowsInv
  OBVIOUS
<1>1. fragments \in Seq(Fragment) /\ Len(fragments) = 0
  BY DEF AnalysisInit
<1>2. analysed \in [fragments : 0 .. Len(fragments), heard : BOOLEAN]
  BY <1>1 DEF AnalysisInit
<1> QED  BY <1>1, <1>2 DEF AnalysisInit, RowsInv

\* A fragment more, a recording or another setting is for the next analysis to find.
LEMMA OthersKeepRows ==
  ASSUME RowsInv, UNCHANGED <<rows, summary, report, runs, analysed>>,
         \/ UNCHANGED fragments
         \/ \E f \in Fragment : fragments' = Append(fragments, f)
  PROVE  RowsInv'
<1>1. /\ fragments' \in Seq(Fragment) /\ Len(fragments') >= Len(fragments)
      /\ \A n \in 1 .. Len(fragments) : fragments'[n] = fragments[n]
  BY DEF RowsInv
<1>2. analysed.fragments \in 0 .. Len(fragments) /\ analysed.heard \in BOOLEAN
      /\ Len(fragments) \in Nat
  BY DEF RowsInv
<1>3. \A spans : Assembles(spans, analysed.fragments) => Assembles(spans, analysed.fragments)'
  <2> SUFFICES ASSUME NEW spans, Assembles(spans, analysed.fragments)
               PROVE  Assembles(spans, analysed.fragments)'
    OBVIOUS
  <2> DEFINE k == analysed.fragments
  <2>1. k' = k /\ \A n \in 1 .. k : fragments'[n] = fragments[n]
    BY <1>1, <1>2
  <2>2. {DOMAIN fragments[n].spans : n \in 1 .. k} = {DOMAIN fragments'[n].spans : n \in 1 .. k}
    BY <2>1
  <2> HIDE DEF k
  <2>3. \A s, v : Newest(k, s, v) => Newest(k, s, v)'
    BY <2>1 DEF Newest
  <2> QED  BY <2>1, <2>2, <2>3 DEF Assembles, k
<1>4. analysed' \in [fragments : 0 .. Len(fragments'), heard : BOOLEAN]
  <2>1. analysed \in [fragments : 0 .. Len(fragments), heard : BOOLEAN]
    BY DEF RowsInv
  <2>2. 0 .. Len(fragments) \subseteq 0 .. Len(fragments')
    BY <1>1, <1>2
  <2> QED  BY <2>1, <2>2
<1> QED  BY <1>1, <1>3, <1>4 DEF RowsInv

LEMMA RowsOfKinds ==
  ASSUME NEW spans, NEW heard, NEW n
  PROVE  \A r \in RowsOf(spans, heard, n) : r.kind \in Rewritten /\ r.kind # "discrepancy"
<1> SUFFICES ASSUME NEW r \in RowsOf(spans, heard, n)
             PROVE  r.kind \in Rewritten /\ r.kind # "discrepancy"
  OBVIOUS
<1>1. r.kind \in {"event", "moment", "turn", "metric", "utterance", "peaks"}
  BY DEF RowsOf, EventRows, MetricRows, AudioRows, Row
<1> QED  BY <1>1 DEF Rewritten, RewrittenButEvents

\* _persist takes away everything but what the overlay wrote.
LEMMA OldRowsGo ==
  ASSUME RowsInv PROVE \A r \in rows : r.kind \notin Rewritten => r.kind = "discrepancy"
<1>1. CASE runs = 0
  BY <1>1 DEF RowsInv
<1>2. CASE runs # 0
  <2>1. PICK spans : {r \in rows : r.kind # "discrepancy"} = RowsOf(spans, analysed.heard, runs)
    BY <1>2 DEF RowsInv
  <2> QED  BY <2>1, RowsOfKinds
<1> QED  BY <1>1, <1>2

LEMMA ProcessKeepsRows ==
  ASSUME RowsInv, ProcessCall PROVE RowsInv'
<1>0. PICK payloads \in Payloads :
        LET spans == Assemble(payloads)
            heard == audioEnabled /\ recording # "none"
            written == {r \in rows : r.kind \notin Rewritten} \cup RowsOf(spans, heard, runs + 1)
        IN  /\ Supported(spans)
            /\ runs' = runs + 1
            /\ rows' = Reconciled(written, spans, runs + 1) \/ rows' = written
            /\ summary' = SummaryOf(spans, summary)
            /\ report' = Reasons(spans, heard)
            /\ analysed' = [fragments |-> Len(fragments), heard |-> heard]
            /\ fragments' = fragments
  BY DEF ProcessCall
<1> DEFINE spans == Assemble(payloads)
           heard == audioEnabled /\ recording # "none"
           n == runs + 1
           written == {r \in rows : r.kind \notin Rewritten} \cup RowsOf(spans, heard, n)
<1>1. /\ Supported(spans) /\ runs' = n /\ fragments' = fragments
      /\ rows' = written \/ rows' = Reconciled(written, spans, n)
      /\ summary' = SummaryOf(spans, summary) /\ report' = Reasons(spans, heard)
      /\ analysed' = [fragments |-> Len(fragments), heard |-> heard]
  BY <1>0
<1>2. /\ fragments \in Seq(Fragment) /\ Len(fragments) \in Nat /\ runs \in Nat
      /\ n \in Nat /\ n > 0 /\ heard \in BOOLEAN
  BY DEF RowsInv
<1>3. Assembles(spans, Len(fragments))
  BY <1>2, AssembleIs DEF Assembles
<1>4. /\ \A r \in written : r.kind = "discrepancy" => r \in rows
      /\ {r \in written : r.kind # "discrepancy"} = RowsOf(spans, heard, n)
  <2> HIDE DEF spans, heard, n
  <2> QED  BY OldRowsGo, RowsOfKinds
<1>5. /\ \A r, q \in rows' : r.kind = "discrepancy" /\ q.kind = "discrepancy" => r = q
      /\ {r \in rows' : r.kind # "discrepancy"} = RowsOf(spans, heard, n)
  <2>1. CASE rows' = written
    <3> HIDE DEF written
    <3> QED  BY <1>4, <2>1 DEF RowsInv
  <2>2. CASE rows' = Reconciled(written, spans, n)
    <3> DEFINE d == [kind |-> "discrepancy", key |-> Root, version |-> spans[Root], run |-> n]
    <3>1. rows' = {r \in written : r.kind # "discrepancy"} \cup {d} /\ d.kind = "discrepancy"
      BY <2>2 DEF Reconciled
    <3> HIDE DEF d, written
    <3> QED  BY <1>4, <3>1
  <2> QED  BY <1>1, <2>1, <2>2
<1>6. /\ summary'.engine = Engine(spans) /\ summary'.llm = Model(spans, None)
      /\ summary'.ended = Header(spans).ended
      /\ summary'.ended # None => summary'.duration = summary'.ended
  <2> HIDE DEF spans
  <2> QED  BY <1>1 DEF SummaryOf, HeaderOf, Header
<1>7. /\ report' \cap {"audio_missing", "audio_disabled"} # {} <=> ~heard
      /\ "turns_derived" \in report' <=> TurnsDerived(spans)
  <2> HIDE DEF spans, heard
  <2>1. \/ report' \cap {"audio_missing", "audio_disabled"} # {}
        \/ heard
    BY <1>1 DEF Reasons
  <2> QED  BY <1>1, <2>1 DEF Reasons
<1>8. analysed' \in [fragments : 0 .. Len(fragments'), heard : BOOLEAN] /\ analysed'.heard = heard
  BY <1>1, <1>2
<1> HIDE DEF spans, heard, written
<1>9. Assembles(spans, Len(fragments))' /\ analysed'.fragments = Len(fragments)
  <2>1. \A s, v : Newest(Len(fragments), s, v) => Newest(Len(fragments), s, v)'
    BY <1>1 DEF Newest
  <2> QED  BY <1>1, <1>3, <2>1 DEF Assembles
<1> QED  BY <1>1, <1>2, <1>5, <1>6, <1>7, <1>8, <1>9 DEF RowsInv

LEMMA RowsStep == RowsInv /\ [AnalysisNext]_analysisVars => RowsInv'
<1> SUFFICES ASSUME RowsInv, [AnalysisNext]_analysisVars PROVE RowsInv'
  OBVIOUS
<1>1. ASSUME NEW f \in Fragment, StoreFragment(f) PROVE RowsInv'
  BY <1>1, OthersKeepRows DEF StoreFragment
<1>2. CASE RegisterRecording
  BY <1>2, OthersKeepRows DEF RegisterRecording
<1>3. CASE SwitchAudio
  BY <1>3, OthersKeepRows DEF SwitchAudio
<1>4. CASE ProcessCall
  BY <1>4, ProcessKeepsRows
<1>5. CASE UNCHANGED analysisVars
  BY <1>5, OthersKeepRows DEF analysisVars
<1> QED  BY <1>1, <1>2, <1>3, <1>4, <1>5 DEF AnalysisNext

\* Which rows of each kind there are, and that a row is made of its kind and key.
LEMMA RowsOfAre ==
  ASSUME NEW spans, NEW heard \in BOOLEAN, NEW n
  PROVE  /\ \A r \in RowsOf(spans, heard, n) : r = Row(r.kind, r.key, spans, n)
         /\ {r.key : r \in {q \in RowsOf(spans, heard, n) : q.kind = "event"}} = DOMAIN spans
         /\ {r.key : r \in {q \in RowsOf(spans, heard, n) : q.kind = "moment"}}
              = DOMAIN spans \cap Eventful
         /\ {r.key : r \in {q \in RowsOf(spans, heard, n) : q.kind = "turn"}} = TurnKeys(spans)
         /\ {q \in RowsOf(spans, heard, n) : q.kind = "utterance"} # {} <=> heard
<1> DEFINE R == RowsOf(spans, heard, n)
<1>1. R = {Row("event", s, spans, n) : s \in DOMAIN spans}
            \cup {Row("moment", s, spans, n) : s \in Eventful \cap DOMAIN spans}
            \cup {Row("turn", s, spans, n) : s \in TurnKeys(spans)}
            \cup MetricRows(spans, heard, n)
            \cup (IF heard THEN AudioRows(spans, n) ELSE {})
  BY DEF RowsOf, EventRows
<1>2. \A r \in MetricRows(spans, heard, n) : r = Row("metric", Root, spans, n)
  BY DEF MetricRows
<1>3. AudioRows(spans, n) = {Row("utterance", Root, spans, n), Row("peaks", Root, spans, n)}
  BY DEF AudioRows
<1>4. \A kind, s : Row(kind, s, spans, n).kind = kind /\ Row(kind, s, spans, n).key = s
  BY DEF Row
<1> HIDE DEF R
<1>5. \A r \in R : r = Row(r.kind, r.key, spans, n)
  BY <1>1, <1>2, <1>3, <1>4
<1>6. {q \in R : q.kind = "event"} = {Row("event", s, spans, n) : s \in DOMAIN spans}
  BY <1>1, <1>2, <1>3, <1>4
<1>7. {q \in R : q.kind = "moment"} = {Row("moment", s, spans, n) : s \in Eventful \cap DOMAIN spans}
  BY <1>1, <1>2, <1>3, <1>4
<1>8. {q \in R : q.kind = "turn"} = {Row("turn", s, spans, n) : s \in TurnKeys(spans)}
  BY <1>1, <1>2, <1>3, <1>4
<1>9. {q \in R : q.kind = "utterance"} = IF heard THEN {Row("utterance", Root, spans, n)} ELSE {}
  BY <1>1, <1>2, <1>3, <1>4
<1> DEFINE E == {q \in R : q.kind = "event"}
           M == {q \in R : q.kind = "moment"}
           T == {q \in R : q.kind = "turn"}
<1> HIDE DEF E, M, T
<1>11. {r.key : r \in E} = DOMAIN spans
  <2> DEFINE D == DOMAIN spans
  <2>1. E = {Row("event", s, spans, n) : s \in D}
    BY <1>6 DEF E
  <2> HIDE DEF D
  <2>2. {r.key : r \in E} = D
    BY <1>4, <2>1
  <2> QED  BY <2>2 DEF D
<1>12. {r.key : r \in M} = DOMAIN spans \cap Eventful
  BY <1>4, <1>7 DEF M
<1>13. {r.key : r \in T} = TurnKeys(spans)
  BY <1>4, <1>8 DEF T
<1> QED  BY <1>5, <1>9, <1>11, <1>12, <1>13 DEF R, E, M, T

\* No row is of a span that is not there.
LEMMA RowsOfKeys ==
  ASSUME NEW spans, NEW heard, NEW n, Supported(spans)
  PROVE  \A r \in RowsOf(spans, heard, n) : r.key \in DOMAIN spans
<1> SUFFICES ASSUME NEW r \in RowsOf(spans, heard, n) PROVE r.key \in DOMAIN spans
  OBVIOUS
<1>1. TurnKeys(spans) \subseteq DOMAIN spans
  BY DEF TurnKeys, OfStage, Supported
<1>2. \/ r \in EventRows(spans, n)
      \/ \E s \in TurnKeys(spans) : r = Row("turn", s, spans, n)
      \/ r \in MetricRows(spans, heard, n)
      \/ r \in AudioRows(spans, n)
  BY DEF RowsOf
<1> QED  BY <1>1, <1>2 DEF EventRows, MetricRows, AudioRows, Row, Supported

\* The model of a call with an LLM span is one of theirs.
LEMMA ModelIs ==
  ASSUME NEW spans, spans \in [DOMAIN spans -> Version]
  PROVE  /\ Model(spans, None) # None <=> OfStage(spans, "llm") # {}
         /\ OfStage(spans, "llm") # {} =>
              \E s \in OfStage(spans, "llm") : Model(spans, None) = spans[s]
<1> DEFINE named == {spans[s] : s \in OfStage(spans, "llm")}
<1>1. Model(spans, None) = IF named = {} THEN None ELSE CHOOSE v \in named : TRUE
  BY DEF Model
<1>2. named # {} => (CHOOSE v \in named : TRUE) \in named
  OBVIOUS
<1>3. named \subseteq Version /\ (named = {} <=> OfStage(spans, "llm") = {})
  BY DEF OfStage
<1>4. None \notin Version
  BY AnalysisAssumption DEF Version
<1>5. \A v \in named : \E s \in OfStage(spans, "llm") : v = spans[s]
  OBVIOUS
<1> HIDE DEF named
<1> QED  BY <1>1, <1>2, <1>3, <1>4, <1>5

\* assemble, _persist: rows, columns and reasons are those of the last analysis, for any
\* spans, any order and numbers of fragments, recordings and settings, and any number of analyses.
THEOREM RowsOfLast == AnalysisSpec => []RowsAreOfLastAnalysis
<1>1. RowsInv => RowsAreOfLastAnalysis
  <2> SUFFICES ASSUME RowsInv PROVE RowsAreOfLastAnalysis
    OBVIOUS
  <2> DEFINE seen == UNION {DOMAIN fragments[n].spans : n \in ReadByLast}
             Of(kind) == {r \in rows : r.kind = kind}
             Latest(s, v) == \E n \in ReadByLast :
               Has(n, s, v) /\ \A m \in ReadByLast :
                 s \in DOMAIN fragments[m].spans => fragments[m].seq <= fragments[n].seq
             Shown(s, v) == \E r \in Of("event") : r.key = s /\ r.version = v
             stages == {StageOf[s] : s \in seen}
  <2>1. CASE runs = 0
    BY <2>1 DEF RowsInv, RowsAreOfLastAnalysis
  <2>2. CASE runs # 0
    <3>0. PICK spans :
            /\ Assembles(spans, analysed.fragments)
            /\ Supported(spans)
            /\ {r \in rows : r.kind # "discrepancy"} = RowsOf(spans, analysed.heard, runs)
            /\ summary.engine = Engine(spans) /\ summary.llm = Model(spans, None)
            /\ summary.ended = Header(spans).ended
            /\ summary.ended # None => summary.duration = summary.ended
            /\ report \cap {"audio_missing", "audio_disabled"} # {} <=> ~analysed.heard
            /\ "turns_derived" \in report <=> TurnsDerived(spans)
      BY <2>2 DEF RowsInv
    <3> DEFINE made == RowsOf(spans, analysed.heard, runs)
    <3>1. /\ Supported(spans) /\ analysed.heard \in BOOLEAN /\ runs > 0
          /\ {r \in rows : r.kind # "discrepancy"} = made
          /\ \A r, q \in rows : r.kind = "discrepancy" /\ q.kind = "discrepancy" => r = q
          /\ summary.engine = Engine(spans) /\ summary.llm = Model(spans, None)
          /\ summary.ended = Header(spans).ended
          /\ summary.ended # None => summary.duration = summary.ended
          /\ report \cap {"audio_missing", "audio_disabled"} # {} <=> ~analysed.heard
          /\ "turns_derived" \in report <=> TurnsDerived(spans)
      BY <2>2, <3>0 DEF RowsInv
    <3>2. /\ DOMAIN spans = seen /\ spans \in [DOMAIN spans -> Version]
          /\ \A s \in DOMAIN spans : Latest(s, spans[s])
      <4>1. DOMAIN spans = seen
        BY <3>0 DEF Assembles, ReadByLast
      <4>2. spans \in [DOMAIN spans -> Version]
        BY <3>0, CopiesAre DEF Assembles
      <4>3. \A s \in DOMAIN spans : Latest(s, spans[s])
        BY <3>0 DEF Assembles, Newest, ReadByLast, Has
      <4> QED  BY <4>1, <4>2, <4>3
    <3>3. /\ \A r \in made : r = Row(r.kind, r.key, spans, runs)
          /\ {r.key : r \in {q \in made : q.kind = "event"}} = DOMAIN spans
          /\ {r.key : r \in {q \in made : q.kind = "moment"}} = DOMAIN spans \cap Eventful
          /\ {r.key : r \in {q \in made : q.kind = "turn"}} = TurnKeys(spans)
          /\ {q \in made : q.kind = "utterance"} # {} <=> analysed.heard
      BY <3>1, RowsOfAre
    <3> HIDE DEF seen, Latest, made
    <3>4. \A kind : kind # "discrepancy" => Of(kind) = {q \in made : q.kind = kind}
      BY <3>1
    <3>5. ASSUME NEW r \in rows, NEW q \in rows, r.kind = q.kind, r.key = q.key PROVE r = q
      <4>1. CASE r.kind = "discrepancy"
        BY <3>1, <3>5, <4>1
      <4>2. CASE r.kind # "discrepancy"
        BY <3>1, <3>3, <3>5, <4>2
      <4> QED  BY <4>1, <4>2
    <3>6. {r.key : r \in Of("event")} = seen /\ {r.key : r \in Of("moment")} = seen \cap Eventful
      BY <3>2, <3>3, <3>4
    <3>7. \A s, v : Shown(s, v) <=> s \in DOMAIN spans /\ spans[s] = v
      <4>1. \A r \in Of("event") : r.key \in DOMAIN spans /\ r.version = spans[r.key]
        <5> SUFFICES ASSUME NEW r \in Of("event")
                     PROVE  r.key \in DOMAIN spans /\ r.version = spans[r.key]
          OBVIOUS
        <5>1. r = Row(r.kind, r.key, spans, runs) /\ r.key \in DOMAIN spans
          BY <3>2, <3>3, <3>4, <3>6
        <5> QED  BY <5>1 DEF Row
      <4>2. \A s \in DOMAIN spans : \E r \in Of("event") : r.key = s
        BY <3>2, <3>6
      <4> QED  BY <4>1, <4>2
    <3>15. \A r \in Of("event") : Latest(r.key, r.version)
      BY <3>2, <3>7
    <3>16. ASSUME NEW r \in rows, r.kind # "discrepancy" PROVE Shown(r.key, r.version)
      <4>1. r \in made /\ r = Row(r.kind, r.key, spans, runs)
        BY <3>1, <3>3, <3>16
      <4>2. r.key \in DOMAIN spans
        BY <3>1, <4>1, RowsOfKeys DEF made
      <4>3. r.version = spans[r.key]
        BY <4>1 DEF Row
      <4> QED  BY <3>7, <4>2, <4>3
    <3>8. (Of("utterance") # {}) = analysed.heard
      BY <3>1, <3>3, <3>4
    <3>9. \A stage : stage \in stages <=> OfStage(spans, stage) # {}
      BY <3>2 DEF OfStage
    <3>10. /\ summary.engine = "s2s" <=> "llm" \in stages /\ {"stt", "tts"} \cap stages = {}
           /\ summary.engine = None <=> "llm" \notin stages
      <4>1. "cascade" # None /\ "s2s" # None
        BY AnalysisAssumption
      <4>2. {"stt", "tts"} \cap stages = {}
              <=> OfStage(spans, "stt") \cup OfStage(spans, "tts") = {}
        BY <3>9
      <4> HIDE DEF stages
      <4> QED  BY <3>1, <3>9, <4>1, <4>2 DEF Engine
    <3>11. summary.llm # None <=> \E s \in seen : StageOf[s] = "llm" /\ Shown(s, summary.llm)
      <4>1. \A s : s \in OfStage(spans, "llm") <=> s \in seen /\ StageOf[s] = "llm"
        BY <3>2 DEF OfStage
      <4>2. /\ summary.llm # None <=> OfStage(spans, "llm") # {}
            /\ OfStage(spans, "llm") # {} =>
                 \E s \in OfStage(spans, "llm") : summary.llm = spans[s]
        BY <3>1, <3>2, ModelIs
      <4> QED  BY <3>2, <3>7, <4>1, <4>2
    <3>12. summary.ended # None <=> Shown(Root, 2)
      <4>1. Root \in DOMAIN spans /\ None # 2
        BY <3>1, AnalysisAssumption DEF Supported
      <4> QED  BY <3>1, <3>2, <3>7, <4>1 DEF Header
    <3>13. report \cap {"audio_missing", "audio_disabled"} # {} <=> Of("utterance") = {}
      BY <3>1, <3>8
    <3>14. "turns_derived" \in report <=> \E r \in Of("turn") : StageOf[r.key] # "turn"
      <4>1. TurnsDerived(spans) => TurnKeys(spans) = {Root} /\ StageOf[Root] # "turn"
        BY <3>1 DEF TurnsDerived, TurnKeys, OfStage, Supported
      <4>2. ~TurnsDerived(spans) => \A s \in TurnKeys(spans) : StageOf[s] = "turn"
        BY DEF TurnKeys, OfStage
      <4>3. {r.key : r \in Of("turn")} = TurnKeys(spans)
        BY <3>3, <3>4
      <4> QED  BY <3>1, <4>1, <4>2, <4>3
    <3> HIDE DEF stages, Of, Shown
    <3> QED
      BY <3>1, <3>5, <3>6, <3>8, <3>10, <3>11, <3>12, <3>13, <3>14, <3>15, <3>16
      DEF RowsAreOfLastAnalysis, seen, Of, Latest, Shown, stages
  <2> QED  BY <2>1, <2>2
<1> QED  BY <1>1, RowsStart, RowsStep, PTL DEF AnalysisSpec

-----------------------------------------------------------------------------
(* Climbing.                                                               *)

Trace == Seq(SpanOfTrace)

\* One parent further, unless the climb is at an end.
OneUp(t, stops, cur) == IF cur \in stops \/ cur \notin DOMAIN t THEN cur ELSE t[cur].parent

\* at is where the climb from s is after each number of parents.
Climbs(t, s, stops, at) ==
  /\ at \in [0 .. Len(t) -> Nat] /\ at[0] = s
  /\ \A n \in 1 .. Len(t) : at[n] = OneUp(t, stops, at[n - 1])

LEMMA TraceIs ==
  ASSUME NEW t \in Trace
  PROVE  /\ Len(t) \in Nat /\ DOMAIN t = 1 .. Len(t)
         /\ \A c \in DOMAIN t : /\ c \in Nat /\ t[c].parent \in Nat /\ t[c].turnId \in AnyId
                               /\ t[c] = [kind |-> t[c].kind, parent |-> t[c].parent, turnId |-> t[c].turnId]
                               /\ t[c].kind \in TurnKinds \cup {"stage"}
<1>1. Len(t) \in Nat /\ DOMAIN t = 1 .. Len(t) /\ \A c \in DOMAIN t : t[c] \in SpanOfTrace
  BY DEF Trace
<1>2. \A c \in DOMAIN t : c \in Nat
  BY <1>1
<1>3. ASSUME NEW r \in SpanOfTrace
      PROVE  /\ r.parent \in Nat /\ r.turnId \in AnyId /\ r.kind \in TurnKinds \cup {"stage"}
             /\ r = [kind |-> r.kind, parent |-> r.parent, turnId |-> r.turnId]
  BY DEF SpanOfTrace
<1> QED  BY <1>1, <1>2, <1>3

LEMMA ClimbIs ==
  ASSUME NEW t \in Trace, NEW s \in DOMAIN t, NEW stops
  PROVE  \E at : /\ Climbs(t, s, stops, at)
                 /\ Climb(t, s, stops) = IF at[Len(t)] \in stops THEN at[Len(t)] ELSE None
<1> DEFINE N == Len(t)
           Is(f) == f = [n \in 0 .. N |->
                           IF n = 0 THEN s
                           ELSE IF f[n - 1] \in stops \/ f[n - 1] \notin DOMAIN t THEN f[n - 1]
                           ELSE t[f[n - 1]].parent]
           at == CHOOSE f : Is(f)
           step == [p \in (1 .. N) \X Nat |-> OneUp(t, stops, p[2])]
<1>1. /\ N \in Nat /\ s \in Nat /\ \A c \in DOMAIN t : t[c].parent \in Nat
      /\ DOMAIN t = 1 .. N
  BY TraceIs
<1>2. step \in [(1 .. N) \X Nat -> Nat]
  <2>1. \A cur \in Nat : OneUp(t, stops, cur) \in Nat
    BY <1>1 DEF OneUp
  <2> QED  BY <2>1
<1>3. PICK f : IsRecursion(f, N, Nat, s, step)
  <2> HIDE DEF step, N
  <2> QED  BY <1>1, <1>2, RecursionExists
<1>4. f \in [0 .. N -> Nat] /\ f[0] = s
  BY <1>3 DEF IsRecursion
<1>5. \A n \in 1 .. N : f[n] = OneUp(t, stops, f[n - 1])
  <2> SUFFICES ASSUME NEW n \in 1 .. N PROVE f[n] = OneUp(t, stops, f[n - 1])
    OBVIOUS
  <2>1. <<n, f[n - 1]>> \in (1 .. N) \X Nat
    BY <1>1, <1>4
  <2> QED  BY <1>3, <2>1 DEF IsRecursion
<1>6. Is(f)
  <2>1. \A n \in 0 .. N : f[n] = IF n = 0 THEN s
                                 ELSE IF f[n - 1] \in stops \/ f[n - 1] \notin DOMAIN t THEN f[n - 1]
                                 ELSE t[f[n - 1]].parent
    BY <1>1, <1>4, <1>5 DEF OneUp
  <2> HIDE DEF N
  <2> QED  BY <1>4, <2>1
<1>7. Is(at)
  <2> HIDE DEF Is
  <2> QED  BY <1>6
<1>8. Climb(t, s, stops) = IF at[N] \in stops THEN at[N] ELSE None
  BY DEF Climb
<1> HIDE DEF at, N
<1>9. \A n \in 0 .. N : at[n] = IF n = 0 THEN s ELSE OneUp(t, stops, at[n - 1])
  <2>1. \A n \in 0 .. N : at[n] = IF n = 0 THEN s
                                  ELSE IF at[n - 1] \in stops \/ at[n - 1] \notin DOMAIN t THEN at[n - 1]
                                  ELSE t[at[n - 1]].parent
    BY <1>7
  <2> QED  BY <2>1 DEF OneUp
<1>10. DOMAIN at = 0 .. N /\ at = [n \in 0 .. N |-> at[n]]
  <2>1. PICK e : at = [n \in 0 .. N |-> e[n]]
    BY <1>7
  <2> QED  BY <2>1
<1>11. \A n \in 0 .. N : at[n] = f[n]
  <2> DEFINE T == {n \in Nat : n <= N => at[n] = f[n]}
  <2>1. 0 \in T
    BY <1>1, <1>4, <1>9
  <2>2. ASSUME NEW n \in Nat, n \in T PROVE n + 1 \in T
    <3>1. CASE n + 1 <= N
      <4>1. n + 1 \in 1 .. N /\ (n + 1) - 1 = n /\ n <= N /\ n + 1 # 0
        BY <1>1, <3>1
      <4>2. at[n + 1] = OneUp(t, stops, at[n]) /\ f[n + 1] = OneUp(t, stops, f[n])
        BY <1>5, <1>9, <4>1
      <4> QED  BY <2>2, <4>1, <4>2
    <3> QED  BY <3>1
  <2> HIDE DEF T
  <2>3. Nat \subseteq T
    BY <2>1, <2>2, NaturalInduction
  <2> QED  BY <1>1, <2>3 DEF T
<1>12. at = f
  BY <1>4, <1>10, <1>11
<1> QED  BY <1>4, <1>5, <1>8, <1>12 DEF Climbs, N

\* A climb at its end stays there.
LEMMA AtStays ==
  ASSUME NEW t \in Trace, NEW s, NEW stops, NEW at, Climbs(t, s, stops, at),
         NEW i \in 0 .. Len(t), at[i] \in stops \/ at[i] \notin DOMAIN t
  PROVE  \A j \in i .. Len(t) : at[j] = at[i]
<1> DEFINE N == Len(t)
           T == {k \in Nat : i + k <= N => at[i + k] = at[i]}
<1>1. N \in Nat
  BY TraceIs
<1>2. 0 \in T
  BY <1>1
<1>3. ASSUME NEW k \in Nat, k \in T PROVE k + 1 \in T
  <2>1. CASE i + (k + 1) <= N
    <3>1. i + (k + 1) \in 1 .. N /\ (i + (k + 1)) - 1 = i + k /\ i + k <= N
      BY <1>1, <2>1
    <3>2. at[i + (k + 1)] = OneUp(t, stops, at[i + k])
      BY <3>1 DEF Climbs
    <3> QED  BY <1>3, <3>1, <3>2 DEF OneUp
  <2> QED  BY <2>1
<1> HIDE DEF T
<1>4. Nat \subseteq T
  BY <1>2, <1>3, NaturalInduction
<1>5. ASSUME NEW j \in i .. N PROVE at[j] = at[i]
  <2>1. j - i \in Nat /\ i + (j - i) = j /\ j <= N
    BY <1>1
  <2>2. PICK k \in Nat : k = j - i
    BY <2>1
  <2>3. k \in T /\ i + k = j
    BY <1>4, <2>1, <2>2
  <2>4. i + k <= N
    BY <2>1, <2>3
  <2>5. i + k <= N => at[i + k] = at[i]
    <3> HIDE DEF N
    <3> QED  BY <2>3 DEF T
  <2> QED  BY <2>3, <2>4, <2>5
<1> QED  BY <1>5

\* What a climb finds is one of the stops and above where it began.
LEMMA ClimbFinds ==
  ASSUME NEW t \in Trace, NEW s \in DOMAIN t, NEW stops \in SUBSET (DOMAIN t),
         Climb(t, s, stops) # None
  PROVE  Climb(t, s, stops) \in stops /\ Ancestor(t, s, Climb(t, s, stops))
<1> DEFINE N == Len(t)
           c == Climb(t, s, stops)
<1>0. /\ N \in Nat /\ DOMAIN t = 1 .. N
  BY TraceIs
<1>1. PICK at : /\ Climbs(t, s, stops, at)
                /\ c = IF at[N] \in stops THEN at[N] ELSE None
  BY ClimbIs
<1>2. c = at[N] /\ c \in stops
  BY <1>1
<1> HIDE DEF c
<1> DEFINE K == {n \in 0 .. N : at[n] = c}
<1>3. PICK k \in K : \A m \in K : k <= m
  <2>1. K \in SUBSET Nat /\ N \in K
    BY <1>0, <1>2
  <2> HIDE DEF K
  <2> QED  BY <2>1, HasLeast
<1>4. k \in 0 .. N /\ at[k] = c /\ \A i \in 0 .. N : i < k => at[i] # c
  BY <1>3
<1>5. ASSUME NEW i \in 0 .. k - 1
      PROVE  at[i] \in DOMAIN t /\ at[i] \notin stops /\ t[at[i]].parent = at[i + 1]
  <2>1. i \in 0 .. N /\ at[i] # c /\ N \in i .. N /\ i + 1 \in 1 .. N /\ (i + 1) - 1 = i
    BY <1>0, <1>4
  <2>2. at[i] \in DOMAIN t /\ at[i] \notin stops
    BY <1>1, <1>2, <2>1, AtStays
  <2>3. at[i + 1] = OneUp(t, stops, at[i])
    BY <1>1, <2>1 DEF Climbs
  <2> QED  BY <2>2, <2>3 DEF OneUp
<1> DEFINE chain == [i \in 0 .. k |-> at[i]]
<1>6. chain \in [0 .. k -> DOMAIN t]
  <2>1. \A i \in 0 .. k : at[i] \in DOMAIN t
    <3>1. \A i \in 0 .. k : i \in 0 .. k - 1 \/ i = k
      BY <1>4
    <3> QED  BY <1>2, <1>4, <1>5, <3>1
  <2> QED  BY <2>1
<1>7. /\ chain[0] = s /\ chain[k] = c
      /\ \A i \in 0 .. k - 1 : t[chain[i]].parent = chain[i + 1]
  <2>1. at[0] = s
    BY <1>1 DEF Climbs
  <2>2. \A i \in 0 .. k - 1 : i \in 0 .. k /\ i + 1 \in 0 .. k
    BY <1>4
  <2> QED  BY <1>4, <1>5, <2>1, <2>2
<1>8. Ancestor(t, s, c)
  <2> HIDE DEF chain
  <2> QED  BY <1>4, <1>6, <1>7 DEF Ancestor
<1> QED  BY <1>2, <1>8 DEF c

\* It finds one where there is one, and every other one is above that.
LEMMA ClimbNearest ==
  ASSUME NEW t \in Trace, NEW s \in DOMAIN t, NEW stops \in SUBSET (DOMAIN t),
         NEW d \in stops, Ancestor(t, s, d)
  PROVE  Climb(t, s, stops) # None /\ Ancestor(t, Climb(t, s, stops), d)
<1> DEFINE N == Len(t)
<1>0. /\ N \in Nat /\ DOMAIN t = 1 .. N
  BY TraceIs
<1>1. PICK at : /\ Climbs(t, s, stops, at)
                /\ Climb(t, s, stops) = IF at[N] \in stops THEN at[N] ELSE None
  BY ClimbIs
<1>2. PICK n \in 0 .. N : \E chain \in [0 .. n -> DOMAIN t] :
               /\ chain[0] = s /\ chain[n] = d
               /\ \A i \in 0 .. n - 1 : t[chain[i]].parent = chain[i + 1]
  BY DEF Ancestor
<1>3. PICK chain \in [0 .. n -> DOMAIN t] :
               /\ chain[0] = s /\ chain[n] = d
               /\ \A i \in 0 .. n - 1 : t[chain[i]].parent = chain[i + 1]
  BY <1>2
<1> DEFINE K == {i \in 0 .. n : chain[i] \in stops}
<1>4. PICK j \in K : \A m \in K : j <= m
  <2>1. K \in SUBSET Nat /\ n \in K
    BY <1>0, <1>3
  <2> HIDE DEF K
  <2> QED  BY <2>1, HasLeast
<1>5. j \in 0 .. n /\ chain[j] \in stops /\ \A i \in 0 .. n : i < j => chain[i] \notin stops
  BY <1>4
<1> DEFINE T == {i \in Nat : i <= j => at[i] = chain[i]}
<1>6. 0 \in T
  BY <1>1, <1>3 DEF Climbs
<1>7. ASSUME NEW i \in Nat, i \in T PROVE i + 1 \in T
  <2>1. CASE i + 1 <= j
    <3>1. /\ i \in 0 .. n /\ i <= j /\ i < j /\ i \in 0 .. n - 1
          /\ i + 1 \in 1 .. N /\ (i + 1) - 1 = i
      BY <1>0, <1>5, <2>1
    <3>2. at[i + 1] = OneUp(t, stops, at[i])
      BY <1>1, <3>1 DEF Climbs
    <3>3. at[i] = chain[i] /\ chain[i] \notin stops /\ chain[i] \in DOMAIN t
          /\ t[chain[i]].parent = chain[i + 1]
      BY <1>3, <1>5, <1>7, <3>1
    <3> QED  BY <3>2, <3>3 DEF OneUp
  <2> QED  BY <2>1
<1>8. at[j] = chain[j]
  <2> HIDE DEF T
  <2>1. Nat \subseteq T
    BY <1>6, <1>7, NaturalInduction
  <2> QED  BY <1>5, <2>1 DEF T
<1>9. at[N] = chain[j]
  <2>1. j \in 0 .. N /\ N \in j .. N
    BY <1>0, <1>5
  <2> QED  BY <1>1, <1>5, <1>8, <2>1, AtStays
<1>10. Climb(t, s, stops) = chain[j]
  BY <1>1, <1>5, <1>9
<1> DEFINE rest == [i \in 0 .. n - j |-> chain[i + j]]
<1>11. n - j \in 0 .. N /\ \A i \in 0 .. n - j : i + j \in 0 .. n
  BY <1>0, <1>5
<1>12. rest \in [0 .. n - j -> DOMAIN t]
  BY <1>11
<1>13. /\ rest[0] = chain[j] /\ rest[n - j] = d
       /\ \A i \in 0 .. (n - j) - 1 : t[rest[i]].parent = rest[i + 1]
  <2>1. 0 \in 0 .. n - j /\ 0 + j = j /\ n - j \in 0 .. n - j /\ (n - j) + j = n
    BY <1>5
  <2>2. ASSUME NEW i \in 0 .. (n - j) - 1 PROVE t[rest[i]].parent = rest[i + 1]
    <3>1. i \in 0 .. n - j /\ i + 1 \in 0 .. n - j /\ i + j \in 0 .. n - 1 /\ (i + j) + 1 = (i + 1) + j
      BY <1>5
    <3>2. t[chain[i + j]].parent = chain[(i + j) + 1]
      BY <1>3, <3>1
    <3> QED  BY <3>1, <3>2
  <2> QED  BY <1>3, <2>1, <2>2
<1>14. Ancestor(t, chain[j], d)
  <2> HIDE DEF rest
  <2> QED  BY <1>11, <1>12, <1>13 DEF Ancestor
<1>15. chain[j] # None
  BY <1>0, <1>5, TurnIdAssumption
<1> QED  BY <1>10, <1>14, <1>15

\* A climb looks at parents only.
LEMMA ClimbSame ==
  ASSUME NEW t \in Trace, NEW u \in Trace, DOMAIN u = DOMAIN t, Len(u) = Len(t),
         \A c \in DOMAIN t : u[c].parent = t[c].parent, NEW s \in DOMAIN t, NEW stops
  PROVE  Climb(u, s, stops) = Climb(t, s, stops)
<1> DEFINE N == Len(t)
<1>0. N \in Nat
  BY TraceIs
<1>1. PICK at : /\ Climbs(t, s, stops, at)
                /\ Climb(t, s, stops) = IF at[N] \in stops THEN at[N] ELSE None
  BY ClimbIs
<1>2. PICK up : /\ Climbs(u, s, stops, up)
                /\ Climb(u, s, stops) = IF up[N] \in stops THEN up[N] ELSE None
  BY ClimbIs
<1> DEFINE T == {i \in Nat : i <= N => at[i] = up[i]}
<1>3. 0 \in T
  BY <1>1, <1>2 DEF Climbs
<1>4. ASSUME NEW i \in Nat, i \in T PROVE i + 1 \in T
  <2>1. CASE i + 1 <= N
    <3>1. i + 1 \in 1 .. N /\ (i + 1) - 1 = i /\ i <= N
      BY <1>0, <2>1
    <3>2. at[i + 1] = OneUp(t, stops, at[i]) /\ up[i + 1] = OneUp(u, stops, up[i])
      BY <1>1, <1>2, <3>1 DEF Climbs
    <3> QED  BY <1>4, <3>1, <3>2 DEF OneUp
  <2> QED  BY <2>1
<1>5. at[N] = up[N]
  <2> HIDE DEF T
  <2>1. Nat \subseteq T
    BY <1>3, <1>4, NaturalInduction
  <2> QED  BY <1>0, <2>1 DEF T
<1> QED  BY <1>1, <1>2, <1>5

-----------------------------------------------------------------------------
(* The two passes.                                                         *)

\* A span always is in some exchange as a turn: its own number is one.
LEMMA OwnIsAnId ==
  ASSUME NEW t \in Trace, NEW s \in DOMAIN t
  PROVE  OwnTurnId(t, s) \in AnyId \ {None}
<1>1. s \in Nat /\ t[s].turnId \in AnyId
  BY TraceIs
<1> QED  BY <1>1, TurnIdAssumption DEF OwnTurnId, AnyId

LEMMA TurnOfIs ==
  ASSUME NEW t \in Trace, NEW s \in DOMAIN t
  PROVE  /\ TurnOf(t, s) \in AnyId
         /\ TurnOf(t, s) = None <=> Climb(t, s, Kind(t, TurnKinds)) = None
         /\ Climb(t, s, Kind(t, TurnKinds)) # None =>
              TurnOf(t, s) = OwnTurnId(t, Climb(t, s, Kind(t, TurnKinds)))
<1> DEFINE c == Climb(t, s, Kind(t, TurnKinds))
<1>1. TurnOf(t, s) = IF c = None THEN None ELSE OwnTurnId(t, c)
  BY DEF TurnOf, TurnBelow
<1>2. c # None => c \in DOMAIN t
  BY ClimbFinds DEF Kind
<1>3. None \in AnyId
  BY DEF AnyId
<1> QED  BY <1>1, <1>2, <1>3, OwnIsAnId

\* A trace with other turn ids has the same spans, kinds and climbs.
Tagged(t, id) == [s \in DOMAIN t |-> [t[s] EXCEPT !.turnId = id[s]]]

LEMMA Retagged ==
  ASSUME NEW t \in Trace, NEW id, \A s \in DOMAIN t : id[s] \in AnyId
  PROVE  /\ Tagged(t, id) \in Trace /\ DOMAIN Tagged(t, id) = DOMAIN t
         /\ \A s \in DOMAIN t : Tagged(t, id)[s].turnId = id[s]
         /\ \A K : Kind(Tagged(t, id), K) = Kind(t, K)
         /\ \A s \in DOMAIN t : \A stops : Climb(Tagged(t, id), s, stops) = Climb(t, s, stops)
<1> DEFINE u == Tagged(t, id)
<1>1. /\ Len(t) \in Nat /\ DOMAIN t = 1 .. Len(t)
      /\ \A c \in DOMAIN t : /\ t[c].parent \in Nat
                            /\ t[c] = [kind |-> t[c].kind, parent |-> t[c].parent, turnId |-> t[c].turnId]
                            /\ t[c].kind \in TurnKinds \cup {"stage"}
  BY TraceIs
<1>2. DOMAIN u = DOMAIN t /\ \A s \in DOMAIN t : u[s] = [t[s] EXCEPT !.turnId = id[s]]
  BY DEF Tagged
<1>3. u = [s \in DOMAIN t |-> u[s]]
  BY DEF Tagged
<1> HIDE DEF u
<1>4. ASSUME NEW s \in DOMAIN t
      PROVE  /\ u[s].turnId = id[s] /\ u[s].parent = t[s].parent
             /\ u[s].kind = t[s].kind /\ u[s] \in SpanOfTrace
  <2>1. u[s] = [kind |-> t[s].kind, parent |-> t[s].parent, turnId |-> id[s]]
    BY <1>1, <1>2
  <2>2. t[s].kind \in TurnKinds \cup {"stage"} /\ t[s].parent \in Nat
    BY <1>1
  <2> QED  BY <2>1, <2>2 DEF SpanOfTrace
<1>5. u \in Trace /\ Len(u) = Len(t)
  <2>1. u \in [1 .. Len(t) -> SpanOfTrace]
    BY <1>1, <1>3, <1>4
  <2> QED  BY <1>1, <2>1 DEF Trace
<1>6. ASSUME NEW K PROVE Kind(u, K) = Kind(t, K)
  BY <1>2, <1>4 DEF Kind
<1>7. \A s \in DOMAIN t : \A stops : Climb(u, s, stops) = Climb(t, s, stops)
  BY <1>2, <1>4, <1>5, ClimbSame
<1> QED  BY <1>2, <1>4, <1>5, <1>6, <1>7 DEF u

\* What a span has after one pass.
LEMMA PropagateIs ==
  ASSUME NEW t \in Trace
  PROVE  LET u == PropagateTurnIds(t)
         IN  /\ u \in Trace /\ DOMAIN u = DOMAIN t
             /\ \A s \in DOMAIN t :
                  u[s].turnId = IF t[s].turnId = None THEN TurnOf(t, s) ELSE t[s].turnId
             /\ \A K : Kind(u, K) = Kind(t, K)
             /\ \A s \in DOMAIN t : \A stops : Climb(u, s, stops) = Climb(t, s, stops)
<1> DEFINE u == PropagateTurnIds(t)
           id == [s \in DOMAIN t |-> IF t[s].turnId = None THEN TurnOf(t, s) ELSE t[s].turnId]
<1>1. \A s \in DOMAIN t : id[s] \in AnyId
  BY TraceIs, TurnOfIs
<1>2. u = Tagged(t, id)
  BY DEF PropagateTurnIds, Tagged
<1>3. \A s \in DOMAIN t : id[s] = IF t[s].turnId = None THEN TurnOf(t, s) ELSE t[s].turnId
  OBVIOUS
<1> HIDE DEF id, u
<1>4. /\ u \in Trace /\ DOMAIN u = DOMAIN t
      /\ \A s \in DOMAIN t : u[s].turnId = id[s]
      /\ \A K : Kind(u, K) = Kind(t, K)
      /\ \A s \in DOMAIN t : \A stops : Climb(u, s, stops) = Climb(t, s, stops)
  BY <1>1, <1>2, Retagged
<1> QED  BY <1>3, <1>4 DEF u

LEMMA AgainIsSame ==
  ASSUME NEW t \in Trace
  PROVE  PropagateTurnIds(PropagateTurnIds(t)) = PropagateTurnIds(t)
<1> DEFINE u == PropagateTurnIds(t)
<1>1. /\ u \in Trace /\ DOMAIN u = DOMAIN t
      /\ \A s \in DOMAIN t :
           u[s].turnId = IF t[s].turnId = None THEN TurnOf(t, s) ELSE t[s].turnId
      /\ \A K : Kind(u, K) = Kind(t, K)
      /\ \A s \in DOMAIN t : \A stops : Climb(u, s, stops) = Climb(t, s, stops)
  BY PropagateIs
<1> HIDE DEF u
<1>2. ASSUME NEW s \in DOMAIN u, u[s].turnId = None PROVE TurnOf(u, s) = None
  <2>1. TurnOf(t, s) = None
    BY <1>1, <1>2
  <2> QED  BY <1>1, <2>1, TurnOfIs
<1>3. ASSUME NEW s \in DOMAIN u
      PROVE  [u[s] EXCEPT !.turnId = IF @ = None THEN TurnOf(u, s) ELSE @] = u[s]
  <2>1. u[s] = [kind |-> u[s].kind, parent |-> u[s].parent, turnId |-> u[s].turnId]
    BY <1>1, TraceIs
  <2> QED  BY <1>2, <2>1
<1>4. u = [s \in DOMAIN u |-> u[s]]
  BY <1>1 DEF Trace
<1>5. PropagateTurnIds(u) = u
  BY <1>3, <1>4 DEF PropagateTurnIds
<1> QED  BY <1>5 DEF u

LEMMA NearestWins ==
  ASSUME NEW t \in Trace, NEW s \in DOMAIN t, t[s].turnId = None
  PROVE  IF TurnsAbove(t, s) = {} THEN TurnOf(t, s) = None
         ELSE \E c \in TurnsAbove(t, s) :
                /\ TurnOf(t, s) = OwnTurnId(t, c)
                /\ TurnsAbove(t, s) \subseteq TurnsAbove(t, c)
<1> DEFINE T == Kind(t, TurnKinds)
           c == Climb(t, s, T)
<1>1. T \in SUBSET (DOMAIN t)
  BY DEF Kind
<1>2. c # None => c \in T /\ Ancestor(t, s, c)
  BY <1>1, ClimbFinds
<1>3. \A d \in T : Ancestor(t, s, d) => c # None /\ Ancestor(t, c, d)
  BY <1>1, ClimbNearest
<1>4. \A x : TurnsAbove(t, x) = {d \in T : Ancestor(t, x, d)}
  BY DEF TurnsAbove
<1>5. /\ TurnOf(t, s) = None <=> c = None
      /\ c # None => TurnOf(t, s) = OwnTurnId(t, c)
  BY TurnOfIs
<1> HIDE DEF T, c
<1>6. CASE TurnsAbove(t, s) = {}
  BY <1>2, <1>4, <1>5, <1>6
<1>7. CASE TurnsAbove(t, s) # {}
  <2>1. c # None
    BY <1>3, <1>4, <1>7
  <2>2. c \in TurnsAbove(t, s)
    BY <1>2, <1>4, <2>1
  <2>3. TurnsAbove(t, s) \subseteq TurnsAbove(t, c)
    BY <1>3, <1>4
  <2> QED  BY <1>5, <1>7, <2>1, <2>2, <2>3
<1> QED  BY <1>6, <1>7

-----------------------------------------------------------------------------
(* The theorems.                                                           *)

\* The inductive invariant: the spans so far are spans.
TraceInv == trace \in Trace

LEMMA TraceStays == TraceSpec => []TraceInv
<1>1. TraceInit => TraceInv
  BY DEF TraceInit, Trace, TraceInv
<1>2. TraceInv /\ [TraceNext]_trace => TraceInv'
  <2> SUFFICES ASSUME trace \in Trace, [TraceNext]_trace PROVE trace' \in Trace
    BY DEF TraceInv
  <2>1. CASE UNCHANGED trace
    BY <2>1
  <2>2. CASE TraceNext
    <3>1. PICK k \in TurnKinds \cup {"stage"}, p \in 0 .. MaxTrace + 1, id \in WrittenId \cup {None} :
               trace' = Append(trace, [kind |-> k, parent |-> p, turnId |-> id])
      BY <2>2 DEF TraceNext
    <3>2. [kind |-> k, parent |-> p, turnId |-> id] \in SpanOfTrace
      BY DEF SpanOfTrace, AnyId
    <3> QED  BY <3>1, <3>2 DEF Trace
  <2> QED  BY <2>1, <2>2
<1> QED  BY <1>1, <1>2, PTL DEF TraceSpec

\* Over every trace, _propagate_turn_ids gives a span the id of the TURN span it is
\* nearest below, keeps what was written, and has nothing left to do a second time.
THEOREM NearestWinsAlways == TraceSpec => []NearestTurnWins
<1>1. TraceInv => NearestTurnWins
  <2> SUFFICES ASSUME trace \in Trace PROVE NearestTurnWins
    BY DEF TraceInv
  <2> DEFINE out == PropagateTurnIds(trace)
  <2>1. PropagateTurnIds(out) = out
    BY AgainIsSame
  <2>2. \A s \in DOMAIN trace :
          out[s].turnId = IF trace[s].turnId = None THEN TurnOf(trace, s) ELSE trace[s].turnId
    BY PropagateIs
  <2>3. ASSUME NEW s \in DOMAIN trace, trace[s].turnId = None
        PROVE  IF TurnsAbove(trace, s) = {} THEN out[s].turnId = None
               ELSE \E c \in TurnsAbove(trace, s) :
                      /\ out[s].turnId = OwnTurnId(trace, c)
                      /\ TurnsAbove(trace, s) \subseteq TurnsAbove(trace, c)
    <3>1. out[s].turnId = TurnOf(trace, s)
      BY <2>2, <2>3
    <3> HIDE DEF out
    <3> QED  BY <2>3, <3>1, NearestWins
  <2> HIDE DEF out
  <2>4. \A s \in DOMAIN trace : trace[s].turnId # None => out[s].turnId = trace[s].turnId
    BY <2>2
  <2> QED  BY <2>1, <2>3, <2>4 DEF NearestTurnWins, out
<1> QED  BY <1>1, TraceStays, PTL

\* The caller's last turn before an agent turn is found, and what it gives is an id.
LEMMA PrecedingIs ==
  ASSUME NEW t \in Trace, NEW a \in DOMAIN t, NEW u \in UserTurns(t), u <= a,
         \A v \in UserTurns(t) : v <= a => v <= u
  PROVE  PrecedingTurnId(t, a) = OwnTurnId(t, u)
<1> DEFINE prior == {v \in UserTurns(t) : v <= a}
           last == LastOf(prior)
<1>1. UserTurns(t) \subseteq DOMAIN t /\ \A v \in DOMAIN t : v \in Nat
  BY TraceIs DEF UserTurns, Kind
<1>2. u \in prior /\ \A v \in prior : v <= u
  OBVIOUS
<1>3. last \in prior /\ \A v \in prior : v <= last
  <2> HIDE DEF prior
  <2> QED  BY <1>2 DEF LastOf
<1>4. last = u
  BY <1>1, <1>2, <1>3
<1>5. PrecedingTurnId(t, a) = OwnTurnId(t, last)
  BY <1>2 DEF PrecedingTurnId
<1> QED  BY <1>4, <1>5

\* Whichever turn it takes, an exchange has an id.
LEMMA PrecedingIsAnId ==
  ASSUME NEW t \in Trace, NEW a, UserTurns(t) # {}
  PROVE  PrecedingTurnId(t, a) \in AnyId
<1> DEFINE prior == {v \in UserTurns(t) : v <= a}
           S == IF prior = {} THEN UserTurns(t) ELSE prior
<1>1. S \subseteq DOMAIN t /\ S # {}
  BY DEF UserTurns, Kind
<1>2. Len(t) \in Nat /\ DOMAIN t = 1 .. Len(t)
  BY TraceIs
<1>3. PrecedingTurnId(t, a) = OwnTurnId(t, LastOf(S))
  BY DEF PrecedingTurnId
<1> HIDE DEF S
<1> DEFINE R == {Len(t) - x : x \in S}
<1>4. PICK r \in R : \A m \in R : r <= m
  <2>1. R \in SUBSET Nat /\ \E x \in R : TRUE
    BY <1>1, <1>2
  <2> HIDE DEF R
  <2> QED  BY <2>1, HasLeast
<1>5. PICK x \in S : r = Len(t) - x
  OBVIOUS
<1>6. \A y \in S : y <= x
  <2> SUFFICES ASSUME NEW y \in S PROVE y <= x
    OBVIOUS
  <2>1. r <= Len(t) - y
    BY <1>4
  <2> QED  BY <1>1, <1>2, <1>5, <2>1
<1>7. LastOf(S) \in S
  BY <1>6 DEF LastOf
<1> QED  BY <1>1, <1>3, <1>7, OwnIsAnId

\* A turn is below itself.
LEMMA TurnHasId ==
  ASSUME NEW t \in Trace, NEW u \in UserTurns(t)
  PROVE  u \in DOMAIN t /\ PropagateTurnIds(t)[u].turnId # None
<1>1. u \in DOMAIN t /\ u \in Kind(t, TurnKinds)
  BY DEF UserTurns, Kind, TurnKinds
<1>2. Ancestor(t, u, u)
  <2> DEFINE chain == [i \in 0 .. 0 |-> u]
  <2>1. 0 \in 0 .. Len(t) /\ chain \in [0 .. 0 -> DOMAIN t] /\ chain[0] = u
    BY <1>1, TraceIs
  <2>2. \A i \in 0 .. 0 - 1 : t[chain[i]].parent = chain[i + 1]
    OBVIOUS
  <2> HIDE DEF chain
  <2> QED  BY <2>1, <2>2 DEF Ancestor
<1>3. Kind(t, TurnKinds) \in SUBSET (DOMAIN t)
  BY DEF Kind
<1>4. Climb(t, u, Kind(t, TurnKinds)) # None
  BY <1>1, <1>2, <1>3, ClimbNearest
<1>5. TurnOf(t, u) # None
  BY <1>1, <1>4, TurnOfIs
<1> QED  BY <1>1, <1>5, PropagateIs

\* Over every trace, _pair_agent_turns puts what is below an agent turn into the
\* exchange of the caller's last turn before it.
THEOREM AgentAnswers == TraceSpec => []AgentAnswersPrecedingTurn
<1>1. TraceInv => AgentAnswersPrecedingTurn
  <2> SUFFICES ASSUME trace \in Trace,
                      NEW s \in DOMAIN trace, NEW a \in DOMAIN trace, AgentTurnOf(trace, s) = a,
                      NEW u \in UserTurns(trace), u <= a,
                      \A v \in UserTurns(trace) : v <= a => v <= u,
                      AgentTurnOf(trace, u) \in {None, a}
               PROVE  LiveKitTrace(trace)[s].turnId = LiveKitTrace(trace)[u].turnId
    BY DEF AgentAnswersPrecedingTurn, TraceInv
  <2> DEFINE t == PropagateTurnIds(trace)
             id == [x \in DOMAIN t |-> IF AgentTurnOf(t, x) = None THEN t[x].turnId
                                       ELSE PrecedingTurnId(t, AgentTurnOf(t, x))]
             p == [x \in DOMAIN t |-> IF AgentTurnOf(t, x) = None THEN t[x]
                                      ELSE [t[x] EXCEPT !.turnId = PrecedingTurnId(t, AgentTurnOf(t, x))]]
  <2>1. /\ t \in Trace /\ DOMAIN t = DOMAIN trace
        /\ \A K : Kind(t, K) = Kind(trace, K)
        /\ \A x \in DOMAIN trace : \A stops : Climb(t, x, stops) = Climb(trace, x, stops)
    BY PropagateIs
  <2>2. u \in DOMAIN t /\ t[u].turnId # None
    BY <2>1, TurnHasId
  <2>3. LiveKitTrace(trace) = PairAgentTurns(t)
    BY DEF LiveKitTrace
  <2> HIDE DEF t
  <2>4. UserTurns(t) = UserTurns(trace) /\ \A x \in DOMAIN t : AgentTurnOf(t, x) = AgentTurnOf(trace, x)
    BY <2>1 DEF UserTurns, AgentTurnOf
  <2>5. LiveKitTrace(trace) = PropagateTurnIds(p)
    BY <2>3, <2>4 DEF PairAgentTurns
  <2>6. \A x \in DOMAIN t : id[x] \in AnyId
    <3> SUFFICES ASSUME NEW x \in DOMAIN t PROVE id[x] \in AnyId
      OBVIOUS
    <3>1. t[x].turnId \in AnyId
      BY <2>1, TraceIs
    <3>2. PrecedingTurnId(t, AgentTurnOf(t, x)) \in AnyId
      BY <2>1, <2>4, PrecedingIsAnId
    <3> QED  BY <3>1, <3>2
  <2>7. p = Tagged(t, id)
    <3>1. ASSUME NEW x \in DOMAIN t, AgentTurnOf(t, x) = None
          PROVE  t[x] = [t[x] EXCEPT !.turnId = t[x].turnId]
      <4>1. t[x] = [kind |-> t[x].kind, parent |-> t[x].parent, turnId |-> t[x].turnId]
        BY <2>1, TraceIs
      <4> QED  BY <4>1
    <3> QED  BY <3>1 DEF Tagged
  <2>8. id[s] = OwnTurnId(t, u) /\ id[u] \in {t[u].turnId, OwnTurnId(t, u)}
    <3>1. AgentTurnOf(t, s) = a /\ AgentTurnOf(t, u) \in {None, a} /\ s \in DOMAIN t /\ a \in DOMAIN t
      BY <2>1, <2>2, <2>4
    <3>2. PrecedingTurnId(t, a) = OwnTurnId(t, u)
      BY <2>1, <2>4, <3>1, PrecedingIs
    <3>3. a # None
      BY <2>1, <3>1, TraceIs, TurnIdAssumption
    <3> QED  BY <2>2, <3>1, <3>2, <3>3
  <2>9. OwnTurnId(t, u) = t[u].turnId
    BY <2>2 DEF OwnTurnId
  <2> HIDE DEF id, p
  <2>10. /\ p \in Trace /\ DOMAIN p = DOMAIN t
         /\ \A x \in DOMAIN t : p[x].turnId = id[x]
    <3> HIDE DEF id, p
    <3> QED  BY ONLY <2>1, <2>6, <2>7, Retagged
  <2>11. p[s].turnId = t[u].turnId /\ p[u].turnId = t[u].turnId
    BY <2>1, <2>2, <2>8, <2>9, <2>10
  <2>12. \A x \in DOMAIN p : p[x].turnId # None => PropagateTurnIds(p)[x].turnId = p[x].turnId
    BY <2>10, PropagateIs
  <2> QED  BY <2>1, <2>2, <2>5, <2>10, <2>11, <2>12
<1> QED  BY <1>1, TraceStays, PTL
=============================================================================
