----------------------------- MODULE Intervals -----------------------------
(***************************************************************************)
(* Interval arithmetic (core/audio/intervals.py).  An interval is          *)
(* <<start, end>> in whole units of time.  What the code sorts first is a  *)
(* set here.                                                               *)
(***************************************************************************)
EXTENDS Integers, Sequences, FiniteSets

Least(a, b) == IF a <= b THEN a ELSE b
Greatest(a, b) == IF a >= b THEN a ELSE b

\* The first of some windows, in the order of tuples.
First(S) == CHOOSE w \in S : \A v \in S : w[1] < v[1] \/ (w[1] = v[1] /\ w[2] <= v[2])

Sorted(S) ==
  LET left[n \in 0 .. Cardinality(S)] ==
        IF n = 0 THEN S ELSE LET before == left[n - 1] IN before \ {First(before)}
  IN  [n \in 1 .. Cardinality(S) |-> First(left[n - 1])]

\* One more window, no earlier than the last: it prolongs that one or stands behind it.
\* Mutant: windows that only touch are kept apart.
ExtendedApart(merged, w) ==
  LET n == Len(merged) IN
  IF n = 0 \/ w[1] >= merged[n][2] THEN Append(merged, w)
  ELSE [merged EXCEPT ![n] = <<merged[n][1], Greatest(merged[n][2], w[2])>>]

Extended(merged, w) ==
  LET n == Len(merged) IN
  IF n = 0 \/ w[1] > merged[n][2] THEN Append(merged, w)
  ELSE [merged EXCEPT ![n] = <<merged[n][1], Greatest(merged[n][2], w[2])>>]

Merge(S) ==
  LET ordered == Sorted(S)
      merged[n \in 0 .. Len(ordered)] ==
        IF n = 0 THEN <<>> ELSE Extended(merged[n - 1], ordered[n])
  IN  merged[Len(ordered)]

Common(v, w) == <<Greatest(v[1], w[1]), Least(v[2], w[2])>>

\* Two lists walked together; the one whose window ends first moves on.
Advanced(a, b, at) ==
  LET w == Common(a[at.i], b[at.j])
      first == a[at.i][2] < b[at.j][2]
  IN  [i   |-> IF first THEN at.i + 1 ELSE at.i,
       j   |-> IF first THEN at.j ELSE at.j + 1,
       out |-> IF w[1] < w[2] THEN Append(at.out, w) ELSE at.out]

Intersect(a, b) ==
  LET walk[n \in 0 .. Len(a) + Len(b)] ==
        IF n = 0 THEN [i |-> 1, j |-> 1, out |-> <<>>]
        ELSE LET at == walk[n - 1] IN
             IF at.i > Len(a) \/ at.j > Len(b) THEN at ELSE Advanced(a, b, at)
  IN  walk[Len(a) + Len(b)].out

\* What one cut leaves of one segment.
Remains(seg, cut) ==
  IF cut[2] <= seg[1] \/ cut[1] >= seg[2] THEN <<seg>>
  ELSE (IF cut[1] > seg[1] THEN <<<<seg[1], cut[1]>>>> ELSE <<>>)
         \o (IF cut[2] < seg[2] THEN <<<<cut[2], seg[2]>>>> ELSE <<>>)

\* And of each segment of a list.
RemainsOf(list, cut) ==
  LET out[n \in 0 .. Len(list)] ==
        IF n = 0 THEN <<>> ELSE out[n - 1] \o Remains(list[n], cut)
  IN  out[Len(list)]

Subtract(base, cuts) ==
  LET segments[n \in 0 .. Len(cuts)] ==
        IF n = 0 THEN base ELSE RemainsOf(segments[n - 1], cuts[n])
  IN  segments[Len(cuts)]

Lengths(list) == [n \in 1 .. Len(list) |-> list[n][2] - list[n][1]]

Added(numbers) ==
  LET sum[n \in 0 .. Len(numbers)] == IF n = 0 THEN 0 ELSE sum[n - 1] + numbers[n]
  IN  sum[Len(numbers)]

Total(list) == Added(Lengths(list))

\* The gaps between windows from 0 to duration.
NextGap(acc, w) ==
  [gaps   |-> IF w[1] > acc.cursor THEN Append(acc.gaps, <<acc.cursor, w[1]>>) ELSE acc.gaps,
   cursor |-> Greatest(acc.cursor, w[2])]

\* Mutant: the silence after the last window is forgotten.
ToLastWindow(S, duration) ==
  LET merged == Merge(S)
      scan[n \in 0 .. Len(merged)] ==
        IF n = 0 THEN [gaps |-> <<>>, cursor |-> 0] ELSE NextGap(scan[n - 1], merged[n])
  IN  scan[Len(merged)].gaps

Complement(S, duration) ==
  LET merged == Merge(S)
      scan[n \in 0 .. Len(merged)] ==
        IF n = 0 THEN [gaps |-> <<>>, cursor |-> 0] ELSE NextGap(scan[n - 1], merged[n])
      end == scan[Len(merged)]
  IN  IF end.cursor < duration THEN Append(end.gaps, <<end.cursor, duration>>) ELSE end.gaps

-----------------------------------------------------------------------------
\* Reference: the unit instants that are covered.
Instants(S) == UNION {w[1] .. w[2] - 1 : w \in S}
=============================================================================
