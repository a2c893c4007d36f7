---------------------------- MODULE Agents_proofs ----------------------------
(***************************************************************************)
(* Of an agent, the versions of its script, for any number of writers and  *)
(* texts; how long a revoked ingest token still works, for any number of   *)
(* tokens and requests, any capacity, time to live and delay; what an      *)
(* acknowledged batch has put on the topic; and what the judge of its      *)
(* calls and the chat about them write.                                    *)
(***************************************************************************)
EXTENDS Agents, TokenCache, Ingest, Judging, Threads,
  FiniteSetTheorems, SequenceTheorems, TLAPS

-----------------------------------------------------------------------------
(* The versions of a script.                                               *)

Row == [version : Nat, text : Text, active : BOOLEAN]

\* The versions are 1 .. n, each once, and the newest is in force.
NumberedTo(rows, n) ==
  /\ rows \subseteq Row
  /\ {v.version : v \in rows} = 1 .. n
  /\ \A v, u \in rows : v.version = u.version => v = u
  /\ \A v \in rows : v.version = n => v.active

\* What a writer has in hand between two of its statements.
Job == [step : {"deactivate", "count", "insert"}, text : Text, old : Nat, last : Nat]

\* A writer's count of the versions may be out of date, but never ahead.
CountedUpTo(n, at, life) ==
  \A w \in Writer :
    at[w] # None =>
      /\ at[w] \in Job
      /\ life = "live" => at[w].last <= n

AgentInv ==
  /\ agent \in {"unborn", "live", "gone"}
  /\ agent # "live" => versions = {}
  /\ agent = "unborn" => \A w \in Writer : writing[w] = None
  /\ DOMAIN writing = Writer
  /\ \E n \in Nat : NumberedTo(versions, n) /\ CountedUpTo(n, writing, agent)

LEMMA NoneNumbered == NumberedTo({}, 0)
BY DEF NumberedTo

LEMMA LastIs ==
  ASSUME NEW n \in Nat, NumberedTo(versions, n)
  PROVE  LastVersion = n
<1>1. CASE versions = {}
  BY <1>1 DEF NumberedTo, LastVersion
<1>2. CASE versions # {}
  <2>1. n \in {v.version : v \in versions}
    BY <1>2 DEF NumberedTo
  <2>2. \A v \in versions : v.version \in Nat /\ v.version <= n
    BY DEF NumberedTo
  <2>3. \A m \in {v.version : v \in versions} : (\A v \in versions : v.version <= m) => m = n
    BY <2>1, <2>2
  <2> QED
    BY <1>2, <2>1, <2>2, <2>3 DEF LastVersion
<1> QED
  BY <1>1, <1>2

\* What the update of the active version leaves of a row.
Retired(v, old) == [v EXCEPT !.active = @ /\ v.version # old]

LEMMA RetiredRow ==
  ASSUME NEW v \in Row, NEW old
  PROVE  Retired(v, old) \in Row /\ Retired(v, old).version = v.version
BY DEF Retired, Row

LEMMA NextNumbered ==
  ASSUME NEW n \in Nat, NumberedTo(versions, n), NEW old, NEW text \in Text
  PROVE  NumberedTo({Retired(v, old) : v \in versions} \cup {Version(n + 1, text)}, n + 1)
<1> DEFINE new == Version(n + 1, text)
           rows == {Retired(v, old) : v \in versions} \cup {new}
<1>1. new \in Row /\ new.version = n + 1 /\ new.active = TRUE
  BY DEF Version, Row
<1>2. \A v \in versions : v \in Row /\ v.version \in 1 .. n
  BY DEF NumberedTo
<1>3. \A v \in versions : Retired(v, old) \in Row /\ Retired(v, old).version = v.version
  BY <1>2, RetiredRow
<1>4. \A x \in rows : x = new \/ \E v \in versions : x = Retired(v, old)
  OBVIOUS
<1>5. rows \subseteq Row
  BY <1>1, <1>3
<1>6. {v.version : v \in rows} = 1 .. n + 1
  <2>1. \A k \in 1 .. n : \E v \in versions : v.version = k
    BY DEF NumberedTo
  <2>2. \A k \in 1 .. n : \E x \in rows : x.version = k
    BY <1>3, <2>1
  <2>3. \A k \in 1 .. n + 1 : \E x \in rows : x.version = k
    BY <1>1, <2>2
  <2>4. \A x \in rows : x.version \in 1 .. n + 1
    BY <1>1, <1>2, <1>3
  <2> HIDE DEF rows
  <2> QED
    BY <2>3, <2>4
<1>7. \A x, y \in rows : x.version = y.version => x = y
  BY <1>1, <1>2, <1>3, <1>4 DEF NumberedTo
<1>8. \A x \in rows : x.version = n + 1 => x.active
  BY <1>1, <1>2, <1>3, <1>4
<1> QED
  BY <1>5, <1>6, <1>7, <1>8 DEF NumberedTo

LEMMA AgentStart == AgentInit => AgentInv
<1> SUFFICES ASSUME AgentInit PROVE AgentInv
  OBVIOUS
<1>1. NumberedTo(versions, 0) /\ CountedUpTo(0, writing, agent)
  BY NoneNumbered DEF AgentInit, CountedUpTo
<1> QED
  BY <1>1 DEF AgentInit, AgentInv

LEMMA CreateKeeps ==
  ASSUME AgentInv, Create
  PROVE  AgentInv'
<1>1. \A w \in Writer : writing'[w] = None
  BY DEF Create, AgentInv
<1>2. PICK text \in Text \cup {None} :
        versions' = IF text = None THEN {} ELSE {Version(1, text)}
  BY DEF Create
<1>3. \E n \in Nat : NumberedTo(versions', n)
  <2>1. CASE text = None
    BY <1>2, <2>1, NoneNumbered
  <2>2. CASE text # None
    <3>1. NumberedTo({Version(1, text)}, 1)
      BY <1>2, <2>2 DEF NumberedTo, Version, Row
    <3> QED
      BY <1>2, <2>2, <3>1
  <2> QED
    BY <2>1, <2>2
<1>4. \E n \in Nat : NumberedTo(versions', n) /\ CountedUpTo(n, writing', agent')
  BY <1>1, <1>3 DEF CountedUpTo
<1> QED
  BY <1>1, <1>4 DEF Create, AgentInv

\* A writer that moves while the versions stay, having counted them if it goes on to
\* insert.
LEMMA WriterKeeps ==
  ASSUME AgentInv, NEW w \in Writer, NEW at, writing' = [writing EXCEPT ![w] = at],
         UNCHANGED <<agent, versions>>,
         \/ at = None
         \/ /\ agent # "unborn" /\ at \in Job
            /\ at.last = 0 \/ at.last = LastVersion \/ (writing[w] # None /\ at.last = writing[w].last)
  PROVE  AgentInv'
<1>1. PICK n \in Nat : NumberedTo(versions, n) /\ CountedUpTo(n, writing, agent)
  BY DEF AgentInv
<1>2. LastVersion = n
  BY <1>1, LastIs
<1>3. ASSUME NEW v \in Writer, writing'[v] # None
      PROVE  /\ writing'[v] \in Job
             /\ agent = "live" => writing'[v].last <= n
  <2>1. CASE v # w
    <3>1. writing'[v] = writing[v]
      BY <2>1
    <3> QED
      BY <1>1, <1>3, <3>1 DEF CountedUpTo
  <2>2. CASE v = w
    <3>1. writing'[v] = at
      BY <2>2 DEF AgentInv
    <3>2. writing[w] # None => writing[w] \in Job /\ (agent = "live" => writing[w].last <= n)
      BY <1>1 DEF CountedUpTo
    <3> QED
      BY <1>2, <1>3, <3>1, <3>2 DEF Job
  <2> QED
    BY <2>1, <2>2
<1>4. CountedUpTo(n, writing', agent')
  BY <1>3 DEF CountedUpTo
<1>5. agent = "unborn" => \A v \in Writer : writing'[v] = None
  BY DEF AgentInv
<1> QED
  BY <1>1, <1>4, <1>5 DEF AgentInv

\* Whoever inserts has counted every version there is: the unique constraint refuses
\* everybody else.
LEMMA InsertKeeps ==
  ASSUME AgentInv, NEW w \in Writer, Insert(w)
  PROVE  AgentInv'
<1>1. PICK n \in Nat : NumberedTo(versions, n) /\ CountedUpTo(n, writing, agent)
  BY DEF AgentInv
<1>2. agent = "live"
  BY DEF Insert, VersionConflict, Gone, AgentInv
<1>3. writing[w].text \in Text /\ writing[w].last \in Nat /\ writing[w].last <= n
  BY <1>1, <1>2 DEF Insert, CountedUpTo, Job
<1>4. writing[w].last = n
  <2>1. ~\E v \in versions : v.version = writing[w].last + 1
    BY DEF Insert, VersionConflict
  <2>2. writing[w].last + 1 \notin 1 .. n
    BY <1>1, <2>1 DEF NumberedTo
  <2> QED
    BY <1>3, <2>2
<1>5. versions' = {Retired(v, writing[w].old) : v \in versions}
                    \cup {Version(n + 1, writing[w].text)}
  BY <1>4 DEF Insert, Retired
<1>6. NumberedTo(versions', n + 1)
  BY <1>1, <1>3, <1>5, NextNumbered
<1>7. CountedUpTo(n + 1, writing', agent')
  <2>1. \A v \in Writer : writing'[v] = writing[v] \/ writing'[v] = None
    BY DEF Insert, Idle, AgentInv
  <2> QED
    BY <1>1, <1>2, <2>1 DEF CountedUpTo, Insert, Job
<1>8. agent' = "live" /\ DOMAIN writing' = Writer
  BY <1>2 DEF AgentInv, Insert, Idle
<1>9. \E m \in Nat : NumberedTo(versions', m) /\ CountedUpTo(m, writing', agent')
  <2> WITNESS n + 1 \in Nat
  <2> QED
    BY <1>6, <1>7
<1> QED
  BY <1>8, <1>9 DEF AgentInv

LEMMA DeleteKeeps ==
  ASSUME AgentInv, Delete
  PROVE  AgentInv'
<1>1. PICK n \in Nat : NumberedTo(versions, n) /\ CountedUpTo(n, writing, agent)
  BY DEF AgentInv
<1>2. NumberedTo(versions', 0) /\ CountedUpTo(0, writing', agent')
  BY <1>1, NoneNumbered DEF Delete, CountedUpTo
<1> QED
  BY <1>2 DEF Delete, AgentInv

LEMMA AgentStep == AgentInv /\ [AgentNext]_agentVars => AgentInv'
<1> SUFFICES ASSUME AgentInv, [AgentNext]_agentVars PROVE AgentInv'
  OBVIOUS
<1>1. \A w \in Writer : writing[w] # None => writing[w] \in Job /\ agent # "unborn"
  BY DEF AgentInv, CountedUpTo
<1>2. ASSUME NEW w \in Writer, SetScript(w) PROVE AgentInv'
  <2>1. CASE \E text \in Text : ReadActive(w, text)
    <3>1. PICK text \in Text, old \in InForce :
            writing' = [writing EXCEPT ![w] =
              [step |-> IF old = None THEN "count" ELSE "deactivate", text |-> text,
               old |-> IF old = None THEN 0 ELSE old.version, last |-> 0]]
      BY <2>1 DEF ReadActive
    <3> DEFINE at == [step |-> IF old = None THEN "count" ELSE "deactivate", text |-> text,
                      old |-> IF old = None THEN 0 ELSE old.version, last |-> 0]
    <3>2. old # None => old.version \in Nat
      BY DEF InForce, AgentInv, NumberedTo, Row
    <3>3. at \in Job /\ at.last = 0
      BY <3>2 DEF Job
    <3>4. UNCHANGED <<agent, versions>> /\ agent # "unborn"
      BY <2>1 DEF ReadActive
    <3> HIDE DEF at
    <3>5. writing' = [writing EXCEPT ![w] = at]
      BY <3>1 DEF at
    <3> QED
      BY <3>3, <3>4, <3>5, WriterKeeps
  <2>2. CASE Deactivate(w)
    <3> DEFINE at == [writing[w] EXCEPT !.step = "count"]
    <3>1. writing' = [writing EXCEPT ![w] = at] /\ UNCHANGED <<agent, versions>>
      BY <2>2 DEF Deactivate
    <3>2. at \in Job /\ at.last = writing[w].last
      BY <1>1, <2>2 DEF Deactivate, Job
    <3> HIDE DEF at
    <3> QED
      BY <1>1, <2>2, <3>1, <3>2, WriterKeeps DEF Deactivate
  <2>3. CASE Count(w)
    <3> DEFINE at == [writing[w] EXCEPT !.step = "insert", !.last = LastVersion]
    <3>1. writing' = [writing EXCEPT ![w] = at] /\ UNCHANGED <<agent, versions>>
      BY <2>3 DEF Count
    <3>2. PICK n \in Nat : NumberedTo(versions, n)
      BY DEF AgentInv
    <3>3. LastVersion \in Nat
      BY <3>2, LastIs
    <3>4. at \in Job /\ at.last = LastVersion
      BY <1>1, <2>3, <3>3 DEF Count, Job
    <3> HIDE DEF at
    <3> QED
      BY <1>1, <2>3, <3>1, <3>4, WriterKeeps DEF Count
  <2>4. CASE Insert(w)
    BY <2>4, InsertKeeps
  <2>5. CASE InsertFails(w)
    BY <2>5, WriterKeeps DEF InsertFails, Idle
  <2> QED
    BY <1>2, <2>1, <2>2, <2>3, <2>4, <2>5 DEF SetScript
<1>3. ASSUME NEW rows, Keep(rows) PROVE AgentInv'
  BY <1>3 DEF Keep, AgentInv, CountedUpTo
<1>4. CASE UNCHANGED agentVars
  BY <1>4 DEF agentVars, AgentInv, CountedUpTo
<1> QED
  BY <1>2, <1>3, <1>4, CreateKeeps, DeleteKeeps
     DEF AgentNext, CreateToken, SetAudioConfig, SetOtlpMapping, PutManifest, UploadParams,
         DeleteParams, SetAccess

\* api/agents.py set_agent_script: without a lock on the agent, and although two may come
\* out active, a version number names one script, none is missing, and the newest is in
\* force, for any number of writers.
THEOREM VersionsNumbered == AgentSpec => []VersionNamesOneScript
<1>1. AgentSpec => []AgentInv
  BY AgentStart, AgentStep, PTL DEF AgentSpec
<1>2. AgentInv => VersionNamesOneScript
  <2> SUFFICES ASSUME AgentInv PROVE VersionNamesOneScript
    OBVIOUS
  <2>1. PICK n \in Nat : NumberedTo(versions, n)
    BY DEF AgentInv
  <2>2. LastVersion = n
    BY <2>1, LastIs
  <2> QED
    BY <2>1, <2>2 DEF NumberedTo, VersionNamesOneScript
<1> QED
  BY <1>1, <1>2, PTL

-----------------------------------------------------------------------------
(* The cache of verified tokens.                                           *)

Entry == [token : Token, expires : Nat]

OneEach(s) == \A i, j \in 1 .. Len(s) : s[i].token = s[j].token => i = j

\* How long an entry may live: a TTL from now while its token is live, and a TTL and a
\* verification from the revocation once it is not.
Timely(e, revoked, clock) ==
  IF revoked[e.token] = None THEN e.expires <= clock + TTL
  ELSE e.expires <= revoked[e.token] + TTL + MaxDelay

\* A verification read a live token, not long ago.
Recent(v, revoked, clock) ==
  /\ v.read <= clock /\ clock <= v.read + MaxDelay
  /\ revoked[v.token] # None => v.read <= revoked[v.token]

TokenInv ==
  /\ now \in Nat /\ minted \subseteq Token
  /\ revokedAt \in [Token -> Nat \cup {None}]
  /\ \A t \in Token : revokedAt[t] # None => revokedAt[t] <= now
  /\ cache \in Seq(Entry) /\ OneEach(cache)
  /\ \A i \in 1 .. Len(cache) : Timely(cache[i], revokedAt, now)
  /\ DOMAIN verifying = Verifier
  /\ \A r \in Verifier :
       verifying[r] # None =>
         verifying[r] \in [token : Token, read : Nat] /\ Recent(verifying[r], revokedAt, now)

LEMMA TokenStart == TokenInit => TokenInv
BY TokenAssumption DEF TokenInit, TokenInv, OneEach

\* The list without the element the map points to.
LEMMA RemovedIs ==
  ASSUME NEW t, cache \in Seq(Entry), OneEach(cache)
  PROVE  /\ Removed(t) \in Seq(Entry) /\ OneEach(Removed(t))
         /\ \A i \in 1 .. Len(Removed(t)) :
              /\ Removed(t)[i].token # t
              /\ \E j \in 1 .. Len(cache) : Removed(t)[i] = cache[j]
<1>1. CASE At(t) = {}
  BY <1>1 DEF Removed, At
<1>2. CASE At(t) # {}
  <2> DEFINE k == CHOOSE i \in At(t) : TRUE
             s == SubSeq(cache, 1, k - 1) \o SubSeq(cache, k + 1, Len(cache))
  <2>1. k \in 1 .. Len(cache) /\ cache[k].token = t
    BY <1>2 DEF At
  <2>2. Removed(t) = s
    BY <1>2 DEF Removed
  <2> HIDE DEF k
  <2>3. /\ s \in Seq(Entry) /\ Len(s) = Len(cache) - 1
        /\ \A i \in 1 .. Len(s) : s[i] = IF i < k THEN cache[i] ELSE cache[i + 1]
    <3> DEFINE before == SubSeq(cache, 1, k - 1)
               after == SubSeq(cache, k + 1, Len(cache))
    <3>1. /\ before \in Seq(Entry) /\ Len(before) = k - 1
          /\ \A i \in 1 .. k - 1 : before[i] = cache[i]
      BY <2>1, SubSeqProperties
    <3>2. /\ after \in Seq(Entry) /\ Len(after) = Len(cache) - k
          /\ \A i \in 1 .. Len(cache) - k : after[i] = cache[k + i]
      BY <2>1, SubSeqProperties
    <3> HIDE DEF before, after
    <3>3. /\ before \o after \in Seq(Entry)
          /\ Len(before \o after) = Len(before) + Len(after)
          /\ \A i \in 1 .. Len(before) + Len(after) :
               (before \o after)[i]
                 = IF i <= Len(before) THEN before[i] ELSE after[i - Len(before)]
      BY <3>1, <3>2, ConcatProperties
    <3>4. s = before \o after
      BY DEF before, after
    <3>5. Len(before) + Len(after) = Len(cache) - 1
      BY <2>1, <3>1, <3>2
    <3> HIDE DEF s
    <3>6. ASSUME NEW i \in 1 .. Len(s)
          PROVE  s[i] = IF i < k THEN cache[i] ELSE cache[i + 1]
      <4>1. i \in 1 .. Len(before) + Len(after)
        BY <3>3, <3>4
      <4>2. CASE i < k
        BY <2>1, <3>1, <3>3, <3>4, <4>1, <4>2
      <4>3. CASE ~ (i < k)
        <5>1. i - Len(before) \in 1 .. Len(cache) - k
          BY <2>1, <3>1, <3>2, <4>1, <4>3
        <5>2. s[i] = after[i - Len(before)]
          BY <2>1, <3>1, <3>3, <3>4, <4>1, <4>3
        <5>3. s[i] = cache[k + (i - Len(before))]
          BY <3>2, <5>1, <5>2
        <5>4. k + (i - Len(before)) = i + 1
          BY <2>1, <3>1, <4>1
        <5> QED
          BY <4>3, <5>3, <5>4
      <4> QED
        BY <4>2, <4>3
    <3> QED
      BY <3>3, <3>4, <3>5, <3>6
  <2> HIDE DEF s
  <2>4. \A i \in 1 .. Len(s) : \E j \in 1 .. Len(cache) : s[i] = cache[j] /\ j # k
    BY <2>1, <2>3
  <2>5. OneEach(s)
    <3> SUFFICES ASSUME NEW i \in 1 .. Len(s), NEW j \in 1 .. Len(s), s[i].token = s[j].token
                 PROVE  i = j
      BY DEF OneEach
    <3> DEFINE old(n) == IF n < k THEN n ELSE n + 1
    <3>1. old(i) \in 1 .. Len(cache) /\ old(j) \in 1 .. Len(cache)
      BY <2>1, <2>3
    <3>2. s[i] = cache[old(i)] /\ s[j] = cache[old(j)]
      BY <2>3
    <3>3. old(i) = old(j)
      BY <3>1, <3>2 DEF OneEach
    <3> QED
      BY <2>1, <2>3, <3>3
  <2>6. ASSUME NEW i \in 1 .. Len(s) PROVE s[i].token # t
    BY <2>1, <2>4 DEF OneEach
  <2>7. Len(s) \in Nat /\ Len(s) <= Len(cache)
    BY <2>1, <2>3
  <2> QED
    BY <2>2, <2>3, <2>4, <2>5, <2>6, <2>7
<1> QED
  BY <1>1, <1>2

\* The list with an entry of a token in front, cut at the capacity or not.
LEMMA PushedIs ==
  ASSUME NEW e \in Entry, cache \in Seq(Entry), OneEach(cache),
         NEW n \in Nat, n <= Len(Removed(e.token)) + 1
  PROVE  LET s == SubSeq(<<e>> \o Removed(e.token), 1, n) IN
         /\ s \in Seq(Entry) /\ OneEach(s)
         /\ \A i \in 1 .. Len(s) : s[i] = e \/ \E j \in 1 .. Len(cache) : s[i] = cache[j]
<1> DEFINE rest == Removed(e.token)
           s == SubSeq(<<e>> \o rest, 1, n)
<1>1. /\ rest \in Seq(Entry) /\ OneEach(rest)
      /\ \A i \in 1 .. Len(rest) :
           rest[i].token # e.token /\ \E j \in 1 .. Len(cache) : rest[i] = cache[j]
  BY RemovedIs
<1> HIDE DEF rest
<1>2. /\ s \in Seq(Entry) /\ Len(s) = n
      /\ \A i \in 1 .. n : s[i] = IF i = 1 THEN e ELSE rest[i - 1]
  <2> DEFINE longer == <<e>> \o rest
  <2>1. n <= Len(rest) + 1
    BY DEF rest
  <2>2. /\ longer \in Seq(Entry) /\ Len(longer) = Len(rest) + 1
        /\ \A i \in 1 .. Len(rest) + 1 : longer[i] = IF i <= 1 THEN e ELSE rest[i - 1]
    <3>1. <<e>> \in Seq(Entry) /\ Len(<<e>>) = 1 /\ <<e>>[1] = e
      OBVIOUS
    <3> QED
      BY <1>1, <3>1, ConcatProperties
  <2> HIDE DEF longer
  <2>3. /\ SubSeq(longer, 1, n) \in Seq(Entry) /\ Len(SubSeq(longer, 1, n)) = n
        /\ \A i \in 1 .. n : SubSeq(longer, 1, n)[i] = longer[i]
    BY <2>1, <2>2, SubSeqProperties
  <2> QED
    BY <2>1, <2>2, <2>3 DEF longer
<1>3. n <= Len(rest) + 1
  BY DEF rest
<1> HIDE DEF s
<1>4. ASSUME NEW i \in 1 .. n
      PROVE  \/ i = 1 /\ s[i] = e
             \/ i - 1 \in 1 .. Len(rest) /\ s[i] = rest[i - 1]
  <2>1. s[i] = IF i = 1 THEN e ELSE rest[i - 1]
    BY <1>2
  <2>2. CASE i = 1
    BY <2>1, <2>2
  <2>3. CASE i # 1
    <3>1. i - 1 \in 1 .. Len(rest)
      BY <1>1, <1>3, <2>3
    <3> QED  BY <2>1, <2>3, <3>1
  <2> QED  BY <2>2, <2>3
<1>5. ASSUME NEW i \in 1 .. Len(s), NEW j \in 1 .. Len(s), s[i].token = s[j].token
      PROVE  i = j
  <2>1. i \in 1 .. n /\ j \in 1 .. n
    BY <1>2
  <2>2. CASE i = 1 /\ j = 1
    BY <2>2
  <2>3. CASE i # 1 /\ j # 1
    <3>1. /\ i - 1 \in 1 .. Len(rest) /\ s[i] = rest[i - 1]
          /\ j - 1 \in 1 .. Len(rest) /\ s[j] = rest[j - 1]
      BY <1>4, <2>1, <2>3
    <3>2. i - 1 = j - 1
      BY <1>1, <1>5, <3>1 DEF OneEach
    <3> QED
      BY <2>1, <3>2
  <2>4. CASE i = 1 /\ j # 1
    <3>1. s[i] = e /\ j - 1 \in 1 .. Len(rest) /\ s[j] = rest[j - 1]
      BY <1>4, <2>1, <2>4
    <3>2. rest[j - 1].token # e.token
      BY <1>1, <3>1
    <3> QED
      BY <1>5, <3>1, <3>2
  <2>5. CASE i # 1 /\ j = 1
    <3>1. s[j] = e /\ i - 1 \in 1 .. Len(rest) /\ s[i] = rest[i - 1]
      BY <1>4, <2>1, <2>5
    <3>2. rest[i - 1].token # e.token
      BY <1>1, <3>1
    <3> QED
      BY <1>5, <3>1, <3>2
  <2> QED
    BY <2>2, <2>3, <2>4, <2>5
<1>6. ASSUME NEW i \in 1 .. Len(s)
      PROVE  s[i] = e \/ \E j \in 1 .. Len(cache) : s[i] = cache[j]
  <2>1. i \in 1 .. n
    BY <1>2
  <2>2. CASE i - 1 \in 1 .. Len(rest) /\ s[i] = rest[i - 1]
    <3>1. \E j \in 1 .. Len(cache) : rest[i - 1] = cache[j]
      BY <1>1, <2>2
    <3> QED
      BY <2>2, <3>1
  <2> QED
    BY <1>4, <2>1, <2>2
<1> QED
  BY <1>2, <1>5, <1>6 DEF s, rest, OneEach

\* A list of what the cache held, and of what may be put in it now, keeps the invariant.
LEMMA CacheKeeps ==
  ASSUME TokenInv, cache' \in Seq(Entry), OneEach(cache'),
         \A i \in 1 .. Len(cache') :
           \/ Timely(cache'[i], revokedAt, now)
           \/ \E j \in 1 .. Len(cache) : cache'[i] = cache[j]
  PROVE  \A i \in 1 .. Len(cache') : Timely(cache'[i], revokedAt, now)
<1> TAKE i \in 1 .. Len(cache')
<1>1. CASE \E j \in 1 .. Len(cache) : cache'[i] = cache[j]
  <2>1. PICK j \in 1 .. Len(cache) : cache'[i] = cache[j]
    BY <1>1
  <2>2. Timely(cache[j], revokedAt, now)
    BY DEF TokenInv
  <2> QED
    BY <2>1, <2>2
<1> QED
  BY <1>1

\* A verifier ends without a token, or starts with a live one.
LEMMA VerifierKeeps ==
  ASSUME TokenInv, NEW r \in Verifier, NEW v,
         verifying' = [verifying EXCEPT ![r] = v],
         v # None => v \in [token : Token, read : Nat] /\ Recent(v, revokedAt, now)
  PROVE  /\ DOMAIN verifying' = Verifier
         /\ \A q \in Verifier :
              verifying'[q] # None =>
                verifying'[q] \in [token : Token, read : Nat] /\ Recent(verifying'[q], revokedAt, now)
<1>1. DOMAIN verifying' = Verifier
  BY DEF TokenInv
<1>2. ASSUME NEW q \in Verifier, verifying'[q] # None
      PROVE  verifying'[q] \in [token : Token, read : Nat] /\ Recent(verifying'[q], revokedAt, now)
  <2>1. CASE q = r
    <3>1. verifying'[q] = v
      BY <2>1 DEF TokenInv
    <3> QED
      BY <1>2, <3>1
  <2>2. CASE q # r
    <3>1. verifying'[q] = verifying[q]
      BY <2>2 DEF TokenInv
    <3> QED
      BY <1>2, <3>1 DEF TokenInv
  <2> QED
    BY <2>1, <2>2
<1> QED
  BY <1>1, <1>2

\* The clock: a live token's entry expires within a TTL of now, and a verification that
\* would have taken too long stops the clock.
LEMMA TickKeeps == TokenInv /\ Tick => TokenInv'
<1> SUFFICES ASSUME TokenInv, Tick PROVE TokenInv'
  OBVIOUS
<1>1. now \in Nat /\ now' = now + 1 /\ UNCHANGED <<minted, revokedAt, cache, verifying>>
  BY DEF Tick, TokenInv
<1>2. \A t \in Token : revokedAt[t] # None => revokedAt[t] <= now'
  BY <1>1, TokenAssumption DEF TokenInv
<1>3. ASSUME NEW i \in 1 .. Len(cache) PROVE Timely(cache[i], revokedAt, now')
  <2>1. cache[i] \in Entry /\ Timely(cache[i], revokedAt, now)
    BY DEF TokenInv
  <2> QED
    BY <1>1, <2>1, TokenAssumption DEF Timely, Entry
<1>4. ASSUME NEW r \in Verifier, verifying[r] # None
      PROVE  /\ verifying[r] \in [token : Token, read : Nat]
             /\ Recent(verifying[r], revokedAt, now')
  <2>1. verifying[r] \in [token : Token, read : Nat] /\ Recent(verifying[r], revokedAt, now)
    BY <1>4 DEF TokenInv
  <2>2. now < verifying[r].read + MaxDelay
    BY <1>4 DEF Tick
  <2> QED
    BY <1>1, <2>1, <2>2, TokenAssumption DEF Recent
<1> QED
  BY <1>1, <1>2, <1>3, <1>4 DEF TokenInv, OneEach

\* A revocation: what is cached or being verified was live until now.
LEMMA StampKeeps ==
  ASSUME TokenInv, NEW t \in Token, revokedAt' = Stamped(t), minted' \subseteq Token,
         UNCHANGED <<now, cache, verifying>>
  PROVE  TokenInv'
<1>1. revokedAt' = [revokedAt EXCEPT ![t] = IF revokedAt[t] = None THEN now ELSE revokedAt[t]]
  BY DEF Stamped
<1>2. revokedAt' \in [Token -> Nat \cup {None}]
  BY <1>1 DEF TokenInv
<1>3. ASSUME NEW x \in Token
      PROVE  /\ revokedAt[x] # None => revokedAt'[x] = revokedAt[x]
             /\ revokedAt[x] = None => revokedAt'[x] \in {None, now}
  BY <1>1 DEF TokenInv
<1>4. \A x \in Token : revokedAt'[x] # None => revokedAt'[x] <= now'
  BY <1>3 DEF TokenInv
<1>5. ASSUME NEW i \in 1 .. Len(cache) PROVE Timely(cache[i], revokedAt', now)
  <2>1. cache[i] \in Entry /\ Timely(cache[i], revokedAt, now)
    BY DEF TokenInv
  <2>2. cache[i].token \in Token /\ cache[i].expires \in Nat /\ now \in Nat
    BY <2>1 DEF Entry, TokenInv
  <2>3. CASE revokedAt[cache[i].token] = None
    BY <1>3, <2>1, <2>2, <2>3, TokenAssumption DEF Timely
  <2>4. CASE revokedAt[cache[i].token] # None
    BY <1>3, <2>1, <2>2, <2>4 DEF Timely
  <2> QED
    BY <2>3, <2>4
<1>6. ASSUME NEW r \in Verifier, verifying[r] # None
      PROVE  /\ verifying[r] \in [token : Token, read : Nat]
             /\ Recent(verifying[r], revokedAt', now)
  <2>1. verifying[r] \in [token : Token, read : Nat] /\ Recent(verifying[r], revokedAt, now)
    BY <1>6 DEF TokenInv
  <2>2. verifying[r].token \in Token
    BY <2>1
  <2> QED
    BY <1>3, <2>1, <2>2 DEF Recent
<1> QED
  BY <1>2, <1>4, <1>5, <1>6 DEF TokenInv

\* A hit moves its entry to the front with the expiry it had.
LEMMA HitKeeps == ASSUME TokenInv, NEW t \in Token, IdentifyHit(t) PROVE TokenInv'
<1> DEFINE k == CHOOSE i \in At(t) : TRUE
           e == cache[k]
<1>1. k \in 1 .. Len(cache) /\ e.token = t
  BY DEF IdentifyHit, Hit, At
<1>2. e \in Entry /\ cache \in Seq(Entry) /\ OneEach(cache)
  BY <1>1 DEF TokenInv
<1>3. cache' = <<e>> \o Removed(e.token)
  BY <1>1 DEF IdentifyHit, Used
<1> HIDE DEF k
<1> DEFINE n == Len(Removed(e.token)) + 1
<1>4. Removed(e.token) \in Seq(Entry)
  BY <1>2, RemovedIs
<1>5. n \in Nat /\ <<e>> \o Removed(e.token) = SubSeq(<<e>> \o Removed(e.token), 1, n)
  <2> DEFINE rest == Removed(e.token)
  <2> HIDE DEF e, rest
  <2>1. <<e>> \in Seq(Entry) /\ Len(<<e>>) = 1 /\ rest \in Seq(Entry)
    BY <1>2, <1>4 DEF rest
  <2>2. <<e>> \o rest \in Seq(Entry) /\ Len(<<e>> \o rest) = Len(rest) + 1
    BY <2>1, ConcatProperties
  <2>3. SubSeq(<<e>> \o rest, 1, Len(<<e>> \o rest)) = <<e>> \o rest
    BY <2>2
  <2> QED
    BY <2>1, <2>2, <2>3 DEF rest
<1> HIDE DEF n
<1>6. n <= Len(Removed(e.token)) + 1
  BY <1>4 DEF n
<1> HIDE DEF e
<1>7. /\ cache' \in Seq(Entry) /\ OneEach(cache')
      /\ \A i \in 1 .. Len(cache') : cache'[i] = e \/ \E j \in 1 .. Len(cache) : cache'[i] = cache[j]
  <2>1. n \in Nat /\ cache' = SubSeq(<<e>> \o Removed(e.token), 1, n)
    BY <1>3, <1>5
  <2> QED
    BY <1>2, <1>6, <2>1, PushedIs
<1>8. \A i \in 1 .. Len(cache') : \E j \in 1 .. Len(cache) : cache'[i] = cache[j]
  BY <1>1, <1>7 DEF e
<1>9. \A i \in 1 .. Len(cache') : Timely(cache'[i], revokedAt, now)
  BY <1>7, <1>8, CacheKeeps
<1> QED
  BY <1>7, <1>9 DEF IdentifyHit, TokenInv

\* A miss drops the entry that expired and reads the live rows.
LEMMA MissKeeps ==
  ASSUME TokenInv, NEW r \in Verifier, NEW t \in Token, IdentifyMiss(r, t) PROVE TokenInv'
<1> DEFINE v == IF Live(t) THEN [token |-> t, read |-> now] ELSE None
<1>1. /\ cache' = Removed(t) /\ verifying' = [verifying EXCEPT ![r] = v]
      /\ UNCHANGED <<now, minted, revokedAt>>
  BY DEF IdentifyMiss
<1>2. v # None => v \in [token : Token, read : Nat] /\ Recent(v, revokedAt, now)
  BY TokenAssumption DEF Live, Recent, TokenInv
<1> HIDE DEF v
<1>3. /\ cache' \in Seq(Entry) /\ OneEach(cache')
      /\ \A i \in 1 .. Len(cache') : \E j \in 1 .. Len(cache) : cache'[i] = cache[j]
  BY <1>1, RemovedIs DEF TokenInv
<1>4. \A i \in 1 .. Len(cache') : Timely(cache'[i], revokedAt, now)
  BY <1>3, CacheKeeps
<1>5. /\ DOMAIN verifying' = Verifier
      /\ \A q \in Verifier :
           verifying'[q] # None =>
             verifying'[q] \in [token : Token, read : Nat] /\ Recent(verifying'[q], revokedAt, now)
  BY <1>1, <1>2, VerifierKeeps
<1> QED
  BY <1>1, <1>3, <1>4, <1>5 DEF TokenInv

\* A verified token is cached for a TTL from now, which is at most a verification later
\* than the moment its row was read and found live.
LEMMA VerifiedKeeps == ASSUME TokenInv, NEW r \in Verifier, Verified(r) PROVE TokenInv'
<1> DEFINE v == verifying[r]
           e == [token |-> v.token, expires |-> now + TTL]
           long == Len(<<e>> \o Removed(v.token))
           n == IF long > Cap THEN Cap ELSE long
<1>1. v \in [token : Token, read : Nat] /\ Recent(v, revokedAt, now) /\ now \in Nat
  BY DEF Verified, TokenInv
<1>2. /\ cache' = SubSeq(<<e>> \o Removed(v.token), 1, n)
      /\ verifying' = [verifying EXCEPT ![r] = None] /\ UNCHANGED <<now, minted, revokedAt>>
  BY DEF Verified, Put
<1>3. e \in Entry /\ e.token = v.token
  BY <1>1, TokenAssumption DEF Entry
<1>4. Timely(e, revokedAt, now)
  <2>1. e.token \in Token /\ e.expires = now + TTL
    BY <1>1
  <2>2. revokedAt[v.token] \in Nat \cup {None}
    BY <1>1 DEF TokenInv
  <2> QED
    BY <1>1, <2>1, <2>2, TokenAssumption DEF Timely, Recent
<1>5. cache \in Seq(Entry) /\ OneEach(cache)
  BY DEF TokenInv
<1> HIDE DEF e
<1>6. n \in Nat /\ n <= Len(Removed(e.token)) + 1
  <2> DEFINE rest == Removed(v.token)
  <2>1. rest \in Seq(Entry)
    BY <1>5, RemovedIs
  <2> HIDE DEF rest
  <2>2. <<e>> \in Seq(Entry) /\ Len(<<e>>) = 1
    BY <1>3
  <2>3. Len(<<e>> \o rest) = Len(rest) + 1
    BY <2>1, <2>2, ConcatProperties
  <2>4. long = Len(rest) + 1
    BY <2>3 DEF rest
  <2>5. Len(Removed(e.token)) = Len(rest) /\ Len(rest) \in Nat
    BY <1>3, <2>1 DEF rest
  <2> HIDE DEF long
  <2> QED
    BY <2>4, <2>5, TokenAssumption
<1> HIDE DEF n
<1>7. /\ cache' \in Seq(Entry) /\ OneEach(cache')
      /\ \A i \in 1 .. Len(cache') : cache'[i] = e \/ \E j \in 1 .. Len(cache) : cache'[i] = cache[j]
  BY <1>2, <1>3, <1>5, <1>6, PushedIs
<1>8. \A i \in 1 .. Len(cache') : Timely(cache'[i], revokedAt, now)
  BY <1>4, <1>7, CacheKeeps
<1>9. /\ DOMAIN verifying' = Verifier
      /\ \A q \in Verifier :
           verifying'[q] # None =>
             verifying'[q] \in [token : Token, read : Nat] /\ Recent(verifying'[q], revokedAt, now)
  BY <1>2, VerifierKeeps
<1> QED
  BY <1>2, <1>7, <1>8, <1>9 DEF TokenInv

LEMMA FailsKeeps == ASSUME TokenInv, NEW r \in Verifier, VerifyFails(r) PROVE TokenInv'
<1>1. verifying' = [verifying EXCEPT ![r] = None] /\ UNCHANGED <<now, minted, revokedAt, cache>>
  BY DEF VerifyFails
<1>2. /\ DOMAIN verifying' = Verifier
      /\ \A q \in Verifier :
           verifying'[q] # None =>
             verifying'[q] \in [token : Token, read : Nat] /\ Recent(verifying'[q], revokedAt, now)
  BY <1>1, VerifierKeeps
<1> QED
  BY <1>1, <1>2 DEF TokenInv

LEMMA TokenStep == TokenInv /\ [TokenNext]_tokenVars => TokenInv'
<1> SUFFICES ASSUME TokenInv, [TokenNext]_tokenVars PROVE TokenInv'
  OBVIOUS
<1>1. CASE Tick
  BY <1>1, TickKeeps
<1>2. ASSUME NEW t \in Token, CreateIngestToken(t) PROVE TokenInv'
  BY <1>2 DEF CreateIngestToken, TokenInv
<1>3. ASSUME NEW t \in Token, Revoke(t) PROVE TokenInv'
  <2>1. minted' \subseteq Token
    BY <1>3 DEF Revoke, TokenInv
  <2> QED
    BY <1>3, <2>1, StampKeeps DEF Revoke
<1>4. ASSUME NEW t \in Token, NEW old \in Token, Rotate(old, t) PROVE TokenInv'
  <2>1. minted' \subseteq Token
    BY <1>4 DEF Rotate, TokenInv
  <2> QED
    BY <1>4, <2>1, StampKeeps DEF Rotate
<1>5. CASE UNCHANGED tokenVars
  BY <1>5 DEF tokenVars, TokenInv
<1> QED
  BY <1>1, <1>2, <1>3, <1>4, <1>5, HitKeeps, MissKeeps, VerifiedKeeps, FailsKeeps DEF TokenNext

\* api/agents.py revoke and rotate, against the Go receiver's authpg.go and tokencache.go:
\* a revoked token is accepted for at most a TTL and a verification longer, and is cached
\* once, for any number of tokens, verifiers and entries, any TTL and any delay.
THEOREM RevokedDies == TokenSpec => []RevokedWithinTTL
<1>1. TokenSpec => []TokenInv
  BY TokenStart, TokenStep, PTL DEF TokenSpec
<1>2. TokenInv => RevokedWithinTTL
  BY DEF TokenInv, Timely, OneEach, RevokedWithinTTL
<1> QED
  BY <1>1, <1>2, PTL

-----------------------------------------------------------------------------
(* The receiver of batches.                                                *)

Batch == [encoding : Encodings \cup {None}, spans : Seq(Bodies)]

\* The records of the batch in hand.
Made == Records(Decoded(request), attempt)

\* Under way, each record is yet to be produced, was not acknowledged, or is on the topic,
\* which holds of this batch nothing else; once answered 200, each was acknowledged.
IngestInv ==
  /\ request \in Batch /\ attempt \in Nat
  /\ \A r \in topic : r.batch \in 1 .. attempt
  /\ attempt = 0 => answer = None /\ unsent = {} /\ failed = {}
  /\ attempt > 0 /\ answer \in {None, 200} =>
       /\ Made \subseteq unsent \cup failed \cup topic
       /\ unsent \subseteq Made /\ failed \subseteq Made
       /\ \A r \in topic : r.batch = attempt => r \in Made
  /\ answer # None => attempt > 0 /\ unsent = {}
  /\ answer = 200 /\ receiver = "go" => failed = {}

\* The ids of a span are the same however they came.
LEMMA DecodedIs == ASSUME NEW r \in Batch PROVE Decoded(r) = r.spans
<1>1. ASSUME NEW id \in TraceId \cup {None} PROVE Hex(OnWire(r.encoding, id)) = id
  <2>1. id \notin Base64 /\ (id # None => <<"base64", id>> \in Base64)
    BY IngestAssumption DEF Base64
  <2> QED
    BY <2>1 DEF Hex, OnWire
<1>2. ASSUME NEW i \in 1 .. Len(r.spans)
      PROVE  [r.spans[i] EXCEPT !.trace = Hex(OnWire(r.encoding, r.spans[i].trace))] = r.spans[i]
  <2>1. r.spans[i] \in Bodies
    BY DEF Batch
  <2>2. Hex(OnWire(r.encoding, r.spans[i].trace)) = r.spans[i].trace
    BY <1>1, <2>1 DEF Bodies
  <2> QED
    BY <2>1, <2>2 DEF Bodies
<1>3. r.spans \in Seq(Bodies)
  BY DEF Batch
<1>4. Decoded(r) = [i \in 1 .. Len(r.spans) |-> r.spans[i]]
  BY <1>2 DEF Decoded
<1> QED
  BY <1>3, <1>4

\* A list's first id that is not empty.
LEMMA FirstNonEmptyIs ==
  ASSUME NEW a, NEW b, NEW c, c # None
  PROVE  /\ a # None => FirstNonEmpty(<<a, b, c>>) = a
         /\ a = None /\ b = None => FirstNonEmpty(<<a, b, c>>) = c
<1> DEFINE ids == <<a, b, c>>
           S == {i \in 1 .. Len(ids) : ids[i] # None}
<1>1. Len(ids) = 3 /\ ids[1] = a /\ ids[2] = b /\ ids[3] = c
  OBVIOUS
<1>2. FirstNonEmpty(ids) = ids[First(S)]
  BY DEF FirstNonEmpty
<1>3. ASSUME a # None PROVE First(S) = 1
  <2>1. 1 \in S /\ \A j \in S : j \in Nat /\ 1 <= j
    BY <1>1, <1>3
  <2> HIDE DEF S
  <2> QED
    BY <2>1 DEF First
<1>4. ASSUME a = None, b = None PROVE First(S) = 3
  <2>1. S = {3}
    BY <1>1, <1>4
  <2> QED
    BY <2>1 DEF First
<1> QED
  BY <1>1, <1>2, <1>3, <1>4

\* shard: a span is in the record of its key and in no other, and the key is the one every
\* batch gives it.
LEMMA ShardedOnce ==
  ASSUME NEW spans \in Seq(Bodies), NEW batch \in Nat, NEW i \in 1 .. Len(spans)
  PROVE  \E r \in Records(spans, batch) :
           /\ i \in r.spans /\ \A q \in Records(spans, batch) : i \in q.spans => q = r
           /\ r.key = IF spans[i].call # None THEN spans[i].call
                      ELSE IF spans[i].trace # None THEN spans[i].trace ELSE batch
<1> DEFINE RecordOf(key) ==
             [batch |-> batch, seq |-> Seq0(spans, key), spans |-> GroupOf(spans, key),
              key |-> FirstNonEmpty(<<key, FirstTrace(spans, key), batch>>)]
           k == SpanKey(spans[i])
<1>1. Records(spans, batch) = {RecordOf(key) : key \in {SpanKey(spans[j]) : j \in 1 .. Len(spans)}}
  BY DEF Records
<1>2. \A key : RecordOf(key).spans = GroupOf(spans, key)
  OBVIOUS
<1>3. RecordOf(k).key = FirstNonEmpty(<<k, FirstTrace(spans, k), batch>>)
  OBVIOUS
<1> HIDE DEF RecordOf
<1>4. RecordOf(k) \in Records(spans, batch) /\ i \in RecordOf(k).spans
  BY <1>1, <1>2 DEF GroupOf
<1>5. ASSUME NEW q \in Records(spans, batch), i \in q.spans PROVE q = RecordOf(k)
  <2>1. PICK key : q = RecordOf(key)
    BY <1>1
  <2>2. key = k
    BY <1>2, <1>5, <2>1 DEF GroupOf
  <2> QED
    BY <2>1, <2>2
<1>6. batch # None
  BY IngestAssumption
<1>7. ASSUME k = None PROVE FirstTrace(spans, k) = None
  <2>1. TracedGroup(spans, k) = {}
    BY <1>7 DEF TracedGroup, GroupOf, SpanKey
  <2> QED
    BY <2>1 DEF FirstTrace
<1>8. RecordOf(k).key = IF k # None THEN k ELSE batch
  BY <1>3, <1>6, <1>7, FirstNonEmptyIs
<1>9. RecordOf(k).key = IF spans[i].call # None THEN spans[i].call
                        ELSE IF spans[i].trace # None THEN spans[i].trace ELSE batch
  BY <1>8 DEF SpanKey
<1> QED
  BY <1>4, <1>5, <1>9

LEMMA IngestStart == IngestInit => IngestInv
<1> SUFFICES ASSUME IngestInit PROVE IngestInv
  OBVIOUS
<1>1. request \in Batch
  BY DEF IngestInit, Batch
<1>2. answer # 200
  BY IngestAssumption DEF IngestInit
<1> QED
  BY <1>1, <1>2 DEF IngestInit, IngestInv

LEMMA ExportKeeps == IngestInv /\ Export => IngestInv'
<1> SUFFICES ASSUME IngestInv, Export PROVE IngestInv'
  OBVIOUS
<1>1. PICK body \in Bodies : request' = [request EXCEPT !.spans = Append(@, body)]
  BY DEF Export
<1>2. request \in Batch
  BY DEF IngestInv
<1>3. Append(request.spans, body) \in Seq(Bodies)
  BY <1>2 DEF Batch
<1>4. [request EXCEPT !.spans = Append(@, body)] =
        [encoding |-> request.encoding, spans |-> Append(request.spans, body)]
  BY <1>2 DEF Batch
<1>5. request' \in Batch
  BY <1>1, <1>2, <1>3, <1>4 DEF Batch
<1> QED
  BY <1>5 DEF Export, IngestInv

\* A batch sent again is a new batch: nothing of it is on the topic.
LEMMA SendKeeps ==
  ASSUME IngestInv, NEW e \in Encodings, NEW refusal \in {None, 400, 413, 500},
         SendBatch(e, refusal)
  PROVE  IngestInv'
<1> DEFINE r == [request EXCEPT !.encoding = e]
<1>1. /\ request' = r /\ answer' = refusal /\ attempt' = attempt + 1 /\ failed' = {}
      /\ unsent' = IF refusal = None THEN Records(Decoded(r), attempt + 1) ELSE {}
      /\ UNCHANGED <<receiver, topic>>
  BY DEF SendBatch
<1>2. r \in Batch
  BY DEF IngestInv, Batch
<1> HIDE DEF r
<1>3. attempt \in Nat /\ \A q \in topic : q.batch \in 1 .. attempt
  BY DEF IngestInv
<1>4. answer' \in {None, 200} => refusal = None
  BY <1>1
<1>5. Made' = Records(Decoded(r), attempt + 1)
  BY <1>1 DEF Made
<1>6. \A q \in topic : q.batch # attempt + 1 /\ q.batch \in 1 .. attempt + 1
  BY <1>3
<1>7. answer' # 200
  BY <1>1, IngestAssumption
<1>8. answer' \in {None, 200} =>
        /\ Made' \subseteq unsent' \cup failed' \cup topic'
        /\ unsent' \subseteq Made' /\ failed' \subseteq Made'
        /\ \A q \in topic' : q.batch = attempt' => q \in Made'
  BY <1>1, <1>4, <1>5, <1>6
<1>9. attempt' \in Nat /\ attempt' # 0 /\ request' \in Batch
  BY <1>1, <1>2, <1>3
<1> QED
  BY <1>1, <1>6, <1>7, <1>8, <1>9 DEF IngestInv

\* Every record of a batch carries its number.
LEMMA RecordsNumbered ==
  ASSUME NEW spans, NEW n, NEW r \in Records(spans, n) PROVE r.batch = n
<1>1. PICK key \in {SpanKey(spans[i]) : i \in 1 .. Len(spans)} :
        r = [batch |-> n, seq |-> Seq0(spans, key), spans |-> GroupOf(spans, key),
             key |-> FirstNonEmpty(<<key, FirstTrace(spans, key), n>>)]
  BY DEF Records
<1> QED
  BY <1>1

LEMMA ProduceKeeps ==
  ASSUME IngestInv, NEW r \in unsent, Produce(r) \/ ProduceFails(r) PROVE IngestInv'
<1>1. /\ UNCHANGED <<receiver, request, attempt, answer>>
      /\ unsent' = unsent \ {r} /\ failed' \in {failed, failed \cup {r}}
      /\ topic' \in {topic, topic \cup {r}}
      /\ r \in topic' \cup failed'
  BY DEF Produce, ProduceFails
<1>2. Made' = Made
  BY <1>1 DEF Made
<1>3. attempt \in Nat /\ attempt > 0 /\ answer = None
  BY DEF IngestInv
<1>4. r \in Made
  BY <1>3 DEF IngestInv
<1>5. r.batch = attempt
  BY <1>4, RecordsNumbered DEF Made
<1>6. /\ Made \subseteq unsent \cup failed \cup topic
      /\ unsent \subseteq Made /\ failed \subseteq Made
      /\ \A q \in topic : q.batch = attempt => q \in Made
  BY <1>3 DEF IngestInv
<1>7. /\ Made \subseteq unsent' \cup failed' \cup topic'
      /\ unsent' \subseteq Made /\ failed' \subseteq Made
      /\ \A q \in topic' : q.batch = attempt => q \in Made
  BY <1>1, <1>4, <1>6
<1>8. \A q \in topic' : q.batch \in 1 .. attempt
  BY <1>1, <1>3, <1>5 DEF IngestInv
<1>9. answer # 200
  BY <1>3, IngestAssumption
<1> QED
  BY <1>1, <1>2, <1>3, <1>7, <1>8, <1>9 DEF IngestInv

LEMMA AnswerKeeps == IngestInv /\ Answer => IngestInv'
<1> SUFFICES ASSUME IngestInv, Answer PROVE IngestInv'
  OBVIOUS
<1>1. /\ attempt > 0 /\ answer = None /\ unsent = {}
      /\ answer' = IF SendErr THEN 500 ELSE 200
      /\ UNCHANGED <<receiver, request, attempt, unsent, failed, topic>>
  BY DEF Answer
<1>2. Made' = Made
  BY <1>1 DEF Made
<1>3. answer' = 200 => (receiver = "go" => failed = {})
  BY <1>1 DEF SendErr
<1> QED
  BY <1>1, <1>2, <1>3 DEF IngestInv

LEMMA IngestStep == IngestInv /\ [IngestNext]_ingestVars => IngestInv'
<1> SUFFICES ASSUME IngestInv, [IngestNext]_ingestVars PROVE IngestInv'
  OBVIOUS
<1>1. ASSUME NEW e \in Encodings, Receive(e) \/ IngestTraces(e) PROVE IngestInv'
  <2>1. SendBatch(e, DecodePayload(e)) \/ SendBatch(e, OtlpPayload(e))
    BY <1>1 DEF Receive, IngestTraces
  <2>2. DecodePayload(e) \in {None, 400, 413, 500} /\ OtlpPayload(e) \in {None, 400, 413, 500}
    BY DEF DecodePayload, OtlpPayload
  <2> QED
    BY <2>1, <2>2, SendKeeps
<1>2. ASSUME NEW r \in unsent, Produce(r) \/ ProduceFails(r) PROVE IngestInv'
  BY <1>2, ProduceKeeps
<1>3. CASE UNCHANGED ingestVars
  BY <1>3 DEF ingestVars, IngestInv, Made
<1> QED
  BY <1>1, <1>2, <1>3, ExportKeeps, AnswerKeeps DEF IngestNext

\* services/ingest decode, shard.go, produce.go, main.go: a batch the Go service answers
\* 200 is on the topic whole, each span in one record under the key of its call, for any
\* batch, any ids, and any number of attempts.
THEOREM AckedIsWhole == IngestSpec => []AckedIsOnTopic
<1>1. IngestSpec => []IngestInv
  BY IngestStart, IngestStep, PTL DEF IngestSpec
<1>2. IngestInv => AckedIsOnTopic
  <2> SUFFICES ASSUME IngestInv, answer = 200, receiver = "go",
                      NEW i \in 1 .. Len(request.spans)
               PROVE  LET span == request.spans[i]
                          holding == {r \in topic : r.batch = attempt /\ i \in r.spans}
                      IN /\ Cardinality(holding) = 1
                         /\ \A r \in holding :
                              r.key = IF span.call # None THEN span.call
                                      ELSE IF span.trace # None THEN span.trace ELSE attempt
    BY DEF AckedIsOnTopic
  <2> DEFINE holding == {r \in topic : r.batch = attempt /\ i \in r.spans}
  <2>1. answer # None
    BY IngestAssumption
  <2>2. attempt > 0 /\ unsent = {} /\ failed = {} /\ request \in Batch /\ attempt \in Nat
    BY <2>1 DEF IngestInv
  <2>3. /\ attempt \in Nat /\ request \in Batch /\ request.spans \in Seq(Bodies)
        /\ Made \subseteq topic /\ \A r \in topic : r.batch = attempt => r \in Made
    BY <2>2 DEF IngestInv, Batch
  <2>4. Made = Records(request.spans, attempt)
    BY <2>3, DecodedIs DEF Made
  <2>5. PICK r \in Made :
          /\ i \in r.spans /\ \A q \in Made : i \in q.spans => q = r
          /\ r.key = IF request.spans[i].call # None THEN request.spans[i].call
                     ELSE IF request.spans[i].trace # None THEN request.spans[i].trace ELSE attempt
    BY <2>3, <2>4, ShardedOnce
  <2>6. r.batch = attempt
    BY <2>4, <2>5, RecordsNumbered
  <2>7. holding = {r}
    BY <2>3, <2>5, <2>6
  <2>8. Cardinality(holding) = 1
    BY <2>7, FS_Singleton
  <2> QED
    BY <2>5, <2>7, <2>8
<1> QED
  BY <1>1, <1>2, PTL

-----------------------------------------------------------------------------
(* What is written while a model answers.  A judgment is of one reply as   *)
(* long as one judge at a time has the call (with two the run Torn shows   *)
(* the contrary); a chat's answer stands behind its own question whoever   *)
(* asks beside it.  For any number of requests, retries, crashes, threads. *)

OneJudge == \A v, w \in Judge : v = w

Columns == {"disposition", "status", "error", "objective", "violation", "points",
            "isFailure", "rootCause", "fault", "corrections"}

IsRow(r) == r = [f \in Columns |-> r[f]]

\* JudgmentIsWhole of a row that is still in a judge's hands.
Whole(r) ==
  /\ r.isFailure = TRUE =>
       r.status = "ok" /\ (r.violation = TRUE \/ r.objective \in {"not_achieved", "partial"})
  /\ r.rootCause # None \/ r.corrections = TRUE => r.isFailure = TRUE
  /\ r.objective # None => r.status = "ok" /\ r.disposition = "connected"

Call == [exists : BOOLEAN, spoke : BOOLEAN, talked : BOOLEAN, byo : BOOLEAN \cup {None},
         required : BOOLEAN, params : BOOLEAN]

-----------------------------------------------------------------------------
(* The operators.                                                          *)

ReplyFields == {"status", "error", "objective", "violation", "points"}

LEMMA ReplyType ==
  ASSUME NEW reply \in Replies
  PROVE  /\ DOMAIN reply = ReplyFields
         /\ reply.status = "ok" => reply.violation \in BOOLEAN
         /\ reply.status # "ok" => reply.objective = None
<1>1. CASE reply \in Refused
  BY <1>1 DEF Refused, NoReply, ReplyFields
<1>2. CASE reply \notin Refused
  <2>1. PICK a \in [status : {"ok"}, error : {None}, points : {TRUE},
                    objective : {"achieved", "poor"}, violation : BOOLEAN] : reply = Valid(a)
    BY <1>2 DEF Replies
  <2> QED
    BY <2>1 DEF Valid, ReplyFields
<1> QED
  BY <1>1, <1>2

LEMMA ClearedFields ==
  ASSUME NEW j, IsRow(j)
  PROVE  LET r == Cleared(j) IN
         /\ IsRow(r) /\ r.isFailure = None /\ r.rootCause = None
         /\ r.corrections = None /\ r.objective = None
BY DEF IsRow, Columns, Cleared, ClearedReply

\* What a skipped judgment shows, with or without a reason.
LEMMA SkippedWhole ==
  ASSUME NEW r, IsRow(r), r.isFailure = None, r.rootCause = None,
         r.corrections = None, r.objective = None
  PROVE  /\ LET s == [r EXCEPT !.status = "skipped"] IN IsRow(s) /\ Whole(s)
         /\ LET s == [r EXCEPT !.status = "skipped", !.error = "no_params"] IN IsRow(s) /\ Whole(s)
BY JudgingAssumption DEF IsRow, Columns, Whole

LEMMA WithReplyFields ==
  ASSUME NEW j, IsRow(j), NEW reply \in Replies
  PROVE  LET r == WithReply(j, reply) IN
         /\ IsRow(r) /\ r.disposition = j.disposition
         /\ r.status = reply.status /\ r.violation = reply.violation
         /\ r.objective = reply.objective
BY ReplyType DEF IsRow, Columns, WithReply, ReplyFields

LEMMA ApplyFailureFields ==
  ASSUME NEW j, IsRow(j), NEW f
  PROVE  LET r == ApplyFailure(j, f) IN
         /\ IsRow(r)
         /\ r.disposition = j.disposition /\ r.status = j.status
         /\ r.violation = j.violation /\ r.objective = j.objective
         /\ r.isFailure = f.isFailure /\ r.rootCause = f.rootCause
         /\ r.corrections = f.corrections
BY DEF IsRow, Columns, ApplyFailure

LEMMA AnalysisFields ==
  ASSUME NEW analysis \in Analyses, analysis # None
  PROVE  "isFailure" \in DOMAIN analysis
<1>1. PICK a \in [isFailure : BOOLEAN, rootCause : {"r1", "r2"}, fault : {"asr", "llm"},
                  corrections : {TRUE}] : analysis = Clean(a)
  BY DEF Analyses
<1> DEFINE b == IF a.isFailure THEN a ELSE [a EXCEPT !.rootCause = None, !.fault = "none"]
<1>2. analysis = [b EXCEPT !.corrections = @ /\ b.fault = "llm"]
  BY <1>1 DEF Clean
<1>3. "isFailure" \in DOMAIN b
  OBVIOUS
<1> HIDE DEF b
<1> QED
  BY <1>2, <1>3

LEMMA JudgedWhole ==
  ASSUME NEW found, IsRow(found), NEW c \in Call, NEW reply \in Replies, NEW analysis \in Analyses
  PROVE  IsRow(Judged(found, c, reply, analysis)) /\ Whole(Judged(found, c, reply, analysis))
<1> DEFINE j == [found EXCEPT !.disposition = Disposition(c)]
           next == Judged(found, c, reply, analysis)
<1>1. IsRow(j) /\ j.disposition = Disposition(c)
  BY DEF IsRow, Columns
<1> HIDE DEF j
<1>2. CASE ~Spoke(c) \/ AwaitsParams(c)
  <2> DEFINE r == Cleared(j)
             skipped == [r EXCEPT !.status = "skipped"]
             waiting == [r EXCEPT !.status = "skipped", !.error = "no_params"]
  <2>1. next = skipped \/ next = waiting
    <3>1. CASE ~Spoke(c)
      BY <3>1 DEF Judged, j
    <3>2. CASE Spoke(c)
      BY <1>2, <3>2 DEF Judged, j
    <3> QED
      BY <3>1, <3>2
  <2>2. /\ IsRow(r) /\ r.isFailure = None /\ r.rootCause = None
        /\ r.corrections = None /\ r.objective = None
    BY <1>1, ClearedFields
  <2>3. IsRow(skipped) /\ Whole(skipped) /\ IsRow(waiting) /\ Whole(waiting)
    <3> HIDE DEF r
    <3> QED
      BY <2>2, SkippedWhole
  <2> HIDE DEF skipped, waiting
  <2> QED
    BY <2>1, <2>3
<1>3. CASE Spoke(c) /\ ~AwaitsParams(c)
  <2> DEFINE r == WithReply(j, reply)
             f == IF ~Flags(reply) \/ analysis = None THEN NoFailure
                  ELSE [analysis EXCEPT !.isFailure = TRUE]
  <2>1. next = ApplyFailure(r, f)
    BY <1>3 DEF Judged, j, WithFailure
  <2>2. /\ IsRow(r) /\ r.disposition = Disposition(c) /\ r.status = reply.status
        /\ r.violation = reply.violation /\ r.objective = reply.objective
    BY <1>1, WithReplyFields
  <2>3. f = NoFailure \/ (Flags(reply) /\ f.isFailure = TRUE)
    <3>1. CASE ~Flags(reply) \/ analysis = None
      BY <3>1
    <3>2. CASE Flags(reply) /\ analysis # None
      <4>1. "isFailure" \in DOMAIN analysis
        BY <3>2, AnalysisFields
      <4> QED
        BY <3>2, <4>1
    <3> QED
      BY <3>1, <3>2
  <2> HIDE DEF r, f
  <2>4. /\ IsRow(next)
        /\ next.disposition = r.disposition /\ next.status = r.status
        /\ next.violation = r.violation /\ next.objective = r.objective
        /\ next.isFailure = f.isFailure /\ next.rootCause = f.rootCause
        /\ next.corrections = f.corrections
    BY <2>1, <2>2, ApplyFailureFields
  <2>5. Disposition(c) = "connected"
    BY <1>3 DEF Disposition
  <2>6. next.objective # None => next.status = "ok" /\ next.disposition = "connected"
    BY <2>2, <2>4, <2>5, ReplyType
  <2>7. CASE f = NoFailure
    BY <2>4, <2>6, <2>7 DEF NoFailure, Whole
  <2>8. CASE Flags(reply) /\ f.isFailure = TRUE
    <3>1. next.status = "ok" /\ (next.violation = TRUE \/ next.objective \in {"not_achieved", "partial"})
      BY <2>2, <2>4, <2>8, ReplyType DEF Flags
    <3> QED
      BY <2>4, <2>6, <2>8, <3>1 DEF Whole
  <2> QED
    BY <2>3, <2>4, <2>7, <2>8
<1> QED
  BY <1>2, <1>3

-----------------------------------------------------------------------------
(* The inductive invariant.                                                *)

\* What a judge holds is whole, and was computed from the row that is there, unless the
\* call was erased meanwhile and the commit will be refused.
Held(w) ==
  judging[w] # None =>
    /\ IsRow(judging[w].next) /\ Whole(judging[w].next)
    /\ judging[w].loaded = row \/ ~call.exists

JudgingInv ==
  /\ call \in Call
  /\ row # None => IsRow(row) /\ Whole(row)
  /\ DOMAIN judging = Judge
  /\ \A w \in Judge : Held(w)

LEMMA JudgingStart == JudgingInit => JudgingInv
BY DEF JudgingInit, JudgingInv, Call, Held

\* Steps that leave the row and the judges alone, and revive no call.
LEMMA AsideKeeps ==
  ASSUME JudgingInv, UNCHANGED <<row, judging>>, call' \in Call, call'.exists => call.exists
  PROVE  JudgingInv'
BY DEF JudgingInv, Held

LEMMA CallStays ==
  ASSUME JudgingInv, NEW b \in BOOLEAN
  PROVE  /\ [call EXCEPT !.spoke = b] \in Call
         /\ [call EXCEPT !.byo = b] \in Call
         /\ [call EXCEPT !.required = b] \in Call
         /\ [call EXCEPT !.params = b] \in Call
         /\ [call EXCEPT !.exists = b] \in Call
BY DEF JudgingInv, Call

LEMMA UploadsKeep ==
  ASSUME JudgingInv,
         Analysed \/ UploadTranscript \/ Upload \/ UploadCommit \/ DeleteCallParams \/ SetParamsRequired
  PROVE  JudgingInv'
<1>1. call.exists \in BOOLEAN /\ call.required \in BOOLEAN
  BY DEF JudgingInv, Call
<1>2. \/ call' = call
      \/ \E b \in BOOLEAN :
           \/ call' = [call EXCEPT !.spoke = b]
           \/ call' = [call EXCEPT !.byo = b]
           \/ call' = [call EXCEPT !.required = b]
           \/ call' = [call EXCEPT !.params = b]
  BY <1>1 DEF Analysed, UploadTranscript, Upload, UploadCommit, DeleteCallParams, SetParamsRequired
<1>3. call' \in Call
  BY <1>2, CallStays DEF JudgingInv
<1>4. call'.exists = call.exists
  BY <1>2 DEF JudgingInv, Call
<1>5. UNCHANGED <<row, judging>>
  BY DEF Analysed, UploadTranscript, Upload, UploadCommit, DeleteCallParams, SetParamsRequired
<1> QED
  BY <1>3, <1>4, <1>5, AsideKeeps

LEMMA EraseKeeps ==
  ASSUME JudgingInv, Erase
  PROVE  JudgingInv'
<1>1. call' \in Call
  BY CallStays DEF Erase
<1>2. ~call'.exists
  BY DEF Erase, JudgingInv, Call
<1> QED
  BY <1>1, <1>2 DEF Erase, JudgingInv, Held

\* A judge that loads holds the judgment of one reply, computed from the row that is there.
LEMMA LoadHolds ==
  ASSUME JudgingInv, NEW w \in Judge, NEW t, NEW n, Load(w, t, n), UNCHANGED <<call, row>>
  PROVE  JudgingInv'
<1> DEFINE found == IF row = None THEN Unjudged ELSE row
<1>1. IsRow(found)
  BY DEF JudgingInv, Unjudged, IsRow, Columns
<1>2. PICK reply \in Replies, analysis \in Analyses :
        judging' = [judging EXCEPT ![w] =
          IF call.exists THEN [loaded |-> row, next |-> Judged(found, call, reply, analysis),
                               topic |-> t, tries |-> n]
          ELSE None]
  BY DEF Load
<1> DEFINE next == Judged(found, call, reply, analysis)
<1>3. IsRow(next) /\ Whole(next)
  BY <1>1, JudgedWhole DEF JudgingInv
<1> HIDE DEF found, next
<1>4. ASSUME NEW v \in Judge PROVE Held(v)'
  <2>1. CASE v = w /\ judging'[v] # None
    <3>1. judging'[v].next = next /\ judging'[v].loaded = row
      BY <1>2, <2>1 DEF next, JudgingInv
    <3> QED
      BY <1>3, <3>1 DEF Held
  <2>2. CASE v # w
    <3>1. judging'[v] = judging[v]
      BY <1>2, <2>2
    <3> QED
      BY <3>1 DEF Held, JudgingInv
  <2>3. CASE judging'[v] = None
    BY <2>3 DEF Held
  <2> QED
    BY <2>1, <2>2, <2>3
<1>5. DOMAIN judging' = DOMAIN judging
  BY <1>2
<1> QED
  BY <1>4, <1>5 DEF JudgingInv

\* A judge that lets go of the call leaves what the others hold.
LEMMA ReleaseKeeps ==
  ASSUME JudgingInv, NEW w \in Judge, judging' = [judging EXCEPT ![w] = None],
         UNCHANGED <<call, row>>
  PROVE  JudgingInv'
<1>1. ASSUME NEW v \in Judge PROVE Held(v)'
  <2>1. judging'[v] = judging[v] \/ judging'[v] = None
    OBVIOUS
  <2> QED
    BY <2>1 DEF Held, JudgingInv
<1> QED
  BY <1>1 DEF JudgingInv

\* Alone with the call, a judge commits exactly what it holds.
LEMMA CommitKeeps ==
  ASSUME JudgingInv, OneJudge, NEW w \in Judge, Commit(w)
  PROVE  JudgingInv'
<1> DEFINE next == judging[w].next
<1>1. IsRow(next) /\ Whole(next) /\ judging[w].loaded = row
  BY DEF Commit, Conflict, JudgingInv, Held
<1>2. Written(row, next) = next
  BY <1>1 DEF Written, IsRow
<1>3. row' = next
  BY <1>1, <1>2 DEF Commit
<1>4. ASSUME NEW v \in Judge PROVE Held(v)'
  <2>1. v = w
    BY DEF OneJudge
  <2>2. judging'[v] = None
    BY <2>1 DEF Commit, JudgingInv
  <2> QED
    BY <2>2 DEF Held
<1> QED
  BY <1>1, <1>3, <1>4 DEF JudgingInv, Commit

LEMMA JudgingStep == JudgingInv /\ OneJudge /\ [JudgingNext]_judgingVars => JudgingInv'
<1> SUFFICES ASSUME JudgingInv, OneJudge, [JudgingNext]_judgingVars PROVE JudgingInv'
  OBVIOUS
<1>1. ASSUME RunJudge PROVE JudgingInv'
  BY <1>1, LoadHolds DEF RunJudge
<1>2. ASSUME NEW w \in Worker, NEW k \in {"realtime", "backfill"}, Poll(w, k)
      PROVE  JudgingInv'
  BY <1>2, LoadHolds DEF Poll, Worker
<1>3. ASSUME NEW w \in Worker, Crash(w) PROVE JudgingInv'
  BY <1>3, ReleaseKeeps DEF Crash, Worker
<1>4. ASSUME NEW w \in Judge, Rollback(w) PROVE JudgingInv'
  BY <1>4, LoadHolds, ReleaseKeeps DEF Rollback
<1>5. CASE UNCHANGED judgingVars
  BY <1>5 DEF judgingVars, JudgingInv, Held
<1> QED
  BY <1>1, <1>2, <1>3, <1>4, <1>5, UploadsKeep, EraseKeeps, CommitKeeps DEF JudgingNext

\* judge/run.py judge_call, worker/judge.py: with one judge at a time a judgment says of
\* one reply what that reply says, however often it was asked for, retried, redelivered
\* or computed from what was uploaded and deleted meanwhile.
THEOREM JudgedWhollyByOne ==
  ASSUME OneJudge
  PROVE  JudgingSpec => []JudgmentIsWhole
<1>1. JudgingInv /\ [JudgingNext]_judgingVars => JudgingInv'
  BY JudgingStep
<1>2. JudgingSpec => []JudgingInv
  BY <1>1, JudgingStart, PTL DEF JudgingSpec
<1>3. JudgingInv => JudgmentIsWhole
  BY DEF JudgingInv, Whole, JudgmentIsWhole, FailureFieldsOnlyOnFailure
<1> QED
  BY <1>2, <1>3, PTL

-----------------------------------------------------------------------------
(* Chat threads.                                                           *)

LiveIn(ts) == {t \in DOMAIN ts : ~ts[t].gone}

Said(ms, t) == {m \in ms : m.thread = t}

\* The messages of a thread are numbered without a gap.
Numbered(ms, t) ==
  /\ IsFiniteSet(Said(ms, t))
  /\ {m.seq : m \in Said(ms, t)} = 1 .. Cardinality(Said(ms, t))

Asked(ms, t, r, n) == \E q \in Said(ms, t) : q.role = "user" /\ q.by = r /\ q.seq = n

Answers(ms) ==
  \A m \in ms : m.role = "assistant" =>
    Asked(ms, m.thread, m.by, m.seq - 1) /\ m.history < m.seq - 1

\* A request knows its thread; while that lives, it read no more than was said, and the
\* number it took is behind what it read and not past the next.
Asking(f, r, ts, ms) ==
  f # None =>
    /\ f.at \in {"opening", "asked", "read", "numbered", "answering"}
    /\ f.thread \in DOMAIN ts \/ (f.at = "opening" /\ f.thread = None)
    /\ f.thread \in LiveIn(ts) =>
         /\ f.at \in {"read", "numbered", "answering"} =>
              f.history \in Nat /\ f.history <= Cardinality(Said(ms, f.thread))
         /\ f.at \in {"numbered", "answering"} => f.seq \in Nat /\ f.history < f.seq
         /\ f.at = "numbered" => f.seq <= Cardinality(Said(ms, f.thread)) + 1
         /\ f.at = "answering" => Asked(ms, f.thread, r, f.seq)

ThreadsOk(ts, ms) ==
  /\ ts \in Seq([call : BOOLEAN, gone : BOOLEAN])
  /\ \A m \in ms : m.thread \in LiveIn(ts)
  /\ \A t \in LiveIn(ts) : Numbered(ms, t)
  /\ Answers(ms)

ThreadInv ==
  /\ ThreadsOk(threads, messages)
  /\ DOMAIN asking = Asker
  /\ \A r \in Asker : Asking(asking[r], r, threads, messages)

LEMMA ThreadNames ==
  /\ LiveThreads = LiveIn(threads)
  /\ \A t : History(t) = Said(messages, t)
BY DEF LiveThreads, LiveIn, History, Said

LEMMA ThreadStart == ThreadInit => ThreadInv
BY DEF ThreadInit, ThreadInv, ThreadsOk, LiveIn, Answers, Asking

\* The next number is one more than there are messages.
LEMMA NextIs ==
  ASSUME NEW t, Numbered(messages, t)
  PROVE  NextSeq(t) = Cardinality(Said(messages, t)) + 1
<1> DEFINE n == Cardinality(Said(messages, t))
           S == {0} \cup {m.seq : m \in History(t)}
<1>1. n \in Nat
  BY FS_CardinalityType DEF Numbered
<1>2. S = 0 .. n
  <2>1. S = {0} \cup (1 .. n)
    BY ThreadNames DEF Numbered
  <2> QED
    BY <1>1, <2>1
<1> HIDE DEF S, n
<1>3. Max(S) = n
  BY <1>1, <1>2 DEF Max
<1> QED
  BY <1>3 DEF NextSeq, S, n

\* What a request relies on survives whatever keeps the threads that live and lets them
\* only grow.
LEMMA AskingKept ==
  ASSUME NEW f, NEW r, NEW ts, NEW ms, NEW ts2, NEW ms2,
         Asking(f, r, ts, ms), DOMAIN ts \subseteq DOMAIN ts2,
         \A t \in DOMAIN ts : t \in LiveIn(ts2) =>
           /\ t \in LiveIn(ts) /\ Said(ms, t) \subseteq Said(ms2, t)
           /\ IsFiniteSet(Said(ms2, t))
  PROVE  Asking(f, r, ts2, ms2)
<1> SUFFICES ASSUME f # None PROVE Asking(f, r, ts2, ms2)
  BY DEF Asking
<1>1. CASE f.at = "opening"
  BY <1>1 DEF Asking
<1>2. CASE f.at # "opening" /\ f.thread \in LiveIn(ts2)
  <2> DEFINE old == Said(ms, f.thread)
             new == Said(ms2, f.thread)
  <2>1. /\ f.thread \in DOMAIN ts /\ f.thread \in LiveIn(ts)
        /\ old \subseteq new /\ IsFiniteSet(new)
    BY <1>2 DEF Asking
  <2>2. Cardinality(old) \in Nat /\ Cardinality(new) \in Nat
        /\ Cardinality(old) <= Cardinality(new)
    BY <2>1, FS_Subset, FS_CardinalityType
  <2>3. \A n : Asked(ms, f.thread, r, n) => Asked(ms2, f.thread, r, n)
    BY <2>1 DEF Asked
  <2> HIDE DEF old, new
  <2>4. f.at \in {"read", "numbered", "answering"} =>
          f.history \in Nat /\ f.history <= Cardinality(new)
    BY <2>1, <2>2 DEF Asking, old
  <2>5. f.at = "numbered" => f.seq \in Nat /\ f.seq <= Cardinality(new) + 1
    BY <2>1, <2>2 DEF Asking, old
  <2>6. /\ f.at \in {"numbered", "answering"} => f.seq \in Nat /\ f.history < f.seq
        /\ f.at = "answering" => Asked(ms2, f.thread, r, f.seq)
    BY <2>1, <2>3 DEF Asking
  <2>7. f.at \in {"opening", "asked", "read", "numbered", "answering"} /\ f.thread \in DOMAIN ts2
    BY <2>1 DEF Asking
  <2> QED
    BY <2>4, <2>5, <2>6, <2>7 DEF Asking, new
<1>3. CASE f.at # "opening" /\ f.thread \notin LiveIn(ts2)
  BY <1>3 DEF Asking
<1> QED
  BY <1>1, <1>2, <1>3

\* A step of one request that says nothing.
LEMMA OneAsks ==
  ASSUME ThreadInv, NEW r \in Asker, NEW f, asking' = [asking EXCEPT ![r] = f],
         UNCHANGED <<threads, messages>>, Asking(f, r, threads, messages)
  PROVE  ThreadInv'
BY DEF ThreadInv, ThreadsOk

\* A new thread.
LEMMA ThreadAdded ==
  ASSUME ThreadInv, NEW b \in BOOLEAN, threads' = Append(threads, NewThread(b)),
         UNCHANGED messages
  PROVE  /\ ThreadsOk(threads, messages)' /\ Len(threads') \in DOMAIN threads'
         /\ \A r \in Asker : Asking(asking[r], r, threads', messages')
<1>1. NewThread(b) \in [call : BOOLEAN, gone : BOOLEAN]
  BY DEF NewThread
<1>2. threads \in Seq([call : BOOLEAN, gone : BOOLEAN])
  BY DEF ThreadInv, ThreadsOk
<1>3. /\ threads' \in Seq([call : BOOLEAN, gone : BOOLEAN])
      /\ Len(threads') = Len(threads) + 1 /\ Len(threads) \in Nat
      /\ DOMAIN threads = 1 .. Len(threads) /\ DOMAIN threads' = 1 .. Len(threads')
      /\ \A t \in DOMAIN threads : threads'[t] = threads[t]
  BY <1>1, <1>2
<1>4. \A t \in DOMAIN threads : t \in DOMAIN threads' /\ (t \in LiveIn(threads') <=> t \in LiveIn(threads))
  BY <1>3 DEF LiveIn
<1>5. \A t \in LiveIn(threads') : t \in LiveIn(threads) \/ t = Len(threads) + 1
  BY <1>3, <1>4 DEF LiveIn
<1>6. Len(threads) + 1 \notin LiveIn(threads)
  BY <1>3 DEF LiveIn
<1>7. Said(messages, Len(threads) + 1) = {}
  BY <1>6 DEF ThreadInv, ThreadsOk, Said
<1>8. Numbered(messages, Len(threads) + 1)
  <2> DEFINE said == Said(messages, Len(threads) + 1)
  <2>1. Cardinality(said) = 0 /\ IsFiniteSet(said)
    BY <1>7, FS_EmptySet
  <2>2. {m.seq : m \in said} = {}
    BY <1>7
  <2>3. 1 .. 0 = {}
    OBVIOUS
  <2> QED
    BY <2>1, <2>2, <2>3 DEF Numbered
<1>9. \A t \in LiveIn(threads') : Numbered(messages, t)
  BY <1>5, <1>8 DEF ThreadInv, ThreadsOk
<1>10. \A m \in messages : m.thread \in LiveIn(threads')
  BY <1>4 DEF ThreadInv, ThreadsOk, LiveIn
<1>11. ASSUME NEW r \in Asker PROVE Asking(asking[r], r, threads', messages')
  <2>1. Asking(asking[r], r, threads, messages)
    BY DEF ThreadInv
  <2>2. \A t \in DOMAIN threads : t \in LiveIn(threads') =>
          t \in LiveIn(threads) /\ IsFiniteSet(Said(messages, t))
    BY <1>4, <1>9 DEF Numbered
  <2> QED
    BY <1>4, <2>1, <2>2, AskingKept
<1> QED
  BY <1>3, <1>9, <1>10, <1>11 DEF ThreadInv, ThreadsOk

LEMMA OpenThreadKeeps == ThreadInv /\ CreateThread => ThreadInv'
<1> SUFFICES ASSUME ThreadInv, CreateThread PROVE ThreadInv'
  OBVIOUS
<1> QED
  BY ThreadAdded DEF CreateThread, ThreadInv

LEMMA ElementOf == ASSUME NEW S, NEW s \in Seq(S), NEW i \in DOMAIN s PROVE s[i] \in S
OBVIOUS

LEMMA DropThreadKeeps == ASSUME ThreadInv, NEW t \in DOMAIN threads, DeleteThread(t) PROVE ThreadInv'
<1>1. /\ threads' = [threads EXCEPT ![t].gone = TRUE] /\ asking' = asking
      /\ messages' = messages \ Said(messages, t)
  BY ThreadNames DEF DeleteThread
<1>2. threads \in Seq([call : BOOLEAN, gone : BOOLEAN])
  BY DEF ThreadInv, ThreadsOk
<1>3. threads[t] \in [call : BOOLEAN, gone : BOOLEAN]
  BY <1>2, ElementOf
<1> DEFINE w == [threads[t] EXCEPT !.gone = TRUE]
<1>4. w \in [call : BOOLEAN, gone : BOOLEAN] /\ w.gone = TRUE
  BY <1>3
<1>5. threads' = [threads EXCEPT ![t] = w]
  BY <1>1
<1> HIDE DEF w
<1>6. /\ threads' \in Seq([call : BOOLEAN, gone : BOOLEAN]) /\ DOMAIN threads' = DOMAIN threads
      /\ threads'[t] = w /\ \A u \in DOMAIN threads : u # t => threads'[u] = threads[u]
  BY <1>2, <1>4, <1>5
<1>7. \A u : u \in LiveIn(threads') <=> u \in LiveIn(threads) /\ u # t
  BY <1>4, <1>6 DEF LiveIn
<1>8. \A u : u # t => Said(messages', u) = Said(messages, u)
  BY <1>1 DEF Said
<1>9. \A u \in LiveIn(threads') : Numbered(messages', u)
  BY <1>7, <1>8 DEF ThreadInv, ThreadsOk, Numbered
<1>10. \A m \in messages' : m \in messages /\ m.thread # t
  BY <1>1 DEF Said
<1>11. Answers(messages')
  BY <1>8, <1>10 DEF ThreadInv, ThreadsOk, Answers, Asked
<1>12. \A m \in messages' : m.thread \in LiveIn(threads')
  BY <1>7, <1>10 DEF ThreadInv, ThreadsOk
<1>13. ASSUME NEW r \in Asker PROVE Asking(asking[r], r, threads', messages')
  <2>1. Asking(asking[r], r, threads, messages)
    BY DEF ThreadInv
  <2>2. \A u \in DOMAIN threads : u \in LiveIn(threads') =>
          /\ u \in LiveIn(threads) /\ Said(messages, u) \subseteq Said(messages', u)
          /\ IsFiniteSet(Said(messages', u))
    BY <1>7, <1>8, <1>9 DEF Numbered
  <2> QED
    BY <1>6, <2>1, <2>2, AskingKept
<1> QED
  BY <1>1, <1>6, <1>9, <1>11, <1>12, <1>13 DEF ThreadInv, ThreadsOk

\* One more message, with the next number.
LEMMA MessageAdded ==
  ASSUME ThreadInv, NEW m, m.thread \in LiveIn(threads),
         m.seq = Cardinality(Said(messages, m.thread)) + 1,
         messages' = messages \cup {m}, UNCHANGED threads,
         m.role = "assistant" =>
           Asked(messages, m.thread, m.by, m.seq - 1) /\ m.history < m.seq - 1
  PROVE  /\ ThreadsOk(threads, messages)'
         /\ \A r \in Asker : Asking(asking[r], r, threads', messages')
<1> DEFINE t == m.thread
           old == Said(messages, t)
           new == Said(messages', t)
<1>1. IsFiniteSet(old) /\ Cardinality(old) \in Nat /\ {q.seq : q \in old} = 1 .. Cardinality(old)
  BY FS_CardinalityType DEF ThreadInv, ThreadsOk, Numbered
<1>2. m \notin old
  <2>1. \A q \in old : q.seq \in 1 .. Cardinality(old)
    BY <1>1
  <2>2. m.seq \notin 1 .. Cardinality(old)
    BY <1>1
  <2> QED
    BY <2>1, <2>2
<1>3. new = old \cup {m}
  BY DEF Said
<1>4. m.seq = Cardinality(old) + 1
  OBVIOUS
<1> HIDE DEF old, new
<1>5. IsFiniteSet(new) /\ Cardinality(new) = Cardinality(old) + 1
  BY <1>1, <1>2, <1>3, FS_AddElement
<1>6. {q.seq : q \in new} = {q.seq : q \in old} \cup {m.seq}
  BY <1>3
<1>7. {q.seq : q \in new} = 1 .. Cardinality(new)
  BY <1>1, <1>5, <1>6, <1>4
<1>8. \A u : u # t => Said(messages', u) = Said(messages, u)
  BY DEF Said
<1>9. \A u \in LiveIn(threads') : Numbered(messages', u)
  BY <1>5, <1>7, <1>8 DEF ThreadInv, ThreadsOk, Numbered, new
<1>10. \A u : Said(messages, u) \subseteq Said(messages', u)
  BY DEF Said
<1>11. Answers(messages')
  BY <1>10 DEF ThreadInv, ThreadsOk, Answers, Asked
<1>12. ASSUME NEW r \in Asker PROVE Asking(asking[r], r, threads', messages')
  <2>1. Asking(asking[r], r, threads, messages)
    BY DEF ThreadInv
  <2>2. \A u \in LiveIn(threads') : IsFiniteSet(Said(messages', u))
    BY <1>9 DEF Numbered
  <2> QED
    BY <1>10, <2>1, <2>2, AskingKept
<1> QED
  BY <1>9, <1>11, <1>12 DEF ThreadInv, ThreadsOk

LEMMA OpenKeeps ==
  ASSUME ThreadInv, NEW r \in Asker, OpenCallThread(r) \/ CallThreadOpened(r) PROVE ThreadInv'
<1>1. CASE OpenCallThread(r)
  <2> DEFINE t == IF CallThreads = {} THEN None ELSE CHOOSE u \in CallThreads : TRUE
             f == [at |-> "opening", thread |-> t]
  <2>1. t \in DOMAIN threads \/ t = None
    BY DEF CallThreads, LiveThreads
  <2>2. asking' = [asking EXCEPT ![r] = f] /\ UNCHANGED <<threads, messages>>
    BY <1>1 DEF OpenCallThread
  <2> HIDE DEF t
  <2>3. Asking(f, r, threads, messages)
    BY <2>1 DEF Asking
  <2> QED
    BY <2>2, <2>3, OneAsks
<1>2. CASE CallThreadOpened(r) /\ asking[r].thread # None
  <2> DEFINE f == [at |-> "asked", thread |-> asking[r].thread, call |-> TRUE]
  <2>1. asking' = [asking EXCEPT ![r] = f] /\ UNCHANGED <<threads, messages>>
    BY <1>2 DEF CallThreadOpened
  <2>2. asking[r].thread \in DOMAIN threads
    BY <1>2 DEF CallThreadOpened, ThreadInv, Asking
  <2>3. Asking(f, r, threads, messages)
    BY <2>2 DEF Asking
  <2> QED
    BY <2>1, <2>3, OneAsks
<1>3. CASE CallThreadOpened(r) /\ asking[r].thread = None
  <2> DEFINE f == [at |-> "asked", thread |-> Len(threads'), call |-> TRUE]
  <2>1. /\ threads' = Append(threads, NewThread(TRUE)) /\ UNCHANGED messages
        /\ asking' = [asking EXCEPT ![r] = f]
    BY <1>3 DEF CallThreadOpened
  <2>2. /\ ThreadsOk(threads, messages)' /\ Len(threads') \in DOMAIN threads'
        /\ \A s \in Asker : Asking(asking[s], s, threads', messages')
    BY <2>1, ThreadAdded
  <2>3. Asking(f, r, threads', messages')
    BY <2>2 DEF Asking
  <2> HIDE DEF f
  <2> QED
    BY <2>1, <2>2, <2>3 DEF ThreadInv
<1> QED
  BY <1>1, <1>2, <1>3

\* A request in a thread that lives.
LEMMA InThread ==
  ASSUME ThreadInv, NEW r \in Asker, asking[r] # None, asking[r].at # "opening"
  PROVE  /\ asking[r].thread \in DOMAIN threads
         /\ asking[r].thread \in LiveIn(threads) =>
              /\ Numbered(messages, asking[r].thread)
              /\ Cardinality(Said(messages, asking[r].thread)) \in Nat
BY FS_CardinalityType DEF ThreadInv, ThreadsOk, Asking, Numbered

LEMMA ReadsKeep ==
  ASSUME ThreadInv, NEW r \in Asker, ReadHistory(r) \/ ReadSeq(r) PROVE ThreadInv'
<1> DEFINE t == asking[r].thread
           n == Cardinality(Said(messages, t))
<1>1. asking[r] # None /\ asking[r].at # "opening"
  BY DEF ReadHistory, ReadSeq
<1>2. t \in DOMAIN threads /\ (t \in LiveIn(threads) => Numbered(messages, t) /\ n \in Nat)
  BY <1>1, InThread
<1>3. CASE ReadHistory(r)
  <2> DEFINE f == [at |-> "read", thread |-> t, call |-> asking[r].call, history |-> n]
  <2>1. asking' = [asking EXCEPT ![r] = f] /\ UNCHANGED <<threads, messages>>
    BY <1>3, ThreadNames DEF ReadHistory
  <2>2. /\ f # None => f.at = "read" /\ f.thread = t /\ f.history = n
    OBVIOUS
  <2> HIDE DEF f
  <2>3. Asking(f, r, threads, messages)
    BY <1>2, <2>2 DEF Asking
  <2> QED
    BY <2>1, <2>3, OneAsks
<1>4. CASE ReadSeq(r)
  <2> DEFINE f == [at |-> "numbered", thread |-> t, call |-> asking[r].call,
                   history |-> asking[r].history, seq |-> NextSeq(t)]
  <2>1. asking' = [asking EXCEPT ![r] = f] /\ UNCHANGED <<threads, messages>>
    BY <1>4 DEF ReadSeq
  <2>2. f.at = "numbered" /\ f.thread = t /\ f.history = asking[r].history /\ f.seq = NextSeq(t)
    OBVIOUS
  <2> HIDE DEF f
  <2>3. t \in LiveIn(threads) =>
          NextSeq(t) = n + 1 /\ asking[r].history \in Nat /\ asking[r].history <= n
    BY <1>2, <1>4, NextIs DEF ReadSeq, ThreadInv, Asking
  <2>4. Asking(f, r, threads, messages)
    BY <1>2, <2>2, <2>3 DEF Asking
  <2> QED
    BY <2>1, <2>4, OneAsks
<1> QED
  BY <1>3, <1>4

LEMMA QuestionKeeps == ASSUME ThreadInv, NEW r \in Asker, CommitQuestion(r) PROVE ThreadInv'
<1> DEFINE g == asking[r]
           t == g.thread
           n == Cardinality(Said(messages, t))
           m == QuestionMessage(r)
           f == [at |-> "answering", thread |-> t, call |-> g.call, seq |-> g.seq,
                 history |-> g.history, rounds |-> 0]
<1>1. g # None /\ g.at = "numbered" /\ UNCHANGED threads
  BY DEF CommitQuestion
<1>2. CASE Accepted(t, g.seq)
  <2>1. messages' = messages \cup {m} /\ asking' = [asking EXCEPT ![r] = f]
    BY <1>2 DEF CommitQuestion
  <2>2. t \in LiveIn(threads) /\ \A q \in Said(messages, t) : q.seq # g.seq
    BY <1>2, ThreadNames DEF Accepted
  <2>3. n \in Nat /\ {q.seq : q \in Said(messages, t)} = 1 .. n
    BY <1>1, <2>2, InThread DEF Numbered
  <2>4. /\ g.history \in Nat /\ g.history <= n
        /\ g.seq \in Nat /\ g.history < g.seq /\ g.seq <= n + 1
    BY <1>1, <2>2 DEF ThreadInv, Asking
  <2>5. g.seq = n + 1
    BY <2>2, <2>3, <2>4
  <2>6. m.thread = t /\ m.seq = g.seq /\ m.by = r /\ m.role = "user"
    BY DEF QuestionMessage
  <2>7. f.at = "answering" /\ f.thread = t /\ f.seq = g.seq /\ f.history = g.history
    OBVIOUS
  <2> HIDE DEF m, f
  <2>8. /\ ThreadsOk(threads, messages)'
        /\ \A s \in Asker : Asking(asking[s], s, threads', messages')
    BY <1>1, <2>1, <2>2, <2>5, <2>6, MessageAdded
  <2>9. m \in Said(messages', t)
    BY <2>1, <2>6 DEF Said
  <2>10. Asked(messages', t, r, g.seq)
    BY <2>6, <2>9 DEF Asked
  <2>11. f.history \in Nat /\ f.history <= Cardinality(Said(messages', t))
    <3>1. Asking(asking[r], r, threads', messages')
      BY <2>8
    <3> QED
      BY <1>1, <2>2, <2>7, <3>1 DEF Asking
  <2>12. Asking(f, r, threads', messages')
    BY <1>1, <2>2, <2>4, <2>7, <2>10, <2>11 DEF Asking, LiveIn
  <2> QED
    BY <2>1, <2>8, <2>12 DEF ThreadInv
<1>3. CASE ~Accepted(t, g.seq)
  <2>1. asking' = [asking EXCEPT ![r] = None] /\ UNCHANGED <<threads, messages>>
    BY <1>3 DEF CommitQuestion
  <2> QED
    BY <2>1, OneAsks DEF Asking
<1> QED
  BY <1>2, <1>3

LEMMA AnswerKeepsThreads == ASSUME ThreadInv, NEW r \in Asker, CommitAnswer(r) PROVE ThreadInv'
<1> DEFINE g == asking[r]
           t == g.thread
           n == Cardinality(Said(messages, t))
           m == AnswerMessage(r)
<1>1. /\ g # None /\ g.at = "answering" /\ asking' = [asking EXCEPT ![r] = None]
      /\ UNCHANGED threads
  BY DEF CommitAnswer, Answering
<1>2. CASE Accepted(t, AnswerSeq(r))
  <2>1. messages' = messages \cup {m}
    BY <1>2 DEF CommitAnswer
  <2>2. t \in LiveIn(threads) /\ \A q \in Said(messages, t) : q.seq # g.seq + 1
    BY <1>2, ThreadNames DEF Accepted, AnswerSeq
  <2>3. n \in Nat /\ {q.seq : q \in Said(messages, t)} = 1 .. n
    BY <1>1, <2>2, InThread DEF Numbered
  <2>4. g.history \in Nat /\ g.seq \in Nat /\ g.history < g.seq /\ Asked(messages, t, r, g.seq)
    BY <1>1, <2>2 DEF ThreadInv, Asking
  <2>5. g.seq \in 1 .. n
    <3>1. PICK q \in Said(messages, t) : q.seq = g.seq
      BY <2>4 DEF Asked
    <3> QED
      BY <2>3, <3>1
  <2>6. g.seq + 1 = n + 1
    <3>1. g.seq + 1 \notin {q.seq : q \in Said(messages, t)}
      BY <2>2
    <3> HIDE DEF n
    <3>2. g.seq + 1 \notin 1 .. n
      BY <2>3, <3>1
    <3> QED
      BY <2>3, <2>4, <2>5, <3>2
  <2>7. /\ m.thread = t /\ m.seq = g.seq + 1 /\ m.by = r /\ m.history = g.history
    BY DEF AnswerMessage, AnswerSeq
  <2> HIDE DEF m
  <2>8. m.seq - 1 = g.seq
    BY <2>4, <2>7
  <2>9. /\ ThreadsOk(threads, messages)'
        /\ \A s \in Asker : Asking(asking[s], s, threads', messages')
    BY <1>1, <2>1, <2>2, <2>4, <2>6, <2>7, <2>8, MessageAdded
  <2> QED
    BY <1>1, <2>9 DEF ThreadInv, Asking
<1>3. CASE ~Accepted(t, AnswerSeq(r))
  <2>1. UNCHANGED <<threads, messages>>
    BY <1>3 DEF CommitAnswer
  <2> QED
    BY <1>1, <2>1, OneAsks DEF Asking
<1> QED
  BY <1>2, <1>3

LEMMA ThreadStep == ThreadInv /\ [ThreadNext]_threadVars => ThreadInv'
<1> SUFFICES ASSUME ThreadInv, [ThreadNext]_threadVars PROVE ThreadInv'
  OBVIOUS
<1>1. ASSUME NEW r \in Asker, NEW t \in DOMAIN threads, AskInThread(r, t) PROVE ThreadInv'
  <2> DEFINE f == [at |-> "asked", thread |-> t, call |-> FALSE]
  <2>1. asking' = [asking EXCEPT ![r] = f] /\ UNCHANGED <<threads, messages>>
    BY <1>1 DEF AskInThread
  <2>2. Asking(f, r, threads, messages)
    BY DEF Asking
  <2> QED
    BY <2>1, <2>2, OneAsks
<1>2. ASSUME NEW r \in Asker, ToolRound(r) PROVE ThreadInv'
  <2> DEFINE g == asking[r]
             f == [g EXCEPT !.rounds = @ + 1]
  <2>1. g # None /\ g.at = "answering" /\ UNCHANGED <<threads, messages>>
    BY <1>2 DEF ToolRound, Answering
  <2>2. asking' = [asking EXCEPT ![r] = f]
    BY <1>2 DEF ToolRound
  <2>3. f.at = g.at /\ f.thread = g.thread /\ f.history = g.history /\ f.seq = g.seq
    OBVIOUS
  <2> HIDE DEF f
  <2>4. Asking(f, r, threads, messages)
    BY <2>1, <2>3 DEF ThreadInv, Asking
  <2> QED
    BY <2>1, <2>2, <2>4, OneAsks
<1>3. ASSUME NEW r \in Asker, CloseStream(r) PROVE ThreadInv'
  BY <1>3, OneAsks DEF CloseStream, Asking
<1>4. CASE UNCHANGED threadVars
  BY <1>4 DEF threadVars, ThreadInv, ThreadsOk
<1> QED
  BY <1>1, <1>2, <1>3, <1>4, OpenThreadKeeps, DropThreadKeeps, OpenKeeps, ReadsKeep, QuestionKeeps,
     AnswerKeepsThreads DEF ThreadNext

\* api/chat.py _run, api/call_chat.py: with nothing but the unique number between them,
\* questions asked at once in one thread get no number twice, and each answer stands right
\* behind its own question, for any number of requests, threads and messages.
THEOREM AnswersStandBehind == ThreadSpec => []AnswersItsQuestion
<1>1. ThreadSpec => []ThreadInv
  BY ThreadStart, ThreadStep, PTL DEF ThreadSpec
<1>2. ThreadInv => AnswersItsQuestion
  <2> SUFFICES ASSUME ThreadInv PROVE AnswersItsQuestion
    OBVIOUS
  <2>1. \A t \in LiveThreads : {m.seq : m \in History(t)} = 1 .. Cardinality(History(t))
    BY ThreadNames DEF ThreadInv, ThreadsOk, Numbered
  <2>2. \A m \in messages : m.role = "assistant" =>
          /\ \E q \in History(m.thread) : q.role = "user" /\ q.by = m.by /\ q.seq = m.seq - 1
          /\ m.history < m.seq - 1
    BY ThreadNames DEF ThreadInv, ThreadsOk, Answers, Asked
  <2> QED
    BY <2>1, <2>2 DEF AnswersItsQuestion
<1> QED
  BY <1>1, <1>2, PTL
=============================================================================
