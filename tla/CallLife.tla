------------------------------ MODULE CallLife ------------------------------
(***************************************************************************)
(* What the pipeline promises about a call, without consumers, offsets,    *)
(* transactions, retries and sweeps: a batch is collected once, the root   *)
(* closes the spans, an analysis made as a batch comes in is of everything *)
(* collected, one made by a sweep of batches collected by then, the root   *)
(* among them (a batch that came in while the sweep was at work may be     *)
(* missing), only analysed calls go to the judge, and an erased call is    *)
(* empty and stays so.  CallPipeline implements it: see Life there.        *)
(***************************************************************************)
EXTENDS Naturals

CONSTANTS CallPk, CallId, Record, RootRecord, None

VARIABLES
  phase,    \* of each call: "none", "open", "complete", "unsupported", "erased"
  name,     \* the id it bears, or None
  buffer,   \* how often each call (None: unattributed) holds each batch
  covers,   \* the batches its analysis was made of, {} before
  asked     \* the ids the judge was asked about

vars == <<phase, name, buffer, covers, asked>>

Init ==
  /\ phase = [k \in CallPk |-> "none"] /\ name = [k \in CallPk |-> None]
  /\ buffer = [k \in CallPk \cup {None} |-> [r \in Record |-> 0]]
  /\ covers = [k \in CallPk |-> {}] /\ asked = {}

Holds(b, k) == {r \in Record : b[k][r] > 0}

-----------------------------------------------------------------------------
\* Collected by k, unless another call, or nobody's buffer, has it: a batch k
\* holds already was delivered again.
Enters(k, r) ==
  \/ buffer[k][r] = 1 /\ UNCHANGED buffer
  \/ /\ \A j \in CallPk \cup {None} : buffer[j][r] = 0
     /\ buffer' = [buffer EXCEPT ![k][r] = 1]

\* The calls of K are analysed, call k on the batches S[k].
Analysed(K, S) ==
  /\ \A k \in K : S[k] \subseteq Holds(buffer', k) /\ S[k] \cap RootRecord # {}
  /\ covers' = [k \in CallPk |-> IF k \in K THEN S[k] ELSE covers[k]]

\* A batch comes in for the call named i; if its spans are complete it may be
\* analysed at once.
Collect(k, i, r) ==
  LET open == phase[k] \in {"none", "open"}
      now == IF ~open THEN phase[k] ELSE IF r \in RootRecord THEN "complete" ELSE "open"
  IN
  /\ phase[k] # "erased" /\ Enters(k, r) /\ name' = [name EXCEPT ![k] = i]
  /\ \/ phase' = [phase EXCEPT ![k] = now] /\ UNCHANGED covers
     \/ /\ now = "complete"
        /\ \E u \in SUBSET {k} :
             /\ Analysed({k} \ u, [j \in {k} |-> Holds(buffer', j)])
             /\ phase' = [phase EXCEPT ![k] = IF k \in u THEN "unsupported" ELSE now]
  /\ UNCHANGED asked

CollectUnattributed(r) == Enters(None, r) /\ UNCHANGED <<phase, name, covers, asked>>

\* A sweep analyses some calls whose spans are complete, or finds them (u)
\* unsupported, on batches they hold.
Analyse(K) ==
  /\ \A k \in K : phase[k] \in {"complete", "unsupported"}
  /\ UNCHANGED buffer
  /\ \E u \in SUBSET K : \E S \in [K \ u -> SUBSET Record] :
       /\ Analysed(K \ u, S)
       /\ phase' = [k \in CallPk |-> IF k \in u THEN "unsupported" ELSE phase[k]]
  /\ UNCHANGED <<name, asked>>

\* A recording that comes in lets an unsupported call be tried again.
Retry(k) ==
  /\ phase[k] = "unsupported" /\ phase' = [phase EXCEPT ![k] = "complete"]
  /\ UNCHANGED <<name, buffer, covers, asked>>

\* The judge is asked only about calls that are analysed, or were when erased.
Ask(I) ==
  /\ \A i \in I : \E k \in CallPk : name[k] = i /\ covers[k] # {}
  /\ asked' = asked \cup I
  /\ UNCHANGED <<phase, name, buffer, covers>>

Erase(k) ==
  /\ phase[k] \notin {"none", "erased"} /\ phase' = [phase EXCEPT ![k] = "erased"]
  /\ buffer' = [buffer EXCEPT ![k] = [r \in Record |-> 0]]
  /\ UNCHANGED <<name, covers, asked>>

Next ==
  \/ \E k \in CallPk :
       \/ \E i \in CallId, r \in Record : Collect(k, i, r)
       \/ Retry(k) \/ Erase(k)
  \/ \E r \in Record : CollectUnattributed(r)
  \/ \E K \in SUBSET CallPk : Analyse(K)
  \/ \E I \in SUBSET CallId : Ask(I)

Spec == Init /\ [][Next]_vars
=============================================================================
