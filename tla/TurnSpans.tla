----------------------------- MODULE TurnSpans -----------------------------
(***************************************************************************)
(* _turn_spans and order_key (core/calculator.py): one TURN span is kept   *)
(* per exchange while the spans of the trace are scanned in whatever order *)
(* they are stored.                                                        *)
(***************************************************************************)
EXTENDS Integers, NoValue

CONSTANTS
  TurnSpan,   \* ids of the spans of stage TURN
  Exchange,   \* turn ids
  MaxKey      \* clock values and sequence numbers are 1 .. MaxKey (bound)

VARIABLES
  turnId,     \* turn_id of each span, or None
  orderKey,   \* its order key
  callerSide, \* ids that parent an STT or SPEECH span
  scanned,    \* spans the loop has seen
  best        \* the loop's dict: exchange -> span

spanVars == <<turnId, orderKey, callerSide, scanned, best>>

\* A clock when the span has one, else its sequence, else last of all.
Infinite == MaxKey + 1
OrderKeys == ({0} \X (1 .. MaxKey)) \cup ({1} \X (1 .. Infinite))
Before(a, b) == a[1] < b[1] \/ (a[1] = b[1] /\ a[2] < b[2])

Key(s) == IF turnId[s] = None THEN s ELSE turnId[s]

TurnSpanInit ==
  /\ turnId \in [TurnSpan -> Exchange \cup {None}]
  /\ orderKey \in [TurnSpan -> OrderKeys]
  /\ callerSide \in SUBSET TurnSpan
  /\ scanned = {} /\ best = <<>>

\* Mutant: an earlier span replaces one of the caller's side.
ReplacesEarlier(s, old) ==
  \/ s \in callerSide /\ old \notin callerSide
  \/ Before(orderKey[s], orderKey[old])

Replaces(s, old) ==
  \/ s \in callerSide /\ old \notin callerSide
  \/ (s \in callerSide <=> old \in callerSide) /\ Before(orderKey[s], orderKey[old])

Scan(s) ==
  /\ s \notin scanned
  /\ scanned' = scanned \cup {s}
  /\ best' = IF Key(s) \notin DOMAIN best \/ Replaces(s, best[Key(s)])
             THEN [k \in DOMAIN best \cup {Key(s)} |-> IF k = Key(s) THEN s ELSE best[k]]
             ELSE best
  /\ UNCHANGED <<turnId, orderKey, callerSide>>

TurnSpanNext == \E s \in TurnSpan : Scan(s)

TurnSpanSpec == TurnSpanInit /\ [][TurnSpanNext]_spanVars

-----------------------------------------------------------------------------
\* _turn_spans: whatever the order of the scan, each exchange is anchored on one
\* of its own spans: on the caller's side if it has one there, and then on the
\* first in call order.
OneAnchorPerExchange ==
  /\ DOMAIN best = {Key(s) : s \in scanned}
  /\ \A k \in DOMAIN best :
       /\ best[k] \in scanned /\ Key(best[k]) = k
       /\ \A s \in {t \in scanned : Key(t) = k} :
            /\ s \in callerSide => best[k] \in callerSide
            /\ (s \in callerSide <=> best[k] \in callerSide) =>
                 ~Before(orderKey[s], orderKey[best[k]])
=============================================================================
