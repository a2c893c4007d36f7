------------------------------ MODULE Boards ------------------------------
(***************************************************************************)
(* The live boards (api/boards.py): a stream reads a cursor of the scoped  *)
(* calls, sends a snapshot, and each time a later cursor differs another.  *)
(* Writers stamp a row when they change it and commit some time after; an  *)
(* analysis, a reconciliation and a failure rewrite a row and stamp none   *)
(* of what a cursor looks at.  A cursor reads the calls and then the       *)
(* judgments; a snapshot takes the time, reads the calls, the judgments,   *)
(* the turns and the tool spans, each statement seeing what is committed   *)
(* by then.                                                                *)
(***************************************************************************)
EXTENDS Integers, FiniteSets, FiniteSetsExt, NoValue

CONSTANTS
  BoardCall,   \* ids of calls
  Committer,   \* transactions that write at once
  Window,      \* length of the window of a board
  BucketS,     \* length of a bucket
  StartAt,     \* starts of calls, by the clocks of their producers
  MaxStamps    \* moments (bound)

ASSUME BoardAssumption ==
  /\ Window \in Nat /\ BucketS \in Nat \ {0} /\ MaxStamps \in Nat \ {0}
  /\ StartAt \subseteq Nat \ {0}

VARIABLES
  stamp,       \* the time
  calls,       \* what is committed: the stamps of each call, and its start or 0
  committing,  \* the change each writer has stamped and not committed, or None
  stream       \* where a stream is, the cursor and the rows it has read

boardVars == <<stamp, calls, committing, stream>>

(* Of a call the stamps the cursor looks at.  Of its other columns on the   *)
(* board (costs, status, turns, spans) the start, which says where a call   *)
(* is shown, stands for all.                                                *)
Field == {"created", "activity", "judged"}

NoRows == [c \in {} |-> None]

Closed == [at |-> "closed", cur |-> <<>>, new |-> <<>>, until |-> 0,
           rows |-> NoRows, judged |-> NoRows, last |-> NoRows]

BoardInit ==
  /\ stamp = 1 /\ calls = NoRows /\ committing = [w \in Committer |-> None]
  /\ stream = Closed

-----------------------------------------------------------------------------
(* A transaction that inserts a call, touches or judges it, or erases it.   *)
(* A stamp is the moment it is taken, and no two are the same.              *)
Stamp(w, c, field) ==
  /\ committing[w] = None /\ stamp < MaxStamps /\ stamp' = stamp + 1
  /\ (field = "created") = (c \notin DOMAIN calls)
  /\ committing' = [committing EXCEPT ![w] = [call |-> c, field |-> field, stamp |-> stamp]]
  /\ UNCHANGED <<calls, stream>>

WithStamp(c, f) ==
  [d \in DOMAIN calls \cup {c} |->
     IF d # c THEN calls[d]
     ELSE IF f.field = "created"
          THEN [created |-> f.stamp, activity |-> f.stamp, judged |-> 0, started |-> 0]
     ELSE [calls[c] EXCEPT ![f.field] = f.stamp]]

(* An insert of an id that is there by now, and a change of a call that is  *)
(* gone, are rolled back.                                                   *)
Applies(f) == (f.field = "created") = (f.call \notin DOMAIN calls)

CommitStamp(w) ==
  /\ committing[w] # None /\ committing' = [committing EXCEPT ![w] = None]
  /\ IF Applies(committing[w]) THEN calls' = WithStamp(committing[w].call, committing[w])
     ELSE UNCHANGED calls
  /\ UNCHANGED <<stamp, stream>>

(* A transaction that analyses a call again (flush_due), attaches a recording *)
(* to it (reconcile) or fails it (_fail): what the board shows of it changes, *)
(* and none of its stamps.  An analysis puts the start it found, or none.  (A *)
(* batch or a backfilled file stamps and analyses in one transaction: the two *)
(* commits one after the other.)                                              *)
Rewrite(c, start) ==
  /\ c \in DOMAIN calls /\ calls' = [calls EXCEPT ![c].started = start]
  /\ UNCHANGED <<stamp, committing, stream>>

EraseCall(c) ==
  /\ c \in DOMAIN calls /\ calls' = [d \in DOMAIN calls \ {c} |-> calls[d]]
  /\ UNCHANGED <<stamp, committing, stream>>

-----------------------------------------------------------------------------
(* _cursor: the number of calls and the newest stamps of theirs; then the   *)
(* newest judgment.                                                         *)
Latest(f) == Max({0} \cup {calls[c][f] : c \in DOMAIN calls})

CursorOfCalls ==
  [count |-> Cardinality(DOMAIN calls), activity |-> Latest("activity"),
   created |-> Latest("created"), judged |-> 0]

\* Mutant: judgments do not move the cursor.
WithoutJudged(cursor) == cursor

WithJudged(cursor) == [cursor EXCEPT !.judged = Latest("judged")]

(* _stream: the cursor first, and build_snapshot when it is another.        *)
Look ==
  /\ stream.at \in {"closed", "idle"}
  /\ stream' = [stream EXCEPT !.at = "cursor", !.new = CursorOfCalls, !.last = NoRows]
  /\ UNCHANGED <<stamp, calls, committing>>

LookAtJudged ==
  /\ stream.at = "cursor"
  /\ LET new == WithJudged(stream.new) IN
     stream' = IF new = stream.cur THEN [stream EXCEPT !.at = "idle"]
               ELSE [stream EXCEPT !.at = "calls", !.cur = new, !.until = stamp]
  /\ UNCHANGED <<stamp, calls, committing>>

SnapCalls ==
  /\ stream.at = "calls"
  /\ stream' = [stream EXCEPT !.at = "judgments", !.rows = calls]
  /\ UNCHANGED <<stamp, calls, committing>>

JudgedCalls == [c \in {d \in DOMAIN calls : calls[d].judged > 0} |-> calls[c]]

SnapJudgments ==
  /\ stream.at = "judgments"
  /\ stream' = [stream EXCEPT !.at = "turns", !.judged = JudgedCalls]
  /\ UNCHANGED <<stamp, calls, committing>>

(* Then the turns that have a latency, and the tool spans, with the time of *)
(* their call; of every call, as those of some would only be fewer.  Each   *)
(* is counted as it is read, so only the last is kept, until the next look. *)
SnapTurns ==
  /\ stream.at = "turns"
  /\ stream' = [stream EXCEPT !.at = "tools", !.last = calls]
  /\ UNCHANGED <<stamp, calls, committing>>

SnapTools ==
  /\ stream.at = "tools"
  /\ stream' = [stream EXCEPT !.at = "idle", !.last = calls]
  /\ UNCHANGED <<stamp, calls, committing>>

CloseBoard ==
  /\ stream.at # "closed" /\ stream' = Closed
  /\ UNCHANGED <<stamp, calls, committing>>

BoardNext ==
  \/ Look \/ LookAtJudged \/ SnapCalls \/ SnapJudgments \/ SnapTurns \/ SnapTools \/ CloseBoard
  \/ \E w \in Committer : CommitStamp(w)
  \/ \E w \in Committer, c \in BoardCall, field \in Field : Stamp(w, c, field)
  \/ \E c \in BoardCall, start \in StartAt \cup {0} : Rewrite(c, start)
  \/ \E c \in BoardCall : EraseCall(c)

BoardSpec == BoardInit /\ [][BoardNext]_boardVars

-----------------------------------------------------------------------------
(* build_snapshot: the buckets of a window, and what of some rows falls in  *)
(* each.  A row from beyond the last bucket is in none.                     *)
KeyOf(t) == (t \div BucketS) * BucketS

Since(until) == IF until > Window THEN until - Window ELSE 0

(* range(start, end + bucket_s, bucket_s)                                   *)
BucketKeys(until) ==
  LET start == KeyOf(Since(until))
  IN  {k \in start .. until + BucketS - 1 : (k - start) % BucketS = 0}

\* _call_time: the start of a call when there is one.
CallTime(row) == IF row.started # 0 THEN row.started ELSE row.created

InWindow(rows, until) == {c \in DOMAIN rows : CallTime(rows[c]) >= Since(until)}

Bar(rows, until, k) == {c \in InWindow(rows, until) : KeyOf(CallTime(rows[c])) = k}

InBars(rows, until) == UNION {Bar(rows, until, k) : k \in BucketKeys(until)}

(* The mix of dispositions counts a judgment before its bucket is looked up. *)
Dispositions == InWindow(stream.judged, stream.until)

-----------------------------------------------------------------------------
(* Every call from between the ends of the window is in a bar, and no call  *)
(* is in two.                                                               *)
Charted(rows) ==
  /\ {c \in InWindow(rows, stream.until) : CallTime(rows[c]) <= stream.until}
       \subseteq InBars(rows, stream.until)
  /\ \A k, l \in BucketKeys(stream.until) :
       k # l => Bar(rows, stream.until, k) \cap Bar(rows, stream.until, l) = {}

(* _stream, build_snapshot (api/boards.py): a board at rest, whose next      *)
(* poll would find nothing, shows each call with the newest stamp of a kind *)
(* as stamped, so whatever was ingested or judged last is on the screen (a  *)
(* change without a stamp may not be, see UpdateIsShown).  And its series   *)
(* cover its window: every call, and every judgment, turn and tool span of  *)
(* a call, from between its ends is in one bar, and the mix of dispositions *)
(* misses none of the judgments in the bars, wherever the window cuts a     *)
(* bucket and whatever is committed between the statements.                 *)
BoardIsLatest ==
  /\ stream.at \in {"tools", "idle"} => Charted(stream.last)
  /\ stream.at = "idle" =>
      /\ stream.cur = WithJudged(CursorOfCalls) =>
           \A f \in Field : \A c \in DOMAIN calls :
             LET shown == IF f = "judged" THEN stream.judged ELSE stream.rows
             IN  calls[c][f] = Latest(f) /\ Latest(f) > 0 =>
                   c \in DOMAIN shown /\ shown[c][f] = calls[c][f]
      /\ Charted(stream.rows) /\ Charted(stream.judged)
      /\ InBars(stream.judged, stream.until) \subseteq Dispositions

(* _cursor (boards.py:220): "changes when a call is added/updated or         *)
(* judged", so that a board at rest, whose next poll would find nothing,     *)
(* shows each call as it is.  Rewrite moves no cursor: TLC finds this        *)
(* violated, and BoardIsLatest is what holds.                                *)
UpdateIsShown ==
  stream.at = "idle" /\ stream.cur = WithJudged(CursorOfCalls) =>
    \A c \in DOMAIN calls : c \in DOMAIN stream.rows /\ stream.rows[c] = calls[c]
=============================================================================
