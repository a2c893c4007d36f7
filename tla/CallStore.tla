----------------------------- MODULE CallStore -----------------------------
(***************************************************************************)
(* The tables of one organisation schema that ingestion and analysis share *)
(* (db/models.py) and the reads and writes that ingestion.py and           *)
(* worker/process.py do on them.  Postgres runs READ COMMITTED: every      *)
(* SELECT sees what was committed when it ran, and the rows a transaction  *)
(* writes are locked from its first flush to its commit.  A client of this *)
(* module therefore takes its reads and its flush-to-commit as separate    *)
(* steps; the operators here say what each of them sees and leaves behind. *)
(*                                                                         *)
(* A span batch is abstracted to its record on the raw-spans topic: which  *)
(* trace it belongs to, which call id the producer wrote on it (if any),   *)
(* whether it holds the root span, and whether it can be decoded,          *)
(* assembled and mapped.                                                   *)
(***************************************************************************)
EXTENDS Naturals, FiniteSets

CONSTANTS
  Record,      \* records of the raw-spans topic
  CallPk,      \* primary keys a Call insert can draw (never reused)
  CallId,      \* external call ids: producer call ids and trace ids
  None,        \* SQL NULL / Python None
  TraceOf,     \* trace id of a record, or None
  HintOf,      \* call id the producer wrote on the resource or on a span, or None
  RootRecord,  \* records that hold a span without parent
  Breaks,      \* records whose presence makes process() raise
  Unsupported  \* records whose presence makes process() raise UnsupportedSchema

ASSUME RecordAssumption ==
  /\ None \notin CallPk \cup CallId \cup Record
  /\ TraceOf \in [Record -> CallId \cup {None}]
  /\ HintOf \in [Record -> CallId \cup {None}]
  /\ RootRecord \subseteq Record
  /\ Breaks \subseteq Record
  /\ Unsupported \subseteq Record

VARIABLES
  calls,       \* the call table, by primary key
  frags,       \* how many raw_fragment rows hold a record, by call_id (None = unattributed)
  tombstones,  \* ids of erased calls
  older        \* last_activity_at, as the order it puts on the rows

dbVars == <<calls, frags, tombstones, older>>

Status == {"awaiting_media", "ingested", "unsupported"}

Row == [life: {"unborn", "live", "erased"},
        ext: CallId \cup {None}, trace: CallId \cup {None},
        complete: BOOLEAN, media: BOOLEAN, status: Status,
        analysed: BOOLEAN, covers: SUBSET Record]

\* A primary key no insert has drawn yet.
Unborn == [life |-> "unborn", ext |-> None, trace |-> None, complete |-> FALSE,
           media |-> FALSE, status |-> "awaiting_media", analysed |-> FALSE, covers |-> {}]

DBTypeOK ==
  /\ calls \in [CallPk -> Row]
  /\ frags \in [CallPk \cup {None} -> [Record -> Nat]]
  /\ tombstones \subseteq CallId
  /\ older \subseteq CallPk \X CallPk

DBInit ==
  /\ calls = [k \in CallPk |-> Unborn]
  /\ frags = [k \in CallPk \cup {None} |-> [r \in Record |-> 0]]
  /\ tombstones = {}
  /\ older = {}

-----------------------------------------------------------------------------
(* Reads.  t is the call table as the statement sees it.                   *)

Live(t) == {k \in CallPk : t[k].life = "live"}
ByExternalId(t, i) == {k \in Live(t) : t[k].ext = i}
ByTrace(t, x) == {k \in Live(t) : t[k].trace = x}

\* Mutant: identify without the lookup by trace.
IdentifiedWithoutTrace(r) == IF HintOf[r] # None THEN {HintOf[r]} ELSE {TraceOf[r]}

\* Mutant: the tombstone check forgotten.
NeverTombstoned(i) == FALSE

\* identify: the ids a batch can resolve to - the producer's, else that of a
\* call known by the trace (any of them, if several), else the trace id itself.
Identified(r) ==
  IF HintOf[r] # None THEN {HintOf[r]}
  ELSE IF TraceOf[r] = None \/ ByTrace(calls, TraceOf[r]) = {} THEN {TraceOf[r]}
  ELSE {calls[k].ext : k \in ByTrace(calls, TraceOf[r])}

Tombstoned(i) == i \in tombstones

\* Mutant: upsert_call without _promote.
FoundById(i, r) ==
  IF ByExternalId(calls, i) # {} THEN ByExternalId(calls, i) ELSE {None}

\* upsert_call's two selects: by external id, else (to promote it) by trace;
\* {None} when neither finds a row.
Found(i, r) ==
  LET named == ByExternalId(calls, i)
      traced == IF TraceOf[r] = None THEN {} ELSE ByTrace(calls, TraceOf[r])
  IN  IF named # {} THEN named ELSE IF traced # {} THEN traced ELSE {None}

\* Records among the fragments f of call k: what process() assembles.
Held(f, k) == {r \in Record : f[k][r] > 0}

\* _ready_now, on the row object the session holds.
ReadyNow(row) ==
  row.complete /\ row.media /\ row.status # "unsupported" /\ ~row.analysed

-----------------------------------------------------------------------------
(* Writes.  seen is the row a session loaded: only the columns that differ *)
(* from it are written back.                                               *)

NewRow(i, r) == [Unborn EXCEPT !.life = "live", !.ext = i, !.trace = TraceOf[r],
                               !.complete = r \in RootRecord]

\* Mutant: any batch closes the span gate.
UpsertedComplete(row, seen, i, r) == [row EXCEPT !.complete = TRUE]

\* upsert_call on an existing row: promote it if it was found by trace, fill
\* in the trace id, close the span gate on the root.
Upserted(row, seen, i, r) ==
  [row EXCEPT !.ext = IF seen.ext # i THEN i ELSE @,
              !.trace = IF seen.trace = None THEN TraceOf[r] ELSE @,
              !.complete = @ \/ r \in RootRecord]

\* The flush of upsert_call fails: UNIQUE(external_call_id), or the row it
\* loaded has been deleted since (an UPDATE that matches no row).
Rejected(i, k, seen) ==
  IF k = None THEN ByExternalId(calls, i) # {}
  ELSE \/ k \notin Live(calls)
       \/ seen.ext # i /\ ByExternalId(calls, i) \ {k} # {}

\* Every call table the flush can leave behind.
Flushed(i, k, seen, r) ==
  IF k = None
  THEN {[calls EXCEPT ![n] = NewRow(i, r)] : n \in {m \in CallPk : calls[m].life = "unborn"}}
  ELSE {[calls EXCEPT ![k] = Upserted(@, seen, i, r)]}

\* Mutant: _call_pk run before the flush.
PkBeforeFlush(t, i) ==
  IF ByExternalId(calls, i) = {} THEN None ELSE CHOOSE k \in ByExternalId(calls, i) : TRUE

\* _call_pk, run after that flush: the row that now bears the id, or None.
PkOf(t, i) ==
  IF ByExternalId(t, i) = {} THEN None ELSE CHOOSE k \in ByExternalId(t, i) : TRUE

\* Mutant: store_fragment without its pre-check.
StoredAgain(k, r) == [frags EXCEPT ![k][r] = @ + 1]

\* store_fragment: a no-op if this call holds the record, an insert otherwise.
Stored(k, r) ==
  IF k # None /\ frags[k][r] > 0 THEN frags ELSE [frags EXCEPT ![k][r] = @ + 1]

\* last_activity_at = now: k becomes the most recent row.
Touched(k, t) ==
  {e \in older : k \notin {e[1], e[2]}} \cup {<<j, k>> : j \in Live(t) \ {k}}

\* process() on call k over the fragments f: raises, is unsupported, or
\* rewrites the analysis rows from everything held and stamps the version.
ProcessRaises(f, k) == Held(f, k) \cap Breaks # {}
ProcessUnsupported(f, k) == Held(f, k) \cap Unsupported # {}
Analysed(row, f, k) ==
  IF ProcessUnsupported(f, k) THEN [row EXCEPT !.status = "unsupported"]
  ELSE [row EXCEPT !.analysed = TRUE, !.covers = Held(f, k)]

=============================================================================
