------------------------------ MODULE Poller ------------------------------
(***************************************************************************)
(* The poller sidecar (worker/poller.py) of one agent and the manifest     *)
(* runtime it drives (integration/runtime.py): a sweep lists the store,    *)
(* keeps the calls whose newest object has settled and is past the         *)
(* watermark, and ingests them oldest first, each in its own transaction,  *)
(* which moves the watermark along.                                        *)
(***************************************************************************)
EXTENDS Integers, Sequences, NoValue

CONSTANTS Polled, Grace, MaxClock, MaxWrites, MaxManifest

(* poller_grace_s, in ticks of the clock of the store: ten minutes, not 0.  *)
ASSUME PollerAssumption == Grace \in Nat \ {0}

VARIABLES clock, store, writes, manifest, held, watermark, sweep, callRow, dropped

pollerVars == <<clock, store, writes, manifest, held, watermark, sweep, callRow, dropped>>

(* What an artifact holds, in the order the store lists them: the header of *)
(* a call, its spans (with a header of their own), the lines spoken, a      *)
(* recording.  A listed object that no selector matches is none of them.    *)
Kinds == <<"call", "trace", "transcript", "recording">>
Kind == {Kinds[i] : i \in 1 .. Len(Kinds)}

PollerInit ==
  /\ clock = 1 /\ writes = 0 /\ store = [c \in Polled |-> [k \in {} |-> None]]
  /\ manifest = 1 /\ held = 1 /\ watermark = 0 /\ sweep = [c \in {} |-> None]
  /\ callRow = [c \in Polled |-> None] /\ dropped = [c \in Polled |-> 0]

Maximum(S) == CHOOSE x \in S : \A y \in S : y <= x

Newest(objects) == Maximum({objects[k].at : k \in DOMAIN objects})

-----------------------------------------------------------------------------
(* assemble_trace: of each header field the first non-null value wins; a    *)
(* trace gives its spans, a transcript one span for each of its lines.      *)
Header(objects) ==
  LET Gives(i) == Kinds[i] \in DOMAIN objects /\ objects[Kinds[i]].named
  IN IF \E i \in 1 .. 2 : Gives(i)
     THEN objects[Kinds[CHOOSE i \in 1 .. 2 : Gives(i) /\ \A j \in 1 .. i - 1 : ~Gives(j)]].at
     ELSE None

Traced(objects) ==
  {<<k, objects[k].at>> : k \in {"trace", "transcript"} \cap DOMAIN objects}

Assembled(objects) == [header |-> Header(objects), spans |-> Traced(objects)]

(* The trace is analysed with the recording that was listed, if one was.    *)
Ingested(objects, version) ==
  [trace |-> Assembled(objects), version |-> version,
   recording |-> IF "recording" \in DOMAIN objects THEN objects["recording"].at ELSE None]

(* discover_manifest_windowed: since < newest <= cutoff.                    *)
Unsettled(since, cutoff) ==
  {c \in Polled : DOMAIN store[c] # {} /\ Newest(store[c]) > since}

Windowed(since, cutoff) == {c \in Unsettled(since, cutoff) : Newest(store[c]) <= cutoff}

-----------------------------------------------------------------------------
PollerTick ==
  /\ clock < MaxClock /\ clock' = clock + 1
  /\ UNCHANGED <<store, writes, manifest, held, watermark, sweep, callRow, dropped>>

(* The producer writes an artifact, or replaces it.                         *)
Write(c, k) ==
  /\ writes < MaxWrites /\ writes' = writes + 1
  /\ \E named \in (IF k = "call" THEN BOOLEAN ELSE {k = "trace"}) :
       store' = [store EXCEPT ![c] =
         [o \in DOMAIN @ \cup {k} |-> IF o = k THEN [at |-> clock, named |-> named] ELSE @[o]]]
  /\ UNCHANGED <<clock, manifest, held, watermark, sweep, callRow, dropped>>

(* put_integration_manifest: the manifest is replaced, the watermark kept.  *)
Register ==
  /\ manifest < MaxManifest /\ manifest' = manifest + 1
  /\ UNCHANGED <<clock, store, writes, held, watermark, sweep, callRow, dropped>>

(* _poll_agent lists once, with the manifest as it is then; what it found   *)
(* is worked on call by call.                                               *)
List ==
  /\ sweep = <<>> /\ held' = manifest
  /\ sweep' = [c \in Windowed(watermark, clock - Grace) |->
                 [kinds |-> DOMAIN store[c], newest |-> Newest(store[c])]]
  /\ UNCHANGED <<clock, store, writes, manifest, watermark, callRow, dropped>>

Oldest(c) == c \in DOMAIN sweep /\ \A d \in DOMAIN sweep : sweep[c].newest <= sweep[d].newest

Rest(c) == [d \in DOMAIN sweep \ {c} |-> sweep[d]]

(* process_manifest_call fetches the listed objects as they are now; the    *)
(* watermark is committed with the call.                                    *)
IngestOne(c) ==
  /\ Oldest(c)
  /\ callRow' = [callRow EXCEPT ![c] = Ingested([k \in sweep[c].kinds |-> store[c][k]], held)]
  /\ watermark' = Maximum({watermark, sweep[c].newest})
  /\ sweep' = Rest(c)
  /\ UNCHANGED <<clock, store, writes, manifest, held, dropped>>

(* A call that raises is rolled back and the sweep goes on to the next; the *)
(* rollback expires the manifest's row, which is then read again.           *)
Skip(c) ==
  /\ Oldest(c) /\ sweep' = Rest(c) /\ held' = manifest
  /\ dropped' = [dropped EXCEPT ![c] = sweep[c].newest]
  /\ UNCHANGED <<clock, store, writes, manifest, watermark, callRow>>

(* A broker that refuses the judge request, or the end of the process, ends *)
(* the sweep with the calls it has not reached.                             *)
Abandon ==
  /\ sweep # <<>> /\ sweep' = <<>>
  /\ dropped' = [c \in Polled |-> IF c \in DOMAIN sweep THEN sweep[c].newest ELSE dropped[c]]
  /\ UNCHANGED <<clock, store, writes, manifest, held, watermark, callRow>>

PollerNext ==
  \/ PollerTick \/ Register \/ List \/ Abandon
  \/ \E c \in Polled : IngestOne(c) \/ Skip(c) \/ \E k \in Kind : Write(c, k)

PollerSpec == PollerInit /\ [][PollerNext]_pollerVars

-----------------------------------------------------------------------------
(* A call whose artifacts changed after it was ingested, or that never was, *)
(* is still ahead of the watermark or in the sweep under way, unless an     *)
(* attempt at exactly these artifacts was given up: what is written while   *)
(* other calls move the watermark is never overtaken by it.                 *)
UpToDate(c) == \E version \in 1 .. manifest : callRow[c] = Ingested(store[c], version)

NothingOvertaken ==
  \A c \in Polled :
    \/ DOMAIN store[c] = {} \/ UpToDate(c)
    \/ Newest(store[c]) > watermark
    \/ c \in DOMAIN sweep
    \/ dropped[c] = Newest(store[c])
=============================================================================
