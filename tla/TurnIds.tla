------------------------------ MODULE TurnIds ------------------------------
(***************************************************************************)
(* Which exchange a span belongs to: _propagate_turn_ids of the generic    *)
(* OTLP adapter (frameworks/generic.py) and _pair_agent_turns of the       *)
(* LiveKit one (frameworks/livekit/adapter.py).  Spans are numbered in the *)
(* order of t_start, as to_trace sorts them; no two start at once.  A      *)
(* trace gives each its kind ("user_turn" and "agent_turn" are of stage    *)
(* TURN), its parent (0 for none, a number outside the trace for a parent  *)
(* that never arrived) and the turn id its producer wrote, or None.  A     *)
(* span's own id, as a turn id, is its number.                             *)
(***************************************************************************)
EXTENDS Integers, Sequences, NoValue

CONSTANTS
  WrittenId,   \* the turn ids producers write
  MaxTrace     \* spans of a trace (bound)

ASSUME TurnIdAssumption == None \notin Nat /\ None \notin WrittenId

VARIABLE trace   \* the spans so far: the next one started later

TurnKinds == {"user_turn", "agent_turn"}
AnyId == WrittenId \cup Nat \cup {None}
SpanOfTrace == [kind : TurnKinds \cup {"stage"}, parent : Nat, turnId : AnyId]

TraceInit == trace = <<>>

(* Any span, with any parent, before it, after it or nowhere.               *)
TraceNext ==
  /\ Len(trace) < MaxTrace
  /\ \E k \in TurnKinds \cup {"stage"}, p \in 0 .. MaxTrace + 1, id \in WrittenId \cup {None} :
       trace' = Append(trace, [kind |-> k, parent |-> p, turnId |-> id])

TraceSpec == TraceInit /\ [][TraceNext]_trace

-----------------------------------------------------------------------------
Kind(t, K) == {s \in DOMAIN t : t[s].kind \in K}

\* The nearest of s, its parent, the parent of that and so on which is one of stops;
\* None when the chain ends, leaves the trace or closes on itself: where it has not
\* stopped after as many parents as there are spans, it never does.
Climb(t, s, stops) ==
  LET at[n \in 0 .. Len(t)] ==
        IF n = 0 THEN s
        ELSE IF at[n - 1] \in stops \/ at[n - 1] \notin DOMAIN t THEN at[n - 1]
        ELSE t[at[n - 1]].parent
  IN  IF at[Len(t)] \in stops THEN at[Len(t)] ELSE None

OwnTurnId(t, s) == IF t[s].turnId = None THEN s ELSE t[s].turnId

TurnBelow(t, s, stops) ==
  LET turn == Climb(t, s, stops) IN IF turn = None THEN None ELSE OwnTurnId(t, turn)

\* Mutant: the turn id of any ancestor will do.
TurnOfTagged(t, s) ==
  TurnBelow(t, s, Kind(t, TurnKinds) \cup {c \in DOMAIN t : t[c].turnId # None})

TurnOf(t, s) == TurnBelow(t, s, Kind(t, TurnKinds))

PropagateTurnIds(t) ==
  [s \in DOMAIN t |-> [t[s] EXCEPT !.turnId = IF @ = None THEN TurnOf(t, s) ELSE @]]

UserTurns(t) == Kind(t, {"user_turn"})

LastOf(S) == CHOOSE s \in S : \A u \in S : u <= s

\* Mutant: the user turn that follows.
FollowingTurnId(t, s) ==
  LET next == {u \in UserTurns(t) : u >= s}
  IN  OwnTurnId(t, LastOf(IF next = {} THEN UserTurns(t) ELSE next))

\* The last user turn that started by then; when none did, the list of all of
\* them is taken instead, and its last one.
PrecedingTurnId(t, s) ==
  LET prior == {u \in UserTurns(t) : u <= s}
  IN  OwnTurnId(t, LastOf(IF prior = {} THEN UserTurns(t) ELSE prior))

AgentTurnOf(t, s) == Climb(t, s, Kind(t, {"agent_turn"}))

PairAgentTurns(t) ==
  IF UserTurns(t) = {} THEN t
  ELSE PropagateTurnIds(
         [s \in DOMAIN t |->
            IF AgentTurnOf(t, s) = None THEN t[s]
            ELSE [t[s] EXCEPT !.turnId = PrecedingTurnId(t, AgentTurnOf(t, s))]])

\* LiveKitAdapter.to_trace: the generic pass, then the pairing.
LiveKitTrace(t) == PairAgentTurns(PropagateTurnIds(t))

-----------------------------------------------------------------------------
\* Reference: c is s or an ancestor of s.
Ancestor(t, s, c) ==
  \E n \in 0 .. Len(t) :
    \E chain \in [0 .. n -> DOMAIN t] :
      /\ chain[0] = s /\ chain[n] = c
      /\ \A i \in 0 .. n - 1 : t[chain[i]].parent = chain[i + 1]

\* The turns s is below, or is itself.
TurnsAbove(t, s) == {c \in Kind(t, TurnKinds) : Ancestor(t, s, c)}

\* _propagate_turn_ids: a turn id the producer wrote is never replaced, a span
\* below a TURN span gets one, and it is the one of a TURN ancestor with no other
\* TURN span in between; a second pass changes nothing.
NearestTurnWins ==
  LET out == PropagateTurnIds(trace)
  IN  /\ PropagateTurnIds(out) = out
      /\ \A s \in DOMAIN trace :
           IF trace[s].turnId # None THEN out[s].turnId = trace[s].turnId
           ELSE IF TurnsAbove(trace, s) = {} THEN out[s].turnId = None
           ELSE \E c \in TurnsAbove(trace, s) :
                  /\ out[s].turnId = OwnTurnId(trace, c)
                  /\ TurnsAbove(trace, s) \subseteq TurnsAbove(trace, c)

\* _pair_agent_turns: once the caller has spoken, everything below an agent turn is
\* in the exchange of the caller's last turn before it, with the caller's spans of
\* that turn; unless that one is below another agent turn, and so in its exchange.
AgentAnswersPrecedingTurn ==
  LET out == LiveKitTrace(trace)
  IN  \A s, a \in DOMAIN trace : AgentTurnOf(trace, s) = a =>
        \A u \in UserTurns(trace) :
          (u <= a /\ \A v \in UserTurns(trace) : v <= a => v <= u) =>
             \/ AgentTurnOf(trace, u) \notin {None, a}
             \/ out[s].turnId = out[u].turnId
=============================================================================
