--------------------------- MODULE TransitionTrace ---------------------------
(***************************************************************************)
(* Causal-temporal traces (check_causal_temporal_graph.py): the events of  *)
(* one subject, each moving one axis of a state vector along a declared    *)
(* transition, chained by event ids and closed by a seal.                  *)
(*                                                                         *)
(* An id is the content it is computed from, in a sequence: << >> is none. *)
(***************************************************************************)
EXTENDS EvidenceFiles

Axes ==
    [origin    |-> [initial |-> "UNCOMMITTED",
                    states |-> {"UNCOMMITTED", "COMMITTED", "REPRODUCIBLE", "INVALID"}],
     freshness |-> [initial |-> "UNKNOWN", states |-> {"UNKNOWN", "FRESH", "STALE"}],
     temporal  |-> [initial |-> "UNANCHORED",
                    states |-> {"UNANCHORED", "PENDING", "ANCHORED", "UNAVAILABLE", "INVALID"}]]

Bound == {"bitcoin_block_height", "attested_before"}

Transition(axis, from, to, fields) == [axis |-> axis, from |-> from, to |-> to, fields |-> fields]

Reachable == {"UNANCHORED", "PENDING", "UNAVAILABLE"}

Transitions ==
    [COMMIT_SOURCE_HASH     |-> Transition("origin", {"UNCOMMITTED"}, "COMMITTED", {}),
     VERIFY_SOURCE_SNAPSHOT |-> Transition("origin", {"COMMITTED"}, "REPRODUCIBLE", {}),
     INVALIDATE_SOURCE_ORIGIN |->
         Transition("origin", {"UNCOMMITTED", "COMMITTED", "REPRODUCIBLE"}, "INVALID", {}),
     CHECK_SOURCE_FRESH     |-> Transition("freshness", Axes.freshness.states, "FRESH", {}),
     CHECK_SOURCE_STALE     |-> Transition("freshness", Axes.freshness.states, "STALE", {}),
     SUBMIT_OTS             |-> Transition("temporal", {"UNANCHORED", "UNAVAILABLE"}, "PENDING", {}),
     VERIFY_OTS_PENDING     |-> Transition("temporal", Reachable, "PENDING", {}),
     VERIFY_OTS_SUCCESS     |-> Transition("temporal", Reachable, "ANCHORED", Bound),
     REVERIFY_OTS_SUCCESS   |-> Transition("temporal", {"ANCHORED"}, "ANCHORED", Bound),
     VERIFY_OTS_UNAVAILABLE |-> Transition("temporal", Reachable, "UNAVAILABLE", {}),
     VERIFY_OTS_INVALID     |-> Transition("temporal", Reachable, "INVALID", {})]

(* validate_graph(): what the graph above must satisfy.                    *)
GraphIsValid ==
    /\ \A a \in DOMAIN Axes : Axes[a].initial \in Axes[a].states
    /\ \A e \in DOMAIN Transitions :
          LET t == Transitions[e] IN
          t.axis \in DOMAIN Axes /\ t.from \cup {t.to} \subseteq Axes[t.axis].states

InitialState == [a \in DOMAIN Axes |-> Axes[a].initial]

EventId(event) == << [f \in DOMAIN event \ {"id"} |-> event[f]] >>
SealId(seal)   == << [f \in DOMAIN seal \ {"id"} |-> seal[f]] >>

-----------------------------------------------------------------------------
(* verify_trace(): the checks of the events in order, then of the seal.    *)

Current(trace, i)    == IF i = 1 THEN InitialState ELSE trace.events[i - 1].after
PreviousId(trace, i) == IF i = 1 THEN << >> ELSE trace.events[i - 1].id
NotBefore(trace, i)  == IF i = 1 THEN 0 ELSE trace.events[i - 1].time

(* The transition and the axes are looked at only once they are known, and *)
(* a delete leaves a field out of the vectors.                             *)
Untouched(event, axis) ==
    \A a \in DOMAIN Axes \ {axis} : event.before[a] = event.after[a]

VectorIsSound(trace, i) ==
    LET event == trace.events[i] IN
    /\ DOMAIN event.before = DOMAIN Axes /\ DOMAIN event.after = DOMAIN Axes
    /\ \A a \in DOMAIN Axes : {event.before[a], event.after[a]} \subseteq Axes[a].states
    /\ event.before = Current(trace, i)

(* Mutant of MoveIsLegal: the other axes are not compared.                 *)
MoveReachesItsState(event) ==
    LET t == Transitions[event.type] IN
    event.before[t.axis] \in t.from /\ event.after[t.axis] = t.to

MoveIsLegal(event) ==
    LET t == Transitions[event.type] IN
    /\ event.before[t.axis] \in t.from /\ event.after[t.axis] = t.to
    /\ Untouched(event, t.axis)

EvidenceIsGiven(event) == event.evidence # "" /\ Transitions[event.type].fields \subseteq event.fields

EventChecks(trace, i) ==
    LET event == trace.events[i] IN
    << << "SEQUENCE_GAP_OR_DUPLICATE", event.seq = i - 1 >>,
       << "PARENT_EVENT_MISMATCH", event.parent = PreviousId(trace, i) >>,
       << "SUBJECT_HASH_DRIFT", event.subject = trace.subject >>,
       << "EVENT_ID_MISMATCH", event.id = EventId(event) >>,
       << "OBSERVED_AT_REGRESSION", event.time >= NotBefore(trace, i) >>,
       << "STATE_VECTOR", VectorIsSound(trace, i) >>,
       << "UNDECLARED_TRANSITION", event.type \in DOMAIN Transitions >>,
       << "ILLEGAL_AXIS_TRANSITION",
          VectorIsSound(trace, i) /\ event.type \in DOMAIN Transitions => MoveIsLegal(event) >>,
       << "MISSING_TRANSITION_EVIDENCE",
          event.type \in DOMAIN Transitions => EvidenceIsGiven(event) >> >>

(* With require_seal; a missing seal is an empty sequence.                 *)
SealChecks(trace) ==
    LET n     == Len(trace.events)
        seals == ToSet(trace.seal)
    IN
    << << "TRACE_SEAL_MISSING", trace.seal # << >> >>,
       << "TRACE_SEAL_ID_MISMATCH", \A seal \in seals : seal.id = SealId(seal) >>,
       << "TRACE_SEAL_SUBJECT_MISMATCH", \A seal \in seals : seal.subject = trace.subject >>,
       << "TRACE_TOTAL_MISMATCH", \A seal \in seals : seal.total = n >>,
       << "TRACE_TERMINAL_EVENT_MISMATCH",
          \A seal \in seals : seal.terminal = PreviousId(trace, n + 1) >>,
       << "SEALED_AT_REGRESSION", \A seal \in seals : seal.time >= NotBefore(trace, n + 1) >> >>

(* The first event that fails decides, and the seal if none does.          *)
VerifyTrace(trace) ==
    LET failing == {i \in DOMAIN trace.events : FirstFailure(EventChecks(trace, i)) # "ok"}
    IN  IF failing = {} THEN FirstFailure(SealChecks(trace))
        ELSE FirstFailure(EventChecks(trace, Min(failing)))

-----------------------------------------------------------------------------
(* materialize_case(): the mutations that make a case of the base trace.   *)

SetField(trace, i, field, value) == [trace EXCEPT !.events[i][field] = value]
SetAxis(trace, i, axis, state) == [trace EXCEPT !.events[i].after[axis] = state]
SetSealField(trace, field, value) == [trace EXCEPT !.seal[1][field] = value]
DeleteAxis(trace, i, axis) ==
    LET after == trace.events[i].after
    IN  [trace EXCEPT !.events[i].after = [a \in DOMAIN after \ {axis} |-> after[a]]]
DeleteSeal(trace) == [trace EXCEPT !.seal = << >>]
AppendEvent(trace, event) == [trace EXCEPT !.events = Append(trace.events, event)]
TruncateEvents(trace, count) == [trace EXCEPT !.events = SubSeq(trace.events, 1, count)]
RecomputeEventId(trace, i)  == [trace EXCEPT !.events[i].id = EventId(trace.events[i])]
RecomputeSealId(trace)      == [trace EXCEPT !.seal[1].id = SealId(trace.seal[1])]
=============================================================================
