---------------------------- MODULE RecordReview ----------------------------
(***************************************************************************)
(* The documents the conformance scripts judge, as an editor changes them: *)
(* a sealed trace, the fixtures of the compute witness, an exported        *)
(* authorization.  Every step applies one mutation of the vectors or of    *)
(* the challenge fixtures, or computes again what a document derives from  *)
(* its content; at most MaxEdits mutations reach a document.               *)
(***************************************************************************)
EXTENDS TransitionTrace, AuthorizationExport, WitnessChain

CONSTANT MaxEdits

(* main() of check_causal_temporal_graph.py judges no trace by a graph     *)
(* that validate_graph() refuses.                                          *)
ASSUME GraphAssumption == GraphIsValid

VARIABLES
    kind,       \* which document is edited
    trace, entries, case,
    edits       \* mutations applied, bounded by MaxEdits

vars == << kind, trace, entries, case, edits >>

-----------------------------------------------------------------------------
(* base_trace of sealed-vectors.json.                                      *)

Following(events, type, at, fields) ==
    LET i      == Len(events) + 1
        before == Current([events |-> events], i)
        t      == Transitions[type]
        event  == [seq |-> i - 1, parent |-> PreviousId([events |-> events], i),
                   type |-> type, subject |-> "aaaa", evidence |-> "given",
                   before |-> before, after |-> [before EXCEPT ![t.axis] = t.to],
                   time |-> at, fields |-> fields, id |-> << >>]
    IN  [event EXCEPT !.id = EventId(event)]

Extended(events, type) ==
    Append(events, Following(events, type, Len(events), Transitions[type].fields))

BaseEvents ==
    LET committed == Extended(<< >>, "COMMIT_SOURCE_HASH")
        verified  == Extended(committed, "VERIFY_SOURCE_SNAPSHOT")
        fresh     == Extended(verified, "CHECK_SOURCE_FRESH")
        submitted == Extended(fresh, "SUBMIT_OTS")
    IN  Extended(submitted, "VERIFY_OTS_SUCCESS")

BaseTrace ==
    LET seal == [subject |-> "aaaa", total |-> Len(BaseEvents),
                 terminal |-> Last(BaseEvents).id, time |-> Len(BaseEvents), id |-> << >>]
    IN  [subject |-> "aaaa", events |-> BaseEvents,
         seal |-> << [seal EXCEPT !.id = SealId(seal)] >>]

(* The events the vectors append: one of any type after the last.          *)
LaterEvents == {Following(BaseEvents, type, Len(BaseEvents), {}) : type \in DOMAIN Transitions}

EventValues ==
    [seq |-> {3}, parent |-> {BaseEvents[1].id}, subject |-> {"bbbb"},
     type |-> {"CHECK_SOURCE_STALE", "VERIFY_OTS_SUCCESS", "REVERIFY_OTS_SUCCESS",
               "VERIFY_OTS_INVALID", "ROLLBACK_TIME"},
     time |-> {0, 9}, evidence |-> {""}, fields |-> {{}, Bound}, id |-> {<< >>}]

SealValues ==
    [subject |-> {"bbbb"}, total |-> {4, 6}, terminal |-> {BaseEvents[4].id},
     time |-> {3}, id |-> {<< >>}]

-----------------------------------------------------------------------------
(* Fixtures of the compute witness: a blocked job, a parent, a child whose *)
(* input is not the output of the parent, as expected, and its true child. *)

Entry(job, parent, input, output, decision, reason, continues, expects) ==
    LET audit == [audit_id |-> job, receipt_id |-> job, job_id |-> job,
                  decision |-> decision, reason |-> reason, previous |-> << >>]
    IN  [manifest |-> [job_id |-> job, causal_parent |-> parent, input_hash |-> input],
         receipt  |-> [receipt_id |-> job, job_id |-> job, causal_parent |-> parent,
                       input_hash |-> input, output_hash |-> output,
                       decision |-> decision, reason |-> reason, audit_hash |-> Sha256(audit)],
         audit    |-> audit,
         expected |-> [decision |-> decision, reason |-> reason],
         required |-> IF decision = "BLOCK" THEN {"job_id", "input_hash"}
                      ELSE {"job_id", "causal_parent", "input_hash"},
         continues |-> continues, expects |-> expects]

BaseEntries ==
    << Entry("blocked", Blank, "i0", Blank, "BLOCK", "MISSING_CAUSAL_PARENT", Blank, "ok"),
       Entry("parent", "request", "i1", "o1", "ACCEPT", None, Blank, "ok"),
       Entry("broken", "parent", "i2", "o2", "ACCEPT", None, "parent", "causal_parent"),
       Entry("child", "parent", "o1", "o3", "ACCEPT", None, "parent", "ok") >>

EntryValues ==
    [job_id |-> {"other", Blank}, causal_parent |-> {Blank, "child", "blocked"},
     input_hash |-> {"o1", "o3", Blank}, output_hash |-> {"o2", Blank},
     receipt_id |-> {"parent", "other"}, decision |-> {"ACCEPT", "HOLD", "BLOCK"},
     reason |-> {None, Blank, "MISSING_CAUSAL_PARENT"},
     previous |-> {BaseEntries[2].receipt.audit_hash}]

-----------------------------------------------------------------------------
(* Cases of authorization-record-export-v0.1.json; times are in minutes.   *)

Case(decision, reasons, expires, reversibility, approval, handoff, reported) ==
    LET undecided ==
            [transition |-> "t", action |-> [intent |-> "i", reversibility |-> reversibility],
             binding |-> [target |-> "/pay", policy |-> "p", approval |-> approval],
             decision |-> [decision |-> decision, reasons |-> reasons, issued |-> 1,
                           expires |-> << expires >>, consumption |-> "UNCONSUMED",
                           continuation |-> IF decision = "HOLD" THEN "AWAITING_APPROVAL"
                                            ELSE "NOT_REQUIRED",
                           current |-> IF decision = "HOLD" THEN "PENDING_APPROVAL"
                                       ELSE "ACTIVE",
                           policy |-> "p", refs |-> {"evidence"}],
             handoff |-> handoff, reported |-> reported, expected |-> None]
    IN  [undecided EXCEPT !.expected = Derived(undecided)]

Handoff(at, join, integrity) ==
    << [observation |-> [status |-> "EXECUTED", at |-> at], join |-> join,
        integrity |-> integrity] >>

BaseCases ==
    {Case("ACCEPT", {"POLICY_MATCH"}, 10, "reversible", << >>, << >>, << >>),
     Case("HOLD", {"HUMAN_APPROVAL_REQUIRED"}, 10, "irreversible", << >>, << >>, << >>),
     Case("ACCEPT", {"POLICY_MATCH"}, 10, "irreversible", << "human" >>,
          Handoff(2, "MATCH", << >>), << 3 >>),
     Case("ACCEPT", {"POLICY_MATCH"}, 10, "irreversible", << "human" >>,
          Handoff(2, "MATCH_WITH_INTEGRITY_FAILURE", << "FAILED" >>), << 3 >>),
     Case("ACCEPT", {"POLICY_MATCH"}, 5, "irreversible", << "human" >>,
          Handoff(4, "HISTORICAL_ONLY", << "VERIFIED" >>), << 6 >>)}

DecisionValues ==
    [decision |-> {"ACCEPT", "HOLD", "BLOCK", "REJECT"}, reasons |-> {{"INTENT_EXPIRED"}, {}},
     issued |-> {3}, expires |-> {<< >>, << 3 >>}, consumption |-> {"CONSUMED", "UNKNOWN"},
     continuation |-> {"NOT_REQUIRED", "AWAITING_APPROVAL"}, current |-> {"CONSUMED"},
     policy |-> {"q"}]

Observations == [status : {"EXECUTED", "BLOCKED"}, at : {0, 4, 6, 7}]
Joins == {"MATCH", "MATCH_WITH_INTEGRITY_FAILURE", "HISTORICAL_ONLY"}

-----------------------------------------------------------------------------
Init ==
    /\ kind \in {"trace", "entries", "case"}
    /\ trace = BaseTrace /\ entries = BaseEntries
    /\ IF kind = "case" THEN case \in BaseCases
       ELSE case = Case("ACCEPT", {"POLICY_MATCH"}, 10, "reversible", << >>, << >>, << >>)
    /\ edits = 0

Edit(which) == kind = which /\ edits < MaxEdits /\ edits' = edits + 1 /\ UNCHANGED kind
Recompute(which) == kind = which /\ UNCHANGED << kind, edits >>

EditTrace ==
    /\ Edit("trace") /\ UNCHANGED << entries, case >>
    /\ \/ \E i \in DOMAIN trace.events, field \in DOMAIN EventValues :
             \E v \in EventValues[field] : trace' = SetField(trace, i, field, v)
       \/ \E i \in DOMAIN trace.events :
             \E axis \in DOMAIN trace.events[i].after :
                 \/ \E state \in Axes[axis].states : trace' = SetAxis(trace, i, axis, state)
                 \/ trace' = DeleteAxis(trace, i, axis)
       \/ \E event \in LaterEvents : trace' = AppendEvent(trace, event)
       \/ \E count \in 0 .. Len(trace.events) - 1 : trace' = TruncateEvents(trace, count)
       \/ /\ trace.seal # << >>
          /\ \/ \E field \in DOMAIN SealValues :
                   \E v \in SealValues[field] : trace' = SetSealField(trace, field, v)
             \/ trace' = DeleteSeal(trace)

(* One event is linked to the one before it and its id computed again; so, *)
(* in order, is the whole chain.                                           *)
Relinked(t, i) == RecomputeEventId(SetField(t, i, "parent", PreviousId(t, i)), i)

Resealed(t) ==
    LET n == Len(t.events) IN
    RecomputeSealId(SetSealField(SetSealField(t, "total", n), "terminal", PreviousId(t, n + 1)))

RecomputeTrace ==
    /\ Recompute("trace") /\ UNCHANGED << entries, case >>
    /\ \/ \E i \in DOMAIN trace.events :
             trace' = RecomputeEventId(trace, i) \/ trace' = Relinked(trace, i)
       \/ /\ trace.seal # << >>
          /\ trace' = RecomputeSealId(trace) \/ trace' = Resealed(trace)

(* A field takes its value in the documents of one entry that are edited.  *)
Documents(entry, field) ==
    {d \in {"manifest", "receipt", "audit", "expected"} : field \in DOMAIN entry[d]}

EditEntries ==
    /\ Edit("entries") /\ UNCHANGED << trace, case >>
    /\ \/ \E i \in DOMAIN entries, field \in DOMAIN EntryValues :
             \E v \in EntryValues[field], edited \in SUBSET Documents(entries[i], field) \ {{}} :
                 entries' = [entries EXCEPT ![i] =
                     [part \in DOMAIN @ |->
                         IF part \in edited THEN [@[part] EXCEPT ![field] = v] ELSE @[part]]]
       \/ \E i \in DOMAIN entries :
             \/ entries' = RemoveAt(entries, i)
             \/ \E id \in {Blank, "parent", "child"} :
                   entries' = [entries EXCEPT ![i].continues = id]
             \/ \E expects \in {"ok", "audit"} :
                   entries' = [entries EXCEPT ![i].expects = expects]
             \/ i > 1 /\ entries' = [entries EXCEPT ![i] = entries[i - 1], ![i - 1] = entries[i]]

RecomputeEntries ==
    /\ Recompute("entries") /\ UNCHANGED << trace, case >>
    /\ \E i \in DOMAIN entries :
          entries' = [entries EXCEPT ![i].receipt.audit_hash = Sha256(entries[i].audit)]

EditCase ==
    /\ Edit("case") /\ UNCHANGED << trace, entries >>
    /\ \/ \E field \in DOMAIN DecisionValues :
             \E v \in DecisionValues[field] : case' = [case EXCEPT !.decision[field] = v]
       \/ \E v \in {"reversible", "irreversible"} : case' = [case EXCEPT !.action.reversibility = v]
       \/ \E v \in {<< >>, << "" >>} : case' = [case EXCEPT !.binding.approval = v]
       \/ \E v \in {<< >>, << 3 >>, << 6 >>} : case' = [case EXCEPT !.reported = v]
       \/ /\ case.handoff # << >>
          /\ \/ \E o \in Observations : case' = [case EXCEPT !.handoff[1].observation = o]
             \/ \E join \in Joins : case' = [case EXCEPT !.handoff[1].join = join]
             \/ case' = [case EXCEPT !.handoff = << >>]

(* What a case declares is derived again from its contexts.                *)
RecomputeCase ==
    /\ Recompute("case") /\ UNCHANGED << trace, entries >>
    /\ LET intrinsic == [case EXCEPT !.decision.current =
                            IntrinsicState(AuthorizationRecord(case))]
       IN  case' = [intrinsic EXCEPT !.expected = Derived(intrinsic)]

Next ==
    \/ EditTrace   \/ RecomputeTrace
    \/ EditEntries \/ RecomputeEntries
    \/ EditCase    \/ RecomputeCase

Spec == Init /\ [][Next]_vars

-----------------------------------------------------------------------------
(* What the documents the scripts accept must mean.                        *)

(* The state vector after n events, from the declared moves alone and not  *)
(* the vectors of the trace: each axis is where its last move left it.     *)
StateAfter(t, n) ==
    [a \in DOMAIN Axes |->
        LET moves == {i \in 1 .. n : Transitions[t.events[i].type].axis = a}
        IN  IF moves = {} THEN Axes[a].initial
            ELSE Transitions[t.events[Max(moves)].type].to]

(* A trace that verifies (verify_trace) is the history of its subject: the *)
(* declared moves alone lead to its vectors, an anchor is never lost and   *)
(* rests on a bound in the trace, what is reproducible was committed       *)
(* before; and unless its seal was made anew, no event changed.            *)
SealedTraceIsTheHistory ==
    kind = "trace" /\ VerifyTrace(trace) = "ok" =>
        /\ \A i \in DOMAIN trace.events :
              LET event == trace.events[i]   after == StateAfter(trace, i) IN
              /\ event.after = after
              /\ event.before.temporal = "ANCHORED" => after.temporal = "ANCHORED"
              /\ event.before.origin = "INVALID" => after.origin = "INVALID"
              /\ after.origin = "REPRODUCIBLE" =>
                    \E j, k \in 1 .. i :
                        /\ j < k /\ trace.events[j].type = "COMMIT_SOURCE_HASH"
                        /\ trace.events[k].type = "VERIFY_SOURCE_SNAPSHOT"
              /\ after.temporal = "ANCHORED" =>
                    \E j \in 1 .. i : Bound \subseteq trace.events[j].fields
        /\ \A i, j \in DOMAIN trace.events :
              i < j => trace.events[i].time <= trace.events[j].time
        /\ trace.seal = BaseTrace.seal => trace = BaseTrace

(* Fixtures that validate (validate_conformance_manifest) form a chain of  *)
(* work: whoever continues a receipt takes as input the output of the last *)
(* receipt accepted earlier under that id, one that fails as expected is   *)
(* never continued, and audit entries point backwards.                     *)
Passes(i) == entries[i].expects = "ok"

AcceptedWorkIsAChain ==
    kind = "entries" /\ ValidateFixtures(entries).ok =>
        \A i \in {k \in DOMAIN entries : Passes(k)} :
            LET named == {j \in 1 .. i - 1 :
                            Passes(j) /\ entries[j].receipt.decision = "ACCEPT"
                            /\ entries[j].receipt.receipt_id = entries[i].continues}
            IN
            /\ entries[i].continues # Blank =>
                  /\ named # {}
                  /\ entries[Max(named)].receipt.output_hash = entries[i].receipt.input_hash
                  /\ entries[i].receipt.input_hash # Blank
            /\ entries[i].audit.previous # << >> =>
                  \E j \in 1 .. i - 1 :
                      Passes(j) /\ entries[j].receipt.audit_hash = entries[i].audit.previous

Expired(c) == \E e \in ToSet(c.decision.expires), reported \in ToSet(c.reported) : reported > e

(* A case either script accepts (verify_case of both) allows an effect only *)
(* under an unconsumed ACCEPT that had not expired at the time of its      *)
(* report.  An observation the independent verifier accepts is not later   *)
(* than its report; one that reports an execution lies between issue and   *)
(* expiry of an ACCEPT, with an approval if the action cannot be undone;   *)
(* and it is HISTORICAL_ONLY exactly if the report came after the expiry   *)
(* of an unconsumed ACCEPT, never for a consumed or uncertain one.         *)
ExecutionStaysUnderAuthority ==
    kind = "case" =>
        /\ Verified(case) \/ Reproduced(case) =>
              /\ case.expected.effects > 0 => case.expected.allowed
              /\ case.expected.allowed =>
                    /\ case.decision.decision = "ACCEPT"
                    /\ case.decision.consumption = "UNCONSUMED"
                    /\ ~Expired(case)
        /\ Verified(case) =>
              \A h \in ToSet(case.handoff), reported \in ToSet(case.reported) :
                  /\ h.observation.at <= reported
                  /\ h.observation.status = "EXECUTED" =>
                        /\ case.decision.decision = "ACCEPT"
                        /\ case.decision.issued <= h.observation.at
                        /\ \A e \in ToSet(case.decision.expires) : h.observation.at <= e
                        /\ case.action.reversibility = "irreversible"
                              => case.binding.approval # << >>
                  /\ h.join = "HISTORICAL_ONLY" <=>
                        /\ case.decision.decision = "ACCEPT"
                        /\ case.decision.consumption = "UNCONSUMED"
                        /\ Expired(case)

-----------------------------------------------------------------------------
(* What no edit changes: the shape of a trace and of a case.               *)

HasFields(x, fields) == x = [f \in fields |-> x[f]]

EventFields ==
    {"seq", "parent", "type", "subject", "evidence", "before", "after", "time", "fields", "id"}

IsEvent(event) ==
    /\ HasFields(event, EventFields)
    /\ HasFields(event.after, DOMAIN event.after)
    /\ event.time \in Nat

IsTrace(t) ==
    /\ HasFields(t, {"subject", "events", "seal"})
    /\ t.events \in Seq(ToSet(t.events))
    /\ \A event \in ToSet(t.events) : IsEvent(event)

IsCase(c) ==
    /\ {"action", "binding", "decision", "handoff", "reported", "expected"} \subseteq DOMAIN c
    /\ "reversibility" \in DOMAIN c.action /\ "approval" \in DOMAIN c.binding
    /\ DOMAIN DecisionValues \subseteq DOMAIN c.decision
    /\ c.decision.issued \in Int
    /\ \A t \in ToSet(c.decision.expires) \cup ToSet(c.reported) : t \in Int
    /\ c.reported # << >> => c.reported = << c.reported[1] >>
    /\ c.handoff # << >> =>
          /\ c.handoff = << c.handoff[1] >>
          /\ {"observation", "join"} \subseteq DOMAIN c.handoff[1]
          /\ c.handoff[1].observation.at \in Int

TraceInv == IsTrace(trace)
EntriesInv == entries \in Seq(ToSet(entries))
CaseInv == IsCase(case)

IInv == TraceInv /\ EntriesInv /\ CaseInv
=============================================================================
