------------------------- MODULE AuthorizationExport -------------------------
(***************************************************************************)
(* Authorization records exported to other systems, and their handoff to   *)
(* an observation.  Two scripts that share no code judge a case:           *)
(* check_authorization_record_export.py derives the record and compares it *)
(* (Reproduced), verify_authorization_record_export.py also judges what    *)
(* the record says (Verified).                                             *)
(*                                                                         *)
(* An optional value is a sequence of at most one; times are numbers.      *)
(***************************************************************************)
EXTENDS EvidenceFiles

IntrinsicStates ==
    {"ACTIVE", "PENDING_APPROVAL", "EXPIRED", "CONSUMED", "BLOCKED", "REJECTED", "INVALID"}

(* record_for() and build_record().                                        *)
AuthorizationRecord(c) ==
    [transition |-> c.transition,
     action |-> Digest(c.action), binding |-> Digest(c.binding),
     decision |-> c.decision.decision, reasons |-> c.decision.reasons,
     issued |-> c.decision.issued, expires |-> c.decision.expires,
     consumption |-> c.decision.consumption, continuation |-> c.decision.continuation,
     current |-> c.decision.current, policy |-> c.decision.policy, refs |-> c.decision.refs]

IntrinsicState(record) ==
    CASE record.consumption = "CONSUMED" -> "CONSUMED"
      [] record.consumption = "UNKNOWN"  -> "INVALID"
      [] record.consumption = "UNCONSUMED" /\ record.decision = "HOLD"   -> "PENDING_APPROVAL"
      [] record.consumption = "UNCONSUMED" /\ record.decision = "REJECT" -> "REJECTED"
      [] record.consumption = "UNCONSUMED" /\ record.decision = "BLOCK"  ->
             IF "INTENT_EXPIRED" \in record.reasons THEN "EXPIRED" ELSE "BLOCKED"
      [] OTHER -> "ACTIVE"

After(t, deadline) == \E d \in ToSet(deadline) : t > d

ReportState(record, reported) ==
    IF IntrinsicState(record) = "ACTIVE" /\ \E t \in ToSet(reported) : After(t, record.expires)
    THEN "EXPIRED_AT_REPORT" ELSE IntrinsicState(record)

Allowed(record, reported) ==
    /\ record.decision = "ACCEPT" /\ ReportState(record, reported) = "ACTIVE"
    /\ record.consumption = "UNCONSUMED"

(* What both scripts derive, and compare with the case's expectations.     *)
Derived(c) ==
    LET record == AuthorizationRecord(c) IN
    [ref |-> Digest(record), current |-> IntrinsicState(record),
     state |-> ReportState(record, c.reported), allowed |-> Allowed(record, c.reported),
     effects |-> IF Allowed(record, c.reported) THEN 1 ELSE 0]

AsExpected(c) == c.expected = Derived(c) /\ c.decision.current = Derived(c).current

Reproduced(c) ==
    /\ c.decision.current \in IntrinsicStates
    /\ AsExpected(c)
    /\ c.handoff # << >> => c.reported # << >>

-----------------------------------------------------------------------------
(* build_record() of the independent verifier: the contexts make sense.    *)

Vocabulary(c) ==
    /\ c.decision.decision \in {"ACCEPT", "HOLD", "BLOCK", "REJECT"}
    /\ c.decision.consumption \in {"UNCONSUMED", "CONSUMED", "UNKNOWN"}
    /\ c.decision.continuation \in
          {"NOT_REQUIRED", "AWAITING_APPROVAL", "REQUIRES_REVALIDATION", "RESOLVED"}
    /\ c.decision.current \in IntrinsicStates
    /\ c.action.reversibility \in {"reversible", "irreversible"}

NothingIsBlank(c) ==
    /\ \A text \in {c.transition, c.action.intent, c.binding.target, c.binding.policy} : text # ""
    /\ c.decision.reasons # {} /\ c.decision.refs # {}
    /\ "" \notin ToSet(c.binding.approval)

ContextsAgree(c) ==
    /\ c.binding.policy = c.decision.policy
    /\ IF c.decision.decision = "HOLD"
       THEN c.decision.continuation \in {"AWAITING_APPROVAL", "REQUIRES_REVALIDATION"}
       ELSE c.decision.continuation # "AWAITING_APPROVAL"
    /\ c.decision.decision = "ACCEPT" /\ c.action.reversibility = "irreversible"
          => c.binding.approval # << >>

-----------------------------------------------------------------------------
(* verify_handoff().                                                       *)

(* Mutant of ObservedUnder: the expiry of the authority is not looked at.  *)
ObservedUnderDecision(record, observation, reported) ==
    /\ observation.at <= reported /\ observation.at >= record.issued
    /\ observation.status = "EXECUTED" => record.decision = "ACCEPT"

ObservedUnder(record, observation, reported) ==
    /\ observation.at <= reported /\ observation.at >= record.issued
    /\ observation.status = "EXECUTED" =>
          record.decision = "ACCEPT" /\ ~After(observation.at, record.expires)

(* An integrity verdict is a sequence of at most one.                      *)
DerivedJoin(state, integrity) ==
    IF state = "EXPIRED_AT_REPORT" THEN "HISTORICAL_ONLY"
    ELSE IF \E v \in ToSet(integrity) : v # "VERIFIED" THEN "MATCH_WITH_INTEGRITY_FAILURE"
    ELSE "MATCH"

HandoffHolds(c) ==
    IF c.handoff = << >> THEN c.reported = << >>
    ELSE LET handoff == Head(c.handoff) IN
         /\ c.reported # << >>
         /\ handoff.observation.status \in {"EXECUTED", "BLOCKED", "ERRORED", "REFUSED"}
         /\ ObservedUnder(AuthorizationRecord(c), handoff.observation, Head(c.reported))
         /\ handoff.join = DerivedJoin(Derived(c).state, handoff.integrity)

Verified(c) ==
    /\ Vocabulary(c) /\ NothingIsBlank(c) /\ ContextsAgree(c)
    /\ AsExpected(c)
    /\ HandoffHolds(c)
=============================================================================
