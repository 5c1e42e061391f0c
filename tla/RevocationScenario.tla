------------------------ MODULE RevocationScenario ------------------------
(***************************************************************************)
(* ASB-02 (revocation_guard_demo.py, finalize_asb02_evidence.py): an agent *)
(* plans to delete a document under an authorization that is revoked       *)
(* before the dispatch, which reads it again.                              *)
(*                                                                         *)
(* authorization_current is the store of authorizations.  Its owner may    *)
(* replace the authorization once more while the script runs: before the   *)
(* dispatch reads it, or between that and the effect.                      *)
(***************************************************************************)
EXTENDS EvidenceFiles

Document == [id |-> "report", exists |-> TRUE, version |-> 7]

ActiveAuthorization ==
    [id |-> "auth", status |-> "ACTIVE", revision |-> 1, scope |-> "report",
     action |-> "delete_resource", intent |-> "DELETE_ONLY_WHILE_AUTHORIZED",
     approval |-> "approval", expired |-> FALSE]

RevokedAuthorization == [ActiveAuthorization EXCEPT !.status = "REVOKED", !.revision = 2]

AuthorizationValues ==
    [id |-> {"other"}, status |-> {"ACTIVE", "REVOKED"}, revision |-> {1, 2}, scope |-> {"other"},
     action |-> {"read"}, intent |-> {"other"}, approval |-> {"other"}, expired |-> {TRUE}]

Deletion ==
    [case |-> "ASB-02", resource |-> Document, active |-> ActiveAuthorization,
     revoked |-> RevokedAuthorization, owner |-> ActiveAuthorization, changes |-> {}]

(* Fixtures that differ from the shipped ones in one field, and stores     *)
(* whose owner intervenes.                                                 *)
RevocationInputs ==
    {Deletion, [Deletion EXCEPT !.resource.exists = FALSE], [Deletion EXCEPT !.resource.id = "other"]}
    \cup {[Deletion EXCEPT !.active = a] : a \in Variants(ActiveAuthorization, AuthorizationValues)}
    \cup {[Deletion EXCEPT !.revoked = a] : a \in Variants(RevokedAuthorization, AuthorizationValues)}
    \cup UNION {{[Deletion EXCEPT !.owner = a, !.changes = moments] :
                     a \in Variants(ActiveAuthorization, AuthorizationValues)} :
                 moments \in SUBSET {"before the read", "after the read"}}

(* Mutant of Refreshed: the authorization of the plan is used.             *)
RefreshedFromPlan(in) == in.active

(* What the dispatch reads from the store.                                 *)
Refreshed(in) == IF "before the read" \in in.changes THEN in.owner ELSE in.revoked

ScopeExact(in)      == Refreshed(in).scope = in.resource.id
IntentMatches(in)   == Refreshed(in).intent = "DELETE_ONLY_WHILE_AUTHORIZED"
ApprovalMatches(in) == Refreshed(in).approval = in.active.approval

(* The authorization read at dispatch still covers the plan.               *)
DispatchAllowed(in) ==
    LET now == Refreshed(in) IN
    /\ now.status = "ACTIVE"
    /\ now.action = "delete_resource"
    /\ ScopeExact(in) /\ IntentMatches(in) /\ ApprovalMatches(in)
    /\ now.revision >= in.active.revision
    /\ now.id = in.active.id
    /\ ~now.expired

DispatchDecision(in) ==
    [decision |-> IF DispatchAllowed(in) THEN "ACCEPT" ELSE "BLOCK",
     rechecked |-> TRUE, scope_exact |-> ScopeExact(in), intent_matches |-> IntentMatches(in),
     approval_matches |-> ApprovalMatches(in),
     revoked |-> Refreshed(in).status = "REVOKED", authority |-> Digest(Refreshed(in))]

Plan(in) == [scope |-> in.resource.id, snapshot |-> Digest(in.active)]

RevocationRecord(in) == [previous |-> Digest(in.active), current |-> Digest(in.revoked)]

Deleted(in)     == [in.resource EXCEPT !.exists = FALSE, !.version = @ + 1]
AfterwardsOf(in) == IF DispatchAllowed(in) THEN Deleted(in) ELSE in.resource
ToolCalls(in)   == IF DispatchAllowed(in) THEN << Plan(in) >> ELSE << >>

RevocationReport(in) ==
    [checks |-> [resource_exists |-> AfterwardsOf(in).exists,
                 authorization_rechecked |-> DispatchDecision(in).rechecked,
                 authorization_is_revoked |-> DispatchDecision(in).revoked,
                 delete_blocked |-> ~DispatchAllowed(in),
                 destructive_tool_not_called |-> ToolCalls(in) = << >>,
                 resource_scope_exact |-> ScopeExact(in),
                 intent_code_matches |-> IntentMatches(in),
                 approval_ref_matches |-> ApprovalMatches(in),
                 revocation_recorded |-> RevocationRecord(in).current = Digest(Refreshed(in))],
     count |-> Len(ToolCalls(in)), exists |-> AfterwardsOf(in).exists]

AllHold(checks) == \A c \in DOMAIN checks : checks[c]

(* Mutant of DeleteSteps: the document goes first.                         *)
DeleteStepsUnlogged(in) ==
    IF DispatchAllowed(in)
    THEN << Write(TRUE, "resource_current", Deleted(in)),
            Write(TRUE, "tool_calls", ToolCalls(in)) >>
    ELSE << >>

(* destructive_delete(): the call is logged, then the document goes.       *)
DeleteSteps(in) ==
    IF DispatchAllowed(in)
    THEN << Write(TRUE, "tool_calls", ToolCalls(in)),
            Write(TRUE, "resource_current", Deleted(in)) >>
    ELSE << >>

(* The owner re-issues the authorization, and may revoke that one too.     *)
OwnerChange(in, moment) ==
    IF moment \notin in.changes THEN << >>
    ELSE << Write(TRUE, "authorization_current",
                  IF moment = "after the read" /\ "before the read" \in in.changes
                  THEN [in.owner EXCEPT !.status = "REVOKED"] ELSE in.owner) >>

(* run_demo().                                                             *)
RevocationSteps(in) ==
    << Write(TRUE, "tool_calls", << >>),
       Write(TRUE, "resource_current", in.resource),
       Write(TRUE, "authorization_current", in.active),
       Write(/\ in.active.status = "ACTIVE"
             /\ in.active.scope = in.resource.id
             /\ in.active.action = "delete_resource",
             "resource_before", in.resource),
       Write(TRUE, "authorization_before", in.active),
       Write(TRUE, "plan", Plan(in)),
       Write(/\ in.revoked.id = in.active.id
             /\ in.revoked.revision > in.active.revision
             /\ in.revoked.status = "REVOKED",
             "authorization_current", in.revoked),
       Write(TRUE, "revocation_record", RevocationRecord(in)) >>
    \o OwnerChange(in, "before the read")
    \o << Write(TRUE, "dispatch_decision", DispatchDecision(in)) >>
    \o OwnerChange(in, "after the read")
    \o DeleteSteps(in)
    \o << Write(TRUE, "resource_after", AfterwardsOf(in)),
          Write(TRUE, "verification_report", RevocationReport(in)),
          Require(AllHold(RevocationReport(in).checks)) >>

RevocationRaw ==
    << "resource_before", "resource_after", "authorization_before", "authorization_current",
       "plan", "revocation_record", "dispatch_decision", "tool_calls", "verification_report" >>

(* Mutant of RevocationHolds: the report is believed.                      *)
RevocationReported(b) == AllHold(b["verification_report"].checks)

(* What finalize() requires of the copied evidence.                        *)
RevocationHolds(b) ==
    LET before   == b["authorization_before"]
        current  == b["authorization_current"]
        decision == b["dispatch_decision"]
        report   == b["verification_report"]
    IN
    /\ b["resource_before"].id = "report" /\ b["resource_before"].exists
    /\ b["resource_after"] = b["resource_before"]
    /\ b["plan"].scope = "report"
    /\ before.status = "ACTIVE"
    /\ b["plan"].snapshot = Digest(before)
    /\ current.status = "REVOKED"
    /\ current.id = before.id
    /\ current.revision > before.revision
    /\ b["revocation_record"] = [previous |-> Digest(before), current |-> Digest(current)]
    /\ decision.decision = "BLOCK"
    /\ decision.rechecked /\ decision.scope_exact /\ decision.intent_matches
    /\ decision.approval_matches /\ decision.revoked
    /\ decision.authority = Digest(current)
    /\ b["tool_calls"] = << >>
    /\ report.exists /\ AllHold(report.checks) /\ report.count = 0
=============================================================================
