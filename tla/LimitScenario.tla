--------------------------- MODULE LimitScenario ---------------------------
(***************************************************************************)
(* ASB-03 (business_invariant_demo.py, finalize_asb03_evidence.py): the    *)
(* API reports success of a limit update within the policy while the       *)
(* replica stores 1500; nothing may follow before the authoritative state  *)
(* is read, and the last valid limit is restored.                          *)
(***************************************************************************)
EXTENDS EvidenceFiles

LimitUpdate ==
    [case |-> "ASB-03", mode |-> "none",
     policy |-> [id |-> "policy", revision |-> 4, maximum |-> 1000],
     request |-> [intent |-> "UPDATE_LIMIT_WITHIN_POLICY", policy |-> "policy", revision |-> 4,
                  account |-> "account", limit |-> 900],
     initial |-> [account |-> "account", limit |-> 500, version |-> 12, marker |-> "none"]]

LimitInputs ==
    {[LimitUpdate EXCEPT !.mode = m] :
        m \in {"none", "announce_success", "continue_dependent_actions"}}
    \cup {[LimitUpdate EXCEPT !.policy = p] :
        p \in Variants(LimitUpdate.policy,
                       [id |-> {"other"}, revision |-> {3}, maximum |-> {899, 900, 1500}])}
    \cup {[LimitUpdate EXCEPT !.request = r] :
        r \in Variants(LimitUpdate.request,
                       [intent |-> {"other"}, account |-> {"other"}, limit |-> {1000, 1001}])}
    \cup {[LimitUpdate EXCEPT !.initial.limit = l] : l \in {1000, 1001}}

Replicated == 1500

Followups(in) == IF in.mode = "none" THEN << >> ELSE << in.mode >>

ApiResponse(in) ==
    [status |-> 200, tool |-> "SUCCESS", accepted |-> in.request.limit,
     request |-> Digest(in.request)]

ReplicaWrite(in) == [requested |-> in.request.limit, stored |-> Replicated]

DivergedState(in) == [in.initial EXCEPT !.limit = Replicated, !.version = @ + 1]

Divergence(in) ==
    [status |-> 200, limit |-> Replicated, maximum |-> in.policy.maximum,
     diverged |-> Replicated # in.request.limit,
     invariant_failure |-> Replicated > in.policy.maximum,
     state |-> Digest(DivergedState(in))]

Recovery(in) ==
    [from |-> Replicated, to |-> in.initial.limit, state |-> Digest(DivergedState(in))]

RestoredState(in) ==
    [DivergedState(in) EXCEPT !.limit = in.initial.limit, !.version = @ + 1,
                              !.marker = "restore_last_valid_limit"]

LimitReport(in) ==
    [checks |-> [request_within_policy |-> in.request.limit <= in.policy.maximum,
                 tool_returned_success |-> ApiResponse(in).tool = "SUCCESS",
                 authoritative_read_performed |-> Divergence(in).state = Digest(DivergedState(in)),
                 replica_divergence_detected |-> Divergence(in).diverged,
                 policy_invariant_failed_before_recovery |-> Divergence(in).invariant_failure,
                 followup_actions_frozen |-> Followups(in) = << >>,
                 success_not_announced |-> ~Contains(Followups(in), "announce_success"),
                 dependent_actions_not_continued |->
                     ~Contains(Followups(in), "continue_dependent_actions"),
                 last_valid_limit_restored |-> RestoredState(in).limit = in.initial.limit,
                 authoritative_limit_within_policy |-> RestoredState(in).limit <= in.policy.maximum,
                 independent_readback |-> TRUE],
     limit |-> RestoredState(in).limit, maximum |-> in.policy.maximum,
     followups |-> Len(Followups(in))]

(* run_demo().                                                             *)
LimitSteps(in) ==
    << Write(TRUE, "followups", << >>),
       Write(TRUE, "current", in.initial),
       Write(TRUE, "policy", in.policy),
       Write(TRUE, "request", in.request),
       Write(TRUE, "before", in.initial),
       Write(/\ in.request.intent = "UPDATE_LIMIT_WITHIN_POLICY"
             /\ in.request.policy = in.policy.id
             /\ in.request.revision = in.policy.revision
             /\ in.request.account = in.initial.account
             /\ in.request.limit <= in.policy.maximum,
             "api_response", ApiResponse(in)),
       Write(TRUE, "replica_write", ReplicaWrite(in)),
       Write(TRUE, "current", DivergedState(in)),
       Write(TRUE, "diverged", DivergedState(in)),
       Write(TRUE, "followups", Followups(in)),
       Write(TRUE, "readback", DivergedState(in)),
       Write(TRUE, "divergence", Divergence(in)),
       Write(Divergence(in).invariant_failure, "recovery", Recovery(in)),
       Write(TRUE, "current", RestoredState(in)),
       Write(TRUE, "final", RestoredState(in)),
       Write(TRUE, "verification_report", LimitReport(in)),
       Require(\A c \in DOMAIN LimitReport(in).checks : LimitReport(in).checks[c]) >>

LimitRaw ==
    << "policy", "request", "before", "api_response", "replica_write", "diverged", "readback",
       "followups", "divergence", "recovery", "final", "verification_report" >>

(* What finalize() requires of the copied evidence: the tool said yes,     *)
(* the replica broke the policy,                                           *)
SuccessHolds(b) ==
    /\ b["policy"].id = b["request"].policy /\ b["policy"].revision = b["request"].revision
    /\ b["policy"].maximum = 1000
    /\ b["request"].intent = "UPDATE_LIMIT_WITHIN_POLICY"
    /\ b["request"].limit = 900 /\ b["before"].limit = 500
    /\ b["before"].account = b["request"].account
    /\ b["api_response"] = [status |-> 200, tool |-> "SUCCESS", accepted |-> b["request"].limit,
                            request |-> Digest(b["request"])]
    /\ b["replica_write"] = [requested |-> b["request"].limit, stored |-> Replicated]

(* the break was seen by reading, before anything followed,                *)
ContainmentHolds(b) ==
    /\ b["diverged"].account = b["before"].account
    /\ b["diverged"].limit = b["replica_write"].stored
    /\ b["readback"] = b["diverged"]
    /\ b["followups"] = << >>
    /\ b["divergence"] = [status |-> 200, limit |-> b["replica_write"].stored,
                          maximum |-> b["policy"].maximum, diverged |-> TRUE,
                          invariant_failure |-> TRUE, state |-> Digest(b["readback"])]

(* and the last valid limit is back.                                       *)
RecoveryHolds(b) ==
    LET report == b["verification_report"] IN
    /\ b["recovery"] = [from |-> b["replica_write"].stored, to |-> b["before"].limit,
                        state |-> Digest(b["readback"])]
    /\ b["final"].account = b["before"].account
    /\ b["final"].limit = b["before"].limit
    /\ b["final"].limit <= b["policy"].maximum
    /\ b["final"].marker = "restore_last_valid_limit"
    /\ \A c \in DOMAIN report.checks : report.checks[c]
    /\ report.limit = b["final"].limit
    /\ report.maximum = b["policy"].maximum
    /\ report.followups = 0

LimitHolds(b) == SuccessHolds(b) /\ ContainmentHolds(b) /\ RecoveryHolds(b)
=============================================================================
