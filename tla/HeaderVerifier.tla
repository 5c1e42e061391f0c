---------------------------- MODULE HeaderVerifier ----------------------------
(***************************************************************************)
(* The decision of the gateway: verify() of                                *)
(* crates/proofpath-verifier/src/lib.rs on the x-proofpath-* headers of a  *)
(* request.  A header is Missing, "blank" (only white space) or a value;   *)
(* of the values only those of the reversibility class are told apart.     *)
(***************************************************************************)
CONSTANT Missing     \* a header that is not there

HeaderNames == {"intent_id", "causal_parent", "scope", "reversibility", "human_approval"}

Reversibilities == {"reversible", "compensatable", "irreversible"}

IsBlank(value) == value \in {Missing, "blank"}

(* VerificationResult: what reject() and block() fill in.                  *)
Reject(why) == [decision |-> "REJECT", reason |-> why,
                causal_valid |-> FALSE, scope_valid |-> FALSE]
BlockAction(why, h) ==
    [decision |-> "BLOCK", reason |-> why,
     causal_valid |-> ~IsBlank(h.causal_parent), scope_valid |-> ~IsBlank(h.scope)]
Accept == [decision |-> "ACCEPT", reason |-> "NONE",
           causal_valid |-> TRUE, scope_valid |-> TRUE]

NeedsHuman(h) == h.reversibility = "irreversible" /\ IsBlank(h.human_approval)

Verify(h) ==
    IF IsBlank(h.intent_id) THEN Reject("MISSING_INTENT")
    ELSE IF IsBlank(h.causal_parent) THEN Reject("MISSING_CAUSAL_PARENT")
    ELSE IF IsBlank(h.scope) THEN Reject("MISSING_SCOPE")
    ELSE IF h.reversibility = Missing THEN Reject("MISSING_REVERSIBILITY")
    ELSE IF h.reversibility \notin Reversibilities THEN Reject("INVALID_REVERSIBILITY")
    ELSE IF NeedsHuman(h) THEN BlockAction("IRREVERSIBLE_ACTION_REQUIRES_APPROVAL", h)
    ELSE Accept
=============================================================================
