--------------------------- MODULE PaymentDecision ---------------------------
(***************************************************************************)
(* The decision procedure of the Agent Payment Guard:                      *)
(*   examples/agent-payment-guard/payment_guard.py  (decide,               *)
(*   verify_intent_envelope).                                              *)
(*                                                                         *)
(* The checks are kept in the order of the code, because the order decides *)
(* which reason is reported and whether the replay store is consulted at   *)
(* all.  The data are abstracted to what the checks tell apart:            *)
(*   - a proposal is a record of small values; None stands for a field     *)
(*     that is absent (or, for the three intent fields, empty);            *)
(*   - an amount is an integer, BadNumber (Decimal() refuses the text) or  *)
(*     NaN (Decimal() accepts it, but every ordering comparison raises);   *)
(*   - an envelope carries "authentic", the outcome of the algorithm, type,*)
(*     version and signature comparisons, instead of a digest.             *)
(***************************************************************************)
EXTENDS Integers, Sequences

CONSTANTS
    None,          \* an absent field
    BadNumber,     \* text Decimal() cannot parse
    NaN,           \* text Decimal() parses to a NaN
    NoEnvelope,    \* envelope is None
    NoNonce        \* nonce that is absent or empty

Decisions == {"ACCEPT", "HOLD", "BLOCK"}

Reasons ==
    {"INVALID_ACTION_TYPE", "ASSET_NOT_ALLOWED", "INVALID_AMOUNT", "INVALID_APPROVED_BUDGET",
     "OVER_BUDGET", "MISSING_PAYMENT_INTENT", "RECIPIENT_NOT_ALLOWED", "RECIPIENT_MISMATCH",
     "RECURRING_PAYMENT_REQUIRES_APPROVAL", "MISSING_INTENT_ENVELOPE",
     "PAYMENT_WITHIN_SCOPE_AND_BUDGET", "INTENT_REPLAYED", "INVALID_INTENT_SIGNATURE",
     "INTENT_EXPIRED", "INTENT_AGENT_MISMATCH", "INTENT_PURPOSE_MISMATCH",
     "INTENT_CAUSAL_PARENT_MISMATCH", "INTENT_ID_MISMATCH", "INTENT_PAYMENT_MODE_MISMATCH",
     "INTENT_ASSET_MISMATCH", "INTENT_RECIPIENT_MISMATCH", "INTENT_BUDGET_SCOPE_MISMATCH",
     "INTENT_AMOUNT_EXCEEDED", "PAYMENT_WITHIN_SIGNED_INTENT_ENVELOPE"}

(* A verdict is a decision with its reason.  Two further values are not    *)
(* decisions: "UNDECIDED" lets the next group of checks run, and "RAISED"  *)
(* is an exception that leaves decide().                                   *)
Verdict(d, why) == [decision |-> d, reason |-> why]
Undecided == Verdict("UNDECIDED", "NONE")
Raised    == Verdict("RAISED", "InvalidOperation")
Block(why) == Verdict("BLOCK", why)

IsNumber(x) == x \notin {BadNumber, NaN, None}

(* The comparison a > b of two decimals, where it has a value.             *)
Exceeds(a, b) == IsNumber(a) /\ IsNumber(b) /\ a > b

(* The comparison raises when either side is a NaN.                        *)
CompareRaises(a, b) == NaN \in {a, b}

(* A list of checks <<applies, verdict>> is an if/return ladder: the first *)
(* check that applies decides.                                             *)
FirstThatApplies(checks, otherwise) ==
    LET hits == {i \in DOMAIN checks : checks[i][1]}
    IN  IF hits = {} THEN otherwise
        ELSE checks[CHOOSE i \in hits : \A j \in hits : i <= j][2]

Budget(p, policy) ==
    IF p.approved_budget = None THEN policy.default_approved_budget
                                ELSE p.approved_budget

(* Mutant of RecipientNotAllowed: an empty list means no restriction.      *)
RecipientNotListed(p, policy) ==
    policy.allowed_recipients # {} /\ p.recipient \notin policy.allowed_recipients

RecipientNotAllowed(p, policy) == p.recipient \notin policy.allowed_recipients

(* Mutant of NeedsApproval: the approval given is not looked at.           *)
NeedsApprovalAlways(p, policy) ==
    p.payment_mode = "recurring" /\ policy.recurring_needs_approval

NeedsApproval(p, policy) ==
    /\ p.payment_mode = "recurring"
    /\ policy.recurring_needs_approval
    /\ ~p.recurring_approval

EnvelopeMissing(envelope, strict) == envelope = NoEnvelope /\ strict

(* decide(), down to the point where the envelope is looked at.            *)
PolicyChecks(p, policy, envelope, strict) ==
      << <<p.action_type # "agent_payment",       Block("INVALID_ACTION_TYPE")>>,
         <<p.asset \notin policy.allowed_assets,  Block("ASSET_NOT_ALLOWED")>>,
         <<p.amount \in {BadNumber, None},        Block("INVALID_AMOUNT")>>,
         <<Budget(p, policy) = BadNumber,         Block("INVALID_APPROVED_BUDGET")>>,
         <<CompareRaises(p.amount, Budget(p, policy)), Raised>>,
         <<Exceeds(p.amount, Budget(p, policy)),  Block("OVER_BUDGET")>>,
         <<None \in {p.purpose, p.human_intent_id, p.causal_parent},
                                                  Block("MISSING_PAYMENT_INTENT")>>,
         <<RecipientNotAllowed(p, policy),        Block("RECIPIENT_NOT_ALLOWED")>>,
         <<p.approved_recipient \notin {None, p.recipient},
                                                  Block("RECIPIENT_MISMATCH")>>,
         <<NeedsApproval(p, policy),
                            Verdict("HOLD", "RECURRING_PAYMENT_REQUIRES_APPROVAL")>>,
         <<EnvelopeMissing(envelope, strict),     Block("MISSING_INTENT_ENVELOPE")>>,
         <<envelope = NoEnvelope,
                            Verdict("ACCEPT", "PAYMENT_WITHIN_SCOPE_AND_BUDGET")>> >>

PolicyVerdict(p, policy, envelope, strict) ==
    FirstThatApplies(PolicyChecks(p, policy, envelope, strict), Undecided)

(* Mutant of Expired: an envelope is still good at its expiry.             *)
ExpiredAfter(e, now) == IF e.expires_at = None THEN TRUE ELSE e.expires_at < now

(* An expiry that parse_ts() cannot read is None.                          *)
Expired(e, now) == IF e.expires_at = None THEN TRUE ELSE e.expires_at <= now

(* verify_intent_envelope(): the signed envelope must authorise exactly    *)
(* this proposal at time now.                                              *)
EnvelopeChecks(p, e, now) ==
      << <<~e.authentic,                             Block("INVALID_INTENT_SIGNATURE")>>,
         <<Expired(e, now),                          Block("INTENT_EXPIRED")>>,
         <<p.agent_id # e.subject_agent_id,          Block("INTENT_AGENT_MISMATCH")>>,
         <<p.purpose # e.purpose,                    Block("INTENT_PURPOSE_MISMATCH")>>,
         <<p.causal_parent # e.causal_parent,        Block("INTENT_CAUSAL_PARENT_MISMATCH")>>,
         <<p.human_intent_id # e.human_intent_id,    Block("INTENT_ID_MISMATCH")>>,
         <<p.payment_mode # e.payment_mode,          Block("INTENT_PAYMENT_MODE_MISMATCH")>>,
         <<p.asset # e.allowed_asset,                Block("INTENT_ASSET_MISMATCH")>>,
         <<p.recipient # e.allowed_recipient,        Block("INTENT_RECIPIENT_MISMATCH")>>,
         <<p.budget_scope # e.budget_scope,          Block("INTENT_BUDGET_SCOPE_MISMATCH")>>,
         <<{p.amount, e.max_amount} \cap {BadNumber, None} # {},
                                                     Block("INVALID_AMOUNT")>>,
         <<CompareRaises(p.amount, e.max_amount),    Raised>>,
         <<Exceeds(p.amount, e.max_amount),          Block("INTENT_AMOUNT_EXCEEDED")>> >>

EnvelopeVerdict(p, e, now) ==
    FirstThatApplies(EnvelopeChecks(p, e, now),
                     Verdict("ACCEPT", "PAYMENT_WITHIN_SIGNED_INTENT_ENVELOPE"))

(* Mutants of Decide: an envelope replaces the policy checks; the replay   *)
(* lookup comes after the verification.                                    *)
DecideEnvelopeInstead(p, policy, envelope, strict, spent, now) ==
    IF envelope = NoEnvelope THEN PolicyVerdict(p, policy, envelope, strict)
    ELSE IF spent /\ envelope.nonce # NoNonce THEN Block("INTENT_REPLAYED")
    ELSE EnvelopeVerdict(p, envelope, now)
DecideVerifyFirst(p, policy, envelope, strict, spent, now) ==
    LET first == PolicyVerdict(p, policy, envelope, strict)
        signed == EnvelopeVerdict(p, envelope, now)
    IN  IF first # Undecided THEN first
        ELSE IF signed.decision = "ACCEPT" /\ spent /\ envelope.nonce # NoNonce
             THEN Block("INTENT_REPLAYED") ELSE signed

(* decide() as a whole, when the replay lookup answers "spent": the lookup *)
(* comes before the envelope is verified, and a nonce that is absent or    *)
(* empty never counts as spent.                                            *)
Decide(p, policy, envelope, strict, spent, now) ==
    LET first == PolicyVerdict(p, policy, envelope, strict) IN
    IF first # Undecided THEN first
    ELSE IF spent /\ envelope.nonce # NoNonce THEN Block("INTENT_REPLAYED")
    ELSE EnvelopeVerdict(p, envelope, now)
=============================================================================
