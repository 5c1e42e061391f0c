------------------------ MODULE PaymentDecisionTable ------------------------
(***************************************************************************)
(* The inputs of the decision procedure, walked one field at a time.       *)
(*                                                                         *)
(* The state is a submission: a proposal, an envelope and the policy in    *)
(* force.  A step edits one field of one of them to one of its interesting *)
(* values, so that the reachable states are all submissions that differ    *)
(* from the base submission in at most MaxEdits fields.  The properties    *)
(* relate the verdicts of several submissions, which no single call shows. *)
(***************************************************************************)
EXTENDS PaymentDecision, FiniteSets

CONSTANTS
    BaseProposal, BaseEnvelope, BasePolicy,            \* an accepted submission
    ProposalValues, EnvelopeValues, PolicyValues,      \* field |-> set of values
    Times,                                             \* values of the clock
    MaxEdits                                           \* bound: edits from the base

ProposalFields ==
    {"action_type", "asset", "amount", "approved_budget", "purpose", "human_intent_id",
     "causal_parent", "recipient", "approved_recipient", "payment_mode", "recurring_approval",
     "agent_id", "budget_scope"}

EnvelopeFields ==
    {"authentic", "expires_at", "subject_agent_id", "purpose", "causal_parent", "human_intent_id",
     "payment_mode", "allowed_asset", "allowed_recipient", "budget_scope", "max_amount", "nonce"}

PolicyFields ==
    {"allowed_assets", "allowed_recipients", "default_approved_budget", "recurring_needs_approval"}

(* The values a field takes: those of the base submission and the edits.   *)
ValuesOf(base, values, f) == values[f] \cup {base[f]}

IsTable(base, values, fields) ==
    base = [f \in fields |-> base[f]] /\ DOMAIN values = fields

Amounts == Int \cup {BadNumber, NaN, None}

EnvelopeRecords ==
    LET V(f) == ValuesOf(BaseEnvelope, EnvelopeValues, f) IN
    [authentic : V("authentic"), expires_at : V("expires_at"),
     subject_agent_id : V("subject_agent_id"), purpose : V("purpose"),
     causal_parent : V("causal_parent"), human_intent_id : V("human_intent_id"),
     payment_mode : V("payment_mode"), allowed_asset : V("allowed_asset"),
     allowed_recipient : V("allowed_recipient"), budget_scope : V("budget_scope"),
     max_amount : V("max_amount"), nonce : V("nonce")]

(* Amounts are numbers or one of the ways not to be one, and the absence   *)
(* of an envelope is no envelope.                                          *)
ASSUME TableAssumption ==
    /\ Times \subseteq Int
    /\ MaxEdits \in Nat
    /\ IsTable(BaseProposal, ProposalValues, ProposalFields)
    /\ IsTable(BaseEnvelope, EnvelopeValues, EnvelopeFields)
    /\ IsTable(BasePolicy, PolicyValues, PolicyFields)
    /\ \A f \in {"amount", "approved_budget"} :
          \A v \in ValuesOf(BaseProposal, ProposalValues, f) : v \in Amounts
    /\ \A v \in ValuesOf(BasePolicy, PolicyValues, "default_approved_budget") : v \in Amounts
    /\ \A v \in ValuesOf(BaseEnvelope, EnvelopeValues, "max_amount") : v \in Amounts
    /\ \A v \in ValuesOf(BaseEnvelope, EnvelopeValues, "expires_at") : v \in Int \cup {None}
    /\ NoEnvelope \notin EnvelopeRecords

VARIABLES proposal, envelope, policy, edits
vars == <<proposal, envelope, policy, edits>>

Init ==
    /\ proposal = BaseProposal
    /\ envelope = BaseEnvelope
    /\ policy = BasePolicy
    /\ edits = 0

EditProposal ==
    /\ \E f \in DOMAIN ProposalValues : \E v \in ProposalValues[f] :
          proposal' = [proposal EXCEPT ![f] = v]
    /\ UNCHANGED <<envelope, policy>>

EditEnvelope ==
    /\ \E f \in DOMAIN EnvelopeValues : \E v \in EnvelopeValues[f] :
          envelope' = [envelope EXCEPT ![f] = v]
    /\ UNCHANGED <<proposal, policy>>

EditPolicy ==
    /\ \E f \in DOMAIN PolicyValues : \E v \in PolicyValues[f] :
          policy' = [policy EXCEPT ![f] = v]
    /\ UNCHANGED <<proposal, envelope>>

Edit ==
    /\ edits < MaxEdits
    /\ edits' = edits + 1
    /\ EditProposal \/ EditEnvelope \/ EditPolicy

StartOver ==
    /\ edits > 0
    /\ proposal' = BaseProposal
    /\ envelope' = BaseEnvelope
    /\ policy' = BasePolicy
    /\ edits' = 0

Next == Edit \/ StartOver

Spec == Init /\ [][Next]_vars

-----------------------------------------------------------------------------
Accepts(p, pol, e, strict, spent, now) ==
    Decide(p, pol, e, strict, spent, now).decision = "ACCEPT"

(* A signed envelope only narrows what the policy allows: whatever is      *)
(* accepted with an envelope is accepted without one when none is required *)
(* (decide() runs the whole policy ladder before the envelope).            *)
EnvelopeOnlyNarrows ==
    \A strict \in BOOLEAN, now \in Times :
        Accepts(proposal, policy, envelope, strict, FALSE, now)
            => Accepts(proposal, policy, NoEnvelope, FALSE, FALSE, now)

(* Tightening the policy file never admits a payment: what is accepted     *)
(* with fewer assets, fewer recipients or approval of recurring payments   *)
(* required is accepted under the looser policy (the empty list allows     *)
(* nothing, it does not mean "no restriction").                            *)
TighterPolicyNeverAdmits ==
    \A assets \in SUBSET policy.allowed_assets,
       recipients \in SUBSET policy.allowed_recipients,
       approval \in {TRUE, policy.recurring_needs_approval},
       e \in {envelope, NoEnvelope}, strict \in BOOLEAN, now \in Times :
        LET tighter == [policy EXCEPT !.allowed_assets = assets,
                                      !.allowed_recipients = recipients,
                                      !.recurring_needs_approval = approval]
        IN  Accepts(proposal, tighter, e, strict, FALSE, now)
                => Accepts(proposal, policy, e, strict, FALSE, now)

(* A HOLD waits for the recurring approval and for nothing else: granting  *)
(* it gives the verdict the guard would give where no approval is needed,  *)
(* and that verdict is not another HOLD.                                   *)
HoldWaitsOnlyForApproval ==
    \A e \in {envelope, NoEnvelope}, strict, spent \in BOOLEAN, now \in Times :
        LET granted == [proposal EXCEPT !.recurring_approval = TRUE]
            lenient == [policy EXCEPT !.recurring_needs_approval = FALSE]
            after   == Decide(granted, policy, e, strict, spent, now)
        IN  Decide(proposal, policy, e, strict, spent, now).decision = "HOLD"
            => /\ after = Decide(proposal, lenient, e, strict, spent, now)
               /\ after.decision # "HOLD"

(* Once an envelope's nonce is spent the answer to the same submission is  *)
(* frozen: it does not change as the envelope expires, because the replay  *)
(* lookup precedes every check of the envelope, and it is never ACCEPT.    *)
SpentAnswerIsStable ==
    envelope.nonce # NoNonce =>
        \A strict \in BOOLEAN, t1, t2 \in Times :
            LET answer(t) == Decide(proposal, policy, envelope, strict, TRUE, t)
            IN  answer(t1) = answer(t2) /\ answer(t1).decision # "ACCEPT"

(* Acceptance is monotone.  A smaller amount of an accepted proposal is    *)
(* accepted (budget and envelope maximum are ceilings); what is accepted   *)
(* was acceptable at every earlier time, and is no longer at its expiry;   *)
(* requiring signed intent only takes acceptances away, and says why.      *)
SmallerAmountStaysAccepted(e, now) ==
    \A smaller \in {v \in ProposalValues.amount : IsNumber(v)} :
        /\ IsNumber(proposal.amount) /\ smaller <= proposal.amount
        /\ Accepts(proposal, policy, e, FALSE, FALSE, now)
        => Accepts([proposal EXCEPT !.amount = smaller], policy, e, FALSE, FALSE, now)

TimeOnlyCloses(earlier, now) ==
    \A strict \in BOOLEAN :
        earlier <= now /\ Accepts(proposal, policy, envelope, strict, FALSE, now)
        => /\ Accepts(proposal, policy, envelope, strict, FALSE, earlier)
           /\ envelope.expires_at > now

StrictOnlyRefuses(e, now) ==
    \A spent \in BOOLEAN :
        LET strict == Decide(proposal, policy, e, TRUE, spent, now)
            lax    == Decide(proposal, policy, e, FALSE, spent, now)
        IN  strict # lax =>
                strict = Block("MISSING_INTENT_ENVELOPE") /\ lax.decision = "ACCEPT"

AcceptanceIsMonotone ==
    \A now \in Times :
        /\ \A earlier \in Times : TimeOnlyCloses(earlier, now)
        /\ \A e \in {envelope, NoEnvelope} :
              SmallerAmountStaysAccepted(e, now) /\ StrictOnlyRefuses(e, now)
=============================================================================
