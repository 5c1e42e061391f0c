---------------------- MODULE PaymentDecisionTableProofs ----------------------
(***************************************************************************)
(* Five properties of the decision procedure for every submission, policy  *)
(* and time, not only those the table enumerates.  They rest on what an    *)
(* acceptance means: none of the first eleven checks of the policy ladder  *)
(* applied, and the envelope, if any, was accepted too.                    *)
(***************************************************************************)
EXTENDS PaymentDecisionTable, TLAPS, WellFoundedInduction

-----------------------------------------------------------------------------
(* Ladders of checks.                                                      *)

(* A nonempty set of naturals has a least element.                         *)
LEMMA LeastElement ==
    ASSUME NEW S \in SUBSET Nat, S # {}
    PROVE  \E i \in S : \A j \in S : i <= j
<1>1. \E i \in S : \A j \in S : ~ (<<j, i>> \in OpToRel(<, Nat))
  BY NatLessThanWellFounded, WFMin
<1>2. ASSUME NEW i \in S, NEW j \in S, ~ (<<j, i>> \in OpToRel(<, Nat))
      PROVE  i <= j
  BY <1>2 DEF OpToRel
<1> QED
  BY <1>1, <1>2

(* A ladder returns the verdict of one of its checks or the default.       *)
LEMMA LadderReturnsAVerdict ==
    ASSUME NEW V, NEW n \in Nat, NEW checks, DOMAIN checks = 1..n,
           \A i \in 1..n : checks[i][2] \in V,
           NEW otherwise \in V
    PROVE  FirstThatApplies(checks, otherwise) \in V
<1> DEFINE hits == {i \in DOMAIN checks : checks[i][1]}
<1>1. CASE hits = {}
  BY <1>1 DEF FirstThatApplies
<1>2. CASE hits # {}
  <2>1. hits \in SUBSET Nat
    OBVIOUS
  <2>2. (CHOOSE i \in hits : \A j \in hits : i <= j) \in hits
    BY <1>2, <2>1, LeastElement
  <2> QED
    BY <1>2, <2>2 DEF FirstThatApplies
<1> QED
  BY <1>1, <1>2

(* If a ladder returns a default that no check returns, no check applied.  *)
LEMMA LadderFallsThrough ==
    ASSUME NEW n \in Nat, NEW checks, DOMAIN checks = 1..n,
           NEW otherwise, \A i \in 1..n : checks[i][2] # otherwise,
           FirstThatApplies(checks, otherwise) = otherwise
    PROVE  \A i \in 1..n : ~ checks[i][1]
<1> DEFINE hits == {i \in DOMAIN checks : checks[i][1]}
<1>1. ASSUME hits # {} PROVE FALSE
  <2>1. hits \in SUBSET Nat
    OBVIOUS
  <2>2. (CHOOSE i \in hits : \A j \in hits : i <= j) \in hits
    BY <1>1, <2>1, LeastElement
  <2> QED
    BY <1>1, <2>2 DEF FirstThatApplies
<1> QED
  BY <1>1

(* A verdict of a ladder that is not the default comes from a check that   *)
(* applied, and none before it did.                                        *)
LEMMA LadderDecider ==
    ASSUME NEW n \in Nat, NEW checks, DOMAIN checks = 1..n, NEW otherwise,
           FirstThatApplies(checks, otherwise) # otherwise
    PROVE  \E i \in 1..n : /\ checks[i][1]
                           /\ FirstThatApplies(checks, otherwise) = checks[i][2]
                           /\ \A j \in 1..n : j < i => ~ checks[j][1]
<1> DEFINE hits == {k \in DOMAIN checks : checks[k][1]}
           first == CHOOSE k \in hits : \A j \in hits : k <= j
<1>1. hits # {}
  BY DEF FirstThatApplies
<1>2. first \in hits /\ \A j \in hits : first <= j
  <2>1. hits \in SUBSET Nat
    OBVIOUS
  <2> QED
    BY <1>1, <2>1, LeastElement
<1>3. \A j \in 1..n : j < first => ~ checks[j][1]
  BY <1>2
<1> QED
  BY <1>1, <1>2, <1>3 DEF FirstThatApplies

-----------------------------------------------------------------------------
PolicyPasses(p, pol, e, strict) ==
    \A i \in 1..11 : ~ PolicyChecks(p, pol, e, strict)[i][1]

(* The eleven refusals, one by one.                                        *)
LEMMA PassingMeans ==
    ASSUME NEW p, NEW pol, NEW e, NEW strict
    PROVE  PolicyPasses(p, pol, e, strict) <=>
               /\ p.action_type = "agent_payment"
               /\ p.asset \in pol.allowed_assets
               /\ p.amount \notin {BadNumber, None}
               /\ Budget(p, pol) # BadNumber
               /\ ~ CompareRaises(p.amount, Budget(p, pol))
               /\ ~ Exceeds(p.amount, Budget(p, pol))
               /\ None \notin {p.purpose, p.human_intent_id, p.causal_parent}
               /\ ~ RecipientNotAllowed(p, pol)
               /\ p.approved_recipient \in {None, p.recipient}
               /\ ~ NeedsApproval(p, pol)
               /\ ~ EnvelopeMissing(e, strict)
<1> DEFINE checks == PolicyChecks(p, pol, e, strict)
<1>1. PolicyPasses(p, pol, e, strict) <=>
          /\ ~ checks[1][1] /\ ~ checks[2][1] /\ ~ checks[3][1] /\ ~ checks[4][1]
          /\ ~ checks[5][1] /\ ~ checks[6][1] /\ ~ checks[7][1] /\ ~ checks[8][1]
          /\ ~ checks[9][1] /\ ~ checks[10][1] /\ ~ checks[11][1]
  <2>1. \A i \in 1..11 : i \in {1, 2, 3, 4, 5, 6, 7, 8, 9, 10, 11}
    OBVIOUS
  <2> HIDE DEF checks
  <2> QED
    BY <2>1 DEF PolicyPasses, checks
<1> QED
  BY <1>1 DEF PolicyChecks

(* What the policy ladder says once none of its refusals applies.          *)
LEMMA PassingVerdict ==
    ASSUME NEW p, NEW pol, NEW e, NEW strict, PolicyPasses(p, pol, e, strict)
    PROVE  PolicyVerdict(p, pol, e, strict) =
               IF e = NoEnvelope THEN Verdict("ACCEPT", "PAYMENT_WITHIN_SCOPE_AND_BUDGET")
                                 ELSE Undecided
<1> DEFINE checks == PolicyChecks(p, pol, e, strict)
<1>1. DOMAIN checks = 1..12
  BY DEF PolicyChecks
<1>2. checks[12][1] <=> e = NoEnvelope
  BY DEF PolicyChecks
<1>3. checks[12][2] = Verdict("ACCEPT", "PAYMENT_WITHIN_SCOPE_AND_BUDGET")
  BY DEF PolicyChecks
<1>4. \A i \in 1..11 : ~ checks[i][1]
  BY DEF PolicyPasses
<1>5. \A i \in 1..12 : checks[i][2] # Undecided
  BY DEF PolicyChecks, Undecided, Block, Raised, Verdict
<1> HIDE DEF checks
<1>6. CASE e = NoEnvelope
  <2>1. FirstThatApplies(checks, Undecided) # Undecided
    <3>1. ASSUME FirstThatApplies(checks, Undecided) = Undecided PROVE FALSE
      <4>1. \A i \in 1..12 : ~ checks[i][1]
        BY <1>1, <1>5, <3>1, LadderFallsThrough
      <4> QED
        BY <1>2, <4>1, <1>6
    <3> QED
      BY <3>1
  <2>2. PICK i \in 1..12 : /\ checks[i][1]
                           /\ FirstThatApplies(checks, Undecided) = checks[i][2]
                           /\ \A j \in 1..12 : j < i => ~ checks[j][1]
    <3>1. 12 \in Nat
      OBVIOUS
    <3> QED
      BY <1>1, <2>1, <3>1, LadderDecider, Zenon
  <2>3. i = 12
    BY <1>4, <2>2
  <2> QED
    BY <1>3, <1>6, <2>2, <2>3 DEF PolicyVerdict, checks
<1>7. CASE e # NoEnvelope
  <2>1. \A i \in 1..12 : ~ checks[i][1]
    BY <1>2, <1>4, <1>7
  <2>2. FirstThatApplies(checks, Undecided) = Undecided
    BY <1>1, <2>1, LadderDecider
  <2> QED
    BY <1>7, <2>2 DEF PolicyVerdict, checks
<1> QED
  BY <1>6, <1>7

(* The ladder neither accepts nor passes the case on unless its refusals   *)
(* all fail to apply.                                                      *)
LEMMA OnlyPassingAccepts ==
    ASSUME NEW p, NEW pol, NEW e, NEW strict,
           PolicyVerdict(p, pol, e, strict).decision \in {"ACCEPT", "UNDECIDED"}
    PROVE  PolicyPasses(p, pol, e, strict)
<1> DEFINE checks == PolicyChecks(p, pol, e, strict)
<1>1. DOMAIN checks = 1..12
  BY DEF PolicyChecks
<1>2. \A i \in 1..11 : checks[i][2].decision \in {"BLOCK", "HOLD", "RAISED"}
  BY DEF PolicyChecks, Block, Raised, Verdict
<1>3. \A i \in 1..12 : checks[i][2] # Undecided
  BY DEF PolicyChecks, Undecided, Block, Raised, Verdict
<1>4. PolicyVerdict(p, pol, e, strict) = FirstThatApplies(checks, Undecided)
  BY DEF PolicyVerdict
<1> HIDE DEF checks
<1>5. CASE FirstThatApplies(checks, Undecided) = Undecided
  <2>1. \A i \in 1..12 : ~ checks[i][1]
    BY <1>1, <1>3, <1>5, LadderFallsThrough
  <2> QED
    BY <2>1 DEF PolicyPasses, checks
<1>6. CASE FirstThatApplies(checks, Undecided) # Undecided
  <2>1. PICK i \in 1..12 : /\ checks[i][1]
                           /\ FirstThatApplies(checks, Undecided) = checks[i][2]
                           /\ \A j \in 1..12 : j < i => ~ checks[j][1]
    <3>1. 12 \in Nat
      OBVIOUS
    <3> QED
      BY <1>1, <1>6, <3>1, LadderDecider, Zenon
  <2>2. i = 12
    BY <1>2, <1>4, <2>1
  <2>3. \A j \in 1..11 : ~ checks[j][1]
    BY <2>1, <2>2
  <2> QED
    BY <2>3 DEF PolicyPasses, checks
<1> QED
  BY <1>5, <1>6

(* What an acceptance of a submission means.                               *)
LEMMA AcceptanceMeans ==
    ASSUME NEW p, NEW pol, NEW e, NEW strict, NEW now
    PROVE  Accepts(p, pol, e, strict, FALSE, now) <=>
               /\ PolicyPasses(p, pol, e, strict)
               /\ e = NoEnvelope \/ EnvelopeVerdict(p, e, now).decision = "ACCEPT"
<1> DEFINE first == PolicyVerdict(p, pol, e, strict)
<1>1. ASSUME Accepts(p, pol, e, strict, FALSE, now)
      PROVE  /\ PolicyPasses(p, pol, e, strict)
             /\ e = NoEnvelope \/ EnvelopeVerdict(p, e, now).decision = "ACCEPT"
  <2>1. \/ first # Undecided /\ first.decision = "ACCEPT"
        \/ first = Undecided /\ EnvelopeVerdict(p, e, now).decision = "ACCEPT"
    BY <1>1 DEF Accepts, Decide
  <2>2. first.decision \in {"ACCEPT", "UNDECIDED"}
    BY <2>1 DEF Undecided, Verdict
  <2>3. PolicyPasses(p, pol, e, strict)
    BY <2>2, OnlyPassingAccepts
  <2>4. CASE e = NoEnvelope
    BY <2>3, <2>4
  <2>5. CASE e # NoEnvelope
    BY <2>1, <2>3, <2>5, PassingVerdict
  <2> QED
    BY <2>4, <2>5
<1>2. ASSUME PolicyPasses(p, pol, e, strict),
             e = NoEnvelope \/ EnvelopeVerdict(p, e, now).decision = "ACCEPT"
      PROVE  Accepts(p, pol, e, strict, FALSE, now)
  <2>1. CASE e = NoEnvelope
    <3>1. first = Verdict("ACCEPT", "PAYMENT_WITHIN_SCOPE_AND_BUDGET")
      BY <1>2, <2>1, PassingVerdict
    <3> QED
      BY <3>1 DEF Accepts, Decide, Undecided, Verdict
  <2>2. CASE e # NoEnvelope
    <3>1. first = Undecided
      BY <1>2, <2>2, PassingVerdict
    <3> QED
      BY <1>2, <2>2, <3>1 DEF Accepts, Decide
  <2> QED
    BY <2>1, <2>2
<1> QED
  BY <1>1, <1>2

-----------------------------------------------------------------------------
(* A signed envelope never makes an unacceptable payment acceptable.       *)
LEMMA EnvelopeNarrows ==
    ASSUME NEW p, NEW pol, NEW e, NEW strict, NEW now,
           Accepts(p, pol, e, strict, FALSE, now)
    PROVE  Accepts(p, pol, NoEnvelope, FALSE, FALSE, now)
<1>1. PolicyPasses(p, pol, e, strict)
  BY AcceptanceMeans
<1>2. PolicyPasses(p, pol, NoEnvelope, FALSE)
  BY <1>1, PassingMeans DEF EnvelopeMissing
<1> QED
  BY <1>2, AcceptanceMeans

(* EnvelopeOnlyNarrows holds for every table: every base submission, every *)
(* set of field values and every number of edits.                          *)
THEOREM EnvelopesOnlyNarrow == Spec => []EnvelopeOnlyNarrows
<1>1. EnvelopeOnlyNarrows
  BY EnvelopeNarrows DEF EnvelopeOnlyNarrows
<1> QED
  BY <1>1, PTL

-----------------------------------------------------------------------------
(* A policy that allows no more and asks for approval whenever the other   *)
(* does accepts no more.                                                   *)
LEMMA TighterPolicy ==
    ASSUME NEW p, NEW pol, NEW tighter, NEW e, NEW strict, NEW now,
           tighter.allowed_assets \subseteq pol.allowed_assets,
           tighter.allowed_recipients \subseteq pol.allowed_recipients,
           tighter.default_approved_budget = pol.default_approved_budget,
           pol.recurring_needs_approval => tighter.recurring_needs_approval,
           Accepts(p, tighter, e, strict, FALSE, now)
    PROVE  Accepts(p, pol, e, strict, FALSE, now)
<1>1. PolicyPasses(p, tighter, e, strict)
  BY AcceptanceMeans
<1>2. PolicyPasses(p, pol, e, strict)
  <2>1. Budget(p, tighter) = Budget(p, pol)
    BY DEF Budget
  <2>2. /\ p.asset \in pol.allowed_assets
        /\ ~ RecipientNotAllowed(p, pol)
        /\ ~ NeedsApproval(p, pol)
    BY <1>1, PassingMeans DEF RecipientNotAllowed, NeedsApproval
  <2> QED
    BY <1>1, <2>1, <2>2, PassingMeans
<1>3. e = NoEnvelope \/ EnvelopeVerdict(p, e, now).decision = "ACCEPT"
  BY AcceptanceMeans
<1> QED
  BY <1>2, <1>3, AcceptanceMeans

(* The submission stays one of the table.                                  *)
IsEntry(x, base, values, fields) ==
    /\ x = [f \in fields |-> x[f]]
    /\ \A f \in fields : x[f] \in ValuesOf(base, values, f)

TableInv ==
    /\ IsEntry(proposal, BaseProposal, ProposalValues, ProposalFields)
    /\ IsEntry(envelope, BaseEnvelope, EnvelopeValues, EnvelopeFields)
    /\ IsEntry(policy, BasePolicy, PolicyValues, PolicyFields)

LEMMA BaseIsEntry ==
    ASSUME NEW base, NEW values, NEW fields, IsTable(base, values, fields)
    PROVE  IsEntry(base, base, values, fields)
BY DEF IsTable, IsEntry, ValuesOf

LEMMA EditedIsEntry ==
    ASSUME NEW base, NEW values, NEW fields, IsTable(base, values, fields),
           NEW x, IsEntry(x, base, values, fields),
           NEW f \in fields, NEW v \in values[f]
    PROVE  IsEntry([x EXCEPT ![f] = v], base, values, fields)
BY DEF IsTable, IsEntry, ValuesOf

LEMMA TableInvariance == Spec => []TableInv
<1>0. /\ IsTable(BaseProposal, ProposalValues, ProposalFields)
      /\ IsTable(BaseEnvelope, EnvelopeValues, EnvelopeFields)
      /\ IsTable(BasePolicy, PolicyValues, PolicyFields)
  BY TableAssumption
<1>1. Init => TableInv
  BY <1>0, BaseIsEntry DEF Init, TableInv
<1>2. TableInv /\ [Next]_vars => TableInv'
  <2> SUFFICES ASSUME TableInv, [Next]_vars PROVE TableInv'
    OBVIOUS
  <2>1. CASE EditProposal
    <3>1. PICK f \in ProposalFields : \E v \in ProposalValues[f] : proposal' = [proposal EXCEPT ![f] = v]
      BY <1>0, <2>1 DEF EditProposal, IsTable
    <3>2. PICK v \in ProposalValues[f] : proposal' = [proposal EXCEPT ![f] = v]
      BY <3>1
    <3>3. IsEntry(proposal', BaseProposal, ProposalValues, ProposalFields)
      BY <1>0, <3>2, EditedIsEntry DEF TableInv
    <3> QED
      BY <2>1, <3>3 DEF TableInv, EditProposal
  <2>2. CASE EditEnvelope
    <3>1. PICK f \in EnvelopeFields : \E v \in EnvelopeValues[f] : envelope' = [envelope EXCEPT ![f] = v]
      BY <1>0, <2>2 DEF EditEnvelope, IsTable
    <3>2. PICK v \in EnvelopeValues[f] : envelope' = [envelope EXCEPT ![f] = v]
      BY <3>1
    <3>3. IsEntry(envelope', BaseEnvelope, EnvelopeValues, EnvelopeFields)
      BY <1>0, <3>2, EditedIsEntry DEF TableInv
    <3> QED
      BY <2>2, <3>3 DEF TableInv, EditEnvelope
  <2>3. CASE EditPolicy
    <3>1. PICK f \in PolicyFields : \E v \in PolicyValues[f] : policy' = [policy EXCEPT ![f] = v]
      BY <1>0, <2>3 DEF EditPolicy, IsTable
    <3>2. PICK v \in PolicyValues[f] : policy' = [policy EXCEPT ![f] = v]
      BY <3>1
    <3>3. IsEntry(policy', BasePolicy, PolicyValues, PolicyFields)
      BY <1>0, <3>2, EditedIsEntry DEF TableInv
    <3> QED
      BY <2>3, <3>3 DEF TableInv, EditPolicy
  <2>4. CASE StartOver
    BY <1>0, <2>4, BaseIsEntry DEF StartOver, TableInv
  <2>5. CASE UNCHANGED vars
    BY <2>5 DEF vars, TableInv
  <2> QED
    BY <2>1, <2>2, <2>3, <2>4, <2>5 DEF Next, Edit
<1> QED
  BY <1>1, <1>2, PTL DEF Spec

LEMMA EnvelopeIsPresent ==
    ASSUME TableInv
    PROVE  envelope # NoEnvelope
<1>1. envelope \in EnvelopeRecords
  BY DEF TableInv, IsEntry, EnvelopeFields, EnvelopeRecords
<1> QED
  BY <1>1, TableAssumption

(* TighterPolicyNeverAdmits holds for every table.                         *)
THEOREM TighteningNeverAdmits == Spec => []TighterPolicyNeverAdmits
<1>1. TableInv => TighterPolicyNeverAdmits
  <2> SUFFICES ASSUME TableInv,
                      NEW assets \in SUBSET policy.allowed_assets,
                      NEW recipients \in SUBSET policy.allowed_recipients,
                      NEW approval \in {TRUE, policy.recurring_needs_approval},
                      NEW e \in {envelope, NoEnvelope}, NEW strict \in BOOLEAN, NEW now \in Times,
                      Accepts(proposal, [policy EXCEPT !.allowed_assets = assets,
                                                       !.allowed_recipients = recipients,
                                                       !.recurring_needs_approval = approval],
                              e, strict, FALSE, now)
               PROVE  Accepts(proposal, policy, e, strict, FALSE, now)
    BY DEF TighterPolicyNeverAdmits
  <2> DEFINE tighter == [policy EXCEPT !.allowed_assets = assets,
                                       !.allowed_recipients = recipients,
                                       !.recurring_needs_approval = approval]
  <2>1. /\ tighter.allowed_assets = assets
        /\ tighter.allowed_recipients = recipients
        /\ tighter.default_approved_budget = policy.default_approved_budget
        /\ tighter.recurring_needs_approval = approval
    BY DEF TableInv, IsEntry, PolicyFields
  <2>2. Accepts(proposal, tighter, e, strict, FALSE, now)
    OBVIOUS
  <2> HIDE DEF tighter
  <2> QED
    BY <2>1, <2>2, TighterPolicy
<1> QED
  BY <1>1, TableInvariance, PTL
-----------------------------------------------------------------------------
(* The first check of a ladder that applies decides.                       *)
LEMMA LadderFirst ==
    ASSUME NEW checks, DOMAIN checks \in SUBSET Nat, NEW otherwise,
           NEW i \in DOMAIN checks, checks[i][1],
           \A j \in DOMAIN checks : j < i => ~checks[j][1]
    PROVE  FirstThatApplies(checks, otherwise) = checks[i][2]
<1> DEFINE hits == {k \in DOMAIN checks : checks[k][1]}
           first == CHOOSE k \in hits : \A j \in hits : k <= j
<1>1. i \in hits /\ \A j \in hits : i <= j
  OBVIOUS
<1>2. first \in hits /\ \A j \in hits : first <= j
  BY <1>1
<1>3. first = i
  BY <1>1, <1>2
<1> QED
  BY <1>1, <1>3 DEF FirstThatApplies

(* Reasons the ladders give: the replay lookup alone says INTENT_REPLAYED. *)
LadderReasons == Reasons \ {"INTENT_REPLAYED"}
Verdicts(decisions) == [decision : decisions, reason : LadderReasons]

(* The envelope ladder accepts, blocks or raises.                          *)
LEMMA EnvelopeVerdictType ==
    ASSUME NEW p, NEW e, NEW now
    PROVE  EnvelopeVerdict(p, e, now) \in Verdicts({"ACCEPT", "BLOCK"}) \cup {Raised}
<1> DEFINE V == Verdicts({"ACCEPT", "BLOCK"}) \cup {Raised}
           checks == EnvelopeChecks(p, e, now)
<1>1. DOMAIN checks = 1..13
  BY DEF EnvelopeChecks
<1>2. \A i \in 1..13 : checks[i][2] \in V
  <2>1. \A why \in LadderReasons : Block(why) \in V
    BY DEF Block, Verdict, Verdicts
  <2>2. Raised \in V
    OBVIOUS
  <2> HIDE DEF V
  <2> QED
    BY <2>1, <2>2 DEF EnvelopeChecks, LadderReasons, Reasons
<1>3. Verdict("ACCEPT", "PAYMENT_WITHIN_SIGNED_INTENT_ENVELOPE") \in V
  BY DEF Verdict, Verdicts, LadderReasons, Reasons
<1> QED
  BY <1>1, <1>2, <1>3, LadderReturnsAVerdict DEF EnvelopeVerdict

(* A proposal that needs no approval is never told to wait.                *)
LEMMA OnlyApprovalHolds ==
    ASSUME NEW p, NEW pol, NEW e, NEW strict, NEW spent, NEW now, ~NeedsApproval(p, pol)
    PROVE  Decide(p, pol, e, strict, spent, now).decision # "HOLD"
<1> DEFINE checks == PolicyChecks(p, pol, e, strict)
           V == {v \in Verdicts(Decisions) \cup {Raised, Undecided} : v.decision # "HOLD"}
<1>1. PolicyVerdict(p, pol, e, strict).decision # "HOLD"
  <2>1. DOMAIN checks = 1..12
    BY DEF PolicyChecks
  <2>2. \A i \in 1..12 : i # 10 => checks[i][2].decision # "HOLD"
    BY DEF PolicyChecks, Block, Raised, Verdict
  <2>3. ~checks[10][1]
    BY DEF PolicyChecks
  <2>4. PolicyVerdict(p, pol, e, strict) = FirstThatApplies(checks, Undecided)
    BY DEF PolicyVerdict
  <2> HIDE DEF checks
  <2>5. CASE FirstThatApplies(checks, Undecided) = Undecided
    BY <2>4, <2>5 DEF Undecided, Verdict
  <2>6. CASE FirstThatApplies(checks, Undecided) # Undecided
    <3>1. 12 \in Nat
      OBVIOUS
    <3>2. PICK i \in 1..12 : /\ checks[i][1]
                             /\ FirstThatApplies(checks, Undecided) = checks[i][2]
                             /\ \A j \in 1..12 : j < i => ~ checks[j][1]
      BY <2>1, <2>6, <3>1, LadderDecider, Zenon
    <3> QED
      BY <2>2, <2>3, <2>4, <3>2
  <2> QED
    BY <2>5, <2>6
<1>2. EnvelopeVerdict(p, e, now).decision # "HOLD"
  BY EnvelopeVerdictType DEF Verdicts, Raised, Verdict
<1> QED
  BY <1>1, <1>2 DEF Decide, Block, Verdict

(* HoldWaitsOnlyForApproval holds for every table.                         *)
THEOREM HoldsWaitOnlyForApproval == Spec => []HoldWaitsOnlyForApproval
<1>1. TableInv => HoldWaitsOnlyForApproval
  <2> SUFFICES ASSUME TableInv,
                      NEW e \in {envelope, NoEnvelope}, NEW strict \in BOOLEAN,
                      NEW spent \in BOOLEAN, NEW now \in Times
               PROVE  LET granted == [proposal EXCEPT !.recurring_approval = TRUE]
                          lenient == [policy EXCEPT !.recurring_needs_approval = FALSE]
                          after   == Decide(granted, policy, e, strict, spent, now)
                      IN  /\ after = Decide(proposal, lenient, e, strict, spent, now)
                          /\ after.decision # "HOLD"
    BY DEF HoldWaitsOnlyForApproval
  <2> DEFINE granted == [proposal EXCEPT !.recurring_approval = TRUE]
             lenient == [policy EXCEPT !.recurring_needs_approval = FALSE]
  <2>1. /\ granted.recurring_approval = TRUE
        /\ \A f \in ProposalFields : f # "recurring_approval" => granted[f] = proposal[f]
    BY DEF TableInv, IsEntry, ProposalFields
  <2>2. /\ lenient.recurring_needs_approval = FALSE
        /\ \A f \in PolicyFields : f # "recurring_needs_approval" => lenient[f] = policy[f]
    BY DEF TableInv, IsEntry, PolicyFields
  <2> HIDE DEF granted, lenient
  <2>3. NeedsApproval(granted, policy) = FALSE /\ NeedsApproval(proposal, lenient) = FALSE
    BY <2>1, <2>2 DEF NeedsApproval
  <2>4. /\ granted.action_type = proposal.action_type /\ granted.asset = proposal.asset
        /\ granted.amount = proposal.amount /\ granted.purpose = proposal.purpose
        /\ granted.approved_budget = proposal.approved_budget
        /\ granted.human_intent_id = proposal.human_intent_id
        /\ granted.causal_parent = proposal.causal_parent
        /\ granted.recipient = proposal.recipient
        /\ granted.approved_recipient = proposal.approved_recipient
        /\ granted.payment_mode = proposal.payment_mode /\ granted.agent_id = proposal.agent_id
        /\ granted.budget_scope = proposal.budget_scope
    BY <2>1 DEF ProposalFields
  <2>5. /\ lenient.allowed_assets = policy.allowed_assets
        /\ lenient.allowed_recipients = policy.allowed_recipients
        /\ lenient.default_approved_budget = policy.default_approved_budget
    BY <2>2 DEF PolicyFields
  <2>6. PolicyChecks(granted, policy, e, strict) = PolicyChecks(proposal, lenient, e, strict)
    <3>1. /\ Budget(granted, policy) = Budget(proposal, lenient)
          /\ RecipientNotAllowed(granted, policy) = RecipientNotAllowed(proposal, lenient)
      BY <2>4, <2>5 DEF Budget, RecipientNotAllowed
    <3> QED
      BY <2>3, <2>4, <2>5, <3>1 DEF PolicyChecks
  <2>7. EnvelopeChecks(granted, e, now) = EnvelopeChecks(proposal, e, now)
    BY <2>4 DEF EnvelopeChecks
  <2>8. Decide(granted, policy, e, strict, spent, now) = Decide(proposal, lenient, e, strict, spent, now)
    BY <2>6, <2>7 DEF Decide, PolicyVerdict, EnvelopeVerdict
  <2>9. Decide(granted, policy, e, strict, spent, now).decision # "HOLD"
    BY <2>3, OnlyApprovalHolds
  <2> QED
    BY <2>8, <2>9 DEF granted, lenient
<1> QED
  BY <1>1, TableInvariance, PTL

(* SpentAnswerIsStable holds for every table.                              *)
THEOREM SpentAnswersAreStable == Spec => []SpentAnswerIsStable
<1>1. TableInv => SpentAnswerIsStable
  <2> SUFFICES ASSUME TableInv, envelope.nonce # NoNonce, NEW strict \in BOOLEAN,
                      NEW t1 \in Times, NEW t2 \in Times
               PROVE  LET answer(t) == Decide(proposal, policy, envelope, strict, TRUE, t)
                      IN  answer(t1) = answer(t2) /\ answer(t1).decision # "ACCEPT"
    BY DEF SpentAnswerIsStable
  <2> DEFINE first == PolicyVerdict(proposal, policy, envelope, strict)
  <2>1. \A t : Decide(proposal, policy, envelope, strict, TRUE, t) =
                   IF first # Undecided THEN first ELSE Block("INTENT_REPLAYED")
    BY DEF Decide
  <2>2. ASSUME first.decision = "ACCEPT" PROVE FALSE
    <3>1. PolicyPasses(proposal, policy, envelope, strict)
      BY <2>2, OnlyPassingAccepts
    <3>2. first = Undecided
      BY <3>1, PassingVerdict, EnvelopeIsPresent
    <3> QED
      BY <2>2, <3>2 DEF Undecided, Verdict
  <2>3. Block("INTENT_REPLAYED").decision # "ACCEPT"
    BY DEF Block, Verdict
  <2> QED
    BY <2>1, <2>2, <2>3
<1> QED
  BY <1>1, TableInvariance, PTL
-----------------------------------------------------------------------------
(* What an accepting envelope verdict means.                               *)
LEMMA EnvelopeAcceptanceMeans ==
    ASSUME NEW p, NEW e, NEW now
    PROVE  EnvelopeVerdict(p, e, now).decision = "ACCEPT" <=>
               \A i \in 1..13 : ~EnvelopeChecks(p, e, now)[i][1]
<1> DEFINE checks == EnvelopeChecks(p, e, now)
           signed == Verdict("ACCEPT", "PAYMENT_WITHIN_SIGNED_INTENT_ENVELOPE")
<1>1. DOMAIN checks = 1..13 /\ 13 \in Nat
  BY DEF EnvelopeChecks
<1>2. \A i \in 1..13 : checks[i][2].decision \in {"BLOCK", "RAISED"}
  BY DEF EnvelopeChecks, Block, Raised, Verdict
<1>3. signed.decision = "ACCEPT" /\ EnvelopeVerdict(p, e, now) = FirstThatApplies(checks, signed)
  BY DEF EnvelopeVerdict, Verdict
<1> HIDE DEF checks, signed
<1>4. ASSUME FirstThatApplies(checks, signed) = signed PROVE \A i \in 1..13 : ~checks[i][1]
  <2>1. \A i \in 1..13 : checks[i][2] # signed
    BY <1>2, <1>3
  <2> QED
    BY <1>1, <1>4, <2>1, LadderFallsThrough
<1>5. ASSUME FirstThatApplies(checks, signed) # signed
      PROVE  /\ \E i \in 1..13 : checks[i][1]
             /\ FirstThatApplies(checks, signed).decision # "ACCEPT"
  <2>1. PICK i \in 1..13 : /\ checks[i][1]
                           /\ FirstThatApplies(checks, signed) = checks[i][2]
                           /\ \A j \in 1..13 : j < i => ~ checks[j][1]
    BY <1>1, <1>5, LadderDecider, Zenon
  <2> QED
    BY <1>2, <2>1
<1> QED
  BY <1>3, <1>4, <1>5 DEF checks

(* The envelope checks that look at the clock or the amount, and the rest. *)
LEMMA EnvelopeAcceptance ==
    ASSUME NEW p, NEW e, NEW now
    PROVE  EnvelopeVerdict(p, e, now).decision = "ACCEPT" <=>
               /\ ~Expired(e, now)
               /\ {p.amount, e.max_amount} \cap {BadNumber, None} = {}
               /\ ~CompareRaises(p.amount, e.max_amount)
               /\ ~Exceeds(p.amount, e.max_amount)
               /\ e.authentic
               /\ p.agent_id = e.subject_agent_id /\ p.purpose = e.purpose
               /\ p.causal_parent = e.causal_parent /\ p.human_intent_id = e.human_intent_id
               /\ p.payment_mode = e.payment_mode /\ p.asset = e.allowed_asset
               /\ p.recipient = e.allowed_recipient /\ p.budget_scope = e.budget_scope
<1> DEFINE checks == EnvelopeChecks(p, e, now)
<1>1. (\A i \in 1..13 : ~checks[i][1]) <=>
          /\ ~ checks[1][1] /\ ~ checks[2][1] /\ ~ checks[3][1] /\ ~ checks[4][1]
          /\ ~ checks[5][1] /\ ~ checks[6][1] /\ ~ checks[7][1] /\ ~ checks[8][1]
          /\ ~ checks[9][1] /\ ~ checks[10][1] /\ ~ checks[11][1]
          /\ ~ checks[12][1] /\ ~ checks[13][1]
  <2>1. \A i \in 1..13 : i \in {1, 2, 3, 4, 5, 6, 7, 8, 9, 10, 11, 12, 13}
    OBVIOUS
  <2> HIDE DEF checks
  <2> QED
    BY <2>1
<1>2. /\ checks[1][1] <=> ~e.authentic
      /\ checks[2][1] <=> Expired(e, now)
      /\ checks[3][1] <=> p.agent_id # e.subject_agent_id
      /\ checks[4][1] <=> p.purpose # e.purpose
      /\ checks[5][1] <=> p.causal_parent # e.causal_parent
      /\ checks[6][1] <=> p.human_intent_id # e.human_intent_id
      /\ checks[7][1] <=> p.payment_mode # e.payment_mode
      /\ checks[8][1] <=> p.asset # e.allowed_asset
      /\ checks[9][1] <=> p.recipient # e.allowed_recipient
      /\ checks[10][1] <=> p.budget_scope # e.budget_scope
      /\ checks[11][1] <=> {p.amount, e.max_amount} \cap {BadNumber, None} # {}
      /\ checks[12][1] <=> CompareRaises(p.amount, e.max_amount)
      /\ checks[13][1] <=> Exceeds(p.amount, e.max_amount)
  BY DEF EnvelopeChecks
<1>3. EnvelopeVerdict(p, e, now).decision = "ACCEPT" <=> \A i \in 1..13 : ~checks[i][1]
  BY EnvelopeAcceptanceMeans
<1> HIDE DEF checks
<1> QED
  BY <1>1, <1>2, <1>3

(* A smaller amount exceeds nothing that the larger does not.              *)
LEMMA SmallerExceedsLess ==
    ASSUME NEW a \in Amounts, NEW smaller \in Amounts, NEW b \in Amounts,
           IsNumber(a), IsNumber(smaller), smaller <= a, ~Exceeds(a, b), ~CompareRaises(a, b)
    PROVE  ~Exceeds(smaller, b) /\ ~CompareRaises(smaller, b)
BY DEF Amounts, IsNumber, Exceeds, CompareRaises

(* Two ladders of twelve checks that differ in the eleventh only, which    *)
(* applies in the first ladder alone: they part only when no earlier check *)
(* applies.                                                                *)
LEMMA LaddersPart ==
    ASSUME NEW s, NEW l, DOMAIN s = 1..12, DOMAIN l = 1..12, NEW otherwise,
           \A i \in 1..12 : i # 11 => s[i] = l[i],
           s[11][1], ~l[11][1], l[12][1],
           FirstThatApplies(s, otherwise) # FirstThatApplies(l, otherwise)
    PROVE  /\ FirstThatApplies(s, otherwise) = s[11][2]
           /\ FirstThatApplies(l, otherwise) = l[12][2]
<1> DEFINE hits == {k \in 1..12 : s[k][1]}
<1>0. 12 \in Nat /\ 11 \in 1..12 /\ 12 \in 1..12 /\ hits \in SUBSET Nat /\ hits # {}
  OBVIOUS
<1>1. PICK k \in hits : \A j \in hits : k <= j
  BY <1>0, LeastElement
<1>2. k \in 1..12 /\ s[k][1] /\ k <= 11 /\ \A j \in 1..12 : j < k => ~s[j][1]
  BY <1>0, <1>1
<1>3. FirstThatApplies(s, otherwise) = s[k][2]
  BY <1>0, <1>2, LadderFirst
<1>4. CASE k < 11
  <2>1. l[k] = s[k]
    BY <1>2, <1>4
  <2>2. \A j \in 1..12 : j < k => ~l[j][1]
    BY <1>2, <1>4
  <2>3. FirstThatApplies(l, otherwise) = l[k][2]
    <3>1. l[k][1]
      BY <1>2, <2>1
    <3> QED
      BY <1>0, <1>2, <2>2, <3>1, LadderFirst
  <2> QED
    BY <1>3, <2>1, <2>3
<1>5. CASE k = 11
  <2>1. \A j \in 1..12 : j < 12 => ~l[j][1]
    BY <1>2, <1>5
  <2>2. FirstThatApplies(l, otherwise) = l[12][2]
    BY <1>0, <2>1, LadderFirst
  <2> QED
    BY <1>3, <1>5, <2>2
<1> QED
  BY <1>2, <1>4, <1>5

(* Requiring a signed intent changes an acceptance into the request for    *)
(* one, and nothing else.                                                  *)
LEMMA StrictRefusal ==
    ASSUME NEW p, NEW pol, NEW e, NEW spent, NEW now,
           NEW yes, NEW no, yes = TRUE, no = FALSE,
           Decide(p, pol, e, yes, spent, now) # Decide(p, pol, e, no, spent, now)
    PROVE  /\ Decide(p, pol, e, yes, spent, now) = Block("MISSING_INTENT_ENVELOPE")
           /\ Decide(p, pol, e, no, spent, now).decision = "ACCEPT"
<1>1. /\ DOMAIN PolicyChecks(p, pol, e, yes) = 1..12
      /\ DOMAIN PolicyChecks(p, pol, e, no) = 1..12
  BY DEF PolicyChecks
<1>2. \A i \in 1..12 : i # 11 => PolicyChecks(p, pol, e, yes)[i] = PolicyChecks(p, pol, e, no)[i]
  BY DEF PolicyChecks
<1>3. /\ PolicyChecks(p, pol, e, yes)[11][1] <=> EnvelopeMissing(e, yes)
      /\ PolicyChecks(p, pol, e, yes)[11][2] = Block("MISSING_INTENT_ENVELOPE")
      /\ PolicyChecks(p, pol, e, no)[11][1] <=> EnvelopeMissing(e, no)
  BY DEF PolicyChecks
<1>4. /\ PolicyChecks(p, pol, e, no)[12][1] <=> e = NoEnvelope
      /\ PolicyChecks(p, pol, e, no)[12][2] =
             Verdict("ACCEPT", "PAYMENT_WITHIN_SCOPE_AND_BUDGET")
  BY DEF PolicyChecks
<1>5. PolicyVerdict(p, pol, e, yes) # PolicyVerdict(p, pol, e, no)
  BY DEF Decide
<1>6. e = NoEnvelope
  <2>1. ASSUME e # NoEnvelope PROVE FALSE
    <3>1. PolicyChecks(p, pol, e, yes) = PolicyChecks(p, pol, e, no)
      <4>1. EnvelopeMissing(e, yes) = FALSE /\ EnvelopeMissing(e, no) = FALSE
        BY <2>1 DEF EnvelopeMissing
      <4> QED
        BY <4>1 DEF PolicyChecks
    <3> QED
      BY <1>5, <3>1 DEF PolicyVerdict
  <2> QED
    BY <2>1
<1>7. /\ PolicyVerdict(p, pol, e, yes) = PolicyChecks(p, pol, e, yes)[11][2]
      /\ PolicyVerdict(p, pol, e, no) = PolicyChecks(p, pol, e, no)[12][2]
  <2> DEFINE s == PolicyChecks(p, pol, e, yes)
             l == PolicyChecks(p, pol, e, no)
  <2>1. DOMAIN s = 1..12 /\ DOMAIN l = 1..12 /\ \A i \in 1..12 : i # 11 => s[i] = l[i]
    BY <1>1, <1>2
  <2>2. s[11][1] /\ ~l[11][1] /\ l[12][1]
    BY <1>3, <1>4, <1>6 DEF EnvelopeMissing
  <2>3. /\ PolicyVerdict(p, pol, e, yes) = FirstThatApplies(s, Undecided)
        /\ PolicyVerdict(p, pol, e, no) = FirstThatApplies(l, Undecided)
    BY DEF PolicyVerdict
  <2>4. FirstThatApplies(s, Undecided) # FirstThatApplies(l, Undecided)
    BY <1>5, <2>3
  <2> HIDE DEF s, l
  <2>5. FirstThatApplies(s, Undecided) = s[11][2] /\ FirstThatApplies(l, Undecided) = l[12][2]
    BY <2>1, <2>2, <2>4, LaddersPart
  <2> QED
    BY <2>3, <2>5 DEF s, l
<1>8. /\ PolicyVerdict(p, pol, e, yes).decision = "BLOCK"
      /\ PolicyVerdict(p, pol, e, no).decision = "ACCEPT"
      /\ Undecided.decision = "UNDECIDED"
  <2>1. /\ PolicyVerdict(p, pol, e, yes) = Block("MISSING_INTENT_ENVELOPE")
        /\ PolicyVerdict(p, pol, e, no) = Verdict("ACCEPT", "PAYMENT_WITHIN_SCOPE_AND_BUDGET")
    BY <1>3, <1>4, <1>7
  <2> QED
    BY <2>1 DEF Undecided, Block, Verdict
<1>9. /\ Decide(p, pol, e, yes, spent, now) = PolicyVerdict(p, pol, e, yes)
      /\ Decide(p, pol, e, no, spent, now) = PolicyVerdict(p, pol, e, no)
  BY <1>8 DEF Decide
<1> QED
  BY <1>3, <1>7, <1>8, <1>9

(* AcceptanceIsMonotone holds for every table.                             *)
THEOREM AcceptanceStaysMonotone == Spec => []AcceptanceIsMonotone
<1>1. ASSUME TableInv, NEW earlier \in Times, NEW now \in Times
      PROVE  TimeOnlyCloses(earlier, now)
  <2> SUFFICES ASSUME NEW strict \in BOOLEAN, earlier <= now,
                      Accepts(proposal, policy, envelope, strict, FALSE, now)
               PROVE  /\ Accepts(proposal, policy, envelope, strict, FALSE, earlier)
                      /\ envelope.expires_at > now
    BY DEF TimeOnlyCloses
  <2>1. /\ PolicyPasses(proposal, policy, envelope, strict)
        /\ EnvelopeVerdict(proposal, envelope, now).decision = "ACCEPT"
    BY <1>1, AcceptanceMeans, EnvelopeIsPresent
  <2>2. envelope.expires_at \in Int \cup {None} /\ earlier \in Int /\ now \in Int
    BY <1>1, TableAssumption DEF TableInv, IsEntry, EnvelopeFields
  <2>3. ~Expired(envelope, earlier) /\ envelope.expires_at > now
    BY <2>1, <2>2, EnvelopeAcceptance DEF Expired
  <2>4. EnvelopeVerdict(proposal, envelope, earlier).decision = "ACCEPT"
    BY <2>1, <2>3, EnvelopeAcceptance
  <2> QED
    BY <2>1, <2>3, <2>4, AcceptanceMeans
<1>2. ASSUME TableInv, NEW e \in {envelope, NoEnvelope}, NEW now \in Times
      PROVE  SmallerAmountStaysAccepted(e, now)
  <2> SUFFICES ASSUME NEW smaller \in ProposalValues.amount, IsNumber(smaller),
                      IsNumber(proposal.amount), smaller <= proposal.amount,
                      Accepts(proposal, policy, e, FALSE, FALSE, now)
               PROVE  Accepts([proposal EXCEPT !.amount = smaller], policy, e, FALSE, FALSE, now)
    BY DEF SmallerAmountStaysAccepted
  <2> DEFINE less == [proposal EXCEPT !.amount = smaller]
  <2>1. /\ less.amount = smaller
        /\ \A f \in ProposalFields : f # "amount" => less[f] = proposal[f]
    BY <1>2 DEF TableInv, IsEntry, ProposalFields
  <2> HIDE DEF less
  <2>2. /\ less.action_type = proposal.action_type /\ less.asset = proposal.asset
        /\ less.approved_budget = proposal.approved_budget /\ less.purpose = proposal.purpose
        /\ less.human_intent_id = proposal.human_intent_id
        /\ less.causal_parent = proposal.causal_parent /\ less.recipient = proposal.recipient
        /\ less.approved_recipient = proposal.approved_recipient
        /\ less.payment_mode = proposal.payment_mode /\ less.agent_id = proposal.agent_id
        /\ less.recurring_approval = proposal.recurring_approval
        /\ less.budget_scope = proposal.budget_scope
    BY <2>1 DEF ProposalFields
  <2>3. proposal.amount \in Amounts /\ smaller \in Amounts /\ proposal.approved_budget \in Amounts
    BY <1>2, TableAssumption DEF TableInv, IsEntry, ProposalFields, ValuesOf
  <2>4. policy.default_approved_budget \in Amounts
    BY <1>2, TableAssumption DEF TableInv, IsEntry, PolicyFields
  <2>5. Budget(proposal, policy) \in Amounts /\ Budget(less, policy) = Budget(proposal, policy)
    BY <2>2, <2>3, <2>4 DEF Budget
  <2>6. /\ PolicyPasses(proposal, policy, e, FALSE)
        /\ e = NoEnvelope \/ EnvelopeVerdict(proposal, e, now).decision = "ACCEPT"
    BY AcceptanceMeans
  <2>7. smaller \notin {BadNumber, None}
    BY DEF IsNumber
  <2>8. PolicyPasses(less, policy, e, FALSE)
    <3>1. /\ ~Exceeds(less.amount, Budget(less, policy))
          /\ ~CompareRaises(less.amount, Budget(less, policy))
      BY <2>1, <2>3, <2>5, <2>6, PassingMeans, SmallerExceedsLess
    <3>2. /\ RecipientNotAllowed(less, policy) = RecipientNotAllowed(proposal, policy)
          /\ NeedsApproval(less, policy) = NeedsApproval(proposal, policy)
      BY <2>2 DEF RecipientNotAllowed, NeedsApproval
    <3> QED
      BY <2>1, <2>2, <2>5, <2>6, <2>7, <3>1, <3>2, PassingMeans
  <2>9. ASSUME e # NoEnvelope PROVE EnvelopeVerdict(less, e, now).decision = "ACCEPT"
    <3>1. e.max_amount \in Amounts
      BY <1>2, <2>9, TableAssumption DEF TableInv, IsEntry, EnvelopeFields
    <3>2. EnvelopeVerdict(proposal, e, now).decision = "ACCEPT"
      BY <2>6, <2>9
    <3>3. ~Exceeds(smaller, e.max_amount) /\ ~CompareRaises(smaller, e.max_amount)
      BY <2>3, <3>1, <3>2, EnvelopeAcceptance, SmallerExceedsLess
    <3> QED
      BY <2>1, <2>2, <2>7, <3>2, <3>3, EnvelopeAcceptance
  <2> QED
    BY <2>8, <2>9, AcceptanceMeans DEF less
<1>3. ASSUME NEW e, NEW now PROVE StrictOnlyRefuses(e, now)
  BY StrictRefusal, Zenon DEF StrictOnlyRefuses
<1>4. TableInv => AcceptanceIsMonotone
  BY <1>1, <1>2, <1>3 DEF AcceptanceIsMonotone
<1> QED
  BY <1>4, TableInvariance, PTL
=============================================================================
