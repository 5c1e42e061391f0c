------------------------- MODULE LiminalGuardProofs -------------------------
(***************************************************************************)
(* Theorems about LiminalGuard for any calls, spans, policy and number of  *)
(* kills.  The inductive invariant is IInv of LiminalGuardProperties.      *)
(***************************************************************************)
EXTENDS LiminalGuardProperties, TLAPS, WellFoundedInduction

LEMMA DecisionType ==
    ASSUME NEW p, NEW spent
    PROVE  Decision(p, spent) \in Verdicts
<1> DEFINE blocking == Blocking(p, spent)
           held == blocking = {} /\ NeedsApproval(p) /\ p.approval_ref = None
           d == Decision(p, spent)
<1>1. blocking \subseteq Reasons
  BY Zenon DEF Blocking, Reasons
<1>2. CASE blocking # {}
  <2>1. d = [decision |-> "BLOCK", reasons |-> blocking]
    BY <1>2 DEF Decision
  <2> QED
    BY <1>1, <2>1 DEF Verdicts
<1>3. CASE blocking = {} /\ held
  <2>1. d = [decision |-> "HOLD", reasons |-> {"HUMAN_APPROVAL_REQUIRED"}]
    BY <1>3 DEF Decision
  <2> QED
    BY <2>1 DEF Verdicts, Reasons
<1>4. CASE blocking = {} /\ ~held
  <2>1. d = [decision |-> "ACCEPT", reasons |-> {"POLICY_MATCH"}]
    BY <1>4 DEF Decision
  <2> QED
    BY <2>1 DEF Verdicts, Reasons
<1> QED
  BY <1>2, <1>3, <1>4

(* A proposal that is accepted would be accepted with no nonce spent.      *)
LEMMA AcceptedIsComplete ==
    ASSUME NEW p, NEW spent, Decision(p, spent).decision = "ACCEPT"
    PROVE  Decision(p, {}).decision = "ACCEPT"
<1>1. Blocking(p, spent) = {} /\ ~(NeedsApproval(p) /\ p.approval_ref = None)
  BY DEF Decision
<1>2. Blocking(p, {}) \subseteq Blocking(p, spent)
  BY DEF Blocking
<1>3. Blocking(p, {}) = {}
  BY <1>1, <1>2
<1> QED
  BY <1>1, <1>3 DEF Decision

(* What an append does to the records of the ledger.                       *)
LEMMA LedgerAppended ==
    ASSUME TypeOK, NEW r \in LedgerRecords, ledger' = Append(ledger, r)
    PROVE  LET top == Len(ledger) + 1 IN
           /\ ledger' \in Seq(LedgerRecords) /\ top \in Nat
           /\ ledger'[top] = r
           /\ \A i \in DOMAIN ledger : i \in Nat /\ i < top /\ ledger'[i] = ledger[i]
           /\ \A type, c : RecordsOf(type, c)' =
                 RecordsOf(type, c) \cup (IF r.type = type /\ r.call = c THEN {top} ELSE {})
<1> DEFINE top == Len(ledger) + 1
<1>1. /\ ledger' \in Seq(LedgerRecords) /\ Len(ledger) \in Nat
      /\ DOMAIN ledger = 1..Len(ledger) /\ DOMAIN ledger' = 1..top
      /\ ledger'[top] = r /\ \A i \in 1..Len(ledger) : ledger'[i] = ledger[i]
  BY DEF TypeOK
<1>2. \A i : i \in 1..top <=> i \in 1..Len(ledger) \/ i = top
  BY <1>1
<1>3. \A i : i \in 1..Len(ledger) => i # top /\ i < top /\ i \in Nat
  BY <1>1
<1>4. ASSUME NEW type, NEW c
      PROVE  RecordsOf(type, c)' =
                RecordsOf(type, c) \cup (IF r.type = type /\ r.call = c THEN {top} ELSE {})
  <2>1. RecordsOf(type, c) =
           {i \in 1..Len(ledger) : ledger[i].type = type /\ ledger[i].call = c}
    BY <1>1 DEF RecordsOf
  <2>2. RecordsOf(type, c)' =
           {i \in 1..top : ledger'[i].type = type /\ ledger'[i].call = c}
    BY <1>1 DEF RecordsOf
  <2> QED
    BY <1>1, <1>2, <1>3, <2>1, <2>2
<1> QED
  BY <1>1, <1>3, <1>4

LEMMA RecordsAreIndices ==
    ASSUME TypeOK, NEW type, NEW c
    PROVE  \A i \in RecordsOf(type, c) : i \in DOMAIN ledger /\ i \in Nat
BY DEF RecordsOf, TypeOK

(* Min of a nonempty set of naturals is its least element.                 *)
LEMMA MinIsLeast ==
    ASSUME NEW S \in SUBSET Nat, S # {}
    PROVE  Min(S) \in S /\ \A i \in S : Min(S) <= i
<1>1. \E i \in S : \A j \in S : ~ (<<j, i>> \in OpToRel(<, Nat))
  BY NatLessThanWellFounded, WFMin
<1>2. ASSUME NEW i \in S, NEW j \in S, ~ (<<j, i>> \in OpToRel(<, Nat))
      PROVE  i <= j
  BY <1>2 DEF OpToRel
<1>3. \E i \in S : \A j \in S : i <= j
  BY <1>1, <1>2
<1> QED
  BY <1>3 DEF Min

(* pick() takes a value that the span gives, else one of the defaults,     *)
(* else the default of the caller.                                         *)
LEMMA PickedFromAPlace ==
    ASSUME NEW s, NEW names, Len(names) \in Nat, DOMAIN names \in SUBSET Nat, NEW default
    PROVE  \/ \E k \in Given(s, names) :
                 LET place == Place(s, names, k) IN
                 Pick(s, names, default) = place.in[place.name]
           \/ /\ Given(s, names) = {}
              /\ \E k \in Preset(names) : Pick(s, names, default) = Defaults[names[k]]
           \/ /\ Given(s, names) = {} /\ Preset(names) = {}
              /\ Pick(s, names, default) = default
<1>1. Given(s, names) \in SUBSET Nat /\ Preset(names) \in SUBSET Nat
  BY DEF Given, Preset
<1>2. CASE Given(s, names) # {}
  <2>1. Min(Given(s, names)) \in Given(s, names)
    BY <1>1, <1>2, MinIsLeast
  <2> QED
    BY <1>2, <2>1 DEF Pick
<1>3. CASE Given(s, names) = {} /\ Preset(names) # {}
  <2>1. Min(Preset(names)) \in Preset(names)
    BY <1>1, <1>3, MinIsLeast
  <2> QED
    BY <1>3, <2>1 DEF Pick
<1>4. CASE Given(s, names) = {} /\ Preset(names) = {}
  BY <1>4 DEF Pick
<1> QED
  BY <1>2, <1>3, <1>4

(* The same for a value that has one name.                                 *)
OneName(names, name) == Len(names) = 1 /\ DOMAIN names = 1..1 /\ names[1] = name

Silent(values, name) == name \in DOMAIN values => values[name] = None

PickedAs(picked, s, name, default) ==
    \/ \E values \in {s.top, s.attributes} :
          name \in DOMAIN values /\ picked = values[name] /\ picked # None
    \/ /\ Silent(s.top, name) /\ Silent(s.attributes, name)
       /\ name \in DOMAIN Defaults /\ picked = Defaults[name]
    \/ /\ Silent(s.top, name) /\ Silent(s.attributes, name)
       /\ name \notin DOMAIN Defaults /\ picked = default

LEMMA PickedOne ==
    ASSUME NEW s, NEW name, NEW names, OneName(names, name), NEW default
    PROVE  PickedAs(Pick(s, names, default), s, name, default)
<1> DEFINE picked == Pick(s, names, default)
<1>1. 1 \in Nat /\ Len(names) = 1 /\ DOMAIN names = 1..1 /\ names[1] = name
  BY DEF OneName
<1>0. Len(names) \in Nat /\ DOMAIN names \in SUBSET Nat
  BY <1>1
<1>2. /\ Place(s, names, 1) = [in |-> s.top, name |-> name]
      /\ Place(s, names, 2) = [in |-> s.attributes, name |-> name]
  BY <1>1 DEF Place
<1>3. \A k \in Given(s, names) : k \in {1, 2}
  BY <1>1 DEF Given
<1>4. /\ 1 \in Given(s, names) <=> name \in DOMAIN s.top /\ s.top[name] # None
      /\ 2 \in Given(s, names) <=> name \in DOMAIN s.attributes /\ s.attributes[name] # None
  BY <1>1, <1>2 DEF Given
<1>5. Preset(names) = IF name \in DOMAIN Defaults THEN {1} ELSE {}
  BY <1>1 DEF Preset
<1>6. \/ \E k \in Given(s, names) : picked = Place(s, names, k).in[Place(s, names, k).name]
      \/ /\ Given(s, names) = {}
         /\ \E k \in Preset(names) : picked = Defaults[names[k]]
      \/ Given(s, names) = {} /\ Preset(names) = {} /\ picked = default
  BY <1>0, PickedFromAPlace
<1> SUFFICES PickedAs(picked, s, name, default)
  OBVIOUS
<1> HIDE DEF picked
<1>7. CASE \E k \in Given(s, names) : picked = Place(s, names, k).in[Place(s, names, k).name]
  BY <1>2, <1>3, <1>4, <1>7 DEF PickedAs
<1>8. CASE /\ Given(s, names) = {}
           /\ \E k \in Preset(names) : picked = Defaults[names[k]]
  BY <1>1, <1>4, <1>5, <1>8 DEF PickedAs, Silent
<1>9. CASE Given(s, names) = {} /\ Preset(names) = {} /\ picked = default
  BY <1>4, <1>5, <1>9 DEF PickedAs, Silent
<1> QED
  BY <1>6, <1>7, <1>8, <1>9

(* A value that is neither blank nor the default was supplied.             *)
LEMMA PickedIsSupplied ==
    ASSUME NEW c, NEW name, NEW names, OneName(names, name), NEW default,
           Pick(span[c], names, default) \notin {default, None, "", " "}
    PROVE  Supplies(c, name)
<1>1. PickedAs(Pick(span[c], names, default), span[c], name, default)
  BY PickedOne
<1> QED
  BY <1>1 DEF Supplies, PickedAs

(* A call that carries a secret, and nothing that says no, is taken at its *)
(* word.                                                                   *)
LEMMA SecretIsSeen ==
    ASSUME NEW c, NEW names, OneName(names, "contains_secret"),
           Supplies(c, "contains_secret"), ~DeniesSecret(c)
    PROVE  Truthy(Pick(span[c], names, False))
<1> DEFINE picked == Pick(span[c], names, False)
           name == "contains_secret"
<1>1. \A values \in {span[c].top, span[c].attributes, Defaults} :
          name \in DOMAIN values => values[name] \notin {False, ""}
  BY DEF DeniesSecret
<1>2. \E values \in {span[c].top, span[c].attributes, Defaults} :
          name \in DOMAIN values /\ values[name] # None
  BY DEF Supplies
<1>3. PickedAs(picked, span[c], name, False)
  BY PickedOne
<1> HIDE DEF picked, name
<1>4. picked \notin {None, False, ""}
  <2>1. CASE \E values \in {span[c].top, span[c].attributes} :
                name \in DOMAIN values /\ picked = values[name] /\ picked # None
    BY <1>1, <2>1
  <2>2. CASE Silent(span[c].top, name) /\ Silent(span[c].attributes, name)
    BY <1>1, <1>2, <1>3, <2>2 DEF PickedAs, Silent
  <2> QED
    BY <1>3, <2>1, <2>2 DEF PickedAs
<1> QED
  BY <1>4 DEF Truthy, picked

LEMMA ProposalValues ==
    ASSUME NEW s
    PROVE  /\ Proposal(s).intent_id = OptionalText(Pick(s, << "intent_id" >>, None))
           /\ Proposal(s).parent_cause = OptionalText(Pick(s, << "parent_cause" >>, None))
           /\ Proposal(s).nonce = OptionalText(Pick(s, << "nonce" >>, None))
           /\ Proposal(s).scope = Pick(s, << "scope" >>, "unknown")
           /\ Proposal(s).contains_secret = Truthy(Pick(s, << "contains_secret" >>, False))
BY DEF Proposal

(* What writing files to a directory does.                                 *)
LEMMA PutAdds ==
    ASSUME NEW dir, NEW writes
    PROVE  /\ DOMAIN Put(dir, writes) = DOMAIN dir \cup DOMAIN writes
           /\ \A f \in DOMAIN writes : Put(dir, writes)[f] = writes[f]
           /\ \A f \in DOMAIN dir \ DOMAIN writes : Put(dir, writes)[f] = dir[f]
BY DEF Put

-----------------------------------------------------------------------------
LEMMA InitIInv == Init => IInv
<1> SUFFICES ASSUME Init PROVE IInv
  OBVIOUS
<1>1. TypeOK
  <2>1. \A c \in Calls : Proposal(span[c]) \in Proposals
    BY DEF Init, Proposals
  <2>2. NoDecision \in Verdicts
    BY DEF NoDecision, Verdicts
  <2>3. NotExecuted \in Outcomes
    BY DEF NotExecuted, Outcomes
  <2> QED
    BY <2>1, <2>2, <2>3 DEF Init, TypeOK, Labels
<1>2. \A type, c : RecordsOf(type, c) = {}
  BY DEF Init, RecordsOf
<1>3. AuthorityInv
  BY DEF Init, AuthorityInv, AuthorityOf, Allowed, NoDecision, None
<1>4. OutcomeInv
  BY <1>2 DEF Init, OutcomeInv, OutcomeOf, NotExecuted
<1>5. NonceInv
  BY DEF Init, NonceInv
<1>6. AdapterInv
  BY DEF Init, AdapterInv
<1>7. BundleInv
  BY DEF Init, BundleInv, LedgerInv, IsChain, BundleOf
<1> QED
  BY <1>1, <1>3, <1>4, <1>5, <1>6, <1>7 DEF IInv

-----------------------------------------------------------------------------
(* Every step keeps the types.                                             *)
LEMMA TypeStep ==
    ASSUME TypeOK, Next
    PROVE  TypeOK'
<1> USE DEF TypeOK, Goto
<1>1. ASSUME NEW c \in Calls, Evaluate(c)  PROVE TypeOK'
  BY <1>1, DecisionType DEF Evaluate, Labels
<1>2. ASSUME NEW c \in Calls, ReadLastHash(c)  PROVE TypeOK'
  <2>1. Len(ledger) \in Nat
    OBVIOUS
  <2> QED
    BY <1>2, <2>1 DEF ReadLastHash, Labels
<1>3. ASSUME NEW c \in Calls, AppendAuthorization(c)  PROVE TypeOK'
  <2> DEFINE r == [type |-> "authorization", previous |-> hash[c], call |-> c,
                   proposal |-> proposal[c], decision |-> decision[c]]
  <2>1. r \in LedgerRecords
    BY DEF LedgerRecords
  <2>2. ledger' = Append(ledger, r)
    BY <1>3 DEF AppendAuthorization
  <2>3. ledger' \in Seq(LedgerRecords) /\ Len(ledger) + 1 \in Nat
    BY <2>1, <2>2, LedgerAppended
  <2> QED
    BY <1>3, <2>3 DEF AppendAuthorization, Labels
<1>4. ASSUME NEW c \in Calls, LoadNonces(c)  PROVE TypeOK'
  <2>1. [status |-> "FAILED", executed |-> FALSE] \in Outcomes
    BY DEF Outcomes
  <2> QED
    BY <1>4, <2>1 DEF LoadNonces, Labels
<1>5. ASSUME NEW c \in Calls, ReplaceNonces(c)  PROVE TypeOK'
  BY <1>5 DEF ReplaceNonces, Labels
<1>6. ASSUME NEW c \in Calls, Run(c)  PROVE TypeOK'
  <2>1. \A returned \in BOOLEAN : Observed(returned) \in Outcomes
    BY DEF Observed, Outcomes
  <2> QED
    BY <1>6, <2>1 DEF Run, Labels
<1>7. ASSUME NEW c \in Calls, AppendObservation(c)  PROVE TypeOK'
  <2> DEFINE r == [type |-> "observation", previous |-> hash[c], call |-> c,
                   authorization |-> authorized[c], observation |-> outcome[c]]
  <2>1. r \in LedgerRecords
    BY DEF LedgerRecords
  <2>2. ledger' = Append(ledger, r)
    BY <1>7 DEF AppendObservation
  <2>3. ledger' \in Seq(LedgerRecords) /\ Len(ledger) + 1 \in Nat
    BY <2>1, <2>2, LedgerAppended
  <2> QED
    BY <1>7, <2>3 DEF AppendObservation, Labels
<1>8. ASSUME NEW c \in Calls, Export(c)  PROVE TypeOK'
  BY <1>8 DEF Export, Labels
<1>9. ASSUME NEW c \in Calls, Kill(c)  PROVE TypeOK'
  BY <1>9 DEF Kill, Labels
<1>10. ASSUME Done  PROVE TypeOK'
  BY <1>10 DEF Done, vars
<1> QED
  BY <1>1, <1>2, <1>3, <1>4, <1>5, <1>6, <1>7, <1>8, <1>9, <1>10 DEF Next, Step

-----------------------------------------------------------------------------
LEMMA AdapterStep ==
    ASSUME AdapterInv, [Next]_vars
    PROVE  AdapterInv'
<1>1. UNCHANGED <<span, proposal>>
  BY DEF Next, Step, Evaluate, ReadLastHash, AppendAuthorization, LoadNonces, ReplaceNonces, Run,
         AppendObservation, Export, Kill, Done, vars
<1> QED
  BY <1>1 DEF AdapterInv

-----------------------------------------------------------------------------
(* A record stays what it is: the calls' authorizations stay on record.    *)
LEMMA StaysOnRecord ==
    ASSUME TypeOK, NEW r \in LedgerRecords, ledger' = Append(ledger, r),
           NEW c \in Calls, OnRecord(c),
           authorized'[c] = authorized[c], decision'[c] = decision[c]
    PROVE  OnRecord(c)'
<1>1. authorized[c] \in RecordsOf("authorization", c)'
  BY LedgerAppended DEF OnRecord
<1>2. authorized[c] \in DOMAIN ledger
  BY RecordsAreIndices DEF OnRecord
<1>3. ledger'[authorized[c]] = ledger[authorized[c]]
  BY <1>2, LedgerAppended
<1> QED
  BY <1>1, <1>3 DEF OnRecord

LEMMA UnchangedRecords ==
    ASSUME UNCHANGED ledger
    PROVE  /\ \A type, c : RecordsOf(type, c)' = RecordsOf(type, c)
           /\ \A c : authorized'[c] = authorized[c] /\ decision'[c] = decision[c]
                 => OnRecord(c)' = OnRecord(c)
<1>1. \A type, c : RecordsOf(type, c)' = RecordsOf(type, c)
  BY DEF RecordsOf
<1> QED
  BY <1>1 DEF OnRecord

LEMMA AuthorityStep ==
    ASSUME IInv, Next
    PROVE  AuthorityInv'
<1> USE DEF Goto, Allowed
<1> SUFFICES ASSUME NEW d \in Calls PROVE AuthorityOf(d)'
  BY DEF AuthorityInv
<1> TypeOK
  BY DEF IInv
<1>a. AuthorityOf(d) /\ OutcomeOf(d)
  BY DEF IInv, AuthorityInv, OutcomeInv
<1>1. ASSUME NEW c \in Calls, Evaluate(c)  PROVE AuthorityOf(d)'
  <2>1. CASE c = d
    <3>1. d \notin effects'
      BY <1>1, <2>1, <1>a DEF Evaluate, OutcomeOf
    <3>2. Decision(proposal[d], DOMAIN store).decision = "ACCEPT"
             => Decision(proposal[d], {}).decision = "ACCEPT"
      BY AcceptedIsComplete
    <3>3. pc'[d] = "authorize" /\ decision'[d] = Decision(proposal[d], DOMAIN store)
          /\ proposal' = proposal
      BY <1>1, <2>1 DEF Evaluate, TypeOK
    <3> QED
      BY <3>1, <3>2, <3>3 DEF AuthorityOf
  <2>2. CASE c # d
    BY <1>1, <2>2, <1>a, UnchangedRecords DEF Evaluate, TypeOK, AuthorityOf
  <2> QED
    BY <2>1, <2>2
<1>2. ASSUME NEW c \in Calls, ReadLastHash(c)  PROVE AuthorityOf(d)'
  BY <1>2, <1>a, UnchangedRecords DEF ReadLastHash, TypeOK, AuthorityOf
<1>3. ASSUME NEW c \in Calls, AppendAuthorization(c)  PROVE AuthorityOf(d)'
  <2> DEFINE r == [type |-> "authorization", previous |-> hash[c], call |-> c,
                   proposal |-> proposal[c], decision |-> decision[c]]
  <2>1. r \in LedgerRecords
    BY DEF LedgerRecords, TypeOK
  <2>2. ledger' = Append(ledger, r) /\ decision' = decision /\ effects' = effects
        /\ proposal' = proposal
    BY <1>3 DEF AppendAuthorization
  <2>3. CASE c = d
    <3>1. authorized'[d] = Len(ledger) + 1
      BY <1>3, <2>3 DEF AppendAuthorization, TypeOK
    <3>2. ledger'[Len(ledger) + 1] = r
          /\ Len(ledger) + 1 \in RecordsOf("authorization", d)'
      BY <2>1, <2>2, <2>3, LedgerAppended
    <3>3. OnRecord(d)'
      BY <3>1, <3>2, <2>2, <2>3 DEF OnRecord
    <3>4. pc'[d] = IF Allowed(d) THEN "consume" ELSE "observe"
      BY <1>3, <2>3 DEF AppendAuthorization, TypeOK
    <3>5. d \notin effects
      BY <1>3, <1>a, <2>3 DEF AppendAuthorization, OutcomeOf
    <3> QED
      BY <1>a, <2>2, <3>3, <3>4, <3>5 DEF AuthorityOf
  <2>4. CASE c # d
    <3>1. authorized'[d] = authorized[d] /\ pc'[d] = pc[d]
      BY <1>3, <2>4 DEF AppendAuthorization, TypeOK
    <3>2. OnRecord(d) => OnRecord(d)'
      BY <2>1, <2>2, <3>1, StaysOnRecord
    <3> QED
      BY <1>a, <2>2, <3>1, <3>2 DEF AuthorityOf
  <2> QED
    BY <2>3, <2>4
<1>4. ASSUME NEW c \in Calls, LoadNonces(c)  PROVE AuthorityOf(d)'
  BY <1>4, <1>a, UnchangedRecords DEF LoadNonces, TypeOK, AuthorityOf
<1>5. ASSUME NEW c \in Calls, ReplaceNonces(c)  PROVE AuthorityOf(d)'
  BY <1>5, <1>a, UnchangedRecords DEF ReplaceNonces, TypeOK, AuthorityOf
<1>6. ASSUME NEW c \in Calls, Run(c)  PROVE AuthorityOf(d)'
  <2>1. effects' \subseteq effects \cup {c}
    BY <1>6 DEF Run
  <2>2. /\ pc[c] = "run" /\ pc' = [pc EXCEPT ![c] = "observe"]
        /\ UNCHANGED <<proposal, decision, ledger, authorized>>
    BY <1>6 DEF Run
  <2>3. OnRecord(d)' = OnRecord(d) /\ Allowed(d)' = Allowed(d)
    BY <2>2, UnchangedRecords
  <2>4. CASE c = d
    <3>1. OnRecord(d) /\ Allowed(d) /\ pc'[d] = "observe"
      BY <1>a, <2>2, <2>4 DEF AuthorityOf, TypeOK
    <3> QED
      BY <1>a, <2>2, <2>3, <3>1 DEF AuthorityOf
  <2>5. CASE c # d
    BY <1>a, <2>1, <2>2, <2>3, <2>5 DEF AuthorityOf, TypeOK
  <2> QED
    BY <2>4, <2>5
<1>7. ASSUME NEW c \in Calls, AppendObservation(c)  PROVE AuthorityOf(d)'
  <2> DEFINE r == [type |-> "observation", previous |-> hash[c], call |-> c,
                   authorization |-> authorized[c], observation |-> outcome[c]]
  <2>1. r \in LedgerRecords
    BY DEF LedgerRecords, TypeOK
  <2>2. /\ ledger' = Append(ledger, r) /\ decision' = decision /\ effects' = effects
        /\ proposal' = proposal /\ authorized' = authorized
    BY <1>7 DEF AppendObservation
  <2>3. OnRecord(d) => OnRecord(d)'
    BY <2>1, <2>2, StaysOnRecord
  <2>4. pc'[d] \in {pc[d], "export"}
    BY <1>7 DEF AppendObservation, TypeOK
  <2> QED
    BY <1>a, <2>2, <2>3, <2>4 DEF AuthorityOf
<1>8. ASSUME NEW c \in Calls, Export(c)  PROVE AuthorityOf(d)'
  BY <1>8, <1>a, UnchangedRecords DEF Export, TypeOK, AuthorityOf
<1>9. ASSUME NEW c \in Calls, Kill(c)  PROVE AuthorityOf(d)'
  BY <1>9, <1>a, UnchangedRecords DEF Kill, TypeOK, AuthorityOf
<1>10. ASSUME Done  PROVE AuthorityOf(d)'
  BY <1>10, <1>a, UnchangedRecords DEF Done, vars, AuthorityOf
<1> QED
  BY <1>1, <1>2, <1>3, <1>4, <1>5, <1>6, <1>7, <1>8, <1>9, <1>10 DEF Next, Step

-----------------------------------------------------------------------------
LEMMA OutcomeStep ==
    ASSUME IInv, Next
    PROVE  OutcomeInv'
<1> USE DEF Goto
<1> SUFFICES ASSUME NEW d \in Calls PROVE OutcomeOf(d)'
  BY DEF OutcomeInv
<1> TypeOK
  BY DEF IInv
<1>a. AuthorityOf(d) /\ OutcomeOf(d)
  BY DEF IInv, AuthorityInv, OutcomeInv
<1>1. ASSUME NEW c \in Calls, Evaluate(c)  PROVE OutcomeOf(d)'
  BY <1>1, <1>a, UnchangedRecords DEF Evaluate, TypeOK, OutcomeOf
<1>2. ASSUME NEW c \in Calls, ReadLastHash(c)  PROVE OutcomeOf(d)'
  <2>1. UNCHANGED <<ledger, outcome, effects>>
    BY <1>2 DEF ReadLastHash
  <2>2. \/ pc'[d] = pc[d]
        \/ pc[d] = "authorize" /\ pc'[d] = "append authorization"
        \/ pc[d] = "observe" /\ pc'[d] = "append observation"
    BY <1>2 DEF ReadLastHash, TypeOK
  <2> QED
    BY <1>a, <2>1, <2>2, UnchangedRecords DEF OutcomeOf
<1>3. ASSUME NEW c \in Calls, AppendAuthorization(c)  PROVE OutcomeOf(d)'
  <2> DEFINE r == [type |-> "authorization", previous |-> hash[c], call |-> c,
                   proposal |-> proposal[c], decision |-> decision[c]]
  <2>1. r \in LedgerRecords
    BY DEF LedgerRecords, TypeOK
  <2>2. ledger' = Append(ledger, r) /\ outcome' = outcome /\ effects' = effects
    BY <1>3 DEF AppendAuthorization
  <2>0. \A type, e : RecordsOf(type, e)' =
           RecordsOf(type, e) \cup (IF r.type = type /\ r.call = e THEN {Len(ledger) + 1} ELSE {})
    <3> HIDE DEF r
    <3> QED
      BY <2>1, <2>2, LedgerAppended
  <2>3. RecordsOf("observation", d)' = RecordsOf("observation", d)
    <3>1. r.type = "authorization"
      OBVIOUS
    <3> HIDE DEF r
    <3> QED
      BY <2>0, <3>1
  <2>4. RecordsOf("authorization", d) \subseteq RecordsOf("authorization", d)'
    BY <2>0
  <2>5. \A i \in RecordsOf("observation", d) : ledger'[i] = ledger[i]
    BY <2>1, <2>2, LedgerAppended, RecordsAreIndices
  <2>6. \/ pc'[d] = pc[d]
        \/ pc[d] = "append authorization" /\ pc'[d] \in {"consume", "observe"}
    BY <1>3 DEF AppendAuthorization, TypeOK
  <2> QED
    BY <1>a, <2>2, <2>3, <2>4, <2>5, <2>6 DEF OutcomeOf
<1>4. ASSUME NEW c \in Calls, LoadNonces(c)  PROVE OutcomeOf(d)'
  <2>1. UNCHANGED <<ledger, effects>>
    BY <1>4 DEF LoadNonces
  <2>2. CASE c = d
    <3>1. pc[d] = "consume" /\ pc'[d] \in {"observe", "replace"}
      BY <1>4, <2>2 DEF LoadNonces, TypeOK
    <3>2. outcome'[d] = outcome[d] \/ outcome'[d] = [status |-> "FAILED", executed |-> FALSE]
      BY <1>4, <2>2 DEF LoadNonces, TypeOK
    <3>3. RecordsOf("observation", d)' = {} /\ d \notin effects'
      BY <1>a, <2>1, <3>1, UnchangedRecords DEF OutcomeOf
    <3>4. outcome'[d].status = "SUCCEEDED" => outcome'[d] = outcome[d]
      BY <3>2
    <3> QED
      BY <1>a, <2>1, <3>1, <3>3, <3>4 DEF OutcomeOf
  <2>3. CASE c # d
    <3>1. pc'[d] = pc[d] /\ outcome'[d] = outcome[d]
      BY <1>4, <2>3 DEF LoadNonces, TypeOK
    <3> QED
      BY <1>a, <2>1, <3>1, UnchangedRecords DEF OutcomeOf
  <2> QED
    BY <2>2, <2>3
<1>5. ASSUME NEW c \in Calls, ReplaceNonces(c)  PROVE OutcomeOf(d)'
  BY <1>5, <1>a, UnchangedRecords DEF ReplaceNonces, TypeOK, OutcomeOf
<1>6. ASSUME NEW c \in Calls, Run(c)  PROVE OutcomeOf(d)'
  <2>1. /\ pc[c] = "run" /\ pc' = [pc EXCEPT ![c] = "observe"]
        /\ UNCHANGED ledger
    BY <1>6 DEF Run
  <2>2. RecordsOf("observation", d)' = RecordsOf("observation", d)
        /\ RecordsOf("authorization", d)' = RecordsOf("authorization", d)
    BY <2>1, UnchangedRecords
  <2>3. CASE c = d
    <3>1. RecordsOf("observation", d) = {} /\ pc'[d] = "observe"
      BY <1>a, <2>1, <2>3 DEF OutcomeOf, TypeOK
    <3>2. PICK acted \in BOOLEAN, returned \in BOOLEAN :
             /\ returned => acted
             /\ effects' = IF acted THEN effects \cup {c} ELSE effects
             /\ outcome' = [outcome EXCEPT ![c] = Observed(returned)]
      BY <1>6 DEF Run
    <3>3. outcome'[d] = [status |-> IF returned THEN "SUCCEEDED" ELSE "FAILED",
                         executed |-> TRUE]
      BY <2>3, <3>2 DEF Observed, TypeOK
    <3>4. outcome'[d].executed = TRUE /\ (outcome'[d].status = "SUCCEEDED" => returned)
      BY <3>3
    <3>5. returned => d \in effects'
      BY <2>3, <3>2
    <3> QED
      BY <2>2, <3>1, <3>4, <3>5 DEF OutcomeOf
  <2>4. CASE c # d
    <3>1. pc'[d] = pc[d] /\ outcome'[d] = outcome[d] /\ (d \in effects' <=> d \in effects)
      BY <1>6, <2>4 DEF Run, TypeOK
    <3> QED
      BY <1>a, <2>1, <2>2, <3>1 DEF OutcomeOf
  <2> QED
    BY <2>3, <2>4
<1>7. ASSUME NEW c \in Calls, AppendObservation(c)  PROVE OutcomeOf(d)'
  <2> DEFINE r == [type |-> "observation", previous |-> hash[c], call |-> c,
                   authorization |-> authorized[c], observation |-> outcome[c]]
             top == Len(ledger) + 1
  <2>1. r \in LedgerRecords
    BY DEF LedgerRecords, TypeOK
  <2>2. ledger' = Append(ledger, r) /\ outcome' = outcome /\ effects' = effects
    BY <1>7 DEF AppendObservation
  <2>0. /\ r.type = "observation" /\ r.call = c
        /\ r.authorization = authorized[c] /\ r.observation = outcome[c]
    OBVIOUS
  <2> HIDE DEF r
  <2>7. \A type, e : RecordsOf(type, e)' =
           RecordsOf(type, e) \cup (IF r.type = type /\ r.call = e THEN {Len(ledger) + 1} ELSE {})
    BY <2>1, <2>2, LedgerAppended
  <2>3. RecordsOf("authorization", d)' = RecordsOf("authorization", d)
    BY <2>0, <2>7
  <2>4. \A i \in RecordsOf("observation", d) : ledger'[i] = ledger[i]
    BY <2>1, <2>2, LedgerAppended, RecordsAreIndices
  <2>5. CASE c = d
    <3>1. RecordsOf("observation", d)' = RecordsOf("observation", d) \cup {top}
      BY <2>0, <2>1, <2>2, <2>5, LedgerAppended
    <3>2. ledger'[top] = r
      BY <2>1, <2>2, LedgerAppended
    <3>3. pc[d] = "append observation" /\ pc'[d] = "export"
      BY <1>7, <2>5 DEF AppendObservation, TypeOK
    <3>4. authorized[d] \in RecordsOf("authorization", d) /\ RecordsOf("observation", d) = {}
      BY <1>a, <3>3 DEF AuthorityOf, OutcomeOf, OnRecord
    <3>5. authorized[d] < top
      BY <2>1, <2>2, <3>4, LedgerAppended, RecordsAreIndices
    <3>6. RecordsOf("observation", d)' = {top}
      BY <3>1, <3>4
    <3>7. /\ ledger'[top].observation = outcome'[d]
          /\ ledger'[top].authorization \in RecordsOf("authorization", d)'
          /\ ledger'[top].authorization < top
      BY <2>0, <2>2, <2>3, <2>5, <3>2, <3>4, <3>5
    <3> QED
      BY <1>a, <2>2, <3>3, <3>6, <3>7 DEF OutcomeOf
  <2>6. CASE c # d
    <3>1. RecordsOf("observation", d)' = RecordsOf("observation", d)
      BY <2>0, <2>6, <2>7
    <3>2. pc'[d] = pc[d]
      BY <1>7, <2>6 DEF AppendObservation, TypeOK
    <3> QED
      BY <1>a, <2>2, <2>3, <2>4, <3>1, <3>2 DEF OutcomeOf
  <2> QED
    BY <2>5, <2>6
<1>8. ASSUME NEW c \in Calls, Export(c)  PROVE OutcomeOf(d)'
  BY <1>8, <1>a, UnchangedRecords DEF Export, TypeOK, OutcomeOf
<1>9. ASSUME NEW c \in Calls, Kill(c)  PROVE OutcomeOf(d)'
  BY <1>9, <1>a, UnchangedRecords DEF Kill, TypeOK, OutcomeOf
<1>10. ASSUME Done  PROVE OutcomeOf(d)'
  BY <1>10, <1>a, UnchangedRecords DEF Done, vars, OutcomeOf
<1> QED
  BY <1>1, <1>2, <1>3, <1>4, <1>5, <1>6, <1>7, <1>8, <1>9, <1>10 DEF Next, Step

-----------------------------------------------------------------------------
LEMMA NonceStep ==
    ASSUME IInv, Next
    PROVE  NonceInv'
<1> USE DEF Goto
<1> SUFFICES ASSUME ~overlapped'
             PROVE  /\ \A c, d \in Calls : pc'[c] = "replace" /\ pc'[d] = "replace" => c = d
                    /\ \A c \in Calls : pc'[c] = "replace" =>
                          loaded'[c] = store' /\ proposal'[c].nonce \notin DOMAIN store'
                    /\ \A c \in Calls : pc'[c] = "run" \/ c \in effects' => Spent(c)'
  BY DEF NonceInv
<1> TypeOK
  BY DEF IInv
<1>0. ASSUME ~overlapped
      PROVE  /\ \A c, d \in Calls : pc[c] = "replace" /\ pc[d] = "replace" => c = d
             /\ \A c \in Calls : pc[c] = "replace" =>
                   loaded[c] = store /\ proposal[c].nonce \notin DOMAIN store
             /\ \A c \in Calls : pc[c] = "run" \/ c \in effects => Spent(c)
  BY <1>0 DEF IInv, NonceInv
(* A step that leaves the store alone and sends nobody to "replace" or "run". *)
<1>a. ASSUME UNCHANGED <<proposal, store, loaded, overlapped>>, effects' = effects,
             \A c \in Calls : pc'[c] \in {"replace", "run"} => pc'[c] = pc[c]
      PROVE  /\ \A c, d \in Calls : pc'[c] = "replace" /\ pc'[d] = "replace" => c = d
             /\ \A c \in Calls : pc'[c] = "replace" =>
                   loaded'[c] = store' /\ proposal'[c].nonce \notin DOMAIN store'
             /\ \A c \in Calls : pc'[c] = "run" \/ c \in effects' => Spent(c)'
  BY <1>0, <1>a DEF Spent
<1>1. ASSUME NEW c \in Calls, Evaluate(c)
      PROVE  NonceInv'
  BY <1>1, <1>a DEF Evaluate, TypeOK, NonceInv
<1>2. ASSUME NEW c \in Calls, ReadLastHash(c)
      PROVE  NonceInv'
  BY <1>2, <1>a DEF ReadLastHash, TypeOK, NonceInv
<1>3. ASSUME NEW c \in Calls, AppendAuthorization(c)
      PROVE  NonceInv'
  BY <1>3, <1>a DEF AppendAuthorization, TypeOK, NonceInv
<1>4. ASSUME NEW c \in Calls, LoadNonces(c)
      PROVE  NonceInv'
  <2>1. UNCHANGED <<proposal, store, effects>>
    BY <1>4 DEF LoadNonces
  <2>2. CASE SpentSince(c)
    BY <1>4, <1>a, <2>2 DEF LoadNonces, TypeOK, NonceInv
  <2>3. CASE ~SpentSince(c)
    <3>1. /\ ~overlapped /\ \A d \in Calls : pc[d] # "replace"
          /\ pc' = [pc EXCEPT ![c] = "replace"] /\ loaded' = [loaded EXCEPT ![c] = store]
      BY <1>4, <2>3 DEF LoadNonces
    <3>2. loaded'[c] = store' /\ proposal'[c].nonce \notin DOMAIN store'
      BY <2>1, <2>3, <3>1 DEF SpentSince, TypeOK
    <3>3. \A d \in Calls : /\ pc'[d] = "replace" => d = c
                           /\ pc'[d] = "run" => pc[d] = "run"
      BY <3>1 DEF TypeOK
    <3>4. \A d \in Calls : pc'[d] = "run" \/ d \in effects' => Spent(d)'
      BY <1>0, <2>1, <3>1, <3>3 DEF Spent
    <3> QED
      BY <3>2, <3>3, <3>4 DEF NonceInv
  <2> QED
    BY <2>2, <2>3
<1>5. ASSUME NEW c \in Calls, ReplaceNonces(c)
      PROVE  NonceInv'
  <2> DEFINE n == proposal[c].nonce
  <2>1. /\ pc[c] = "replace" /\ pc' = [pc EXCEPT ![c] = "run"]
        /\ store' = [m \in DOMAIN loaded[c] \cup {n} |-> IF m = n THEN c ELSE loaded[c][m]]
        /\ UNCHANGED <<proposal, effects, overlapped>>
    BY <1>5 DEF ReplaceNonces
  <2>2. loaded[c] = store /\ n \notin DOMAIN store
    BY <1>0, <2>1
  <2>3. /\ DOMAIN store' = DOMAIN store \cup {n} /\ store'[n] = c
        /\ \A m \in DOMAIN store : store'[m] = store[m]
    BY <2>1, <2>2
  <2>4. \A d \in Calls : pc'[d] # "replace"
    BY <1>0, <2>1 DEF TypeOK
  <2>5. \A d \in Calls : pc'[d] = "run" => d = c \/ pc[d] = "run"
    BY <2>1 DEF TypeOK
  <2>6. Spent(c)'
    BY <2>1, <2>3 DEF Spent
  <2>7. \A d \in Calls : Spent(d) => Spent(d)'
    BY <2>1, <2>3 DEF Spent
  <2> QED
    BY <1>0, <2>1, <2>4, <2>5, <2>6, <2>7 DEF NonceInv
<1>6. ASSUME NEW c \in Calls, Run(c)
      PROVE  NonceInv'
  <2>1. /\ pc[c] = "run" /\ pc' = [pc EXCEPT ![c] = "observe"]
        /\ effects' \subseteq effects \cup {c}
        /\ UNCHANGED <<proposal, store, loaded, overlapped>>
    BY <1>6 DEF Run
  <2>2. \A d \in Calls : pc'[d] \in {"replace", "run"} => pc'[d] = pc[d]
    BY <2>1 DEF TypeOK
  <2> QED
    BY <1>0, <2>1, <2>2 DEF NonceInv, Spent
<1>7. ASSUME NEW c \in Calls, AppendObservation(c)
      PROVE  NonceInv'
  BY <1>7, <1>a DEF AppendObservation, TypeOK, NonceInv
<1>8. ASSUME NEW c \in Calls, Export(c)
      PROVE  NonceInv'
  BY <1>8, <1>a DEF Export, TypeOK, NonceInv
<1>9. ASSUME NEW c \in Calls, Kill(c)
      PROVE  NonceInv'
  BY <1>9, <1>a DEF Kill, TypeOK, NonceInv
<1>10. ASSUME Done
       PROVE  NonceInv'
  BY <1>10, <1>a DEF Done, vars, NonceInv
<1> QED
  BY <1>1, <1>2, <1>3, <1>4, <1>5, <1>6, <1>7, <1>8, <1>9, <1>10 DEF Next, Step, NonceInv

-----------------------------------------------------------------------------
(* The ledger stays a chain.                                               *)
LEMMA ChainAppended ==
    ASSUME TypeOK, IsChain(ledger), NEW r \in LedgerRecords, ledger' = Append(ledger, r),
           r.previous \in 0 .. Len(ledger)
    PROVE  IsChain(ledger')
<1> DEFINE top == Len(ledger) + 1
<1>1. /\ DOMAIN ledger = 1..Len(ledger) /\ DOMAIN ledger' = 1..top /\ Len(ledger) \in Nat
      /\ ledger'[top] = r /\ \A i \in 1..Len(ledger) : ledger'[i] = ledger[i]
  BY DEF TypeOK
<1>2. \A i \in 1..top : i \in 1..Len(ledger) \/ i = top
  BY <1>1
<1>3. r.previous \in 0 .. top - 1
  BY <1>1
<1> QED
  BY <1>1, <1>2, <1>3 DEF IsChain

LEMMA LedgerStep ==
    ASSUME IInv, Next
    PROVE  LedgerInv'
<1> SUFFICES IsChain(ledger') /\ \A d \in Calls : hash'[d] \in 0 .. Len(ledger')
  BY DEF LedgerInv
<1>a. /\ TypeOK /\ IsChain(ledger) /\ Len(ledger) \in Nat
      /\ \A d \in Calls : hash[d] \in 0 .. Len(ledger)
  BY DEF IInv, BundleInv, LedgerInv, TypeOK
<1>1. CASE UNCHANGED <<ledger, hash>>
  BY <1>1, <1>a
<1>2. ASSUME NEW c \in Calls, ReadLastHash(c)
      PROVE  IsChain(ledger') /\ \A d \in Calls : hash'[d] \in 0 .. Len(ledger')
  <2>1. ledger' = ledger /\ hash' = [hash EXCEPT ![c] = Len(ledger)]
    BY <1>2 DEF ReadLastHash
  <2>2. \A d \in Calls : hash'[d] \in {hash[d], Len(ledger)}
    BY <1>a, <2>1 DEF TypeOK
  <2> QED
    BY <1>a, <2>1, <2>2
<1>3. ASSUME NEW c \in Calls, AppendAuthorization(c)
      PROVE  IsChain(ledger') /\ \A d \in Calls : hash'[d] \in 0 .. Len(ledger')
  <2> DEFINE r == [type |-> "authorization", previous |-> hash[c], call |-> c,
                   proposal |-> proposal[c], decision |-> decision[c]]
  <2>1. r \in LedgerRecords /\ r.previous \in 0 .. Len(ledger)
    BY <1>a DEF LedgerRecords, TypeOK
  <2>2. ledger' = Append(ledger, r) /\ hash' = hash
    BY <1>3 DEF AppendAuthorization
  <2>3. IsChain(ledger')
    BY <1>a, <2>1, <2>2, ChainAppended
  <2>4. Len(ledger') = Len(ledger) + 1
    BY <1>a, <2>2 DEF TypeOK
  <2> QED
    BY <1>a, <2>2, <2>3, <2>4
<1>4. ASSUME NEW c \in Calls, AppendObservation(c)
      PROVE  IsChain(ledger') /\ \A d \in Calls : hash'[d] \in 0 .. Len(ledger')
  <2> DEFINE r == [type |-> "observation", previous |-> hash[c], call |-> c,
                   authorization |-> authorized[c], observation |-> outcome[c]]
  <2>1. r \in LedgerRecords /\ r.previous \in 0 .. Len(ledger)
    BY <1>a DEF LedgerRecords, TypeOK
  <2>2. ledger' = Append(ledger, r) /\ hash' = [hash EXCEPT ![c] = Len(ledger) + 1]
    BY <1>4 DEF AppendObservation
  <2>3. IsChain(ledger')
    BY <1>a, <2>1, <2>2, ChainAppended
  <2>4. Len(ledger') = Len(ledger) + 1
    BY <1>a, <2>2 DEF TypeOK
  <2> QED
    BY <1>a, <2>2, <2>3, <2>4 DEF TypeOK
<1> QED
  BY <1>1, <1>2, <1>3, <1>4
     DEF Next, Step, Evaluate, LoadNonces, ReplaceNonces, Run, Export, Kill, Done, vars

-----------------------------------------------------------------------------
(* A ledger that tells of a call goes on telling of it.                    *)
LEMMA StillTells ==
    ASSUME TypeOK, NEW c \in Calls, Tell(ledger, c),
           decision'[c] = decision[c], outcome'[c] = outcome[c],
           ledger' = ledger \/ \E r \in LedgerRecords : ledger' = Append(ledger, r)
    PROVE  Tell(ledger, c)'
<1>1. \A i \in DOMAIN ledger : i \in DOMAIN ledger' /\ ledger'[i] = ledger[i]
  <2>1. CASE ledger' = ledger
    BY <2>1
  <2>2. ASSUME NEW r \in LedgerRecords, ledger' = Append(ledger, r)
        PROVE  \A i \in DOMAIN ledger : i \in DOMAIN ledger' /\ ledger'[i] = ledger[i]
    BY <2>2 DEF TypeOK
  <2> QED
    BY <2>1, <2>2
<1> QED
  BY <1>1 DEF Tell

(* Once its observation is appended, the ledger tells of a call.           *)
LEMMA NowTells ==
    ASSUME IInv, NEW c \in Calls, AppendObservation(c)
    PROVE  Tell(ledger, c)'
<1> DEFINE r == [type |-> "observation", previous |-> hash[c], call |-> c,
                 authorization |-> authorized[c], observation |-> outcome[c]]
           top == Len(ledger) + 1
<1>1. TypeOK /\ OnRecord(c)
  BY DEF IInv, AuthorityInv, AuthorityOf, AppendObservation
<1>2. r \in LedgerRecords
  BY <1>1 DEF LedgerRecords, TypeOK
<1>3. ledger' = Append(ledger, r) /\ UNCHANGED <<decision, outcome, authorized>>
  BY DEF AppendObservation
<1>4. /\ r.type = "observation" /\ r.call = c
      /\ r.authorization = authorized[c] /\ r.observation = outcome[c]
  OBVIOUS
<1> HIDE DEF r
<1>5. /\ top \in DOMAIN ledger' /\ ledger'[top] = r
      /\ \A i \in DOMAIN ledger : i \in DOMAIN ledger' /\ ledger'[i] = ledger[i]
  BY <1>1, <1>2, <1>3 DEF TypeOK
<1>6. /\ authorized[c] \in DOMAIN ledger /\ ledger[authorized[c]].call = c
      /\ ledger[authorized[c]].type = "authorization"
      /\ ledger[authorized[c]].decision = decision[c]
  BY <1>1 DEF OnRecord, RecordsOf
<1> QED
  BY <1>3, <1>4, <1>5, <1>6 DEF Tell

(* What a bundle holds depends on the state of its call alone.             *)
LEMMA BundleStays ==
    ASSUME TypeOK, NEW d \in Calls, BundleOf(d),
           bundle'[d] = bundle[d], proposal'[d] = proposal[d],
           ledger' = ledger \/ \E r \in LedgerRecords : ledger' = Append(ledger, r),
           \/ pc'[d] = pc[d] /\ decision'[d] = decision[d] /\ outcome'[d] = outcome[d]
           \/ pc[d] \notin {"export", "done", "killed"} /\ pc'[d] \notin {"export", "done"}
           \/ pc'[d] = "killed"
    PROVE  BundleOf(d)'
<1>1. CASE pc'[d] = pc[d] /\ decision'[d] = decision[d] /\ outcome'[d] = outcome[d]
  <2>1. CmlRows(d)' = CmlRows(d)
    BY DEF CmlRows, CompletedAt
  <2>2. \A records : Tell(records, d)' = Tell(records, d)
    BY <1>1 DEF Tell
  <2>3. \A k : Exported(d, k)' = Exported(d, k)
    BY <1>1, <2>1, <2>2 DEF Exported
  <2>4. Tell(ledger, d) => Tell(ledger, d)'
    BY <1>1, StillTells
  <2> QED
    BY <1>1, <2>3, <2>4 DEF BundleOf
<1>2. CASE pc[d] \notin {"export", "done", "killed"} /\ pc'[d] \notin {"export", "done"}
  BY <1>2 DEF BundleOf
<1>3. CASE pc'[d] = "killed"
  BY <1>3 DEF BundleOf
<1> QED
  BY <1>1, <1>2, <1>3

(* Each group of files has a file of its own.                              *)
LEMMA GroupsDiffer ==
    /\ Len(BundleFiles) = 4 /\ DOMAIN BundleFiles = 1..4
    /\ \A i, j \in 1..4 :
          <<"result", "liminaldb-ledger", "manifest", "bundle-verification">>[i] \in BundleFiles[j]
              <=> i = j
<1> DEFINE mark == <<"result", "liminaldb-ledger", "manifest", "bundle-verification">>
<1>1. /\ Len(BundleFiles) = 4 /\ DOMAIN BundleFiles = 1..4
      /\ BundleFiles[1] = Records /\ BundleFiles[2] = {"liminaldb-ledger"}
      /\ BundleFiles[3] = {"manifest"} /\ BundleFiles[4] = {"bundle-verification"}
  BY DEF BundleFiles
<1>2. /\ mark[1] = "result" /\ mark[2] = "liminaldb-ledger"
      /\ mark[3] = "manifest" /\ mark[4] = "bundle-verification"
  OBVIOUS
<1>3. \A i \in 1..4 : i \in {1, 2, 3, 4}
  OBVIOUS
<1> HIDE DEF mark
<1>4. \A i, j \in {1, 2, 3, 4} : mark[i] \in BundleFiles[j] <=> i = j
  BY <1>1, <1>2 DEF Records
<1> QED
  BY <1>1, <1>3, <1>4 DEF mark

(* The next group is the one after those that are there.                   *)
LEMMA NextGroup ==
    ASSUME NEW c, NEW k \in 0..3, DOMAIN bundle[c] = UNION {BundleFiles[i] : i \in 1..k}
    PROVE  Min(Unwritten(c)) = k + 1
<1>1. \A i \in 1..4 : BundleFiles[i] \subseteq DOMAIN bundle[c] <=> i <= k
  <2>1. ASSUME NEW i \in 1..4, i <= k PROVE BundleFiles[i] \subseteq DOMAIN bundle[c]
    <3>1. i \in 1..k
      BY <2>1
    <3> QED
      BY <3>1
  <2>2. ASSUME NEW i \in 1..4, k < i PROVE ~(BundleFiles[i] \subseteq DOMAIN bundle[c])
    <3> DEFINE mark == <<"result", "liminaldb-ledger", "manifest", "bundle-verification">>
    <3>1. mark[i] \in BundleFiles[i] /\ \A j \in 1..k : mark[i] \notin BundleFiles[j]
      BY <2>2, GroupsDiffer
    <3> HIDE DEF mark
    <3> QED
      BY <3>1
  <2> QED
    BY <2>1, <2>2
<1>2. Unwritten(c) = {i \in 1..4 : k < i}
  BY <1>1, GroupsDiffer DEF Unwritten
<1>3. Unwritten(c) \in SUBSET Nat /\ k + 1 \in Unwritten(c)
  BY <1>2
<1>4. Min(Unwritten(c)) \in Unwritten(c) /\ Min(Unwritten(c)) <= k + 1
  BY <1>3, MinIsLeast
<1> QED
  BY <1>2, <1>4

(* A manifest does not list itself, nor the verification.                  *)
LEMMA ManifestStays ==
    ASSUME NEW dir, NEW writes, DOMAIN writes \subseteq Meta
    PROVE  Manifest(Put(dir, writes)) = Manifest(dir)
<1>1. /\ DOMAIN Put(dir, writes) \ Meta = DOMAIN dir \ Meta
      /\ \A f \in DOMAIN dir \ Meta : Put(dir, writes)[f] = dir[f]
  BY PutAdds
<1> QED
  BY <1>1 DEF Manifest

LEMMA BundleGrows ==
    ASSUME IInv, NEW c \in Calls, NEW k \in 0..3, Exported(c, k), Tell(ledger, c), Export(c)
    PROVE  Exported(c, k + 1)' /\ pc'[c] = IF k = 3 THEN "done" ELSE "export"
<1> DEFINE writes == [f \in BundleFiles[k + 1] |-> Content(c, f)]
           dir == bundle[c]
<1>1. TypeOK /\ DOMAIN dir = UNION {BundleFiles[i] : i \in 1..k} /\ IsChain(ledger)
  BY DEF IInv, BundleInv, LedgerInv, Exported
<1>2. Min(Unwritten(c)) = k + 1
  BY <1>1, NextGroup
<1>3. /\ bundle'[c] = Put(dir, writes)
      /\ pc'[c] = IF k = 3 THEN "done" ELSE "export"
      /\ UNCHANGED <<proposal, decision, outcome>>
  BY <1>1, <1>2, GroupsDiffer DEF Export, Goto, TypeOK
<1>4. CmlRows(c)' = CmlRows(c) /\ \A records : Tell(records, c)' = Tell(records, c)
  BY <1>3 DEF CmlRows, CompletedAt, Tell
<1>9. /\ DOMAIN bundle'[c] = DOMAIN dir \cup BundleFiles[k + 1]
      /\ \A f \in BundleFiles[k + 1] : bundle'[c][f] = Content(c, f)
      /\ \A f \in DOMAIN dir \ BundleFiles[k + 1] : bundle'[c][f] = dir[f]
  <2>1. DOMAIN writes = BundleFiles[k + 1] /\ \A f \in BundleFiles[k + 1] : writes[f] = Content(c, f)
    OBVIOUS
  <2>2. bundle'[c] = Put(dir, writes)
    BY <1>3
  <2> HIDE DEF writes, dir
  <2>3. /\ DOMAIN Put(dir, writes) = DOMAIN dir \cup DOMAIN writes
        /\ \A f \in DOMAIN writes : Put(dir, writes)[f] = writes[f]
        /\ \A f \in DOMAIN dir \ DOMAIN writes : Put(dir, writes)[f] = dir[f]
    BY PutAdds
  <2> QED
    BY <2>1, <2>2, <2>3
<1>5. DOMAIN bundle'[c] = UNION {BundleFiles[i] : i \in 1..(k + 1)}
  <2>1. \A i : i \in 1..(k + 1) <=> i \in 1..k \/ i = k + 1
    OBVIOUS
  <2> QED
    BY <1>1, <1>9, <2>1
<1>6. CASE k = 0
  <2>1. /\ bundle'[c]["authorization"] = Content(c, "authorization")
        /\ bundle'[c]["result"] = Content(c, "result")
        /\ bundle'[c]["cml-trace"] = Content(c, "cml-trace")
    BY <1>6, <1>9 DEF BundleFiles, Records
  <2>2. /\ Content(c, "authorization") = decision[c] /\ Content(c, "result") = outcome[c]
        /\ Content(c, "cml-trace") = CmlRows(c)
    BY DEF Content
  <2> QED
    BY <1>3, <1>4, <1>5, <1>6, <2>1, <2>2 DEF Exported
<1>7. CASE k > 0
  <2>1. k \in {1, 2, 3}
    BY <1>7
  <2>2. /\ dir["authorization"] = decision[c] /\ dir["result"] = outcome[c]
        /\ dir["cml-trace"] = CmlRows(c)
    BY <1>7 DEF Exported
  <2>3. {"authorization", "result", "cml-trace"} \subseteq DOMAIN dir
    <3>1. Records \subseteq DOMAIN dir
      <4>1. 1 \in 1..k /\ BundleFiles[1] = Records
        BY <1>7 DEF BundleFiles
      <4> QED
        BY <1>1, <4>1
    <3> QED
      BY <3>1 DEF Records
  <2>4. BundleFiles[k + 1] \subseteq {"liminaldb-ledger", "manifest", "bundle-verification"}
    BY <2>1 DEF BundleFiles
  <2>5. /\ bundle'[c]["authorization"] = decision[c] /\ bundle'[c]["result"] = outcome[c]
        /\ bundle'[c]["cml-trace"] = CmlRows(c)
    BY <1>9, <2>2, <2>3, <2>4
  <2>6. CASE k = 1
    <3>1. bundle'[c]["liminaldb-ledger"] = ledger
      BY <1>9, <2>6 DEF BundleFiles, Content
    <3> QED
      BY <1>1, <1>3, <1>4, <1>5, <2>5, <2>6, <3>1 DEF Exported
  <2>7. CASE k > 1
    <3>1. k \in {2, 3} /\ BundleFiles[k + 1] \subseteq Meta /\ "liminaldb-ledger" \notin BundleFiles[k + 1]
      BY <2>1, <2>7 DEF BundleFiles, Meta
    <3>2. "liminaldb-ledger" \in DOMAIN dir
      <4>1. 2 \in 1..k /\ "liminaldb-ledger" \in BundleFiles[2]
        BY <2>7 DEF BundleFiles
      <4> QED
        BY <1>1, <4>1
    <3>3. bundle'[c]["liminaldb-ledger"] = dir["liminaldb-ledger"]
      BY <1>9, <3>1, <3>2
    <3>4. Manifest(bundle'[c]) = Manifest(dir)
      <4>1. DOMAIN writes \subseteq Meta
        BY <3>1
      <4> HIDE DEF writes
      <4> QED
        BY <1>3, <4>1, ManifestStays
    <3>5. IsChain(dir["liminaldb-ledger"]) /\ Tell(dir["liminaldb-ledger"], c)
      BY <2>7 DEF Exported
    <3>6. CASE k = 2
      <4>1. bundle'[c]["manifest"] = Manifest(dir)
        BY <1>9, <3>6 DEF BundleFiles, Content
      <4> QED
        BY <1>3, <1>4, <1>5, <2>5, <3>3, <3>4, <3>5, <3>6, <4>1 DEF Exported
    <3>7. CASE k = 3
      <4>1. dir["manifest"] = Manifest(dir)
        BY <3>7 DEF Exported
      <4>2. "manifest" \in DOMAIN dir
        <5>1. 3 \in 1..k /\ "manifest" \in BundleFiles[3]
          BY <3>7 DEF BundleFiles
        <5> QED
          BY <1>1, <5>1
      <4>3. bundle'[c]["bundle-verification"] = TRUE /\ BundleFiles[k + 1] = {"bundle-verification"}
        <5>1. Valid(dir) = TRUE
          BY <4>1, <4>2 DEF Valid
        <5> QED
          BY <1>9, <3>7, <5>1 DEF BundleFiles, Content
      <4>4. bundle'[c]["manifest"] = dir["manifest"]
        BY <1>9, <4>2, <4>3
      <4> QED
        BY <1>3, <1>4, <1>5, <2>5, <3>3, <3>4, <3>5, <3>7, <4>1, <4>3, <4>4 DEF Exported
    <3> QED
      BY <3>1, <3>6, <3>7
  <2> QED
    BY <2>1, <2>6, <2>7
<1> QED
  BY <1>3, <1>6, <1>7

LEMMA BundleStep ==
    ASSUME IInv, Next
    PROVE  BundleInv'
<1> SUFFICES ASSUME NEW d \in Calls PROVE BundleOf(d)'
  BY LedgerStep DEF BundleInv
<1> USE DEF Goto
<1>a. TypeOK /\ BundleOf(d)
  BY DEF IInv, BundleInv
<1>1. ASSUME NEW c \in Calls, Evaluate(c)  PROVE BundleOf(d)'
  BY <1>1, <1>a, BundleStays DEF Evaluate, TypeOK
<1>2. ASSUME NEW c \in Calls, ReadLastHash(c)  PROVE BundleOf(d)'
  BY <1>2, <1>a, BundleStays DEF ReadLastHash, TypeOK
<1>3. ASSUME NEW c \in Calls, AppendAuthorization(c)  PROVE BundleOf(d)'
  <2> DEFINE r == [type |-> "authorization", previous |-> hash[c], call |-> c,
                   proposal |-> proposal[c], decision |-> decision[c]]
  <2>1. r \in LedgerRecords
    BY <1>a DEF LedgerRecords, TypeOK
  <2>2. ledger' = Append(ledger, r) /\ UNCHANGED <<proposal, decision, outcome, bundle>>
    BY <1>3 DEF AppendAuthorization
  <2>3. \/ pc'[d] = pc[d]
        \/ pc[d] = "append authorization" /\ pc'[d] \in {"consume", "observe"}
    BY <1>3, <1>a DEF AppendAuthorization, TypeOK
  <2> HIDE DEF r
  <2> QED
    BY <1>a, <2>1, <2>2, <2>3, BundleStays
<1>4. ASSUME NEW c \in Calls, LoadNonces(c)  PROVE BundleOf(d)'
  BY <1>4, <1>a, BundleStays DEF LoadNonces, TypeOK
<1>5. ASSUME NEW c \in Calls, ReplaceNonces(c)  PROVE BundleOf(d)'
  BY <1>5, <1>a, BundleStays DEF ReplaceNonces, TypeOK
<1>6. ASSUME NEW c \in Calls, Run(c)  PROVE BundleOf(d)'
  BY <1>6, <1>a, BundleStays DEF Run, TypeOK
<1>7. ASSUME NEW c \in Calls, AppendObservation(c)  PROVE BundleOf(d)'
  <2> DEFINE r == [type |-> "observation", previous |-> hash[c], call |-> c,
                   authorization |-> authorized[c], observation |-> outcome[c]]
  <2>1. r \in LedgerRecords
    BY <1>a DEF LedgerRecords, TypeOK
  <2>2. ledger' = Append(ledger, r) /\ UNCHANGED <<proposal, decision, outcome, bundle>>
    BY <1>7 DEF AppendObservation
  <2>3. CASE c = d
    <3>1. bundle[d] = NoFiles /\ pc'[d] = "export"
      BY <1>7, <1>a, <2>3 DEF AppendObservation, BundleOf, TypeOK
    <3>2. Exported(d, 0)'
      <4>1. 1..0 = {}
        OBVIOUS
      <4> QED
        BY <2>2, <3>1, <4>1 DEF Exported, NoFiles
    <3>3. Tell(ledger, d)'
      BY <1>7, <2>3, NowTells
    <3> QED
      BY <3>1, <3>2, <3>3 DEF BundleOf
  <2>4. CASE c # d
    <3>1. pc'[d] = pc[d]
      BY <1>7, <1>a, <2>4 DEF AppendObservation, TypeOK
    <3> HIDE DEF r
    <3> QED
      BY <1>a, <2>1, <2>2, <3>1, BundleStays
  <2> QED
    BY <2>3, <2>4
<1>8. ASSUME NEW c \in Calls, Export(c)  PROVE BundleOf(d)'
  <2>1. CASE c = d
    <3>1. Tell(ledger, d)
      BY <1>8, <1>a, <2>1 DEF Export, BundleOf
    <3>2. PICK k \in 0..3 : Exported(d, k)
      BY <1>8, <1>a, <2>1 DEF Export, BundleOf
    <3>3. Exported(d, k + 1)' /\ pc'[d] = IF k = 3 THEN "done" ELSE "export"
      BY <1>8, <2>1, <3>1, <3>2, BundleGrows
    <3>4. Tell(ledger, d)'
      BY <1>8, <1>a, <3>1, StillTells DEF Export
    <3> QED
      BY <3>2, <3>3, <3>4 DEF BundleOf
  <2>2. CASE c # d
    BY <1>8, <1>a, <2>2, BundleStays DEF Export, TypeOK
  <2> QED
    BY <2>1, <2>2
<1>9. ASSUME NEW c \in Calls, Kill(c)  PROVE BundleOf(d)'
  BY <1>9, <1>a, BundleStays DEF Kill, TypeOK
<1>10. ASSUME Done  PROVE BundleOf(d)'
  BY <1>10, <1>a, BundleStays DEF Done, vars
<1> QED
  BY <1>1, <1>2, <1>3, <1>4, <1>5, <1>6, <1>7, <1>8, <1>9, <1>10 DEF Next, Step

(* The three rows of a trace: each is later than the one before, and names *)
(* an earlier one as its cause.                                            *)
LEMMA RowsAreOrdered ==
    ASSUME NEW c \in Calls
    PROVE  LET rows == CmlRows(c) IN
           \A i \in DOMAIN rows :
               /\ i > 1 => rows[i].time > rows[i - 1].time
               /\ rows[i].parent # None => \E k \in 1 .. i - 1 : rows[k].id = rows[i].parent
<1> DEFINE p == proposal[c]
           rows == CmlRows(c)
<1>1. /\ DOMAIN rows = 1..3
      /\ p.parent_cause # None => rows[1].id = p.parent_cause
      /\ rows[2].id = p.span_id
      /\ rows[1].time = 0 /\ rows[2].time = 1 /\ rows[3].time = CompletedAt(c)
      /\ rows[1].parent = None /\ rows[2].parent = p.parent_cause /\ rows[3].parent = p.span_id
  BY DEF CmlRows
<1>2. CompletedAt(c) \in Int /\ CompletedAt(c) >= 2
  <2>1. Elapsed[c] \in Int
    BY LiminalAssumption
  <2>2. CASE Elapsed[c] > 2
    BY <2>1, <2>2 DEF CompletedAt
  <2>3. CASE ~(Elapsed[c] > 2)
    BY <2>3 DEF CompletedAt
  <2> QED
    BY <2>2, <2>3
<1> HIDE DEF rows, p
<1>4. \A i \in 1..3 : i \in {1, 2, 3}
  OBVIOUS
<1>5. 1 \in 1 .. 2 - 1 /\ 2 \in 1 .. 3 - 1
  OBVIOUS
<1>6. \A i \in DOMAIN rows : i > 1 => rows[i].time > rows[i - 1].time
  BY <1>1, <1>2, <1>4
<1>7. \A i \in DOMAIN rows :
          rows[i].parent # None => \E k \in 1 .. i - 1 : rows[k].id = rows[i].parent
  BY <1>1, <1>4, <1>5
<1> QED
  BY <1>6, <1>7 DEF rows

-----------------------------------------------------------------------------
LEMMA Stutter ==
    ASSUME IInv, UNCHANGED vars
    PROVE  IInv'
<1>1. TypeOK' /\ NonceInv'
  BY DEF IInv, TypeOK, NonceInv, Spent, vars
<1>2. \A c : OnRecord(c)' = OnRecord(c)
  BY DEF OnRecord, RecordsOf, vars
<1>3. AuthorityInv'
  BY <1>2 DEF IInv, AuthorityInv, AuthorityOf, Allowed, vars
<1>4. OutcomeInv'
  BY UnchangedRecords DEF IInv, OutcomeInv, OutcomeOf, vars
<1>5. AdapterInv'
  BY AdapterStep DEF IInv
<1>6. BundleInv'
  <2>1. TypeOK /\ LedgerInv /\ \A d \in Calls : BundleOf(d)
    BY DEF IInv, BundleInv
  <2>2. LedgerInv' /\ UNCHANGED vars
    BY <2>1 DEF LedgerInv, vars
  <2>3. \A d \in Calls : BundleOf(d)'
    BY <2>1, BundleStays DEF vars
  <2> QED
    BY <2>2, <2>3 DEF BundleInv
<1> QED
  BY <1>1, <1>3, <1>4, <1>5, <1>6 DEF IInv

LEMMA Invariance == Spec => []IInv
<1>1. Init => IInv
  BY InitIInv
<1>2. IInv /\ [Next]_vars => IInv'
  BY TypeStep, AdapterStep, AuthorityStep, OutcomeStep, NonceStep, BundleStep, Stutter DEF IInv
<1> QED
  BY <1>1, <1>2, PTL DEF Spec

(* The state of every call stays in its type, in every interleaving of     *)
(* calls and kills, for every policy and every set of spans.               *)
THEOREM TypeCorrect == Spec => []TypeOK
<1>1. IInv => TypeOK
  BY DEF IInv
<1> QED
  BY <1>1, Invariance, PTL

(* NooaLiminalGuard.execute() acts only for a proposal that evaluate()     *)
(* accepts, and the ACCEPT is in the ledger before the action and for good *)
(* (the authorization record is appended before the nonce is consumed and  *)
(* nothing is ever taken off the ledger).                                  *)
THEOREM EffectsWereAccepted == Spec => []AuthorityInv
<1>1. IInv => AuthorityInv
  BY DEF IInv
<1> QED
  BY <1>1, Invariance, PTL

(* What execute() writes down of an action is true whenever it is read:    *)
(* when the executor raises before or after acting, when the nonce is lost *)
(* to another call, and when the call is killed at any step.               *)
THEOREM ObservationsAreTruthful == Spec => []ObservationIsTruthful
<1>1. IInv => ObservationIsTruthful
  <2> SUFFICES ASSUME IInv, NEW c \in Calls, NEW i \in RecordsOf("observation", c)
               PROVE  /\ ledger[i].authorization \in RecordsOf("authorization", c)
                      /\ ledger[i].authorization < i
                      /\ ledger[i].observation.executed = FALSE => c \notin effects
                      /\ ledger[i].observation.status = "SUCCEEDED" => c \in effects
    BY DEF ObservationIsTruthful
  <2>1. OutcomeOf(c)
    BY DEF IInv, OutcomeInv
  <2> QED
    BY <2>1 DEF OutcomeOf
<1> QED
  BY <1>1, Invariance, PTL

(* JsonNonceStore lets one action through per nonce as long as no two      *)
(* calls are inside consume() at once: consume() reads the store again, so *)
(* that calls evaluated before either consumed it do not both act.         *)
THEOREM OneUsePerNonce == Spec => []NonceUsedOnce
<1>1. IInv => NonceUsedOnce
  BY DEF IInv, TypeOK, NonceInv, NonceUsedOnce, Spent
<1> QED
  BY <1>1, Invariance, PTL

(* What execute() acts on was authorized by what somebody wrote down: the  *)
(* values evaluate() demands come from the span or the defaults, never     *)
(* from the adapter's placeholders, and a secret goes to listed            *)
(* destinations alone.                                                     *)
THEOREM EffectsAreAuthorized == Spec => []EffectIsAuthorized
<1>1. ASSUME IInv, NEW c \in effects
      PROVE  /\ \E i \in RecordsOf("authorization", c) : ledger[i].decision.decision = "ACCEPT"
             /\ \A name \in {"intent_id", "parent_cause", "nonce", "scope"} : Supplies(c, name)
             /\ IsNetwork(proposal[c]) /\ Supplies(c, "contains_secret") /\ ~DeniesSecret(c)
                   => Lower(proposal[c].destination) \in NetworkAllowlist
  <2> DEFINE p == proposal[c]
             V(names, default) == Pick(span[c], names, default)
  <2>0. c \in Calls /\ p = Proposal(span[c])
    BY <1>1 DEF IInv, TypeOK, AdapterInv
  <2>1. Allowed(c) /\ OnRecord(c) /\ Decision(p, {}).decision = "ACCEPT"
    BY <1>1, <2>0 DEF IInv, AuthorityInv, AuthorityOf
  <2>2. \E i \in RecordsOf("authorization", c) : ledger[i].decision.decision = "ACCEPT"
    BY <2>1 DEF OnRecord, Allowed
  <2>3. Blocking(p, {}) = {}
    BY <2>1 DEF Decision
  <2>4. /\ p.intent_id # None /\ p.parent_cause # None /\ p.nonce # None
        /\ p.scope \in AllowedScopes /\ ~SecretEgress(p)
    BY <2>3 DEF Blocking
  <2>5. /\ p.intent_id = OptionalText(V(<<"intent_id">>, None))
        /\ p.parent_cause = OptionalText(V(<<"parent_cause">>, None))
        /\ p.nonce = OptionalText(V(<<"nonce">>, None))
        /\ p.scope = V(<<"scope">>, "unknown")
        /\ p.contains_secret = Truthy(V(<<"contains_secret">>, False))
    BY <2>0, ProposalValues
  <2>6. /\ V(<<"intent_id">>, None) \notin {None, "", " "}
        /\ V(<<"parent_cause">>, None) \notin {None, "", " "}
        /\ V(<<"nonce">>, None) \notin {None, "", " "}
        /\ V(<<"scope">>, "unknown") \notin {"unknown", None, "", " "}
    BY <2>4, <2>5, LiminalAssumption DEF OptionalText
  <2>9. \A name : OneName(<<name>>, name)
    BY DEF OneName
  <2>7. /\ Supplies(c, "intent_id") /\ Supplies(c, "parent_cause")
        /\ Supplies(c, "nonce") /\ Supplies(c, "scope")
    BY <2>6, <2>9, PickedIsSupplied
  <2>8. ASSUME IsNetwork(p), Supplies(c, "contains_secret"), ~DeniesSecret(c)
        PROVE  Lower(p.destination) \in NetworkAllowlist
    <3>1. p.contains_secret
      BY <2>5, <2>8, <2>9, SecretIsSeen
    <3> QED
      BY <2>4, <2>8, <3>1 DEF SecretEgress
  <2> QED
    BY <2>2, <2>7, <2>8
<1>2. IInv => EffectIsAuthorized
  BY <1>1 DEF EffectIsAuthorized
<1> QED
  BY <1>2, Invariance, PTL

(* A bundle that reached its last file stands on its own, however the      *)
(* calls overlapped while it was written: the ledger is copied when the    *)
(* records of the call are in it, the manifest is built after the copy,    *)
(* and neither depends on what other calls append later.                   *)
THEOREM BundlesExplainTheirCalls == Spec => []BundleExplainsTheCall
<1>1. ASSUME IInv, NEW c \in Calls, pc[c] = "done"
      PROVE  LET rows == bundle[c]["cml-trace"]
                 copy == bundle[c]["liminaldb-ledger"]
             IN
             /\ bundle[c]["bundle-verification"]
             /\ \E i, j \in DOMAIN copy :
                   /\ copy[i].call = c /\ copy[i].type = "authorization"
                   /\ copy[i].decision = bundle[c]["authorization"]
                   /\ copy[j].call = c /\ copy[j].type = "observation"
                   /\ copy[j].authorization = i /\ copy[j].observation = bundle[c]["result"]
             /\ \A i \in DOMAIN copy : copy[i].previous \in 0 .. i - 1
             /\ \A i \in DOMAIN rows :
                   /\ i > 1 => rows[i].time > rows[i - 1].time
                   /\ rows[i].parent # None => \E k \in 1 .. i - 1 : rows[k].id = rows[i].parent
  <2>1. Exported(c, 4)
    BY <1>1 DEF IInv, BundleInv, BundleOf
  <2>2. /\ bundle[c]["authorization"] = decision[c] /\ bundle[c]["result"] = outcome[c]
        /\ bundle[c]["cml-trace"] = CmlRows(c)
        /\ IsChain(bundle[c]["liminaldb-ledger"]) /\ Tell(bundle[c]["liminaldb-ledger"], c)
        /\ bundle[c]["bundle-verification"] = TRUE
    BY <2>1 DEF Exported
  <2> DEFINE rows == CmlRows(c)
  <2>3. \A i \in DOMAIN rows :
           /\ i > 1 => rows[i].time > rows[i - 1].time
           /\ rows[i].parent # None => \E k \in 1 .. i - 1 : rows[k].id = rows[i].parent
    BY RowsAreOrdered
  <2> QED
    BY <2>2, <2>3 DEF IsChain, Tell
<1>2. IInv => BundleExplainsTheCall
  BY <1>1 DEF BundleExplainsTheCall
<1> QED
  BY <1>2, Invariance, PTL
=============================================================================
