------------------------- MODULE GuardServiceProofs -------------------------
(***************************************************************************)
(* Theorems about GuardService for any set of submissions, any policy and  *)
(* any bounds.  The inductive invariants are IInv and, when submissions    *)
(* are served one at a time, SerialInv, both of GuardServiceProperties;    *)
(* their conjuncts are proved one after the other.                         *)
(***************************************************************************)
EXTENDS GuardServiceProperties, TLAPS, WellFoundedInduction, SequenceTheorems,
        FiniteSetTheorems

-----------------------------------------------------------------------------
(* The decision procedure: what a ladder of checks can return.             *)

(* A nonempty set of naturals has a least element.                         *)
LEMMA LeastElement ==
    ASSUME NEW S \in SUBSET Nat, S # {}
    PROVE  \E i \in S : \A j \in S : i <= j
<1>1. \E i \in S : \A j \in S : ~ (<<j, i>> \in OpToRel(<, Nat))
  BY NatLessThanWellFounded, WFMin
<1>2. ASSUME NEW i \in S, NEW j \in S, ~ (<<j, i>> \in OpToRel(<, Nat))
      PROVE  i <= j
  BY <1>2 DEF OpToRel
<1> QED
  BY <1>1, <1>2

(* A ladder returns the verdict of one of its checks or the default.       *)
LEMMA LadderReturnsAVerdict ==
    ASSUME NEW V, NEW n \in Nat, NEW checks, DOMAIN checks = 1..n,
           \A i \in 1..n : checks[i][2] \in V,
           NEW otherwise \in V
    PROVE  FirstThatApplies(checks, otherwise) \in V
<1> DEFINE hits == {i \in DOMAIN checks : checks[i][1]}
<1>1. CASE hits = {}
  BY <1>1 DEF FirstThatApplies
<1>2. CASE hits # {}
  <2>1. hits \in SUBSET Nat
    OBVIOUS
  <2>2. (CHOOSE i \in hits : \A j \in hits : i <= j) \in hits
    BY <1>2, <2>1, LeastElement
  <2> QED
    BY <1>2, <2>2 DEF FirstThatApplies
<1> QED
  BY <1>1, <1>2

(* If a ladder returns a default that no check returns, no check applied.  *)
LEMMA LadderFallsThrough ==
    ASSUME NEW n \in Nat, NEW checks, DOMAIN checks = 1..n,
           NEW otherwise, \A i \in 1..n : checks[i][2] # otherwise,
           FirstThatApplies(checks, otherwise) = otherwise
    PROVE  \A i \in 1..n : ~ checks[i][1]
<1> DEFINE hits == {i \in DOMAIN checks : checks[i][1]}
<1>1. ASSUME hits # {} PROVE FALSE
  <2>1. hits \in SUBSET Nat
    OBVIOUS
  <2>2. (CHOOSE i \in hits : \A j \in hits : i <= j) \in hits
    BY <1>1, <2>1, LeastElement
  <2> QED
    BY <1>1, <2>2 DEF FirstThatApplies
<1> QED
  BY <1>1

(* Reasons the ladders give: the replay lookup alone says INTENT_REPLAYED. *)
LadderReasons == Reasons \ {"INTENT_REPLAYED"}
Verdicts(decisions) == [decision : decisions, reason : LadderReasons]

(* The policy ladder decides, raises, or leaves the case undecided.        *)
LEMMA PolicyVerdictType ==
    ASSUME NEW p, NEW policy, NEW envelope, NEW strict
    PROVE  PolicyVerdict(p, policy, envelope, strict)
               \in Verdicts(Decisions) \cup {Raised, Undecided}
<1> DEFINE V == Verdicts(Decisions) \cup {Raised, Undecided}
           checks == PolicyChecks(p, policy, envelope, strict)
<1>1. DOMAIN checks = 1..12
  BY DEF PolicyChecks
<1>2. \A i \in 1..12 : checks[i][2] \in V
  <2>1. \A why \in LadderReasons : Block(why) \in V
    BY DEF Block, Verdict, Verdicts, Decisions
  <2>2. /\ Verdict("HOLD", "RECURRING_PAYMENT_REQUIRES_APPROVAL") \in V
        /\ Verdict("ACCEPT", "PAYMENT_WITHIN_SCOPE_AND_BUDGET") \in V
    BY DEF Verdict, Verdicts, Decisions, LadderReasons, Reasons
  <2>3. Raised \in V
    OBVIOUS
  <2> HIDE DEF V
  <2> QED
    BY <2>1, <2>2, <2>3 DEF PolicyChecks, LadderReasons, Reasons
<1>3. Undecided \in V
  OBVIOUS
<1> QED
  BY <1>1, <1>2, <1>3, LadderReturnsAVerdict DEF PolicyVerdict

(* Only a submission with an envelope is left undecided.                   *)
LEMMA UndecidedHasEnvelope ==
    ASSUME NEW p, NEW policy, NEW envelope, NEW strict,
           PolicyVerdict(p, policy, envelope, strict).decision = "UNDECIDED"
    PROVE  envelope # NoEnvelope
<1> DEFINE checks == PolicyChecks(p, policy, envelope, strict)
<1>1. PolicyVerdict(p, policy, envelope, strict) = Undecided
  BY PolicyVerdictType DEF Verdicts, Raised, Verdict, Decisions
<1>2. DOMAIN checks = 1..12
  BY DEF PolicyChecks
<1>3. \A i \in 1..12 : checks[i][2] # Undecided
  BY DEF PolicyChecks, Undecided, Block, Raised, Verdict
<1>4. FirstThatApplies(checks, Undecided) = Undecided
  BY <1>1 DEF PolicyVerdict
<1>5. \A i \in 1..12 : ~ checks[i][1]
  <2> HIDE DEF checks
  <2> QED
    BY <1>2, <1>3, <1>4, LadderFallsThrough
<1>6. ~ checks[12][1]
  BY <1>5
<1> QED
  BY <1>6 DEF PolicyChecks

(* The envelope ladder accepts, blocks or raises.                          *)
LEMMA EnvelopeVerdictType ==
    ASSUME NEW p, NEW e, NEW now
    PROVE  EnvelopeVerdict(p, e, now) \in Verdicts({"ACCEPT", "BLOCK"}) \cup {Raised}
<1> DEFINE V == Verdicts({"ACCEPT", "BLOCK"}) \cup {Raised}
           checks == EnvelopeChecks(p, e, now)
<1>1. DOMAIN checks = 1..13
  BY DEF EnvelopeChecks
<1>2. \A i \in 1..13 : checks[i][2] \in V
  <2>1. \A why \in LadderReasons : Block(why) \in V
    BY DEF Block, Verdict, Verdicts
  <2>2. Raised \in V
    OBVIOUS
  <2> HIDE DEF V
  <2> QED
    BY <2>1, <2>2 DEF EnvelopeChecks, LadderReasons, Reasons
<1>3. Verdict("ACCEPT", "PAYMENT_WITHIN_SIGNED_INTENT_ENVELOPE") \in V
  BY DEF Verdict, Verdicts, LadderReasons, Reasons
<1> QED
  BY <1>1, <1>2, <1>3, LadderReturnsAVerdict DEF EnvelopeVerdict

-----------------------------------------------------------------------------
(* The service.                                                            *)

TypeInv == TypeOK /\ StageInv

(* The hash get_previous_hash returns is a number.                         *)
LEMMA LastHashType ==
    ASSUME log \in Seq(RecordType)
    PROVE  LastHash \in Nat
<1>1. CASE log = << >>
  BY <1>1 DEF LastHash, Genesis
<1>2. CASE log # << >>
  <2>1. log[Len(log)] \in RecordType
    BY <1>2
  <2> QED
    BY <1>2, <2>1 DEF LastHash, RecordType
<1> QED
  BY <1>1, <1>2

(* What record_nonce saves is a content of the store.                      *)
LEMMA NewStoreType ==
    ASSUME NEW r \in Requests, IsContent(loaded[r]),
           meta[r].nonce \in Nonces, audit_hash[r] \in Nat
    PROVE  IsContent(NewStore(r))
<1>1. PICK S \in SUBSET Nonces : loaded[r] \in [S -> Nat]
  BY DEF IsContent
<1>2. NewStore(r) \in [S \cup {meta[r].nonce} -> Nat]
  BY <1>1 DEF NewStore
<1>3. S \cup {meta[r].nonce} \in SUBSET Nonces
  BY <1>1
<1> QED
  BY <1>2, <1>3 DEF IsContent

-----------------------------------------------------------------------------
LEMMA InitTypeInv == Init => TypeInv
<1> SUFFICES ASSUME Init PROVE TypeInv
  OBVIOUS
<1>1. IsContent(NoSpent)
  <2>1. NoSpent \in [{} -> Nat]
    BY DEF NoSpent, Genesis
  <2> QED
    BY <2>1 DEF IsContent
<1>2. log \in Seq(RecordType)
  BY DEF Init
<1>3. TypeOK
  BY <1>1, <1>2, GuardAssumption
     DEF Init, TypeOK, IsJson, MetaType, NoMeta, Labels, Final, Genesis
<1>4. StageInv
  BY DEF Init, StageInv, Judged, Persisting
<1> QED
  BY <1>3, <1>4 DEF TypeInv

(* The two effects of an arrival: a label and what decide() knows so far.  *)
LEMMA ReceiveEffect ==
    ASSUME TypeOK, NEW r \in Requests, Receive(r)
    PROVE  \E label \in {"audit", "failed", "verify", "lookup"}, m \in MetaType :
               /\ pc' = [pc EXCEPT ![r] = label]
               /\ meta' = [meta EXCEPT ![r] = m]
               /\ label = "audit" => m.decision \in Decisions /\ m.reason \in LadderReasons
<1> DEFINE body == Body[r]
           first == PolicyVerdict(body.proposal, Policy, body.envelope, Strict(r))
           Effect(label, m) ==
               /\ pc' = [pc EXCEPT ![r] = label]
               /\ meta' = [meta EXCEPT ![r] = m]
               /\ label = "audit" => m.decision \in Decisions /\ m.reason \in LadderReasons
<1> SUFFICES \E label \in {"audit", "failed", "verify", "lookup"}, m \in MetaType :
                 Effect(label, m)
  OBVIOUS
<1>1. first \in Verdicts(Decisions) \cup {Raised, Undecided}
  BY PolicyVerdictType
<1>2. meta \in [Requests -> MetaType]
  BY DEF TypeOK
<1>3. CASE body.file \in UnreadableEnvelope
  <2> DEFINE why == IF body.file = "missing" THEN "MISSING_INTENT_ENVELOPE"
                                             ELSE "INVALID_INTENT_SIGNATURE"
             m == Meta(Block(why), FALSE, NoNonce)
  <2>1. why \in LadderReasons
    BY DEF LadderReasons, Reasons
  <2>2. m \in MetaType /\ m.decision \in Decisions /\ m.reason \in LadderReasons
    BY <2>1 DEF Meta, Block, Verdict, MetaType, Decisions, LadderReasons
  <2>3. pc' = [pc EXCEPT ![r] = "audit"] /\ meta' = [meta EXCEPT ![r] = m]
    BY <1>3 DEF Receive, Go, UnreadableEnvelope
  <2>4. Effect("audit", m)
    BY <2>2, <2>3
  <2> QED
    BY <2>2, <2>4
<1>4. CASE body.file = "ok" /\ first.decision \in Decisions
  <2> DEFINE m == Meta(first, FALSE, NoNonce)
  <2>1. first \in Verdicts(Decisions)
    BY <1>1, <1>4 DEF Raised, Undecided, Verdict, Decisions
  <2>2. m \in MetaType /\ m.decision \in Decisions /\ m.reason \in LadderReasons
    BY <2>1 DEF Meta, MetaType, Verdicts, LadderReasons
  <2>3. pc' = [pc EXCEPT ![r] = "audit"] /\ meta' = [meta EXCEPT ![r] = m]
    BY <1>4 DEF Receive, Go, UnreadableEnvelope, Decisions
  <2>4. Effect("audit", m)
    BY <2>2, <2>3
  <2> QED
    BY <2>2, <2>4
<1>5. CASE body.file = "ok" /\ first.decision = "RAISED"
  <2>1. pc' = [pc EXCEPT ![r] = "failed"] /\ meta' = meta
    BY <1>5 DEF Receive, Go, UnreadableEnvelope, Decisions
  <2>2. meta' = [meta EXCEPT ![r] = meta[r]] /\ meta[r] \in MetaType
    BY <1>2, <2>1
  <2>3. Effect("failed", meta[r])
    BY <2>1, <2>2
  <2> QED
    BY <2>2, <2>3
<1>6. CASE body.file = "ok" /\ first.decision = "UNDECIDED"
  <2> DEFINE m == [meta[r] EXCEPT !.nonce = body.envelope.nonce]
             label == IF body.envelope.nonce = NoNonce THEN "verify" ELSE "lookup"
  <2>1. body.envelope # NoEnvelope
    BY <1>6, UndecidedHasEnvelope
  <2>2. body.envelope.nonce \in Nonces \cup {NoNonce}
    BY <2>1, GuardAssumption
  <2>3. m \in MetaType
    BY <1>2, <2>2 DEF MetaType
  <2>4. pc' = [pc EXCEPT ![r] = label] /\ meta' = [meta EXCEPT ![r] = m]
    BY <1>6 DEF Receive, Go, UnreadableEnvelope, Decisions
  <2>5. Effect(label, m)
    BY <2>4
  <2> QED
    BY <2>3, <2>5
<1> QED
  BY <1>3, <1>4, <1>5, <1>6 DEF Receive

-----------------------------------------------------------------------------
(* Every step preserves the types and what each label knows.               *)
LEMMA NextTypeInv == TypeInv /\ [Next]_vars => TypeInv'
<1> SUFFICES ASSUME TypeInv, [Next]_vars PROVE TypeInv'
  OBVIOUS
<1> USE DEF TypeInv, Go, files, locals
<1>1. ASSUME NEW r \in Requests, RejectMalformed(r) PROVE TypeInv'
  BY <1>1 DEF RejectMalformed, TypeOK, StageInv, Labels, Final, Judged, Persisting
<1>2. ASSUME NEW r \in Requests, Receive(r) PROVE TypeInv'
  <2>1. PICK label \in {"audit", "failed", "verify", "lookup"}, m \in MetaType :
               /\ pc' = [pc EXCEPT ![r] = label]
               /\ meta' = [meta EXCEPT ![r] = m]
               /\ label = "audit" => m.decision \in Decisions /\ m.reason \in LadderReasons
    BY <1>2, ReceiveEffect
  <2>2. UNCHANGED <<log, store, tmp, clock, crashes, prev, audit_hash, loaded, fd>>
    BY <1>2 DEF Receive
  <2>3. TypeOK'
    BY <2>1, <2>2 DEF TypeOK, Labels, Final
  <2>4. StageInv'
    BY <2>1, <2>2 DEF TypeOK, StageInv, Judged, Persisting, LadderReasons
  <2> QED
    BY <2>3, <2>4
<1>3. ASSUME NEW r \in Requests, ReplayLookup(r) PROVE TypeInv'
  <2>1. Meta(Block("INTENT_REPLAYED"), FALSE, meta[r].nonce) \in MetaType
    BY DEF TypeOK, MetaType, Meta, Block, Verdict, Decisions, Reasons
  <2>2. TypeOK'
    BY <1>3, <2>1 DEF ReplayLookup, Replayed, NotReplayed, Fail, TypeOK, Labels, Final
  <2>3. StageInv'
    BY <1>3, <2>1 DEF ReplayLookup, Replayed, NotReplayed, Fail, TypeOK, StageInv, Judged,
                      Persisting, Meta, Block, Verdict, Decisions, Reasons
  <2> QED
    BY <2>2, <2>3
<1>4. ASSUME NEW r \in Requests, ScanAudit(r) PROVE TypeInv'
  <2>1. Meta(Block("INTENT_REPLAYED"), FALSE, meta[r].nonce) \in MetaType
    BY DEF TypeOK, MetaType, Meta, Block, Verdict, Decisions, Reasons
  <2>2. TypeOK'
    BY <1>4, <2>1 DEF ScanAudit, Replayed, NotReplayed, TypeOK, Labels, Final
  <2>3. StageInv'
    BY <1>4, <2>1 DEF ScanAudit, Replayed, NotReplayed, TypeOK, StageInv, Judged,
                      Persisting, Meta, Block, Verdict, Decisions, Reasons
  <2> QED
    BY <2>2, <2>3
<1>5. ASSUME NEW r \in Requests, VerifyEnvelope(r) PROVE TypeInv'
  <2> DEFINE v == EnvelopeVerdict(Body[r].proposal, Body[r].envelope, clock)
             m == Meta(v, v.decision = "ACCEPT", meta[r].nonce)
  <2>1. v \in Verdicts({"ACCEPT", "BLOCK"}) \cup {Raised}
    BY EnvelopeVerdictType
  <2>2. CASE v.decision = "RAISED"
    <3>1. pc' = [pc EXCEPT ![r] = "failed"] /\ UNCHANGED <<log, files, clock, crashes, locals, fd>>
      BY <1>5, <2>2 DEF VerifyEnvelope
    <3> QED
      BY <3>1 DEF TypeOK, StageInv, Labels, Final, Judged, Persisting
  <2>3. CASE v.decision # "RAISED"
    <3>1. m \in MetaType /\ m.decision \in Decisions /\ m.reason \in Reasons
      BY <2>1, <2>3 DEF Meta, MetaType, Verdicts, LadderReasons, Raised, Verdict, Decisions, TypeOK
    <3>2. /\ pc' = [pc EXCEPT ![r] = "audit"]
          /\ meta' = [meta EXCEPT ![r] = m]
          /\ UNCHANGED <<log, files, clock, crashes, prev, audit_hash, loaded, fd>>
      BY <1>5, <2>3 DEF VerifyEnvelope
    <3> HIDE DEF m
    <3>3. TypeOK'
      BY <3>1, <3>2 DEF TypeOK, Labels, Final
    <3>4. StageInv'
      BY <3>1, <3>2 DEF TypeOK, StageInv, Judged, Persisting
    <3> QED
      BY <3>3, <3>4
  <2> QED
    BY <2>2, <2>3
<1>6. ASSUME NEW r \in Requests, ReadPreviousHash(r) PROVE TypeInv'
  <2>1. LastHash \in Nat
    BY LastHashType DEF TypeOK
  <2> QED
    BY <1>6, <2>1 DEF ReadPreviousHash, TypeOK, StageInv, Labels, Final, Judged, Persisting
<1>7. ASSUME NEW r \in Requests, AppendAudit(r) PROVE TypeInv'
  <2>1. AuditRecord(r) \in RecordType
    BY <1>7 DEF AppendAudit, AuditRecord, RecordType, MetaType, TypeOK, StageInv, Judged, Genesis
  <2>2. log' \in Seq(RecordType)
    BY <1>7, <2>1 DEF AppendAudit, TypeOK
  <2> QED
    BY <1>7, <2>2 DEF AppendAudit, TypeOK, StageInv, Labels, Final, Judged, Persisting
<1>8. ASSUME NEW r \in Requests, ReadBackHash(r) PROVE TypeInv'
  <2>1. LastHash \in Nat
    BY LastHashType DEF TypeOK
  <2> QED
    BY <1>8, <2>1 DEF ReadBackHash, TypeOK, StageInv, Labels, Final, Judged, Persisting
<1>9. ASSUME NEW r \in Requests, LoadStore(r) PROVE TypeInv'
  BY <1>9 DEF LoadStore, Fail, TypeOK, StageInv, Labels, Final, Judged, Persisting, IsJson
<1>10. ASSUME NEW r \in Requests, OpenTmp(r) PROVE TypeInv'
  BY <1>10 DEF OpenTmp, TypeOK, StageInv, Labels, Final, Judged, Persisting, IsJson
<1>11. ASSUME NEW r \in Requests, WriteTmp(r) PROVE TypeInv'
  <2>1. IsContent(NewStore(r))
    BY <1>11, NewStoreType DEF WriteTmp, TypeOK, StageInv, Persisting, MustPersist
  <2>2. (IsJson(store) => IsContent(store))' /\ (IsJson(tmp) => IsContent(tmp))'
    BY <1>11, <2>1 DEF WriteTmp, Overwrite, TypeOK, IsJson
  <2> QED
    BY <1>11, <2>2 DEF WriteTmp, TypeOK, StageInv, Labels, Final, Judged, Persisting
<1>12. ASSUME NEW r \in Requests, ReplaceStore(r) PROVE TypeInv'
  <2>1. fd' \in [Requests -> {"none", "tmp", "store", "orphan"}]
    BY <1>12 DEF ReplaceStore, Fail, TypeOK
  <2> QED
    BY <1>12, <2>1 DEF ReplaceStore, Fail, TypeOK, StageInv, Labels, Final, Judged, Persisting, IsJson
<1>13. ASSUME NEW r \in Requests, Respond(r) PROVE TypeInv'
  BY <1>13 DEF Respond, TypeOK, StageInv, Labels, Final, Judged, Persisting
<1>14. ASSUME NEW victims, Kill(victims) PROVE TypeInv'
  <2>1. pc' \in [Requests -> Labels] /\ fd' \in [Requests -> {"none", "tmp", "store", "orphan"}]
    BY <1>14 DEF Kill, TypeOK, Labels, Final
  <2>2. crashes' \in 0..MaxCrashes
    BY <1>14, GuardAssumption DEF Kill, TypeOK
  <2> QED
    BY <1>14, <2>1, <2>2 DEF Kill, TypeOK, StageInv, Judged, Persisting
<1>15. CASE Tick
  BY <1>15, GuardAssumption DEF Tick, TypeOK, StageInv
<1>16. CASE UNCHANGED vars
  BY <1>16 DEF vars, TypeOK, StageInv
<1> QED
  BY <1>1, <1>2, <1>3, <1>4, <1>5, <1>6, <1>7, <1>8, <1>9, <1>10, <1>11, <1>12, <1>13, <1>14,
     <1>15, <1>16 DEF Next, Arrive, Serve, CrashService, KillCommand, Served

(* The type invariant TypeOK holds in every reachable state.               *)
THEOREM TypeCorrect == Spec => []TypeOK
<1>1. Init => TypeInv
  BY InitTypeInv
<1>2. TypeInv /\ [Next]_vars => TypeInv'
  BY NextTypeInv
<1>3. TypeInv => TypeOK
  BY DEF TypeInv
<1> QED
  BY <1>1, <1>2, <1>3, PTL DEF Spec

-----------------------------------------------------------------------------
(* Where get_previous_hash points, given HashInv.                          *)
LEMMA LastHashIsLength ==
    ASSUME log \in Seq(RecordType), HashInv
    PROVE  LastHash = Len(log)
<1>1. CASE log = << >>
  BY <1>1 DEF LastHash, Genesis
<1>2. CASE log # << >>
  BY <1>2 DEF LastHash, HashInv
<1> QED
  BY <1>1, <1>2

(* Hashes stay positions of records, and links stay backward.              *)
LEMMA NextHashInv == TypeInv /\ HashInv /\ [Next]_vars => HashInv'
<1> SUFFICES ASSUME TypeInv, HashInv, [Next]_vars PROVE HashInv'
  OBVIOUS
<1> USE DEF Go, files, locals
<1>0. log \in Seq(RecordType) /\ pc \in [Requests -> Labels]
  BY DEF TypeInv, TypeOK
<1>1. ASSUME NEW r \in Requests, ReadPreviousHash(r) PROVE HashInv'
  <2>1. LastHash = Len(log) /\ Len(log) \in Nat
    BY <1>0, LastHashIsLength
  <2> QED
    BY <1>0, <1>1, <2>1 DEF ReadPreviousHash, HashInv, Persisting, TypeInv, TypeOK
<1>2. ASSUME NEW r \in Requests, ReadBackHash(r) PROVE HashInv'
  <2>1. LastHash = Len(log) /\ Len(log) \in Nat /\ Len(log) > 0
    BY <1>0, <1>2, LastHashIsLength DEF ReadBackHash, HashInv
  <2> QED
    BY <1>0, <1>2, <2>1 DEF ReadBackHash, HashInv, Persisting, TypeInv, TypeOK
<1>3. ASSUME NEW r \in Requests, AppendAudit(r) PROVE HashInv'
  <2>1. log' = Append(log, AuditRecord(r)) /\ Len(log) \in Nat
    BY <1>0, <1>3 DEF AppendAudit
  <2>2. Len(log') = Len(log) + 1 /\ DOMAIN log' = 1..(Len(log) + 1) /\ log' # << >>
    BY <1>0, <2>1
  <2>3. \A i \in DOMAIN log : log'[i] = log[i]
    BY <1>0, <2>1
  <2>4. log'[Len(log) + 1] = AuditRecord(r)
    BY <1>0, <2>1
  <2>5. /\ AuditRecord(r).hash = Len(log) + 1
        /\ AuditRecord(r).previous_hash \in 0..Len(log)
    BY DEF AuditRecord, HashInv
  <2>6. \A i \in DOMAIN log' : log'[i].hash = i /\ log'[i].previous_hash \in 0..(i - 1)
    BY <1>0, <2>1, <2>2, <2>3, <2>4, <2>5 DEF HashInv
  <2>7. \A q \in Requests : /\ prev'[q] \in 0..Len(log')
                            /\ audit_hash'[q] \in 0..Len(log')
    BY <1>3, <2>1, <2>2 DEF AppendAudit, HashInv
  <2>8. \A q \in Requests : pc'[q] \in Persisting => pc[q] \in Persisting
    BY <1>0, <1>3 DEF AppendAudit, Persisting
  <2> QED
    BY <1>3, <2>2, <2>6, <2>7, <2>8 DEF AppendAudit, HashInv
<1>4. ASSUME UNCHANGED <<log, prev, audit_hash>>,
             \A q \in Requests : pc'[q] \in Persisting => pc[q] \in Persisting,
             \A q \in Requests : pc'[q] = "readback" => pc[q] = "readback"
      PROVE  HashInv'
  BY <1>4 DEF HashInv
<1>5. ASSUME NEW r \in Requests, Arrive(r) PROVE HashInv'
  <2>1. CASE RejectMalformed(r)
    BY <1>0, <1>4, <2>1 DEF RejectMalformed, Persisting
  <2>2. CASE Receive(r)
    <3>1. PICK label \in {"audit", "failed", "verify", "lookup"} : pc' = [pc EXCEPT ![r] = label]
      BY <2>2, ReceiveEffect DEF TypeInv
    <3> QED
      BY <1>0, <1>4, <2>2, <3>1 DEF Receive, Persisting
  <2> QED
    BY <1>5, <2>1, <2>2 DEF Arrive
<1>6. ASSUME NEW r \in Requests,
             \/ ReplayLookup(r) \/ ScanAudit(r) \/ VerifyEnvelope(r)
             \/ LoadStore(r) \/ OpenTmp(r) \/ WriteTmp(r) \/ ReplaceStore(r) \/ Respond(r)
      PROVE  HashInv'
  <2>1. UNCHANGED <<log, prev, audit_hash>>
    BY <1>6 DEF ReplayLookup, ScanAudit, VerifyEnvelope, LoadStore, OpenTmp, WriteTmp,
                ReplaceStore, Respond
  <2>2. /\ \A q \in Requests : pc'[q] \in Persisting => pc[q] \in Persisting
        /\ \A q \in Requests : pc'[q] = "readback" => pc[q] = "readback"
    BY <1>0, <1>6 DEF ReplayLookup, ScanAudit, VerifyEnvelope, LoadStore, OpenTmp, WriteTmp,
                ReplaceStore, Respond, Replayed, NotReplayed, Fail, Persisting
  <2> QED
    BY <1>4, <2>1, <2>2
<1>7. ASSUME NEW victims, Kill(victims) PROVE HashInv'
  BY <1>0, <1>4, <1>7 DEF Kill, Persisting
<1>8. CASE Tick \/ UNCHANGED vars
  BY <1>4, <1>8 DEF Tick, vars
<1> QED
  BY <1>1, <1>2, <1>3, <1>5, <1>6, <1>7, <1>8
     DEF Next, Serve, CrashService, KillCommand, Served

-----------------------------------------------------------------------------
(* The log only grows at its end.                                          *)
LEMMA LogOnlyGrows ==
    ASSUME TypeInv, [Next]_vars
    PROVE  /\ Len(log) \in Nat /\ Len(log') \in Nat /\ Len(log) <= Len(log')
           /\ DOMAIN log = 1..Len(log) /\ DOMAIN log' = 1..Len(log')
           /\ \A i \in DOMAIN log : i \in DOMAIN log' /\ log'[i] = log[i]
<1>0. log \in Seq(RecordType) /\ Len(log) \in Nat /\ DOMAIN log = 1..Len(log)
  BY DEF TypeInv, TypeOK
<1>1. CASE log' = log
  BY <1>0, <1>1
<1>2. ASSUME NEW r \in Requests, AppendAudit(r)
      PROVE  /\ Len(log') = Len(log) + 1 /\ DOMAIN log' = 1..(Len(log) + 1)
             /\ \A i \in DOMAIN log : log'[i] = log[i]
  BY <1>0, <1>2 DEF AppendAudit
<1>3. log' = log \/ \E r \in Requests : AppendAudit(r)
  BY DEF Next, Arrive, Serve, RejectMalformed, Receive, ReplayLookup, ScanAudit,
         VerifyEnvelope, ReadPreviousHash, ReadBackHash, LoadStore, OpenTmp, WriteTmp,
         ReplaceStore, Respond, CrashService, KillCommand, Kill, Tick, Served, vars
<1> QED
  BY <1>0, <1>1, <1>2, <1>3

(* What an ACCEPT record backs, it backs for ever.                         *)
LEMMA BackingStays ==
    ASSUME TypeInv, [Next]_vars
    PROVE  /\ \A n : AcceptedInLog(n)
                  => \E i \in DOMAIN log' : log'[i].verified /\ log'[i].nonce = n
           /\ \A c : Backed(c) => \A n \in DOMAIN c :
                  /\ \E i \in DOMAIN log' : log'[i].verified /\ log'[i].nonce = n
                  /\ c[n] \in 1..Len(log')
<1>1. \A n : AcceptedInLog(n)
             => \E i \in DOMAIN log' : log'[i].verified /\ log'[i].nonce = n
  BY LogOnlyGrows DEF AcceptedInLog
<1>2. 1..Len(log) \subseteq 1..Len(log')
  BY LogOnlyGrows
<1> QED
  BY <1>1, <1>2 DEF Backed, AcceptedInLog

(* Every copy of the store stays backed by ACCEPT records.                 *)
LEMMA NextStoreInv == TypeInv /\ HashInv /\ StoreInv /\ [Next]_vars => StoreInv'
<1> SUFFICES ASSUME TypeInv, HashInv, StoreInv, [Next]_vars PROVE StoreInv'
  OBVIOUS
<1> USE DEF Go, files, locals
<1>0. /\ log \in Seq(RecordType) /\ pc \in [Requests -> Labels]
      /\ meta \in [Requests -> MetaType]
  BY DEF TypeInv, TypeOK
<1> DEFINE Kept(c) == \A n \in DOMAIN c :
                          /\ \E i \in DOMAIN log' : log'[i].verified /\ log'[i].nonce = n
                          /\ c[n] \in 1..Len(log')
           File(c) == IsJson(c) => Kept(c)
           Owes(q) == pc'[q] \in {"readback"} \cup Persisting /\ MustPersist(meta'[q])
                          => \E i \in DOMAIN log' :
                                 log'[i].verified /\ log'[i].nonce = meta'[q].nonce
<1>1. File(store) /\ File(tmp) /\ \A q \in Requests : Kept(loaded[q])
  BY BackingStays DEF StoreInv
<1>2. \A q \in Requests :
          pc[q] \in {"readback"} \cup Persisting /\ meta'[q] = meta[q] => Owes(q)
  BY BackingStays DEF StoreInv
<1>3. (/\ File(store') /\ File(tmp') /\ \A q \in Requests : Kept(loaded'[q]) /\ Owes(q))
         => StoreInv'
  BY DEF StoreInv, Backed, AcceptedInLog
<1> HIDE DEF Kept
<1>4. ASSUME NEW r \in Requests, WriteTmp(r) PROVE StoreInv'
  <2>1. /\ UNCHANGED <<log, loaded, meta>>
        /\ \A q \in Requests : pc'[q] \in {"readback"} \cup Persisting
               => pc[q] \in {"readback"} \cup Persisting
    BY <1>0, <1>4 DEF WriteTmp, Persisting
  <2>2. Kept(NewStore(r))
    <3>1. /\ MustPersist(meta[r]) /\ audit_hash[r] \in 1..Len(log)
          /\ AcceptedInLog(meta[r].nonce)
      BY <1>4 DEF WriteTmp, TypeInv, TypeOK, StageInv, HashInv, StoreInv, Persisting
    <3>2. IsContent(loaded[r]) /\ Backed(loaded[r])
      BY DEF TypeInv, TypeOK, StoreInv
    <3>3. SUFFICES ASSUME NEW n \in DOMAIN loaded[r] \cup {meta[r].nonce}
                   PROVE  /\ \E i \in DOMAIN log : log[i].verified /\ log[i].nonce = n
                          /\ NewStore(r)[n] \in 1..Len(log)
      BY <2>1 DEF Kept, NewStore
    <3>4. CASE n = meta[r].nonce
      BY <3>1, <3>4 DEF NewStore, AcceptedInLog
    <3>5. CASE n # meta[r].nonce
      BY <3>2, <3>5 DEF NewStore, Backed, AcceptedInLog
    <3> QED
      BY <3>4, <3>5
  <2>3. File(Torn)
    BY DEF IsJson
  <2>4. File(store') /\ File(tmp')
    BY <1>1, <1>4, <2>2, <2>3 DEF WriteTmp, Overwrite
  <2> QED
    BY <1>1, <1>2, <1>3, <2>1, <2>4
<1>5. ASSUME UNCHANGED <<store, tmp, loaded>>,
             \A q \in Requests : pc'[q] \in {"readback"} \cup Persisting
                 => pc[q] \in {"readback"} \cup Persisting /\ meta'[q] = meta[q]
      PROVE  StoreInv'
  <2>1. \A q \in Requests : Owes(q)
    BY <1>2, <1>5
  <2> QED
    BY <1>1, <1>3, <1>5, <2>1
<1>6. ASSUME NEW r \in Requests, Arrive(r) PROVE StoreInv'
  <2>1. CASE RejectMalformed(r)
    BY <1>0, <1>5, <2>1 DEF RejectMalformed, Persisting
  <2>2. CASE Receive(r)
    <3>1. PICK label \in {"audit", "failed", "verify", "lookup"}, m \in MetaType :
                 pc' = [pc EXCEPT ![r] = label] /\ meta' = [meta EXCEPT ![r] = m]
      BY <2>2, ReceiveEffect DEF TypeInv
    <3> QED
      BY <1>0, <1>5, <2>2, <3>1 DEF Receive, Persisting
  <2> QED
    BY <1>6, <2>1, <2>2 DEF Arrive
<1>7. ASSUME NEW r \in Requests,
             \/ ReplayLookup(r) \/ ScanAudit(r) \/ VerifyEnvelope(r)
             \/ ReadPreviousHash(r) \/ ReadBackHash(r) \/ Respond(r)
      PROVE  StoreInv'
  <2>1. UNCHANGED <<store, tmp, loaded>>
    BY <1>7 DEF ReplayLookup, ScanAudit, VerifyEnvelope, ReadPreviousHash, ReadBackHash, Respond
  <2>2. \A q \in Requests : pc'[q] \in {"readback"} \cup Persisting
            => pc[q] \in {"readback"} \cup Persisting /\ meta'[q] = meta[q]
    BY <1>0, <1>7 DEF ReplayLookup, ScanAudit, VerifyEnvelope, ReadPreviousHash, ReadBackHash,
                      Respond, Replayed, NotReplayed, Fail, Persisting
  <2> QED
    BY <1>5, <2>1, <2>2
<1>8. ASSUME NEW r \in Requests, AppendAudit(r) PROVE StoreInv'
  <2>1. /\ UNCHANGED <<store, tmp, loaded, meta>>
        /\ \A q \in Requests : q # r => pc'[q] = pc[q]
    BY <1>0, <1>8 DEF AppendAudit
  <2>2. Len(log) + 1 \in DOMAIN log' /\ log'[Len(log) + 1] = AuditRecord(r)
    BY <1>0, <1>8 DEF AppendAudit
  <2>3. Owes(r)
    BY <2>1, <2>2 DEF AuditRecord, MustPersist
  <2>4. \A q \in Requests : q # r => Owes(q)
    BY <1>2, <2>1
  <2> QED
    BY <1>1, <1>3, <2>1, <2>3, <2>4
<1>9. ASSUME NEW r \in Requests, LoadStore(r) \/ OpenTmp(r) \/ ReplaceStore(r) PROVE StoreInv'
  <2>1. /\ UNCHANGED meta
        /\ \A q \in Requests : pc'[q] \in {"readback"} \cup Persisting
               => pc[q] \in {"readback"} \cup Persisting
    BY <1>0, <1>9 DEF LoadStore, OpenTmp, ReplaceStore, Fail, Persisting
  <2>2. File(Absent) /\ File(Empty)
    BY DEF IsJson
  <2>3. File(store') /\ File(tmp')
    BY <1>1, <1>9, <2>2 DEF LoadStore, OpenTmp, ReplaceStore
  <2>4. \A q \in Requests : Kept(loaded'[q])
    BY <1>1, <1>9 DEF LoadStore, OpenTmp, ReplaceStore, TypeInv, TypeOK
  <2> QED
    BY <1>2, <1>3, <2>1, <2>3, <2>4
<1>10. ASSUME NEW victims, Kill(victims) PROVE StoreInv'
  BY <1>0, <1>5, <1>10 DEF Kill, Persisting
<1>11. CASE Tick \/ UNCHANGED vars
  BY <1>5, <1>11 DEF Tick, vars
<1> QED
  BY <1>4, <1>6, <1>7, <1>8, <1>9, <1>10, <1>11
     DEF Next, Serve, CrashService, KillCommand, Served

(* The replay store never runs ahead of the audit log, in any interleaving *)
(* and after any crash: a spent nonce always has its ACCEPT record, and    *)
(* its decision_hash is the hash of a record.                              *)
THEOREM SpentNoncesAreAudited == Spec => []StoreBackedByAudit
<1>1. Init => TypeInv /\ HashInv /\ StoreInv
  <2> SUFFICES ASSUME Init PROVE TypeInv /\ HashInv /\ StoreInv
    OBVIOUS
  <2>1. HashInv
    BY DEF Init, HashInv, Genesis, Persisting
  <2>2. StoreInv
    BY DEF Init, StoreInv, Backed, IsJson, NoSpent, Persisting
  <2> QED
    BY <2>1, <2>2, InitTypeInv
<1>2. (TypeInv /\ HashInv /\ StoreInv) /\ [Next]_vars => (TypeInv /\ HashInv /\ StoreInv)'
  BY NextTypeInv, NextHashInv, NextStoreInv
<1>3. TypeInv /\ HashInv /\ StoreInv => StoreBackedByAudit
  <2> SUFFICES ASSUME TypeInv, HashInv, StoreInv, IsJson(store), NEW n \in DOMAIN store
               PROVE  AcceptedInLog(n) /\ \E i \in DOMAIN log : log[i].hash = store[n]
    BY DEF StoreBackedByAudit
  <2>1. AcceptedInLog(n) /\ store[n] \in DOMAIN log
    BY DEF StoreInv, Backed, TypeInv, TypeOK
  <2> QED
    BY <2>1 DEF HashInv
<1> QED
  BY <1>1, <1>2, <1>3, PTL DEF Spec

-----------------------------------------------------------------------------
(* A process about to report a replay keeps having its original.           *)
LEMMA NextReplayInv == TypeInv /\ StoreInv /\ ReplayInv /\ [Next]_vars => ReplayInv'
<1> SUFFICES ASSUME TypeInv, StoreInv, ReplayInv, [Next]_vars PROVE ReplayInv'
  OBVIOUS
<1> USE DEF Go, files, locals
<1>0. /\ log \in Seq(RecordType) /\ pc \in [Requests -> Labels]
      /\ meta \in [Requests -> MetaType]
  BY DEF TypeInv, TypeOK
<1> DEFINE Original(n) == \E i \in DOMAIN log' : log'[i].verified /\ log'[i].nonce = n
           Seen(q) == pc'[q] \in Judged /\ meta'[q].reason = "INTENT_REPLAYED"
                          => Original(meta'[q].nonce)
<1>1. \A q \in Requests : pc[q] \in Judged /\ meta'[q] = meta[q] => Seen(q)
  BY BackingStays DEF ReplayInv
<1>2. log' = log => ReplayHasAnOriginal'
  BY DEF ReplayInv, ReplayHasAnOriginal
<1>3. ReplayHasAnOriginal' /\ (\A q \in Requests : Seen(q)) => ReplayInv'
  BY DEF ReplayInv, AcceptedInLog
<1> HIDE DEF Original
<1>4. ASSUME log' = log,
             \A q \in Requests : pc'[q] \in Judged => pc[q] \in Judged /\ meta'[q] = meta[q]
      PROVE  ReplayInv'
  BY <1>1, <1>2, <1>3, <1>4
<1>5. ASSUME log' = log, NEW r \in Requests, Seen(r),
             \A q \in Requests : q # r => pc'[q] = pc[q] /\ meta'[q] = meta[q]
      PROVE  ReplayInv'
  BY <1>1, <1>2, <1>3, <1>5
<1>6. ASSUME NEW r \in Requests, Arrive(r) PROVE ReplayInv'
  <2>1. CASE RejectMalformed(r)
    BY <1>0, <1>4, <2>1 DEF RejectMalformed, Judged, Persisting
  <2>2. CASE Receive(r)
    <3>1. PICK label \in {"audit", "failed", "verify", "lookup"}, m \in MetaType :
                 /\ pc' = [pc EXCEPT ![r] = label] /\ meta' = [meta EXCEPT ![r] = m]
                 /\ label = "audit" => m.reason \in LadderReasons
      BY <2>2, ReceiveEffect DEF TypeInv
    <3>2. Seen(r)
      BY <1>0, <3>1 DEF Judged, Persisting, LadderReasons
    <3> QED
      BY <1>0, <1>5, <2>2, <3>1, <3>2 DEF Receive
  <2> QED
    BY <1>6, <2>1, <2>2 DEF Arrive
<1>7. ASSUME NEW r \in Requests, ReplayLookup(r) \/ ScanAudit(r) PROVE ReplayInv'
  <2>1. /\ log' = log
        /\ \A q \in Requests : q # r => pc'[q] = pc[q] /\ meta'[q] = meta[q]
    BY <1>0, <1>7 DEF ReplayLookup, ScanAudit, Replayed, NotReplayed, Fail
  <2>2. CASE Replayed(r)
    <3>1. AcceptedInLog(meta[r].nonce)
      BY <1>7, <2>2, <1>0 DEF ReplayLookup, ScanAudit, Replayed, NotReplayed, Fail, StoreInv, Backed
    <3>2. Original(meta[r].nonce)
      BY <2>1, <3>1 DEF Original, AcceptedInLog
    <3>3. meta'[r].nonce = meta[r].nonce
      BY <1>0, <2>2 DEF Replayed, Meta
    <3> QED
      BY <1>5, <2>1, <3>2, <3>3
  <2>3. CASE ~Replayed(r)
    <3>1. pc'[r] \notin Judged
      BY <1>0, <1>7, <2>3 DEF ReplayLookup, ScanAudit, NotReplayed, Fail, Judged, Persisting
    <3> QED
      BY <1>5, <2>1, <3>1
  <2> QED
    BY <2>2, <2>3
<1>8. ASSUME NEW r \in Requests, VerifyEnvelope(r) PROVE ReplayInv'
  <2> DEFINE v == EnvelopeVerdict(Body[r].proposal, Body[r].envelope, clock)
  <2>1. v \in Verdicts({"ACCEPT", "BLOCK"}) \cup {Raised}
    BY EnvelopeVerdictType
  <2>2. /\ log' = log
        /\ \A q \in Requests : q # r => pc'[q] = pc[q] /\ meta'[q] = meta[q]
    BY <1>0, <1>8 DEF VerifyEnvelope
  <2>3. v.decision # "RAISED" => v.reason # "INTENT_REPLAYED"
    BY <2>1 DEF Verdicts, LadderReasons, Raised, Verdict
  <2>4. pc'[r] \in Judged => meta'[r].reason = v.reason /\ v.decision # "RAISED"
    BY <1>0, <1>8 DEF VerifyEnvelope, Meta, Judged, Persisting
  <2> QED
    BY <1>5, <2>2, <2>3, <2>4
<1>9. ASSUME NEW r \in Requests, AppendAudit(r) PROVE ReplayInv'
  <2>1. /\ UNCHANGED meta
        /\ \A q \in Requests : pc'[q] \in Judged => pc[q] \in Judged
    BY <1>0, <1>9 DEF AppendAudit, Judged, Persisting
  <2>2. /\ DOMAIN log' = 1..(Len(log) + 1) /\ Len(log) \in Nat /\ DOMAIN log = 1..Len(log)
        /\ log'[Len(log) + 1] = AuditRecord(r)
        /\ \A i \in DOMAIN log : log'[i] = log[i]
    BY <1>0, <1>9 DEF AppendAudit
  <2>3. ASSUME meta[r].reason = "INTENT_REPLAYED"
        PROVE  \E j \in 1..Len(log) : log'[j].verified /\ log'[j].nonce = meta[r].nonce
    BY <1>9, <2>2, <2>3 DEF AppendAudit, ReplayInv, AcceptedInLog, Judged
  <2>4. ReplayHasAnOriginal'
    <3> SUFFICES ASSUME NEW i \in DOMAIN log', log'[i].reason = "INTENT_REPLAYED"
                 PROVE  \E j \in 1..(i - 1) : log'[j].verified /\ log'[j].nonce = log'[i].nonce
      BY DEF ReplayHasAnOriginal
    <3>1. CASE i = Len(log) + 1
      BY <2>2, <2>3, <3>1 DEF AuditRecord
    <3>2. CASE i \in DOMAIN log
      <4>1. PICK j \in 1..(i - 1) : log[j].verified /\ log[j].nonce = log[i].nonce
        BY <2>2, <3>2 DEF ReplayInv, ReplayHasAnOriginal
      <4> QED
        BY <2>2, <3>2, <4>1
    <3> QED
      BY <2>2, <3>1, <3>2
  <2> QED
    BY <1>1, <1>3, <2>1, <2>4
<1>10. ASSUME NEW r \in Requests,
              \/ ReadPreviousHash(r) \/ ReadBackHash(r) \/ LoadStore(r) \/ OpenTmp(r)
              \/ WriteTmp(r) \/ ReplaceStore(r) \/ Respond(r)
       PROVE  ReplayInv'
  <2>1. UNCHANGED <<log, meta>>
    BY <1>10 DEF ReadPreviousHash, ReadBackHash, LoadStore, OpenTmp, WriteTmp, ReplaceStore, Respond
  <2>2. \A q \in Requests : pc'[q] \in Judged => pc[q] \in Judged
    BY <1>0, <1>10 DEF ReadPreviousHash, ReadBackHash, LoadStore, OpenTmp, WriteTmp,
                       ReplaceStore, Respond, Fail, Judged, Persisting
  <2> QED
    BY <1>4, <2>1, <2>2
<1>11. ASSUME NEW victims, Kill(victims) PROVE ReplayInv'
  BY <1>0, <1>4, <1>11 DEF Kill, Judged, Persisting
<1>12. CASE Tick \/ UNCHANGED vars
  BY <1>4, <1>12 DEF Tick, vars
<1> QED
  BY <1>6, <1>7, <1>8, <1>9, <1>10, <1>11, <1>12
     DEF Next, Serve, CrashService, KillCommand, Served

(* No false replay, in any interleaving and after any crash: a submission  *)
(* is refused as INTENT_REPLAYED only if an ACCEPT of the same nonce is in *)
(* the log before the refusal.                                             *)
THEOREM NoFalseReplay == Spec => []ReplayHasAnOriginal
<1> DEFINE Inv == TypeInv /\ HashInv /\ StoreInv /\ ReplayInv
<1>1. Init => Inv
  <2> SUFFICES ASSUME Init PROVE Inv
    OBVIOUS
  <2>1. HashInv
    BY DEF Init, HashInv, Genesis, Persisting
  <2>2. StoreInv
    BY DEF Init, StoreInv, Backed, IsJson, NoSpent, Persisting
  <2>3. ReplayInv
    BY DEF Init, ReplayInv, ReplayHasAnOriginal, Judged, Persisting
  <2> QED
    BY <2>1, <2>2, <2>3, InitTypeInv
<1>2. Inv /\ [Next]_vars => Inv'
  BY NextTypeInv, NextHashInv, NextStoreInv, NextReplayInv
<1>3. Inv => ReplayHasAnOriginal
  BY DEF ReplayInv
<1> QED
  BY <1>1, <1>2, <1>3, PTL DEF Spec

-----------------------------------------------------------------------------
(* A submission keeps at most one record, written before any answer.       *)
LEMMA NextRecordInv == TypeInv /\ RecordInv /\ [Next]_vars => RecordInv'
<1> SUFFICES ASSUME TypeInv, RecordInv, [Next]_vars PROVE RecordInv'
  OBVIOUS
<1> USE DEF Go, files, locals
<1>0. /\ log \in Seq(RecordType) /\ pc \in [Requests -> Labels]
      /\ meta \in [Requests -> MetaType]
  BY DEF TypeInv, TypeOK
<1>1. ASSUME log' = log,
             \A q \in Requests : pc'[q] \in Unrecorded => pc[q] \in Unrecorded,
             \A q \in Requests : pc'[q] \in Recorded \/ Evaluated(q)'
                 => (pc[q] \in Recorded \/ Evaluated(q)) /\ meta'[q] = meta[q]
      PROVE  RecordInv'
  BY <1>1 DEF RecordInv
<1>2. ASSUME NEW r \in Requests, Arrive(r) PROVE RecordInv'
  <2>1. CASE RejectMalformed(r)
    BY <1>0, <1>1, <2>1 DEF RejectMalformed, Unrecorded, Recorded, Persisting, Evaluated
  <2>2. CASE Receive(r)
    <3>1. PICK label \in {"audit", "failed", "verify", "lookup"}, m \in MetaType :
                 pc' = [pc EXCEPT ![r] = label] /\ meta' = [meta EXCEPT ![r] = m]
      BY <2>2, ReceiveEffect DEF TypeInv
    <3>2. log' = log /\ pc[r] = "new"
      BY <2>2 DEF Receive
    <3> QED
      BY <1>0, <1>1, <3>1, <3>2 DEF Unrecorded, Recorded, Persisting, Evaluated
  <2> QED
    BY <1>2, <2>1, <2>2 DEF Arrive
<1>3. ASSUME NEW r \in Requests, ReplayLookup(r) \/ ScanAudit(r) \/ VerifyEnvelope(r)
      PROVE  RecordInv'
  <2>1. log' = log
    BY <1>3 DEF ReplayLookup, ScanAudit, VerifyEnvelope
  <2>2. PICK label \in {"scan", "failed", "audit", "verify"} :
            pc' = [pc EXCEPT ![r] = label] /\ pc[r] \in {"lookup", "scan", "verify"}
    BY <1>3 DEF ReplayLookup, ScanAudit, VerifyEnvelope, Replayed, NotReplayed, Fail
  <2>3. \A q \in Requests : q # r => meta'[q] = meta[q]
    BY <1>0, <1>3 DEF ReplayLookup, ScanAudit, VerifyEnvelope, Replayed, NotReplayed
  <2> QED
    BY <1>0, <1>1, <2>1, <2>2, <2>3 DEF Unrecorded, Recorded, Persisting, Evaluated
<1>4. ASSUME NEW r \in Requests, AppendAudit(r) PROVE RecordInv'
  <2>1. /\ DOMAIN log' = 1..(Len(log) + 1) /\ Len(log) \in Nat /\ DOMAIN log = 1..Len(log)
        /\ log'[Len(log) + 1] = AuditRecord(r)
        /\ \A i \in DOMAIN log : log'[i] = log[i]
    BY <1>0, <1>4 DEF AppendAudit
  <2>2. /\ AuditRecord(r).request = r
        /\ AuditRecord(r).decision = meta[r].decision /\ AuditRecord(r).reason = meta[r].reason
    BY DEF AuditRecord
  <2>3. \A i \in DOMAIN log : log[i].request # r
    BY <1>4 DEF AppendAudit, RecordInv, Unrecorded
  <2>4. /\ UNCHANGED meta
        /\ \A q \in Requests : q # r => pc'[q] = pc[q]
        /\ pc'[r] \in Recorded
    BY <1>0, <1>4 DEF AppendAudit, Recorded
  <2>5. \A i, j \in DOMAIN log' : log'[i].request = log'[j].request => i = j
    BY <2>1, <2>2, <2>3 DEF RecordInv
  <2>6. \A q \in Requests : pc'[q] \in Unrecorded => \A i \in DOMAIN log' : log'[i].request # q
    BY <2>1, <2>2, <2>4 DEF RecordInv, Recorded, Unrecorded, Persisting
  <2>7. \A q \in Requests : pc'[q] \in Recorded \/ Evaluated(q)' =>
            \E i \in DOMAIN log' : /\ log'[i].request = q
                                  /\ log'[i].decision = meta'[q].decision
                                  /\ log'[i].reason = meta'[q].reason
    <3> SUFFICES ASSUME NEW q \in Requests, pc'[q] \in Recorded \/ Evaluated(q)'
                 PROVE  \E i \in DOMAIN log' : /\ log'[i].request = q
                                              /\ log'[i].decision = meta'[q].decision
                                              /\ log'[i].reason = meta'[q].reason
      OBVIOUS
    <3>1. CASE q = r
      BY <2>1, <2>2, <2>4, <3>1
    <3>2. CASE q # r
      <4>1. PICK i \in DOMAIN log : /\ log[i].request = q
                                   /\ log[i].decision = meta[q].decision
                                   /\ log[i].reason = meta[q].reason
        BY <2>4, <3>2 DEF RecordInv, Evaluated
      <4> QED
        BY <2>1, <2>4, <4>1
    <3> QED
      BY <3>1, <3>2
  <2> QED
    BY <2>5, <2>6, <2>7 DEF RecordInv
<1>5. ASSUME NEW r \in Requests,
             \/ ReadPreviousHash(r) \/ ReadBackHash(r) \/ LoadStore(r) \/ OpenTmp(r)
             \/ WriteTmp(r) \/ ReplaceStore(r) \/ Respond(r)
      PROVE  RecordInv'
  <2>1. UNCHANGED <<log, meta>>
    BY <1>5 DEF ReadPreviousHash, ReadBackHash, LoadStore, OpenTmp, WriteTmp, ReplaceStore, Respond
  <2>2. /\ \A q \in Requests : pc'[q] \in Unrecorded => pc[q] \in Unrecorded
        /\ \A q \in Requests : pc'[q] \in Recorded => pc[q] \in Recorded
        /\ \A q \in Requests : pc'[q] = "answered" => pc[q] \in Recorded \/ pc[q] = "answered"
    BY <1>0, <1>5 DEF ReadPreviousHash, ReadBackHash, LoadStore, OpenTmp, WriteTmp,
                      ReplaceStore, Respond, Fail, Recorded, Unrecorded, Persisting
  <2> QED
    BY <1>1, <2>1, <2>2 DEF Evaluated
<1>6. ASSUME NEW victims, Kill(victims) PROVE RecordInv'
  BY <1>0, <1>1, <1>6 DEF Kill, Recorded, Unrecorded, Persisting, Evaluated
<1>7. CASE Tick \/ UNCHANGED vars
  BY <1>1, <1>7 DEF Tick, vars, Evaluated
<1> QED
  BY <1>2, <1>3, <1>4, <1>5, <1>6, <1>7
     DEF Next, Serve, CrashService, KillCommand, Served

(* Every answer has exactly one record with the same decision and reason,  *)
(* whatever is served at the same time and wherever processes crash; a     *)
(* submission without an answer has at most one record.                    *)
THEOREM EveryAnswerIsAudited == Spec => []AnswersAreRecorded
<1>1. Init => TypeInv /\ RecordInv
  <2> SUFFICES ASSUME Init PROVE TypeInv /\ RecordInv
    OBVIOUS
  <2>1. RecordInv
    BY DEF Init, RecordInv, Recorded, Persisting, Evaluated
  <2> QED
    BY <2>1, InitTypeInv
<1>2. (TypeInv /\ RecordInv) /\ [Next]_vars => (TypeInv /\ RecordInv)'
  BY NextTypeInv, NextRecordInv
<1>3. TypeInv /\ RecordInv => AnswersAreRecorded
  <2> SUFFICES ASSUME TypeInv, RecordInv, NEW r \in Requests
               PROVE  /\ Cardinality(RecordsOf(r)) <= 1
                      /\ pc[r] = "new" => RecordsOf(r) = {}
                      /\ Evaluated(r) => \E i \in RecordsOf(r) :
                             log[i].decision = meta[r].decision /\ log[i].reason = meta[r].reason
    BY DEF AnswersAreRecorded
  <2>1. Cardinality(RecordsOf(r)) <= 1
    <3>1. CASE RecordsOf(r) = {}
      BY <3>1, FS_EmptySet
    <3>2. CASE RecordsOf(r) # {}
      <4>1. PICK i : i \in RecordsOf(r)
        BY <3>2
      <4>2. RecordsOf(r) = {i}
        BY <4>1 DEF RecordsOf, RecordInv
      <4>3. Cardinality({i}) = 1
        BY FS_Singleton
      <4> QED
        BY <4>2, <4>3
    <3> QED
      BY <3>1, <3>2
  <2>2. pc[r] = "new" => RecordsOf(r) = {}
    BY DEF RecordInv, RecordsOf, Unrecorded
  <2>3. Evaluated(r) => \E i \in RecordsOf(r) :
            log[i].decision = meta[r].decision /\ log[i].reason = meta[r].reason
    BY DEF RecordInv, RecordsOf
  <2> QED
    BY <2>1, <2>2, <2>3
<1> QED
  BY <1>1, <1>2, <1>3, PTL DEF Spec

-----------------------------------------------------------------------------
(* The guard when submissions are served one at a time: what is signed is  *)
(* accepted once, the log is one chain, and the guard implements           *)
(* SingleUse.  The inductive invariant is SerialInv.                       *)

(* While one request is served all others are at rest, and it touches only *)
(* what is its own and the files.                                          *)
LEMMA OthersRest ==
    ASSUME TypeInv, Alone, SaveInv, NEW r \in Requests, Serve(r)
    PROVE  /\ Active(r)
           /\ \A q \in Requests : q # r =>
                 /\ pc[q] \in Final
                 /\ pc'[q] = pc[q] /\ meta'[q] = meta[q] /\ prev'[q] = prev[q]
                 /\ audit_hash'[q] = audit_hash[q] /\ loaded'[q] = loaded[q] /\ fd'[q] = fd[q]
<1> USE DEF Go, Fail, Replayed, NotReplayed, files, locals
<1>1. Active(r)
  BY DEF Serve, ReplayLookup, ScanAudit, VerifyEnvelope, ReadPreviousHash, AppendAudit, ReadBackHash,
         LoadStore, OpenTmp, WriteTmp, ReplaceStore, Respond, Active, Final
<1>2. \A q \in Requests : q # r => pc[q] \in Final
  BY <1>1 DEF Alone, Active
<1>3. \A q \in Requests : q # r => fd[q] = "none"
  BY <1>2 DEF SaveInv, SaveOf, Final
<1>4. TypeOK
  BY DEF TypeInv
<1>5. ASSUME NEW q \in Requests, q # r
      PROVE  pc'[q] = pc[q] /\ meta'[q] = meta[q]
  BY <1>4, <1>5 DEF TypeOK, Serve, ReplayLookup, ScanAudit, VerifyEnvelope, ReadPreviousHash,
         AppendAudit, ReadBackHash, LoadStore, OpenTmp, WriteTmp, ReplaceStore, Respond
<1>6. ASSUME NEW q \in Requests, q # r
      PROVE  prev'[q] = prev[q] /\ audit_hash'[q] = audit_hash[q] /\ loaded'[q] = loaded[q]
  BY <1>4, <1>6 DEF TypeOK, Serve, ReplayLookup, ScanAudit, VerifyEnvelope, ReadPreviousHash,
         AppendAudit, ReadBackHash, LoadStore, OpenTmp, WriteTmp, ReplaceStore, Respond
<1>7. ASSUME NEW q \in Requests, q # r
      PROVE  fd'[q] = fd[q]
  BY <1>3, <1>4, <1>7 DEF TypeOK, Serve, ReplayLookup, ScanAudit, VerifyEnvelope, ReadPreviousHash,
         AppendAudit, ReadBackHash, LoadStore, OpenTmp, WriteTmp, ReplaceStore, Respond
<1> QED
  BY <1>1, <1>2, <1>5, <1>6, <1>7

(* What an arrival knows: nothing is verified yet, and the nonce is that   *)
(* of the envelope.                                                        *)
LEMMA ReceiveKnows ==
    ASSUME TypeInv, SpendInv, NEW r \in Requests, Receive(r)
    PROVE  \E label \in {"audit", "failed", "verify", "lookup"} :
               /\ pc' = [pc EXCEPT ![r] = label]
               /\ \A q \in Requests : q # r => meta'[q] = meta[q]
               /\ ~meta'[r].verified /\ NonceOfRequest(r)'
               /\ label = "verify" => meta'[r].nonce \notin Nonces
               /\ Body[r].file # "ok" => label = "audit"
<1> DEFINE body == Body[r]
           first == PolicyVerdict(body.proposal, Policy, body.envelope, Strict(r))
<1>1. first \in Verdicts(Decisions) \cup {Raised, Undecided}
  BY PolicyVerdictType
<1>2. meta \in [Requests -> MetaType] /\ NoNonce \notin Nonces
  BY GuardAssumption DEF TypeInv, TypeOK
<1>3. pc[r] = "new" /\ ~meta[r].verified /\ NonceOfRequest(r)
  BY DEF Receive, SpendInv, SpendOf
<1>4. CASE body.file \in UnreadableEnvelope
  <2> DEFINE why == Block(IF body.file = "missing" THEN "MISSING_INTENT_ENVELOPE"
                                                   ELSE "INVALID_INTENT_SIGNATURE")
  <2>1. pc' = [pc EXCEPT ![r] = "audit"] /\ meta' = [meta EXCEPT ![r] = Meta(why, FALSE, NoNonce)]
    BY <1>4 DEF Receive, Go, UnreadableEnvelope
  <2> HIDE DEF why
  <2> QED
    BY <1>2, <2>1 DEF Meta, NonceOfRequest
<1>5. CASE body.file = "ok" /\ first.decision \in Decisions
  <2>1. pc' = [pc EXCEPT ![r] = "audit"] /\ meta' = [meta EXCEPT ![r] = Meta(first, FALSE, NoNonce)]
    BY <1>5 DEF Receive, Go, UnreadableEnvelope, Decisions
  <2> HIDE DEF first
  <2> QED
    BY <1>2, <1>5, <2>1 DEF Meta, NonceOfRequest
<1>6. CASE body.file = "ok" /\ first.decision = "RAISED"
  <2>1. pc' = [pc EXCEPT ![r] = "failed"] /\ meta' = meta
    BY <1>6 DEF Receive, Go, UnreadableEnvelope, Decisions
  <2> QED
    BY <1>3, <1>6, <2>1 DEF NonceOfRequest
<1>7. CASE body.file = "ok" /\ first.decision = "UNDECIDED"
  <2> DEFINE label == IF body.envelope.nonce = NoNonce THEN "verify" ELSE "lookup"
  <2>1. body.envelope # NoEnvelope
    BY <1>7, UndecidedHasEnvelope
  <2>2. pc' = [pc EXCEPT ![r] = label] /\ meta' = [meta EXCEPT ![r].nonce = body.envelope.nonce]
    BY <1>7 DEF Receive, Go, UnreadableEnvelope, Decisions
  <2>3. meta'[r].nonce = body.envelope.nonce /\ meta'[r].verified = meta[r].verified
    BY <1>2, <2>2 DEF MetaType
  <2>4. \A q \in Requests : q # r => meta'[q] = meta[q]
    BY <1>2, <2>2
  <2>5. label \in {"verify", "lookup"} /\ (label = "verify" => meta'[r].nonce \notin Nonces)
    BY <1>2, <2>3
  <2> HIDE DEF label
  <2> QED
    BY <1>3, <1>7, <2>1, <2>2, <2>3, <2>4, <2>5 DEF NonceOfRequest
<1> QED
  BY <1>4, <1>5, <1>6, <1>7 DEF Receive

-----------------------------------------------------------------------------
LEMMA NextAlone ==
    ASSUME MaxInFlight = 1, TypeInv, Alone, SaveInv, [Next]_vars
    PROVE  Alone'
<1> USE DEF Go, Active, Final
<1>0. pc \in [Requests -> Labels]
  BY DEF TypeInv, TypeOK
<1>1. ASSUME NEW r \in Requests, Arrive(r) PROVE Alone'
  <2>1. CASE RejectMalformed(r)
    BY <1>0, <2>1 DEF RejectMalformed, Alone
  <2>2. CASE Receive(r)
    <3>1. InFlight = {}
      <4>1. IsFiniteSet(InFlight)
        BY GuardAssumption, FS_Subset DEF InFlight
      <4>2. Cardinality(InFlight) \in Nat /\ Cardinality(InFlight) < 1
        BY <2>2, <4>1, FS_CardinalityType DEF Receive
      <4> QED
        BY <4>1, <4>2, FS_EmptySet
    <3>2. PICK label : pc' = [pc EXCEPT ![r] = label]
      BY <2>2, ReceiveEffect DEF TypeInv
    <3> QED
      BY <1>0, <3>1, <3>2 DEF InFlight, Alone
  <2> QED
    BY <1>1, <2>1, <2>2 DEF Arrive
<1>2. ASSUME NEW r \in Requests, Serve(r) PROVE Alone'
  BY <1>2, OthersRest DEF Alone
<1>3. ASSUME NEW victims, Kill(victims) PROVE Alone'
  BY <1>0, <1>3 DEF Kill, Alone
<1>4. CASE Tick \/ UNCHANGED vars
  BY <1>4 DEF Tick, vars, Alone
<1> QED
  BY <1>1, <1>2, <1>3, <1>4 DEF Next, CrashService, KillCommand, Served

-----------------------------------------------------------------------------
(* What an arrival, a crash and the clock leave alone.                     *)
LEMMA ArriveFrame ==
    ASSUME NEW r \in Requests, Arrive(r)
    PROVE  pc[r] = "new" /\ UNCHANGED <<log, store, tmp, prev, audit_hash, loaded, fd>>
BY DEF Arrive, RejectMalformed, Receive, files, locals

LEMMA ArriveLabel ==
    ASSUME TypeInv, NEW r \in Requests, Arrive(r)
    PROVE  \E label \in {"answered", "audit", "failed", "verify", "lookup"} :
               pc' = [pc EXCEPT ![r] = label]
BY ReceiveEffect DEF Arrive, RejectMalformed, Go, TypeInv

(* A save keeps its temporary file to itself.                              *)
LEMMA NextSaveInv ==
    ASSUME TypeInv, StageInv, Alone, SaveInv, [Next]_vars
    PROVE  SaveInv'
<1> USE DEF Go, files, locals
<1>0. /\ pc \in [Requests -> Labels] /\ fd \in [Requests -> {"none", "tmp", "store", "orphan"}]
      /\ DOMAIN loaded = Requests /\ meta \in [Requests -> MetaType]
      /\ audit_hash \in [Requests -> Nat]
      /\ (store = Absent \/ IsJson(store)) /\ \A q \in Requests : SaveOf(q)
  BY DEF TypeInv, TypeOK, SaveInv
<1>1. ASSUME NEW r \in Requests, Arrive(r) PROVE SaveInv'
  <2>1. PICK label \in {"answered", "audit", "failed", "verify", "lookup"} :
            pc' = [pc EXCEPT ![r] = label]
    BY <1>1, ArriveLabel
  <2>2. pc[r] = "new" /\ UNCHANGED <<store, tmp, audit_hash, loaded, fd>>
    BY <1>1, ArriveFrame
  <2>3. \A q \in Requests : q # r => meta'[q] = meta[q]
    <3>1. CASE RejectMalformed(r)
      BY <3>1 DEF RejectMalformed
    <3>2. CASE Receive(r)
      <4>1. PICK m : meta' = [meta EXCEPT ![r] = m]
        BY <3>2, ReceiveEffect DEF TypeInv
      <4> QED
        BY <1>0, <4>1
    <3> QED
      BY <1>1, <3>1, <3>2 DEF Arrive
  <2>4. SaveOf(r)'
    <3>1. fd'[r] = "none" /\ loaded'[r] = NoSpent /\ pc'[r] = label
      BY <1>0, <2>1, <2>2 DEF SaveOf, Saving
    <3> QED
      BY <3>1 DEF SaveOf, Saving
  <2>5. \A q \in Requests : q # r => SaveOf(q)'
    <3> SUFFICES ASSUME NEW q \in Requests, q # r PROVE SaveOf(q)'
      OBVIOUS
    <3>1. pc'[q] = pc[q] /\ meta'[q] = meta[q] /\ audit_hash'[q] = audit_hash[q]
          /\ loaded'[q] = loaded[q] /\ fd'[q] = fd[q] /\ store' = store /\ tmp' = tmp
      BY <1>0, <2>1, <2>2, <2>3
    <3>2. NewStore(q)' = NewStore(q) /\ IsJson(store)' = IsJson(store)
      BY <3>1 DEF NewStore, IsJson
    <3> QED
      BY <1>0, <3>1, <3>2 DEF SaveOf
  <2> QED
    BY <1>0, <2>2, <2>4, <2>5 DEF SaveInv, IsJson
<1>2. ASSUME NEW r \in Requests, Serve(r) PROVE SaveInv'
  <2>1. \A q \in Requests : q # r => SaveOf(q)'
    BY <1>0, <1>2, OthersRest DEF SaveOf, Saving, Final
  <2>2. ASSUME \/ ReplayLookup(r) \/ ScanAudit(r) \/ VerifyEnvelope(r) \/ ReadPreviousHash(r)
               \/ AppendAudit(r) \/ ReadBackHash(r)
        PROVE  SaveOf(r)' /\ UNCHANGED store
    <3>1. UNCHANGED <<store, loaded>>
      BY <2>2 DEF ReplayLookup, ScanAudit, VerifyEnvelope, ReadPreviousHash, AppendAudit, ReadBackHash
    <3>2. fd'[r] = "none" /\ pc'[r] \notin Saving
          /\ (pc'[r] \notin {"respond", "answered", "failed"}
                => pc[r] \notin Saving \cup {"respond", "answered", "failed"})
      BY <1>0, <2>2 DEF ReplayLookup, ScanAudit, VerifyEnvelope, ReadPreviousHash, AppendAudit,
                        ReadBackHash, Replayed, NotReplayed, Fail, Saving, SaveOf
    <3> QED
      BY <1>0, <3>1, <3>2 DEF SaveOf, Saving
  <2>3. ASSUME LoadStore(r)
        PROVE  SaveOf(r)' /\ UNCHANGED store
    BY <1>0, <2>3 DEF LoadStore, Fail, SaveOf, Saving, IsJson
  <2>4. ASSUME OpenTmp(r)
        PROVE  SaveOf(r)' /\ UNCHANGED store
    BY <1>0, <2>4 DEF OpenTmp, SaveOf, Saving, IsJson
  <2>5. ASSUME WriteTmp(r)
        PROVE  SaveOf(r)' /\ UNCHANGED store
    <3>1. pc[r] = "write" /\ fd[r] = "tmp" /\ tmp = Empty
      BY <1>0, <2>5 DEF WriteTmp, SaveOf
    <3>2. tmp' = NewStore(r) /\ UNCHANGED <<store, loaded, meta, audit_hash>>
      BY <2>5, <3>1 DEF WriteTmp, Overwrite
    <3>3. pc'[r] = "replace" /\ fd'[r] = "none"
      BY <1>0, <2>5 DEF WriteTmp
    <3> QED
      BY <1>0, <3>1, <3>2, <3>3 DEF SaveOf, Saving, IsJson, NewStore
  <2>6. ASSUME ReplaceStore(r)
        PROVE  SaveOf(r)' /\ (store' = store \/ IsJson(store)')
    <3>1. pc[r] = "replace" /\ tmp = NewStore(r) /\ fd[r] = "none"
      BY <1>0, <2>6 DEF ReplaceStore, SaveOf
    <3>2. pc'[r] \in {"respond", "failed"} /\ fd'[r] = "none"
      BY <1>0, <2>6, <3>1 DEF ReplaceStore, Fail
    <3>3. IsContent(NewStore(r))
      BY <1>0, <3>1, NewStoreType DEF StageInv, Persisting, MustPersist, TypeInv, TypeOK
    <3>4. store' \in {store, NewStore(r)}
      BY <2>6, <3>1 DEF ReplaceStore
    <3>5. IsJson(NewStore(r))
      BY <3>3, GuardAssumption DEF IsContent, IsJson
    <3> QED
      BY <3>2, <3>4, <3>5 DEF SaveOf, Saving, IsJson
  <2>7. ASSUME Respond(r)
        PROVE  SaveOf(r)' /\ UNCHANGED store
    BY <1>0, <2>7 DEF Respond, SaveOf, Saving
  <2> QED
    BY <1>0, <1>2, <2>1, <2>2, <2>3, <2>4, <2>5, <2>6, <2>7 DEF SaveInv, Serve, IsJson
<1>3. ASSUME NEW victims, Kill(victims) PROVE SaveInv'
  <2>1. UNCHANGED <<store, tmp, meta, audit_hash, loaded>>
    BY <1>3 DEF Kill
  <2>2. ASSUME NEW q \in Requests PROVE SaveOf(q)'
    <3>1. \/ pc'[q] = pc[q] /\ fd'[q] = fd[q]
          \/ pc'[q] = "failed" /\ fd'[q] = "none"
      BY <1>3 DEF Kill
    <3> QED
      BY <1>0, <2>1, <3>1 DEF SaveOf, NewStore, Saving, IsJson
  <2> QED
    BY <1>0, <2>1, <2>2 DEF SaveInv, IsJson
<1>4. CASE Tick \/ UNCHANGED vars
  BY <1>4, <1>0 DEF Tick, vars, SaveInv, SaveOf, NewStore, IsJson
<1> QED
  BY <1>1, <1>2, <1>3, <1>4 DEF Next, CrashService, KillCommand, Served

-----------------------------------------------------------------------------
(* The rename is the only step that changes the store, and it spends the   *)
(* nonce of its request.                                                   *)
Renames(r) == ReplaceStore(r) /\ pc'[r] = "respond"

LEMMA StoreEffect ==
    ASSUME TypeInv, Alone, SaveInv, NEW r \in Requests, Serve(r)
    PROVE  /\ Renames(r) => /\ store' = NewStore(r) /\ IsJson(store')
                            /\ SpentNonces' = SpentNonces \cup {meta[r].nonce}
           /\ ~Renames(r) => UNCHANGED store /\ SpentNonces' = SpentNonces
<1> USE DEF Go, files, locals
<1>0. SaveOf(r) /\ pc \in [Requests -> Labels] /\ meta \in [Requests -> MetaType]
      /\ audit_hash \in [Requests -> Nat] /\ IsContent(loaded[r])
  BY DEF SaveInv, TypeInv, TypeOK
<1>1. CASE Renames(r)
  <2>1. pc[r] = "replace" /\ tmp = NewStore(r)
    BY <1>0, <1>1 DEF Renames, ReplaceStore, SaveOf
  <2>2. store' = NewStore(r)
    BY <1>0, <1>1, <2>1 DEF Renames, ReplaceStore, Fail
  <2>3. IsContent(NewStore(r))
    BY <1>0, <2>1, NewStoreType DEF StageInv, Persisting, MustPersist, TypeInv
  <2>4. IsJson(NewStore(r))
    BY <2>3, GuardAssumption DEF IsContent, IsJson
  <2>5. DOMAIN NewStore(r) = DOMAIN loaded[r] \cup {meta[r].nonce}
    BY DEF NewStore
  <2>6. DOMAIN loaded[r] = SpentNonces
    BY <1>0, <2>1 DEF SaveOf, Saving, SpentNonces, NoSpent
  <2>7. SpentNonces' = DOMAIN NewStore(r)
    BY <2>2, <2>4 DEF SpentNonces, IsJson
  <2> QED
    BY <1>1, <2>2, <2>4, <2>5, <2>6, <2>7
<1>2. CASE ~Renames(r)
  <2>1. UNCHANGED store
    BY <1>0, <1>2 DEF Serve, ReplayLookup, ScanAudit, VerifyEnvelope, ReadPreviousHash, AppendAudit,
         ReadBackHash, LoadStore, OpenTmp, WriteTmp, ReplaceStore, Respond, Renames, SaveOf
  <2> QED
    BY <1>2, <2>1 DEF SpentNonces, IsJson
<1> QED
  BY <1>1, <1>2

(* What is signed and accepted, and answered or about to be.               *)
Granted(r) == pc[r] \in {"respond", "answered"} /\ SignedAccept(r)

LEMMA NextSpendInv ==
    ASSUME TypeInv, Alone, SaveInv, SpendInv, [Next]_vars
    PROVE  SpendInv'
<1> USE DEF Go, files, locals
<1>0. /\ pc \in [Requests -> Labels] /\ meta \in [Requests -> MetaType]
      /\ \A q \in Requests : SpendOf(q)
  BY DEF TypeInv, TypeOK, SpendInv
(* A request at rest, or one that ends.                                    *)
<1>a. ASSUME NEW q \in Requests, meta'[q] = meta[q], SpentNonces \subseteq SpentNonces',
             \/ pc'[q] = pc[q] /\ (pc[q] \in Final \/ UNCHANGED store)
             \/ pc'[q] = "failed"
      PROVE  SpendOf(q)'
  <2>1. UNCHANGED store => SpentNonces' = SpentNonces
    BY DEF SpentNonces, IsJson
  <2>2. SignedAccept(q)' = SignedAccept(q) /\ NonceOfRequest(q)' = NonceOfRequest(q)
    BY <1>a DEF SignedAccept, NonceOfRequest
  <2> QED
    BY <1>0, <1>a, <2>1, <2>2 DEF SpendOf, Final, Persisting
<1>1. ASSUME NEW r \in Requests, Arrive(r) PROVE SpendInv'
  <2>1. pc[r] = "new" /\ UNCHANGED store /\ SpentNonces' = SpentNonces
    BY <1>1, ArriveFrame DEF SpentNonces, IsJson
  <2>2. CASE RejectMalformed(r)
    <3>1. pc' = [pc EXCEPT ![r] = "answered"] /\ meta' = meta
      BY <2>2 DEF RejectMalformed
    <3>2. ~meta[r].verified /\ NonceOfRequest(r)
      BY <1>0, <2>1 DEF SpendOf
    <3>3. SpendOf(r)'
      BY <1>0, <3>1, <3>2 DEF SpendOf, SignedAccept, NonceOfRequest, Persisting
    <3>4. \A q \in Requests : q # r => SpendOf(q)'
      BY <1>0, <1>a, <2>1, <3>1
    <3> QED
      BY <3>3, <3>4 DEF SpendInv
  <2>3. CASE Receive(r)
    <3>1. PICK label \in {"audit", "failed", "verify", "lookup"} :
               /\ pc' = [pc EXCEPT ![r] = label]
               /\ \A q \in Requests : q # r => meta'[q] = meta[q]
               /\ ~meta'[r].verified /\ NonceOfRequest(r)'
               /\ label = "verify" => meta'[r].nonce \notin Nonces
               /\ Body[r].file # "ok" => label = "audit"
      BY <2>3, ReceiveKnows
    <3>2. SpendOf(r)'
      BY <1>0, <3>1 DEF SpendOf, SignedAccept, Persisting
    <3>3. \A q \in Requests : q # r => SpendOf(q)'
      BY <1>0, <1>a, <2>1, <3>1
    <3> QED
      BY <3>2, <3>3 DEF SpendInv
  <2> QED
    BY <1>1, <2>2, <2>3 DEF Arrive
<1>2. ASSUME NEW r \in Requests, Serve(r) PROVE SpendInv'
  <2>0. SpentNonces \subseteq SpentNonces'
    BY <1>2, StoreEffect
  <2>1. \A q \in Requests : q # r => SpendOf(q)'
    BY <1>2, <1>a, <2>0, OthersRest
  <2>2. SpendOf(r) /\ NonceOfRequest(r)
    BY <1>0 DEF SpendOf
  <2>3. ASSUME ReplayLookup(r) \/ ScanAudit(r)
        PROVE  SpendOf(r)'
    <3>1. UNCHANGED store /\ SpentNonces' = SpentNonces
      BY <2>3 DEF ReplayLookup, ScanAudit, SpentNonces, IsJson
    <3>2. pc[r] \in {"lookup", "scan"} /\ ~meta[r].verified /\ Body[r].file = "ok"
      BY <2>2, <2>3 DEF ReplayLookup, ScanAudit, SpendOf
    <3>3. meta'[r].nonce = meta[r].nonce /\ ~meta'[r].verified
      BY <1>0, <2>3, <3>2 DEF ReplayLookup, ScanAudit, Replayed, NotReplayed, Meta
    <3>4. /\ pc'[r] \in {"scan", "failed", "audit", "verify"}
          /\ pc'[r] = "scan" => store = Absent
          /\ pc'[r] = "verify" => meta[r].nonce \notin SpentNonces
      BY <1>0, <2>2, <2>3 DEF ReplayLookup, ScanAudit, Replayed, NotReplayed, Fail, SpendOf,
                              SpentNonces, IsJson
    <3> QED
      BY <2>2, <3>1, <3>2, <3>3, <3>4 DEF SpendOf, SignedAccept, NonceOfRequest, Persisting
  <2>4. ASSUME VerifyEnvelope(r)
        PROVE  SpendOf(r)'
    <3>1. UNCHANGED store /\ SpentNonces' = SpentNonces
      BY <2>4 DEF VerifyEnvelope, SpentNonces, IsJson
    <3>2. pc[r] = "verify" /\ Body[r].file = "ok"
          /\ (meta[r].nonce \in Nonces => meta[r].nonce \notin SpentNonces)
      BY <2>2, <2>4 DEF VerifyEnvelope, SpendOf
    <3>3. pc'[r] \in {"failed", "audit"} /\ meta'[r].nonce = meta[r].nonce
      BY <1>0, <2>4 DEF VerifyEnvelope, Meta
    <3> QED
      BY <2>2, <3>1, <3>2, <3>3 DEF SpendOf, SignedAccept, NonceOfRequest, Persisting
  <2>5. ASSUME \/ ReadPreviousHash(r) \/ AppendAudit(r) \/ ReadBackHash(r) \/ LoadStore(r)
               \/ OpenTmp(r) \/ WriteTmp(r) \/ ReplaceStore(r) \/ Respond(r)
        PROVE  SpendOf(r)'
    <3>1. meta' = meta
      BY <2>5 DEF ReadPreviousHash, AppendAudit, ReadBackHash, LoadStore, OpenTmp, WriteTmp,
                  ReplaceStore, Respond
    <3>2. SignedAccept(r)' = SignedAccept(r) /\ NonceOfRequest(r)' = NonceOfRequest(r)
      BY <3>1 DEF SignedAccept, NonceOfRequest
    <3>3. MustPersist(meta[r]) = SignedAccept(r)
      BY DEF MustPersist, SignedAccept
    <3>4. \/ pc[r] \in {"audit", "append", "readback"} \cup Persisting
             /\ pc'[r] \in {"append", "readback"} \cup Persisting /\ ~Renames(r)
          \/ pc[r] = "append" /\ pc'[r] = "respond" /\ Body[r].file # "ok" /\ ~Renames(r)
          \/ pc[r] = "readback" /\ pc'[r] = "respond" /\ ~SignedAccept(r) /\ ~Renames(r)
          \/ Renames(r)
          \/ pc'[r] = "failed" /\ ~Renames(r)
          \/ pc[r] = "respond" /\ pc'[r] = "answered" /\ ~Renames(r)
      BY <1>0, <2>5, <3>3 DEF ReadPreviousHash, AppendAudit, ReadBackHash, LoadStore, OpenTmp,
                  WriteTmp, ReplaceStore, Respond, Renames, Fail, Persisting
    <3>5. ~Renames(r) => UNCHANGED store /\ SpentNonces' = SpentNonces
      BY <1>2, StoreEffect
    <3>6. Renames(r) => meta[r].nonce \in SpentNonces' /\ pc'[r] = "respond"
      BY <1>2, StoreEffect DEF Renames
    <3>7. Body[r].file # "ok" => ~SignedAccept(r)
      BY <2>2 DEF SpendOf, SignedAccept
    <3> QED
      BY <2>2, <3>1, <3>2, <3>4, <3>5, <3>6, <3>7 DEF SpendOf, Persisting
  <2>6. SpendOf(r)'
    BY <1>2, <2>3, <2>4, <2>5 DEF Serve
  <2> QED
    BY <2>1, <2>6 DEF SpendInv
<1>3. ASSUME NEW victims, Kill(victims) PROVE SpendInv'
  <2>1. meta' = meta /\ UNCHANGED store /\ SpentNonces' = SpentNonces
    BY <1>3 DEF Kill, SpentNonces, IsJson
  <2>2. \A q \in Requests : pc'[q] = pc[q] \/ pc'[q] = "failed"
    BY <1>3 DEF Kill
  <2> QED
    BY <1>a, <2>1, <2>2 DEF SpendInv
<1>4. CASE Tick \/ UNCHANGED vars
  <2>1. meta' = meta /\ pc' = pc /\ UNCHANGED store /\ SpentNonces' = SpentNonces
    BY <1>4 DEF Tick, vars, SpentNonces, IsJson
  <2> QED
    BY <1>a, <2>1 DEF SpendInv
<1> QED
  BY <1>1, <1>2, <1>3, <1>4 DEF Next, CrashService, KillCommand, Served

(* No step but a rename grants, and it grants what nobody was granted.     *)
LEMMA GrantedStep ==
    ASSUME TypeInv, Alone, SaveInv, SpendInv, [Next]_vars, NEW q \in Requests, Granted(q)'
    PROVE  /\ meta'[q] = meta[q]
           /\ Granted(q) \/ (Renames(q) /\ SignedAccept(q) /\ meta[q].nonce \notin SpentNonces)
<1> USE DEF Go, files, locals
<1>0. pc \in [Requests -> Labels] /\ meta \in [Requests -> MetaType] /\ SpendOf(q)
  BY DEF TypeInv, TypeOK, SpendInv
<1>1. ASSUME NEW r \in Requests, Arrive(r)
      PROVE  pc'[q] = pc[q] /\ meta'[q] = meta[q]
  <2>1. pc[r] = "new"
    BY <1>1, ArriveFrame
  <2>2. CASE RejectMalformed(r)
    <3>1. q # r
      BY <1>0, <2>1, <2>2 DEF RejectMalformed, SpendOf, Granted, SignedAccept
    <3> QED
      BY <1>0, <2>2, <3>1 DEF RejectMalformed
  <2>3. CASE Receive(r)
    <3>1. PICK label \in {"audit", "failed", "verify", "lookup"} :
               /\ pc' = [pc EXCEPT ![r] = label]
               /\ \A d \in Requests : d # r => meta'[d] = meta[d]
      BY <2>3, ReceiveKnows
    <3>2. q # r
      BY <1>0, <3>1 DEF Granted
    <3> QED
      BY <1>0, <3>1, <3>2
  <2> QED
    BY <1>1, <2>2, <2>3 DEF Arrive
<1>2. ASSUME NEW r \in Requests, Serve(r), q # r
      PROVE  pc'[q] = pc[q] /\ meta'[q] = meta[q]
  BY <1>2, OthersRest
<1>3. ASSUME Serve(q)
      PROVE  /\ meta'[q] = meta[q]
             /\ Granted(q) \/ (Renames(q) /\ SignedAccept(q) /\ meta[q].nonce \notin SpentNonces)
  <2>1. AppendAudit(q) \/ ReadBackHash(q) \/ Renames(q) \/ Respond(q)
    BY <1>0, <1>3 DEF Serve, ReplayLookup, ScanAudit, VerifyEnvelope, ReadPreviousHash, LoadStore,
         OpenTmp, WriteTmp, ReplaceStore, Renames, Replayed, NotReplayed, Fail, Granted
  <2>2. meta' = meta
    BY <2>1 DEF AppendAudit, ReadBackHash, Renames, ReplaceStore, Respond
  <2>3. SignedAccept(q)
    BY <2>2 DEF Granted, SignedAccept
  <2>4. CASE AppendAudit(q)
    BY <1>0, <2>3, <2>4 DEF AppendAudit, Granted, SpendOf, SignedAccept
  <2>5. CASE ReadBackHash(q)
    BY <1>0, <2>3, <2>5 DEF ReadBackHash, Granted, MustPersist, SignedAccept
  <2>6. CASE Renames(q)
    BY <1>0, <2>2, <2>3, <2>6 DEF Renames, ReplaceStore, SpendOf, Persisting
  <2>7. CASE Respond(q)
    BY <2>2, <2>3, <2>7 DEF Respond, Granted
  <2> QED
    BY <2>1, <2>4, <2>5, <2>6, <2>7
<1>4. ASSUME NEW victims, Kill(victims)
      PROVE  pc'[q] = pc[q] /\ meta'[q] = meta[q]
  BY <1>4 DEF Kill, Granted
<1>5. CASE Tick \/ UNCHANGED vars
  BY <1>5 DEF Tick, vars, Granted, SignedAccept
<1>6. pc'[q] = pc[q] /\ meta'[q] = meta[q] => Granted(q)
  BY DEF Granted, SignedAccept
<1> QED
  BY <1>1, <1>2, <1>3, <1>4, <1>5, <1>6 DEF Next, CrashService, KillCommand, Served

LEMMA NextOnceInv ==
    ASSUME TypeInv, Alone, SaveInv, SpendInv, OnceInv, [Next]_vars
    PROVE  OnceInv'
<1> SUFFICES ASSUME NEW r \in Requests, NEW q \in Requests, Granted(r)', Granted(q)',
                    meta'[r].nonce = meta'[q].nonce
             PROVE  r = q
  BY DEF OnceInv, Granted
<1>1. /\ meta'[r] = meta[r] /\ meta'[q] = meta[q]
      /\ Granted(r) \/ (Renames(r) /\ meta[r].nonce \notin SpentNonces)
      /\ Granted(q) \/ (Renames(q) /\ meta[q].nonce \notin SpentNonces)
  BY GrantedStep
<1>2. \A d \in Requests : Granted(d) => meta[d].nonce \in SpentNonces
  BY DEF SpendInv, SpendOf, Granted
<1>3. Renames(r) /\ Renames(q) => r = q
  BY DEF Renames, ReplaceStore, Alone, Active, Final
<1>4. Granted(r) /\ Granted(q) => r = q
  BY <1>1 DEF OnceInv, Granted
<1> QED
  BY <1>1, <1>2, <1>3, <1>4

-----------------------------------------------------------------------------
(* What an append does to the log.                                         *)
LEMMA LogAppended ==
    ASSUME TypeInv, NEW r \in Requests, AppendAudit(r)
    PROVE  /\ Len(log) \in Nat /\ DOMAIN log = 1..Len(log) /\ DOMAIN log' = 1..(Len(log) + 1)
           /\ Len(log') = Len(log) + 1
           /\ log'[Len(log) + 1] = AuditRecord(r)
           /\ \A i \in DOMAIN log : log'[i] = log[i]
<1>1. log \in Seq(RecordType)
  BY DEF TypeInv, TypeOK
<1> DEFINE x == AuditRecord(r)
<1>2. log' = Append(log, x)
  BY DEF AppendAudit
<1> HIDE DEF x
<1>3. /\ Len(log') = Len(log) + 1 /\ DOMAIN log' = 1..(Len(log) + 1)
      /\ log'[Len(log) + 1] = x
      /\ \A i \in DOMAIN log : log'[i] = log[i]
  BY <1>1, <1>2
<1> QED
  BY <1>1, <1>3 DEF x

(* Only an append changes the log.                                         *)
LEMMA LogFrame ==
    ASSUME [Next]_vars
    PROVE  UNCHANGED log \/ \E r \in Requests : AppendAudit(r)
BY DEF Next, Arrive, Serve, RejectMalformed, Receive, ReplayLookup, ScanAudit, VerifyEnvelope,
       ReadPreviousHash, ReadBackHash, LoadStore, OpenTmp, WriteTmp, ReplaceStore, Respond,
       CrashService, KillCommand, Kill, Tick, Served, vars

LEMMA NextChainInv ==
    ASSUME TypeInv, HashInv, Alone, SaveInv, ChainInv, [Next]_vars
    PROVE  ChainInv'
<1> USE DEF Go, files, locals
<1>0. pc \in [Requests -> Labels] /\ prev \in [Requests -> Nat]
  BY DEF TypeInv, TypeOK
<1>a. ASSUME UNCHANGED log,
             \A q \in Requests : pc'[q] = "append" => pc[q] = "append" /\ prev'[q] = prev[q]
      PROVE  ChainInv'
  BY <1>a DEF ChainInv
<1>1. ASSUME NEW r \in Requests, Arrive(r) PROVE ChainInv'
  <2>1. PICK label \in {"answered", "audit", "failed", "verify", "lookup"} :
            pc' = [pc EXCEPT ![r] = label]
    BY <1>1, ArriveLabel
  <2> QED
    BY <1>0, <1>1, <1>a, <2>1, ArriveFrame
<1>2. ASSUME NEW r \in Requests, Serve(r) PROVE ChainInv'
  <2>0. \A q \in Requests : q # r => pc'[q] # "append"
    BY <1>2, OthersRest DEF Final
  <2>1. CASE AppendAudit(r)
    <3>1. /\ Len(log) \in Nat /\ DOMAIN log = 1..Len(log) /\ DOMAIN log' = 1..(Len(log) + 1)
          /\ log'[Len(log) + 1] = AuditRecord(r)
          /\ \A i \in DOMAIN log : log'[i] = log[i]
      BY <2>1, LogAppended
    <3>2. AuditRecord(r).previous_hash = Len(log)
      BY <2>1 DEF AppendAudit, AuditRecord, ChainInv
    <3>3. pc'[r] # "append"
      BY <1>0, <2>1 DEF AppendAudit
    <3>4. \A i \in DOMAIN log' : log'[i].previous_hash = i - 1
      BY <3>1, <3>2 DEF ChainInv
    <3> QED
      BY <2>0, <3>3, <3>4 DEF ChainInv
  <2>2. CASE ReadPreviousHash(r)
    <3>1. LastHash = Len(log)
      BY LastHashIsLength DEF TypeInv, TypeOK
    <3>2. log' = log /\ prev'[r] = Len(log)
      BY <1>0, <2>2, <3>1 DEF ReadPreviousHash
    <3> QED
      BY <2>0, <3>2 DEF ChainInv
  <2>3. CASE \/ ReplayLookup(r) \/ ScanAudit(r) \/ VerifyEnvelope(r) \/ ReadBackHash(r)
             \/ LoadStore(r) \/ OpenTmp(r) \/ WriteTmp(r) \/ ReplaceStore(r) \/ Respond(r)
    <3>1. log' = log /\ pc'[r] # "append"
      BY <1>0, <2>3 DEF ReplayLookup, ScanAudit, VerifyEnvelope, ReadBackHash, LoadStore, OpenTmp,
                        WriteTmp, ReplaceStore, Respond, Replayed, NotReplayed, Fail
    <3> QED
      BY <2>0, <3>1 DEF ChainInv
  <2> QED
    BY <1>2, <2>1, <2>2, <2>3 DEF Serve
<1>3. ASSUME NEW victims, Kill(victims) PROVE ChainInv'
  BY <1>3, <1>a DEF Kill
<1>4. CASE Tick \/ UNCHANGED vars
  BY <1>4, <1>a DEF Tick, vars
<1> QED
  BY <1>1, <1>2, <1>3, <1>4 DEF Next, CrashService, KillCommand, Served

-----------------------------------------------------------------------------
(* Records keep their place, so that what was named stays named.           *)
LEMMA NamesStay ==
    ASSUME TypeInv, [Next]_vars
    PROVE  /\ \A c : Named(c) => \A n \in DOMAIN c :
                 c[n] \in DOMAIN log' /\ log'[c[n]].verified /\ log'[c[n]].nonce = n
           /\ \A i : \A r \in Requests : IsRecordOf(i, r) /\ meta'[r] = meta[r] =>
                 /\ i \in DOMAIN log' /\ log'[i].request = r
                 /\ log'[i].verified = meta'[r].verified /\ log'[i].nonce = meta'[r].nonce
<1>1. \A i \in DOMAIN log : i \in DOMAIN log' /\ log'[i] = log[i]
  BY LogOnlyGrows
<1> QED
  BY <1>1 DEF Named, IsRecordOf

LEMMA NextNameInv ==
    ASSUME TypeInv, HashInv, Alone, SaveInv, SpendInv, NameInv, [Next]_vars
    PROVE  NameInv'
<1> USE DEF Go, files, locals
<1>0. /\ pc \in [Requests -> Labels] /\ meta \in [Requests -> MetaType]
      /\ audit_hash \in [Requests -> Nat] /\ DOMAIN loaded = Requests
      /\ log \in Seq(RecordType)
      /\ \A q \in Requests : NameOf(q)
  BY DEF TypeInv, TypeOK, NameInv
<1> DEFINE Own(i, r) == /\ i \in DOMAIN log' /\ log'[i].request = r
                        /\ log'[i].verified = meta'[r].verified /\ log'[i].nonce = meta'[r].nonce
           Kept(c) == \A n \in DOMAIN c :
                          c[n] \in DOMAIN log' /\ log'[c[n]].verified /\ log'[c[n]].nonce = n
           NamedBy(r) ==
               /\ pc'[r] = "readback" => Own(Len(log'), r)
               /\ pc'[r] \in Persisting => Own(audit_hash'[r], r)
               /\ pc'[r] = "respond" \/ (Body[r].wellformed /\ pc'[r] = "answered") =>
                     (Body[r].file = "ok" => Own(audit_hash'[r], r))
               /\ Kept(loaded'[r])
<1>b. (IsJson(store') => Kept(store')) /\ (\A q \in Requests : NamedBy(q)) => NameInv'
  BY DEF NameInv, NameOf, IsRecordOf, Named, Evaluated
<1>c. /\ \A c : Named(c) => Kept(c)
      /\ \A i : \A r \in Requests : IsRecordOf(i, r) /\ meta'[r] = meta[r] => Own(i, r)
  BY NamesStay
<1> HIDE DEF Own, Kept
<1>s. UNCHANGED store => (IsJson(store') => Kept(store'))
  BY <1>c DEF NameInv
(* A request that rests, is stopped or goes on without new knowledge.      *)
<1>a. ASSUME NEW q \in Requests, meta'[q] = meta[q], UNCHANGED log,
             audit_hash'[q] = audit_hash[q], loaded'[q] = loaded[q],
             \/ pc'[q] = pc[q]
             \/ pc'[q] \notin {"readback", "respond", "answered"} \cup Persisting
             \/ pc[q] \in Persisting \cup {"respond"} /\ pc'[q] \in Persisting \cup {"respond", "answered"}
                /\ (pc[q] = "respond" => pc'[q] = "answered")
      PROVE  NamedBy(q)
  BY <1>0, <1>a, <1>c DEF NameOf, Evaluated, Persisting
<1>1. ASSUME NEW r \in Requests, Arrive(r) PROVE NameInv'
  <2>1. PICK label \in {"answered", "audit", "failed", "verify", "lookup"} :
            pc' = [pc EXCEPT ![r] = label]
    BY <1>1, ArriveLabel
  <2>2. pc[r] = "new" /\ UNCHANGED <<log, store, audit_hash, loaded>>
    BY <1>1, ArriveFrame
  <2>3. label = "answered" => ~Body[r].wellformed
    <3>1. CASE RejectMalformed(r)
      BY <3>1 DEF RejectMalformed
    <3>2. CASE Receive(r)
      <4>1. PICK l \in {"audit", "failed", "verify", "lookup"} : pc' = [pc EXCEPT ![r] = l]
        BY <3>2, ReceiveEffect DEF TypeInv
      <4> QED
        BY <1>0, <2>1, <4>1
    <3> QED
      BY <1>1, <3>1, <3>2 DEF Arrive
  <2>4. \A q \in Requests : q # r => meta'[q] = meta[q]
    BY <1>1, ReceiveKnows DEF Arrive, RejectMalformed
  <2>5. NamedBy(r)
    BY <1>0, <1>c, <2>1, <2>2, <2>3 DEF NameOf, Persisting
  <2>6. \A q \in Requests : q # r => NamedBy(q)
    BY <1>0, <1>a, <2>1, <2>2, <2>4
  <2> QED
    BY <1>b, <1>s, <2>2, <2>5, <2>6
<1>2. ASSUME NEW r \in Requests, Serve(r) PROVE NameInv'
  <2>1. ASSUME NEW q \in Requests, q # r PROVE NamedBy(q)
    <3>1. /\ pc'[q] = pc[q] /\ meta'[q] = meta[q] /\ audit_hash'[q] = audit_hash[q]
          /\ loaded'[q] = loaded[q] /\ pc[q] \in Final
      BY <1>2, <2>1, OthersRest
    <3> QED
      BY <1>0, <1>c, <3>1 DEF NameOf, Evaluated, Persisting, Final
  <2>2. CASE ReplayLookup(r) \/ ScanAudit(r) \/ VerifyEnvelope(r) \/ ReadPreviousHash(r)
    <3>1. UNCHANGED <<log, store, audit_hash, loaded>>
      BY <2>2 DEF ReplayLookup, ScanAudit, VerifyEnvelope, ReadPreviousHash
    <3>2. pc'[r] \in {"scan", "verify", "audit", "append", "failed"}
      BY <1>0, <2>2 DEF ReplayLookup, ScanAudit, VerifyEnvelope, ReadPreviousHash, Replayed,
                        NotReplayed, Fail
    <3>3. NamedBy(r)
      BY <1>0, <1>c, <3>1, <3>2 DEF NameOf, Persisting
    <3> QED
      BY <1>b, <1>s, <2>1, <3>1, <3>3
  <2>3. CASE AppendAudit(r)
    <3>1. UNCHANGED <<store, meta, loaded>>
          /\ pc'[r] = (IF Body[r].file = "ok" THEN "readback" ELSE "respond")
      BY <1>0, <2>3 DEF AppendAudit
    <3>2. /\ Len(log) + 1 \in DOMAIN log' /\ Len(log') = Len(log) + 1
          /\ log'[Len(log) + 1] = AuditRecord(r)
      BY <2>3, LogAppended
    <3>3. Own(Len(log'), r)
      BY <3>1, <3>2 DEF Own, AuditRecord
    <3>4. NamedBy(r)
      BY <1>0, <1>c, <3>1, <3>3 DEF NameOf, Persisting
    <3> QED
      BY <1>b, <1>s, <2>1, <3>1, <3>4
  <2>4. CASE ReadBackHash(r)
    <3>1. LastHash = Len(log)
      BY <1>0, LastHashIsLength
    <3>2. /\ UNCHANGED <<log, store, meta, loaded>> /\ pc[r] = "readback"
          /\ audit_hash'[r] = Len(log) /\ pc'[r] \in {"load", "respond"}
      BY <1>0, <2>4, <3>1 DEF ReadBackHash
    <3>3. Own(audit_hash'[r], r)
      BY <1>0, <1>c, <3>2 DEF NameOf
    <3>4. NamedBy(r)
      BY <1>0, <1>c, <3>2, <3>3 DEF NameOf, Persisting
    <3> QED
      BY <1>b, <1>s, <2>1, <3>2, <3>4
  <2>5. CASE LoadStore(r)
    <3>1. /\ UNCHANGED <<log, store, meta, audit_hash>> /\ pc[r] = "load"
          /\ pc'[r] \in {"open", "failed"}
          /\ loaded'[r] = loaded[r] \/ (IsJson(store) /\ loaded'[r] = store)
      BY <1>0, <2>5 DEF LoadStore, Fail
    <3>2. NamedBy(r)
      BY <1>0, <1>c, <3>1 DEF NameOf, NameInv, Persisting
    <3> QED
      BY <1>b, <1>s, <2>1, <3>1, <3>2
  <2>6. CASE OpenTmp(r) \/ WriteTmp(r) \/ ReplaceStore(r) \/ Respond(r)
    <3>1. UNCHANGED <<log, meta, audit_hash, loaded>>
      BY <2>6 DEF OpenTmp, WriteTmp, ReplaceStore, Respond
    <3>2. \/ pc[r] \in Persisting /\ pc'[r] \in Persisting \cup {"respond", "failed"}
          \/ pc[r] = "respond" /\ pc'[r] = "answered"
      BY <1>0, <2>6 DEF OpenTmp, WriteTmp, ReplaceStore, Respond, Fail, Persisting
    <3>3. NamedBy(r)
      BY <1>0, <1>c, <3>1, <3>2 DEF NameOf, Persisting
    <3>4. IsJson(store') => Kept(store')
      <4>1. CASE ~Renames(r)
        BY <1>2, <1>s, <4>1, StoreEffect
      <4>2. CASE Renames(r)
        <5>1. store' = NewStore(r)
          BY <1>2, <4>2, StoreEffect
        <5>2. pc[r] = "replace"
          BY <4>2 DEF Renames, ReplaceStore
        <5>3. IsRecordOf(audit_hash[r], r) /\ Named(loaded[r]) /\ meta[r].verified
          BY <1>0, <5>2 DEF NameOf, TypeInv, StageInv, MustPersist, Persisting
        <5>4. Named(NewStore(r))
          BY <5>3 DEF Named, NewStore, IsRecordOf
        <5> QED
          BY <1>c, <5>1, <5>4
      <4> QED
        BY <4>1, <4>2
    <3> QED
      BY <1>b, <2>1, <3>3, <3>4
  <2> QED
    BY <1>2, <2>2, <2>3, <2>4, <2>5, <2>6 DEF Serve
<1>3. ASSUME NEW victims, Kill(victims) PROVE NameInv'
  <2>1. UNCHANGED <<log, store, meta, audit_hash, loaded>>
    BY <1>3 DEF Kill
  <2>2. \A q \in Requests : pc'[q] = pc[q] \/ pc'[q] = "failed"
    BY <1>3 DEF Kill
  <2>3. \A q \in Requests : NamedBy(q)
    BY <1>a, <2>1, <2>2 DEF Persisting
  <2> QED
    BY <1>b, <1>s, <2>1, <2>3
<1>4. CASE Tick \/ UNCHANGED vars
  <2>1. UNCHANGED <<log, store, meta, audit_hash, loaded, pc>>
    BY <1>4 DEF Tick, vars
  <2>2. \A q \in Requests : NamedBy(q)
    BY <1>a, <2>1
  <2> QED
    BY <1>b, <1>s, <2>1, <2>2
<1> QED
  BY <1>1, <1>2, <1>3, <1>4 DEF Next, CrashService, KillCommand, Served

-----------------------------------------------------------------------------
Grounds == TypeInv /\ HashInv /\ SerialInv

LEMMA InitGrounds == Init => Grounds
<1> SUFFICES ASSUME Init PROVE Grounds
  OBVIOUS
<1>1. TypeInv
  BY InitTypeInv
<1>2. HashInv
  BY DEF Init, HashInv, Genesis, Persisting
<1>3. Alone /\ ChainInv
  BY DEF Init, Alone, Active, Final, ChainInv
<1>4. SaveInv
  BY DEF Init, SaveInv, SaveOf, Saving
<1>5. SpendInv /\ OnceInv
  BY GuardAssumption DEF Init, SpendInv, SpendOf, OnceInv, NonceOfRequest, NoMeta, Persisting
<1>6. NameInv
  BY DEF Init, NameInv, NameOf, Named, NoSpent, Evaluated, IsJson, Persisting
<1> QED
  BY <1>1, <1>2, <1>3, <1>4, <1>5, <1>6 DEF Grounds, SerialInv

LEMMA SerialInvariance ==
    ASSUME MaxInFlight = 1
    PROVE  Spec => []Grounds
<1>1. Grounds /\ [Next]_vars => Grounds'
  <2> SUFFICES ASSUME Grounds, [Next]_vars PROVE Grounds'
    OBVIOUS
  <2> USE DEF Grounds, SerialInv
  <2>1. StageInv
    BY DEF TypeInv
  <2>2. TypeInv' /\ HashInv'
    BY NextTypeInv, NextHashInv
  <2>3. Alone'
    BY NextAlone
  <2>4. SaveInv'
    BY <2>1, NextSaveInv
  <2>5. SpendInv' /\ OnceInv'
    BY NextSpendInv, NextOnceInv
  <2>6. ChainInv' /\ NameInv'
    BY NextChainInv, NextNameInv
  <2> QED
    BY <2>2, <2>3, <2>4, <2>5, <2>6
<1> QED
  BY <1>1, InitGrounds, PTL DEF Spec

(* Served one at a time, a signed intent is answered ACCEPT at most once,  *)
(* whatever is retried and wherever the guard is killed: nonce_replayed()  *)
(* sees the nonce that record_nonce() of the earlier answer has saved.     *)
THEOREM SerialGuardAcceptsOnce ==
    ASSUME MaxInFlight = 1
    PROVE  Spec => []NonceAcceptedOnce
<1>1. Grounds => NonceAcceptedOnce
  <2> SUFFICES ASSUME Grounds, NEW n \in Nonces PROVE Cardinality(AcceptedAnswers(n)) <= 1
    BY DEF NonceAcceptedOnce
  <2>1. \A r, q \in AcceptedAnswers(n) : r = q
    BY DEF Grounds, SerialInv, OnceInv, AcceptedAnswers, Evaluated
  <2>2. CASE AcceptedAnswers(n) = {}
    BY <2>2, FS_EmptySet
  <2>3. CASE AcceptedAnswers(n) # {}
    <3>1. PICK r : AcceptedAnswers(n) = {r}
      BY <2>1, <2>3
    <3> QED
      BY <3>1, FS_Singleton
  <2> QED
    BY <2>2, <2>3
<1> QED
  BY <1>1, SerialInvariance, PTL

(* Served one at a time, verify_chain() of scripts/verify_audit_log.py     *)
(* passes on the log at every moment, after every crash.                   *)
THEOREM SerialLogIsOneChain ==
    ASSUME MaxInFlight = 1
    PROVE  Spec => []ChainIsLinear
<1>1. Grounds => ChainIsLinear
  <2> SUFFICES ASSUME Grounds, NEW i \in DOMAIN log
               PROVE  log[i].previous_hash = IF i = 1 THEN Genesis ELSE log[i - 1].hash
    BY DEF ChainIsLinear
  <2>1. DOMAIN log = 1..Len(log) /\ Len(log) \in Nat
    BY DEF Grounds, TypeInv, TypeOK
  <2>2. log[i].previous_hash = i - 1
    BY DEF Grounds, SerialInv, ChainInv
  <2>3. i # 1 => log[i - 1].hash = i - 1
    BY <2>1 DEF Grounds, HashInv
  <2> QED
    BY <2>1, <2>2, <2>3 DEF Genesis
<1> QED
  BY <1>1, SerialInvariance, PTL

(* Served one at a time, the audit_hash of an answer is the hash of its    *)
(* own record, and the decision_hash kept with a spent nonce that of the   *)
(* record that accepted it.                                                *)
THEOREM SerialHashesNameTheDecision ==
    ASSUME MaxInFlight = 1
    PROVE  Spec => []HashesNameTheDecision
<1>1. Grounds => HashesNameTheDecision
  <2> SUFFICES ASSUME Grounds PROVE HashesNameTheDecision
    OBVIOUS
  <2>1. \A i \in DOMAIN log : log[i].hash = i
    BY DEF Grounds, HashInv
  <2>2. ASSUME NEW r \in Requests, Evaluated(r), Body[r].file = "ok"
        PROVE  \E i \in RecordsOf(r) : log[i].hash = audit_hash[r]
    BY <2>1, <2>2 DEF Grounds, SerialInv, NameInv, NameOf, IsRecordOf, RecordsOf
  <2>3. ASSUME IsJson(store), NEW n \in DOMAIN store
        PROVE  \E i \in DOMAIN log : /\ log[i].hash = store[n]
                                     /\ log[i].verified /\ log[i].nonce = n
    BY <2>1, <2>3 DEF Grounds, SerialInv, NameInv, Named
  <2> QED
    BY <2>2, <2>3 DEF HashesNameTheDecision
<1> QED
  BY <1>1, SerialInvariance, PTL

-----------------------------------------------------------------------------
(* Served one at a time, the guard on its two files, with its processes    *)
(* and their crashes, does what the single-use ledger does: the rename     *)
(* spends the nonce, the answer grants, and a crash drops what is due.     *)
THEOREM SerialGuardIsSingleUse ==
    ASSUME MaxInFlight = 1
    PROVE  Spec => ImplementsSingleUse
<1> DEFINE due == {r \in Requests : pc[r] = "respond" /\ SignedAccept(r)}
           granted == {r \in Requests : pc[r] = "answered" /\ SignedAccept(r)}
           NonceIn(r) == IF Body[r].envelope = NoEnvelope THEN NoNonce ELSE Body[r].envelope.nonce
<1>1. Init => Ledger!Init
  <2> SUFFICES ASSUME Init PROVE SpentNonces = {} /\ due = {} /\ granted = {}
    BY DEF Ledger!Init, SpentNonces
  <2> QED
    BY DEF Init, SpentNonces, IsJson
<1>2. Grounds /\ [Next]_vars => [Ledger!Next]_(Ledger!vars)
  <2> SUFFICES ASSUME Grounds, [Next]_vars
               PROVE  [Ledger!Next]_(Ledger!vars)
    OBVIOUS
  <2>0. /\ pc \in [Requests -> Labels] /\ meta \in [Requests -> MetaType]
        /\ TypeInv /\ Alone /\ SaveInv /\ SpendInv
    BY DEF Grounds, SerialInv, TypeInv, TypeOK
  <2>1. \A q \in Requests : Granted(q)' => Granted(q) \/ Renames(q)
    BY <2>0, GrantedStep
  <2>2. ASSUME SpentNonces' = SpentNonces, due' = due, granted' = granted
        PROVE  [Ledger!Next]_(Ledger!vars)
    BY <2>2 DEF Ledger!vars, SpentNonces
  <2>3. ASSUME NEW r \in Requests, ~Granted(r), ~Renames(r), SpentNonces' = SpentNonces,
               \A q \in Requests : q # r => pc'[q] = pc[q] /\ meta'[q] = meta[q]
        PROVE  [Ledger!Next]_(Ledger!vars)
    <3>1. ~Granted(r)'
      BY <2>1, <2>3
    <3>2. \A q \in Requests : q # r => /\ q \in due' <=> q \in due
                                       /\ q \in granted' <=> q \in granted
      BY <2>3 DEF SignedAccept
    <3>3. due' = due /\ granted' = granted
      BY <2>3, <3>1, <3>2 DEF Granted
    <3> QED
      BY <2>2, <2>3, <3>3
  <2>4. ASSUME NEW r \in Requests, Arrive(r)
        PROVE  [Ledger!Next]_(Ledger!vars)
    <3>1. pc[r] = "new" /\ SpentNonces' = SpentNonces
      BY <2>4, ArriveFrame DEF SpentNonces, IsJson
    <3>2. \A q \in Requests : q # r => pc'[q] = pc[q] /\ meta'[q] = meta[q]
      <4>1. PICK label \in {"answered", "audit", "failed", "verify", "lookup"} :
                    pc' = [pc EXCEPT ![r] = label]
        BY <2>0, <2>4, ArriveLabel
      <4>2. \A q \in Requests : q # r => meta'[q] = meta[q]
        <5>1. CASE RejectMalformed(r)
          BY <5>1 DEF RejectMalformed, locals
        <5>2. CASE Receive(r)
          BY <2>0, <5>2, ReceiveKnows
        <5> QED
          BY <2>4, <5>1, <5>2 DEF Arrive
      <4> QED
        BY <2>0, <4>1, <4>2
    <3>3. ~Granted(r) /\ ~Renames(r)
      BY <3>1 DEF Granted, Renames, ReplaceStore
    <3> QED
      BY <2>3, <3>1, <3>2, <3>3
  <2>5. ASSUME NEW r \in Requests, Serve(r), ~Renames(r), ~Respond(r)
        PROVE  [Ledger!Next]_(Ledger!vars)
    <3>1. SpentNonces' = SpentNonces
      BY <2>0, <2>5, StoreEffect
    <3>2. pc[r] \notin {"respond", "answered"}
      BY <2>5 DEF Serve, ReplayLookup, ScanAudit, VerifyEnvelope, ReadPreviousHash, AppendAudit,
                  ReadBackHash, LoadStore, OpenTmp, WriteTmp, ReplaceStore
    <3>3. \A q \in Requests : q # r => pc'[q] = pc[q] /\ meta'[q] = meta[q]
      BY <2>0, <2>5, OthersRest
    <3> QED
      BY <2>3, <2>5, <3>1, <3>2, <3>3 DEF Granted
  <2>6. ASSUME NEW r \in Requests, Renames(r)
        PROVE  [Ledger!Next]_(Ledger!vars)
    <3>1. Serve(r) /\ pc[r] = "replace" /\ pc' = [pc EXCEPT ![r] = "respond"] /\ meta' = meta
      BY <2>0, <2>6 DEF Serve, Renames, ReplaceStore, Go, Fail, locals
    <3>2. SpentNonces' = SpentNonces \cup {meta[r].nonce}
      BY <2>0, <2>6, <3>1, StoreEffect
    <3>3. SignedAccept(r)
      BY <3>1 DEF Grounds, TypeInv, StageInv, MustPersist, Persisting, SignedAccept
    <3>4. NonceIn(r) = meta[r].nonce /\ meta[r].nonce \in Nonces \ SpentNonces
      BY <2>0, <3>1, <3>3 DEF SpendInv, SpendOf, NonceOfRequest, SignedAccept, Persisting
    <3>5. \A q \in Requests : SignedAccept(q)' = SignedAccept(q)
      BY <3>1 DEF SignedAccept
    <3>6. due' = due \cup {r} /\ granted' = granted
      BY <2>0, <3>1, <3>3, <3>5
    <3>7. Ledger!Spend(r)
      BY <3>2, <3>4, <3>6 DEF Ledger!Spend, SpentNonces
    <3> QED
      BY <3>7 DEF Ledger!Next
  <2>7. ASSUME NEW r \in Requests, Respond(r)
        PROVE  [Ledger!Next]_(Ledger!vars)
    <3>1. pc[r] = "respond" /\ pc' = [pc EXCEPT ![r] = "answered"] /\ meta' = meta
          /\ SpentNonces' = SpentNonces
      BY <2>7 DEF Respond, Go, files, locals, SpentNonces, IsJson
    <3>2. \A q \in Requests : SignedAccept(q)' = SignedAccept(q)
      BY <3>1 DEF SignedAccept
    <3>3. CASE SignedAccept(r)
      <4>1. r \in due /\ due' = due \ {r} /\ granted' = granted \cup {r}
        BY <2>0, <3>1, <3>2, <3>3
      <4>2. Ledger!Grant(r)
        BY <3>1, <4>1 DEF Ledger!Grant, SpentNonces
      <4> QED
        BY <4>2 DEF Ledger!Next
    <3>4. CASE ~SignedAccept(r)
      <4>1. due' = due /\ granted' = granted
        BY <2>0, <3>1, <3>2, <3>4
      <4> QED
        BY <2>2, <3>1, <4>1
    <3> QED
      BY <3>3, <3>4
  <2>8. ASSUME NEW victims, victims \subseteq InFlight, Kill(victims)
        PROVE  [Ledger!Next]_(Ledger!vars)
    <3>1. meta' = meta /\ SpentNonces' = SpentNonces
          /\ pc' = [r \in Requests |-> IF r \in victims THEN "failed" ELSE pc[r]]
      BY <2>8 DEF Kill, files, locals, SpentNonces, IsJson
    <3>2. \A q \in Requests : SignedAccept(q)' = SignedAccept(q)
      BY <3>1 DEF SignedAccept
    <3>3. due' = due \ victims /\ granted' = granted
      BY <2>0, <2>8, <3>1, <3>2 DEF InFlight, Active, Final
    <3>4. CASE due \cap victims = {}
      <4>1. due' = due
        BY <3>3, <3>4
      <4> QED
        BY <2>2, <3>1, <3>3, <4>1
    <3>5. CASE due \cap victims # {}
      <4>1. due' = due \ (due \cap victims) /\ due \cap victims \in SUBSET due
        BY <3>3
      <4>2. Ledger!Drop
        BY <3>1, <3>3, <3>5, <4>1 DEF Ledger!Drop, SpentNonces
      <4> QED
        BY <4>2 DEF Ledger!Next
    <3> QED
      BY <3>4, <3>5
  <2>9. CASE Tick \/ UNCHANGED vars
    <3>1. pc' = pc /\ meta' = meta /\ store' = store
      BY <2>9 DEF Tick, vars, files, locals
    <3> QED
      BY <2>2, <3>1 DEF SignedAccept, SpentNonces, IsJson
  <2> QED
    BY <2>4, <2>5, <2>6, <2>7, <2>8, <2>9
       DEF Next, CrashService, KillCommand, Served, InFlight
<1> QED
  BY <1>1, <1>2, SerialInvariance, PTL DEF Spec, ImplementsSingleUse, Ledger!Spec
=============================================================================
