-------------------------- MODULE LocalTrailProofs --------------------------
(***************************************************************************)
(* Theorems about LocalTrail for any hooks, approvers, nonces, rules and   *)
(* payloads, and any number of exports and kills.  The inductive invariant *)
(* is IInv of LocalTrailProperties.                                        *)
(***************************************************************************)
EXTENDS LocalTrailProperties, TLAPS, WellFoundedInduction

LEMMA MinIsLeast ==
    ASSUME NEW S \in SUBSET Nat, S # {}
    PROVE  Min(S) \in S /\ \A i \in S : Min(S) <= i
<1>1. \E i \in S : \A j \in S : ~ (<<j, i>> \in OpToRel(<, Nat))
  BY NatLessThanWellFounded, WFMin
<1>2. ASSUME NEW i \in S, NEW j \in S, ~ (<<j, i>> \in OpToRel(<, Nat))
      PROVE  i <= j
  BY <1>2 DEF OpToRel
<1>3. \E i \in S : \A j \in S : i <= j
  BY <1>1, <1>2
<1> QED
  BY <1>3 DEF Min

LEMMA Appended ==
    ASSUME NEW S, NEW s \in Seq(S), NEW e \in S
    PROVE  /\ Append(s, e) \in Seq(S) /\ Len(s) \in Nat
           /\ Len(Append(s, e)) = Len(s) + 1
           /\ DOMAIN s = 1 .. Len(s) /\ DOMAIN Append(s, e) = 1 .. Len(s) + 1
           /\ Append(s, e)[Len(s) + 1] = e
           /\ \A i \in DOMAIN s : Append(s, e)[i] = s[i]
  OBVIOUS

LEMMA AppendedBegins ==
    ASSUME NEW S, NEW s \in Seq(S), NEW e \in S
    PROVE  Begins(s, Append(s, e))
  BY Appended DEF Begins

LEMMA BeginsTransitively ==
    ASSUME NEW S, NEW r \in Seq(S), NEW s \in Seq(S), NEW t \in Seq(S),
           Begins(r, s), Begins(s, t)
    PROVE  Begins(r, t)
  BY DEF Begins

(* A record that breaks the chain breaks it in every log that goes on, and *)
(* no other record of that beginning does.                                 *)
LEMMA BreaksRemain ==
    ASSUME NEW S, NEW part \in Seq(S), NEW whole \in Seq(S), Begins(part, whole)
    PROVE  \A i \in 1 .. Len(part) : i \in Broken(part) <=> i \in Broken(whole)
<1> SUFFICES ASSUME NEW i \in 1 .. Len(part)
             PROVE  i \in Broken(part) <=> i \in Broken(whole)
  OBVIOUS
<1>1. /\ Len(part) \in Nat /\ Len(whole) \in Nat /\ Len(part) <= Len(whole)
      /\ DOMAIN part = 1 .. Len(part) /\ DOMAIN whole = 1 .. Len(whole)
  BY DEF Begins
<1>2. i \in DOMAIN part /\ i \in DOMAIN whole /\ part[i] = whole[i]
  BY <1>1 DEF Begins
<1>3. ASSUME i # 1 PROVE part[i - 1] = whole[i - 1]
  BY <1>1, <1>3 DEF Begins
<1>4. Expected(part, i) = Expected(whole, i)
  BY <1>3 DEF Expected
<1>5. (Linked(part, i) <=> Linked(whole, i)) /\ (Intact(part[i]) <=> Intact(whole[i]))
  BY <1>2, <1>4 DEF Linked, Intact
<1> QED
  BY <1>2, <1>5 DEF Broken

LEMMA BrokenPlaces ==
    ASSUME NEW S, NEW s \in Seq(S)
    PROVE  Broken(s) \in SUBSET Nat /\ Broken(s) \subseteq 1 .. Len(s)
  BY DEF Broken

(* A verdict on a log describes every log that begins with it.             *)
LEMMA DescriptionRemains ==
    ASSUME NEW S, NEW part \in Seq(S), NEW whole \in Seq(S), Begins(part, whole),
           NEW chain, chain.count \in Nat, Describes(chain, part)
    PROVE  Describes(chain, whole)
<1>1. /\ Len(part) \in Nat /\ Len(whole) \in Nat /\ Len(part) <= Len(whole)
      /\ chain.count <= Len(part)
  BY DEF Begins, Describes
<1>2. \A i \in 1 .. Len(part) : i \in Broken(part) <=> i \in Broken(whole)
  BY BreaksRemain
<1>3. Broken(part) \subseteq 1 .. Len(part) /\ Broken(whole) \subseteq 1 .. Len(whole)
  BY BrokenPlaces
<1>4. ASSUME chain.valid, NEW i \in Broken(whole) PROVE i > chain.count
  <2>1. i \in Nat /\ i >= 1
    BY <1>1, <1>3
  <2>2. CASE i <= Len(part)
    BY <1>1, <1>2, <1>4, <2>1, <2>2 DEF Describes
  <2>3. CASE ~(i <= Len(part))
    BY <1>1, <2>1, <2>3
  <2> QED
    BY <2>2, <2>3
<1>5. ASSUME ~chain.valid PROVE Broken(whole) # {}
  BY <1>2, <1>3, <1>5 DEF Describes
<1> QED
  BY <1>1, <1>4, <1>5 DEF Describes

LEMMA VerdictDescribes ==
    ASSUME NEW S, NEW s \in Seq(S)
    PROVE  /\ VerifyHashChain(s) \in [valid : BOOLEAN, count : Nat]
           /\ VerifyHashChain(s).valid <=> Broken(s) = {}
           /\ Describes(VerifyHashChain(s), s)
<1>1. Broken(s) \in SUBSET Nat /\ Broken(s) \subseteq 1 .. Len(s) /\ Len(s) \in Nat
  BY BrokenPlaces
<1>2. CASE Broken(s) = {}
  BY <1>1, <1>2 DEF VerifyHashChain, Describes
<1>3. CASE Broken(s) # {}
  <2>1. Min(Broken(s)) \in 1 .. Len(s)
    BY <1>1, <1>3, MinIsLeast
  <2>2. VerifyHashChain(s) = [valid |-> FALSE, count |-> Min(Broken(s)) - 1]
    BY <1>3 DEF VerifyHashChain
  <2> QED
    BY <1>1, <1>3, <2>1, <2>2 DEF Describes
<1> QED
  BY <1>2, <1>3

LEMMA RuleType ==
    ASSUME TrailAssumption, NEW command
    PROVE  FindRule(command).decision \in Decisions
<1>1. Matching(command) \in SUBSET Nat /\ Matching(command) \subseteq DOMAIN Rules
  BY DEF Matching, TrailAssumption
<1>2. CASE Matching(command) = {}
  BY <1>2 DEF FindRule, NoRule, Decisions
<1>3. CASE Matching(command) # {}
  <2>1. Min(Matching(command)) \in DOMAIN Rules
    BY <1>1, <1>3, MinIsLeast
  <2> QED
    BY <1>3, <2>1 DEF FindRule, Decisions
<1> QED
  BY <1>2, <1>3

LEMMA ExpiryOf ==
    ASSUME TrailAssumption, NEW expiry \in Expiries
    PROVE  /\ DOMAIN expiry \subseteq Scopes
           /\ \A s \in DOMAIN expiry : expiry[s] \in Int
           /\ \A s \in Scopes, t \in Int : Put(expiry, File(s, t)) \in Expiries
<1>1. PICK S \in SUBSET Scopes : expiry \in [S -> Int]
  BY DEF Expiries
<1>2. ASSUME NEW s \in Scopes, NEW t \in Int PROVE Put(expiry, File(s, t)) \in Expiries
  <2>1. Put(expiry, File(s, t)) \in [S \cup {s} -> Int]
    BY <1>1 DEF Put, File
  <2> QED
    BY <2>1 DEF Expiries
<1> QED
  BY <1>1, <1>2

LEMMA Removed ==
    ASSUME NEW S, NEW s \in Seq(S), NEW i \in 1 .. Len(s)
    PROVE  /\ RemoveAt(s, i) \in Seq(S)
           /\ Len(RemoveAt(s, i)) = Len(s) - 1
           /\ \A j \in 1 .. Len(s) - 1 :
                 RemoveAt(s, i)[j] = IF j < i THEN s[j] ELSE s[j + 1]
<1> DEFINE before == SubSeq(s, 1, i - 1)
           after == SubSeq(s, i + 1, Len(s))
<1>1. Len(s) \in Nat /\ i \in Nat /\ i >= 1 /\ i <= Len(s) /\ \A j \in 1 .. Len(s) : s[j] \in S
  OBVIOUS
<1>2. /\ before \in Seq(S) /\ Len(before) = i - 1
      /\ \A j \in 1 .. i - 1 : before[j] = s[j]
  BY <1>1
<1>3. /\ after \in Seq(S) /\ Len(after) = Len(s) - i
      /\ \A j \in 1 .. Len(s) - i : after[j] = s[i + j]
  BY <1>1
<1>4. RemoveAt(s, i) = before \o after
  BY DEF RemoveAt
<1> HIDE DEF before, after
<1>5. /\ before \o after \in Seq(S) /\ Len(before \o after) = Len(s) - 1
      /\ \A j \in 1 .. Len(s) - 1 :
            (before \o after)[j] = IF j <= i - 1 THEN before[j] ELSE after[j - (i - 1)]
  BY <1>1, <1>2, <1>3
<1>6. ASSUME NEW j \in 1 .. Len(s) - 1
      PROVE  (before \o after)[j] = IF j < i THEN s[j] ELSE s[j + 1]
  <2>1. CASE j < i
    BY <1>1, <1>2, <1>5, <2>1
  <2>2. CASE ~(j < i)
    <3>1. j - (i - 1) \in 1 .. Len(s) - i /\ i + (j - (i - 1)) = j + 1
      BY <1>1, <2>2
    <3> QED
      BY <1>1, <1>3, <1>5, <2>2, <3>1
  <2> QED
    BY <2>1, <2>2
<1> QED
  BY <1>4, <1>5, <1>6

LEMMA RecordType ==
    ASSUME written \in Nat, NEW by \in Hooks \cup {"guard"}, NEW decision \in Decisions,
           NEW nonce \in Nonces \cup {"none"}, NEW previous \in Int
    PROVE  Record(by, decision, nonce, previous) \in LogRecords
<1> DEFINE m == IF by = "guard" THEN written + 1 ELSE -3
<1>1. m \in Int /\ written + 1 \in Int
  OBVIOUS
<1>2. Record(by, decision, nonce, previous) =
         [by |-> by, decision |-> decision, nonce |-> nonce, previous |-> previous,
          material |-> m, hash |-> written + 1]
  BY DEF Record, Spaced
<1> QED
  BY <1>1, <1>2 DEF LogRecords

-----------------------------------------------------------------------------
(* Types.                                                                  *)

LEMMA TypeInit ==
    ASSUME TrailAssumption, Init
    PROVE  TypeOK
<1>1. PICK tools \in Casts : Init!(tools)
  BY DEF Init
<1>2. << >> \in Expiries
  <2>1. << >> \in [{} -> Int]
    OBVIOUS
  <2> QED
    BY <2>1 DEF Expiries
<1>3. TrailTypes
  BY <1>1 DEF TrailTypes, Cast, Genesis
<1>4. ApprovalTypes
  <2>1. approver \in [Approvers ->
           [step : {"absent", "load", "truncate", "write", "done", "raised", "killed"},
            scope : Scopes \cup {"none"}, expiry : Expiries]]
    BY <1>1, <1>2 DEF Cast
  <2>2. approvals \in [readable : BOOLEAN, expiry : Expiries]
    BY <1>1, <1>2
  <2>3. clock = 0 /\ kills = 0 /\ overlapped = FALSE /\ granted = {}
    BY <1>1
  <2>4. 0 \in 0 .. MaxClock
    BY DEF TrailAssumption
  <2>5. clock \in 0 .. MaxClock /\ kills \in Nat
    BY <2>3, <2>4
  <2>6. granted \subseteq [scope : Scopes, expires : Int] /\ overlapped \in BOOLEAN
    BY <2>3
  <2> QED
    BY <2>1, <2>2, <2>5, <2>6 DEF ApprovalTypes
<1>5. HookTypes
  <2>1. Blank \in Commands /\ "none" \in Decisions
    BY DEF Commands, Decisions
  <2> QED
    BY <1>1, <2>1, SMTT(30) DEF HookTypes, Cast
<1>6. ExportTypes
  <2>1. VerifyHashChain(<< >>) \in [valid : BOOLEAN, count : Nat]
    BY VerdictDescribes, << >> \in Seq(LogRecords)
  <2> QED
    BY <1>1, <2>1 DEF ExportTypes, TrailAssumption, NoFiles
<1> QED
  BY <1>3, <1>4, <1>5, <1>6 DEF TypeOK

LEMMA TrailTypesStep ==
    ASSUME TypeOK, [Next]_vars
    PROVE  TrailTypes'
<1> USE DEF trail, approving, exporting
<1>0. /\ TrailTypes /\ HookTypes
      /\ log \in Seq(LogRecords) /\ written \in Nat
      /\ guard \in [step : {"absent", "idle", "append", "record_nonce"},
                    nonce : Nonces \cup {"none"}, previous : Int]
      /\ \A i \in 1 .. Len(log) : log[i] \in LogRecords
  BY DEF TypeOK, TrailTypes
<1>1. CASE GuardReadsHash
  <2>1. PICK n \in Nonces \ store :
           guard' = [step |-> "append", nonce |-> n,
                     previous |-> IF log = << >> THEN Genesis ELSE Last(log).hash]
    BY <1>1 DEF GuardReadsHash
  <2>2. (IF log = << >> THEN Genesis ELSE Last(log).hash) \in Int
    <3>1. CASE log = << >>
      BY <3>1 DEF Genesis
    <3>2. CASE log # << >>
      <4>1. Len(log) \in 1 .. Len(log)
        BY <1>0, <3>2
      <4>2. log[Len(log)] \in LogRecords
        BY <1>0, <4>1
      <4> QED
        BY <3>2, <4>2 DEF LogRecords, Last
    <3> QED
      BY <3>1, <3>2
  <2>3. UNCHANGED <<log, written, store, tampered>>
    BY <1>1 DEF GuardReadsHash
  <2> QED
    BY <1>0, <2>1, <2>2, <2>3 DEF TrailTypes
<1>2. CASE GuardAppends
  <2>1. Record("guard", "ACCEPT", guard.nonce, guard.previous) \in LogRecords
    BY <1>0, RecordType DEF Decisions
  <2>2. log' \in Seq(LogRecords)
    BY <1>0, <1>2, <2>1, Appended DEF GuardAppends
  <2>3. /\ guard.step = "append" /\ guard' = [guard EXCEPT !.step = "record_nonce"]
        /\ written' = written + 1 /\ UNCHANGED <<store, tampered>>
    BY <1>2 DEF GuardAppends
  <2>4. written' \in Nat
    BY <1>0, <2>3
  <2>5. guard.nonce \in Nonces
    BY <1>0, <2>3 DEF TrailTypes
  <2>6. guard' \in [step : {"absent", "idle", "append", "record_nonce"},
                    nonce : Nonces \cup {"none"}, previous : Int] /\ guard'.nonce \in Nonces
    BY <1>0, <2>3, <2>5
  <2> QED
    BY <1>0, <2>2, <2>3, <2>4, <2>6 DEF TrailTypes
<1>3. CASE GuardRecordsNonce
  BY <1>0, <1>3 DEF GuardRecordsNonce, TrailTypes
<1>4. ASSUME NEW h \in Hooks, AppendHookRecord(h) PROVE TrailTypes'
  <2>1. hook[h].decision \in Decisions /\ NoPrevious \in Int
    BY <1>0 DEF HookTypes, NoPrevious
  <2>2. Record(h, hook[h].decision, "none", NoPrevious) \in LogRecords
    BY <1>0, <2>1, "none" \in Nonces \cup {"none"}, RecordType
  <2>3. log' \in Seq(LogRecords)
    BY <1>0, <1>4, <2>2, Appended DEF AppendHookRecord
  <2>4. UNCHANGED <<store, guard, tampered>> /\ written' \in Nat
    BY <1>0, <1>4 DEF AppendHookRecord
  <2> QED
    BY <1>0, <2>3, <2>4 DEF TrailTypes
<1>5. CASE Tamper
  <2>1. PICK i \in DOMAIN log : Tamper!2!(i)
    BY <1>5 DEF Tamper
  <2>2. i \in 1 .. Len(log) /\ log[i] \in LogRecords
    BY <1>0
  <2>3. [log[i] EXCEPT !.material = Altered] \in LogRecords
    BY <2>2 DEF LogRecords, Altered
  <2>4. [log EXCEPT ![i].material = Altered] \in Seq(LogRecords)
    BY <1>0, <2>2, <2>3
  <2>5. log' \in Seq(LogRecords)
    <3>1. RemoveAt(log, i) \in Seq(LogRecords)
      BY <1>0, <2>2, Removed
    <3> QED
      BY <2>1, <2>4, <3>1
  <2>6. tampered' \in {"no", "edited", "removed", "truncated"}
    BY <2>1
  <2> QED
    BY <1>0, <1>5, <2>5, <2>6 DEF Tamper, TrailTypes
<1>6. CASE UNCHANGED <<log, written, store, guard, tampered>>
  BY <1>0, <1>6 DEF TrailTypes
<1> QED
  BY <1>1, <1>2, <1>3, <1>4, <1>5, <1>6
  DEF Next, vars, LoadApprovals, TruncateApprovals, WriteApprovals, KillApprover, Receive,
      CheckApproval, Answer, BeginExport, LoadReplayStore, CopyAudit, CopyReplayStore,
      WriteReport, KillExporter, Tick

LEMMA ApprovalTypesStep ==
    ASSUME TrailAssumption, TypeOK, ApprovalInv, [Next]_vars
    PROVE  ApprovalTypes'
<1> USE DEF trail, approving, exporting
<1> DEFINE ApproverTypes ==
              [step : {"absent", "load", "truncate", "write", "done", "raised", "killed"},
               scope : Scopes \cup {"none"}, expiry : Expiries]
<1>0. /\ ApprovalTypes
      /\ approver \in [Approvers -> ApproverTypes]
      /\ approvals \in [readable : BOOLEAN, expiry : Expiries]
  BY DEF TypeOK, ApprovalTypes
<1>1. ASSUME NEW a \in Approvers, LoadApprovals(a) PROVE ApprovalTypes'
  <2>1. UNCHANGED <<approvals, granted, clock, kills>> /\ overlapped' \in BOOLEAN
    BY <1>0, <1>1 DEF LoadApprovals, ApprovalTypes
  <2>2. CASE approvals.readable
    <3>1. PICK s \in Scopes, ttl \in Ttls :
             approver' = [approver EXCEPT ![a] =
                 [step |-> "truncate", scope |-> s,
                  expiry |-> Put(approvals.expiry, File(s, clock + ttl))]]
      BY <1>1, <2>2 DEF LoadApprovals
    <3>2. clock + ttl \in Int /\ approvals.expiry \in Expiries
      BY <1>0 DEF ApprovalTypes, TrailAssumption
    <3>3. Put(approvals.expiry, File(s, clock + ttl)) \in Expiries
      BY <3>2, ExpiryOf
    <3>4. approver' \in [Approvers -> ApproverTypes]
      BY <1>0, <3>1, <3>3
    <3> QED
      BY <1>0, <2>1, <3>4 DEF ApprovalTypes
  <2>3. CASE ~approvals.readable
    <3>1. approver' = [approver EXCEPT ![a].step = "raised"]
      BY <1>1, <2>3 DEF LoadApprovals
    <3>2. approver' \in [Approvers -> ApproverTypes]
      BY <1>0, <3>1
    <3> QED
      BY <1>0, <2>1, <3>2 DEF ApprovalTypes
  <2> QED
    BY <2>2, <2>3
<1>2. ASSUME NEW a \in Approvers, TruncateApprovals(a) PROVE ApprovalTypes'
  <2>1. << >> \in Expiries
    <3>1. << >> \in [{} -> Int]
      OBVIOUS
    <3> QED
      BY <3>1 DEF Expiries
  <2>2. approvals' \in [readable : BOOLEAN, expiry : Expiries]
    BY <1>2, <2>1 DEF TruncateApprovals
  <2>3. approver' \in [Approvers -> ApproverTypes]
    BY <1>0, <1>2 DEF TruncateApprovals
  <2> QED
    BY <1>0, <1>2, <2>2, <2>3 DEF TruncateApprovals, ApprovalTypes
<1>3. ASSUME NEW a \in Approvers, WriteApprovals(a) PROVE ApprovalTypes'
  <2> DEFINE s == approver[a].scope
             e == approver[a].expiry
  <2>1. /\ approvals' = [readable |-> TRUE, expiry |-> e]
        /\ granted' = granted \cup {[scope |-> s, expires |-> e[s]]}
        /\ approver' = [approver EXCEPT ![a].step = "done"] /\ Busy(a)
        /\ UNCHANGED <<overlapped, clock, kills>>
    BY <1>3 DEF WriteApprovals, NewApprovals, Busy
  <2>2. e \in Expiries /\ s \in DOMAIN e
    BY <1>0, <2>1 DEF ApprovalInv
  <2>3. s \in Scopes /\ e[s] \in Int
    BY <2>2, ExpiryOf
  <2>4. approver' \in [Approvers -> ApproverTypes]
    BY <1>0, <2>1
  <2>5. approvals' \in [readable : BOOLEAN, expiry : Expiries]
    BY <2>1, <2>2
  <2>6. granted' \subseteq [scope : Scopes, expires : Int]
    BY <1>0, <2>1, <2>3 DEF ApprovalTypes
  <2> QED
    BY <1>0, <2>1, <2>4, <2>5, <2>6 DEF ApprovalTypes
<1>4. ASSUME NEW a \in Approvers, KillApprover(a) PROVE ApprovalTypes'
  <2>1. approver' \in [Approvers -> ApproverTypes]
    BY <1>0, <1>4 DEF KillApprover
  <2>2. kills' \in Nat
    BY <1>0, <1>4 DEF KillApprover, ApprovalTypes
  <2> QED
    BY <1>0, <1>4, <2>1, <2>2 DEF KillApprover, ApprovalTypes
<1>5. CASE KillExporter
  <2>1. kills' \in Nat
    BY <1>0, <1>5 DEF KillExporter, ApprovalTypes
  <2> QED
    BY <1>0, <1>5, <2>1 DEF KillExporter, ApprovalTypes
<1>6. CASE Tick
  <2>1. clock' \in 0 .. MaxClock
    BY <1>0, <1>6, TrailAssumption DEF Tick, ApprovalTypes, TrailAssumption
  <2> QED
    BY <1>0, <1>6, <2>1 DEF Tick, ApprovalTypes
<1>7. CASE UNCHANGED <<approving, clock, kills>>
  BY <1>0, <1>7 DEF ApprovalTypes
<1> QED
  BY <1>1, <1>2, <1>3, <1>4, <1>5, <1>6, <1>7
  DEF Next, vars, GuardReadsHash, GuardAppends, GuardRecordsNonce, Receive, CheckApproval,
      AppendHookRecord, Answer, BeginExport, LoadReplayStore, CopyAudit, CopyReplayStore,
      WriteReport, Tamper

LEMMA HookTypesStep ==
    ASSUME TrailAssumption, TypeOK, [Next]_vars
    PROVE  HookTypes'
<1> USE DEF trail, approving, exporting
<1> DEFINE HookRecords ==
              [step : {"absent", "start", "check", "append", "answer", "done", "raised"},
               command : Commands, mode : Modes \cup {"generic"}, decision : Decisions,
               checked : Nat, answer : Decisions \cup {"allow", "deny"}]
<1>0. hook \in [Hooks -> HookRecords] /\ clock \in Nat
  BY DEF TypeOK, HookTypes, ApprovalTypes
<1>1. ASSUME NEW h \in Hooks, Receive(h) PROVE HookTypes'
  <2>1. PICK payload \in Payloads, mode \in Modes :
           LET command == ExtractCommand(payload)
               rule    == FindRule(command)
               asks    == rule.decision = "BLOCK_UNLESS_APPROVED"
           IN  hook' = [hook EXCEPT ![h] =
                  [step |-> IF asks THEN "check" ELSE "append", command |-> command,
                   mode |-> mode, decision |-> IF asks THEN "none" ELSE rule.decision,
                   checked |-> clock, answer |-> "none"]]
    BY <1>1 DEF Receive
  <2> DEFINE command == ExtractCommand(payload)
             asks == FindRule(command).decision = "BLOCK_UNLESS_APPROVED"
             decision == IF asks THEN "none" ELSE FindRule(command).decision
             step == IF asks THEN "check" ELSE "append"
  <2>2. command \in Commands
    BY DEF Commands
  <2>3. decision \in Decisions /\ "none" \in Decisions \cup {"allow", "deny"}
    BY RuleType DEF Decisions
  <2>4. step \in {"absent", "start", "check", "append", "answer", "done", "raised"}
    OBVIOUS
  <2>5. hook' = [hook EXCEPT ![h] =
                    [step |-> step, command |-> command, mode |-> mode, decision |-> decision,
                     checked |-> clock, answer |-> "none"]]
    BY <2>1
  <2> HIDE DEF command, asks, decision, step
  <2> QED
    BY <1>0, <2>2, <2>3, <2>4, <2>5 DEF HookTypes
<1>2. ASSUME NEW h \in Hooks, CheckApproval(h) PROVE HookTypes'
  <2>1. "ALLOW" \in Decisions /\ "BLOCK" \in Decisions
    BY DEF Decisions
  <2>2. CASE approvals.readable
    <3>1. PICK decision \in {"ALLOW", "BLOCK"} :
             hook' = [hook EXCEPT ![h].step = "append", ![h].checked = clock,
                                  ![h].decision = decision]
      BY <1>2, <2>2 DEF CheckApproval
    <3>2. [hook[h] EXCEPT !.step = "append", !.checked = clock, !.decision = decision]
             \in HookRecords
      BY <1>0, <2>1, <3>1
    <3>3. hook' = [hook EXCEPT ![h] = [hook[h] EXCEPT !.step = "append", !.checked = clock,
                                                   !.decision = decision]]
      BY <1>0, <3>1
    <3> QED
      BY <1>0, <3>2, <3>3 DEF HookTypes
  <2>3. CASE ~approvals.readable
    BY <1>0, <1>2, <2>3 DEF CheckApproval, HookTypes
  <2> QED
    BY <2>2, <2>3
<1>3. ASSUME NEW h \in Hooks, AppendHookRecord(h) PROVE HookTypes'
  BY <1>0, <1>3 DEF AppendHookRecord, HookTypes
<1>4. ASSUME NEW h \in Hooks, Answer(h) PROVE HookTypes'
  <2>1. hook[h].decision \in Decisions
    BY <1>0
  <2>2. Response(hook[h].mode, hook[h].decision) \in Decisions \cup {"allow", "deny"}
    BY <2>1 DEF Response
  <2> DEFINE answer == Response(hook[h].mode, hook[h].decision)
  <2>3. hook' = [hook EXCEPT ![h].step = "done", ![h].answer = answer]
    BY <1>4 DEF Answer
  <2> HIDE DEF answer
  <2>4. [hook[h] EXCEPT !.step = "done", !.answer = answer] \in HookRecords
    BY <1>0, <2>2 DEF answer
  <2>5. hook' = [hook EXCEPT ![h] = [hook[h] EXCEPT !.step = "done", !.answer = answer]]
    BY <1>0, <2>3
  <2> QED
    BY <1>0, <2>4, <2>5 DEF HookTypes
<1>5. CASE UNCHANGED hook
  BY <1>0, <1>5 DEF HookTypes
<1> QED
  BY <1>1, <1>2, <1>3, <1>4, <1>5
  DEF Next, vars, GuardReadsHash, GuardAppends, GuardRecordsNonce, LoadApprovals,
      TruncateApprovals, WriteApprovals, KillApprover, BeginExport, LoadReplayStore,
      CopyAudit, CopyReplayStore, WriteReport, KillExporter, Tamper, Tick

LEMMA ExportTypesStep ==
    ASSUME TrailAssumption, TypeOK, [Next]_vars
    PROVE  ExportTypes'
<1> USE DEF trail, approving, exporting
<1> DEFINE Exporters ==
              [step : {"idle", "load_store", "copy_audit", "copy_store", "report"},
               chain : [valid : BOOLEAN, count : Nat], nonces : SUBSET Nonces]
<1>0. /\ ExportTypes /\ exporter \in Exporters
      /\ log \in Seq(LogRecords) /\ store \in SUBSET Nonces
  BY DEF TypeOK, ExportTypes, TrailTypes
<1>1. CASE BeginExport
  <2>1. VerifyHashChain(log) \in [valid : BOOLEAN, count : Nat]
    BY <1>0, VerdictDescribes
  <2>2. exporter' \in Exporters
    BY <1>1, <2>1 DEF BeginExport
  <2>3. exports' \in Nat
    BY <1>0, <1>1 DEF BeginExport, ExportTypes
  <2> QED
    BY <1>0, <1>1, <2>2, <2>3 DEF BeginExport, ExportTypes
<1>2. CASE LoadReplayStore
  BY <1>0, <1>2 DEF LoadReplayStore, ExportTypes
<1>3. CASE CopyAudit \/ CopyReplayStore \/ WriteReport
  <2>0. PICK name \in {"audit", "replay-store", "report"} :
           \E content : bundle' = Put(bundle, File(name, content))
    BY <1>3 DEF CopyAudit, CopyReplayStore, WriteReport
  <2>1. PICK content : bundle' = Put(bundle, File(name, content))
    BY <2>0
  <2>4. DOMAIN bundle' = DOMAIN bundle \cup {name}
    BY <2>1 DEF Put, File
  <2>2. exporter' \in Exporters
    BY <1>0, <1>3 DEF CopyAudit, CopyReplayStore, WriteReport
  <2>3. UNCHANGED <<exports, quiet>>
    BY <1>3 DEF CopyAudit, CopyReplayStore, WriteReport
  <2> QED
    BY <1>0, <2>2, <2>3, <2>4 DEF ExportTypes
<1>4. CASE KillExporter
  BY <1>0, <1>4 DEF KillExporter, ExportTypes
<1>5. CASE UNCHANGED <<exporter, exports, bundle>> /\ quiet' \in {quiet, FALSE}
  BY <1>0, <1>5 DEF ExportTypes
<1> QED
  BY <1>1, <1>2, <1>3, <1>4, <1>5
  DEF Next, vars, GuardReadsHash, GuardAppends, GuardRecordsNonce, LoadApprovals,
      TruncateApprovals, WriteApprovals, KillApprover, Receive, CheckApproval,
      AppendHookRecord, Answer, Tamper, Tick

LEMMA TypeStep ==
    ASSUME TrailAssumption, TypeOK, ApprovalInv, [Next]_vars
    PROVE  TypeOK'
  BY TrailTypesStep, ApprovalTypesStep, HookTypesStep, ExportTypesStep DEF TypeOK

-----------------------------------------------------------------------------
(* The log.                                                                *)

(* A step leaves the log alone, appends the next record or tampers with it.*)
Extends(r) ==
    /\ r \in LogRecords /\ r.hash = written + 1 /\ (r.by # "guard" => r.material < 0)
    /\ log' = Append(log, r) /\ written' = written + 1 /\ UNCHANGED tampered

LEMMA LogChanges ==
    ASSUME TypeOK, [Next]_vars
    PROVE  UNCHANGED <<log, written, tampered>> \/ (\E r : Extends(r)) \/ Tamper
<1> USE DEF trail, approving, exporting
<1>0. /\ TrailTypes /\ HookTypes /\ written \in Nat
      /\ guard.nonce \in Nonces \cup {"none"} /\ guard.previous \in Int
  BY DEF TypeOK, TrailTypes
<1>1. CASE GuardAppends
  <2> DEFINE r == Record("guard", "ACCEPT", guard.nonce, guard.previous)
  <2>1. "ACCEPT" \in Decisions /\ "guard" \in Hooks \cup {"guard"}
    BY DEF Decisions
  <2>2. r \in LogRecords
    BY <1>0, <2>1, RecordType
  <2>3. r.hash = written + 1 /\ r.by = "guard"
    BY DEF Record
  <2> QED
    BY <1>1, <2>2, <2>3 DEF GuardAppends, Extends
<1>2. ASSUME NEW h \in Hooks, AppendHookRecord(h) PROVE \E r : Extends(r)
  <2> DEFINE r == Record(h, hook[h].decision, "none", NoPrevious)
  <2>1. hook[h].decision \in Decisions /\ NoPrevious \in Int
    BY <1>0 DEF HookTypes, NoPrevious
  <2>2. h \in Hooks \cup {"guard"} /\ "none" \in Nonces \cup {"none"}
    OBVIOUS
  <2>3. r \in LogRecords
    BY <1>0, <2>1, <2>2, RecordType
  <2>4. r.hash = written + 1 /\ r.by = h /\ (h # "guard" => r.material < 0)
    BY DEF Record, Spaced
  <2> QED
    BY <1>2, <2>3, <2>4 DEF AppendHookRecord, Extends
<1> QED
  BY <1>1, <1>2
  DEF Next, vars, GuardReadsHash, GuardRecordsNonce, LoadApprovals, TruncateApprovals,
      WriteApprovals, KillApprover, Receive, CheckApproval, Answer, BeginExport,
      LoadReplayStore, CopyAudit, CopyReplayStore, WriteReport, KillExporter, Tick

LEMMA LogGrows ==
    ASSUME TypeOK, [Next]_vars, tampered' = "no"
    PROVE  tampered = "no" /\ Begins(log, log')
<1>0. log \in Seq(LogRecords)
  BY DEF TypeOK, TrailTypes
<1>1. CASE UNCHANGED <<log, written, tampered>>
  BY <1>0, <1>1 DEF Begins
<1>2. CASE \E r : Extends(r)
  BY <1>0, <1>2, AppendedBegins DEF Extends
<1>3. CASE Tamper
  BY <1>3 DEF Tamper
<1> QED
  BY <1>1, <1>2, <1>3, LogChanges

LEMMA LogStep ==
    ASSUME TypeOK, TypeOK', LogInv, [Next]_vars
    PROVE  LogInv'
<1>0. /\ log \in Seq(LogRecords) /\ log' \in Seq(LogRecords) /\ written \in Nat
      /\ \A i \in 1 .. Len(log) : log[i] \in LogRecords
      /\ DOMAIN log = 1 .. Len(log) /\ DOMAIN log' = 1 .. Len(log') /\ Len(log) \in Nat
  BY DEF TypeOK, TrailTypes
<1>a. \A r \in LogRecords : r.hash \in Int /\ r.material \in Int
  BY DEF LogRecords
<1>1. CASE UNCHANGED <<log, written, tampered>>
  BY <1>1 DEF LogInv, Broken, Linked, Expected, Intact
<1>2. CASE \E r : Extends(r)
  <2>1. PICK r : Extends(r)
    BY <1>2
  <2> DEFINE top == Len(log) + 1
  <2>2. /\ DOMAIN log' = 1 .. top /\ log'[top] = r
        /\ \A i \in DOMAIN log : log'[i] = log[i]
        /\ r.hash = written + 1 /\ written' = written + 1 /\ tampered' = tampered
    BY <1>0, <2>1, Appended DEF Extends
  <2>3. \A i \in 1 .. top : i \in DOMAIN log \/ i = top
    BY <1>0
  <2>4. \A i \in DOMAIN log : log[i].hash \in Int /\ log[i].hash > 0 /\ log[i].hash <= written
    BY <1>0, <1>a DEF LogInv, Genesis
  <2>5. ASSUME NEW i \in DOMAIN log'
        PROVE  /\ log'[i].hash > Genesis /\ log'[i].hash <= written'
               /\ \A j \in DOMAIN log' : log'[i].hash = log'[j].hash => i = j
               /\ log'[i].by # "guard" => log'[i].material < 0
    <3>1. CASE i = top
      BY <1>0, <2>1, <2>2, <2>3, <2>4, <3>1 DEF Extends, Genesis
    <3>2. CASE i \in DOMAIN log
      <4>1. log'[i].hash > 0 /\ log'[i].hash <= written' /\ log'[i].hash # written + 1
        BY <1>0, <2>2, <2>4, <3>2
      <4>2. \A j \in DOMAIN log' : log'[i].hash = log'[j].hash => i = j
        BY <2>2, <2>3, <3>2, <4>1 DEF LogInv
      <4> QED
        BY <2>2, <3>2, <4>1, <4>2 DEF LogInv, Genesis
    <3> QED
      BY <2>2, <2>3, <3>1, <3>2
  <2>6. ASSUME tampered' \in {"edited", "removed"} PROVE Broken(log') # {}
    <3>1. Broken(log) # {} /\ Broken(log) \subseteq 1 .. Len(log)
      BY <1>0, <2>2, <2>6, BrokenPlaces DEF LogInv
    <3>2. Begins(log, log')
      BY <1>0, <2>1, AppendedBegins DEF Extends
    <3> QED
      BY <1>0, <3>1, <3>2, BreaksRemain
  <2> QED
    BY <2>5, <2>6 DEF LogInv
<1>3. CASE Tamper
  <2>1. PICK i \in DOMAIN log : Tamper!2!(i)
    BY <1>3 DEF Tamper
  <2>2. UNCHANGED written /\ Broken(log) = {}
    BY <1>3 DEF Tamper
  <2>5. i \in 1 .. Len(log) /\ i \in Nat
    BY <1>0
  <2>3. CASE log' = [log EXCEPT ![i].material = Altered] /\ tampered' = "edited"
    <3>1. /\ DOMAIN log' = DOMAIN log
          /\ \A j \in DOMAIN log : log'[j].hash = log[j].hash /\ log'[j].by = log[j].by
          /\ \A j \in DOMAIN log : log'[j].material = IF j = i THEN -2 ELSE log[j].material
      BY <1>0, <2>3 DEF LogRecords, Altered
    <3>2. log'[i].hash > 0 /\ log'[i].material = -2 /\ log'[i].hash \in Int
      BY <1>0, <1>a, <2>1, <3>1 DEF LogInv, Genesis
    <3>4. ~Intact(log'[i])
      BY <3>2 DEF Intact
    <3>3. Broken(log') # {}
      BY <2>1, <3>1, <3>4 DEF Broken
    <3> QED
      BY <2>2, <3>1, <3>3 DEF LogInv
  <2>4. CASE /\ log' = RemoveAt(log, i)
             /\ tampered' = IF i = Len(log) THEN "truncated" ELSE "removed"
    <3> DEFINE Was(j) == IF j < i THEN j ELSE j + 1
    <3>1. /\ Len(log') = Len(log) - 1
          /\ \A j \in 1 .. Len(log) - 1 : log'[j] = IF j < i THEN log[j] ELSE log[j + 1]
      BY <1>0, <2>2, <2>5, <2>4, Removed
    <3>2. \A j \in DOMAIN log' : Was(j) \in DOMAIN log /\ log'[j] = log[Was(j)]
      BY <1>0, <2>2, <2>5, <3>1
    <3>3. \A j, k \in DOMAIN log' : Was(j) = Was(k) => j = k
      BY <1>0, <2>2, <2>5, <3>1
    <3>4. ASSUME i # Len(log) PROVE Broken(log') # {}
      <4>1. i \in DOMAIN log' /\ i + 1 \in DOMAIN log /\ log'[i] = log[i + 1] /\ i + 1 # 1
        BY <1>0, <2>2, <2>5, <3>1, <3>4
      <4>2. log[i + 1].previous = log[i].hash
        BY <1>0, <2>2, <2>5, <4>1 DEF Broken, Linked, Expected
      <4>3. Expected(log', i) # log[i].hash
        <5>1. CASE i = 1
          <6>1. log[i].hash > Genesis
            BY <2>1 DEF LogInv
          <6>2. log[i].hash # Genesis
            BY <1>0, <1>a, <6>1 DEF Genesis
          <6> QED
            BY <5>1, <6>2 DEF Expected
        <5>2. CASE i # 1
          <6>1. i - 1 \in DOMAIN log' /\ i - 1 \in DOMAIN log /\ i - 1 # i
                /\ log'[i - 1] = log[i - 1]
            BY <1>0, <2>2, <2>5, <3>1, <5>2
          <6> QED
            BY <2>1, <5>2, <6>1 DEF Expected, LogInv
        <5> QED
          BY <5>1, <5>2
      <4>4. ~Linked(log', i)
        BY <4>1, <4>2, <4>3 DEF Linked
      <4> QED
        BY <4>1, <4>4 DEF Broken
    <3> HIDE DEF Was
    <3> QED
      BY <2>2, <2>4, <3>2, <3>3, <3>4 DEF LogInv
  <2> QED
    BY <2>1, <2>3, <2>4
<1> QED
  BY <1>1, <1>2, <1>3, LogChanges

LEMMA NoncesRemain ==
    ASSUME NEW S, NEW part \in Seq(S), NEW whole \in Seq(S), Begins(part, whole)
    PROVE  Accepted(part) \subseteq Accepted(whole)
<1>1. \A i \in DOMAIN part : i \in DOMAIN whole /\ part[i] = whole[i]
  BY DEF Begins
<1> QED
  BY <1>1 DEF Accepted

LEMMA StoreStep ==
    ASSUME TypeOK, TypeOK', StoreInv, [Next]_vars
    PROVE  StoreInv'
<1> SUFFICES ASSUME tampered' = "no"
             PROVE  /\ store' \subseteq Accepted(log')
                    /\ guard'.step = "record_nonce" => guard'.nonce \in Accepted(log')
  BY DEF StoreInv
<1> USE DEF trail, approving, exporting
<1>0. log \in Seq(LogRecords) /\ log' \in Seq(LogRecords)
  BY DEF TypeOK, TrailTypes
<1>1. tampered = "no" /\ Begins(log, log')
  BY LogGrows
<1>2. /\ Accepted(log) \subseteq Accepted(log') /\ store \subseteq Accepted(log)
      /\ guard.step = "record_nonce" => guard.nonce \in Accepted(log)
  BY <1>0, <1>1, NoncesRemain DEF StoreInv
<1>3. CASE GuardReadsHash
  BY <1>2, <1>3 DEF GuardReadsHash
<1>4. CASE GuardAppends
  <2> DEFINE r == Record("guard", "ACCEPT", guard.nonce, guard.previous)
  <2>1. r.nonce = guard.nonce
    BY DEF Record
  <2>2. log' = Append(log, r) /\ UNCHANGED store
    BY <1>4 DEF GuardAppends
  <2>3. guard'.nonce = guard.nonce
    <3>1. guard \in [step : {"absent", "idle", "append", "record_nonce"},
                     nonce : Nonces \cup {"none"}, previous : Int]
      BY DEF TypeOK, TrailTypes
    <3> QED
      BY <1>4, <3>1 DEF GuardAppends
  <2> HIDE DEF r
  <2>4. Len(log) + 1 \in DOMAIN log' /\ log'[Len(log) + 1] = r
    BY <1>0, <2>2
  <2>5. r.nonce \in Accepted(log')
    BY <2>4 DEF Accepted
  <2> QED
    BY <1>2, <2>1, <2>2, <2>3, <2>5
<1>5. CASE GuardRecordsNonce
  <2>1. store' = store \cup {guard.nonce} /\ guard.step = "record_nonce"
    BY <1>5 DEF GuardRecordsNonce
  <2>2. guard'.step = "idle"
    <3>1. guard \in [step : {"absent", "idle", "append", "record_nonce"},
                     nonce : Nonces \cup {"none"}, previous : Int]
      BY DEF TypeOK, TrailTypes
    <3> QED
      BY <1>5, <3>1 DEF GuardRecordsNonce
  <2> QED
    BY <1>2, <2>1, <2>2
<1>6. CASE UNCHANGED <<store, guard>>
  BY <1>2, <1>6
<1> QED
  BY <1>3, <1>4, <1>5, <1>6
  DEF Next, vars, LoadApprovals, TruncateApprovals, WriteApprovals, KillApprover, Receive,
      CheckApproval, AppendHookRecord, Answer, BeginExport, LoadReplayStore, CopyAudit,
      CopyReplayStore, WriteReport, KillExporter, Tamper, Tick

-----------------------------------------------------------------------------
(* The exporter.                                                           *)

LEMMA ExportStep ==
    ASSUME TypeOK, TypeOK', ExportInv, [Next]_vars
    PROVE  ExportInv'
<1> SUFFICES ASSUME tampered' = "no" PROVE ExportInv'
  BY DEF ExportInv
<1> USE DEF trail, approving, exporting
<1>0. /\ log \in Seq(LogRecords) /\ log' \in Seq(LogRecords)
      /\ exporter.chain.count \in Nat /\ Begins(log, log')
  BY LogGrows DEF TypeOK, TrailTypes, ExportTypes
<1> DEFINE audit == bundle["audit"]
<1>1. /\ exporter.step # "idle" => Describes(exporter.chain, log)
      /\ "audit" \in DOMAIN bundle => audit \in Seq(LogRecords) /\ Begins(audit, log)
      /\ exporter.step \in {"copy_store", "report"} =>
            "audit" \in DOMAIN bundle /\ Describes(exporter.chain, audit)
      /\ "report" \in DOMAIN bundle =>
            /\ bundle["report"].chain.count \in Nat
            /\ "audit" \in DOMAIN bundle /\ Describes(bundle["report"].chain, audit)
  BY LogGrows DEF ExportInv
<1>2. exporter.step # "idle" => Describes(exporter.chain, log')
  BY <1>0, <1>1, DescriptionRemains
<1>3. "audit" \in DOMAIN bundle => Begins(audit, log')
  BY <1>0, <1>1, BeginsTransitively
<1>a. exporter \in [step : {"idle", "load_store", "copy_audit", "copy_store", "report"},
                    chain : [valid : BOOLEAN, count : Nat], nonces : SUBSET Nonces]
  BY DEF TypeOK, ExportTypes
<1>4. CASE BeginExport
  <2>1. /\ exporter' = [step |-> "load_store", chain |-> VerifyHashChain(log), nonces |-> {}]
        /\ UNCHANGED <<log, bundle>>
    BY <1>4 DEF BeginExport
  <2>2. Describes(VerifyHashChain(log), log)
    BY <1>0, VerdictDescribes
  <2> QED
    BY <1>1, <2>1, <2>2 DEF ExportInv
<1>5. CASE LoadReplayStore
  <2>1. /\ exporter.step = "load_store" /\ exporter'.step = "copy_audit"
        /\ exporter'.chain = exporter.chain /\ UNCHANGED <<log, bundle>>
    BY <1>a, <1>5 DEF LoadReplayStore
  <2> QED
    BY <1>1, <2>1 DEF ExportInv
<1>6. CASE CopyAudit
  <2>1. /\ exporter.step = "copy_audit" /\ exporter'.step = "copy_store"
        /\ exporter'.chain = exporter.chain /\ UNCHANGED log
        /\ bundle' = Put(bundle, File("audit", log))
    BY <1>a, <1>6 DEF CopyAudit
  <2>2. /\ DOMAIN bundle' = DOMAIN bundle \cup {"audit"} /\ bundle'["audit"] = log
        /\ "report" \in DOMAIN bundle => bundle'["report"] = bundle["report"]
    BY <2>1 DEF Put, File
  <2>3. Begins(log, log)
    BY <1>0 DEF Begins
  <2>4. ASSUME "report" \in DOMAIN bundle PROVE Describes(bundle["report"].chain, log)
    BY <1>0, <1>1, <2>4, DescriptionRemains
  <2> QED
    BY <1>0, <1>1, <2>1, <2>2, <2>3, <2>4 DEF ExportInv
<1>7. CASE CopyReplayStore
  <2>1. /\ exporter.step = "copy_store" /\ exporter'.step = "report"
        /\ exporter'.chain = exporter.chain /\ UNCHANGED log
        /\ bundle' = Put(bundle, File("replay-store", IF exporter.nonces # {} THEN store ELSE {}))
    BY <1>a, <1>7 DEF CopyReplayStore
  <2>2. /\ DOMAIN bundle' = DOMAIN bundle \cup {"replay-store"}
        /\ "audit" \in DOMAIN bundle => bundle'["audit"] = bundle["audit"]
        /\ "report" \in DOMAIN bundle => bundle'["report"] = bundle["report"]
    BY <2>1 DEF Put, File
  <2> QED
    BY <1>0, <1>1, <2>1, <2>2 DEF ExportInv
<1>8. CASE WriteReport
  <2>1. /\ exporter.step = "report" /\ exporter'.step = "idle" /\ UNCHANGED log
        /\ bundle' = Put(bundle, File("report", Report))
    BY <1>a, <1>8 DEF WriteReport
  <2>2. /\ DOMAIN bundle' = DOMAIN bundle \cup {"report"} /\ bundle'["report"] = Report
        /\ "audit" \in DOMAIN bundle => bundle'["audit"] = bundle["audit"]
    BY <2>1 DEF Put, File
  <2>3. Report.chain = exporter.chain
    BY DEF Report
  <2> QED
    BY <1>0, <1>1, <2>1, <2>2, <2>3 DEF ExportInv
<1>9. CASE KillExporter
  <2>1. exporter'.step = "idle" /\ UNCHANGED <<log, bundle>>
    BY <1>a, <1>9 DEF KillExporter
  <2> QED
    BY <1>1, <2>1 DEF ExportInv
<1>10. CASE UNCHANGED <<exporter, bundle>>
  BY <1>1, <1>2, <1>3, <1>10 DEF ExportInv
<1> QED
  BY <1>4, <1>5, <1>6, <1>7, <1>8, <1>9, <1>10
  DEF Next, vars, GuardReadsHash, GuardAppends, GuardRecordsNonce, LoadApprovals,
      TruncateApprovals, WriteApprovals, KillApprover, Receive, CheckApproval,
      AppendHookRecord, Answer, Tamper, Tick

(* A step of the exporter or of another process that leaves the log and    *)
(* the store alone; any other ends the quiet.                              *)
LEMMA QuietStep ==
    ASSUME TypeOK, QuietInv, [Next]_vars
    PROVE  QuietInv'
<1> SUFFICES ASSUME quiet', kills' = 0 PROVE QuietInv'
  BY DEF QuietInv
<1> USE DEF trail, approving, exporting
<1>a. /\ exporter \in [step : {"idle", "load_store", "copy_audit", "copy_store", "report"},
                       chain : [valid : BOOLEAN, count : Nat], nonces : SUBSET Nonces]
      /\ kills \in Nat /\ quiet \in BOOLEAN
  BY DEF TypeOK, ExportTypes, ApprovalTypes
<1>1. CASE BeginExport
  BY <1>1 DEF BeginExport, QuietInv
<1>2. CASE LoadReplayStore
  BY <1>a, <1>2 DEF LoadReplayStore, QuietInv
<1>3. CASE CopyAudit
  <2>1. /\ exporter.step = "copy_audit" /\ exporter'.step = "copy_store"
        /\ exporter'.chain = exporter.chain /\ exporter'.nonces = exporter.nonces
        /\ UNCHANGED <<log, store, quiet, kills>>
        /\ bundle' = Put(bundle, File("audit", log))
    BY <1>a, <1>3 DEF CopyAudit
  <2>2. "audit" \in DOMAIN bundle' /\ bundle'["audit"] = log
    BY <2>1 DEF Put, File
  <2> QED
    BY <2>1, <2>2 DEF QuietInv
<1>4. CASE CopyReplayStore
  <2>1. /\ exporter.step = "copy_store" /\ exporter'.step = "report"
        /\ exporter'.chain = exporter.chain /\ exporter'.nonces = exporter.nonces
        /\ UNCHANGED <<log, store, quiet, kills>>
        /\ bundle' = Put(bundle, File("replay-store", IF exporter.nonces # {} THEN store ELSE {}))
    BY <1>a, <1>4 DEF CopyReplayStore
  <2>2. exporter.nonces = store /\ exporter.chain = VerifyHashChain(log) /\ bundle["audit"] = log
    BY <2>1 DEF QuietInv
  <2>3. bundle'["replay-store"] = store
    BY <2>1, <2>2 DEF Put, File
  <2>4. "audit" \in DOMAIN bundle /\ "audit" \in DOMAIN bundle' /\ bundle'["audit"] = log
    <3>1. "audit" \in DOMAIN bundle
      BY <2>1 DEF QuietInv
    <3> QED
      BY <2>1, <2>2, <3>1 DEF Put, File
  <2>5. "replay-store" \in DOMAIN bundle'
    BY <2>1 DEF Put, File
  <2> QED
    BY <2>1, <2>2, <2>3, <2>4, <2>5 DEF QuietInv
<1>5. CASE WriteReport
  <2>1. /\ exporter.step = "report" /\ exporter'.step = "idle"
        /\ UNCHANGED <<log, store, quiet, kills>>
        /\ bundle' = Put(bundle, File("report", Report))
    BY <1>a, <1>5 DEF WriteReport
  <2>2. /\ exporter.nonces = store /\ exporter.chain = VerifyHashChain(log)
        /\ "audit" \in DOMAIN bundle /\ bundle["audit"] = log
        /\ "replay-store" \in DOMAIN bundle /\ bundle["replay-store"] = store
    BY <2>1 DEF QuietInv
  <2>3. /\ bundle'["audit"] = log /\ bundle'["replay-store"] = store
        /\ bundle'["report"] = Report
    BY <2>1, <2>2 DEF Put, File
  <2>4. Report = [chain |-> VerifyHashChain(log), nonces |-> Cardinality(store)]
    BY <2>2 DEF Report
  <2> QED
    BY <2>1, <2>3, <2>4 DEF QuietInv
<1>6. ASSUME kills' = kills + 1 PROVE FALSE
  BY <1>a, <1>6
<1>7. CASE UNCHANGED <<log, store, exporter, bundle, quiet, kills>>
  BY <1>7 DEF QuietInv
<1> QED
  BY <1>1, <1>2, <1>3, <1>4, <1>5, <1>6, <1>7
  DEF Next, vars, GuardReadsHash, GuardAppends, GuardRecordsNonce, LoadApprovals,
      TruncateApprovals, WriteApprovals, KillApprover, Receive, CheckApproval,
      AppendHookRecord, Answer, KillExporter, Tamper, Tick

-----------------------------------------------------------------------------
(* The hook.                                                               *)

(* What is said of a hook that keeps its command and decision stays true.  *)
LEMMA StillSaid ==
    ASSUME TypeOK, TypeOK', [Next]_vars, NEW h \in Hooks, granted \subseteq granted',
           hook'[h].command = hook[h].command, hook'[h].decision = hook[h].decision,
           hook'[h].checked = hook[h].checked
    PROVE  /\ (Asks(h) <=> Asks(h)')
           /\ Covered(h) => Covered(h)'
           /\ tampered' = "no" => tampered = "no" /\ (InLog(h) => InLog(h)')
<1>0. log \in Seq(LogRecords) /\ log' \in Seq(LogRecords)
  BY DEF TypeOK, TrailTypes
<1>1. ASSUME tampered' = "no" PROVE tampered = "no" /\ (InLog(h) => InLog(h)')
  <2>1. tampered = "no" /\ Begins(log, log')
    BY <1>1, LogGrows
  <2>2. \A i \in DOMAIN log : i \in DOMAIN log' /\ log'[i] = log[i]
    BY <1>0, <2>1 DEF Begins
  <2> QED
    BY <2>1, <2>2 DEF InLog
<1> QED
  BY <1>1 DEF Asks, Covered, FindRule, NoRule, Matching

LEMMA GrantsRemain ==
    ASSUME [Next]_vars
    PROVE  granted \subseteq granted'
  BY DEF Next, vars, trail, approving, exporting, GuardReadsHash, GuardAppends,
     GuardRecordsNonce, LoadApprovals, TruncateApprovals, WriteApprovals, KillApprover,
     Receive, CheckApproval, AppendHookRecord, Answer, BeginExport, LoadReplayStore,
     CopyAudit, CopyReplayStore, WriteReport, KillExporter, Tamper, Tick

HookSound(h) ==
    /\ hook[h].step \in {"append", "answer", "done"} /\ Asks(h) =>
          hook[h].decision \in {"ALLOW", "BLOCK"} /\ (hook[h].decision = "ALLOW" => Covered(h))
    /\ hook[h].step \in {"answer", "done"} /\ tampered = "no" => InLog(h)
    /\ hook[h].step = "done" => hook[h].answer = Response(hook[h].mode, hook[h].decision)

LEMMA HookStep ==
    ASSUME TypeOK, TypeOK', HookInv, ApprovalInv, [Next]_vars
    PROVE  HookInv'
<1> USE DEF trail, approving, exporting
<1> SUFFICES ASSUME NEW h \in Hooks PROVE HookSound(h)'
  BY DEF HookInv, HookSound
<1>0. HookSound(h)
  BY DEF HookInv, HookSound
<1>a. /\ hook \in [Hooks ->
             [step : {"absent", "start", "check", "append", "answer", "done", "raised"},
              command : Commands, mode : Modes \cup {"generic"}, decision : Decisions,
              checked : Nat, answer : Decisions \cup {"allow", "deny"}]]
      /\ log \in Seq(LogRecords) /\ granted \subseteq granted'
  BY GrantsRemain DEF TypeOK, HookTypes, TrailTypes
<1>1. CASE Receive(h)
  <2>1. PICK payload \in Payloads, mode \in Modes :
           LET command == ExtractCommand(payload)
               rule    == FindRule(command)
               asks    == rule.decision = "BLOCK_UNLESS_APPROVED"
           IN  hook' = [hook EXCEPT ![h] =
                  [step |-> IF asks THEN "check" ELSE "append", command |-> command,
                   mode |-> mode, decision |-> IF asks THEN "none" ELSE rule.decision,
                   checked |-> clock, answer |-> "none"]]
    BY <1>1 DEF Receive
  <2>2. /\ hook'[h].command = ExtractCommand(payload)
        /\ hook'[h].step =
              IF FindRule(ExtractCommand(payload)).decision = "BLOCK_UNLESS_APPROVED"
              THEN "check" ELSE "append"
    BY <1>a, <2>1
  <2>3. Asks(h)' <=> FindRule(hook'[h].command).decision = "BLOCK_UNLESS_APPROVED"
    BY DEF Asks, FindRule, NoRule, Matching
  <2>4. hook'[h].step = IF Asks(h)' THEN "check" ELSE "append"
    BY <2>2, <2>3
  <2> QED
    BY <2>4 DEF HookSound
<1>2. CASE CheckApproval(h)
  <2>1. CASE approvals.readable
    <3> DEFINE scope == FindRule(hook[h].command).scope
    <3>1. /\ hook'[h].step = "append" /\ hook'[h].command = hook[h].command
          /\ hook'[h].checked = clock
          /\ hook'[h].decision = IF ApprovalValid(scope) THEN "ALLOW" ELSE "BLOCK"
          /\ UNCHANGED <<approvals, granted, clock>>
      BY <1>a, <1>2, <2>1 DEF CheckApproval
    <3>2. ASSUME ApprovalValid(scope) PROVE Covered(h)'
      <4>1. Grant(approvals.expiry, scope) \in granted
        BY <3>2 DEF ApprovalInv, ApprovalValid
      <4>2. FindRule(hook'[h].command) = FindRule(hook[h].command)
        BY <3>1
      <4> QED
        BY <3>1, <3>2, <4>1, <4>2 DEF Covered, Grant, ApprovalValid
    <3> QED
      BY <3>1, <3>2 DEF HookSound
  <2>2. CASE ~approvals.readable
    <3>1. hook'[h].step = "raised"
      BY <1>a, <1>2, <2>2 DEF CheckApproval
    <3> QED
      BY <3>1 DEF HookSound
  <2> QED
    BY <2>1, <2>2
<1>3. CASE AppendHookRecord(h)
  <2> DEFINE r == Record(h, hook[h].decision, "none", NoPrevious)
  <2>1. /\ hook'[h].step = "answer" /\ hook'[h].command = hook[h].command
        /\ hook'[h].decision = hook[h].decision /\ hook'[h].checked = hook[h].checked
        /\ hook[h].step = "append" /\ log' = Append(log, r)
    BY <1>a, <1>3 DEF AppendHookRecord
  <2>2. Len(log) + 1 \in DOMAIN log' /\ log'[Len(log) + 1] = r
    BY <1>a, <2>1
  <2>3. r.by = h /\ r.decision = hook[h].decision
    BY DEF Record
  <2>4. InLog(h)'
    BY <2>1, <2>2, <2>3 DEF InLog
  <2>5. (Asks(h) <=> Asks(h)') /\ (Covered(h) => Covered(h)')
    BY <1>a, <2>1, StillSaid
  <2> QED
    BY <1>0, <2>1, <2>4, <2>5 DEF HookSound
<1>4. CASE Answer(h)
  <2>1. /\ hook'[h].step = "done" /\ hook'[h].command = hook[h].command
        /\ hook'[h].decision = hook[h].decision /\ hook'[h].checked = hook[h].checked
        /\ hook'[h].mode = hook[h].mode /\ hook[h].step = "answer"
        /\ hook'[h].answer = Response(hook[h].mode, hook[h].decision)
        /\ UNCHANGED <<log, tampered>>
    BY <1>a, <1>4 DEF Answer
  <2>2. /\ (Asks(h) <=> Asks(h)') /\ (Covered(h) => Covered(h)')
        /\ tampered' = "no" => tampered = "no" /\ (InLog(h) => InLog(h)')
    BY <1>a, <2>1, StillSaid
  <2> QED
    BY <1>0, <2>1, <2>2 DEF HookSound, Response
<1>5. CASE hook'[h] = hook[h]
  <2>1. /\ (Asks(h) <=> Asks(h)') /\ (Covered(h) => Covered(h)')
        /\ tampered' = "no" => tampered = "no" /\ (InLog(h) => InLog(h)')
    BY <1>a, <1>5, StillSaid
  <2> QED
    BY <1>0, <1>5, <2>1 DEF HookSound, Response
<1>6. ASSUME NEW g \in Hooks, g # h,
             Receive(g) \/ CheckApproval(g) \/ AppendHookRecord(g) \/ Answer(g)
      PROVE  hook'[h] = hook[h]
  BY <1>a, <1>6 DEF Receive, CheckApproval, AppendHookRecord, Answer
<1> QED
  BY <1>1, <1>2, <1>3, <1>4, <1>5, <1>6
  DEF Next, vars, GuardReadsHash, GuardAppends, GuardRecordsNonce, LoadApprovals,
      TruncateApprovals, WriteApprovals, KillApprover, BeginExport, LoadReplayStore,
      CopyAudit, CopyReplayStore, WriteReport, KillExporter, Tamper, Tick

-----------------------------------------------------------------------------
(* The approvals.                                                          *)

ApproverRecords ==
    [step : {"absent", "load", "truncate", "write", "done", "raised", "killed"},
     scope : Scopes \cup {"none"}, expiry : Expiries]

HoldsGrants(a) ==
    Busy(a) =>
        /\ approver[a].scope \in DOMAIN approver[a].expiry
        /\ \A s \in DOMAIN approver[a].expiry \ {approver[a].scope} :
              Grant(approver[a].expiry, s) \in granted

(* What an approval command finds in the file, and what it holds then.     *)
LEMMA Loaded ==
    ASSUME TypeOK, NEW a \in Approvers, LoadApprovals(a)
    PROVE  /\ \A b \in Approvers \ {a} : approver'[b] = approver[b]
           /\ UNCHANGED <<approvals, granted, latest, kills>>
           /\ overlapped' = (overlapped \/ \E b \in Approvers : Busy(b))
           /\ \/ approver'[a].step = "raised"
              \/ \E s \in Scopes, ttl \in Ttls :
                    /\ approver'[a].step = "truncate" /\ approver'[a].scope = s
                    /\ approver'[a].expiry = Put(approvals.expiry, File(s, clock + ttl))
<1>0. approver \in [Approvers -> ApproverRecords]
  BY DEF TypeOK, ApprovalTypes, ApproverRecords
<1>1. CASE approvals.readable
  <2>1. PICK s \in Scopes, ttl \in Ttls :
           approver' = [approver EXCEPT ![a] =
               [step |-> "truncate", scope |-> s,
                expiry |-> Put(approvals.expiry, File(s, clock + ttl))]]
    BY <1>1 DEF LoadApprovals
  <2> QED
    BY <1>0, <2>1 DEF LoadApprovals
<1>2. CASE ~approvals.readable
  <2>1. approver' = [approver EXCEPT ![a].step = "raised"]
    BY <1>2 DEF LoadApprovals
  <2> QED
    BY <1>0, <2>1 DEF LoadApprovals, ApproverRecords
<1> QED
  BY <1>1, <1>2

LEMMA ApprovalStep ==
    ASSUME TypeOK, ApprovalInv, [Next]_vars
    PROVE  ApprovalInv'
<1> USE DEF trail, approving, exporting
<1>0. /\ approver \in [Approvers -> ApproverRecords]
      /\ \A s \in DOMAIN approvals.expiry : Grant(approvals.expiry, s) \in granted
      /\ \A a \in Approvers : HoldsGrants(a)
  BY DEF TypeOK, ApprovalTypes, ApproverRecords, ApprovalInv, HoldsGrants
<1>a. ASSUME \A s \in DOMAIN approvals'.expiry : Grant(approvals'.expiry, s) \in granted',
             \A a \in Approvers : HoldsGrants(a)'
      PROVE  ApprovalInv'
  BY <1>a DEF ApprovalInv, HoldsGrants, Grant
<1>1. ASSUME NEW a \in Approvers, LoadApprovals(a) PROVE ApprovalInv'
  <2>1. UNCHANGED <<approvals, granted>>
    BY <1>1, Loaded
  <2>2. ASSUME NEW b \in Approvers \ {a} PROVE HoldsGrants(b)'
    BY <1>0, <1>1, <2>1, Loaded DEF HoldsGrants, Busy
  <2>3. HoldsGrants(a)'
    <3>1. CASE approver'[a].step = "raised"
      BY <3>1 DEF HoldsGrants, Busy
    <3>2. ASSUME NEW s \in Scopes, NEW ttl \in Ttls, approver'[a].scope = s,
                 approver'[a].expiry = Put(approvals.expiry, File(s, clock + ttl))
          PROVE  HoldsGrants(a)'
      <4> DEFINE e == approver'[a].expiry
      <4>1. /\ DOMAIN e = DOMAIN approvals.expiry \cup {s}
            /\ \A t \in DOMAIN e \ {s} :
                  t \in DOMAIN approvals.expiry /\ e[t] = approvals.expiry[t]
        BY <3>2 DEF Put, File
      <4>2. \A t \in DOMAIN e \ {s} : Grant(e, t) \in granted
        BY <1>0, <4>1 DEF Grant
      <4> QED
        BY <2>1, <3>2, <4>1, <4>2 DEF HoldsGrants
    <3> QED
      BY <1>1, <3>1, <3>2, Loaded
  <2> QED
    BY <1>0, <2>1, <2>2, <2>3, <1>a
<1>2. ASSUME NEW a \in Approvers, TruncateApprovals(a) PROVE ApprovalInv'
  <2>1. /\ approvals' = [readable |-> FALSE, expiry |-> << >>]
        /\ approver' = [approver EXCEPT ![a].step = "write"]
        /\ UNCHANGED granted /\ Busy(a)
    BY <1>2 DEF TruncateApprovals, Busy
  <2>2. DOMAIN approvals'.expiry = {}
    BY <2>1
  <2>3. \A b \in Approvers :
           /\ approver'[b].scope = approver[b].scope /\ approver'[b].expiry = approver[b].expiry
           /\ b # a => approver'[b] = approver[b]
    BY <1>0, <2>1 DEF ApproverRecords
  <2>4. \A b \in Approvers : HoldsGrants(b)'
    BY <1>0, <2>1, <2>3 DEF HoldsGrants, Busy, Grant
  <2> QED
    BY <1>0, <2>1, <2>2, <2>4, <1>a
<1>3. ASSUME NEW a \in Approvers, WriteApprovals(a) PROVE ApprovalInv'
  <2> DEFINE s == approver[a].scope
             e == approver[a].expiry
  <2>1. /\ approvals' = [readable |-> TRUE, expiry |-> e]
        /\ granted' = granted \cup {[scope |-> s, expires |-> e[s]]}
        /\ approver' = [approver EXCEPT ![a].step = "done"] /\ Busy(a)
    BY <1>3 DEF WriteApprovals, NewApprovals, Busy
  <2>2. /\ s \in DOMAIN e
        /\ \A t \in DOMAIN e \ {s} : Grant(e, t) \in granted
    BY <1>0, <2>1 DEF HoldsGrants
  <2>3. approvals'.expiry = e /\ Grant(e, s) = [scope |-> s, expires |-> e[s]]
    BY <2>1 DEF Grant
  <2>4. \A t \in DOMAIN approvals'.expiry : Grant(approvals'.expiry, t) \in granted'
    BY <2>1, <2>2, <2>3
  <2>6. approver'[a].step = "done" /\ \A b \in Approvers \ {a} : approver'[b] = approver[b]
    BY <1>0, <2>1 DEF ApproverRecords
  <2>7. \A b \in Approvers : HoldsGrants(b)'
    BY <1>0, <2>1, <2>6 DEF HoldsGrants, Busy
  <2> QED
    BY <2>4, <2>7, <1>a
<1>4. ASSUME NEW a \in Approvers, KillApprover(a) PROVE ApprovalInv'
  <2>1. /\ approver' = [approver EXCEPT ![a].step = "killed"]
        /\ UNCHANGED <<approvals, granted>>
    BY <1>4 DEF KillApprover
  <2>2. approver'[a].step = "killed" /\ \A b \in Approvers \ {a} : approver'[b] = approver[b]
    BY <1>0, <2>1 DEF ApproverRecords
  <2>3. \A b \in Approvers : HoldsGrants(b)'
    BY <1>0, <2>1, <2>2 DEF HoldsGrants, Busy
  <2> QED
    BY <1>0, <2>1, <2>3, <1>a
<1>5. CASE UNCHANGED approving
  <2>1. \A a \in Approvers : HoldsGrants(a)'
    BY <1>0, <1>5 DEF HoldsGrants, Busy
  <2> QED
    BY <1>0, <1>5, <2>1, <1>a
<1> QED
  BY <1>1, <1>2, <1>3, <1>4, <1>5
  DEF Next, vars, GuardReadsHash, GuardAppends, GuardRecordsNonce, Receive, CheckApproval,
      AppendHookRecord, Answer, BeginExport, LoadReplayStore, CopyAudit, CopyReplayStore,
      WriteReport, KillExporter, Tamper, Tick

LEMMA KeptStep ==
    ASSUME TypeOK, KeptInv, [Next]_vars
    PROVE  KeptInv'
<1> USE DEF trail, approving, exporting
<1>0. approver \in [Approvers -> ApproverRecords] /\ kills \in Nat /\ overlapped \in BOOLEAN
  BY DEF TypeOK, ApprovalTypes, ApproverRecords
<1> SUFFICES ASSUME ~overlapped', kills' = 0 PROVE KeptInv'
  BY DEF KeptInv
<1>1. ASSUME NEW a \in Approvers, LoadApprovals(a) PROVE KeptInv'
  <2>1. /\ UNCHANGED <<approvals, latest>> /\ ~overlapped /\ kills = 0
        /\ \A b \in Approvers : ~Busy(b)
        /\ \A b \in Approvers \ {a} : approver'[b] = approver[b]
    BY <1>1, Loaded
  <2>2. approvals.expiry = latest
    BY <2>1 DEF KeptInv, Busy
  <2>3. \A b \in Approvers \ {a} : ~Busy(b)'
    BY <2>1 DEF Busy
  <2>4. ASSUME NEW s \in Scopes, NEW ttl \in Ttls, approver'[a].scope = s,
               approver'[a].expiry = Put(approvals.expiry, File(s, clock + ttl))
        PROVE  approver'[a].expiry = Put(latest', Given(a)')
    <3> DEFINE e == approver'[a].expiry
    <3>1. e[s] = clock + ttl
      BY <2>4 DEF Put, File
    <3>2. Given(a)' = File(s, clock + ttl)
      BY <2>4, <3>1 DEF Given
    <3> QED
      BY <2>1, <2>2, <2>4, <3>2
  <2>5. Busy(a)' => approver'[a].expiry = Put(latest', Given(a)')
    BY <1>1, <2>4, Loaded DEF Busy
  <2> QED
    BY <2>1, <2>2, <2>3, <2>5 DEF KeptInv
<1>2. ASSUME NEW a \in Approvers, TruncateApprovals(a) PROVE KeptInv'
  <2>1. /\ approver' = [approver EXCEPT ![a].step = "write"] /\ Busy(a)
        /\ UNCHANGED <<latest, overlapped, kills>>
    BY <1>2 DEF TruncateApprovals, Busy
  <2>2. /\ approver'[a].step = "write" /\ approver'[a].expiry = approver[a].expiry
        /\ approver'[a].scope = approver[a].scope
        /\ \A b \in Approvers \ {a} : approver'[b] = approver[b]
    BY <1>0, <2>1 DEF ApproverRecords
  <2>3. \A b \in Approvers : (Busy(b)' => Busy(b)) /\ approver'[b].expiry = approver[b].expiry
    BY <2>1, <2>2 DEF Busy
  <2>4. \A b, c \in Approvers : Busy(b) /\ Busy(c) => b = c
    BY <2>1 DEF KeptInv
  <2>5. \A b \in Approvers : Given(b)' = Given(b)
    BY <2>2 DEF Given
  <2>6. \A b \in Approvers : Busy(b)' => approver'[b].expiry = Put(latest', Given(b)')
    BY <2>1, <2>3, <2>5 DEF KeptInv
  <2> QED
    BY <2>2, <2>3, <2>4, <2>6 DEF KeptInv
<1>3. ASSUME NEW a \in Approvers, WriteApprovals(a) PROVE KeptInv'
  <2>1. /\ approvals' = [readable |-> TRUE, expiry |-> approver[a].expiry]
        /\ latest' = Put(latest, Given(a))
        /\ approver' = [approver EXCEPT ![a].step = "done"] /\ Busy(a)
        /\ UNCHANGED <<overlapped, kills>>
    BY <1>3 DEF WriteApprovals, NewApprovals, Busy
  <2>2. approver'[a].step = "done" /\ \A b \in Approvers \ {a} : approver'[b] = approver[b]
    BY <1>0, <2>1 DEF ApproverRecords
  <2>3. \A b \in Approvers : ~Busy(b)'
    BY <2>1, <2>2 DEF KeptInv, Busy
  <2>4. approvals'.expiry = latest'
    BY <2>1 DEF KeptInv
  <2> QED
    BY <2>3, <2>4 DEF KeptInv
<1>4. ASSUME kills' = kills + 1 PROVE FALSE
  BY <1>0, <1>4
<1>5. CASE UNCHANGED <<approving, kills>>
  BY <1>5 DEF KeptInv, Given, Busy
<1> QED
  BY <1>1, <1>2, <1>3, <1>4, <1>5
  DEF Next, vars, GuardReadsHash, GuardAppends, GuardRecordsNonce, KillApprover, Receive,
      CheckApproval, AppendHookRecord, Answer, BeginExport, LoadReplayStore, CopyAudit,
      CopyReplayStore, WriteReport, KillExporter, Tamper, Tick

-----------------------------------------------------------------------------
(* The invariant and what follows from it.                                 *)

LEMMA Initially ==
    ASSUME TrailAssumption, Init
    PROVE  IInv
<1>0. PICK tools \in Casts : Init!(tools)
  BY DEF Init
<1>1. TypeOK
  BY TypeInit
<1>2. /\ DOMAIN log = {} /\ store = {} /\ tampered = "no" /\ granted = {} /\ latest = << >>
      /\ guard.step \in {"idle", "absent"} /\ exporter.step = "idle" /\ DOMAIN bundle = {}
      /\ approvals.expiry = << >>
  BY <1>0 DEF Cast, NoFiles
<1>3. \A a \in Approvers : ~Busy(a)
  BY <1>0 DEF Cast, Busy
<1>4. \A h \in Hooks : hook[h].step \in {"start", "absent"}
  BY <1>0 DEF Cast
<1>5. LogInv /\ StoreInv
  BY <1>2 DEF LogInv, StoreInv
<1>6. ExportInv /\ QuietInv
  BY <1>2 DEF ExportInv, QuietInv
<1>7. HookInv
  BY <1>4 DEF HookInv
<1>8. ApprovalInv /\ KeptInv
  BY <1>2, <1>3 DEF ApprovalInv, KeptInv
<1> QED
  BY <1>1, <1>5, <1>6, <1>7, <1>8 DEF IInv

LEMMA Inductive ==
    ASSUME TrailAssumption, IInv, [Next]_vars
    PROVE  IInv'
<1>1. TypeOK'
  BY TypeStep DEF IInv
<1>2. LogInv' /\ StoreInv' /\ ExportInv' /\ QuietInv'
  BY <1>1, LogStep, StoreStep, ExportStep, QuietStep DEF IInv
<1>3. HookInv' /\ ApprovalInv' /\ KeptInv'
  BY <1>1, HookStep, ApprovalStep, KeptStep DEF IInv
<1> QED
  BY <1>1, <1>2, <1>3 DEF IInv

(* The tools keep the inductive invariant, types included: however the     *)
(* processes interleave, whoever is killed and whatever is tampered with.  *)
THEOREM TrailInvariant == Spec => []IInv
<1>1. Init => IInv
  BY TrailAssumption, Initially
<1>2. IInv /\ [Next]_vars => IInv'
  BY TrailAssumption, Inductive
<1> QED
  BY <1>1, <1>2, PTL DEF Spec

(* A guarded command passes only under an approval of its scope that was   *)
(* good when it was looked up, and every answer is in the log.             *)
THEOREM PassesAreApproved == Spec => []PassesOnlyApproved
<1>1. IInv => PassesOnlyApproved
  <2> SUFFICES ASSUME IInv, NEW h \in Hooks, hook[h].step = "done"
               PROVE  /\ Asks(h) /\ hook[h].answer \in {"ALLOW", "allow"} => Covered(h)
                      /\ tampered = "no" => \E i \in DOMAIN log :
                            log[i].by = h
                            /\ Response(hook[h].mode, log[i].decision) = hook[h].answer
    BY DEF PassesOnlyApproved, Asks, Covered
  <2>1. HookSound(h)
    BY DEF IInv, HookInv, HookSound
  <2>2. ASSUME Asks(h), hook[h].answer \in {"ALLOW", "allow"} PROVE Covered(h)
    <3>1. /\ hook[h].decision \in {"ALLOW", "BLOCK"}
          /\ hook[h].answer = Response(hook[h].mode, hook[h].decision)
          /\ hook[h].decision = "ALLOW" => Covered(h)
      BY <2>1, <2>2 DEF HookSound
    <3>2. hook[h].decision # "BLOCK"
      BY <2>2, <3>1 DEF Response
    <3> QED
      BY <3>1, <3>2
  <2>3. ASSUME tampered = "no"
        PROVE  \E i \in DOMAIN log :
                  log[i].by = h /\ Response(hook[h].mode, log[i].decision) = hook[h].answer
    BY <2>1, <2>3 DEF HookSound, InLog
  <2> QED
    BY <2>2, <2>3
<1> QED
  BY <1>1, TrailInvariant, PTL

(* Unless two approval commands ran at once or one was killed, the file is *)
(* what the last command for each scope gave: nothing of another scope is  *)
(* lost, and a later lifetime replaces an earlier one, shorter or not.     *)
THEOREM ApprovalsStay == Spec => []ApprovalsAreKept
<1>1. IInv => ApprovalsAreKept
  BY DEF IInv, KeptInv, ApprovalsAreKept
<1> QED
  BY <1>1, TrailInvariant, PTL

(* The two verifiers agree, and a record edited, removed before the last   *)
(* one, or written by a tool that does not chain breaks the log for both.  *)
THEOREM ForeignRecordsShow == Spec => []ForeignRecordsBreakTheChain
<1>1. IInv => ForeignRecordsBreakTheChain
  <2> SUFFICES ASSUME IInv PROVE ForeignRecordsBreakTheChain
    OBVIOUS
  <2>0. log \in Seq(LogRecords) /\ LogInv
    BY DEF IInv, TypeOK, TrailTypes
  <2>1. VerifyHashChain(log).valid <=> Broken(log) = {}
    BY <2>0, VerdictDescribes
  <2>2. VerifyChain(log) = {} <=> Broken(log) = {}
    BY DEF VerifyChain, Broken
  <2>3. ASSUME NEW i \in DOMAIN log, log[i].by # "guard" PROVE i \in Broken(log)
    <3>1. log[i] \in LogRecords
      BY <2>0
    <3>2. log[i].hash \in Int /\ log[i].material \in Int
      BY <3>1 DEF LogRecords
    <3>3. log[i].hash > 0 /\ log[i].material < 0
      BY <2>0, <2>3 DEF LogInv, Genesis
    <3>4. ~Intact(log[i])
      BY <3>2, <3>3 DEF Intact
    <3> QED
      BY <3>4 DEF Broken
  <2> QED
    BY <2>0, <2>1, <2>2, <2>3 DEF ForeignRecordsBreakTheChain, LogInv
<1> QED
  BY <1>1, TrailInvariant, PTL

(* The report of an export is true of the log that was copied beside it,   *)
(* an earlier or a killed export included, and complete if nobody wrote.   *)
THEOREM ReportsDescribeTheCopy == Spec => []ReportDescribesTheCopy
<1>1. IInv => ReportDescribesTheCopy
  <2> SUFFICES ASSUME IInv, Exported, tampered = "no" PROVE ReportDescribesTheCopy
    BY DEF ReportDescribesTheCopy
  <2> DEFINE chain == bundle["report"].chain
             copy == bundle["audit"]
             start == SubSeq(copy, 1, chain.count)
  <2>0. /\ copy \in Seq(LogRecords) /\ chain.count \in Nat /\ Describes(chain, copy)
        /\ exporter.step = "idle" /\ "report" \in DOMAIN bundle
    BY DEF IInv, ExportInv, Exported
  <2>1. chain.count <= Len(copy) /\ Len(copy) \in Nat
    BY <2>0 DEF Describes
  <2>2. ASSUME chain.valid PROVE VerifyHashChain(start).valid
    <3>1. start \in Seq(LogRecords) /\ Len(start) = chain.count /\ Begins(start, copy)
      BY <2>0, <2>1 DEF Begins
    <3> HIDE DEF start
    <3>2. ASSUME NEW i \in Broken(start) PROVE FALSE
      <4>1. i \in 1 .. chain.count /\ i \in Nat
        BY <3>1, BrokenPlaces
      <4>2. i \in Broken(copy)
        BY <2>0, <3>1, <4>1, BreaksRemain
      <4> QED
        BY <2>0, <2>2, <4>1, <4>2 DEF Describes
    <3> QED
      BY <3>1, <3>2, VerdictDescribes
  <2>3. ASSUME ~chain.valid PROVE ~VerifyHashChain(copy).valid
    BY <2>0, <2>3, VerdictDescribes DEF Describes
  <2>4. ASSUME quiet, kills = 0
        PROVE  /\ chain = VerifyHashChain(copy)
               /\ bundle["report"].nonces = Cardinality(bundle["replay-store"])
               /\ bundle["replay-store"] \subseteq {copy[i].nonce : i \in DOMAIN copy}
    <3>1. /\ copy = log /\ bundle["replay-store"] = store
          /\ bundle["report"] = [chain |-> VerifyHashChain(log), nonces |-> Cardinality(store)]
      BY <2>0, <2>4 DEF IInv, QuietInv
    <3>2. store \subseteq Accepted(log)
      BY DEF IInv, StoreInv
    <3> QED
      BY <3>1, <3>2 DEF Accepted
  <2> HIDE DEF start
  <2> QED
    BY <2>1, <2>2, <2>3, <2>4 DEF ReportDescribesTheCopy, start
<1> QED
  BY <1>1, TrailInvariant, PTL
=============================================================================
