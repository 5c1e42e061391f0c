----------------------------- MODULE LocalTrail -----------------------------
(***************************************************************************)
(* The files under .proofpath/ that the local tools share: the audit log,  *)
(* the replay store and the approvals.  The payment guard and the personal *)
(* agent hook (proofpath_guard.py) append to the log, which both find at   *)
(* .proofpath/audit.jsonl unless configured otherwise; the approval        *)
(* command (proofpath_approve.py) rewrites the approvals, the exporter     *)
(* (export_payment_guard_evidence.py) reads it all, and the verifiers      *)
(* judge the chain.  Each is a process of its own and none takes a lock.   *)
(*                                                                         *)
(* The payment guard is reduced to its accepted submissions, one at a      *)
(* time; GuardService models it in full.  A line is one write.  A hash is  *)
(* the number of the record it was computed from.                          *)
(***************************************************************************)
EXTENDS EvidenceFiles, Integers

CONSTANTS
    Hooks, Approvers, Nonces,
    Casts,              \* bound: the sets of tools that take part together
    Rules,              \* the rules of policy.json, in their order
    DefaultDecision,
    Payloads,           \* what the hook is given: see ExtractCommand
    Modes,              \* subset of {"generic", "claude", "codex"}
    Ttls,               \* lifetimes an approver may ask for, none or negative ones too
    MaxClock,           \* bound: ticks of the clock
    MaxExports,         \* bound: runs of the exporter
    MaxKills,           \* bound: approvers and exporters killed
    MayTamper           \* bound: the log is edited by hand at most once, if at all

Genesis == 0
NoPrevious == -1    \* a record without previous_hash
Altered == -2       \* the content of a record edited by hand
Spaced == -3        \* a record hashed in another spelling than the verifiers'

ASSUME TrailAssumption ==
    /\ Len(Rules) \in Nat /\ DOMAIN Rules = 1 .. Len(Rules)
    /\ Ttls \subseteq Int /\ MaxClock \in Nat
    /\ MaxExports \in Nat /\ MaxKills \in Nat /\ MayTamper \in BOOLEAN

VARIABLES
    log,        \* audit.jsonl
    written,    \* records written so far
    store,      \* the nonces of replay-store.json; {}: no such file
    guard,      \* the submission the payment guard is at: step, nonce, previous hash
    approvals,  \* approvals.json: whether it can be parsed, and expiry by scope
    granted,    \* history: the approvals that were written
    latest,     \* history: the expiry of the last one written, by scope
    overlapped, \* history: two approval commands ran at once
    approver,   \* approver[a]: step, and the file it is going to write
    hook,       \* hook[h]: step, payload, mode, decision, time of its check
    exporter,   \* step, and what it has read
    exports,    \* runs of the exporter left
    bundle,     \* the files of the exported bundle
    quiet,      \* history: log and store unchanged since this export began
    clock, kills,
    tampered    \* history: "no", "edited", "removed" or "truncated"

trail == <<log, written, store, guard>>
approving == <<approvals, granted, latest, overlapped, approver>>
exporting == <<exporter, exports, bundle>>
vars == <<trail, approving, hook, exporting, quiet, clock, kills, tampered>>

-----------------------------------------------------------------------------
(* The hash chain.  The material of a record is what the verifiers hash:   *)
(* its JSON without spaces, where the hook hashes it with spaces.          *)

Record(by, decision, nonce, previous) ==
    [by |-> by, decision |-> decision, nonce |-> nonce, previous |-> previous,
     material |-> IF by = "guard" THEN written + 1 ELSE Spaced, hash |-> written + 1]

Intact(r) == r.hash = r.material

Expected(records, i) == IF i = 1 THEN Genesis ELSE records[i - 1].hash

(* Mutant of Linked: only the hashes are looked at.                        *)
LinkedUnchecked(records, i) == TRUE

Linked(records, i) == records[i].previous = Expected(records, i)

Broken(records) == {i \in DOMAIN records : ~Linked(records, i) \/ ~Intact(records[i])}

(* verify_hash_chain() of the exporter stops at the first broken record.   *)
VerifyHashChain(records) ==
    IF Broken(records) = {} THEN [valid |-> TRUE, count |-> Len(records)]
    ELSE [valid |-> FALSE, count |-> Min(Broken(records)) - 1]

(* verify_chain() of verify_audit_log.py goes on and collects: the links   *)
(* and the hashes that are wrong.                                          *)
VerifyChain(records) ==
    {<< "previous_hash", i >> : i \in {j \in DOMAIN records : ~Linked(records, j)}}
    \cup {<< "hash", i >> : i \in {j \in DOMAIN records : ~Intact(records[j])}}

-----------------------------------------------------------------------------
(* The policy of the hook.                                                 *)

Blank == {}

(* A text is the set of the patterns it contains; the whole payload, as    *)
(* JSON, is the command when no field gives one.                           *)
ExtractCommand(payload) ==
    LET given == SelectSeq(payload, LAMBDA text : text # Blank)
    IN  IF given = << >> THEN Blank ELSE Head(given)

Matching(command) == {i \in DOMAIN Rules : Rules[i].patterns \cap command # {}}

NoRule == [patterns |-> {}, decision |-> DefaultDecision, scope |-> "none"]

FindRule(command) == IF Matching(command) = {} THEN NoRule ELSE Rules[Min(Matching(command))]

(* Mutant of ApprovalValid: an approval is good once it is there.          *)
ApprovalPresent(scope) == scope \in DOMAIN approvals.expiry

ApprovalValid(scope) == scope \in DOMAIN approvals.expiry /\ approvals.expiry[scope] > clock

Response(mode, decision) ==
    IF mode = "generic" THEN decision
    ELSE IF decision = "BLOCK" THEN "deny" ELSE "allow"

-----------------------------------------------------------------------------
Cast(who, tools, step) == IF who \in tools THEN step ELSE "absent"

Init == \E tools \in Casts :
    /\ log = << >> /\ written = 0 /\ store = {}
    /\ guard = [step |-> Cast("guard", tools, "idle"), nonce |-> "none", previous |-> Genesis]
    /\ approvals = [readable |-> TRUE, expiry |-> << >>]
    /\ granted = {} /\ latest = << >> /\ overlapped = FALSE
    /\ approver = [a \in Approvers |->
           [step |-> Cast(a, tools, "load"), scope |-> "none", expiry |-> << >>]]
    /\ hook = [h \in Hooks |->
           [step |-> Cast(h, tools, "start"), command |-> Blank, mode |-> "generic",
            decision |-> "none", checked |-> 0, answer |-> "none"]]
    /\ exporter = [step |-> "idle", chain |-> VerifyHashChain(<< >>), nonces |-> {}]
    /\ exports = (IF "exporter" \in tools THEN MaxExports ELSE 0)
    /\ bundle = NoFiles /\ quiet = TRUE
    /\ clock = 0 /\ kills = 0 /\ tampered = "no"

(* The payment guard accepts a nonce that is not in its store.             *)
GuardReadsHash ==
    /\ guard.step = "idle"
    /\ \E n \in Nonces \ store :
          guard' = [step |-> "append", nonce |-> n,
                    previous |-> IF log = << >> THEN Genesis ELSE Last(log).hash]
    /\ UNCHANGED <<log, written, store, approving, hook, exporting, quiet, clock, kills, tampered>>

GuardAppends ==
    /\ guard.step = "append"
    /\ log' = Append(log, Record("guard", "ACCEPT", guard.nonce, guard.previous))
    /\ written' = written + 1
    /\ guard' = [guard EXCEPT !.step = "record_nonce"]
    /\ quiet' = FALSE
    /\ UNCHANGED <<store, approving, hook, exporting, clock, kills, tampered>>

GuardRecordsNonce ==
    /\ guard.step = "record_nonce"
    /\ store' = store \cup {guard.nonce}
    /\ guard' = [guard EXCEPT !.step = "idle"]
    /\ quiet' = FALSE
    /\ UNCHANGED <<log, written, approving, hook, exporting, clock, kills, tampered>>

-----------------------------------------------------------------------------
(* proofpath_approve.py: the file is read as a whole, and truncated and    *)
(* written as a whole.                                                     *)

Scopes == {Rules[i].scope : i \in DOMAIN Rules}

Busy(a) == approver[a].step \in {"truncate", "write"}

LoadApprovals(a) ==
    /\ approver[a].step = "load"
    /\ IF approvals.readable
       THEN \E s \in Scopes, ttl \in Ttls :
              approver' = [approver EXCEPT ![a] =
                  [step |-> "truncate", scope |-> s,
                   expiry |-> Put(approvals.expiry, File(s, clock + ttl))]]
       ELSE approver' = [approver EXCEPT ![a].step = "raised"]
    /\ overlapped' = (overlapped \/ \E b \in Approvers : Busy(b))
    /\ UNCHANGED <<trail, approvals, granted, latest, hook, exporting, quiet, clock, kills, tampered>>

TruncateApprovals(a) ==
    /\ approver[a].step = "truncate"
    /\ approvals' = [readable |-> FALSE, expiry |-> << >>]
    /\ approver' = [approver EXCEPT ![a].step = "write"]
    /\ UNCHANGED <<trail, granted, latest, overlapped, hook, exporting, quiet, clock, kills, tampered>>

(* What the command of a gives: the entry of its scope.                    *)
Given(a) == File(approver[a].scope, approver[a].expiry[approver[a].scope])

(* Mutant of NewApprovals: the file is written anew.                       *)
OnlyThisApproval(a) == Given(a)

NewApprovals(a) == approver[a].expiry

WriteApprovals(a) ==
    /\ approver[a].step = "write"
    /\ approvals' = [readable |-> TRUE, expiry |-> NewApprovals(a)]
    /\ granted' = granted \cup {[scope |-> approver[a].scope,
                                 expires |-> approver[a].expiry[approver[a].scope]]}
    /\ latest' = Put(latest, Given(a))
    /\ approver' = [approver EXCEPT ![a].step = "done"]
    /\ UNCHANGED <<trail, overlapped, hook, exporting, quiet, clock, kills, tampered>>

KillApprover(a) ==
    /\ Busy(a) /\ kills < MaxKills
    /\ kills' = kills + 1
    /\ approver' = [approver EXCEPT ![a].step = "killed"]
    /\ UNCHANGED <<trail, approvals, granted, latest, overlapped, hook, exporting, quiet, clock, tampered>>

-----------------------------------------------------------------------------
(* proofpath_guard.py.                                                     *)

Receive(h) ==
    /\ hook[h].step = "start"
    /\ \E payload \in Payloads, mode \in Modes :
          LET command == ExtractCommand(payload)
              rule    == FindRule(command)
              asks    == rule.decision = "BLOCK_UNLESS_APPROVED"
          IN  hook' = [hook EXCEPT ![h] =
                 [step |-> IF asks THEN "check" ELSE "append", command |-> command, mode |-> mode,
                  decision |-> IF asks THEN "none" ELSE rule.decision, checked |-> clock,
                  answer |-> "none"]]
    /\ UNCHANGED <<trail, approving, exporting, quiet, clock, kills, tampered>>

(* approval_valid() raises on a file that is half written.                 *)
CheckApproval(h) ==
    /\ hook[h].step = "check"
    /\ IF approvals.readable
       THEN hook' = [hook EXCEPT ![h].step = "append", ![h].checked = clock,
                        ![h].decision = IF ApprovalValid(FindRule(hook[h].command).scope)
                                        THEN "ALLOW" ELSE "BLOCK"]
       ELSE hook' = [hook EXCEPT ![h].step = "raised"]
    /\ UNCHANGED <<trail, approving, exporting, quiet, clock, kills, tampered>>

AppendHookRecord(h) ==
    /\ hook[h].step = "append"
    /\ log' = Append(log, Record(h, hook[h].decision, "none", NoPrevious))
    /\ written' = written + 1
    /\ hook' = [hook EXCEPT ![h].step = "answer"]
    /\ quiet' = FALSE
    /\ UNCHANGED <<store, guard, approving, exporting, clock, kills, tampered>>

Answer(h) ==
    /\ hook[h].step = "answer"
    /\ hook' = [hook EXCEPT ![h].step = "done",
                            ![h].answer = Response(hook[h].mode, hook[h].decision)]
    /\ UNCHANGED <<trail, approving, exporting, quiet, clock, kills, tampered>>

-----------------------------------------------------------------------------
(* export_bundle(): files of an earlier export stay until overwritten.     *)

BeginExport ==
    /\ exporter.step = "idle" /\ exports > 0 /\ log # << >>
    /\ exports' = exports - 1
    /\ exporter' = [step |-> "load_store", chain |-> VerifyHashChain(log), nonces |-> {}]
    /\ quiet' = TRUE
    /\ UNCHANGED <<trail, approving, hook, bundle, clock, kills, tampered>>

LoadReplayStore ==
    /\ exporter.step = "load_store"
    /\ exporter' = [exporter EXCEPT !.step = "copy_audit", !.nonces = store]
    /\ UNCHANGED <<trail, approving, hook, exports, bundle, quiet, clock, kills, tampered>>

(* The audit log, then the configuration and the policy.                   *)
CopyAudit ==
    /\ exporter.step = "copy_audit"
    /\ bundle' = Put(bundle, File("audit", log))
    /\ exporter' = [exporter EXCEPT !.step = "copy_store"]
    /\ UNCHANGED <<trail, approving, hook, exports, quiet, clock, kills, tampered>>

(* A store that was there when it was loaded is copied as it is now.       *)
CopyReplayStore ==
    /\ exporter.step = "copy_store"
    /\ bundle' = Put(bundle, File("replay-store", IF exporter.nonces # {} THEN store ELSE {}))
    /\ exporter' = [exporter EXCEPT !.step = "report"]
    /\ UNCHANGED <<trail, approving, hook, exports, quiet, clock, kills, tampered>>

(* Mutant of Report: the file is counted, not the verified records.        *)
ReportOfFile ==
    [chain |-> [valid |-> exporter.chain.valid, count |-> Len(log)],
     nonces |-> Cardinality(exporter.nonces)]

Report == [chain |-> exporter.chain, nonces |-> Cardinality(exporter.nonces)]

WriteReport ==
    /\ exporter.step = "report"
    /\ bundle' = Put(bundle, File("report", Report))
    /\ exporter' = [exporter EXCEPT !.step = "idle"]
    /\ UNCHANGED <<trail, approving, hook, exports, quiet, clock, kills, tampered>>

KillExporter ==
    /\ exporter.step # "idle" /\ kills < MaxKills
    /\ kills' = kills + 1
    /\ exporter' = [exporter EXCEPT !.step = "idle"]
    /\ UNCHANGED <<trail, approving, hook, exports, bundle, quiet, clock, tampered>>

-----------------------------------------------------------------------------
(* Somebody edits a record of a log that verifies, or removes one.         *)
Tamper ==
    /\ log # << >> /\ Broken(log) = {} /\ tampered = "no" /\ MayTamper
    /\ \E i \in DOMAIN log :
          \/ log' = [log EXCEPT ![i].material = Altered] /\ tampered' = "edited"
          \/ log' = RemoveAt(log, i) /\ tampered' = IF i = Len(log) THEN "truncated" ELSE "removed"
    /\ quiet' = FALSE
    /\ UNCHANGED <<written, store, guard, approving, hook, exporting, clock, kills>>

Tick ==
    /\ clock < MaxClock
    /\ clock' = clock + 1
    /\ UNCHANGED <<trail, approving, hook, exporting, quiet, kills, tampered>>

Next ==
    \/ GuardReadsHash \/ GuardAppends \/ GuardRecordsNonce
    \/ \E a \in Approvers :
          LoadApprovals(a) \/ TruncateApprovals(a) \/ WriteApprovals(a) \/ KillApprover(a)
    \/ \E h \in Hooks : Receive(h) \/ CheckApproval(h) \/ AppendHookRecord(h) \/ Answer(h)
    \/ BeginExport \/ LoadReplayStore \/ CopyAudit \/ CopyReplayStore \/ WriteReport
    \/ KillExporter
    \/ Tamper \/ Tick

Spec == Init /\ [][Next]_vars
=============================================================================
