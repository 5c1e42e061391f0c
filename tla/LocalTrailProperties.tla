------------------------ MODULE LocalTrailProperties ------------------------
(***************************************************************************)
(* What the local tools promise of the files they share.                   *)
(***************************************************************************)
EXTENDS LocalTrail

Exported == exporter.step = "idle" /\ {"audit", "replay-store", "report"} \subseteq DOMAIN bundle

(* The report of an export is written from what was read before the files  *)
(* were copied, and an export that is killed leaves the report of an       *)
(* earlier one beside newer files: the report must still be true of the    *)
(* copied log, of which it describes a beginning.  If nobody wrote during  *)
(* the export, it describes all of it, and the copied store holds no nonce *)
(* the copied log has not accepted.                                        *)
ReportDescribesTheCopy ==
    Exported /\ tampered = "no" =>
    LET chain == bundle["report"].chain   copy == bundle["audit"] IN
    /\ chain.count <= Len(copy)
    /\ chain.valid => VerifyHashChain(SubSeq(copy, 1, chain.count)).valid
    /\ ~chain.valid => ~VerifyHashChain(copy).valid
    /\ quiet /\ kills = 0 =>
          /\ chain = VerifyHashChain(copy)
          /\ bundle["report"].nonces = Cardinality(bundle["replay-store"])
          /\ bundle["replay-store"] \subseteq {copy[i].nonce : i \in DOMAIN copy}

(* The two verifiers agree, and neither is content with a log in which a   *)
(* record was edited, or removed before the last one, or which a writer    *)
(* that does not chain its records has shared; records missing at the end  *)
(* go unnoticed.                                                           *)
ForeignRecordsBreakTheChain ==
    /\ VerifyHashChain(log).valid <=> VerifyChain(log) = {}
    /\ tampered \in {"edited", "removed"} => ~VerifyHashChain(log).valid
    /\ (\E i \in DOMAIN log : log[i].by # "guard") => ~VerifyHashChain(log).valid

(* A guarded command passes the hook only under an approval of its scope   *)
(* that somebody gave and that had not expired when it was looked up,      *)
(* whatever approval commands do to the file meanwhile; and every answer   *)
(* is in the log.                                                          *)
PassesOnlyApproved ==
    \A h \in Hooks : hook[h].step = "done" =>
        LET rule == FindRule(hook[h].command) IN
        /\ rule.decision = "BLOCK_UNLESS_APPROVED" /\ hook[h].answer \in {"ALLOW", "allow"}
              => \E g \in granted : g.scope = rule.scope /\ g.expires > hook[h].checked
        /\ tampered = "no" => \E i \in DOMAIN log :
              log[i].by = h /\ Response(hook[h].mode, log[i].decision) = hook[h].answer

(* Unless two commands ran at once or one was killed, the file holds for   *)
(* each scope exactly what the last command for it gave: an approval is    *)
(* not forgotten when one of another scope is given, and a later one of    *)
(* its own scope replaces it, be its lifetime shorter, none or negative.   *)
ApprovalsAreKept ==
    ~overlapped /\ kills = 0 /\ (\A a \in Approvers : approver[a].step # "write") =>
        approvals.expiry = latest
-----------------------------------------------------------------------------
(* Types.                                                                  *)

Decisions ==
    {"none", "ACCEPT", "ALLOW", "BLOCK", DefaultDecision}
    \cup {Rules[i].decision : i \in DOMAIN Rules}

LogRecords ==
    [by : Hooks \cup {"guard"}, decision : Decisions, nonce : Nonces \cup {"none"},
     previous : Int, material : Int, hash : Int]

Expiries == UNION {[S -> Int] : S \in SUBSET Scopes}

Commands == {Blank} \cup {ExtractCommand(payload) : payload \in Payloads}

TrailTypes ==
    /\ log \in Seq(LogRecords) /\ written \in Nat /\ store \subseteq Nonces
    /\ guard \in [step : {"absent", "idle", "append", "record_nonce"},
                  nonce : Nonces \cup {"none"}, previous : Int]
    /\ guard.step \in {"append", "record_nonce"} => guard.nonce \in Nonces
    /\ tampered \in {"no", "edited", "removed", "truncated"}

ApprovalTypes ==
    /\ approvals \in [readable : BOOLEAN, expiry : Expiries]
    /\ granted \subseteq [scope : Scopes, expires : Int] /\ overlapped \in BOOLEAN
    /\ approver \in [Approvers ->
           [step : {"absent", "load", "truncate", "write", "done", "raised", "killed"},
            scope : Scopes \cup {"none"}, expiry : Expiries]]
    /\ clock \in 0 .. MaxClock /\ kills \in Nat

HookTypes ==
    hook \in [Hooks ->
        [step : {"absent", "start", "check", "append", "answer", "done", "raised"},
         command : Commands, mode : Modes \cup {"generic"}, decision : Decisions,
         checked : Nat, answer : Decisions \cup {"allow", "deny"}]]

ExportTypes ==
    /\ exporter \in [step : {"idle", "load_store", "copy_audit", "copy_store", "report"},
                     chain : [valid : BOOLEAN, count : Nat], nonces : SUBSET Nonces]
    /\ exports \in Nat /\ quiet \in BOOLEAN
    /\ DOMAIN bundle \subseteq {"audit", "replay-store", "report"}

TypeOK == TrailTypes /\ ApprovalTypes /\ HookTypes /\ ExportTypes

-----------------------------------------------------------------------------
(* The inductive invariant.                                                *)

(* A record never carries the hash of another, and one a hook wrote is     *)
(* never intact.                                                           *)
LogInv ==
    /\ \A i \in DOMAIN log :
          /\ log[i].hash > Genesis /\ log[i].hash <= written
          /\ \A j \in DOMAIN log : log[i].hash = log[j].hash => i = j
          /\ log[i].by # "guard" => log[i].material < 0
    /\ tampered \in {"edited", "removed"} => Broken(log) # {}

(* The store never runs ahead of the log.                                  *)
Accepted(records) == {records[i].nonce : i \in DOMAIN records}

StoreInv ==
    tampered = "no" =>
        /\ store \subseteq Accepted(log)
        /\ guard.step = "record_nonce" => guard.nonce \in Accepted(log)

(* A verdict stays true of a log that grows.                               *)
Describes(chain, records) ==
    /\ chain.count <= Len(records)
    /\ chain.valid => \A i \in Broken(records) : i > chain.count
    /\ ~chain.valid => Broken(records) # {}

Begins(part, whole) ==
    /\ Len(part) <= Len(whole)
    /\ \A i \in DOMAIN part : part[i] = whole[i]

ExportInv ==
    tampered = "no" =>
        /\ exporter.step # "idle" => Describes(exporter.chain, log)
        /\ "audit" \in DOMAIN bundle =>
              bundle["audit"] \in Seq(LogRecords) /\ Begins(bundle["audit"], log)
        /\ exporter.step \in {"copy_store", "report"} =>
              "audit" \in DOMAIN bundle /\ Describes(exporter.chain, bundle["audit"])
        /\ "report" \in DOMAIN bundle =>
              /\ bundle["report"].chain.count \in Nat
              /\ "audit" \in DOMAIN bundle /\ Describes(bundle["report"].chain, bundle["audit"])

(* An export beside which nobody writes, and that no kill interrupts.      *)
QuietInv ==
    quiet /\ kills = 0 =>
        /\ exporter.step # "idle" => exporter.chain = VerifyHashChain(log)
        /\ exporter.step \in {"copy_audit", "copy_store", "report"} => exporter.nonces = store
        /\ exporter.step \in {"copy_store", "report"} =>
              "audit" \in DOMAIN bundle /\ bundle["audit"] = log
        /\ exporter.step = "report" =>
              "replay-store" \in DOMAIN bundle /\ bundle["replay-store"] = store
        /\ exporter.step = "idle" /\ "report" \in DOMAIN bundle =>
              /\ bundle["audit"] = log /\ bundle["replay-store"] = store
              /\ bundle["report"] = [chain |-> VerifyHashChain(log), nonces |-> Cardinality(store)]

Asks(h) == FindRule(hook[h].command).decision = "BLOCK_UNLESS_APPROVED"

Covered(h) ==
    \E g \in granted : g.scope = FindRule(hook[h].command).scope /\ g.expires > hook[h].checked

InLog(h) == \E i \in DOMAIN log : log[i].by = h /\ log[i].decision = hook[h].decision

HookInv ==
    \A h \in Hooks :
        /\ hook[h].step \in {"append", "answer", "done"} /\ Asks(h) =>
              hook[h].decision \in {"ALLOW", "BLOCK"} /\ (hook[h].decision = "ALLOW" => Covered(h))
        /\ hook[h].step \in {"answer", "done"} /\ tampered = "no" => InLog(h)
        /\ hook[h].step = "done" => hook[h].answer = Response(hook[h].mode, hook[h].decision)

(* Every entry of the file, and of the copies the approval commands hold,  *)
(* is one that was granted, but the one a command is about to grant.       *)
Grant(expiry, scope) == [scope |-> scope, expires |-> expiry[scope]]

ApprovalInv ==
    /\ \A s \in DOMAIN approvals.expiry : Grant(approvals.expiry, s) \in granted
    /\ \A a \in Approvers : Busy(a) =>
          /\ approver[a].scope \in DOMAIN approver[a].expiry
          /\ \A s \in DOMAIN approver[a].expiry \ {approver[a].scope} :
                Grant(approver[a].expiry, s) \in granted

(* Without overlap and kill, the file is the latest approvals, and so is,  *)
(* with its own added, what the one command that is writing it holds.      *)
KeptInv ==
    ~overlapped /\ kills = 0 =>
        /\ \A a, b \in Approvers : Busy(a) /\ Busy(b) => a = b
        /\ (\A a \in Approvers : approver[a].step # "write") => approvals.expiry = latest
        /\ \A a \in Approvers : Busy(a) => approver[a].expiry = Put(latest, Given(a))

IInv ==
    /\ TypeOK /\ LogInv /\ StoreInv /\ ExportInv /\ QuietInv
    /\ HookInv /\ ApprovalInv /\ KeptInv
=============================================================================
