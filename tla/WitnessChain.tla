---------------------------- MODULE WitnessChain ----------------------------
(***************************************************************************)
(* The fixtures of the compute witness (validate_compute_witness.py): each *)
(* entry joins a job manifest, a receipt and an audit entry; a receipt may *)
(* continue the work of an earlier one, and audit entries link backwards.  *)
(*                                                                         *)
(* A hash is the content it is computed from, in a sequence: << >> is none.*)
(***************************************************************************)
EXTENDS EvidenceFiles

Sha256(content) == << content >>

Decisions == {"ACCEPT", "HOLD", "REJECT", "BLOCK", "AUDIT"}
Blank == ""

(* An entry names three documents and what is expected of them.  A reason  *)
(* of None is the null of a receipt that gives none.                       *)
None == "None"

RequiredFieldsGiven(entry) == \A field \in entry.required : entry.manifest[field] # Blank

ReceiptAsExpected(entry) ==
    LET receipt == entry.receipt IN
    /\ receipt.decision \in Decisions
    /\ receipt.decision = entry.expected.decision /\ receipt.reason = entry.expected.reason
    /\ receipt.decision = "ACCEPT" => receipt.reason = None
    /\ receipt.decision \in {"REJECT", "BLOCK"} => receipt.reason \notin {Blank, None}

ReceiptIsOfManifest(entry) ==
    LET receipt == entry.receipt IN
    /\ \A field \in {"job_id", "causal_parent", "input_hash"} :
          entry.manifest[field] = receipt[field]
    /\ receipt.receipt_id # Blank
    /\ receipt.audit_hash # << >>
    /\ receipt.decision = "ACCEPT" => receipt.output_hash # Blank

(* Mutant of ContinuesParent: the output of the parent is not compared.    *)
ContinuesNamedParent(entry, accepted) ==
    entry.continues # Blank =>
        /\ entry.continues \in DOMAIN accepted
        /\ {entry.manifest.causal_parent, entry.receipt.causal_parent} = {entry.continues}

ContinuesParent(entry, accepted) ==
    entry.continues # Blank =>
        /\ entry.continues \in DOMAIN accepted
        /\ {entry.manifest.causal_parent, entry.receipt.causal_parent} = {entry.continues}
        /\ accepted[entry.continues].output_hash # Blank
        /\ {entry.manifest.input_hash, entry.receipt.input_hash}
              = {accepted[entry.continues].output_hash}

AuditIsOfReceipt(entry, seen) ==
    /\ entry.audit.audit_id # Blank
    /\ \A field \in {"receipt_id", "job_id", "decision", "reason"} :
          entry.audit[field] = entry.receipt[field]
    /\ entry.audit.previous # << >> => entry.audit.previous \in seen
    /\ entry.receipt.audit_hash = Sha256(entry.audit)

ValidateEntry(entry, done) ==
    FirstFailure(<<
       << "expected_decision", entry.expected.decision \in Decisions >>,
       << "required_fields", RequiredFieldsGiven(entry) >>,
       << "receipt", ReceiptAsExpected(entry) >>,
       << "manifest", ReceiptIsOfManifest(entry) >>,
       << "causal_parent", ContinuesParent(entry, done.accepted) >>,
       << "audit", AuditIsOfReceipt(entry, done.seen) >> >>)

(* validate_conformance_manifest().  An entry that fails as it is expected *)
(* to leaves nothing behind; one that fails otherwise, or fails to fail,   *)
(* stops the validation.                                                   *)
AfterEntry(done, entry) ==
    LET result == ValidateEntry(entry, done) IN
    IF ~done.ok \/ result # entry.expects THEN [done EXCEPT !.ok = FALSE]
    ELSE IF result # "ok" THEN done
    ELSE [ok |-> TRUE, seen |-> done.seen \cup {Sha256(entry.audit)},
          accepted |-> IF entry.receipt.decision = "ACCEPT"
                       THEN Put(done.accepted, File(entry.receipt.receipt_id, entry.receipt))
                       ELSE done.accepted]

(* What is done after the first i entries.                                 *)
Progress(entries) ==
    LET done[i \in 0 .. Len(entries)] ==
            IF i = 0 THEN [ok |-> entries # << >>, seen |-> {}, accepted |-> << >>]
            ELSE AfterEntry(done[i - 1], entries[i])
    IN  done

ValidateFixtures(entries) == Progress(entries)[Len(entries)]
=============================================================================
