----------------------- MODULE GuardServiceProperties -----------------------
(***************************************************************************)
(* What the guard promises, in two groups: what holds however many         *)
(* processes share the files and wherever they crash, and what holds when  *)
(* submissions are served one at a time.                                   *)
(***************************************************************************)
EXTENDS GuardService

Labels == Final \cup {"lookup", "scan", "verify", "audit", "append", "readback",
                      "load", "open", "write", "replace", "respond"}

MetaType == [decision : Decisions \cup {"NONE"}, reason : Reasons \cup {"NONE"},
             verified : BOOLEAN, nonce : Nonces \cup {NoNonce}]

RecordType == [request : Requests, decision : Decisions, reason : Reasons,
               verified : BOOLEAN, nonce : Nonces \cup {NoNonce},
               previous_hash : Nat, hash : Nat \ {Genesis}]

(* Type invariant.                                                         *)
TypeOK ==
    /\ log \in Seq(RecordType)
    /\ IsJson(store) => IsContent(store)
    /\ IsJson(tmp) => IsContent(tmp)
    /\ clock \in 0..MaxClock
    /\ crashes \in 0..MaxCrashes
    /\ pc \in [Requests -> Labels]
    /\ meta \in [Requests -> MetaType]
    /\ prev \in [Requests -> Nat]
    /\ audit_hash \in [Requests -> Nat]
    /\ DOMAIN loaded = Requests /\ \A r \in Requests : IsContent(loaded[r])
    /\ fd \in [Requests -> {"none", "tmp", "store", "orphan"}]

Evaluated(r) == Body[r].wellformed /\ pc[r] = "answered"

RecordsOf(r) == {i \in DOMAIN log : log[i].request = r}

(* ---- Under any concurrency and any crashes ---------------------------- *)

(* Every answer is in the audit log, once, with the decision and reason    *)
(* that were answered; a submission that got no answer (crash, exception)  *)
(* has at most one record, and one that never arrived has none.            *)
AnswersAreRecorded ==
    \A r \in Requests :
        /\ Cardinality(RecordsOf(r)) <= 1
        /\ pc[r] = "new" => RecordsOf(r) = {}
        /\ Evaluated(r) => \E i \in RecordsOf(r) :
               log[i].decision = meta[r].decision /\ log[i].reason = meta[r].reason

(* The replay store never runs ahead of the audit log: each spent nonce    *)
(* has its ACCEPT record, and its decision_hash is the hash of a record.   *)
(* A store that is not JSON, as a rename of a file still being written     *)
(* leaves it, says nothing and is left out.                                *)
StoreBackedByAudit ==
    IsJson(store) =>
        \A n \in DOMAIN store :
            AcceptedInLog(n) /\ \E i \in DOMAIN log : log[i].hash = store[n]

(* No false replay: a nonce is reported as replayed only if the log holds, *)
(* before that report, an ACCEPT of the same nonce.                        *)
ReplayHasAnOriginal ==
    \A i \in DOMAIN log : log[i].reason = "INTENT_REPLAYED" =>
        \E j \in 1..(i - 1) : log[j].verified /\ log[j].nonce = log[i].nonce

(* ---- Why the first group holds: an inductive invariant ---------------- *)

Persisting == {"load", "open", "write", "replace"}
Judged     == {"audit", "append", "readback", "respond"} \cup Persisting
Unrecorded == {"new", "lookup", "scan", "verify", "audit", "append"}
Recorded   == {"readback", "respond"} \cup Persisting

(* What a process knows at each label of its program.                      *)
StageInv ==
    \A r \in Requests :
        /\ pc[r] \in Judged =>
               meta[r].decision \in Decisions /\ meta[r].reason \in Reasons
        /\ pc[r] \in Persisting => MustPersist(meta[r])

(* Every hash in circulation is the position of a record already written,  *)
(* and a record links backwards.                                           *)
HashInv ==
    /\ \A i \in DOMAIN log : log[i].hash = i /\ log[i].previous_hash \in 0..(i - 1)
    /\ \A r \in Requests : prev[r] \in 0..Len(log) /\ audit_hash[r] \in 0..Len(log)
    /\ \A r \in Requests : pc[r] = "readback" => log # << >>
    /\ \A r \in Requests : pc[r] \in Persisting => audit_hash[r] > 0

(* A content of the store, wherever a copy of it is, mentions only nonces  *)
(* with an ACCEPT record and hashes of records.                            *)
Backed(c) == \A n \in DOMAIN c : AcceptedInLog(n) /\ c[n] \in 1..Len(log)

StoreInv ==
    /\ IsJson(store) => Backed(store)
    /\ IsJson(tmp) => Backed(tmp)
    /\ \A r \in Requests : Backed(loaded[r])
    /\ \A r \in Requests : pc[r] \in {"readback"} \cup Persisting /\ MustPersist(meta[r])
           => AcceptedInLog(meta[r].nonce)

(* A process that is about to report a replay has seen the original.       *)
ReplayInv ==
    /\ \A r \in Requests : pc[r] \in Judged /\ meta[r].reason = "INTENT_REPLAYED"
           => AcceptedInLog(meta[r].nonce)
    /\ ReplayHasAnOriginal

(* A submission has no record before its append and at most one after.     *)
RecordInv ==
    /\ \A i, j \in DOMAIN log : log[i].request = log[j].request => i = j
    /\ \A r \in Requests : pc[r] \in Unrecorded => \A i \in DOMAIN log : log[i].request # r
    /\ \A r \in Requests :
           pc[r] \in Recorded \/ Evaluated(r) => \E i \in DOMAIN log : /\ log[i].request = r
                                    /\ log[i].decision = meta[r].decision
                                    /\ log[i].reason = meta[r].reason

IInv == TypeOK /\ StageInv /\ HashInv /\ StoreInv /\ ReplayInv /\ RecordInv

(* ---- One submission at a time, any crashes ---------------------------- *)

SignedAccept(r)  == meta[r].decision = "ACCEPT" /\ meta[r].verified /\ meta[r].nonce \in Nonces
AcceptedAnswers(n) == {r \in Requests : Evaluated(r) /\ SignedAccept(r) /\ meta[r].nonce = n}

(* A signed intent authorises at most one payment: the ACCEPT of a nonce   *)
(* is answered once, whatever is retried and wherever the guard crashed.   *)
NonceAcceptedOnce ==
    \A n \in Nonces : Cardinality(AcceptedAnswers(n)) <= 1

(* verify_chain() of scripts/verify_audit_log.py passes on the log.        *)
ChainIsLinear ==
    \A i \in DOMAIN log :
        log[i].previous_hash = IF i = 1 THEN Genesis ELSE log[i - 1].hash

(* The audit_hash of an answer and the decision_hash of a spent nonce name *)
(* the record of that very decision.                                       *)
HashesNameTheDecision ==
    /\ \A r \in Requests : Evaluated(r) /\ Body[r].file = "ok" =>
           \E i \in RecordsOf(r) : log[i].hash = audit_hash[r]
    /\ IsJson(store) => \A n \in DOMAIN store :
           \E i \in DOMAIN log : /\ log[i].hash = store[n]
                                 /\ log[i].verified /\ log[i].nonce = n

(* ---- Why the second group holds --------------------------------------- *)

Alone == \A r, q \in Requests : Active(r) /\ Active(q) => r = q

(* A save meets nobody: the temporary file is its own from open to rename, *)
(* and what it renames is what it loaded and its own nonce.                *)
Saving == {"open", "write", "replace"}

SaveOf(r) ==
    /\ fd[r] = IF pc[r] = "write" THEN "tmp" ELSE "none"
    /\ pc[r] = "write" => tmp = Empty
    /\ pc[r] = "replace" => tmp = NewStore(r)
    /\ pc[r] \in Saving => loaded[r] = IF IsJson(store) THEN store ELSE NoSpent
    /\ pc[r] \notin Saving \cup {"respond", "answered", "failed"} => loaded[r] = NoSpent

SaveInv == (store = Absent \/ IsJson(store)) /\ \A r \in Requests : SaveOf(r)

SpentNonces == IF IsJson(store) THEN DOMAIN store ELSE {}

(* A nonce is in the store from the rename on, and not before.             *)
NonceOfRequest(r) ==
    meta[r].nonce \in Nonces =>
        Body[r].envelope # NoEnvelope /\ meta[r].nonce = Body[r].envelope.nonce

SpendOf(r) ==
    /\ NonceOfRequest(r)
    /\ pc[r] \in {"new", "lookup", "scan", "verify"} => ~meta[r].verified
    /\ Body[r].file # "ok" => ~meta[r].verified /\ pc[r] \notin {"lookup", "scan", "verify"}
    /\ pc[r] = "scan" => store = Absent
    /\ pc[r] = "verify" /\ meta[r].nonce \in Nonces => meta[r].nonce \notin SpentNonces
    /\ pc[r] \in {"audit", "append", "readback"} \cup Persisting /\ SignedAccept(r) =>
          meta[r].nonce \notin SpentNonces
    /\ pc[r] \in {"respond", "answered"} /\ SignedAccept(r) => meta[r].nonce \in SpentNonces

SpendInv == \A r \in Requests : SpendOf(r)

OnceInv ==
    \A r, q \in Requests :
        /\ pc[r] \in {"respond", "answered"} /\ SignedAccept(r)
        /\ pc[q] \in {"respond", "answered"} /\ SignedAccept(q)
        /\ meta[r].nonce = meta[q].nonce
        => r = q

(* Between reading the last hash and appending nobody else appends.        *)
ChainInv ==
    /\ \A i \in DOMAIN log : log[i].previous_hash = i - 1
    /\ \A r \in Requests : pc[r] = "append" => prev[r] = Len(log)

(* The record that r has read back is its own.                             *)
IsRecordOf(i, r) ==
    /\ i \in DOMAIN log /\ log[i].request = r
    /\ log[i].verified = meta[r].verified /\ log[i].nonce = meta[r].nonce

Named(c) == \A n \in DOMAIN c : c[n] \in DOMAIN log /\ log[c[n]].verified /\ log[c[n]].nonce = n

NameOf(r) ==
    /\ pc[r] = "readback" => IsRecordOf(Len(log), r)
    /\ pc[r] \in Persisting => IsRecordOf(audit_hash[r], r)
    /\ (pc[r] = "respond" \/ Evaluated(r)) /\ Body[r].file = "ok" => IsRecordOf(audit_hash[r], r)
    /\ Named(loaded[r])

NameInv == (IsJson(store) => Named(store)) /\ \A r \in Requests : NameOf(r)

SerialInv == Alone /\ SaveInv /\ SpendInv /\ OnceInv /\ ChainInv /\ NameInv

(* The guard implements the single-use ledger: a nonce is spent when the   *)
(* rename of the temporary file takes effect, the acceptance is due until  *)
(* it is answered, and a crash may only drop what is due.                  *)
Ledger ==
    INSTANCE SingleUse WITH
        Claims  <- Requests,
        NonceOf <- [r \in Requests |-> IF Body[r].envelope = NoEnvelope THEN NoNonce
                                       ELSE Body[r].envelope.nonce],
        spent   <- IF IsJson(store) THEN DOMAIN store ELSE {},
        due     <- {r \in Requests : pc[r] = "respond" /\ SignedAccept(r)},
        granted <- {r \in Requests : pc[r] = "answered" /\ SignedAccept(r)}

ImplementsSingleUse == Ledger!Spec

(* ---- Liveness --------------------------------------------------------- *)

(* One at a time, every submission comes to an end, and one that decide()  *)
(* can judge ends with an answer unless a crash takes it away, one per     *)
(* crash: no step of a save trips over another, and what a crash leaves    *)
(* behind stops no later submission.                                       *)
Judgeable(r) ==
    /\ Body[r].wellformed
    /\ Body[r].envelope # NoEnvelope =>
          \A t \in 0..MaxClock :
              EnvelopeVerdict(Body[r].proposal, Body[r].envelope, t) # Raised

EveryRequestAnswered ==
    /\ <>[](\A r \in Requests : ~Active(r))
    /\ [](Cardinality({r \in Requests : Judgeable(r) /\ pc[r] = "failed"}) <= crashes)

(* ---- Claims of the documentation -------------------------------------- *)

(* "Reusing the same intent returns BLOCK / INTENT_REPLAYED, including     *)
(* after restart": the log never shows two ACCEPTs of a nonce.             *)
OneAcceptRecordPerNonce ==
    \A i, j \in DOMAIN log :
        log[i].verified /\ log[j].verified /\ log[i].nonce = log[j].nonce
            /\ log[i].nonce \in Nonces => i = j
=============================================================================
