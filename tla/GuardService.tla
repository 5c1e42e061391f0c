---------------------------- MODULE GuardService ----------------------------
(***************************************************************************)
(* The Agent Payment Guard as its processes run it: the HTTP service       *)
(* (payment_guard_service.py, a ThreadingHTTPServer with one thread per    *)
(* request) and the command line (payment_guard.py main), which share two  *)
(* files and no lock:                                                      *)
(*   log    audit.jsonl, the hash-chained decisions, opened for append;    *)
(*   store  replay-store.json, the spent nonces, replaced as a whole       *)
(*          through the temporary file replay-store.json.tmp (tmp).        *)
(*                                                                         *)
(* One process per request.  Its steps are the accesses to shared files,   *)
(* in the order of do_POST; computation between two accesses is merged     *)
(* into the step it follows.  A request identifier is submitted once; a    *)
(* retry or a duplicate is another identifier with the same body.          *)
(*                                                                         *)
(* A record's hash is modelled as a fresh number: compute_record_hash is   *)
(* taken to be injective and no two records to have all fields equal.      *)
(***************************************************************************)
EXTENDS PaymentDecision, FiniteSets

CONSTANTS
    Requests,        \* identifiers of submissions
    Body,            \* Body[r]: what submission r says
    Policy,          \* payment_policy.json, loaded once
    ConfigStrict,    \* require_signed_intent of the configuration
    Nonces,          \* nonces of signed envelopes
    Absent,          \* a file that does not exist
    Empty,           \* a file just truncated by open("w")
    Torn,            \* a file whose text is not JSON
    MaxInFlight,     \* bound: submissions being served at once
    MaxCrashes,      \* bound: crashes of the service or of a command line
    MaxClock         \* bound: last value of the clock

UnreadableEnvelope == {"missing", "malformed"}

ASSUME GuardAssumption ==
    /\ IsFiniteSet(Requests)
    /\ MaxInFlight \in Nat /\ MaxCrashes \in Nat /\ MaxClock \in Nat
    /\ ConfigStrict \in BOOLEAN
    /\ NoNonce \notin Nonces
    /\ \A S \in SUBSET Nonces, text \in {Absent, Empty, Torn} : text \notin [S -> Nat]
    /\ DOMAIN Body = Requests
    /\ \A r \in Requests :
          /\ Body[r].via \in {"http", "cli"}
          /\ Body[r].wellformed \in BOOLEAN
          /\ Body[r].file \in {"ok"} \cup UnreadableEnvelope
          /\ Body[r].envelope # NoEnvelope
                => Body[r].envelope.nonce \in Nonces \cup {NoNonce}

VARIABLES
    log,         \* audit.jsonl
    store,       \* replay-store.json
    tmp,         \* replay-store.json.tmp
    clock,       \* what datetime.now() returns
    crashes,     \* crashes so far
    pc,          \* pc[r]: where the process of r is
    meta,        \* meta[r]: decision, reason and intent_meta computed so far
    prev,        \* prev[r]: previous_hash read by append_audit
    audit_hash,  \* audit_hash[r]: last hash read back after the append
    loaded,      \* loaded[r]: the store as record_nonce loaded it
    fd           \* fd[r]: the name of the file behind r's open tmp handle

files  == <<store, tmp>>
locals == <<meta, prev, audit_hash, loaded>>
vars   == <<log, files, clock, crashes, pc, locals, fd>>

-----------------------------------------------------------------------------
Genesis == 0

(* Mutant of LastHash: the first line instead of the last.                 *)
LastHashFirstLine == IF log = << >> THEN Genesis ELSE log[1].hash

(* The hash of the last record: get_previous_hash().                       *)
LastHash == IF log = << >> THEN Genesis ELSE log[Len(log)].hash

(* Contents of the store: a function from spent nonces to decision_hash.   *)
NoSpent      == [n \in {} |-> Genesis]
IsContent(c) == \E S \in SUBSET Nonces : c \in [S -> Nat]
IsJson(c)    == c \notin {Absent, Empty, Torn}

NoMeta == [decision |-> "NONE", reason |-> "NONE", verified |-> FALSE, nonce |-> NoNonce]
Meta(v, verified, nonce) ==
    [decision |-> v.decision, reason |-> v.reason, verified |-> verified, nonce |-> nonce]

Final     == {"new", "answered", "failed"}
Active(r) == pc[r] \notin Final
InFlight  == {r \in Requests : Active(r)}

(* do_POST: enforce asks for a signed intent whatever the configuration;   *)
(* the command line asks for one with --require-intent-envelope.           *)
Strict(r) == IF Body[r].via = "cli" THEN Body[r].require
             ELSE ConfigStrict \/ Body[r].mode = "enforce"

(* Mutant of MustPersist: the test of intent_verified is inverted.         *)
MustPersistUnverified(m) == m.decision = "ACCEPT" /\ ~m.verified /\ m.nonce \in Nonces

(* persist_accepted_nonce_if_needed(): which outcomes spend a nonce.       *)
MustPersist(m) == m.decision = "ACCEPT" /\ m.verified /\ m.nonce \in Nonces

(* Writing text over the text another handle wrote in the same file: the   *)
(* writer starts at offset 0, so what remains of a longer old text makes   *)
(* the result unparseable.                                                 *)
Overwrite(old, new) == IF old \in {Empty, new} THEN {new} ELSE {new, Torn}

-----------------------------------------------------------------------------
Init ==
    /\ log = << >>
    /\ store = Absent
    /\ tmp = Absent
    /\ clock = 0
    /\ crashes = 0
    /\ pc = [r \in Requests |-> "new"]
    /\ meta = [r \in Requests |-> NoMeta]
    /\ prev = [r \in Requests |-> Genesis]
    /\ audit_hash = [r \in Requests |-> Genesis]
    /\ loaded = [r \in Requests |-> NoSpent]
    /\ fd = [r \in Requests |-> "none"]

Go(r, label)  == pc' = [pc EXCEPT ![r] = label]

(* An exception leaves the handler: the thread (or command) ends, its file *)
(* handle is closed, the client gets no answer.                            *)
Fail(r) == Go(r, "failed") /\ fd' = [fd EXCEPT ![r] = "none"]

(* A body that fails the checks of do_POST is answered 400 straight away.  *)
RejectMalformed(r) ==
    /\ pc[r] = "new"
    /\ ~Body[r].wellformed
    /\ Go(r, "answered")
    /\ UNCHANGED <<log, files, clock, crashes, locals, fd>>

(* The request arrives and decide() runs to the replay lookup.  The        *)
(* command line settles an unreadable envelope file before decide().       *)
Receive(r) ==
    /\ pc[r] = "new"
    /\ Body[r].wellformed
    /\ Cardinality(InFlight) < MaxInFlight
    /\ LET body  == Body[r]
           first == PolicyVerdict(body.proposal, Policy, body.envelope, Strict(r))
       IN  \/ /\ body.file \in UnreadableEnvelope
              /\ Go(r, "audit")
              /\ meta' = [meta EXCEPT ![r] =
                    Meta(Block(IF body.file = "missing" THEN "MISSING_INTENT_ENVELOPE"
                                                        ELSE "INVALID_INTENT_SIGNATURE"),
                         FALSE, NoNonce)]
           \/ /\ body.file = "ok"
              /\ first.decision \in Decisions
              /\ Go(r, "audit")
              /\ meta' = [meta EXCEPT ![r] = Meta(first, FALSE, NoNonce)]
           \/ /\ body.file = "ok"
              /\ first.decision = "RAISED"
              /\ Go(r, "failed")
              /\ UNCHANGED meta
           \/ /\ body.file = "ok"
              /\ first.decision = "UNDECIDED"
              /\ Go(r, IF body.envelope.nonce = NoNonce THEN "verify" ELSE "lookup")
              /\ meta' = [meta EXCEPT ![r].nonce = body.envelope.nonce]
    /\ UNCHANGED <<log, files, clock, crashes, prev, audit_hash, loaded, fd>>

Replayed(r) ==
    /\ Go(r, "audit")
    /\ meta' = [meta EXCEPT ![r] = Meta(Block("INTENT_REPLAYED"), FALSE, meta[r].nonce)]
    /\ UNCHANGED fd

NotReplayed(r) == Go(r, "verify") /\ UNCHANGED <<meta, fd>>

(* nonce_replayed(): the store decides alone once the file exists; a file  *)
(* that is not JSON raises.                                                *)
ReplayLookup(r) ==
    /\ pc[r] = "lookup"
    /\ \/ store = Absent /\ Go(r, "scan") /\ UNCHANGED <<meta, fd>>
       \/ store \in {Empty, Torn} /\ Fail(r) /\ UNCHANGED meta
       \/ IsJson(store) /\ meta[r].nonce \in DOMAIN store /\ Replayed(r)
       \/ IsJson(store) /\ meta[r].nonce \notin DOMAIN store /\ NotReplayed(r)
    /\ UNCHANGED <<log, files, clock, crashes, prev, audit_hash, loaded>>

(* Mutant of AcceptedInLog: any record that carries the nonce counts.      *)
MentionedInLog(n) == \E i \in DOMAIN log : log[i].nonce = n

(* nonce_replayed() without a store: scan the audit log for an accepted    *)
(* record of the nonce.                                                    *)
AcceptedInLog(n) == \E i \in DOMAIN log : log[i].verified /\ log[i].nonce = n

ScanAudit(r) ==
    /\ pc[r] = "scan"
    /\ \/ AcceptedInLog(meta[r].nonce) /\ Replayed(r)
       \/ ~AcceptedInLog(meta[r].nonce) /\ NotReplayed(r)
    /\ UNCHANGED <<log, files, clock, crashes, prev, audit_hash, loaded>>

(* verify_intent_envelope(), which reads the clock.                        *)
VerifyEnvelope(r) ==
    /\ pc[r] = "verify"
    /\ LET v == EnvelopeVerdict(Body[r].proposal, Body[r].envelope, clock) IN
       \/ v.decision = "RAISED" /\ Go(r, "failed") /\ UNCHANGED meta
       \/ /\ v.decision # "RAISED"
          /\ Go(r, "audit")
          /\ meta' = [meta EXCEPT ![r] = Meta(v, v.decision = "ACCEPT", meta[r].nonce)]
    /\ UNCHANGED <<log, files, clock, crashes, prev, audit_hash, loaded, fd>>

(* append_audit(), first half: read the last hash.                         *)
ReadPreviousHash(r) ==
    /\ pc[r] = "audit"
    /\ prev' = [prev EXCEPT ![r] = LastHash]
    /\ Go(r, "append")
    /\ UNCHANGED <<log, files, clock, crashes, meta, audit_hash, loaded, fd>>

(* Mutants of AuditRecord: hashes start at GENESIS; intent_verified is not *)
(* set after a successful verification.                                    *)
AuditRecordHashOff(r) ==
    [request |-> r, decision |-> meta[r].decision, reason |-> meta[r].reason,
     verified |-> meta[r].verified, nonce |-> meta[r].nonce,
     previous_hash |-> prev[r], hash |-> Len(log)]
AuditRecordUnverified(r) ==
    [request |-> r, decision |-> meta[r].decision, reason |-> meta[r].reason,
     verified |-> FALSE, nonce |-> meta[r].nonce,
     previous_hash |-> prev[r], hash |-> Len(log) + 1]

AuditRecord(r) ==
    [request |-> r, decision |-> meta[r].decision, reason |-> meta[r].reason,
     verified |-> meta[r].verified, nonce |-> meta[r].nonce,
     previous_hash |-> prev[r], hash |-> Len(log) + 1]

(* Mutant of AppendAudit: only acceptances are logged.                     *)
AppendAuditAcceptOnly(r) ==
    /\ pc[r] = "append"
    /\ log' = IF meta[r].decision = "ACCEPT" THEN Append(log, AuditRecord(r)) ELSE log
    /\ Go(r, IF Body[r].file = "ok" THEN "readback" ELSE "respond")
    /\ UNCHANGED <<files, clock, crashes, locals, fd>>

(* append_audit(), second half: write one line at the end of the file.     *)
(* The command line stops here when the envelope file was unreadable.      *)
AppendAudit(r) ==
    /\ pc[r] = "append"
    /\ log' = Append(log, AuditRecord(r))
    /\ Go(r, IF Body[r].file = "ok" THEN "readback" ELSE "respond")
    /\ UNCHANGED <<files, clock, crashes, locals, fd>>

(* audit_hash = get_previous_hash(audit_path), and the guard of            *)
(* persist_accepted_nonce_if_needed.                                       *)
ReadBackHash(r) ==
    /\ pc[r] = "readback"
    /\ audit_hash' = [audit_hash EXCEPT ![r] = LastHash]
    /\ Go(r, IF MustPersist(meta[r]) THEN "load" ELSE "respond")
    /\ UNCHANGED <<log, files, clock, crashes, meta, prev, loaded, fd>>

(* record_nonce(): load_replay_store.                                      *)
LoadStore(r) ==
    /\ pc[r] = "load"
    /\ \/ store = Absent /\ Go(r, "open") /\ UNCHANGED <<loaded, fd>>
       \/ store \in {Empty, Torn} /\ Fail(r) /\ UNCHANGED loaded
       \/ /\ IsJson(store)
          /\ Go(r, "open")
          /\ loaded' = [loaded EXCEPT ![r] = store]
          /\ UNCHANGED fd
    /\ UNCHANGED <<log, files, clock, crashes, meta, prev, audit_hash>>

(* Mutant of OpenTmp: the store itself is opened for writing.              *)
OpenStoreInPlace(r) ==
    /\ pc[r] = "open"
    /\ store' = Empty
    /\ fd' = [fd EXCEPT ![r] = "store"]
    /\ Go(r, "write")
    /\ UNCHANGED <<log, tmp, clock, crashes, locals>>

(* save_replay_store(): open(tmp, "w") creates or truncates the one        *)
(* temporary file all processes use.                                       *)
OpenTmp(r) ==
    /\ pc[r] = "open"
    /\ tmp' = Empty
    /\ fd' = [fd EXCEPT ![r] = "tmp"]
    /\ Go(r, "write")
    /\ UNCHANGED <<log, store, clock, crashes, locals>>

(* Mutants of NewStore: what was loaded is dropped; the hash read before   *)
(* the append is stored.                                                   *)
NewStoreAlone(r) == [n \in {meta[r].nonce} |-> audit_hash[r]]
NewStoreOldHash(r) == [n \in DOMAIN loaded[r] \cup {meta[r].nonce} |->
                           IF n = meta[r].nonce THEN prev[r] ELSE loaded[r][n]]

NewStore(r) == [n \in DOMAIN loaded[r] \cup {meta[r].nonce} |->
                    IF n = meta[r].nonce THEN audit_hash[r] ELSE loaded[r][n]]

(* save_replay_store(): write and close.  The handle follows the file it   *)
(* was opened on, wherever a rename has moved it since.                    *)
WriteTmp(r) ==
    /\ pc[r] = "write"
    /\ \/ fd[r] = "tmp"    /\ tmp' \in Overwrite(tmp, NewStore(r)) /\ UNCHANGED store
       \/ fd[r] = "store"  /\ store' \in Overwrite(store, NewStore(r)) /\ UNCHANGED tmp
       \/ fd[r] = "orphan" /\ UNCHANGED files
    /\ fd' = [fd EXCEPT ![r] = "none"]
    /\ Go(r, "replace")
    /\ UNCHANGED <<log, clock, crashes, locals>>

(* save_replay_store(): tmp_path.replace(path), whatever tmp holds by then;*)
(* FileNotFoundError if another process has already renamed it.            *)
ReplaceStore(r) ==
    /\ pc[r] = "replace"
    /\ \/ tmp = Absent /\ Fail(r) /\ UNCHANGED files
       \/ /\ tmp # Absent
          /\ store' = tmp
          /\ tmp' = Absent
          /\ fd' = [q \in Requests |-> CASE fd[q] = "tmp"   -> "store"
                                         [] fd[q] = "store" -> "orphan"
                                         [] OTHER           -> fd[q]]
          /\ Go(r, "respond")
    /\ UNCHANGED <<log, clock, crashes, locals>>

(* The response (or the printed verdict) with decision and audit_hash.     *)
Respond(r) ==
    /\ pc[r] = "respond"
    /\ Go(r, "answered")
    /\ UNCHANGED <<log, files, clock, crashes, locals, fd>>

(* Processes die between any two steps; files stay as they are.  The       *)
(* service takes all its threads with it and comes back with the same      *)
(* files (main loads nothing else); a command line dies alone.             *)
Kill(victims) ==
    /\ victims # {}
    /\ crashes < MaxCrashes
    /\ crashes' = crashes + 1
    /\ pc' = [r \in Requests |-> IF r \in victims THEN "failed" ELSE pc[r]]
    /\ fd' = [r \in Requests |-> IF r \in victims THEN "none" ELSE fd[r]]
    /\ UNCHANGED <<log, files, clock, locals>>

CrashService == Kill({r \in InFlight : Body[r].via = "http"})
KillCommand  == \E r \in InFlight : Body[r].via = "cli" /\ Kill({r})

Tick ==
    /\ clock < MaxClock
    /\ clock' = clock + 1
    /\ UNCHANGED <<log, files, crashes, pc, locals, fd>>

(* Every submission has been served: the model has no more inputs.         *)
Served ==
    /\ \A r \in Requests : pc[r] \in {"answered", "failed"}
    /\ UNCHANGED vars

Arrive(r) == RejectMalformed(r) \/ Receive(r)

Serve(r) ==
    \/ ReplayLookup(r) \/ ScanAudit(r) \/ VerifyEnvelope(r)
    \/ ReadPreviousHash(r) \/ AppendAudit(r) \/ ReadBackHash(r)
    \/ LoadStore(r) \/ OpenTmp(r) \/ WriteTmp(r) \/ ReplaceStore(r) \/ Respond(r)

Next ==
    \/ \E r \in Requests : Arrive(r) \/ Serve(r)
    \/ CrashService
    \/ KillCommand
    \/ Tick
    \/ Served

Spec == Init /\ [][Next]_vars

(* A started thread keeps running: weak fairness of each request's steps.  *)
(* Nothing makes a client submit, the clock advance or a process crash.    *)
FairSpec == Spec /\ \A r \in Requests : WF_vars(Serve(r))
=============================================================================
