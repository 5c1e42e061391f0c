------------------------------- MODULE Gateway -------------------------------
(***************************************************************************)
(* The HTTP gateway (crates/proofpath-gateway/src/main.rs): one task per   *)
(* request, which verifies the headers, forwards an accepted request to    *)
(* the upstream and appends a record to the hash-chained audit file.  The  *)
(* hash of the last record is in memory, behind a mutex that is held       *)
(* across the append; a restarted gateway starts from GENESIS again.       *)
(*                                                                         *)
(* A task can stop at any await: the server drops the handler of a client  *)
(* that has gone, and with it the mutex guard.                             *)
(*                                                                         *)
(* The file operations are tokio's: write_all returns as soon as the bytes *)
(* are handed to a background thread, the next operation on the same       *)
(* handle waits for the previous one and reports its error, and a dropped  *)
(* handle waits for nothing (background holds the operations under way).   *)
(*                                                                         *)
(* The file is a sequence of what was written: records, line ends and      *)
(* fragments.  A record's hash covers a fresh UUID, so it is identified    *)
(* with the request it was computed for.                                   *)
(***************************************************************************)
EXTENDS HeaderVerifier, Naturals, Sequences, FiniteSets

CONSTANTS
    Requests,        \* identifiers of requests
    Headers,         \* Headers[r]: the x-proofpath-* headers of r
    Genesis,         \* the string GENESIS
    Nobody,          \* nobody holds the mutex
    NoAnswer,        \* no audit_hash has been returned
    WriteFailed,     \* audit_hash AUDIT_WRITE_FAILED
    MaxCrashes,      \* bound: crashes of the gateway
    MaxDisconnects,  \* bound: clients that leave before the answer
    MaxFailures      \* bound: failures of the upstream connection or the disk

ASSUME GatewayAssumption ==
    /\ IsFiniteSet(Requests)
    /\ DOMAIN Headers = Requests
    /\ MaxCrashes \in Nat /\ MaxDisconnects \in Nat /\ MaxFailures \in Nat
    /\ {Genesis, Nobody, NoAnswer, WriteFailed} \cap Requests = {}

VARIABLES
    file,         \* proofpath-audit.jsonl
    last_hash,    \* AuditLog.last_hash
    holder,       \* the request whose task holds the mutex
    background,   \* file operations handed to the blocking threads
    line_error,   \* requests whose record could not be written
    upstream,     \* requests the protected API has carried out
    pc,           \* pc[r]: the await the task of r is at
    forwarded,    \* forwarded[r]
    previous,     \* previous[r]: previous_hash of the record of r
    audit_hash,   \* audit_hash[r] of the answer
    faults        \* crashes, disconnects and failures so far

memory == <<last_hash, holder>>
disk   == <<file, background, line_error>>
vars   == <<disk, memory, upstream, pc, forwarded, previous, audit_hash, faults>>

LineEnd  == [kind |-> "line_end"]
Fragment == [kind |-> "fragment"]

Final    == {"new", "answered", "dropped"}
Running  == {r \in Requests : pc[r] \notin Final}

Init ==
    /\ file = << >>
    /\ last_hash = Genesis
    /\ holder = Nobody
    /\ background = {}
    /\ line_error = {}
    /\ upstream = {}
    /\ pc = [r \in Requests |-> "new"]
    /\ forwarded = [r \in Requests |-> FALSE]
    /\ previous = [r \in Requests |-> Genesis]
    /\ audit_hash = [r \in Requests |-> NoAnswer]
    /\ faults = [crashes |-> 0, disconnects |-> 0, failures |-> 0]

Go(r, label) == pc' = [pc EXCEPT ![r] = label]

MayFail == faults.failures < MaxFailures
Failure == faults' = [faults EXCEPT !.failures = @ + 1]

(* Mutant of Receive: the decision does not decide about forwarding.       *)
ReceiveForwardAll(r) ==
    /\ pc[r] = "new"
    /\ Go(r, "send")
    /\ UNCHANGED <<disk, memory, upstream, forwarded, previous, audit_hash, faults>>

(* gateway(): verify the headers; only ACCEPT goes on to the upstream.     *)
Receive(r) ==
    /\ pc[r] = "new"
    /\ Go(r, IF Verify(Headers[r]).decision = "ACCEPT" THEN "send" ELSE "lock")
    /\ UNCHANGED <<disk, memory, upstream, forwarded, previous, audit_hash, faults>>

(* forward_to_upstream(): the request reaches the upstream, which carries  *)
(* it out, or does not.                                                    *)
SendUpstream(r) ==
    /\ pc[r] = "send"
    /\ \/ /\ upstream' = upstream \cup {r}
          /\ Go(r, "reply")
          /\ UNCHANGED faults
       \/ MayFail /\ Failure /\ Go(r, "lock") /\ UNCHANGED upstream
    /\ UNCHANGED <<disk, memory, forwarded, previous, audit_hash>>

(* The status of the upstream arrives, whatever it is, or the connection   *)
(* breaks first: if let Ok(status) leaves forwarded false.                 *)
UpstreamReply(r) ==
    /\ pc[r] = "reply"
    /\ \/ forwarded' = [forwarded EXCEPT ![r] = TRUE] /\ UNCHANGED faults
       \/ MayFail /\ Failure /\ UNCHANGED forwarded
    /\ Go(r, "lock")
    /\ UNCHANGED <<disk, memory, upstream, previous, audit_hash>>

(* Mutant of TakeLock: last_hash is read without the mutex.                *)
TakeLockUnguarded(r) ==
    /\ pc[r] = "lock"
    /\ holder' = r
    /\ previous' = [previous EXCEPT ![r] = last_hash]
    /\ Go(r, "open")
    /\ UNCHANGED <<disk, last_hash, upstream, forwarded, audit_hash, faults>>

(* AuditLog::append: take the mutex and compute the record.                *)
TakeLock(r) ==
    /\ pc[r] = "lock"
    /\ holder = Nobody
    /\ holder' = r
    /\ previous' = [previous EXCEPT ![r] = last_hash]
    /\ Go(r, "open")
    /\ UNCHANGED <<disk, last_hash, upstream, forwarded, audit_hash, faults>>

(* Mutants of AppendFails: the mutex stays locked on the error path; the   *)
(* text of the error becomes the last hash.                                *)
AppendFailsKeepsLock(r) ==
    /\ audit_hash' = [audit_hash EXCEPT ![r] = WriteFailed]
    /\ Go(r, "respond")
    /\ UNCHANGED memory
AppendFailsKeepsText(r) ==
    /\ holder' = Nobody
    /\ audit_hash' = [audit_hash EXCEPT ![r] = WriteFailed]
    /\ Go(r, "respond")
    /\ last_hash' = WriteFailed

(* An error of an operation leaves append by `?`: the guard is dropped,    *)
(* last_hash stays, the answer says AUDIT_WRITE_FAILED.                    *)
AppendFails(r) ==
    /\ holder' = Nobody
    /\ audit_hash' = [audit_hash EXCEPT ![r] = WriteFailed]
    /\ Go(r, "respond")
    /\ UNCHANGED last_hash

(* Open the file for append and hand over the record.                      *)
OpenLog(r) ==
    /\ pc[r] = "open"
    /\ \/ /\ background' = background \cup {<<r, "record">>}
          /\ Go(r, "line_end")
          /\ UNCHANGED <<memory, audit_hash, faults>>
       \/ MayFail /\ Failure /\ AppendFails(r) /\ UNCHANGED background
    /\ UNCHANGED <<file, line_error, upstream, forwarded, previous>>

(* Mutant of WriteLineEnd: the record's write is not waited for.           *)
WriteLineEndAtOnce(r) ==
    /\ pc[r] = "line_end"
    /\ background' = background \cup {<<r, "line_end">>}
    /\ last_hash' = r
    /\ holder' = Nobody
    /\ audit_hash' = [audit_hash EXCEPT ![r] = r]
    /\ Go(r, "respond")
    /\ UNCHANGED <<file, line_error, upstream, forwarded, previous, faults>>

(* Once the record is written, hand over the line end, advance last_hash   *)
(* and drop the guard.  A failed write of the record is reported here.     *)
WriteLineEnd(r) ==
    /\ pc[r] = "line_end"
    /\ <<r, "record">> \notin background
    /\ \/ r \in line_error /\ AppendFails(r) /\ UNCHANGED background
       \/ /\ r \notin line_error
          /\ background' = background \cup {<<r, "line_end">>}
          /\ last_hash' = r
          /\ holder' = Nobody
          /\ audit_hash' = [audit_hash EXCEPT ![r] = r]
          /\ Go(r, "respond")
    /\ UNCHANGED <<file, line_error, upstream, forwarded, previous, faults>>

(* The answer, with its decision, forwarded flag and audit_hash.           *)
Respond(r) ==
    /\ pc[r] = "respond"
    /\ Go(r, "answered")
    /\ UNCHANGED <<disk, memory, upstream, forwarded, previous, audit_hash, faults>>

(* The blocking threads: each operation takes effect at the end of the     *)
(* file, or fails; a failed write may leave a fragment, and nobody learns  *)
(* of a failed line end.                                                   *)
Record(r) == [kind |-> "record", hash |-> r, previous_hash |-> previous[r],
              decision |-> Verify(Headers[r]).decision, forwarded |-> forwarded[r]]

PerformWrite(r, what) ==
    /\ <<r, what>> \in background
    /\ background' = background \ {<<r, what>>}
    /\ \/ /\ file' = Append(file, IF what = "record" THEN Record(r) ELSE LineEnd)
          /\ UNCHANGED <<line_error, faults>>
       \/ /\ MayFail /\ Failure
          /\ file' \in IF what = "record" THEN {file, Append(file, Fragment)} ELSE {file}
          /\ line_error' = IF what = "record" THEN line_error \cup {r} ELSE line_error
    /\ UNCHANGED <<memory, upstream, pc, forwarded, previous, audit_hash>>

(* The client leaves: the task is dropped at its await and releases what   *)
(* it holds; operations already handed over go on.                         *)
Disconnect(r) ==
    /\ r \in Running
    /\ faults.disconnects < MaxDisconnects
    /\ faults' = [faults EXCEPT !.disconnects = @ + 1]
    /\ Go(r, "dropped")
    /\ holder' = IF holder = r THEN Nobody ELSE holder
    /\ UNCHANGED <<disk, last_hash, upstream, forwarded, previous, audit_hash>>

(* The gateway dies and is started again: main() starts at GENESIS.        *)
Crash ==
    /\ faults.crashes < MaxCrashes
    /\ Running # {} \/ background # {}
    /\ faults' = [faults EXCEPT !.crashes = @ + 1]
    /\ pc' = [r \in Requests |-> IF r \in Running THEN "dropped" ELSE pc[r]]
    /\ background' = {}
    /\ last_hash' = Genesis
    /\ holder' = Nobody
    /\ UNCHANGED <<file, line_error, upstream, forwarded, previous, audit_hash>>

(* Every request has been handled: the model has no more inputs.           *)
Quiet  == background = {} /\ \A r \in Requests : pc[r] \in {"answered", "dropped"}
AtRest == Quiet /\ UNCHANGED vars

Write(r) == PerformWrite(r, "record") \/ PerformWrite(r, "line_end")

Handle(r) ==
    \/ SendUpstream(r) \/ UpstreamReply(r) \/ TakeLock(r) \/ OpenLog(r)
    \/ WriteLineEnd(r) \/ Respond(r)

Next ==
    \/ \E r \in Requests : Receive(r) \/ Handle(r) \/ Write(r) \/ Disconnect(r)
    \/ Crash
    \/ AtRest

Spec == Init /\ [][Next]_vars

(* Tasks and blocking threads are scheduled, and the upstream answers or   *)
(* its connection breaks; nothing makes clients come or go.                *)
FairSpec == Spec /\ \A r \in Requests : WF_vars(Handle(r)) /\ WF_vars(Write(r))
=============================================================================
