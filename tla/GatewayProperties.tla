-------------------------- MODULE GatewayProperties --------------------------
(***************************************************************************)
(* What the gateway's audit file promises, whatever crashes, leaves or     *)
(* fails, and what the documentation says of it beyond that.               *)
(***************************************************************************)
EXTENDS Gateway

Hashes == Requests \cup {Genesis}

RecordType == [kind : {"record"}, hash : Requests, previous_hash : Hashes,
               decision : {"ACCEPT", "BLOCK", "REJECT"}, forwarded : BOOLEAN]

(* Type invariant.                                                         *)
TypeOK ==
    /\ file \in Seq(RecordType \cup {LineEnd, Fragment})
    /\ last_hash \in Hashes
    /\ holder \in Requests \cup {Nobody}
    /\ background \in SUBSET (Requests \X {"record", "line_end"})
    /\ line_error \in SUBSET Requests
    /\ upstream \in SUBSET Requests
    /\ pc \in [Requests -> Final \cup {"send", "reply", "lock", "open", "line_end", "respond"}]
    /\ forwarded \in [Requests -> BOOLEAN]
    /\ previous \in [Requests -> Hashes]
    /\ audit_hash \in [Requests -> Requests \cup {NoAnswer, WriteFailed}]
    /\ faults \in [crashes : 0..MaxCrashes, disconnects : 0..MaxDisconnects,
                   failures : 0..MaxFailures]

RecordAt == {i \in DOMAIN file : file[i].kind = "record"}
RecordsOf(r) == {i \in RecordAt : file[i].hash = r}

(* ---- Whatever happens -------------------------------------------------- *)

(* The mutex is held exactly by the task inside AuditLog::append, so no    *)
(* fault leaves it locked behind a task that is gone.                      *)
LockHeldInAppend ==
    \A r \in Requests : holder = r <=> pc[r] \in {"open", "line_end"}

(* A record never says more than happened: forwarded means that the        *)
(* upstream carried the action out, and a refused action is not carried    *)
(* out, recorded or not.                                                   *)
RecordsAreTruthful ==
    /\ \A i \in RecordAt : file[i].forwarded => file[i].hash \in upstream
    /\ \A r \in upstream : Verify(Headers[r]).decision = "ACCEPT"

(* An answer with a hash has its record in the file, with that hash and    *)
(* once; later crashes do not take it away.                                *)
AnswerIsOnFile ==
    \A r \in Requests :
        /\ Cardinality(RecordsOf(r)) <= 1
        /\ audit_hash[r] = r => RecordsOf(r) # {}

(* Every record links to GENESIS or to a record that precedes it in the    *)
(* file: failed and abandoned appends never become links.                  *)
LinksPointBack ==
    \A i \in RecordAt :
        \/ file[i].previous_hash = Genesis
        \/ \E j \in RecordAt : j < i /\ file[j].hash = file[i].previous_hash

(* Without departures and failures the file holds one chain per life of    *)
(* the process: a record links to the record before it, or starts a chain, *)
(* and no more chains start than the process was started.                  *)
Calm      == faults.disconnects = 0 /\ faults.failures = 0
Before(i) == {j \in RecordAt : j < i}
LinksToPrevious(i) ==
    \E j \in Before(i) : /\ \A k \in Before(i) : k <= j
                         /\ file[j].hash = file[i].previous_hash
Starts    == {i \in RecordAt : file[i].previous_hash = Genesis}

OneChainPerLife ==
    Calm => /\ \A i \in RecordAt : i \in Starts \/ LinksToPrevious(i)
            /\ Cardinality(Starts) <= faults.crashes + 1

(* ---- Why this holds: an inductive invariant --------------------------- *)

OnFile(h)  == \E i \in RecordAt : file[i].hash = h
Pending(r) == <<r, "record">> \in background

BeforeAppend == {"new", "send", "reply", "lock", "open"}

(* A record is handed over at most once, and after that it is on its way,  *)
(* in the file, or known to have failed.                                   *)
WriteInv ==
    /\ \A i, j \in RecordAt : file[i].hash = file[j].hash => i = j
    /\ \A r \in Requests :
          /\ pc[r] \in BeforeAppend => ~Pending(r) /\ ~OnFile(r)
          /\ Pending(r) => ~OnFile(r)
          /\ pc[r] = "line_end" => Pending(r) \/ r \in line_error \/ OnFile(r)
          /\ audit_hash[r] = r => OnFile(r)

(* Every hash that can become a link is that of a record in the file.      *)
LinkInv ==
    /\ last_hash = Genesis \/ OnFile(last_hash)
    /\ \A r \in Requests : previous[r] = Genesis \/ OnFile(previous[r])
    /\ LinksPointBack

(* Only an accepted request is sent, and what is said to be forwarded was. *)
UpstreamInv ==
    /\ \A r \in Requests :
          /\ pc[r] = "send" => Verify(Headers[r]).decision = "ACCEPT"
          /\ pc[r] = "reply" => r \in upstream
          /\ forwarded[r] => r \in upstream
    /\ RecordsAreTruthful

IInv == TypeOK /\ LockHeldInAppend /\ WriteInv /\ LinkInv /\ UpstreamInv

(* Without departures and failures a task that is past its record holds    *)
(* the mutex, so the hash in memory is the last one of the file, but for   *)
(* the record being appended and for a restart (last_hash is Genesis).     *)
TopIs(h) == \E i \in RecordAt : file[i].hash = h /\ \A k \in RecordAt : k <= i
Written  == {r \in Requests : pc[r] = "line_end" /\ OnFile(r)}

CalmInv ==
    /\ line_error = {}
    /\ \A r \in Requests : Pending(r) => pc[r] = "line_end"
    /\ \A r \in Written : TopIs(r)
    /\ Written = {} => last_hash = Genesis \/ TopIs(last_hash)
    /\ Cardinality(Starts) <= faults.crashes
           + (IF last_hash = Genesis /\ Written = {} THEN 0 ELSE 1)
    /\ \A i \in RecordAt : i \in Starts \/ LinksToPrevious(i)

ChainInv ==
    /\ \A r \in Requests : pc[r] \in {"open", "line_end"} => previous[r] = last_hash
    /\ Calm => CalmInv

(* ---- Liveness ---------------------------------------------------------- *)

(* Every request is answered or dropped, and every record handed over is   *)
(* performed: no departure and no error leaves another task waiting.       *)
EveryRequestEnds ==
    /\ \A r \in Requests : r \in Running ~> r \notin Running
    /\ \A r \in Requests : <<r, "record">> \in background ~> <<r, "record">> \notin background

(* ---- Claims of the documentation --------------------------------------- *)

(* "every decision leaves a verifiable trail": at rest every action the    *)
(* upstream carried out has a record.                                      *)
EveryActionLeavesATrail ==
    Quiet => \A r \in upstream : RecordsOf(r) # {}
=============================================================================
