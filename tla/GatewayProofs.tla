---------------------------- MODULE GatewayProofs ----------------------------
(***************************************************************************)
(* Theorems about Gateway for any set of requests, any headers and any     *)
(* number of crashes, departures and failures.  The inductive invariant is *)
(* IInv of GatewayProperties.                                              *)
(***************************************************************************)
EXTENDS GatewayProperties, TLAPS, FiniteSetTheorems

Entry == RecordType \cup {LineEnd, Fragment}

PcLabels == Final \cup {"send", "reply", "lock", "open", "line_end", "respond"}

LEMMA DecisionType ==
    ASSUME NEW h
    PROVE  Verify(h).decision \in {"ACCEPT", "BLOCK", "REJECT"}
BY DEF Verify, Reject, BlockAction, Accept

(* The record of a request is a record.                                    *)
LEMMA RecordIsTyped ==
    ASSUME TypeOK, NEW r \in Requests
    PROVE  Record(r) \in RecordType
BY DecisionType DEF Record, RecordType, TypeOK

(* What an append does to the records of the file.                         *)
LEMMA FileAppended ==
    ASSUME TypeOK, NEW x \in Entry, file' = Append(file, x)
    PROVE  LET top == Len(file) + 1 IN
           /\ file' \in Seq(Entry)
           /\ RecordAt' = RecordAt \cup (IF x.kind = "record" THEN {top} ELSE {})
           /\ file'[top] = x
           /\ \A i \in RecordAt : i \in Nat /\ i < top /\ file'[i] = file[i]
<1> DEFINE top == Len(file) + 1
<1>1. file \in Seq(Entry)
  BY DEF TypeOK, Entry
<1>2. /\ file' \in Seq(Entry) /\ Len(file) \in Nat
      /\ DOMAIN file = 1..Len(file) /\ DOMAIN file' = 1..top
      /\ file'[top] = x /\ \A i \in 1..Len(file) : file'[i] = file[i]
  BY <1>1
<1>3. \A i \in RecordAt : i \in Nat /\ i < top /\ file'[i] = file[i]
  BY <1>2 DEF RecordAt
<1>4. RecordAt' = RecordAt \cup (IF x.kind = "record" THEN {top} ELSE {})
  <2>1. RecordAt' = {i \in 1..top : file'[i].kind = "record"}
    BY <1>2 DEF RecordAt
  <2>2. RecordAt = {i \in 1..Len(file) : file[i].kind = "record"}
    BY <1>2 DEF RecordAt
  <2>3. \A i : i \in 1..top <=> i \in 1..Len(file) \/ i = top
    BY <1>2
  <2>4. \A i : i \in RecordAt' <=> i \in RecordAt \/ (i = top /\ x.kind = "record")
    BY <1>2, <2>1, <2>2, <2>3
  <2> QED
    BY <2>4
<1> QED
  BY <1>2, <1>3, <1>4

(* So a hash that was in the file stays there, and the only new one is     *)
(* that of the record appended.                                            *)
LEMMA HashesAppended ==
    ASSUME TypeOK, NEW x \in Entry, file' = Append(file, x)
    PROVE  \A h : OnFile(h)' <=> OnFile(h) \/ (x.kind = "record" /\ h = x.hash)
<1> DEFINE top == Len(file) + 1
<1>1. /\ RecordAt' = RecordAt \cup (IF x.kind = "record" THEN {top} ELSE {})
      /\ file'[top] = x
      /\ \A i \in RecordAt : i \in Nat /\ i < top /\ file'[i] = file[i]
  BY FileAppended
<1> HIDE DEF top
<1> QED
  BY <1>1 DEF OnFile

LEMMA FileKept ==
    ASSUME file' = file
    PROVE  RecordAt' = RecordAt /\ \A h : OnFile(h)' <=> OnFile(h)
BY DEF RecordAt, OnFile

(* What the background threads do to the file: nothing, or one append, and *)
(* the record of r only when that write was under way.                     *)
LEMMA PerformWriteEffect ==
    ASSUME TypeOK, NEW r \in Requests, NEW what \in {"record", "line_end"},
           PerformWrite(r, what)
    PROVE  \E x \in Entry :
               /\ file' = file \/ file' = Append(file, x)
               /\ x.kind = "record" => x = Record(r) /\ what = "record"
               /\ what = "record" => r \in line_error' \/ (x = Record(r) /\ file' = Append(file, x))
<1>1. Record(r) \in RecordType
  BY RecordIsTyped
<1>2. LineEnd.kind # "record" /\ Fragment.kind # "record"
  BY DEF LineEnd, Fragment
<1>3. CASE what = "record"
  <2>1. \/ file' = Append(file, Record(r))
        \/ r \in line_error' /\ (file' = file \/ file' = Append(file, Fragment))
    BY <1>3 DEF PerformWrite
  <2> QED
    BY <1>1, <1>2, <1>3, <2>1 DEF Entry
<1>4. CASE what = "line_end"
  <2>1. file' = file \/ file' = Append(file, LineEnd)
    BY <1>4 DEF PerformWrite
  <2> QED
    BY <1>2, <1>4, <2>1 DEF Entry
<1> QED
  BY <1>3, <1>4

-----------------------------------------------------------------------------
LEMMA InitIInv == Init => IInv
<1> SUFFICES ASSUME Init PROVE IInv
  OBVIOUS
<1>1. TypeOK
  <2>1. file \in Seq(RecordType \cup {LineEnd, Fragment})
    BY DEF Init
  <2> QED
    BY <2>1, GatewayAssumption DEF Init, TypeOK, Hashes, Final
<1>2. RecordAt = {}
  BY DEF Init, RecordAt
<1>3. LockHeldInAppend
  BY GatewayAssumption DEF Init, LockHeldInAppend
<1>4. WriteInv
  BY <1>2, GatewayAssumption DEF Init, WriteInv, OnFile, Pending
<1>5. LinkInv
  BY <1>2 DEF Init, LinkInv, LinksPointBack
<1>6. UpstreamInv
  BY <1>2 DEF Init, UpstreamInv, RecordsAreTruthful
<1> QED
  BY <1>1, <1>3, <1>4, <1>5, <1>6 DEF IInv

(* Type correctness is inductive on its own.                               *)
LEMMA NextTypeOK == TypeOK /\ [Next]_vars => TypeOK'
<1> SUFFICES ASSUME TypeOK, [Next]_vars PROVE TypeOK'
  OBVIOUS
<1> USE DEF TypeOK
<1>1. CASE UNCHANGED vars
  BY <1>1 DEF vars, disk, memory
<1>2. ASSUME NEW r \in Requests, Receive(r) PROVE TypeOK'
  BY <1>2 DEF Receive, Go, disk, memory
<1>3. ASSUME NEW r \in Requests, SendUpstream(r) PROVE TypeOK'
  BY <1>3, GatewayAssumption DEF SendUpstream, Go, MayFail, Failure, disk, memory
<1>4. ASSUME NEW r \in Requests, UpstreamReply(r) PROVE TypeOK'
  <2>1. forwarded' \in [Requests -> BOOLEAN]
    <3>1. CASE forwarded' = [forwarded EXCEPT ![r] = TRUE]
      <4>1. [forwarded EXCEPT ![r] = TRUE] \in [Requests -> BOOLEAN]
        BY Zenon
      <4> QED
        BY <3>1, <4>1, Zenon
    <3>2. CASE forwarded' = forwarded
      BY <3>2, Zenon
    <3> QED
      BY <1>4, <3>1, <3>2, Zenon DEF UpstreamReply
  <2>2. /\ UNCHANGED <<disk, memory, upstream, previous, audit_hash>>
        /\ Go(r, "lock")
        /\ faults' = faults \/ (MayFail /\ Failure)
    BY <1>4, Zenon DEF UpstreamReply
  <2>3. pc' \in [Requests -> PcLabels]
    BY <2>2 DEF Go, PcLabels
  <2>4. faults' \in [crashes : 0..MaxCrashes, disconnects : 0..MaxDisconnects,
                     failures : 0..MaxFailures]
    BY <2>2, GatewayAssumption DEF MayFail, Failure
  <2> QED
    BY <2>1, <2>2, <2>3, <2>4, Zenon DEF PcLabels, disk, memory
<1>5. ASSUME NEW r \in Requests, TakeLock(r) PROVE TypeOK'
  BY <1>5 DEF TakeLock, Go, disk
<1>6. ASSUME NEW r \in Requests, OpenLog(r) PROVE TypeOK'
  BY <1>6, GatewayAssumption DEF OpenLog, AppendFails, Go, MayFail, Failure, memory
<1>7. ASSUME NEW r \in Requests, WriteLineEnd(r) PROVE TypeOK'
  BY <1>7, GatewayAssumption DEF WriteLineEnd, AppendFails, Go, Hashes
<1>8. ASSUME NEW r \in Requests, Respond(r) PROVE TypeOK'
  BY <1>8 DEF Respond, Go, Final, disk, memory
<1>9. ASSUME NEW r \in Requests, NEW what \in {"record", "line_end"}, PerformWrite(r, what)
      PROVE  TypeOK'
  <2>1. file' \in Seq(RecordType \cup {LineEnd, Fragment})
    <3>1. Record(r) \in RecordType
      BY RecordIsTyped
    <3>2. file' = file \/ \E x \in RecordType \cup {LineEnd, Fragment} : file' = Append(file, x)
      BY <1>9, <3>1 DEF PerformWrite
    <3> QED
      BY <3>2
  <2>2. faults' \in [crashes : 0..MaxCrashes, disconnects : 0..MaxDisconnects,
                     failures : 0..MaxFailures]
    BY <1>9, GatewayAssumption DEF PerformWrite, MayFail, Failure
  <2> QED
    BY <1>9, <2>1, <2>2 DEF PerformWrite, memory
<1>10. ASSUME NEW r \in Requests, Disconnect(r) PROVE TypeOK'
  <2>1. faults' \in [crashes : 0..MaxCrashes, disconnects : 0..MaxDisconnects,
                     failures : 0..MaxFailures]
    BY <1>10, GatewayAssumption DEF Disconnect
  <2>2. pc' \in [Requests -> PcLabels]
    BY <1>10 DEF Disconnect, Go, Final, PcLabels
  <2>3. holder' \in Requests \cup {Nobody}
    BY <1>10 DEF Disconnect
  <2>4. UNCHANGED <<file, background, line_error, last_hash, upstream, forwarded,
                    previous, audit_hash>>
    BY <1>10 DEF Disconnect, disk
  <2>5. TypeOK'
    BY <2>1, <2>2, <2>3, <2>4, SMTT(30) DEF PcLabels
  <2> QED
    BY <2>5
<1>11. CASE Crash
  <2>1. faults' \in [crashes : 0..MaxCrashes, disconnects : 0..MaxDisconnects,
                     failures : 0..MaxFailures]
    BY <1>11, GatewayAssumption DEF Crash
  <2>2. pc' \in [Requests -> PcLabels]
    BY <1>11 DEF Crash, Final, PcLabels
  <2>3. holder' = Nobody /\ last_hash' = Genesis /\ background' = {}
    BY <1>11 DEF Crash
  <2>4. UNCHANGED <<file, line_error, upstream, forwarded, previous, audit_hash>>
    BY <1>11 DEF Crash
  <2> QED
    BY <2>1, <2>2, <2>3, <2>4 DEF PcLabels, Hashes
<1> QED
  BY <1>1, <1>2, <1>3, <1>4, <1>5, <1>6, <1>7, <1>8, <1>9, <1>10, <1>11
     DEF Next, Handle, Write, AtRest

(* Type correctness of the gateway.                                       *)
THEOREM TypeCorrect == Spec => []TypeOK
<1>1. Init => TypeOK
  BY InitIInv DEF IInv
<1> QED
  BY <1>1, NextTypeOK, PTL DEF Spec

-----------------------------------------------------------------------------
(* The mutex: only the task that takes it enters append, and each way out  *)
(* of append gives it back.                                                *)
LEMMA NextLock == TypeOK /\ LockHeldInAppend /\ [Next]_vars => LockHeldInAppend'
<1> SUFFICES ASSUME TypeOK, LockHeldInAppend, [Next]_vars PROVE LockHeldInAppend'
  OBVIOUS
<1> USE DEF LockHeldInAppend
<1>a. pc \in [Requests -> PcLabels] /\ Nobody \notin Requests
  BY GatewayAssumption DEF TypeOK, PcLabels
<1>1. CASE UNCHANGED vars
  BY <1>1 DEF vars, memory
<1>2. ASSUME NEW r \in Requests, Receive(r) PROVE LockHeldInAppend'
  BY <1>a, <1>2 DEF Receive, Go, memory
<1>3. ASSUME NEW r \in Requests, SendUpstream(r) PROVE LockHeldInAppend'
  BY <1>a, <1>3 DEF SendUpstream, Go, memory
<1>4. ASSUME NEW r \in Requests, UpstreamReply(r) PROVE LockHeldInAppend'
  BY <1>a, <1>4 DEF UpstreamReply, Go, memory
<1>5. ASSUME NEW r \in Requests, TakeLock(r) PROVE LockHeldInAppend'
  BY <1>a, <1>5 DEF TakeLock, Go
<1>6. ASSUME NEW r \in Requests, OpenLog(r) PROVE LockHeldInAppend'
  BY <1>a, <1>6 DEF OpenLog, AppendFails, Go, memory
<1>7. ASSUME NEW r \in Requests, WriteLineEnd(r) PROVE LockHeldInAppend'
  BY <1>a, <1>7 DEF WriteLineEnd, AppendFails, Go
<1>8. ASSUME NEW r \in Requests, Respond(r) PROVE LockHeldInAppend'
  BY <1>a, <1>8 DEF Respond, Go, memory
<1>9. ASSUME NEW r \in Requests, NEW what \in {"record", "line_end"}, PerformWrite(r, what)
      PROVE  LockHeldInAppend'
  BY <1>9 DEF PerformWrite, memory
<1>10. ASSUME NEW r \in Requests, Disconnect(r) PROVE LockHeldInAppend'
  BY <1>a, <1>10 DEF Disconnect, Go
<1>11. CASE Crash
  BY <1>a, <1>11 DEF Crash, Running, Final
<1> QED
  BY <1>1, <1>2, <1>3, <1>4, <1>5, <1>6, <1>7, <1>8, <1>9, <1>10, <1>11
     DEF Next, Handle, Write, AtRest

(* No fault leaves the mutex locked behind a task that is gone.            *)
THEOREM MutexIsReleased == Spec => []LockHeldInAppend
<1>1. Init => TypeOK /\ LockHeldInAppend
  BY InitIInv DEF IInv
<1>2. TypeOK /\ LockHeldInAppend /\ [Next]_vars => (TypeOK /\ LockHeldInAppend)'
  BY NextTypeOK, NextLock
<1> QED
  BY <1>1, <1>2, PTL DEF Spec

-----------------------------------------------------------------------------
(* What the audit file says of the upstream.                               *)
LEMMA NextUpstream == TypeOK /\ UpstreamInv /\ [Next]_vars => UpstreamInv'
<1> SUFFICES ASSUME TypeOK, UpstreamInv, [Next]_vars PROVE UpstreamInv'
  OBVIOUS
<1> DEFINE Stages == \A q \in Requests :
              /\ pc[q] = "send" => Verify(Headers[q]).decision = "ACCEPT"
              /\ pc[q] = "reply" => q \in upstream
              /\ forwarded[q] => q \in upstream
           Accepted == \A q \in upstream : Verify(Headers[q]).decision = "ACCEPT"
           Truthful == \A i \in RecordAt : file[i].forwarded => file[i].hash \in upstream
<1>a. /\ pc \in [Requests -> PcLabels] /\ forwarded \in [Requests -> BOOLEAN]
      /\ upstream \subseteq Requests
  BY DEF TypeOK, PcLabels
<1>b. Stages /\ Accepted /\ Truthful
  BY DEF UpstreamInv, RecordsAreTruthful
<1>c. Stages' /\ Accepted' /\ Truthful' => UpstreamInv'
  BY DEF UpstreamInv, RecordsAreTruthful
<1>d. ASSUME UNCHANGED file, upstream \subseteq upstream' PROVE Truthful'
  <2>1. RecordAt' = RecordAt
    BY <1>d, FileKept
  <2> QED
    BY <1>b, <1>d, <2>1
<1>1. CASE UNCHANGED vars
  <2>1. UNCHANGED <<file, upstream, pc, forwarded>>
    BY <1>1 DEF vars, disk
  <2> QED
    BY <1>b, <1>c, <1>d, <2>1
<1>2. ASSUME NEW r \in Requests, Receive(r) PROVE UpstreamInv'
  <2>1. UNCHANGED <<file, upstream, forwarded>>
    BY <1>2 DEF Receive, disk
  <2>2. Stages'
    BY <1>a, <1>b, <1>2, <2>1 DEF Receive, Go
  <2> QED
    BY <1>b, <1>c, <1>d, <2>1, <2>2
<1>3. ASSUME NEW r \in Requests, SendUpstream(r) PROVE UpstreamInv'
  <2>1. UNCHANGED <<file, forwarded>> /\ upstream \subseteq upstream'
    BY <1>3 DEF SendUpstream, disk
  <2>2. Stages'
    BY <1>a, <1>b, <1>3, <2>1 DEF SendUpstream, Go
  <2>3. Accepted'
    BY <1>b, <1>3 DEF SendUpstream
  <2> QED
    BY <1>b, <1>c, <1>d, <2>1, <2>2, <2>3
<1>4. ASSUME NEW r \in Requests, UpstreamReply(r) PROVE UpstreamInv'
  <2>1. UNCHANGED <<file, upstream>> /\ r \in upstream
    BY <1>b, <1>4 DEF UpstreamReply, disk
  <2>2. \A q \in Requests : forwarded'[q] => forwarded[q] \/ q = r
    BY <1>a, <1>4, Zenon DEF UpstreamReply
  <2>3. \A q \in Requests : pc'[q] \in {"send", "reply"} => pc'[q] = pc[q]
    BY <1>a, <1>4 DEF UpstreamReply, Go
  <2>4. Stages'
    BY <1>b, <2>1, <2>2, <2>3
  <2> QED
    BY <1>b, <1>c, <1>d, <2>1, <2>4
<1>5. ASSUME NEW r \in Requests,
             TakeLock(r) \/ OpenLog(r) \/ WriteLineEnd(r) \/ Respond(r) \/ Disconnect(r)
      PROVE  UpstreamInv'
  <2>1. UNCHANGED <<file, upstream, forwarded>>
    BY <1>5 DEF TakeLock, OpenLog, WriteLineEnd, Respond, Disconnect, disk
  <2>2. \A q \in Requests : pc'[q] \in {"send", "reply"} => pc'[q] = pc[q]
    BY <1>a, <1>5 DEF TakeLock, OpenLog, WriteLineEnd, Respond, Disconnect, AppendFails, Go
  <2>3. Stages'
    BY <1>b, <2>1, <2>2
  <2> QED
    BY <1>b, <1>c, <1>d, <2>1, <2>3
<1>6. ASSUME NEW r \in Requests, NEW what \in {"record", "line_end"}, PerformWrite(r, what)
      PROVE  UpstreamInv'
  <2>1. UNCHANGED <<upstream, pc, forwarded>>
    BY <1>6 DEF PerformWrite
  <2>2. PICK x \in Entry : /\ file' = file \/ file' = Append(file, x)
                           /\ x.kind = "record" => x = Record(r)
    BY <1>6, PerformWriteEffect
  <2>3. CASE file' = file
    BY <1>b, <1>c, <1>d, <2>1, <2>3
  <2>4. CASE file' = Append(file, x)
    <3> DEFINE top == Len(file) + 1
    <3>1. /\ RecordAt' = RecordAt \cup (IF x.kind = "record" THEN {top} ELSE {})
          /\ file'[top] = x
          /\ \A i \in RecordAt : file'[i] = file[i]
      BY <2>4, FileAppended
    <3>2. x.kind = "record" => (x.forwarded => x.hash \in upstream)
      BY <1>b, <2>2 DEF Record
    <3> HIDE DEF top
    <3>3. Truthful'
      BY <1>b, <2>1, <3>1, <3>2
    <3> QED
      BY <1>b, <1>c, <2>1, <3>3
  <2> QED
    BY <2>2, <2>3, <2>4
<1>7. CASE Crash
  <2>1. UNCHANGED <<file, upstream, forwarded>>
    BY <1>7 DEF Crash
  <2>2. \A q \in Requests : pc'[q] \in {"send", "reply"} => pc'[q] = pc[q]
    BY <1>a, <1>7 DEF Crash
  <2>3. Stages'
    BY <1>b, <2>1, <2>2
  <2> QED
    BY <1>b, <1>c, <1>d, <2>1, <2>3
<1> QED
  BY <1>1, <1>2, <1>3, <1>4, <1>5, <1>6, <1>7 DEF Next, Handle, Write, AtRest

(* No record says more than happened, and no refused action happens.       *)
THEOREM NothingIsOverstated == Spec => []RecordsAreTruthful
<1>1. Init => TypeOK /\ UpstreamInv
  BY InitIInv DEF IInv
<1>2. TypeOK /\ UpstreamInv /\ [Next]_vars => (TypeOK /\ UpstreamInv)'
  BY NextTypeOK, NextUpstream
<1>3. UpstreamInv => RecordsAreTruthful
  BY DEF UpstreamInv
<1> QED
  BY <1>1, <1>2, <1>3, PTL DEF Spec

-----------------------------------------------------------------------------
(* A record is written at most once and is on file before it is answered.  *)
LEMMA NextWrite == TypeOK /\ WriteInv /\ [Next]_vars => WriteInv'
<1> SUFFICES ASSUME TypeOK, WriteInv, [Next]_vars PROVE WriteInv'
  OBVIOUS
<1> DEFINE Once == \A i, j \in RecordAt : file[i].hash = file[j].hash => i = j
           Stages == \A q \in Requests :
              /\ pc[q] \in BeforeAppend => ~Pending(q) /\ ~OnFile(q)
              /\ Pending(q) => ~OnFile(q)
              /\ pc[q] = "line_end" => Pending(q) \/ q \in line_error \/ OnFile(q)
              /\ audit_hash[q] = q => OnFile(q)
<1>a. /\ pc \in [Requests -> PcLabels]
      /\ audit_hash \in [Requests -> Requests \cup {NoAnswer, WriteFailed}]
  BY DEF TypeOK, PcLabels
<1>b. Once /\ Stages
  BY DEF WriteInv
<1>c. Once' /\ Stages' => WriteInv'
  BY DEF WriteInv
<1>d. ASSUME UNCHANGED file PROVE Once' /\ \A h : OnFile(h)' <=> OnFile(h)
  <2>1. RecordAt' = RecordAt /\ \A h : OnFile(h)' <=> OnFile(h)
    BY <1>d, FileKept
  <2> QED
    BY <1>b, <1>d, <2>1
<1>e. ASSUME UNCHANGED background PROVE \A q : Pending(q)' <=> Pending(q)
  BY <1>e DEF Pending
<1>1. CASE UNCHANGED vars
  <2>1. UNCHANGED <<file, background, line_error, pc, audit_hash>>
    BY <1>1 DEF vars, disk
  <2> QED
    BY <1>b, <1>c, <1>d, <1>e, <2>1
<1>2. ASSUME NEW r \in Requests,
             \/ Receive(r) \/ SendUpstream(r) \/ UpstreamReply(r) \/ TakeLock(r)
             \/ Respond(r) \/ Disconnect(r)
      PROVE  WriteInv'
  <2>1. UNCHANGED <<file, background, line_error, audit_hash>>
    BY <1>2 DEF Receive, SendUpstream, UpstreamReply, TakeLock, Respond, Disconnect, disk
  <2>2. \A q \in Requests : /\ pc'[q] \in BeforeAppend => pc[q] \in BeforeAppend
                            /\ pc'[q] = "line_end" => pc[q] = "line_end"
    BY <1>a, <1>2
       DEF Receive, SendUpstream, UpstreamReply, TakeLock, Respond, Disconnect, Go, BeforeAppend
  <2>3. (\A h : OnFile(h)' <=> OnFile(h)) /\ (\A q : Pending(q)' <=> Pending(q)) /\ Once'
    BY <1>d, <1>e, <2>1
  <2>4. Stages'
    BY <1>b, <2>1, <2>2, <2>3
  <2> QED
    BY <1>c, <2>3, <2>4
<1>3. ASSUME NEW r \in Requests, OpenLog(r) PROVE WriteInv'
  <2>1. UNCHANGED <<file, line_error>> /\ pc[r] = "open"
    BY <1>3 DEF OpenLog
  <2>2. (\A h : OnFile(h)' <=> OnFile(h)) /\ Once' /\ ~OnFile(r)
    BY <1>b, <1>d, <2>1 DEF BeforeAppend
  <2>3. CASE background' = background \cup {<<r, "record">>}
             /\ Go(r, "line_end") /\ UNCHANGED audit_hash
    <3>1. \A q \in Requests : Pending(q)' <=> Pending(q) \/ q = r
      BY <2>3 DEF Pending
    <3>2. \A q \in Requests : pc'[q] = IF q = r THEN "line_end" ELSE pc[q]
      BY <1>a, <2>3 DEF Go
    <3>3. Stages'
      BY <1>b, <2>1, <2>2, <2>3, <3>1, <3>2 DEF BeforeAppend
    <3> QED
      BY <1>c, <2>2, <3>3
  <2>4. CASE AppendFails(r) /\ UNCHANGED background
    <3>1. \A q \in Requests : /\ pc'[q] = IF q = r THEN "respond" ELSE pc[q]
                              /\ audit_hash'[q] = q => audit_hash[q] = q
      BY <1>a, <2>4, GatewayAssumption DEF AppendFails, Go
    <3>2. \A q : Pending(q)' <=> Pending(q)
      BY <1>e, <2>4
    <3>3. Stages'
      BY <1>b, <2>1, <2>2, <3>1, <3>2 DEF BeforeAppend
    <3> QED
      BY <1>c, <2>2, <3>3
  <2> QED
    BY <1>3, <2>3, <2>4 DEF OpenLog
<1>4. ASSUME NEW r \in Requests, WriteLineEnd(r) PROVE WriteInv'
  <2>1. UNCHANGED <<file, line_error>> /\ pc[r] = "line_end" /\ ~Pending(r)
    BY <1>4 DEF WriteLineEnd, Pending
  <2>2. (\A h : OnFile(h)' <=> OnFile(h)) /\ Once'
    BY <1>d, <2>1
  <2>3. \A q \in Requests : pc'[q] = IF q = r THEN "respond" ELSE pc[q]
    BY <1>a, <1>4 DEF WriteLineEnd, AppendFails, Go
  <2>4. \A q : Pending(q)' <=> Pending(q)
    BY <1>4 DEF WriteLineEnd, Pending
  <2>5. \A q \in Requests : audit_hash'[q] = q => audit_hash[q] = q \/ OnFile(q)
    BY <1>a, <1>b, <1>4, <2>1, GatewayAssumption DEF WriteLineEnd, AppendFails
  <2>6. Stages'
    BY <1>b, <2>1, <2>2, <2>3, <2>4, <2>5 DEF BeforeAppend
  <2> QED
    BY <1>c, <2>2, <2>6
<1>5. ASSUME NEW r \in Requests, NEW what \in {"record", "line_end"}, PerformWrite(r, what)
      PROVE  WriteInv'
  <2>1. UNCHANGED <<pc, audit_hash>> /\ line_error \subseteq line_error'
    BY <1>5 DEF PerformWrite
  <2>2. \A q : Pending(q)' <=> Pending(q) /\ ~(q = r /\ what = "record")
    BY <1>5 DEF PerformWrite, Pending
  <2>3. what = "record" => Pending(r) /\ ~OnFile(r)
    BY <1>b, <1>5 DEF PerformWrite, Pending
  <2>4. PICK x \in Entry :
            /\ file' = file \/ file' = Append(file, x)
            /\ x.kind = "record" => x = Record(r) /\ what = "record"
            /\ what = "record" => r \in line_error' \/ (x = Record(r) /\ file' = Append(file, x))
    BY <1>5, PerformWriteEffect
  <2>5. Record(r).kind = "record" /\ Record(r).hash = r
    BY DEF Record
  <2>6. CASE file' = file
    <3>1. (\A h : OnFile(h)' <=> OnFile(h)) /\ Once'
      BY <1>d, <2>6
    <3>2. what = "record" => r \in line_error'
      <4>1. Len(file) # Len(Append(file, x))
        BY DEF TypeOK, Entry
      <4> QED
        BY <2>4, <2>6, <4>1
    <3>3. Stages'
      BY <1>b, <2>1, <2>2, <3>1, <3>2
    <3> QED
      BY <1>c, <3>1, <3>3
  <2>7. CASE file' = Append(file, x)
    <3>1. \A h : OnFile(h)' <=> OnFile(h) \/ (x.kind = "record" /\ h = x.hash)
      BY <2>7, HashesAppended
    <3>2. Once'
      <4> DEFINE top == Len(file) + 1
      <4>1. /\ RecordAt' = RecordAt \cup (IF x.kind = "record" THEN {top} ELSE {})
            /\ file'[top] = x
            /\ \A i \in RecordAt : i \in Nat /\ i < top /\ file'[i] = file[i]
        BY <2>7, FileAppended
      <4>2. x.kind = "record" => \A i \in RecordAt : file[i].hash # x.hash
        BY <2>3, <2>4, <2>5 DEF OnFile
      <4> HIDE DEF top
      <4> QED
        BY <1>b, <4>1, <4>2
    <3>3. what = "record" => OnFile(r)' \/ r \in line_error'
      BY <2>4, <2>5, <3>1
    <3>4. \A q : OnFile(q)' => OnFile(q) \/ (q = r /\ what = "record")
      BY <2>4, <2>5, <3>1
    <3>5. \A q : OnFile(q) => OnFile(q)'
      BY <3>1
    <3>6. Stages'
      <4> SUFFICES ASSUME NEW q \in Requests
                   PROVE  /\ pc[q] \in BeforeAppend => ~Pending(q)' /\ ~OnFile(q)'
                          /\ Pending(q)' => ~OnFile(q)'
                          /\ pc[q] = "line_end" => Pending(q)' \/ q \in line_error' \/ OnFile(q)'
                          /\ audit_hash[q] = q => OnFile(q)'
        BY <2>1
      <4>1. /\ pc[q] \in BeforeAppend => ~Pending(q) /\ ~OnFile(q)
            /\ Pending(q) => ~OnFile(q)
            /\ pc[q] = "line_end" => Pending(q) \/ q \in line_error \/ OnFile(q)
            /\ audit_hash[q] = q => OnFile(q)
        BY <1>b
      <4> QED
        BY <2>1, <2>2, <2>3, <3>3, <3>4, <3>5, <4>1
    <3> QED
      BY <1>c, <3>2, <3>6
  <2> QED
    BY <2>4, <2>6, <2>7
<1>6. CASE Crash
  <2>1. UNCHANGED <<file, line_error, audit_hash>> /\ background' = {}
    BY <1>6 DEF Crash
  <2>2. \A q \in Requests : /\ pc'[q] \in BeforeAppend => pc[q] \in BeforeAppend
                            /\ pc'[q] # "line_end"
    BY <1>a, <1>6 DEF Crash, Running, Final, BeforeAppend
  <2>3. (\A h : OnFile(h)' <=> OnFile(h)) /\ Once' /\ \A q : ~Pending(q)'
    BY <1>d, <2>1 DEF Pending
  <2>4. Stages'
    BY <1>b, <2>1, <2>2, <2>3
  <2> QED
    BY <1>c, <2>3, <2>4
<1> QED
  BY <1>1, <1>2, <1>3, <1>4, <1>5, <1>6 DEF Next, Handle, Write, AtRest

(* An answer with a hash has exactly one record, from then on for ever.    *)
THEOREM AnsweredHashIsOnFile == Spec => []AnswerIsOnFile
<1>1. Init => TypeOK /\ WriteInv
  BY InitIInv DEF IInv
<1>2. TypeOK /\ WriteInv /\ [Next]_vars => (TypeOK /\ WriteInv)'
  BY NextTypeOK, NextWrite
<1>3. WriteInv => AnswerIsOnFile
  <2> SUFFICES ASSUME WriteInv, NEW r \in Requests
               PROVE  /\ Cardinality(RecordsOf(r)) <= 1
                      /\ audit_hash[r] = r => RecordsOf(r) # {}
    BY DEF AnswerIsOnFile
  <2>1. CASE RecordsOf(r) = {}
    <3>1. Cardinality(RecordsOf(r)) = 0
      BY <2>1, FS_EmptySet
    <3>2. ~OnFile(r)
      BY <2>1 DEF RecordsOf, OnFile
    <3>3. audit_hash[r] # r
      BY <3>2 DEF WriteInv
    <3> QED
      BY <3>1, <3>3
  <2>2. CASE RecordsOf(r) # {}
    <3>1. PICK i : i \in RecordsOf(r)
      BY <2>2
    <3>2. RecordsOf(r) = {i}
      BY <3>1 DEF RecordsOf, WriteInv
    <3>3. Cardinality(RecordsOf(r)) = 1
      BY <3>2, FS_Singleton
    <3> QED
      BY <2>2, <3>3
  <2> QED
    BY <2>1, <2>2
<1> QED
  BY <1>1, <1>2, <1>3, PTL DEF Spec

-----------------------------------------------------------------------------
(* The hash in memory and the links computed from it name records on file. *)
LEMMA NextLink == TypeOK /\ WriteInv /\ LinkInv /\ [Next]_vars => LinkInv'
<1> SUFFICES ASSUME TypeOK, WriteInv, LinkInv, [Next]_vars PROVE LinkInv'
  OBVIOUS
<1> DEFINE Last  == last_hash = Genesis \/ OnFile(last_hash)
           Taken == \A q \in Requests : previous[q] = Genesis \/ OnFile(previous[q])
<1>a. Last /\ Taken /\ LinksPointBack /\ previous \in [Requests -> Hashes]
  BY DEF LinkInv, TypeOK
<1>b. ASSUME UNCHANGED file
      PROVE  /\ LinksPointBack'
             /\ \A h : OnFile(h)' <=> OnFile(h)
             /\ UNCHANGED last_hash => Last'
             /\ UNCHANGED previous => Taken'
  <2>1. RecordAt' = RecordAt /\ \A h : OnFile(h)' <=> OnFile(h)
    BY <1>b, FileKept
  <2>2. LinksPointBack'
    BY <1>a, <1>b, <2>1 DEF LinksPointBack
  <2>3. UNCHANGED last_hash => Last'
    BY <1>a, <2>1 DEF OnFile
  <2>4. UNCHANGED previous => Taken'
    BY <1>a, <2>1 DEF OnFile
  <2> QED
    BY <2>1, <2>2, <2>3, <2>4
<1>1. CASE UNCHANGED vars
  <2>1. UNCHANGED <<file, last_hash, previous>>
    BY <1>1 DEF vars, disk, memory
  <2> QED
    BY <1>b, <2>1 DEF LinkInv
<1>2. ASSUME NEW r \in Requests,
             Receive(r) \/ SendUpstream(r) \/ UpstreamReply(r) \/ OpenLog(r)
             \/ Respond(r) \/ Disconnect(r)
      PROVE  LinkInv'
  <2>1. UNCHANGED <<file, last_hash, previous>>
    BY <1>2 DEF Receive, SendUpstream, UpstreamReply, OpenLog, Respond, Disconnect,
                AppendFails, disk, memory
  <2> QED
    BY <1>b, <2>1 DEF LinkInv
<1>3. ASSUME NEW r \in Requests, TakeLock(r) PROVE LinkInv'
  <2>1. UNCHANGED <<file, last_hash>> /\ previous' = [previous EXCEPT ![r] = last_hash]
    BY <1>3 DEF TakeLock, disk
  <2>2. \A q \in Requests : previous'[q] \in {previous[q], last_hash}
    BY <1>a, <2>1
  <2>3. Taken'
    BY <1>a, <1>b, <2>1, <2>2
  <2> QED
    BY <1>b, <2>1, <2>3 DEF LinkInv
<1>4. ASSUME NEW r \in Requests, WriteLineEnd(r) PROVE LinkInv'
  <2>1. UNCHANGED <<file, previous>> /\ (last_hash' = last_hash \/ last_hash' = r)
    BY <1>4 DEF WriteLineEnd, AppendFails
  <2>2. last_hash' = r => last_hash' = last_hash \/ OnFile(r)
    BY <1>4 DEF WriteLineEnd, AppendFails, WriteInv, Pending
  <2>3. Last'
    BY <1>a, <1>b, <2>1, <2>2
  <2> QED
    BY <1>b, <2>1, <2>3 DEF LinkInv
<1>5. ASSUME NEW r \in Requests, NEW what \in {"record", "line_end"}, PerformWrite(r, what)
      PROVE  LinkInv'
  <2>1. UNCHANGED <<last_hash, previous>>
    BY <1>5 DEF PerformWrite, memory
  <2>2. PICK x \in Entry : /\ file' = file \/ file' = Append(file, x)
                           /\ x.kind = "record" => x = Record(r)
    BY <1>5, PerformWriteEffect
  <2>3. CASE file' = file
    BY <1>b, <2>1, <2>3 DEF LinkInv
  <2>4. CASE file' = Append(file, x)
    <3> DEFINE top == Len(file) + 1
    <3>1. \A h : OnFile(h) => OnFile(h)'
      BY <2>4, HashesAppended
    <3>2. Last' /\ Taken'
      BY <1>a, <2>1, <3>1
    <3>3. /\ RecordAt' = RecordAt \cup (IF x.kind = "record" THEN {top} ELSE {})
          /\ file'[top] = x
          /\ \A i \in RecordAt : i \in Nat /\ i < top /\ file'[i] = file[i]
      BY <2>4, FileAppended
    <3>4. x.kind = "record" => x.previous_hash = Genesis \/ OnFile(x.previous_hash)
      BY <1>a, <2>2 DEF Record
    <3> HIDE DEF top
    <3>5. ASSUME NEW i \in RecordAt
          PROVE  \/ file'[i].previous_hash = Genesis
                 \/ \E j \in RecordAt' : j < i /\ file'[j].hash = file'[i].previous_hash
      BY <1>a, <3>3, <3>5 DEF LinksPointBack
    <3>6. x.kind = "record" =>
              \/ file'[top].previous_hash = Genesis
              \/ \E j \in RecordAt' : j < top /\ file'[j].hash = file'[top].previous_hash
      BY <3>3, <3>4 DEF OnFile
    <3>7. LinksPointBack'
      BY <3>3, <3>5, <3>6 DEF LinksPointBack
    <3> QED
      BY <3>2, <3>7 DEF LinkInv
  <2> QED
    BY <2>2, <2>3, <2>4
<1>6. CASE Crash
  <2>1. UNCHANGED <<file, previous>> /\ last_hash' = Genesis
    BY <1>6 DEF Crash
  <2> QED
    BY <1>b, <2>1 DEF LinkInv
<1> QED
  BY <1>1, <1>2, <1>3, <1>4, <1>5, <1>6 DEF Next, Handle, Write, AtRest

(* The invariant as a whole.                                               *)
THEOREM GatewayInvariant == Spec => []IInv
<1>1. IInv /\ [Next]_vars => IInv'
  BY NextTypeOK, NextLock, NextWrite, NextLink, NextUpstream DEF IInv
<1> QED
  BY InitIInv, <1>1, PTL DEF Spec

(* Every record links to GENESIS or to a record before it in the file.     *)
THEOREM LinksAlwaysPointBack == Spec => []LinksPointBack
<1>1. IInv => LinksPointBack
  BY DEF IInv, LinkInv
<1> QED
  BY GatewayInvariant, <1>1, PTL

-----------------------------------------------------------------------------
(* A step that leaves the file, last_hash and the task past its record     *)
(* alone keeps the chain.                                                  *)
LEMMA CalmKept ==
    ASSUME CalmInv, UNCHANGED <<file, last_hash, line_error, faults>>, Written' = Written,
           \A r \in Requests : Pending(r)' => pc'[r] = "line_end"
    PROVE  CalmInv'
<1>1. RecordAt' = RecordAt
  BY FileKept
<1>2. (\A h : TopIs(h)' <=> TopIs(h)) /\ Starts' = Starts
  BY <1>1 DEF TopIs, Starts
<1>3. \A i : LinksToPrevious(i)' <=> LinksToPrevious(i)
  BY <1>1 DEF LinksToPrevious, Before
<1>4. TopIs(last_hash)' <=> TopIs(last_hash)
  BY <1>1 DEF TopIs
<1>5. line_error' = {} /\ \A r \in Written' : TopIs(r)'
  BY <1>2 DEF CalmInv
<1>6. Written' = {} => last_hash' = Genesis \/ TopIs(last_hash)'
  BY <1>4 DEF CalmInv
<1>7. Cardinality(Starts') <= faults'.crashes
         + (IF last_hash' = Genesis /\ Written' = {} THEN 0 ELSE 1)
  BY <1>2 DEF CalmInv
<1>8. \A i \in RecordAt' : i \in Starts' \/ LinksToPrevious(i)'
  BY <1>1, <1>2, <1>3 DEF CalmInv
<1> QED
  BY <1>5, <1>6, <1>7, <1>8 DEF CalmInv

LEMMA StartsFinite ==
    ASSUME TypeOK
    PROVE  IsFiniteSet(Starts) /\ Cardinality(Starts) \in Nat
<1>1. file \in Seq(Entry)
  BY DEF TypeOK, Entry
<1>2. Starts \subseteq 1..Len(file) /\ IsFiniteSet(1..Len(file))
  BY <1>1, FS_Interval DEF Starts, RecordAt
<1> QED
  BY <1>2, FS_Subset, FS_CardinalityType

(* The record of the task that holds the mutex goes on top of the chain.   *)
LEMMA CalmAppend ==
    ASSUME TypeOK, CalmInv, NEW r \in Requests, file' = Append(file, Record(r)),
           UNCHANGED <<last_hash, pc, line_error, faults>>,
           Written = {}, pc[r] = "line_end", previous[r] = last_hash,
           \A q \in Requests : Pending(q)' => pc[q] = "line_end",
           \A q \in Requests : pc[q] = "line_end" => q = r
    PROVE  CalmInv'
<1>0. PICK x, top : x = Record(r) /\ top = Len(file) + 1
  OBVIOUS
<1>1. x \in Entry /\ x.kind = "record" /\ x.hash = r /\ x.previous_hash = last_hash
  BY <1>0, RecordIsTyped DEF Record, Entry
<1>2. /\ RecordAt' = RecordAt \cup {top} /\ file'[top] = x
      /\ \A i \in RecordAt : i \in Nat /\ i < top /\ file'[i] = file[i]
      /\ top \in Nat
  <2>1. file \in Seq(Entry)
    BY DEF TypeOK, Entry
  <2>2. top \in Nat
    BY <1>0, <2>1
  <2> QED
    BY <1>0, <1>1, <2>2, FileAppended
<1>3. TopIs(r)' /\ OnFile(r)'
  <2>1. top \in RecordAt' /\ file'[top].hash = r
    BY <1>1, <1>2
  <2>2. \A k \in RecordAt' : k <= top
    BY <1>2
  <2>3. OnFile(r)'
    BY <2>1 DEF OnFile
  <2>4. TopIs(r)'
    BY <2>1, <2>2 DEF TopIs
  <2> QED
    BY <2>3, <2>4
<1>4. Written' = {r}
  BY <1>3 DEF Written
<1>5. Starts' = IF last_hash = Genesis THEN Starts \cup {top} ELSE Starts
  <2>1. \A i : i \in Starts' <=> i \in RecordAt' /\ file'[i].previous_hash = Genesis
    BY DEF Starts
  <2>2. \A i : i \in Starts <=> i \in RecordAt /\ file[i].previous_hash = Genesis
    BY DEF Starts
  <2>3. \A i : i \in Starts' <=> i \in Starts \/ (i = top /\ last_hash = Genesis)
    <3>1. file'[top].previous_hash = last_hash
      BY <1>1, <1>2
    <3>2. \A i \in RecordAt : file'[i].previous_hash = file[i].previous_hash
      BY <1>2
    <3>3. \A i : i \in RecordAt' <=> i \in RecordAt \/ i = top
      BY <1>2
    <3>4. top \notin RecordAt
      BY <1>2
    <3> QED
      BY <2>1, <2>2, <3>1, <3>2, <3>3, <3>4
  <2> QED
    BY <2>3
<1>6. Cardinality(Starts') <= faults'.crashes
         + (IF last_hash' = Genesis /\ Written' = {} THEN 0 ELSE 1)
  <2>1. faults.crashes \in Nat
    BY GatewayAssumption DEF TypeOK
  <2>2. CASE last_hash = Genesis
    <3>1. Cardinality(Starts) <= faults.crashes
      BY <2>1, <2>2 DEF CalmInv
    <3>2. top \notin Starts
      BY <1>2 DEF Starts
    <3>3. Cardinality(Starts \cup {top}) = Cardinality(Starts) + 1
      BY <3>2, StartsFinite, FS_AddElement
    <3> QED
      BY <1>4, <1>5, <2>1, <2>2, <3>1, <3>3, StartsFinite
  <2>3. CASE last_hash # Genesis
    BY <1>4, <1>5, <2>1, <2>3, StartsFinite DEF CalmInv
  <2> QED
    BY <2>2, <2>3
<1>7. ASSUME NEW i \in RecordAt PROVE i \in Starts' \/ LinksToPrevious(i)'
  <2>1. Before(i)' = Before(i)
    BY <1>2 DEF Before
  <2>2. \A j \in Before(i) : j \in RecordAt
    BY DEF Before
  <2>3. LinksToPrevious(i) => LinksToPrevious(i)'
    BY <1>2, <2>1, <2>2 DEF LinksToPrevious
  <2>4. i \in Starts => i \in Starts'
    BY <1>5
  <2> QED
    BY <2>3, <2>4 DEF CalmInv
<1>8. top \in Starts' \/ LinksToPrevious(top)'
  <2>1. CASE last_hash = Genesis
    BY <1>5, <2>1
  <2>2. CASE TopIs(last_hash)
    <3>1. Before(top)' = RecordAt
      BY <1>2 DEF Before
    <3> QED
      BY <1>1, <1>2, <2>2, <3>1 DEF LinksToPrevious, TopIs
  <2> QED
    BY <2>1, <2>2 DEF CalmInv
<1>9. \A i \in RecordAt' : i \in Starts' \/ LinksToPrevious(i)'
  BY <1>2, <1>7, <1>8
<1>10. line_error' = {} /\ \A q \in Requests : Pending(q)' => pc'[q] = "line_end"
  BY DEF CalmInv
<1>11. (\A q \in Written' : TopIs(q)') /\ Written' # {}
  BY <1>3, <1>4
<1> QED
  BY <1>6, <1>9, <1>10, <1>11 DEF CalmInv

(* Faults are only counted, so a calm history has a calm past.             *)
LEMMA CalmBefore ==
    ASSUME TypeOK
    PROVE  /\ UNCHANGED faults => Calm' = Calm
           /\ Failure => ~Calm'
<1>1. faults.failures \in Nat /\ faults'.failures = faults.failures + 1 => faults'.failures # 0
  OBVIOUS
<1>2. /\ faults.failures \in Nat
      /\ DOMAIN faults = {"crashes", "disconnects", "failures"}
  BY GatewayAssumption DEF TypeOK
<1> QED
  BY <1>1, <1>2 DEF Calm, Failure

LEMMA NextChain ==
    TypeOK /\ LockHeldInAppend /\ WriteInv /\ ChainInv /\ [Next]_vars => ChainInv'
<1> SUFFICES ASSUME TypeOK, LockHeldInAppend, WriteInv, ChainInv, [Next]_vars PROVE ChainInv'
  OBVIOUS
<1> DEFINE Fresh == \A q \in Requests : pc[q] \in {"open", "line_end"} => previous[q] = last_hash
<1>a. /\ pc \in [Requests -> PcLabels] /\ previous \in [Requests -> Hashes]
      /\ Nobody \notin Requests
  BY GatewayAssumption DEF TypeOK, PcLabels
<1>b. Fresh /\ (Calm => CalmInv)
  BY DEF ChainInv
<1>c. Fresh' /\ (Calm' => CalmInv') => ChainInv'
  BY DEF ChainInv
<1>d. \A q, p \in Requests : pc[q] \in {"open", "line_end"} /\ pc[p] \in {"open", "line_end"}
                             => q = p
  BY DEF LockHeldInAppend
<1>e. ASSUME UNCHANGED <<file, background, line_error, last_hash>>,
             UNCHANGED faults \/ Failure,
             \A q \in Requests : pc'[q] = "line_end" <=> pc[q] = "line_end"
      PROVE  Calm' => CalmInv'
  <2>1. \A h : OnFile(h)' <=> OnFile(h)
    BY <1>e, FileKept
  <2>2. Written' = Written
    BY <1>e, <2>1 DEF Written
  <2>3. \A q : Pending(q)' <=> Pending(q)
    BY <1>e DEF Pending
  <2>4. Calm' => Calm /\ UNCHANGED faults
    BY <1>e, CalmBefore
  <2>5. ASSUME Calm' PROVE CalmInv'
    <3>1. CalmInv /\ UNCHANGED faults
      BY <1>b, <2>4, <2>5
    <3>2. \A q \in Requests : Pending(q)' => pc'[q] = "line_end"
      BY <1>e, <2>3, <3>1 DEF CalmInv
    <3> QED
      BY <1>e, <2>2, <3>1, <3>2, CalmKept
  <2> QED
    BY <2>5
<1>1. CASE UNCHANGED vars
  <2>1. UNCHANGED <<file, background, line_error, last_hash, faults, pc, previous>>
    BY <1>1 DEF vars, disk, memory
  <2> QED
    BY <1>b, <1>c, <1>e, <2>1
<1>2. ASSUME NEW r \in Requests,
             Receive(r) \/ SendUpstream(r) \/ UpstreamReply(r) \/ Respond(r)
      PROVE  ChainInv'
  <2>1. UNCHANGED <<file, background, line_error, last_hash, previous>>
    BY <1>2 DEF Receive, SendUpstream, UpstreamReply, Respond, disk, memory
  <2>2. UNCHANGED faults \/ Failure
    BY <1>2 DEF Receive, SendUpstream, UpstreamReply, Respond
  <2>3. \A q \in Requests : /\ pc'[q] = "line_end" <=> pc[q] = "line_end"
                            /\ pc'[q] = "open" <=> pc[q] = "open"
    BY <1>a, <1>2 DEF Receive, SendUpstream, UpstreamReply, Respond, Go
  <2>4. Fresh'
    BY <1>b, <2>1, <2>3
  <2> QED
    BY <1>c, <1>e, <2>1, <2>2, <2>3, <2>4
<1>3. ASSUME NEW r \in Requests, TakeLock(r) PROVE ChainInv'
  <2>1. UNCHANGED <<file, background, line_error, last_hash, faults>>
    BY <1>3 DEF TakeLock, disk
  <2>2. \A q \in Requests : pc[q] \notin {"open", "line_end"}
    BY <1>a, <1>3 DEF TakeLock, LockHeldInAppend
  <2>3. \A q \in Requests : pc'[q] = IF q = r THEN "open" ELSE pc[q]
    BY <1>a, <1>3 DEF TakeLock, Go
  <2>4. previous'[r] = last_hash
    BY <1>a, <1>3 DEF TakeLock
  <2>5. Fresh'
    BY <2>1, <2>2, <2>3, <2>4
  <2>6. \A q \in Requests : pc'[q] = "line_end" <=> pc[q] = "line_end"
    BY <2>2, <2>3
  <2> QED
    BY <1>c, <1>e, <2>1, <2>5, <2>6
<1>4. ASSUME NEW r \in Requests, OpenLog(r) PROVE ChainInv'
  <2>1. UNCHANGED <<file, line_error, previous>> /\ pc[r] = "open"
    BY <1>4 DEF OpenLog
  <2>2. CASE AppendFails(r) /\ Failure /\ UNCHANGED background
    <3>1. \A q \in Requests : pc'[q] = IF q = r THEN "respond" ELSE pc[q]
      BY <1>a, <2>2 DEF AppendFails, Go
    <3>2. UNCHANGED last_hash
      BY <2>2 DEF AppendFails
    <3>3. Fresh'
      BY <1>b, <2>1, <3>1, <3>2
    <3>4. ~Calm'
      BY <2>2, CalmBefore
    <3> QED
      BY <1>c, <3>3, <3>4
  <2>3. CASE background' = background \cup {<<r, "record">>} /\ Go(r, "line_end")
             /\ UNCHANGED memory /\ UNCHANGED faults
    <3>1. \A q \in Requests : pc'[q] = IF q = r THEN "line_end" ELSE pc[q]
      BY <1>a, <2>3 DEF Go
    <3>2. UNCHANGED last_hash
      BY <2>3 DEF memory
    <3>3. Fresh'
      BY <1>b, <2>1, <3>1, <3>2
    <3>4. ~OnFile(r) /\ \A h : OnFile(h)' <=> OnFile(h)
      BY <2>1, FileKept DEF WriteInv, BeforeAppend
    <3>5. Written' = Written
      BY <2>1, <3>1, <3>4 DEF Written
    <3>6. \A q \in Requests : Pending(q)' <=> Pending(q) \/ q = r
      BY <2>3 DEF Pending
    <3>7. ASSUME Calm' PROVE CalmInv'
      <4>1. CalmInv
        BY <1>b, <2>3, <3>7, CalmBefore
      <4>2. \A q \in Requests : Pending(q)' => pc'[q] = "line_end"
        BY <3>1, <3>6, <4>1 DEF CalmInv
      <4> QED
        BY <2>1, <2>3, <3>2, <3>5, <4>1, <4>2, CalmKept
    <3> QED
      BY <1>c, <3>3, <3>7
  <2> QED
    BY <1>4, <2>2, <2>3 DEF OpenLog
<1>5. ASSUME NEW r \in Requests, WriteLineEnd(r) PROVE ChainInv'
  <2>1. /\ UNCHANGED <<file, line_error, previous, faults>>
        /\ pc[r] = "line_end" /\ ~Pending(r)
    BY <1>5 DEF WriteLineEnd, Pending
  <2>2. \A q \in Requests : pc'[q] = IF q = r THEN "respond" ELSE pc[q]
    BY <1>a, <1>5 DEF WriteLineEnd, AppendFails, Go
  <2>3. \A q \in Requests : pc'[q] \notin {"open", "line_end"}
    BY <1>d, <2>1, <2>2
  <2>4. Fresh'
    BY <2>3
  <2>5. ASSUME Calm' PROVE CalmInv'
    <3>1. CalmInv
      BY <1>b, <2>1, <2>5, CalmBefore
    <3>2. r \notin line_error
      BY <3>1 DEF CalmInv
    <3>3. last_hash' = r /\ background' = background \cup {<<r, "line_end">>}
      BY <1>5, <3>2 DEF WriteLineEnd
    <3>4. r \in Written
      BY <2>1, <3>2 DEF WriteInv, Written
    <3>5. Written' = {}
      BY <2>3 DEF Written
    <3>6. \A q : Pending(q)' <=> Pending(q)
      BY <3>3 DEF Pending
    <3>7. \A q \in Requests : ~Pending(q)
      BY <1>d, <2>1, <3>1 DEF CalmInv
    <3>8. RecordAt' = RecordAt
      BY <2>1, FileKept
    <3>9. Starts' = Starts /\ TopIs(r)' /\ \A i : LinksToPrevious(i)' <=> LinksToPrevious(i)
      BY <2>1, <3>1, <3>4, <3>8 DEF Starts, TopIs, LinksToPrevious, Before, CalmInv
    <3>10. last_hash' # Genesis
      BY <3>3, GatewayAssumption
    <3>11. TopIs(last_hash)'
      BY <3>3, <3>9 DEF TopIs
    <3>12. Cardinality(Starts') <= faults'.crashes + 1
      BY <2>1, <3>1, <3>4, <3>9 DEF CalmInv
    <3>13. \A i \in RecordAt' : i \in Starts' \/ LinksToPrevious(i)'
      BY <3>1, <3>8, <3>9 DEF CalmInv
    <3>14. line_error' = {}
      BY <2>1, <3>1 DEF CalmInv
    <3> QED
      BY <3>5, <3>6, <3>7, <3>10, <3>11, <3>12, <3>13, <3>14 DEF CalmInv
  <2> QED
    BY <1>c, <2>4, <2>5
<1>6. ASSUME NEW r \in Requests, NEW what \in {"record", "line_end"}, PerformWrite(r, what)
      PROVE  ChainInv'
  <2>1. UNCHANGED <<last_hash, pc, previous>>
    BY <1>6 DEF PerformWrite, memory
  <2>2. Fresh'
    BY <1>b, <2>1
  <2>3. \A q : Pending(q)' => Pending(q)
    BY <1>6 DEF PerformWrite, Pending
  <2>4. ASSUME Calm' PROVE CalmInv'
    <3>1. /\ UNCHANGED <<line_error, faults>>
          /\ file' = Append(file, IF what = "record" THEN Record(r) ELSE LineEnd)
      BY <1>6, <2>4, CalmBefore DEF PerformWrite
    <3>2. CalmInv
      BY <1>b, <2>4, <3>1, CalmBefore
    <3>3. \A q \in Requests : Pending(q)' => pc[q] = "line_end"
      BY <2>3, <3>2 DEF CalmInv
    <3>4. CASE what = "record"
      <4>1. Pending(r) /\ ~OnFile(r)
        BY <1>6, <3>4 DEF PerformWrite, Pending, WriteInv
      <4>2. pc[r] = "line_end" /\ previous[r] = last_hash
        BY <1>b, <3>2, <4>1 DEF CalmInv
      <4>3. \A q \in Requests : pc[q] = "line_end" => q = r
        BY <1>d, <4>2
      <4>4. Written = {}
        BY <4>1, <4>3 DEF Written
      <4>5. file' = Append(file, Record(r))
        BY <3>1, <3>4
      <4> QED
        BY <2>1, <3>1, <3>2, <3>3, <4>2, <4>3, <4>4, <4>5, CalmAppend
    <3>5. CASE what = "line_end"
      <4>1. LineEnd.kind # "record" /\ LineEnd \in Entry /\ file' = Append(file, LineEnd)
        BY <3>1, <3>5 DEF LineEnd, Entry
      <4>2. RecordAt' = RecordAt /\ \A i \in RecordAt : file'[i] = file[i]
        BY <4>1, FileAppended
      <4>3. (\A h : OnFile(h)' <=> OnFile(h)) /\ (\A h : TopIs(h)' <=> TopIs(h))
        BY <4>2 DEF OnFile, TopIs
      <4>4. Starts' = Starts
        BY <4>2 DEF Starts
      <4>5. \A i \in RecordAt : LinksToPrevious(i) => LinksToPrevious(i)'
        <5>1. \A i : Before(i)' = Before(i) /\ Before(i) \subseteq RecordAt
          BY <4>2 DEF Before
        <5> QED
          BY <4>2, <5>1 DEF LinksToPrevious
      <4>6. Written' = Written
        BY <2>1, <4>3 DEF Written
      <4>7. TopIs(last_hash) => TopIs(last_hash)'
        BY <2>1, <4>2 DEF TopIs
      <4>8. line_error' = {} /\ \A q \in Written' : TopIs(q)'
        BY <3>1, <3>2, <4>3, <4>6 DEF CalmInv
      <4>9. Written' = {} => last_hash' = Genesis \/ TopIs(last_hash)'
        BY <2>1, <3>2, <4>6, <4>7 DEF CalmInv
      <4>10. Cardinality(Starts') <= faults'.crashes
                + (IF last_hash' = Genesis /\ Written' = {} THEN 0 ELSE 1)
        BY <2>1, <3>1, <3>2, <4>4, <4>6 DEF CalmInv
      <4>11. \A i \in RecordAt' : i \in Starts' \/ LinksToPrevious(i)'
        BY <3>2, <4>2, <4>4, <4>5 DEF CalmInv
      <4>12. \A q \in Requests : Pending(q)' => pc'[q] = "line_end"
        BY <2>1, <3>3
      <4> QED
        BY <4>8, <4>9, <4>10, <4>11, <4>12 DEF CalmInv
    <3> QED
      BY <3>4, <3>5
  <2> QED
    BY <1>c, <2>2, <2>4
<1>7. ASSUME NEW r \in Requests, Disconnect(r) PROVE ChainInv'
  <2>1. UNCHANGED <<last_hash, previous>>
    BY <1>7 DEF Disconnect
  <2>2. \A q \in Requests : pc'[q] \in {"open", "line_end"} => pc'[q] = pc[q]
    BY <1>a, <1>7 DEF Disconnect, Go
  <2>3. Fresh'
    BY <1>b, <2>1, <2>2
  <2>4. ~Calm'
    <3>1. faults.disconnects \in Nat /\ DOMAIN faults = {"crashes", "disconnects", "failures"}
      BY GatewayAssumption DEF TypeOK
    <3>2. faults'.disconnects = faults.disconnects + 1
      BY <1>7, <3>1 DEF Disconnect
    <3> QED
      BY <3>1, <3>2 DEF Calm
  <2> QED
    BY <1>c, <2>3, <2>4
<1>8. CASE Crash
  <2>1. UNCHANGED <<file, line_error, previous>> /\ last_hash' = Genesis /\ background' = {}
    BY <1>8 DEF Crash
  <2>2. \A q \in Requests : pc'[q] \notin {"open", "line_end"}
    BY <1>a, <1>8 DEF Crash, Running, Final
  <2>3. Fresh' /\ Written' = {} /\ \A q : ~Pending(q)'
    BY <2>1, <2>2 DEF Written, Pending
  <2>4. ASSUME Calm' PROVE CalmInv'
    <3>1. /\ faults.crashes \in Nat
          /\ DOMAIN faults = {"crashes", "disconnects", "failures"}
      BY GatewayAssumption DEF TypeOK
    <3>2. /\ faults'.crashes = faults.crashes + 1
          /\ faults'.disconnects = faults.disconnects /\ faults'.failures = faults.failures
      BY <1>8, <3>1 DEF Crash
    <3>3. CalmInv
      BY <1>b, <2>4, <3>2 DEF Calm
    <3>4. RecordAt' = RecordAt
      BY <2>1, FileKept
    <3>5. Starts' = Starts /\ \A i : LinksToPrevious(i)' <=> LinksToPrevious(i)
      BY <2>1, <3>4 DEF Starts, LinksToPrevious, Before
    <3>6. Cardinality(Starts') <= faults'.crashes
      <4>1. Cardinality(Starts) \in Nat /\ Cardinality(Starts) <= faults.crashes + 1
        <5>1. \/ Cardinality(Starts) <= faults.crashes + 0
              \/ Cardinality(Starts) <= faults.crashes + 1
          BY <3>3 DEF CalmInv
        <5> QED
          BY <3>1, <5>1, StartsFinite
      <4> QED
        BY <3>1, <3>2, <3>5, <4>1
    <3>7. \A i \in RecordAt' : i \in Starts' \/ LinksToPrevious(i)'
      BY <3>3, <3>4, <3>5 DEF CalmInv
    <3>8. line_error' = {}
      BY <2>1, <3>3 DEF CalmInv
    <3>9. Cardinality(Starts') <= faults'.crashes
              + (IF last_hash' = Genesis /\ Written' = {} THEN 0 ELSE 1)
      <4>1. faults'.crashes + 0 = faults'.crashes
        BY <3>1, <3>2
      <4> QED
        BY <2>1, <2>3, <3>6, <4>1
    <3>10. \A q \in Written' : TopIs(q)'
      BY <2>3
    <3>11. Written' = {} => last_hash' = Genesis \/ TopIs(last_hash)'
      BY <2>1
    <3>12. \A q \in Requests : Pending(q)' => pc'[q] = "line_end"
      BY <2>3
    <3> QED
      BY <3>7, <3>8, <3>9, <3>10, <3>11, <3>12 DEF CalmInv
  <2> QED
    BY <1>c, <2>3, <2>4
<1> QED
  BY <1>1, <1>2, <1>3, <1>4, <1>5, <1>6, <1>7, <1>8 DEF Next, Handle, Write, AtRest

(* Without departures and failures the file is one chain per life of the   *)
(* process, however many requests are handled at once.                     *)
THEOREM ChainPerLife == Spec => []OneChainPerLife
<1>1. Init => ChainInv
  <2> SUFFICES ASSUME Init PROVE ChainInv
    OBVIOUS
  <2>1. RecordAt = {}
    BY DEF Init, RecordAt
  <2>2. Starts = {} /\ Written = {}
    BY <2>1 DEF Starts, Written, OnFile
  <2>3. Cardinality(Starts) = 0
    BY <2>2, FS_EmptySet
  <2> QED
    BY <2>1, <2>2, <2>3 DEF Init, ChainInv, CalmInv, Pending
<1>2. IInv /\ ChainInv /\ [Next]_vars => ChainInv'
  BY NextChain DEF IInv
<1>3. TypeOK /\ ChainInv => OneChainPerLife
  <2>1. TypeOK => faults.crashes \in Nat /\ Cardinality(Starts) \in Nat
    BY GatewayAssumption, StartsFinite DEF TypeOK
  <2> QED
    BY <2>1 DEF ChainInv, CalmInv, OneChainPerLife
<1>4. IInv => TypeOK
  BY DEF IInv
<1> QED
  BY GatewayInvariant, <1>1, <1>2, <1>3, <1>4, PTL DEF Spec
=============================================================================
