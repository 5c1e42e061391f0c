-------------------------- MODULE PaymentRailProofs --------------------------
(***************************************************************************)
(* Theorems about PaymentRail for any runs of the adapter, other payers,   *)
(* policy, envelopes and number of faults.  The inductive invariant is     *)
(* IInv of PaymentRailProperties.                                          *)
(***************************************************************************)
EXTENDS PaymentRailProperties, TLAPS, FiniteSetTheorems, SequenceTheorems

(* What an append does to the lines of the ledger.                         *)
LEMMA LineAppended ==
    ASSUME TypeOK, NEW c \in Customers
    PROVE  LET s == Append(lines, Transaction(c))
               top == Len(lines) + 1
           IN  /\ s \in Seq(Transactions) /\ top \in Nat /\ top \notin DOMAIN lines
               /\ DOMAIN s = DOMAIN lines \cup {top}
               /\ s[top] = Transaction(c)
               /\ \A i \in DOMAIN lines : s[i] = lines[i]
<1> DEFINE r == Transaction(c)
           top == Len(lines) + 1
<1>1. Len(lines) \in Nat /\ DOMAIN lines = 1..Len(lines)
  BY DEF TypeOK
<1>2. r \in Transactions
  BY <1>1 DEF Transaction, Transactions
<1> HIDE DEF r
<1>3. /\ Append(lines, r) \in Seq(Transactions)
      /\ DOMAIN Append(lines, r) = 1..top
      /\ Append(lines, r)[top] = r
      /\ \A i \in 1..Len(lines) : Append(lines, r)[i] = lines[i]
  BY <1>1, <1>2 DEF TypeOK
<1>4. 1..top = (1..Len(lines)) \cup {top} /\ top \notin 1..Len(lines)
  BY <1>1
<1> QED
  BY <1>1, <1>3, <1>4 DEF r

(* What a cancellation does to the lines of the ledger.                    *)
LEMMA LineCancelled ==
    ASSUME TypeOK, NEW i \in DOMAIN lines
    PROVE  /\ Cancelled(i) \in Seq(Transactions)
           /\ DOMAIN Cancelled(i) = DOMAIN lines
           /\ \A j \in DOMAIN lines :
                 /\ Cancelled(i)[j].payer = lines[j].payer
                 /\ Cancelled(i)[j].id = lines[j].id
                 /\ Cancelled(i)[j].origin = lines[j].origin
                 /\ j # i => Cancelled(i)[j].status = lines[j].status
<1>1. lines[i] \in Transactions /\ lines \in Seq(Transactions)
  BY DEF TypeOK
<1> DEFINE r == [lines[i] EXCEPT !.status = "MOCK_CANCELLED"]
<1>2. /\ r \in Transactions
      /\ r.payer = lines[i].payer /\ r.id = lines[i].id /\ r.origin = lines[i].origin
  BY <1>1 DEF Transactions
<1>3. Cancelled(i) = [lines EXCEPT ![i] = r]
  BY DEF Cancelled
<1> HIDE DEF r
<1> QED
  BY <1>1, <1>2, <1>3

(* What a crash leaves of a rewrite.                                       *)
LEMMA LinesCut ==
    ASSUME TypeOK, NEW k \in 0..Len(rewritten)
    PROVE  /\ SubSeq(rewritten, 1, k) \in Seq(Transactions)
           /\ DOMAIN SubSeq(rewritten, 1, k) \subseteq DOMAIN rewritten
           /\ \A i \in DOMAIN SubSeq(rewritten, 1, k) : SubSeq(rewritten, 1, k)[i] = rewritten[i]
<1>1. rewritten \in Seq(Transactions) /\ Len(rewritten) \in Nat
      /\ DOMAIN rewritten = 1..Len(rewritten)
  BY DEF TypeOK
<1>2. \A i \in 1..k : rewritten[i] \in Transactions
  BY <1>1
<1>3. /\ SubSeq(rewritten, 1, k) \in Seq(Transactions)
      /\ Len(SubSeq(rewritten, 1, k)) = k
      /\ \A i \in 1..k : SubSeq(rewritten, 1, k)[i] = rewritten[i]
  BY <1>1, <1>2, SubSeqProperties
<1>4. DOMAIN SubSeq(rewritten, 1, k) = 1..k
  BY <1>3
<1> QED
  BY <1>1, <1>3, <1>4

LEMMA PayersAreCustomers ==
    ASSUME NEW content \in Seq(Transactions)
    PROVE  Recorded(content) \subseteq Customers
<1>1. \A i \in DOMAIN content : content[i] \in Transactions
  OBVIOUS
<1> QED
  BY <1>1 DEF Recorded, Transactions

LEMMA EmptyIsSound ==
    /\ << >> \in Seq(Transactions) /\ DOMAIN << >> = {}
    /\ Sound(<< >>) /\ Recorded(<< >>) = {}
BY DEF Sound, Recorded

LEMMA ClientTypes ==
    /\ Adapters \subseteq Clients /\ Payers \subseteq Clients /\ Undo \in Clients
    /\ Agent \in Adapters /\ Agent # Undo /\ Agent \in Customers
    /\ Clients = Customers \cup {Undo} /\ Undo \notin Customers
    /\ Nobody \notin Clients
BY RailAssumption DEF Clients, Customers

(* The read-back picks the one executed payment of an agent.               *)
LEMMA ReadbackPicks ==
    ASSUME TypeOK, Readback, script' = "cancel"
    PROVE  \E i \in DOMAIN lines :
              Executed("agent") = {i} /\ victim' = lines[i].id
<1>1. Cardinality(Executed("agent")) = 1
  BY DEF Readback, ReadLedger, Diverged
<1>2. Executed("agent") \subseteq 1..Len(lines) /\ Len(lines) \in Nat
  BY DEF Executed, TypeOK
<1>3. IsFiniteSet(1..Len(lines))
  BY <1>2, FS_Interval
<1>4. IsFiniteSet(Executed("agent"))
  BY <1>2, <1>3, FS_Subset
<1>5. PICK i : Executed("agent") = {i}
  BY <1>1, <1>4, FS_Singleton
<1>6. (CHOOSE j \in Executed("agent") : TRUE) = i
  BY <1>5
<1>7. victim' = lines[i].id
  BY <1>6 DEF Readback
<1> QED
  BY <1>5, <1>7 DEF Executed

-----------------------------------------------------------------------------
LEMMA InitIInv == Init => IInv
<1> SUFFICES ASSUME Init PROVE IInv
  OBVIOUS
<1> USE EmptyIsSound, ClientTypes
<1>1. TypeOK
  BY DEF Init, TypeOK, Labels, Steps, NoTransaction
<1>2. LockInv /\ GrantInv
  BY DEF Init, LockInv, GrantInv, GrantOf, SerialOf, Saved, Unsaved
<1>3. LedgerInv /\ CompleteInv
  BY DEF Init, LedgerInv, CompleteInv
<1>4. PaidInv /\ SceneInv
  BY DEF Init, PaidInv, SceneInv, Untouched
<1> QED
  BY <1>1, <1>2, <1>3, <1>4 DEF IInv

(* The guard's thread moves the guard's files and its own place.           *)
LEMMA GuardFrame ==
    ASSUME NEW a \in Adapters, Persist(a) \/ GuardLost(a)
    PROVE  /\ pc[a] \in {"judged", "recorded", "saving"}
           /\ \E label \in {"recorded", "saving", "evaluated", "lost"} :
                 pc' = [pc EXCEPT ![a] = label]
           /\ UNCHANGED <<decision, overlapped, ledger, plan, executed, crashes>>
BY DEF Persist, AppendAudit, LoadStore, SaveStore, GuardLost, Go, Unsaved

(* The scenario itself moves nothing but its own state.                    *)
LEMMA ScriptFrame ==
    ASSUME Script
    PROVE  UNCHANGED <<guard, ledger, pc, executed, crashes, faults>>
BY DEF Script, Observe, RivalPaid, AgentPaid, Readback, VictimUndone, Check, ReadLedger, Await

-----------------------------------------------------------------------------
LEMMA TypeStep ==
    ASSUME TypeOK, Next
    PROVE  TypeOK'
<1> USE ClientTypes DEF guard, ledger, plan, Go
<1>1. ASSUME NEW a \in Adapters, Evaluate(a)  PROVE TypeOK'
  <2>1. GuardAnswer(a) \in {"ACCEPT", "HOLD", "BLOCK"}
    BY RailAssumption DEF GuardAnswer
  <2>2. /\ overlapped' \in BOOLEAN
        /\ \E label \in {"judged", "evaluated"} : pc' = [pc EXCEPT ![a] = label]
    BY <1>1 DEF Evaluate, TypeOK
  <2> QED
    BY <1>1, <2>1, <2>2 DEF Evaluate, TypeOK, Labels
<1>2. ASSUME NEW c \in Clients, Call(c)  PROVE TypeOK'
  BY <1>2 DEF Call, TypeOK, Labels
<1>3. ASSUME NEW a \in Adapters, GuardReply(a)  PROVE TypeOK'
  BY <1>3 DEF GuardReply, TypeOK, Labels, Failure
<1>4. ASSUME NEW c \in Clients, AppendTransaction(c)  PROVE TypeOK'
  <2>1. CASE Unreadable(c)
    BY <1>4, <2>1 DEF AppendTransaction, Unreadable, TypeOK, Labels
  <2>2. CASE Rewrite(c, Append(lines, Transaction(c)))
    <3>1. c \in Customers
      BY <1>4 DEF AppendTransaction, Customers
    <3>2. rewritten' \in Seq(Transactions)
      BY <2>2, <3>1, LineAppended DEF Rewrite
    <3> QED
      BY <1>4, <2>2, <3>2, EmptyIsSound DEF AppendTransaction, Rewrite, TypeOK, Labels
  <2> QED
    BY <1>4, <2>1, <2>2 DEF AppendTransaction
<1>5. ASSUME CancelTransaction  PROVE TypeOK'
  <2>1. CASE Unreadable(Undo) \/ (Go(Undo, "failed") /\ UNCHANGED ledger)
    BY <1>5, <2>1 DEF CancelTransaction, Unreadable, TypeOK, Labels
  <2>2. ASSUME NEW i \in Victims, Rewrite(Undo, Cancelled(i))  PROVE TypeOK'
    <3>1. rewritten' \in Seq(Transactions)
      BY <2>2, LineCancelled DEF Rewrite, Victims
    <3> QED
      BY <1>5, <2>2, <3>1, EmptyIsSound DEF CancelTransaction, Rewrite, TypeOK, Labels
  <2> QED
    BY <1>5, <2>1, <2>2 DEF CancelTransaction
<1>6. ASSUME NEW c \in Clients, FinishRewrite(c)  PROVE TypeOK'
  BY <1>6, EmptyIsSound DEF FinishRewrite, TypeOK, Labels
<1>7. ASSUME NEW c \in Clients, RailReply(c)  PROVE TypeOK'
  BY <1>7 DEF RailReply, TypeOK, Labels, Failure
<1>8. ASSUME CrashRail  PROVE TypeOK'
  <2>1. lines' \in Seq(Transactions) /\ torn' \in BOOLEAN
    BY <1>8, LinesCut DEF CrashRail, TypeOK
  <2> QED
    BY <1>8, <2>1, EmptyIsSound DEF CrashRail, TypeOK, Labels, Failure
<1>9. ASSUME Script  PROVE TypeOK'
  <2>1. script' \in Steps
    BY <1>9 DEF Script, Observe, RivalPaid, AgentPaid, Readback, VictimUndone, Check, ReadLedger,
                Await, Steps
  <2>2. victim' \in Nat
    <3>1. CASE Readback /\ script' = "cancel"
      <4>1. PICK i \in DOMAIN lines : victim' = lines[i].id
        BY <3>1, ReadbackPicks
      <4>2. lines[i] \in Transactions
        BY DEF TypeOK
      <4> QED
        BY <4>1, <4>2 DEF Transactions
    <3>2. CASE ~(Readback /\ script' = "cancel")
      BY <1>9, <3>2 DEF Script, Observe, RivalPaid, AgentPaid, Readback, VictimUndone, Check, Await,
                        TypeOK
    <3> QED
      BY <3>1, <3>2
  <2> QED
    BY <1>9, <2>1, <2>2, ScriptFrame DEF TypeOK
<1>10. ASSUME AtRest  PROVE TypeOK'
  BY <1>10 DEF AtRest, vars, TypeOK
<1>11. ASSUME NEW a \in Adapters, Persist(a) \/ GuardLost(a)  PROVE TypeOK'
  <2>1. faults' \in Nat
    BY <1>11 DEF Persist, AppendAudit, LoadStore, SaveStore, GuardLost, Failure, TypeOK
  <2>2. /\ spent' \subseteq {NonceOf[b] : b \in Adapters}
        /\ recorded' \subseteq {NonceOf[b] : b \in Adapters}
        /\ loaded' \in [Adapters -> SUBSET {NonceOf[b] : b \in Adapters}]
    BY <1>11 DEF Persist, AppendAudit, LoadStore, SaveStore, GuardLost, TypeOK
  <2> QED
    BY <1>11, <2>1, <2>2, GuardFrame DEF TypeOK, Labels
<1> QED
  BY <1>1, <1>2, <1>3, <1>4, <1>5, <1>6, <1>7, <1>8, <1>9, <1>10, <1>11 DEF Next, Arrive, Proceed

-----------------------------------------------------------------------------
LEMMA LockStep ==
    ASSUME TypeOK, LockInv, Next
    PROVE  LockInv'
<1> USE ClientTypes DEF guard, ledger, plan, Go, TypeOK, LockInv
<1>1. ASSUME NEW a \in Adapters, Evaluate(a)  PROVE LockInv'
  BY <1>1 DEF Evaluate
<1>2. ASSUME NEW c \in Clients, Call(c)  PROVE LockInv'
  BY <1>2 DEF Call
<1>3. ASSUME NEW a \in Adapters, GuardReply(a)  PROVE LockInv'
  BY <1>3 DEF GuardReply
<1>4. ASSUME NEW c \in Clients, AppendTransaction(c)  PROVE LockInv'
  BY <1>4 DEF AppendTransaction, Unreadable, Rewrite
<1>5. ASSUME CancelTransaction  PROVE LockInv'
  BY <1>5 DEF CancelTransaction, Unreadable, Rewrite
<1>6. ASSUME NEW c \in Clients, FinishRewrite(c)  PROVE LockInv'
  BY <1>6 DEF FinishRewrite
<1>7. ASSUME NEW c \in Clients, RailReply(c)  PROVE LockInv'
  BY <1>7 DEF RailReply
<1>8. ASSUME CrashRail  PROVE LockInv'
  BY <1>8 DEF CrashRail, AtTheRail
<1>9. ASSUME Script  PROVE LockInv'
  BY <1>9, ScriptFrame
<1>10. ASSUME AtRest  PROVE LockInv'
  BY <1>10 DEF AtRest, vars
<1>11. ASSUME NEW a \in Adapters, Persist(a) \/ GuardLost(a)  PROVE LockInv'
  BY <1>11, GuardFrame
<1> QED
  BY <1>1, <1>2, <1>3, <1>4, <1>5, <1>6, <1>7, <1>8, <1>9, <1>10, <1>11 DEF Next, Arrive, Proceed

-----------------------------------------------------------------------------
(* What a run may do that the guard has done with.                         *)
Onwards(a) ==
    /\ pc[a] \notin {"new", "judged", "recorded", "saving", "lost"}
    /\ pc'[a] \in Labels \ {"new", "judged", "recorded", "saving"}
    /\ pc'[a] \in {"sent", "writing", "reply", "done"} => decision[a] = "ACCEPT"

(* A step that does not concern the guard leaves its grants as they are.   *)
LEMMA GrantFrame ==
    ASSUME TypeOK, GrantInv, UNCHANGED guard,
           \A a \in Adapters : pc'[a] = pc[a] \/ Onwards(a)
    PROVE  GrantInv'
<1>1. Unsaved' = Unsaved
  BY DEF Unsaved, Onwards
<1>2. UNCHANGED <<spent, loaded, decision, overlapped>>
  BY DEF guard
<1>3. \A a \in Adapters : Saved(a)' => Saved(a)
  BY <1>1, <1>2 DEF Saved, Onwards
<1>4. \A a \in Adapters : /\ pc'[a] = "new" => pc[a] = "new"
                          /\ pc'[a] = "saving" => pc[a] = "saving"
                          /\ pc'[a] \in {"sent", "writing", "reply", "done"} =>
                                 decision[a] = "ACCEPT"
  BY DEF Onwards, GrantInv, GrantOf
<1>5. \A a \in Adapters : GrantOf(a)'
  BY <1>1, <1>2, <1>4 DEF GrantInv, GrantOf
<1>6. ~overlapped => \A a \in Adapters : SerialOf(a)'
  BY <1>1, <1>2, <1>3, <1>4 DEF GrantInv, SerialOf
<1> QED
  BY <1>2, <1>5, <1>6 DEF GrantInv

LEMMA GrantStep ==
    ASSUME TypeOK, GrantInv, Next
    PROVE  GrantInv'
<1> USE ClientTypes
<1>0. pc \in [Clients -> Labels]
  BY DEF TypeOK
<1>a. ASSUME NEW c \in Clients, NEW label \in Labels \ {"new", "judged", "recorded", "saving"},
             UNCHANGED guard, pc' = [pc EXCEPT ![c] = label],
             c \in Adapters => pc[c] \notin {"new", "judged", "recorded", "saving", "lost"},
             c \in Adapters /\ label \in {"sent", "writing", "reply", "done"} =>
                decision[c] = "ACCEPT"
      PROVE  GrantInv'
  <2>1. pc'[c] = label /\ \A d \in Clients \ {c} : pc'[d] = pc[d]
    BY <1>0, <1>a
  <2>2. \A a \in Adapters : pc'[a] = pc[a] \/ Onwards(a)
    BY <1>a, <2>1 DEF Onwards
  <2> QED
    BY <1>a, <2>2, GrantFrame
<1>b. ASSUME UNCHANGED guard, UNCHANGED pc  PROVE GrantInv'
  BY <1>b DEF guard, GrantInv, GrantOf, SerialOf, Saved, Unsaved
<1>1. ASSUME NEW a \in Adapters, Evaluate(a)  PROVE GrantInv'
  <2>1. /\ pc[a] = "new" /\ decision' = [decision EXCEPT ![a] = GuardAnswer(a)]
        /\ UNCHANGED <<spent, recorded, loaded>>
    BY <1>1 DEF Evaluate
  <2>2. /\ decision[a] = "NONE" /\ a \notin Unsaved
        /\ decision'[a] = GuardAnswer(a) /\ \A b \in Adapters \ {a} : decision'[b] = decision[b]
    BY <2>1 DEF GrantInv, GrantOf, Unsaved, TypeOK
  <2>3. CASE GuardAnswer(a) = "ACCEPT" /\ NonceOf[a] # NoNonce
    <3>1. pc' = [pc EXCEPT ![a] = "judged"] /\ overlapped' = (overlapped \/ Unsaved # {})
      BY <1>1, <2>3 DEF Evaluate, Go
    <3>2. pc'[a] = "judged" /\ \A b \in Adapters \ {a} : pc'[b] = pc[b]
      BY <1>0, <3>1
    <3>3. Unsaved' = Unsaved \cup {a}
      BY <3>2 DEF Unsaved
    <3>4. \A b \in Adapters : GrantOf(b)'
      BY <2>2, <2>3, <3>2, <3>3 DEF GrantInv, GrantOf
    <3>5. NonceOf[a] \notin spent
      BY <2>3 DEF GuardAnswer, Replayed
    <3>6. \A b \in Adapters : Saved(b)' => b # a /\ Saved(b)
      BY <2>2, <3>2, <3>3 DEF Saved
    <3>7. ASSUME ~overlapped', NEW b \in Adapters  PROVE SerialOf(b)'
      <4>1. Unsaved = {} /\ ~overlapped /\ SerialOf(b)
        BY <3>1, <3>7 DEF GrantInv
      <4>2. b \in Unsaved' => Unsaved' = {b} /\ NonceOf[b] \notin spent'
        BY <2>1, <3>3, <3>5, <4>1
      <4>3. pc'[b] = "saving" => loaded'[b] = spent'
        BY <2>1, <3>2, <4>1 DEF SerialOf
      <4>4. Saved(b)' => NonceOf[b] \in spent' \cup {NoNonce}
        BY <2>1, <3>6, <4>1 DEF SerialOf
      <4>5. \A d \in Adapters :
               Saved(b)' /\ Saved(d)' /\ NonceOf[b] = NonceOf[d] /\ NonceOf[b] # NoNonce => b = d
        BY <3>6, <4>1 DEF SerialOf
      <4> QED
        BY <4>2, <4>3, <4>4, <4>5 DEF SerialOf
    <3> QED
      BY <3>4, <3>7 DEF GrantInv
  <2>4. CASE GuardAnswer(a) # "ACCEPT" \/ NonceOf[a] = NoNonce
    <3>1. pc' = [pc EXCEPT ![a] = "evaluated"] /\ overlapped' = overlapped
      BY <1>1, <2>4 DEF Evaluate, Go
    <3>2. pc'[a] = "evaluated" /\ \A b \in Adapters \ {a} : pc'[b] = pc[b]
      BY <1>0, <3>1
    <3>3. Unsaved' = Unsaved
      BY <2>2, <3>2 DEF Unsaved
    <3>4. \A b \in Adapters : GrantOf(b)'
      BY <2>2, <3>2, <3>3 DEF GrantInv, GrantOf
    <3>5. \A b \in Adapters \ {a} : Saved(b)' => Saved(b)
      BY <2>2, <3>2, <3>3 DEF Saved
    <3>6. Saved(a)' => NonceOf[a] = NoNonce
      BY <2>2, <2>4 DEF Saved
    <3>7. ASSUME ~overlapped', NEW b \in Adapters  PROVE SerialOf(b)'
      <4>1. SerialOf(b)
        BY <3>1, <3>7 DEF GrantInv
      <4>2. b \in Unsaved' => Unsaved' = {b} /\ NonceOf[b] \notin spent'
        BY <2>1, <3>3, <4>1 DEF SerialOf
      <4>3. pc'[b] = "saving" => loaded'[b] = spent'
        BY <2>1, <3>2, <4>1 DEF SerialOf
      <4>4. Saved(b)' => NonceOf[b] \in spent' \cup {NoNonce}
        BY <2>1, <3>5, <3>6, <4>1 DEF SerialOf
      <4>5. \A d \in Adapters :
               Saved(b)' /\ Saved(d)' /\ NonceOf[b] = NonceOf[d] /\ NonceOf[b] # NoNonce => b = d
        BY <3>5, <3>6, <4>1 DEF SerialOf
      <4> QED
        BY <4>2, <4>3, <4>4, <4>5 DEF SerialOf
    <3> QED
      BY <3>4, <3>7 DEF GrantInv
  <2> QED
    BY <2>3, <2>4
<1>2. ASSUME NEW c \in Clients, Call(c)  PROVE GrantInv'
  BY <1>2, <1>a DEF Call, Go, Labels
<1>3. ASSUME NEW a \in Adapters, GuardReply(a)  PROVE GrantInv'
  <2>1. PICK label \in {"sent", "refused", "failed"} :
           pc' = [pc EXCEPT ![a] = label] /\ (label = "sent" => decision[a] = "ACCEPT")
    BY <1>3 DEF GuardReply, Go, Forwards
  <2> QED
    BY <1>3, <1>a, <2>1 DEF GuardReply, Labels
<1>4. ASSUME NEW c \in Clients, AppendTransaction(c)  PROVE GrantInv'
  <2>1. PICK label \in {"writing", "failed"} : pc' = [pc EXCEPT ![c] = label]
    BY <1>4 DEF AppendTransaction, Unreadable, Rewrite, Go
  <2>2. UNCHANGED guard /\ pc[c] = "sent"
    BY <1>4 DEF AppendTransaction
  <2>3. c \in Adapters => decision[c] = "ACCEPT"
    BY <2>2 DEF GrantInv, GrantOf
  <2> QED
    BY <1>a, <2>1, <2>2, <2>3 DEF Labels
<1>5. ASSUME CancelTransaction  PROVE GrantInv'
  <2>1. PICK label \in {"writing", "failed"} : pc' = [pc EXCEPT ![Undo] = label]
    BY <1>5 DEF CancelTransaction, Unreadable, Rewrite, Go
  <2> QED
    BY <1>5, <1>a, <2>1 DEF CancelTransaction, Labels, Customers
<1>6. ASSUME NEW c \in Clients, FinishRewrite(c)  PROVE GrantInv'
  <2>1. UNCHANGED guard /\ pc[c] = "writing" /\ pc' = [pc EXCEPT ![c] = "reply"]
    BY <1>6 DEF FinishRewrite, Go
  <2>2. c \in Adapters => decision[c] = "ACCEPT"
    BY <2>1 DEF GrantInv, GrantOf
  <2> QED
    BY <1>a, <2>1, <2>2 DEF Labels
<1>7. ASSUME NEW c \in Clients, RailReply(c)  PROVE GrantInv'
  <2>1. PICK label \in {"done", "failed"} : pc' = [pc EXCEPT ![c] = label]
    BY <1>7 DEF RailReply, Go
  <2>2. UNCHANGED guard /\ pc[c] = "reply"
    BY <1>7 DEF RailReply
  <2>3. c \in Adapters => decision[c] = "ACCEPT"
    BY <2>2 DEF GrantInv, GrantOf
  <2> QED
    BY <1>a, <2>1, <2>2, <2>3 DEF Labels
<1>8. ASSUME CrashRail  PROVE GrantInv'
  <2>1. UNCHANGED guard /\ pc' = [c \in Clients |-> IF c \in AtTheRail THEN "failed" ELSE pc[c]]
    BY <1>8 DEF CrashRail
  <2>2. \A c \in AtTheRail : pc[c] \in {"sent", "writing", "reply"}
    BY DEF AtTheRail
  <2>3. \A a \in Adapters : pc'[a] = pc[a] \/ Onwards(a)
    BY <2>1, <2>2 DEF Onwards, Labels
  <2> QED
    BY <2>1, <2>3, GrantFrame
<1>9. ASSUME Script  PROVE GrantInv'
  BY <1>9, <1>b, ScriptFrame
<1>10. ASSUME AtRest  PROVE GrantInv'
  BY <1>10, <1>b DEF AtRest, vars
<1>11. ASSUME NEW a \in Adapters, AppendAudit(a) \/ LoadStore(a)  PROVE GrantInv'
  <2>1. PICK label \in {"recorded", "saving"} :
           pc' = [pc EXCEPT ![a] = label] /\ (label = "saving" => loaded' = [loaded EXCEPT ![a] = spent])
    BY <1>11 DEF AppendAudit, LoadStore, Go
  <2>2. /\ a \in Unsaved /\ UNCHANGED <<spent, decision, overlapped>>
        /\ loaded' = loaded \/ loaded' = [loaded EXCEPT ![a] = spent]
    BY <1>11 DEF AppendAudit, LoadStore, Unsaved
  <2>3. pc'[a] = label /\ \A b \in Adapters \ {a} : pc'[b] = pc[b]
    BY <1>0, <2>1
  <2>4. Unsaved' = Unsaved
    BY <2>2, <2>3 DEF Unsaved
  <2>5. \A b \in Adapters : GrantOf(b)'
    BY <2>2, <2>3, <2>4 DEF GrantInv, GrantOf
  <2>6. \A b \in Adapters : Saved(b)' => Saved(b)
    BY <2>2, <2>3, <2>4 DEF Saved
  <2>7. \A b \in Adapters : pc'[b] = "saving" => (pc[b] = "saving" /\ b # a) \/ loaded'[b] = spent'
    BY <2>1, <2>2, <2>3 DEF TypeOK
  <2>8. \A b \in Adapters \ {a} : loaded'[b] = loaded[b]
    BY <2>2 DEF TypeOK
  <2>9. ~overlapped => \A b \in Adapters : SerialOf(b)'
    BY <2>2, <2>4, <2>6, <2>7, <2>8 DEF GrantInv, SerialOf
  <2> QED
    BY <2>2, <2>5, <2>9 DEF GrantInv
<1>12. ASSUME NEW a \in Adapters, SaveStore(a)  PROVE GrantInv'
  <2>1. /\ pc[a] = "saving" /\ pc' = [pc EXCEPT ![a] = "evaluated"]
        /\ spent' = loaded[a] \cup {NonceOf[a]} /\ loaded' = [loaded EXCEPT ![a] = {}]
        /\ UNCHANGED <<decision, overlapped>>
    BY <1>12 DEF SaveStore, Go
  <2>2. pc'[a] = "evaluated" /\ \A b \in Adapters \ {a} : pc'[b] = pc[b]
    BY <1>0, <2>1
  <2>3. Unsaved' = Unsaved \ {a} /\ a \in Unsaved
    BY <2>1, <2>2 DEF Unsaved
  <2>4. \A b \in Adapters : GrantOf(b)'
    BY <2>1, <2>2, <2>3 DEF GrantInv, GrantOf
  <2>5. \A b \in Adapters \ {a} : Saved(b)' => Saved(b)
    BY <2>1, <2>2, <2>3 DEF Saved
  <2>6. ASSUME ~overlapped, NEW b \in Adapters  PROVE SerialOf(b)'
    <3>1. \A d \in Adapters : SerialOf(d)
      BY <2>6 DEF GrantInv
    <3>2. Unsaved = {a} /\ NonceOf[a] \notin spent /\ loaded[a] = spent
      BY <2>1, <2>3, <3>1 DEF SerialOf
    <3>3. spent' = spent \cup {NonceOf[a]}
      BY <2>1, <3>2
    <3>4. Unsaved' = {}
      BY <2>3, <3>2
    <3>5. pc'[b] # "saving"
      BY <3>4 DEF Unsaved
    <3>6. Saved(b)' => NonceOf[b] \in spent' \cup {NoNonce}
      BY <2>5, <3>1, <3>3 DEF SerialOf
    <3>7. ASSUME NEW d \in Adapters, Saved(b)', Saved(d)', NonceOf[b] = NonceOf[d],
                 NonceOf[b] # NoNonce
          PROVE  b = d
      <4>1. b = a => d = a
        BY <2>5, <3>1, <3>2, <3>7 DEF SerialOf
      <4>2. d = a => b = a
        BY <2>5, <3>1, <3>2, <3>7 DEF SerialOf
      <4>3. b # a /\ d # a => b = d
        BY <2>5, <3>1, <3>7 DEF SerialOf
      <4> QED
        BY <4>1, <4>2, <4>3
    <3> QED
      BY <3>4, <3>5, <3>6, <3>7 DEF SerialOf
  <2> QED
    BY <2>1, <2>4, <2>6 DEF GrantInv
<1>13. ASSUME NEW a \in Adapters, GuardLost(a)  PROVE GrantInv'
  <2>1. /\ a \in Unsaved /\ pc' = [pc EXCEPT ![a] = "lost"] /\ loaded' = [loaded EXCEPT ![a] = {}]
        /\ UNCHANGED <<spent, decision, overlapped>>
    BY <1>13 DEF GuardLost, Go
  <2>2. pc'[a] = "lost" /\ \A b \in Adapters \ {a} : pc'[b] = pc[b]
    BY <1>0, <2>1
  <2>3. Unsaved' = Unsaved \ {a}
    BY <2>1, <2>2 DEF Unsaved
  <2>4. \A b \in Adapters : GrantOf(b)'
    BY <2>1, <2>2, <2>3 DEF GrantInv, GrantOf
  <2>5. \A b \in Adapters : Saved(b)' => b # a /\ Saved(b)
    BY <2>1, <2>2, <2>3 DEF Saved
  <2>6. ASSUME ~overlapped, NEW b \in Adapters  PROVE SerialOf(b)'
    <3>1. SerialOf(b) /\ SerialOf(a)
      BY <2>6 DEF GrantInv
    <3>2. Unsaved' = {}
      BY <2>1, <2>3, <3>1 DEF SerialOf
    <3>3. pc'[b] # "saving"
      BY <3>2 DEF Unsaved
    <3> QED
      BY <2>1, <2>5, <3>1, <3>2, <3>3 DEF SerialOf
  <2> QED
    BY <2>1, <2>4, <2>6 DEF GrantInv
<1> QED
  BY <1>1, <1>2, <1>3, <1>4, <1>5, <1>6, <1>7, <1>8, <1>9, <1>10, <1>11, <1>12, <1>13
     DEF Next, Arrive, Proceed, Persist

-----------------------------------------------------------------------------
(* Whoever has been served stays so.                                       *)
LEMMA ServedStays ==
    ASSUME TypeOK, Next, NEW d \in Clients, Served(d)
    PROVE  Served(d)'
<1> USE ClientTypes DEF guard, ledger, plan, Go, TypeOK, Served
<1>1. ASSUME NEW a \in Adapters, Evaluate(a)  PROVE Served(d)'
  BY <1>1 DEF Evaluate
<1>2. ASSUME NEW c \in Clients, Call(c)  PROVE Served(d)'
  BY <1>2 DEF Call
<1>3. ASSUME NEW a \in Adapters, GuardReply(a)  PROVE Served(d)'
  BY <1>3 DEF GuardReply
<1>4. ASSUME NEW c \in Clients, AppendTransaction(c)  PROVE Served(d)'
  BY <1>4 DEF AppendTransaction, Unreadable, Rewrite
<1>5. ASSUME CancelTransaction  PROVE Served(d)'
  BY <1>5 DEF CancelTransaction, Unreadable, Rewrite
<1>6. ASSUME NEW c \in Clients, FinishRewrite(c)  PROVE Served(d)'
  BY <1>6 DEF FinishRewrite
<1>7. ASSUME NEW c \in Clients, RailReply(c)  PROVE Served(d)'
  BY <1>7 DEF RailReply
<1>8. ASSUME CrashRail  PROVE Served(d)'
  BY <1>8 DEF CrashRail
<1>9. ASSUME Script  PROVE Served(d)'
  BY <1>9, ScriptFrame
<1>10. ASSUME AtRest  PROVE Served(d)'
  BY <1>10 DEF AtRest, vars
<1>11. ASSUME NEW a \in Adapters, Persist(a) \/ GuardLost(a)  PROVE Served(d)'
  BY <1>11, GuardFrame
<1> QED
  BY <1>1, <1>2, <1>3, <1>4, <1>5, <1>6, <1>7, <1>8, <1>9, <1>10, <1>11 DEF Next, Arrive, Proceed

(* The content with the new transaction at its end.                        *)
LEMMA AppendIsSound ==
    ASSUME TypeOK, LedgerInv, NEW c \in Customers, pc[c] = "sent"
    PROVE  LET s == Append(lines, Transaction(c)) IN
           Sound(s) /\ Recorded(s) = Recorded(lines) \cup {c}
<1> DEFINE s == Append(lines, Transaction(c))
           top == Len(lines) + 1
<1>1. /\ DOMAIN s = DOMAIN lines \cup {top} /\ top \notin DOMAIN lines
      /\ s[top] = Transaction(c)
      /\ \A i \in DOMAIN lines : s[i] = lines[i]
  BY LineAppended
<1>2. /\ Transaction(c).id = top /\ Transaction(c).payer = c
      /\ Transaction(c).origin = IF c \in Adapters THEN "agent" ELSE "external"
  BY DEF Transaction
<1>3. \A i \in DOMAIN lines : lines[i].payer # c
  BY DEF LedgerInv, Recorded, Served
<1> HIDE DEF s, top
<1>4. Sound(s)
  BY <1>1, <1>2, <1>3 DEF LedgerInv, Sound
<1>5. Recorded(s) = Recorded(lines) \cup {c}
  BY <1>1, <1>2 DEF Recorded
<1> QED
  BY <1>4, <1>5 DEF s

(* Cancelling a transaction keeps the numbers and the payers.              *)
LEMMA CancelIsSound ==
    ASSUME TypeOK, LedgerInv, NEW i \in DOMAIN lines
    PROVE  Sound(Cancelled(i)) /\ Recorded(Cancelled(i)) = Recorded(lines)
<1>1. /\ DOMAIN Cancelled(i) = DOMAIN lines
      /\ \A j \in DOMAIN lines :
            /\ Cancelled(i)[j].payer = lines[j].payer
            /\ Cancelled(i)[j].id = lines[j].id
            /\ Cancelled(i)[j].origin = lines[j].origin
  BY LineCancelled
<1>2. Sound(Cancelled(i))
  BY <1>1 DEF LedgerInv, Sound
<1>3. Recorded(Cancelled(i)) = Recorded(lines)
  BY <1>1 DEF Recorded
<1> QED
  BY <1>2, <1>3

(* What is cut of a sound content is sound.                                *)
LEMMA CutIsSound ==
    ASSUME TypeOK, LedgerInv, NEW k \in 0..Len(rewritten)
    PROVE  /\ Sound(SubSeq(rewritten, 1, k))
           /\ Recorded(SubSeq(rewritten, 1, k)) \subseteq Recorded(rewritten)
<1> DEFINE s == SubSeq(rewritten, 1, k)
<1>1. DOMAIN s \subseteq DOMAIN rewritten /\ \A i \in DOMAIN s : s[i] = rewritten[i]
  BY LinesCut
<1> HIDE DEF s
<1>2. Sound(s)
  BY <1>1 DEF LedgerInv, Sound
<1>3. Recorded(s) \subseteq Recorded(rewritten)
  BY <1>1 DEF Recorded
<1> QED
  BY <1>2, <1>3 DEF s

LEMMA LedgerStep ==
    ASSUME TypeOK, LockInv, GrantInv, LedgerInv, Next
    PROVE  LedgerInv'
<1> USE ClientTypes DEF guard, ledger, plan
<1> DEFINE Known == executed \cup Recorded(lines) \cup Recorded(rewritten)
<1>0. Known \subseteq Customers /\ \A c \in Known : Served(c)
  <2>1. Recorded(lines) \subseteq Customers /\ Recorded(rewritten) \subseteq Customers
    BY PayersAreCustomers DEF TypeOK
  <2> QED
    BY <2>1 DEF TypeOK, LedgerInv
(* A step that leaves the ledger as it is.                                 *)
<1>a. ASSUME UNCHANGED <<lines, rewritten, executed>>  PROVE LedgerInv'
  <2>1. Sound(lines') /\ Sound(rewritten') /\ Known' = Known
    BY <1>a DEF LedgerInv, Recorded
  <2>2. \A c \in Known : Served(c)'
    BY <1>0, ServedStays
  <2> QED
    BY <2>1, <2>2 DEF LedgerInv
<1>1. ASSUME NEW c \in Clients, Arrive(c)  PROVE LedgerInv'
  BY <1>1, <1>a DEF Arrive, Evaluate, Call
<1>2. ASSUME NEW a \in Adapters, GuardReply(a)  PROVE LedgerInv'
  BY <1>2, <1>a DEF GuardReply
<1>3. ASSUME NEW c \in Clients, AppendTransaction(c)  PROVE LedgerInv'
  <2>1. CASE Unreadable(c)
    BY <1>3, <1>a, <2>1 DEF AppendTransaction, Unreadable
  <2>2. CASE Rewrite(c, Append(lines, Transaction(c)))
    <3>1. c \in Customers /\ pc[c] = "sent" /\ UNCHANGED <<executed, decision>>
      BY <1>3 DEF AppendTransaction, Customers
    <3>2. /\ lines' = << >> /\ rewritten' = Append(lines, Transaction(c))
          /\ pc' = [pc EXCEPT ![c] = "writing"]
      BY <2>2 DEF Rewrite, Go
    <3>3. Sound(rewritten') /\ Recorded(rewritten') = Recorded(lines) \cup {c}
      BY <3>1, <3>2, AppendIsSound
    <3>4. Sound(lines') /\ Recorded(lines') = {}
      BY <3>2, EmptyIsSound
    <3>5. Served(c)'
      BY <3>1, <3>2 DEF Served, TypeOK, GrantInv, GrantOf
    <3>6. \A d \in Known : Served(d)'
      BY <1>0, ServedStays
    <3>7. executed' \cup Recorded(lines') \cup Recorded(rewritten') \subseteq Known \cup {c}
      BY <3>1, <3>3, <3>4
    <3> QED
      BY <3>3, <3>4, <3>5, <3>6, <3>7 DEF LedgerInv, Recorded
  <2> QED
    BY <1>3, <2>1, <2>2 DEF AppendTransaction
<1>4. ASSUME CancelTransaction  PROVE LedgerInv'
  <2>1. CASE UNCHANGED ledger
    BY <1>4, <1>a, <2>1 DEF CancelTransaction
  <2>2. ASSUME NEW i \in Victims, Rewrite(Undo, Cancelled(i))  PROVE LedgerInv'
    <3>1. lines' = << >> /\ rewritten' = Cancelled(i) /\ i \in DOMAIN lines
      BY <2>2 DEF Rewrite, Victims
    <3>2. Sound(rewritten') /\ Recorded(rewritten') = Recorded(lines)
      BY <3>1, CancelIsSound
    <3>3. Sound(lines') /\ Recorded(lines') = {}
      BY <3>1, EmptyIsSound
    <3>4. \A d \in Known : Served(d)'
      BY <1>0, ServedStays
    <3>5. executed' \cup Recorded(lines') \cup Recorded(rewritten') \subseteq Known
      BY <1>4, <3>2, <3>3 DEF CancelTransaction
    <3> QED
      BY <3>2, <3>3, <3>4, <3>5 DEF LedgerInv, Recorded
  <2> QED
    BY <1>4, <2>1, <2>2 DEF CancelTransaction, Unreadable
<1>5. ASSUME NEW c \in Clients, FinishRewrite(c)  PROVE LedgerInv'
  <2>1. /\ pc[c] = "writing" /\ pc' = [pc EXCEPT ![c] = "reply"]
        /\ lines' = rewritten /\ rewritten' = << >>
        /\ executed' = executed \cup ({c} \ {Undo}) /\ UNCHANGED decision
    BY <1>5 DEF FinishRewrite, Go
  <2>2. Sound(lines') /\ Sound(rewritten') /\ Recorded(rewritten') = {}
    BY <2>1, EmptyIsSound DEF LedgerInv
  <2>3. Served(c)'
    BY <2>1 DEF Served, TypeOK, GrantInv, GrantOf
  <2>4. \A d \in Known : Served(d)'
    BY <1>0, ServedStays
  <2>5. executed' \cup Recorded(lines') \cup Recorded(rewritten') \subseteq Known \cup {c}
    BY <2>1, <2>2
  <2> QED
    BY <2>2, <2>3, <2>4, <2>5 DEF LedgerInv, Recorded
<1>6. ASSUME NEW c \in Clients, RailReply(c)  PROVE LedgerInv'
  BY <1>6, <1>a DEF RailReply
<1>7. ASSUME CrashRail  PROVE LedgerInv'
  <2>1. rewritten' = << >> /\ executed' = executed
    BY <1>7 DEF CrashRail
  <2>2. Sound(lines') /\ Recorded(lines') \subseteq Recorded(lines) \cup Recorded(rewritten)
    <3>1. CASE UNCHANGED lines
      BY <3>1 DEF LedgerInv
    <3>2. ASSUME NEW k \in 0..Len(rewritten), lines' = SubSeq(rewritten, 1, k)
          PROVE  Sound(lines') /\ Recorded(lines') \subseteq Recorded(rewritten)
      BY <3>2, CutIsSound
    <3> QED
      BY <1>7, <3>1, <3>2 DEF CrashRail
  <2>3. Sound(rewritten') /\ Recorded(rewritten') = {}
    BY <2>1, EmptyIsSound
  <2>4. \A d \in Known : Served(d)'
    BY <1>0, ServedStays
  <2>5. executed' \cup Recorded(lines') \cup Recorded(rewritten') \subseteq Known
    BY <2>1, <2>2, <2>3
  <2> QED
    BY <2>2, <2>3, <2>4, <2>5 DEF LedgerInv, Recorded
<1>8. ASSUME Script  PROVE LedgerInv'
  BY <1>8, <1>a, ScriptFrame
<1>9. ASSUME AtRest  PROVE LedgerInv'
  BY <1>9, <1>a DEF AtRest, vars
<1>b. ASSUME NEW a \in Adapters, Persist(a) \/ GuardLost(a)  PROVE LedgerInv'
  BY <1>b, <1>a, GuardFrame
<1> QED
  BY <1>1, <1>2, <1>3, <1>4, <1>5, <1>6, <1>7, <1>8, <1>9, <1>b DEF Next, Proceed

-----------------------------------------------------------------------------
LEMMA CompleteStep ==
    ASSUME TypeOK, LockInv, LedgerInv, CompleteInv, Next
    PROVE  CompleteInv'
<1> USE ClientTypes DEF guard, ledger, plan
<1> SUFFICES ASSUME crashes' = 0
             PROVE  /\ ~torn'
                    /\ lock' = Nobody => Recorded(lines') = executed'
                    /\ lock' # Nobody => Recorded(rewritten') = executed' \cup ({lock'} \ {Undo})
  BY DEF CompleteInv, Recorded
<1>0. crashes = 0 =>
        /\ ~torn
        /\ lock = Nobody => Recorded(lines) = executed
        /\ lock # Nobody => Recorded(rewritten) = executed \cup ({lock} \ {Undo})
  BY DEF CompleteInv
<1>a. ASSUME UNCHANGED <<ledger, executed, crashes>>  PROVE CompleteInv'
  BY <1>0, <1>a DEF CompleteInv, Recorded
<1>1. ASSUME NEW c \in Clients, Arrive(c)  PROVE CompleteInv'
  BY <1>1, <1>a DEF Arrive, Evaluate, Call
<1>2. ASSUME NEW a \in Adapters, GuardReply(a)  PROVE CompleteInv'
  BY <1>2, <1>a DEF GuardReply
<1>3. ASSUME NEW c \in Clients, AppendTransaction(c)  PROVE CompleteInv'
  <2>1. CASE Unreadable(c)
    BY <1>3, <1>a, <2>1 DEF AppendTransaction, Unreadable
  <2>2. CASE Rewrite(c, Append(lines, Transaction(c)))
    <3>1. c \in Customers /\ pc[c] = "sent" /\ lock = Nobody /\ UNCHANGED <<executed, crashes>>
      BY <1>3 DEF AppendTransaction, Customers
    <3>2. rewritten' = Append(lines, Transaction(c)) /\ lock' = c /\ torn' = torn
      BY <2>2 DEF Rewrite
    <3>3. Recorded(rewritten') = Recorded(lines) \cup {c}
      BY <3>1, <3>2, AppendIsSound
    <3> QED
      BY <1>0, <3>1, <3>2, <3>3 DEF CompleteInv, Recorded
  <2> QED
    BY <1>3, <2>1, <2>2 DEF AppendTransaction
<1>4. ASSUME CancelTransaction  PROVE CompleteInv'
  <2>1. CASE UNCHANGED ledger
    BY <1>4, <1>a, <2>1 DEF CancelTransaction
  <2>2. ASSUME NEW i \in Victims, Rewrite(Undo, Cancelled(i))  PROVE CompleteInv'
    <3>1. /\ lock = Nobody /\ UNCHANGED <<executed, crashes>>
          /\ rewritten' = Cancelled(i) /\ lock' = Undo /\ torn' = torn /\ i \in DOMAIN lines
      BY <1>4, <2>2 DEF CancelTransaction, Rewrite, Victims
    <3>2. Recorded(rewritten') = Recorded(lines)
      BY <3>1, CancelIsSound
    <3> QED
      BY <1>0, <3>1, <3>2 DEF CompleteInv, Recorded
  <2> QED
    BY <1>4, <2>1, <2>2 DEF CancelTransaction, Unreadable
<1>5. ASSUME NEW c \in Clients, FinishRewrite(c)  PROVE CompleteInv'
  <2>1. /\ pc[c] = "writing" /\ lines' = rewritten /\ lock' = Nobody
        /\ executed' = executed \cup ({c} \ {Undo}) /\ UNCHANGED <<torn, crashes>>
    BY <1>5 DEF FinishRewrite
  <2>2. lock = c
    BY <2>1 DEF LockInv
  <2>3. Recorded(lines') = Recorded(rewritten)
    BY <2>1
  <2> QED
    BY <1>0, <2>1, <2>2, <2>3 DEF CompleteInv, Recorded
<1>6. ASSUME NEW c \in Clients, RailReply(c)  PROVE CompleteInv'
  BY <1>6, <1>a DEF RailReply
<1>7. ASSUME CrashRail  PROVE FALSE
  BY <1>7 DEF CrashRail, TypeOK
<1>8. ASSUME Script  PROVE CompleteInv'
  BY <1>8, <1>a, ScriptFrame
<1>9. ASSUME AtRest  PROVE CompleteInv'
  BY <1>9, <1>a DEF AtRest, vars
<1>b. ASSUME NEW a \in Adapters, Persist(a) \/ GuardLost(a)  PROVE CompleteInv'
  BY <1>b, <1>a, GuardFrame
<1>10. CompleteInv'
  BY <1>1, <1>2, <1>3, <1>4, <1>5, <1>6, <1>7, <1>8, <1>9, <1>b DEF Next, Proceed
<1> QED
  BY <1>10 DEF CompleteInv, Recorded

-----------------------------------------------------------------------------
LEMMA PaidStep ==
    ASSUME TypeOK, PaidInv, Next
    PROVE  PaidInv'
<1> USE ClientTypes DEF guard, ledger, plan, Go, TypeOK, PaidInv
<1>1. ASSUME NEW c \in Clients, Arrive(c)  PROVE PaidInv'
  BY <1>1 DEF Arrive, Evaluate, Call
<1>2. ASSUME NEW a \in Adapters, GuardReply(a)  PROVE PaidInv'
  BY <1>2 DEF GuardReply
<1>3. ASSUME NEW c \in Clients, AppendTransaction(c)  PROVE PaidInv'
  BY <1>3 DEF AppendTransaction, Unreadable, Rewrite
<1>4. ASSUME CancelTransaction  PROVE PaidInv'
  BY <1>4 DEF CancelTransaction, Unreadable, Rewrite
<1>5. ASSUME NEW c \in Clients, FinishRewrite(c)  PROVE PaidInv'
  BY <1>5 DEF FinishRewrite
<1>6. ASSUME NEW c \in Clients, RailReply(c)  PROVE PaidInv'
  BY <1>6 DEF RailReply
<1>7. ASSUME CrashRail  PROVE PaidInv'
  BY <1>7 DEF CrashRail
<1>8. ASSUME Script  PROVE PaidInv'
  BY <1>8, ScriptFrame
<1>9. ASSUME AtRest  PROVE PaidInv'
  BY <1>9 DEF AtRest, vars
<1>b. ASSUME NEW a \in Adapters, Persist(a) \/ GuardLost(a)  PROVE PaidInv'
  BY <1>b, GuardFrame
<1> QED
  BY <1>1, <1>2, <1>3, <1>4, <1>5, <1>6, <1>7, <1>8, <1>9, <1>b DEF Next, Proceed

-----------------------------------------------------------------------------
(* A payment added to the ledger is not the agent's.                       *)
LEMMA AppendKeepsPinned ==
    ASSUME TypeOK, LedgerInv, NEW c \in Customers, pc[c] = "sent",
           Agent \in Recorded(lines), Pinned(lines)
    PROVE  Pinned(Append(lines, Transaction(c)))
<1> DEFINE s == Append(lines, Transaction(c))
           top == Len(lines) + 1
<1>1. /\ DOMAIN s = DOMAIN lines \cup {top} /\ top \notin DOMAIN lines
      /\ s[top] = Transaction(c) /\ \A i \in DOMAIN lines : s[i] = lines[i]
  BY LineAppended
<1>2. PICK k \in DOMAIN lines : lines[k].payer = Agent
  BY DEF Recorded
<1>3. victim \in DOMAIN lines
  BY <1>2 DEF Pinned
<1>4. Transaction(c).payer = c
  BY DEF Transaction
<1>5. c # Agent
  BY DEF LedgerInv, Served
<1> HIDE DEF s, top
<1>6. Pinned(s)
  BY <1>1, <1>3, <1>4, <1>5 DEF Pinned
<1> QED
  BY <1>6 DEF s

(* The read-back finds the agent's payment.                                *)
LEMMA ReadbackPins ==
    ASSUME TypeOK, LockInv, LedgerInv, CompleteInv, SceneInv, crashes = 0,
           Readback, script' = "cancel"
    PROVE  Agent \in executed /\ Pinned(lines)' /\ Pinned(rewritten)'
<1>1. /\ lock = Nobody /\ Agent \in executed /\ pc[Undo] = "new"
      /\ UNCHANGED <<lines, rewritten>>
  BY DEF Readback, ReadLedger, SceneInv, ledger
<1>2. PICK i \in DOMAIN lines : Executed("agent") = {i} /\ victim' = lines[i].id
  BY ReadbackPicks
<1>3. lines[i].id = i
  BY DEF LedgerInv, Sound
<1>4. PICK k \in DOMAIN lines : lines[k].payer = Agent
  BY <1>1 DEF CompleteInv, Recorded
<1>5. lines[k].status = "MOCK_EXECUTED"
  <2>1. lines[k] \in Transactions
    BY DEF TypeOK
  <2> QED
    BY <1>1, <1>4, <2>1 DEF SceneInv, Untouched, Transactions
<1>6. lines[k].origin = "agent"
  BY <1>4, ClientTypes DEF LedgerInv, Sound
<1>7. k = i
  BY <1>2, <1>5, <1>6 DEF Executed
<1>8. \A j \in DOMAIN lines : lines[j].payer = Agent <=> j = i
  BY <1>4, <1>7 DEF LedgerInv, Sound
<1>9. rewritten = << >>
  BY <1>1 DEF LockInv
<1> QED
  BY <1>1, <1>2, <1>3, <1>8, <1>9 DEF Pinned

LEMMA SceneStep ==
    ASSUME TypeOK, LockInv, LedgerInv, CompleteInv, PaidInv, SceneInv, Next
    PROVE  SceneInv'
<1> USE ClientTypes DEF guard, ledger, plan, Go
<1> SUFFICES ASSUME crashes' = 0
             PROVE  SceneInv'
  BY DEF SceneInv
<1> DEFINE Begun == script = "cancel" \/ pc[Undo] # "new"
<1>0. crashes = 0 =>
        /\ script \in {"readback", "cancel"} => Agent \in executed
        /\ script \in {"observe", "external", "dispatch", "readback"} => pc[Undo] = "new"
        /\ Begun => Agent \in executed /\ Pinned(lines) /\ Pinned(rewritten)
        /\ Untouched(lines) /\ Untouched(rewritten)
  BY DEF SceneInv
(* A step that leaves the contents as they are, and the script.            *)
<1>a. ASSUME UNCHANGED <<lines, rewritten, executed, script, victim, crashes>>,
             pc'[Undo] = "new" => pc[Undo] = "new",
             pc'[Undo] # "new" => Begun
      PROVE  SceneInv'
  <2>1. script \in {"observe", "external", "dispatch", "readback"} => pc'[Undo] = "new"
    BY <1>0, <1>a
  <2> QED
    BY <1>0, <1>a, <2>1 DEF SceneInv, Pinned, Untouched
<1>1. ASSUME NEW a \in Adapters, Evaluate(a)  PROVE SceneInv'
  BY <1>1, <1>a DEF Evaluate, TypeOK, Customers
<1>2. ASSUME NEW c \in Clients, Call(c)  PROVE SceneInv'
  BY <1>2, <1>a DEF Call, MayStart, TypeOK
<1>3. ASSUME NEW a \in Adapters, GuardReply(a)  PROVE SceneInv'
  BY <1>3, <1>a DEF GuardReply, TypeOK
<1>4. ASSUME NEW c \in Clients, AppendTransaction(c)  PROVE SceneInv'
  <2>1. CASE Unreadable(c)
    BY <1>4, <1>a, <2>1 DEF AppendTransaction, Unreadable, TypeOK
  <2>2. CASE Rewrite(c, Append(lines, Transaction(c)))
    <3> DEFINE s == Append(lines, Transaction(c))
    <3>1. /\ c \in Customers /\ pc[c] = "sent" /\ lock = Nobody
          /\ UNCHANGED <<executed, crashes, script, victim>>
      BY <1>4 DEF AppendTransaction, Customers
    <3>2. lines' = << >> /\ rewritten' = s /\ pc' = [pc EXCEPT ![c] = "writing"]
      BY <2>2 DEF Rewrite
    <3>3. pc'[Undo] = pc[Undo]
      BY <3>1, <3>2 DEF TypeOK
    <3>4. Begun => Pinned(s)
      BY <1>0, <3>1, AppendKeepsPinned DEF CompleteInv
    <3>5. Untouched(s)
      <4>1. /\ DOMAIN s = DOMAIN lines \cup {Len(lines) + 1}
            /\ s[Len(lines) + 1] = Transaction(c) /\ \A i \in DOMAIN lines : s[i] = lines[i]
        BY <3>1, LineAppended
      <4>2. Transaction(c).status = "MOCK_EXECUTED"
        BY DEF Transaction
      <4> HIDE DEF s
      <4> QED
        BY <1>0, <3>1, <4>1, <4>2 DEF Untouched
    <3> HIDE DEF s
    <3> QED
      BY <1>0, <3>1, <3>2, <3>3, <3>4, <3>5, EmptyIsSound DEF SceneInv, Pinned, Untouched
  <2> QED
    BY <1>4, <2>1, <2>2 DEF AppendTransaction
<1>5. ASSUME CancelTransaction  PROVE SceneInv'
  <2>0. pc[Undo] = "sent" /\ UNCHANGED <<executed, crashes, script, victim>>
    BY <1>5 DEF CancelTransaction
  <2>1. CASE UNCHANGED ledger /\ Go(Undo, "failed")
    BY <1>a, <2>0, <2>1 DEF TypeOK
  <2>2. ASSUME NEW i \in Victims, Rewrite(Undo, Cancelled(i))  PROVE SceneInv'
    <3> DEFINE s == Cancelled(i)
    <3>1. /\ lines' = << >> /\ rewritten' = s /\ pc' = [pc EXCEPT ![Undo] = "writing"]
          /\ i \in DOMAIN lines /\ lines[i].id = victim
      BY <2>2 DEF Rewrite, Victims
    <3>2. i = victim
      BY <3>1 DEF LedgerInv, Sound
    <3>3. /\ DOMAIN s = DOMAIN lines
          /\ \A j \in DOMAIN lines : /\ s[j].payer = lines[j].payer
                                     /\ j # i => s[j].status = lines[j].status
      BY <3>1, LineCancelled
    <3>4. Agent \in executed /\ Pinned(lines) /\ Untouched(lines)
      BY <1>0, <2>0
    <3>5. pc'[Undo] = "writing"
      BY <3>1 DEF TypeOK
    <3> HIDE DEF s
    <3>6. \A j \in DOMAIN s : /\ s[j].payer = Agent <=> j = victim
                              /\ s[j].status = "MOCK_CANCELLED" => s[j].payer = Agent
      BY <3>1, <3>2, <3>3, <3>4 DEF Pinned, Untouched
    <3> QED
      BY <1>0, <2>0, <3>1, <3>4, <3>5, <3>6, EmptyIsSound DEF SceneInv, Pinned, Untouched
  <2> QED
    BY <1>5, <2>1, <2>2 DEF CancelTransaction, Unreadable
<1>6. ASSUME NEW c \in Clients, FinishRewrite(c)  PROVE SceneInv'
  <2>1. /\ pc[c] = "writing" /\ pc' = [pc EXCEPT ![c] = "reply"]
        /\ lines' = rewritten /\ rewritten' = << >> /\ executed \subseteq executed'
        /\ UNCHANGED <<crashes, script, victim>>
    BY <1>6 DEF FinishRewrite
  <2>2. pc'[Undo] = "new" <=> pc[Undo] = "new"
    BY <2>1 DEF TypeOK
  <2> QED
    BY <1>0, <2>1, <2>2, EmptyIsSound DEF SceneInv, Pinned, Untouched
<1>7. ASSUME NEW c \in Clients, RailReply(c)  PROVE SceneInv'
  BY <1>7, <1>a DEF RailReply, TypeOK
<1>8. ASSUME CrashRail  PROVE FALSE
  BY <1>8 DEF CrashRail, TypeOK
<1>9. ASSUME Script  PROVE SceneInv'
  <2>1. UNCHANGED <<lines, rewritten, pc, executed, crashes>>
    BY <1>9, ScriptFrame
  <2>2. CASE Readback /\ script' = "cancel"
    BY <1>0, <2>1, <2>2, ReadbackPins DEF SceneInv, Untouched
  <2>3. CASE ~(Readback /\ script' = "cancel")
    <3>1. victim' = victim
      BY <1>9, <2>3 DEF Script, Observe, RivalPaid, AgentPaid, Readback, VictimUndone, Check, Await
    <3>2. \/ script' \in {"check", "verified", "aborted"}
          \/ script \in {"observe", "external"} /\ script' \in {"external", "dispatch"}
          \/ script = "dispatch" /\ script' = "readback" /\ pc[Agent] = "done"
      BY <1>9, <2>3 DEF Script, Observe, RivalPaid, AgentPaid, Readback, VictimUndone, Check,
                        ReadLedger, Await
    <3>3. script' = "readback" => Agent \in executed
      BY <3>2 DEF PaidInv
    <3> QED
      BY <1>0, <2>1, <3>1, <3>2, <3>3 DEF SceneInv, Pinned, Untouched
  <2> QED
    BY <2>2, <2>3
<1>10. ASSUME AtRest  PROVE SceneInv'
  BY <1>10, <1>a DEF AtRest, vars
<1>11. ASSUME NEW a \in Adapters, Persist(a) \/ GuardLost(a)  PROVE SceneInv'
  BY <1>11, <1>a, GuardFrame DEF TypeOK
<1> QED
  BY <1>1, <1>2, <1>3, <1>4, <1>5, <1>6, <1>7, <1>8, <1>9, <1>10, <1>11 DEF Next, Arrive, Proceed

-----------------------------------------------------------------------------
LEMMA Stutter ==
    ASSUME IInv, UNCHANGED vars
    PROVE  IInv'
<1> USE DEF IInv, vars, guard, ledger, plan
<1>1. TypeOK' /\ LockInv'
  BY DEF TypeOK, LockInv
<1>1a. GrantInv'
  BY DEF GrantInv, GrantOf, SerialOf, Saved, Unsaved
<1>2. LedgerInv' /\ CompleteInv'
  BY DEF LedgerInv, CompleteInv, Served, Recorded
<1>3. PaidInv' /\ SceneInv'
  BY DEF PaidInv, SceneInv, Pinned, Untouched
<1> QED
  BY <1>1, <1>1a, <1>2, <1>3

LEMMA Invariance == Spec => []IInv
<1>1. Init => IInv
  BY InitIInv
<1>2. IInv /\ [Next]_vars => IInv'
  BY TypeStep, LockStep, GrantStep, LedgerStep, CompleteStep, PaidStep, SceneStep, Stutter DEF IInv
<1> QED
  BY <1>1, <1>2, PTL DEF Spec

(* Only accepted runs of the adapter pay, and each once, for any number of *)
(* runs, other payers, lost answers and crashes: main() of the adapter     *)
(* posts once, and append_transaction() adds one line under the lock.  As  *)
(* long as no request is looked up before an accepted one is saved, what   *)
(* is paid is in the replay store and no two runs pay under one nonce: the *)
(* guard saves the nonce before it answers.                                *)
THEOREM PaidOnce == Spec => []PaidOnceAndOnlyIfAccepted
<1>1. IInv => PaidOnceAndOnlyIfAccepted
  <2> SUFFICES ASSUME IInv PROVE PaidOnceAndOnlyIfAccepted
    OBVIOUS
  <2> DEFINE Known == executed \cup Recorded(lines) \cup Recorded(rewritten)
  <2>1. \A a \in Adapters \cap Known : decision[a] = "ACCEPT" /\ Saved(a)
    BY DEF IInv, LedgerInv, Served, Saved, Unsaved
  <2>2. \A i, j \in DOMAIN lines : lines[i].payer = lines[j].payer => i = j
    BY DEF IInv, LedgerInv, Sound
  <2>3. ~overlapped => \A a \in Adapters : SerialOf(a)
    BY DEF IInv, GrantInv
  <2>4. ~overlapped => \A a \in Adapters \cap Known : NonceOf[a] \in spent \cup {NoNonce}
    BY <2>1, <2>3 DEF SerialOf
  <2>5. ~overlapped => \A a, b \in Adapters \cap Known :
           NonceOf[a] = NonceOf[b] /\ NonceOf[a] # NoNonce => a = b
    BY <2>1, <2>3 DEF SerialOf
  <2> QED
    BY <2>1, <2>2, <2>4, <2>5 DEF PaidOnceAndOnlyIfAccepted
<1> QED
  BY <1>1, Invariance, PTL

(* TRANSACTIONS_LOCK makes read, number and rewrite one step for the other *)
(* threads: until the rail crashes no payment it has completed is lost and *)
(* none appears, and numbers are lines whatever a crash cuts off.          *)
THEOREM NoPaymentIsLost == Spec => []LedgerLosesNoPayment
<1>1. IInv => LedgerLosesNoPayment
  BY DEF IInv, CompleteInv, LedgerInv, Sound, LedgerLosesNoPayment
<1> QED
  BY <1>1, Invariance, PTL

(* The containment of the scenario undoes the agent's payment and no other *)
(* one, whoever else pays before, between and after its steps.             *)
THEOREM ContainmentIsPrecise == Spec => []OnlyTheDuplicateIsCancelled
<1>1. IInv => OnlyTheDuplicateIsCancelled
  BY DEF IInv, SceneInv, Untouched, OnlyTheDuplicateIsCancelled
<1> QED
  BY <1>1, Invariance, PTL
-----------------------------------------------------------------------------
(* As long as no request is looked up before an accepted one is saved, the *)
(* guard, the adapter and the rail, with the answers they lose and the     *)
(* crashes, do what the single-use ledger does: the save spends the nonce, *)
(* the finished rewrite grants, and a claim that gets no further is        *)
(* dropped with its nonce spent.                                           *)
THEOREM RailIsSingleUse == Spec => PaymentsAreSingleUse
<1> DEFINE granted == executed \cap Signed
<1>1. Init => Ledger!Init
  <2> SUFFICES ASSUME Init PROVE spent = {} /\ Due = {} /\ granted = {}
    BY DEF Ledger!Init
  <2> QED
    BY ClientTypes DEF Init, Due, Signed
<1>2. IInv /\ [Next]_vars => [Ledger!Next \/ overlapped']_(Ledger!vars)
  <2> DEFINE Simulated == [Ledger!Next \/ overlapped']_(Ledger!vars)
  <2> SUFFICES ASSUME IInv, [Next]_vars
               PROVE  Simulated
    OBVIOUS
  <2> USE ClientTypes
  <2>0. TypeOK /\ GrantInv /\ pc \in [Clients -> Labels]
    BY DEF IInv, TypeOK
  <2>1. ASSUME spent' = spent, Due' = Due, granted' = granted
        PROVE  Simulated
    BY <2>1 DEF Ledger!vars
  <2>2. ASSUME spent' = spent, granted' = granted, NEW c,
               Due' = Due \ {c}
        PROVE  Simulated
    <3>1. CASE c \in Due
      <4>1. {c} \in SUBSET Due /\ {c} # {}
        BY <3>1
      <4>2. Ledger!Drop
        BY <2>2, <4>1 DEF Ledger!Drop
      <4> QED
        BY <4>2 DEF Ledger!Next
    <3>2. CASE c \notin Due
      BY <2>1, <2>2, <3>2
    <3> QED
      BY <3>1, <3>2
  <2>3. ASSUME NEW c \in Clients, NEW label \in Labels, decision' = decision, spent' = spent,
               executed' = executed, pc' = [pc EXCEPT ![c] = label],
               \/ label \notin {"evaluated", "sent", "writing"}
               \/ c \notin Signed
               \/ pc[c] \in {"evaluated", "sent", "writing"}
        PROVE  Simulated
    <3>1. CASE label \notin {"evaluated", "sent", "writing"}
      <4>1. Due' = Due \ {c}
        BY <2>0, <2>3, <3>1 DEF Due, Signed
      <4> QED
        BY <2>2, <2>3, <4>1
    <3>2. CASE label \in {"evaluated", "sent", "writing"}
      <4>1. Due' = Due
        BY <2>0, <2>3, <3>2 DEF Due, Signed
      <4> QED
        BY <2>1, <2>3, <4>1
    <3> QED
      BY <3>1, <3>2
  <2>4. ASSUME NEW a \in Adapters, Evaluate(a)
        PROVE  Simulated
    <3>1. /\ pc[a] = "new" /\ spent' = spent /\ executed' = executed
          /\ decision' = [decision EXCEPT ![a] = GuardAnswer(a)]
          /\ \/ pc' = [pc EXCEPT ![a] = "judged"]
             \/ /\ GuardAnswer(a) # "ACCEPT" \/ a \notin Signed
                /\ pc' = [pc EXCEPT ![a] = "evaluated"]
      BY <2>4 DEF Evaluate, Go, Signed
    <3>2. Due' = Due
      BY <2>0, <3>1 DEF Due, Signed, TypeOK
    <3> QED
      BY <2>1, <3>1, <3>2
  <2>4a. ASSUME NEW a \in Adapters, SaveStore(a)
         PROVE  Simulated
    <3>1. /\ pc[a] = "saving" /\ pc' = [pc EXCEPT ![a] = "evaluated"]
          /\ spent' = loaded[a] \cup {NonceOf[a]}
          /\ UNCHANGED <<decision, overlapped, executed>>
      BY <2>4a DEF SaveStore, Go
    <3>2. a \in Unsaved
      BY <3>1 DEF Unsaved
    <3>3. a \in Signed /\ decision[a] = "ACCEPT"
      BY <2>0, <3>2 DEF GrantInv, GrantOf, Signed
    <3>4. CASE overlapped
      BY <3>1, <3>4
    <3>5. CASE ~overlapped
      <4>1. NonceOf[a] \notin spent /\ loaded[a] = spent
        BY <2>0, <3>1, <3>2, <3>5 DEF GrantInv, SerialOf
      <4>2. Due' = Due \cup {a}
        BY <2>0, <3>1, <3>3 DEF Due, Signed
      <4>3. NonceOf[a] \in {NonceOf[b] : b \in Signed}
        BY <3>3
      <4>4. Ledger!Spend(a)
        BY <3>1, <4>1, <4>2, <4>3 DEF Ledger!Spend
      <4> QED
        BY <4>4 DEF Ledger!Next
    <3> QED
      BY <3>4, <3>5
  <2>4b. ASSUME NEW a \in Adapters, AppendAudit(a) \/ LoadStore(a) \/ GuardLost(a)
         PROVE  Simulated
    <3>1. PICK label \in {"recorded", "saving", "lost"} : pc' = [pc EXCEPT ![a] = label]
      BY <2>4b DEF AppendAudit, LoadStore, GuardLost, Go
    <3>2. UNCHANGED <<spent, decision, executed>>
      BY <2>4b DEF AppendAudit, LoadStore, GuardLost
    <3> QED
      BY <2>3, <3>1, <3>2 DEF Labels
  <2>5. ASSUME NEW c \in Clients, Call(c)
        PROVE  Simulated
    BY <2>3, <2>5 DEF Call, Go, guard, Labels, Signed
  <2>6. ASSUME NEW a \in Adapters, GuardReply(a)
        PROVE  Simulated
    <3>1. PICK label \in {"sent", "refused", "failed"} : pc' = [pc EXCEPT ![a] = label]
      BY <2>6 DEF GuardReply, Go
    <3>2. pc[a] = "evaluated" /\ UNCHANGED <<spent, decision, executed>>
      BY <2>6 DEF GuardReply, guard
    <3> QED
      BY <2>3, <3>1, <3>2 DEF Labels
  <2>7. ASSUME NEW c \in Clients, AppendTransaction(c)
        PROVE  Simulated
    <3>1. PICK label \in {"writing", "failed"} : pc' = [pc EXCEPT ![c] = label]
      BY <2>7 DEF AppendTransaction, Unreadable, Rewrite, Go
    <3>2. pc[c] = "sent" /\ UNCHANGED <<spent, decision, executed>>
      BY <2>7 DEF AppendTransaction, guard
    <3> QED
      BY <2>3, <3>1, <3>2 DEF Labels
  <2>8. ASSUME NEW c \in Clients, FinishRewrite(c)
        PROVE  Simulated
    <3>1. /\ pc[c] = "writing" /\ pc' = [pc EXCEPT ![c] = "reply"]
          /\ executed' = executed \cup ({c} \ {Undo})
          /\ spent' = spent /\ decision' = decision
      BY <2>8 DEF FinishRewrite, Go, guard
    <3>2. Due' = Due \ {c}
      BY <2>0, <3>1 DEF Due, Signed
    <3>3. CASE c \in Signed
      <4>1. c \in Due
        BY <2>0, <3>1, <3>3 DEF Due, Signed, GrantInv, GrantOf
      <4>2. granted' = granted \cup {c}
        BY <3>1, <3>3 DEF Signed, Customers
      <4>3. Ledger!Grant(c)
        BY <3>1, <3>2, <4>1, <4>2 DEF Ledger!Grant
      <4> QED
        BY <3>3, <4>3 DEF Ledger!Next, Signed
    <3>4. CASE c \notin Signed
      <4>1. granted' = granted /\ c \notin Due
        BY <3>1, <3>4 DEF Due
      <4> QED
        BY <2>1, <3>1, <3>2, <4>1
    <3> QED
      BY <3>3, <3>4
  <2>9. ASSUME NEW c \in Clients, RailReply(c)
        PROVE  Simulated
    <3>1. PICK label \in {"done", "failed"} : pc' = [pc EXCEPT ![c] = label]
      BY <2>9 DEF RailReply, Go
    <3>2. UNCHANGED <<spent, decision, executed>>
      BY <2>9 DEF RailReply, guard
    <3> QED
      BY <2>3, <3>1, <3>2 DEF Labels
  <2>10. ASSUME CancelTransaction
         PROVE  Simulated
    <3>1. PICK label \in {"writing", "failed"} : pc' = [pc EXCEPT ![Undo] = label]
      BY <2>10 DEF CancelTransaction, Unreadable, Rewrite, Go
    <3>2. pc[Undo] = "sent" /\ UNCHANGED <<spent, decision, executed>>
      BY <2>10 DEF CancelTransaction, guard
    <3> QED
      BY <2>3, <3>1, <3>2 DEF Labels
  <2>11. ASSUME CrashRail
         PROVE  Simulated
    <3>1. /\ pc' = [c \in Clients |-> IF c \in AtTheRail THEN "failed" ELSE pc[c]]
          /\ UNCHANGED <<spent, decision, executed>>
      BY <2>11 DEF CrashRail, guard
    <3>2. Due' = Due \ AtTheRail
      BY <2>0, <3>1 DEF Due, Signed
    <3>3. CASE Due \cap AtTheRail = {}
      BY <2>1, <3>1, <3>2, <3>3
    <3>4. CASE Due \cap AtTheRail # {}
      <4>1. Due' = Due \ (Due \cap AtTheRail) /\ Due \cap AtTheRail \in SUBSET Due
        BY <3>2
      <4>2. Ledger!Drop
        BY <3>1, <3>4, <4>1 DEF Ledger!Drop
      <4> QED
        BY <4>2 DEF Ledger!Next
    <3> QED
      BY <3>3, <3>4
  <2>12. CASE Script \/ AtRest \/ UNCHANGED vars
    <3>1. UNCHANGED <<pc, spent, decision, executed>>
      BY <2>12, ScriptFrame DEF AtRest, vars, guard
    <3> QED
      BY <2>1, <3>1 DEF Due
  <2> QED
    BY <2>4, <2>4a, <2>4b, <2>5, <2>6, <2>7, <2>8, <2>9, <2>10, <2>11, <2>12
       DEF Next, Arrive, Proceed, Persist
<1> QED
  BY <1>1, <1>2, Invariance, PTL DEF Spec, PaymentsAreSingleUse
=============================================================================
