---------------------------- MODULE PaymentRail ----------------------------
(***************************************************************************)
(* The mock payment rail (mock_payment_rail.py), the adapter that stands   *)
(* between it and the guard (payment_guard_to_mock_rail_adapter.py), and   *)
(* the ASB-01 scenario (run_stale_observation_race_demo.sh), in which the  *)
(* agent pays on a stale view of the ledger and one payment is undone.     *)
(*                                                                         *)
(* The rail serves a request per thread, holds TRANSACTIONS_LOCK while it  *)
(* reads, changes and rewrites the ledger, and rewrites it in place: the   *)
(* file is truncated before the new content is written.  A ledger is the   *)
(* sequence of its readable lines, and torn if it ends in half a line,     *)
(* which makes every reader raise.                                         *)
(*                                                                         *)
(* The guard serves a request per thread too, and without a lock: a thread *)
(* looks the nonce up, writes its record, loads the replay store and saves *)
(* it with the nonce added, and other threads may come in between.  Hashes *)
(* of the log, and what two saves do to one temporary file, are left to    *)
(* GuardService: here a save replaces the store as a whole, or fails.      *)
(***************************************************************************)
EXTENDS Naturals, Sequences, FiniteSets

CONSTANTS
    Adapters,       \* runs of the adapter
    Payers,         \* payments sent to the rail by others
    Agent,          \* the adapter run of the scenario
    Rival,          \* the parallel external payment of the scenario
    Undo,           \* the cancel request of the scenario
    Policy,         \* Policy[a]: what decide() answers if the nonce is unspent
    Mode,           \* Mode[a]: enforce or shadow
    NonceOf,        \* NonceOf[a]: nonce of the envelope
    NoNonce,        \* no envelope
    IntentOf,       \* IntentOf[c]: intent_id of a payment
    Nobody,         \* nobody holds TRANSACTIONS_LOCK
    MaxFaults       \* bound: crashes of the rail, lost answers, failures of the guard

Clients == Adapters \cup Payers \cup {Undo}

ASSUME RailAssumption ==
    /\ IsFiniteSet(Clients)
    /\ Adapters \cap Payers = {} /\ Undo \notin Adapters \cup Payers
    /\ Agent \in Adapters /\ Rival \in Payers
    /\ Policy \in [Adapters -> {"ACCEPT", "HOLD", "BLOCK"}]
    /\ Mode \in [Adapters -> {"enforce", "shadow"}]
    /\ DOMAIN NonceOf = Adapters
    /\ DOMAIN IntentOf = Adapters \cup Payers
    /\ Nobody \notin Clients
    /\ MaxFaults \in Nat

VARIABLES
    spent,      \* nonces in the replay store; without one, the store does not exist
    recorded,   \* nonces of the accepted records of the guard's log
    loaded,     \* loaded[a]: the store as the guard's thread for run a has read it
    decision,   \* decision[a]: what the guard decides on adapter run a
    overlapped, \* history: a nonce was looked up before an accepted one was saved
    lines,      \* readable lines of the ledger file
    torn,       \* the file ends in half a line
    lock,       \* the request that holds TRANSACTIONS_LOCK
    rewritten,  \* the content the holder of the lock is writing
    pc,         \* pc[c]: where client c, and the rail's thread for it, are
    script,     \* the step of the scenario
    victim,     \* AGENT_TX_ID: the transaction the scenario undoes
    executed,   \* history: payments whose rewrite of the ledger was completed
    crashes,    \* crashes of the rail so far
    faults      \* crashes, lost answers and failures so far

ledger == <<lines, torn, lock, rewritten>>
guard  == <<spent, recorded, loaded, decision, overlapped>>
plan   == <<script, victim>>
vars   == <<guard, ledger, pc, plan, executed, crashes, faults>>

NoTransaction == 0

Init ==
    /\ spent = {} /\ recorded = {}
    /\ loaded = [a \in Adapters |-> {}]
    /\ overlapped = FALSE
    /\ decision = [a \in Adapters |-> "NONE"]
    /\ lines = << >>
    /\ torn = FALSE
    /\ lock = Nobody
    /\ rewritten = << >>
    /\ pc = [c \in Clients |-> "new"]
    /\ script = "observe"
    /\ victim = NoTransaction
    /\ executed = {}
    /\ crashes = 0
    /\ faults = 0

Go(c, label) == pc' = [pc EXCEPT ![c] = label]

MayFail == faults < MaxFaults
Failure == faults' = faults + 1

-----------------------------------------------------------------------------
(* The adapter.                                                            *)

(* The scenario starts its own payments itself, the others start any time. *)
MayStart(c) ==
    /\ c = Agent => script = "dispatch"
    /\ c = Rival => script = "external"
    /\ c = Undo  => script = "cancel"

(* nonce_replayed(): the store, or, as long as there is none, the log.     *)
Replayed(nonce) == nonce \in (IF spent = {} THEN recorded ELSE spent)

(* Mutant of GuardAnswer: the replay store is not asked.                   *)
GuardAnswerReplayed(a) == Policy[a]

(* decide(): policy first, then replay protection.                         *)
GuardAnswer(a) ==
    IF Policy[a] = "ACCEPT" /\ Replayed(NonceOf[a]) THEN "BLOCK" ELSE Policy[a]

(* Runs that are accepted and whose nonce is not in the store yet.         *)
Unsaved == {a \in Adapters : pc[a] \in {"judged", "recorded", "saving"}}

(* decide(): what is not a signed ACCEPT has nothing left to save.         *)
Evaluate(a) ==
    /\ pc[a] = "new"
    /\ MayStart(a)
    /\ decision' = [decision EXCEPT ![a] = GuardAnswer(a)]
    /\ \/ /\ GuardAnswer(a) = "ACCEPT" /\ NonceOf[a] # NoNonce
          /\ Go(a, "judged")
          /\ overlapped' = (overlapped \/ Unsaved # {})
       \/ /\ GuardAnswer(a) # "ACCEPT" \/ NonceOf[a] = NoNonce
          /\ Go(a, "evaluated")
          /\ UNCHANGED overlapped
    /\ UNCHANGED <<spent, recorded, loaded, ledger, plan, executed, crashes, faults>>

(* append_audit(), and the hash read back.                                 *)
AppendAudit(a) ==
    /\ pc[a] = "judged"
    /\ recorded' = recorded \cup {NonceOf[a]}
    /\ Go(a, "recorded")
    /\ UNCHANGED <<spent, loaded, decision, overlapped, ledger, plan, executed, crashes, faults>>

(* record_nonce() loads the store ...                                      *)
LoadStore(a) ==
    /\ pc[a] = "recorded"
    /\ loaded' = [loaded EXCEPT ![a] = spent]
    /\ Go(a, "saving")
    /\ UNCHANGED <<spent, recorded, decision, overlapped, ledger, plan, executed, crashes, faults>>

(* ... and replaces it by what it has loaded and the nonce.                *)
SaveStore(a) ==
    /\ pc[a] = "saving"
    /\ spent' = loaded[a] \cup {NonceOf[a]}
    /\ loaded' = [loaded EXCEPT ![a] = {}]
    /\ Go(a, "evaluated")
    /\ UNCHANGED <<recorded, decision, overlapped, ledger, plan, executed, crashes, faults>>

Persist(a) == AppendAudit(a) \/ LoadStore(a) \/ SaveStore(a)

(* The guard dies or raises before the store is replaced: no answer.       *)
GuardLost(a) ==
    /\ a \in Unsaved
    /\ MayFail /\ Failure
    /\ loaded' = [loaded EXCEPT ![a] = {}]
    /\ Go(a, "lost")
    /\ UNCHANGED <<spent, recorded, decision, overlapped, ledger, plan, executed, crashes>>

(* execution_flags(): shadow mode allows whatever was decided.             *)
ExecutionAllowed(a) == Mode[a] = "enforce" => decision[a] = "ACCEPT"

(* The adapter goes on only with both.                                     *)
Forwards(a) == ExecutionAllowed(a) /\ decision[a] = "ACCEPT"

(* The answer arrives, or is lost with the guard: post_json() exits.       *)
GuardReply(a) ==
    /\ pc[a] = "evaluated"
    /\ \/ Go(a, IF Forwards(a) THEN "sent" ELSE "refused") /\ UNCHANGED faults
       \/ MayFail /\ Failure /\ Go(a, "failed")
    /\ UNCHANGED <<guard, ledger, plan, executed, crashes>>

(* Another actor, or the scenario's cancel command, calls the rail.        *)
Call(c) ==
    /\ c \notin Adapters
    /\ pc[c] = "new"
    /\ MayStart(c)
    /\ Go(c, "sent")
    /\ UNCHANGED <<guard, ledger, plan, executed, crashes, faults>>

-----------------------------------------------------------------------------
(* The rail.                                                               *)

Transaction(c) ==
    [id |-> Len(lines) + 1, status |-> "MOCK_EXECUTED", payer |-> c, intent |-> IntentOf[c],
     origin |-> IF c \in Adapters THEN "agent" ELSE "external"]

(* open("w") truncates the ledger; the new content is in memory.           *)
Rewrite(c, content) ==
    /\ rewritten' = content
    /\ lines' = << >>
    /\ lock' = c
    /\ Go(c, "writing")
    /\ UNCHANGED torn

(* A thread that has the lock cannot parse a torn ledger: it raises, the   *)
(* client gets no answer.                                                  *)
Unreadable(c) == torn /\ Go(c, "failed") /\ UNCHANGED ledger

(* Mutant of AppendTransaction: the lock is not taken for the rewrite.     *)
AppendTransactionUnlocked(c) ==
    /\ c \in Adapters \cup Payers
    /\ pc[c] = "sent"
    /\ ~torn
    /\ Rewrite(c, Append(lines, Transaction(c)))
    /\ UNCHANGED <<guard, plan, executed, crashes, faults>>

(* append_transaction(): read, number and rewrite under the lock.          *)
AppendTransaction(c) ==
    /\ c \in Adapters \cup Payers
    /\ pc[c] = "sent"
    /\ lock = Nobody
    /\ \/ Unreadable(c)
       \/ ~torn /\ Rewrite(c, Append(lines, Transaction(c)))
    /\ UNCHANGED <<guard, plan, executed, crashes, faults>>

(* Mutant of Cancelled: the transactions of the same intent are cancelled. *)
CancelledIntent(i) ==
    [j \in DOMAIN lines |-> IF lines[j].intent = lines[i].intent
                            THEN [lines[j] EXCEPT !.status = "MOCK_CANCELLED"] ELSE lines[j]]

Cancelled(i) == [lines EXCEPT ![i].status = "MOCK_CANCELLED"]

(* The first transaction with the id of the request.                       *)
Victims == {i \in DOMAIN lines : lines[i].id = victim}
IsFirst(i) == i \in Victims /\ \A j \in Victims : i <= j

(* cancel_transaction(): only an executed transaction is rewritten;        *)
(* otherwise, or if there is none, the answer is an error.                 *)
CancelTransaction ==
    /\ pc[Undo] = "sent"
    /\ lock = Nobody
    /\ \/ Unreadable(Undo)
       \/ /\ ~torn
          /\ \E i \in Victims : IsFirst(i) /\ lines[i].status = "MOCK_EXECUTED"
                                /\ Rewrite(Undo, Cancelled(i))
       \/ /\ ~torn
          /\ \A i \in Victims : IsFirst(i) => lines[i].status # "MOCK_EXECUTED"
          /\ Go(Undo, "failed")
          /\ UNCHANGED ledger
    /\ UNCHANGED <<guard, plan, executed, crashes, faults>>

(* write_text() has written and closed; the lock is released.              *)
FinishRewrite(c) ==
    /\ pc[c] = "writing"
    /\ lines' = rewritten
    /\ rewritten' = << >>
    /\ lock' = Nobody
    /\ executed' = executed \cup ({c} \ {Undo})
    /\ Go(c, "reply")
    /\ UNCHANGED <<torn, guard, plan, crashes, faults>>

(* Mutant of RailReply: an answer that does not come is asked for again.   *)
RailReplyRetried(c) ==
    /\ pc[c] = "reply"
    /\ \/ Go(c, "done") /\ UNCHANGED faults
       \/ MayFail /\ Failure /\ Go(c, "sent")
    /\ UNCHANGED <<guard, ledger, plan, executed, crashes>>

(* The answer arrives; if it does not, post_json() exits without a retry.  *)
RailReply(c) ==
    /\ pc[c] = "reply"
    /\ \/ Go(c, "done") /\ UNCHANGED faults
       \/ MayFail /\ Failure /\ Go(c, "failed")
    /\ UNCHANGED <<guard, ledger, plan, executed, crashes>>

AtTheRail == {c \in Clients : pc[c] \in {"sent", "writing", "reply"}}

(* The rail dies and is started again: what the thread with the lock has   *)
(* written so far is the ledger.                                           *)
CrashRail ==
    /\ MayFail /\ Failure
    /\ crashes' = crashes + 1
    /\ AtTheRail # {}
    /\ pc' = [c \in Clients |-> IF c \in AtTheRail THEN "failed" ELSE pc[c]]
    /\ \/ lock = Nobody /\ UNCHANGED <<lines, torn>>
       \/ /\ lock # Nobody
          /\ \E k \in 0..Len(rewritten) :
                /\ lines' = SubSeq(rewritten, 1, k)
                /\ torn' \in IF k < Len(rewritten) THEN BOOLEAN ELSE {FALSE}
    /\ lock' = Nobody
    /\ rewritten' = << >>
    /\ UNCHANGED <<guard, plan, executed>>

-----------------------------------------------------------------------------
(* The scenario, under `set -e`: a failed assertion or request aborts it.  *)

Executed(origin) ==
    {i \in DOMAIN lines : lines[i].status = "MOCK_EXECUTED" /\ lines[i].origin = origin}
SuccessfulCount == Cardinality({i \in DOMAIN lines : lines[i].status = "MOCK_EXECUTED"})

(* GET transactions answers the ledger, or nothing if it is torn.          *)
ReadLedger(step, assertion, next) ==
    /\ script = step
    /\ lock = Nobody
    /\ script' = IF ~torn /\ assertion THEN next ELSE "aborted"
    /\ UNCHANGED <<guard, ledger, pc, executed, crashes, faults>>

Final == {"done", "refused", "failed", "lost"}

(* The step that waits for a client of the scenario.                       *)
Await(step, c, next) ==
    /\ script = step
    /\ pc[c] \in Final
    /\ script' = IF pc[c] = "done" THEN next ELSE "aborted"
    /\ UNCHANGED <<guard, ledger, pc, victim, executed, crashes, faults>>

Observe      == ReadLedger("observe", SuccessfulCount = 0, "external") /\ UNCHANGED victim
RivalPaid    == Await("external", Rival, "dispatch")
AgentPaid    == Await("dispatch", Agent, "readback")
VictimUndone == Await("cancel", Undo, "check")

Diverged ==
    /\ SuccessfulCount = 2
    /\ Cardinality(Executed("external")) = 1
    /\ Cardinality(Executed("agent")) = 1
    /\ \A i \in Executed("external"), j \in Executed("agent") : lines[i].intent = lines[j].intent

Readback ==
    /\ ReadLedger("readback", Diverged, "cancel")
    /\ victim' = IF script' = "cancel" THEN lines[CHOOSE i \in Executed("agent") : TRUE].id
                                       ELSE victim

Contained ==
    /\ SuccessfulCount = 1
    /\ Cardinality(Executed("external")) = 1
    /\ Cardinality({i \in Victims : lines[i].status = "MOCK_CANCELLED"}) = 1

Check == ReadLedger("check", Contained, "verified") /\ UNCHANGED victim

Script == Observe \/ RivalPaid \/ AgentPaid \/ Readback \/ VictimUndone \/ Check

AtRest ==
    /\ script \in {"verified", "aborted"}
    /\ \A c \in Clients : pc[c] \in Final \/ (pc[c] = "new" /\ ~MayStart(c))
    /\ UNCHANGED vars

Arrive(c) == (c \in Adapters /\ Evaluate(c)) \/ Call(c)

Proceed(c) ==
    \/ c \in Adapters /\ (Persist(c) \/ GuardReply(c))
    \/ AppendTransaction(c) \/ FinishRewrite(c) \/ RailReply(c)
    \/ c = Undo /\ CancelTransaction

Next ==
    \/ \E c \in Clients : Arrive(c) \/ Proceed(c)
    \/ \E a \in Adapters : GuardLost(a)
    \/ CrashRail
    \/ Script
    \/ AtRest

Spec == Init /\ [][Next]_vars

(* Threads and the script go on, and the script starts what it waits for;  *)
(* nothing makes the others come.                                          *)
FairSpec ==
    /\ Spec
    /\ WF_vars(Script)
    /\ \A c \in Clients : WF_vars(Proceed(c))
    /\ \A c \in {Agent, Rival, Undo} : WF_vars(Arrive(c))
=============================================================================
