----------------------- MODULE PaymentRailProperties -----------------------
(***************************************************************************)
(* What adapter, rail and scenario promise together.                       *)
(***************************************************************************)
EXTENDS PaymentRail

Recorded(content) == {content[i].payer : i \in DOMAIN content}

(* Only what the guard accepted reaches the rail, in either mode, and a    *)
(* run of the adapter pays once: neither the ledger nor a rewrite of it    *)
(* under way holds an agent's payment that was held or blocked, and no     *)
(* payer has two lines.  As long as the guard never looks a nonce up       *)
(* between another request's acceptance and its save (threads of the       *)
(* service may), a signed intent is paid at most once: what is paid is in  *)
(* the replay store, and whatever answers are lost, the guard or the rail  *)
(* forget in a crash, and however often the adapter is run again, one run  *)
(* at most pays under a nonce.                                             *)
PaidOnceAndOnlyIfAccepted ==
    /\ \A a \in Adapters \cap (executed \cup Recorded(lines) \cup Recorded(rewritten)) :
           decision[a] = "ACCEPT" /\ (~overlapped => NonceOf[a] \in spent \cup {NoNonce})
    /\ ~overlapped =>
           \A a, b \in Adapters \cap (executed \cup Recorded(lines)) :
              NonceOf[a] = NonceOf[b] /\ NonceOf[a] # NoNonce => a = b
    /\ \A i, j \in DOMAIN lines : lines[i].payer = lines[j].payer => i = j

(* While the rail does not crash the ledger holds exactly the payments     *)
(* whose rewrite was completed: requests served at once lose none; and a   *)
(* transaction's number is its line, also after a crash has cut the        *)
(* ledger, so no two are known by one number.                              *)
LedgerLosesNoPayment ==
    /\ crashes = 0 /\ lock = Nobody => ~torn /\ Recorded(lines) = executed
    /\ \A i \in DOMAIN lines : lines[i].id = i

(* "cancel only the agent-created duplicate": while the rail does not      *)
(* crash, the containment touches the agent's payment of the scenario and  *)
(* no other, also if others pay between the read-back and the cancel.      *)
OnlyTheDuplicateIsCancelled ==
    crashes = 0 =>
        \A i \in DOMAIN lines : lines[i].status = "MOCK_CANCELLED" => lines[i].payer = Agent

(* Nobody else comes and nothing fails.                                    *)
Undisturbed ==
    /\ faults = 0
    /\ \A c \in Clients \ {Agent, Rival, Undo} : pc[c] = "new"

(* Left alone, the scenario reaches its target state: the divergence is    *)
(* found, undone and verified, and exactly one payment remains.            *)
ScenarioReachesTarget ==
    [](Undisturbed) =>
        <>[](script = "verified" /\ lock = Nobody /\ SuccessfulCount = 1)
-----------------------------------------------------------------------------
(* The rail as a ledger of single-use nonces: what is granted is the       *)
(* payment itself, not only the guard's answer.                            *)
Signed == {a \in Adapters : NonceOf[a] # NoNonce}

Due == {a \in Signed : decision[a] = "ACCEPT" /\ pc[a] \in {"evaluated", "sent", "writing"}}

Ledger == INSTANCE SingleUse WITH
    Claims  <- Adapters,
    Nonces  <- {NonceOf[a] : a \in Signed},
    NonceOf <- NonceOf,
    spent   <- spent,
    due     <- Due,
    granted <- executed \cap Signed

(* As long as no nonce is looked up between another request's acceptance   *)
(* and its save, guard, adapter and rail together take the steps of a      *)
(* ledger of single-use nonces: a payment is made only for a nonce that    *)
(* its own run of the adapter has spent and has not used yet, an answer    *)
(* lost on the way, a torn ledger or a crash of the rail drops the claim   *)
(* and never reopens it, and no save forgets a nonce.                      *)
PaymentsAreSingleUse ==
    Ledger!Init /\ [][Ledger!Next \/ overlapped']_(Ledger!vars)
-----------------------------------------------------------------------------
(* The inductive invariant behind PaidOnceAndOnlyIfAccepted,               *)
(* LedgerLosesNoPayment and OnlyTheDuplicateIsCancelled.                   *)

Customers == Adapters \cup Payers

Transactions ==
    [id : Nat, status : {"MOCK_EXECUTED", "MOCK_CANCELLED"}, payer : Customers,
     intent : {IntentOf[c] : c \in Customers}, origin : {"agent", "external"}]

Labels == {"new", "judged", "recorded", "saving", "evaluated", "sent", "writing", "reply",
           "done", "refused", "failed", "lost"}
Steps  == {"observe", "external", "dispatch", "readback", "cancel", "check", "verified", "aborted"}

TypeOK ==
    /\ decision \in [Adapters -> {"NONE", "ACCEPT", "HOLD", "BLOCK"}]
    /\ spent \subseteq {NonceOf[a] : a \in Adapters} /\ recorded \subseteq {NonceOf[a] : a \in Adapters}
    /\ loaded \in [Adapters -> SUBSET {NonceOf[a] : a \in Adapters}]
    /\ overlapped \in BOOLEAN
    /\ lines \in Seq(Transactions) /\ rewritten \in Seq(Transactions)
    /\ torn \in BOOLEAN /\ lock \in Clients \cup {Nobody}
    /\ pc \in [Clients -> Labels]
    /\ script \in Steps /\ victim \in Nat
    /\ executed \subseteq Customers
    /\ crashes \in Nat /\ faults \in Nat

(* The lock is held by the one that rewrites, and while it does the file   *)
(* is empty.                                                               *)
LockInv ==
    /\ \A c \in Clients : pc[c] = "writing" <=> lock = c
    /\ lock = Nobody => rewritten = << >>
    /\ lock # Nobody => lines = << >> /\ ~torn

(* A run that gets past the guard was accepted; without an overlap it is   *)
(* the only one between lookup and save, and when it has saved, the only   *)
(* one of its nonce that ever does.                                        *)
Saved(a) == decision[a] = "ACCEPT" /\ a \notin Unsaved /\ pc[a] # "lost"

GrantOf(a) ==
    /\ pc[a] = "new" => decision[a] = "NONE"
    /\ a \in Unsaved => NonceOf[a] # NoNonce
    /\ a \in Unsaved \/ pc[a] \in {"sent", "writing", "reply", "done"} => decision[a] = "ACCEPT"

SerialOf(a) ==
    /\ a \in Unsaved => Unsaved = {a} /\ NonceOf[a] \notin spent
    /\ pc[a] = "saving" => loaded[a] = spent
    /\ Saved(a) => NonceOf[a] \in spent \cup {NoNonce}
    /\ \A b \in Adapters :
          Saved(a) /\ Saved(b) /\ NonceOf[a] = NonceOf[b] /\ NonceOf[a] # NoNonce => a = b

GrantInv ==
    /\ \A a \in Adapters : GrantOf(a)
    /\ ~overlapped => \A a \in Adapters : SerialOf(a)

(* A content of the ledger numbers its lines, has a line per payer, and    *)
(* only of those that have been served.                                    *)
Sound(content) ==
    /\ \A i \in DOMAIN content :
          /\ content[i].id = i
          /\ content[i].origin = IF content[i].payer \in Adapters THEN "agent" ELSE "external"
    /\ \A i, j \in DOMAIN content : content[i].payer = content[j].payer => i = j

Served(c) ==
    /\ pc[c] \in {"writing", "reply", "done", "failed"}
    /\ c \in Adapters => decision[c] = "ACCEPT"

LedgerInv ==
    /\ Sound(lines) /\ Sound(rewritten)
    /\ \A c \in executed \cup Recorded(lines) \cup Recorded(rewritten) : Served(c)

(* Until the rail crashes the ledger, or the rewrite of it, is complete.   *)
CompleteInv ==
    crashes = 0 =>
        /\ ~torn
        /\ lock = Nobody => Recorded(lines) = executed
        /\ lock # Nobody => Recorded(rewritten) = executed \cup ({lock} \ {Undo})

(* The payment of the agent is the one the scenario undoes.                *)
Pinned(content) == \A i \in DOMAIN content : content[i].payer = Agent <=> i = victim

Untouched(content) ==
    \A i \in DOMAIN content :
        content[i].status = "MOCK_CANCELLED" => content[i].payer = Agent /\ pc[Undo] # "new"

(* Whoever is told that it has paid has.                                   *)
PaidInv == \A c \in Customers : pc[c] \in {"reply", "done"} => c \in executed

(* Until the rail crashes the scenario undoes the agent's payment, which   *)
(* it has seen in the ledger, and nothing is cancelled before.             *)
SceneInv ==
    crashes = 0 =>
        /\ script \in {"readback", "cancel"} => Agent \in executed
        /\ script \in {"observe", "external", "dispatch", "readback"} => pc[Undo] = "new"
        /\ script = "cancel" \/ pc[Undo] # "new" =>
              Agent \in executed /\ Pinned(lines) /\ Pinned(rewritten)
        /\ Untouched(lines) /\ Untouched(rewritten)

IInv ==
    TypeOK /\ LockInv /\ GrantInv /\ LedgerInv /\ CompleteInv /\ PaidInv /\ SceneInv
=============================================================================
