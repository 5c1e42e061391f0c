------------------------------ MODULE SingleUse ------------------------------
(***************************************************************************)
(* What replay protection promises, with no files, processes or hashes:    *)
(* a ledger of nonces, each of which can be spent once, and claims that    *)
(* are granted only for a nonce they have spent themselves.                *)
(***************************************************************************)
CONSTANTS Claims,     \* submissions
          Nonces,     \* nonces of signed envelopes
          NonceOf     \* the nonce a claim presents, if any

VARIABLES spent,      \* nonces that can no longer be presented
          due,        \* claims that spent their nonce and await the answer
          granted     \* claims answered ACCEPT

vars == <<spent, due, granted>>

Init == spent = {} /\ due = {} /\ granted = {}

Spend(c) ==
    /\ NonceOf[c] \in Nonces \ spent
    /\ spent' = spent \cup {NonceOf[c]}
    /\ due' = due \cup {c}
    /\ UNCHANGED granted

Grant(c) ==
    /\ c \in due
    /\ due' = due \ {c}
    /\ granted' = granted \cup {c}
    /\ UNCHANGED spent

(* The answer is lost with the process; the nonce stays spent.             *)
Drop ==
    /\ \E lost \in SUBSET due : lost # {} /\ due' = due \ lost
    /\ UNCHANGED <<spent, granted>>

Next == (\E c \in Claims : Spend(c) \/ Grant(c)) \/ Drop

Spec == Init /\ [][Next]_vars
=============================================================================
