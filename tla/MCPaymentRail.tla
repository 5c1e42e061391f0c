--------------------------- MODULE MCPaymentRail ---------------------------
(* The scenario's own payments, a second run of the adapter under the same *)
(* envelope but in shadow mode, one under another envelope, which pays     *)
(* whenever it likes, and a shadow run without an envelope that is held.   *)
EXTENDS PaymentRailProperties

CONSTANTS agent, again, second, held, rival, undo, n1, n2

MCPolicy  == [a \in Adapters |-> IF a = held THEN "HOLD" ELSE "ACCEPT"]
MCMode    == [a \in Adapters |-> IF a \in {again, held} THEN "shadow" ELSE "enforce"]
MCNonceOf == [a \in Adapters |-> CASE a = second -> n2 [] a = held -> NoNonce [] OTHER -> n1]
MCIntent  == [c \in Adapters \cup Payers |-> IF c = second THEN "another" ELSE "order"]
=============================================================================
