------------------------------ MODULE MCGateway ------------------------------
(* Requests for the gateway: two that are accepted, one that is blocked    *)
(* for want of an approval and one that is rejected.                       *)
EXTENDS GatewayProperties

CONSTANTS pay, read, destroy, vague

MCComplete == [intent_id |-> "i1", causal_parent |-> "c1", scope |-> "s1",
               reversibility |-> "irreversible", human_approval |-> "a1"]

AllHeaders ==
    [r \in {pay, read, destroy, vague} |->
        CASE r = pay     -> MCComplete
          [] r = read    -> [MCComplete EXCEPT !.reversibility = "reversible",
                                               !.human_approval = Missing]
          [] r = destroy -> [MCComplete EXCEPT !.human_approval = "blank"]
          [] r = vague   -> [MCComplete EXCEPT !.reversibility = "forever"]]

MCHeaders == [r \in Requests |-> AllHeaders[r]]
=============================================================================
