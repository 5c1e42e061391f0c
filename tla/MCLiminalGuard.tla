--------------------------- MODULE MCLiminalGuard ---------------------------
(***************************************************************************)
(* Two calls.  The first has every span that differs from the base span in *)
(* one value; the second brings its nonce again, in the same span or under *)
(* aliases in the attributes.                                              *)
(***************************************************************************)
EXTENDS LiminalGuardProperties

CONSTANTS c1, c2

MCCalls == {c1, c2}

Base ==
    [span_id |-> "s1", intent_id |-> "intent", parent_cause |-> "cause", name |-> "send",
     scope |-> "network.send", nonce |-> "n1", contains_secret |-> "True",
     destination |-> "Partner"]

At(top, attributes) == [top |-> top, attributes |-> attributes]

Without(name) == [n \in DOMAIN Base \ {name} |-> Base[n]]

Given1(name, value) == At(name :> value @@ Base, << >>)

Retry == At(Base, << >>)
Aliased ==
    At([id |-> "s3", contains_secret |-> False, nonce |-> None],
       [host |-> "elsewhere", method |-> "deploy", human_approval |-> "alice", nonce |-> "n1",
        scope |-> "deploy", intent_id |-> "intent", parent_cause |-> "s1"])

Spans ==
    {At(Without(name), << >>) : name \in DOMAIN Base}
    \cup {Given1(name, value) : name \in {"intent_id", "nonce"}, value \in {" "}}
    \cup {Given1("scope", s) : s \in {"other", "deploy"}}
    \cup {Given1("contains_secret", v) : v \in {False, "false"}}
    \cup {Given1("destination", d) : d \in {"elsewhere"}}
    \cup {Given1("action", a) : a \in {"SEND", "Deploy", "read", "connect"}}
    \cup {Given1("reversibility", "IRREVERSIBLE"), Given1("parent_cause", "s1"),
          Given1("parent_cause", Observation("s1")),
          Given1("nonce", "n2"), Retry,
          At([Base EXCEPT !.contains_secret = "false", !.destination = "elsewhere"], << >>)}

MCSpanChoices ==
    {(c1 :> first) @@ (c2 :> Retry) : first \in Spans}
    \cup {(c1 :> Retry) @@ (c2 :> Aliased)}
MCDefaults == [host |-> "partner"]
MCElapsed == (c1 :> 0 - 1) @@ (c2 :> 9)
MCAllowedScopes == {"network.send", "deploy"}
MCNetworkAllowlist == {"partner"}
MCIrreversible == {"deploy"}
MCApprovalScopes == {"deploy"}
=============================================================================
