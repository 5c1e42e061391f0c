-------------------------- MODULE MCPaymentDecision --------------------------
(* The base submission and the interesting values of every field.          *)
EXTENDS PaymentDecisionTable

MCProposal ==
    [action_type |-> "agent_payment", asset |-> "usdc", amount |-> 2,
     approved_budget |-> 3, purpose |-> "research", human_intent_id |-> "h1",
     causal_parent |-> "c1", recipient |-> "alice", approved_recipient |-> "alice",
     payment_mode |-> "one_time", recurring_approval |-> FALSE,
     agent_id |-> "agent", budget_scope |-> "day"]

MCEnvelope ==
    [authentic |-> TRUE, expires_at |-> 2, subject_agent_id |-> "agent",
     purpose |-> "research", causal_parent |-> "c1", human_intent_id |-> "h1",
     payment_mode |-> "one_time", allowed_asset |-> "usdc",
     allowed_recipient |-> "alice", budget_scope |-> "day", max_amount |-> 2,
     nonce |-> "n1"]

MCPolicy ==
    [allowed_assets |-> {"usdc"}, allowed_recipients |-> {"alice", "bob"},
     default_approved_budget |-> 1, recurring_needs_approval |-> TRUE]

MCProposalValues ==
    [action_type |-> {"transfer"}, asset |-> {"eur"},
     amount |-> {-1, 0, 1, 3, 4, BadNumber, NaN, None},
     approved_budget |-> {1, 2, BadNumber, NaN, None},
     purpose |-> {None, "other"}, human_intent_id |-> {None, "h2"},
     causal_parent |-> {None}, recipient |-> {"bob", "carol"},
     approved_recipient |-> {None, "bob"},
     payment_mode |-> {"recurring"}, recurring_approval |-> {TRUE},
     agent_id |-> {"other"}, budget_scope |-> {"month"}]

MCEnvelopeValues ==
    [authentic |-> {FALSE}, expires_at |-> {1, 3, None}, subject_agent_id |-> {"other"},
     purpose |-> {"other"}, causal_parent |-> {"c2"}, human_intent_id |-> {"h2"},
     payment_mode |-> {"recurring"}, allowed_asset |-> {"eur"},
     allowed_recipient |-> {"bob"}, budget_scope |-> {"month"},
     max_amount |-> {1, 4, BadNumber, NaN, None}, nonce |-> {NoNonce}]

MCPolicyValues ==
    [allowed_assets |-> {{}, {"usdc", "eur"}}, allowed_recipients |-> {{}, {"alice"}},
     default_approved_budget |-> {2, BadNumber}, recurring_needs_approval |-> {FALSE}]
=============================================================================
