--------------------------- MODULE MCGuardService ---------------------------
(* Submissions for the guard: two payments (alice, bob) under two signed   *)
(* envelopes, retries of the first, and the ones that fail early.          *)
EXTENDS GuardServiceProperties

CONSTANTS alice1, alice2, bob1, over, shadow1, nanAmount, junk, cli1, cliMissing
CONSTANTS n1, n2

MCProposal(who, amt, id) ==
    [action_type |-> "agent_payment", asset |-> "usdc", amount |-> amt,
     approved_budget |-> 2, purpose |-> "research", human_intent_id |-> id,
     causal_parent |-> "c1", recipient |-> who, approved_recipient |-> None,
     payment_mode |-> "one_time", recurring_approval |-> FALSE,
     agent_id |-> "agent", budget_scope |-> "day"]

MCEnvelope(who, id, n) ==
    [authentic |-> TRUE, expires_at |-> 1, subject_agent_id |-> "agent",
     purpose |-> "research", causal_parent |-> "c1", human_intent_id |-> id,
     payment_mode |-> "one_time", allowed_asset |-> "usdc",
     allowed_recipient |-> who, budget_scope |-> "day", max_amount |-> 1, nonce |-> n]

MCPolicy ==
    [allowed_assets |-> {"usdc"}, allowed_recipients |-> {"alice", "bob"},
     default_approved_budget |-> 1, recurring_needs_approval |-> TRUE]

Http(mode, p, e) ==
    [via |-> "http", wellformed |-> TRUE, file |-> "ok", mode |-> mode,
     require |-> FALSE, proposal |-> p, envelope |-> e]

PayAlice == Http("enforce", MCProposal("alice", 1, "h1"), MCEnvelope("alice", "h1", n1))
PayBob   == Http("enforce", MCProposal("bob", 1, "h2"), MCEnvelope("bob", "h2", n2))

AllBodies ==
    [r \in {alice1, alice2, bob1, over, shadow1, nanAmount, junk,
            cli1, cliMissing} |->
        CASE r \in {alice1, alice2} -> PayAlice
          [] r = bob1       -> PayBob
          [] r = over       -> [PayAlice EXCEPT !.proposal.amount = 2]
          [] r = shadow1    -> [PayAlice EXCEPT !.mode = "shadow"]
          [] r = nanAmount  -> [PayAlice EXCEPT !.proposal.amount = NaN]
          [] r = junk       -> [PayAlice EXCEPT !.wellformed = FALSE]
          [] r = cli1       -> [PayAlice EXCEPT !.via = "cli", !.mode = "cli",
                                                !.require = TRUE]
          [] r = cliMissing -> [PayAlice EXCEPT !.via = "cli", !.mode = "cli",
                                                !.file = "missing", !.envelope = NoEnvelope]]

MCBody == [r \in Requests |-> AllBodies[r]]
=============================================================================
