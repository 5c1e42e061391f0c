---------------------------- MODULE LiminalGuard ----------------------------
(***************************************************************************)
(* The guard around the actions of a NOOA agent (nooa_liminal_guard.py).   *)
(* A call maps an exported span to a proposal, evaluates it, records the   *)
(* authorization in a ledger, consumes the nonce, runs the executor,       *)
(* records the observation and exports a bundle of evidence.               *)
(*                                                                         *)
(* Calls run in threads or processes of their own over one ledger and one  *)
(* store of nonces, with no lock between them, and may be killed.  A store *)
(* is replaced by rename and a record is one write, so that neither is     *)
(* ever read half written.  The hash of a record is taken to be its place  *)
(* in the ledger, and the digest of a proposal the proposal.               *)
(***************************************************************************)
EXTENDS EvidenceFiles, Integers

CONSTANTS
    Calls,
    SpanChoices,    \* the assignments of spans to calls that are tried
    Defaults,       \* defaults of the adapter: a partial function
    AllowedScopes, NetworkAllowlist, IrreversibleActions, ApprovalScopes,   \* the policy
    Elapsed,        \* Elapsed[c]: ns from the decision on c to its completion (the clock may be set)
    MaxInFlight,    \* bound: calls between evaluation and bundle
    MaxKills        \* bound: calls killed

None == "None"      \* JSON null and Python's None
False == "False"    \* JSON false; the text "false" is another value

ASSUME LiminalAssumption ==
    /\ MaxInFlight \in Nat \ {0} /\ MaxKills \in Nat
    /\ Elapsed \in [Calls -> Int]
    /\ AllowedScopes \cap {None, "", " ", "unknown"} = {}  \* a policy names the scopes it allows

VARIABLES
    span,       \* span[c]: the exported span of call c
    proposal,   \* proposal[c]: what the adapter makes of it
    pc,         \* pc[c]: what c does next
    decision,   \* decision[c]: what evaluate() returned
    ledger,     \* the records of liminaldb-ledger.jsonl
    store,      \* consumed-nonces.json: the call that consumed each nonce
    hash,       \* hash[c]: the hash c has last read from the ledger, or appended
    loaded,     \* loaded[c]: the store c has read in consume()
    authorized, \* authorized[c]: the hash of its authorization record
    outcome,    \* outcome[c]: status and side_effect_executed
    effects,    \* the calls whose action has happened
    bundle,     \* bundle[c]: the directory of its evidence
    overlapped, \* two calls have been inside consume() at once
    kills       \* calls killed

vars == <<span, proposal, pc, decision, ledger, store, hash, loaded, authorized, outcome, effects,
          bundle, overlapped, kills>>

-----------------------------------------------------------------------------
(* proposal_from_nooa_span(): a value is looked up under each alias, first *)
(* at the top of the span and then in its attributes, and only if it is    *)
(* nowhere in the span among the defaults.                                 *)
Place(s, names, k) ==
    [in |-> IF k % 2 = 1 THEN s.top ELSE s.attributes, name |-> names[(k + 1) \div 2]]

Given(s, names) ==
    {k \in 1 .. 2 * Len(names) :
        LET p == Place(s, names, k) IN p.name \in DOMAIN p.in /\ p.in[p.name] # None}

Preset(names) == {i \in DOMAIN names : names[i] \in DOMAIN Defaults}

Pick(s, names, default) ==
    LET first == Place(s, names, Min(Given(s, names)))
    IN  IF Given(s, names) # {} THEN first.in[first.name]
        ELSE IF Preset(names) # {} THEN Defaults[names[Min(Preset(names))]] ELSE default

OptionalText(text) == IF text \in {"", " "} THEN None ELSE text

(* Mutant of Truthy: the text "false" is read as a boolean.                *)
TruthyText(value) == value \notin {None, False, "", "false"}

Truthy(value) == value \notin {None, False, ""}

Upper == [SEND |-> "send", Deploy |-> "deploy", IRREVERSIBLE |-> "irreversible",
          Partner |-> "partner"]
Lower(text) == IF text \in DOMAIN Upper THEN Upper[text] ELSE text

Proposal(s) ==
    LET method == Pick(s, << "method", "name", "span_name" >>, "unknown_method") IN
    [span_id         |-> Pick(s, << "span_id", "id" >>, "digest of the span"),
     parent_span_id  |-> OptionalText(Pick(s, << "parent_span_id", "parent_id" >>, None)),
     intent_id       |-> OptionalText(Pick(s, << "intent_id" >>, None)),
     parent_cause    |-> OptionalText(Pick(s, << "parent_cause" >>, None)),
     action          |-> Lower(Pick(s, << "action" >>, method)),
     scope           |-> Pick(s, << "scope" >>, "unknown"),
     reversibility   |-> Lower(Pick(s, << "reversibility" >>, "reversible")),
     approval_ref    |-> OptionalText(Pick(s, << "approval_ref", "human_approval" >>, None)),
     nonce           |-> OptionalText(Pick(s, << "nonce" >>, None)),
     contains_secret |-> Truthy(Pick(s, << "contains_secret" >>, False)),
     destination     |-> OptionalText(Pick(s, << "destination", "host" >>, None))]

-----------------------------------------------------------------------------
(* evaluate().                                                             *)

NetworkActions == {"network_send", "send", "http_post", "upload"}

IsNetwork(p) == p.scope = "network.send" \/ p.action \in NetworkActions

SecretEgress(p) ==
    IsNetwork(p) /\ p.contains_secret /\ Lower(p.destination) \notin NetworkAllowlist

NeedsApproval(p) ==
    \/ p.reversibility = "irreversible"
    \/ p.action \in IrreversibleActions
    \/ p.scope \in ApprovalScopes

Blocking(p, spent) ==
    {r \in {"MISSING_INTENT", "MISSING_CAUSAL_PARENT", "INVALID_SCOPE", "MISSING_NONCE",
            "INTENT_REPLAYED", "SECRET_EGRESS_DENIED"} :
        CASE r = "MISSING_INTENT"        -> p.intent_id = None
          [] r = "MISSING_CAUSAL_PARENT" -> p.parent_cause = None
          [] r = "INVALID_SCOPE"         -> p.scope \notin AllowedScopes
          [] r = "MISSING_NONCE"         -> p.nonce = None
          [] r = "INTENT_REPLAYED"       -> p.nonce # None /\ p.nonce \in spent
          [] r = "SECRET_EGRESS_DENIED"  -> SecretEgress(p)}

Decision(p, spent) ==
    LET blocking == Blocking(p, spent)
        held     == blocking = {} /\ NeedsApproval(p) /\ p.approval_ref = None
    IN  [decision |-> CASE blocking # {} -> "BLOCK"
                        [] held          -> "HOLD"
                        [] OTHER         -> "ACCEPT",
         reasons  |-> CASE blocking # {} -> blocking
                        [] held          -> {"HUMAN_APPROVAL_REQUIRED"}
                        [] OTHER         -> {"POLICY_MATCH"}]

Allowed(c) == decision[c].decision = "ACCEPT"

-----------------------------------------------------------------------------
NoDecision == [decision |-> None, reasons |-> {}]
NotExecuted == [status |-> "NOT_EXECUTED", executed |-> FALSE]

Init ==
    /\ span \in SpanChoices
    /\ proposal = [c \in Calls |-> Proposal(span[c])]
    /\ pc = [c \in Calls |-> "evaluate"]
    /\ decision = [c \in Calls |-> NoDecision]
    /\ ledger = << >> /\ store = << >>
    /\ hash = [c \in Calls |-> 0]
    /\ loaded = [c \in Calls |-> << >>]
    /\ authorized = [c \in Calls |-> 0]
    /\ outcome = [c \in Calls |-> NotExecuted]
    /\ effects = {}
    /\ bundle = [c \in Calls |-> NoFiles]
    /\ overlapped = FALSE /\ kills = 0

InFlight == {c \in Calls : pc[c] \notin {"evaluate", "done", "killed"}}

Goto(c, label) == pc' = [pc EXCEPT ![c] = label]

Evaluate(c) ==
    /\ pc[c] = "evaluate" /\ Cardinality(InFlight) < MaxInFlight
    /\ decision' = [decision EXCEPT ![c] = Decision(proposal[c], DOMAIN store)]
    /\ Goto(c, "authorize")
    /\ UNCHANGED <<span, proposal, ledger, store, hash, loaded, authorized, outcome, effects, bundle,
                   overlapped, kills>>

(* HashLedger.append() reads the last hash, then opens the file to append. *)
ReadLastHash(c) ==
    /\ \/ pc[c] = "authorize" /\ Goto(c, "append authorization")
       \/ pc[c] = "observe" /\ Goto(c, "append observation")
    /\ hash' = [hash EXCEPT ![c] = Len(ledger)]
    /\ UNCHANGED <<span, proposal, decision, ledger, store, loaded, authorized, outcome, effects, bundle,
                   overlapped, kills>>

AppendAuthorization(c) ==
    /\ pc[c] = "append authorization"
    /\ ledger' = Append(ledger, [type |-> "authorization", previous |-> hash[c], call |-> c,
                                 proposal |-> proposal[c], decision |-> decision[c]])
    /\ authorized' = [authorized EXCEPT ![c] = Len(ledger) + 1]
    /\ Goto(c, IF Allowed(c) THEN "consume" ELSE "observe")
    /\ UNCHANGED <<span, proposal, decision, store, hash, loaded, outcome, effects, bundle, overlapped,
                   kills>>

(* Mutant of SpentSince: consume() does not look again.                    *)
SpentNever(c) == FALSE
SpentSince(c) == proposal[c].nonce \in DOMAIN store

(* consume(): a nonce spent since the evaluation makes the call fail.      *)
LoadNonces(c) ==
    /\ pc[c] = "consume"
    /\ IF SpentSince(c)
       THEN /\ outcome' = [outcome EXCEPT ![c] = [status |-> "FAILED", executed |-> FALSE]]
            /\ Goto(c, "observe")
            /\ UNCHANGED <<loaded, overlapped>>
       ELSE /\ loaded' = [loaded EXCEPT ![c] = store]
            /\ overlapped' = (overlapped \/ \E d \in Calls : pc[d] = "replace")
            /\ Goto(c, "replace")
            /\ UNCHANGED outcome
    /\ UNCHANGED <<span, proposal, decision, ledger, store, hash, authorized, effects, bundle, kills>>

(* The whole store is replaced: what others wrote since is lost.           *)
ReplaceNonces(c) ==
    /\ pc[c] = "replace"
    /\ LET nonce == proposal[c].nonce IN
       store' = [n \in DOMAIN loaded[c] \cup {nonce} |-> IF n = nonce THEN c ELSE loaded[c][n]]
    /\ loaded' = [loaded EXCEPT ![c] = << >>]
    /\ Goto(c, "run")
    /\ UNCHANGED <<span, proposal, decision, ledger, hash, authorized, outcome, effects, bundle,
                   overlapped, kills>>

(* Mutant of Observed: executed only if the executor returned.             *)
ObservedIfReturned(returned) ==
    [status |-> IF returned THEN "SUCCEEDED" ELSE "FAILED", executed |-> returned]

Observed(returned) ==
    [status |-> IF returned THEN "SUCCEEDED" ELSE "FAILED", executed |-> TRUE]

(* The executor acts and returns, or raises before or after it has acted.  *)
Run(c) ==
    /\ pc[c] = "run"
    /\ \E acted, returned \in BOOLEAN :
          /\ returned => acted
          /\ effects' = IF acted THEN effects \cup {c} ELSE effects
          /\ outcome' = [outcome EXCEPT ![c] = Observed(returned)]
    /\ Goto(c, "observe")
    /\ UNCHANGED <<span, proposal, decision, ledger, store, hash, loaded, authorized, bundle, overlapped,
                   kills>>

AppendObservation(c) ==
    /\ pc[c] = "append observation"
    /\ ledger' = Append(ledger, [type |-> "observation", previous |-> hash[c], call |-> c,
                                 authorization |-> authorized[c], observation |-> outcome[c]])
    /\ hash' = [hash EXCEPT ![c] = Len(ledger) + 1]
    /\ Goto(c, "export")
    /\ UNCHANGED <<span, proposal, decision, store, loaded, authorized, outcome, effects, bundle,
                   overlapped, kills>>

-----------------------------------------------------------------------------
(* _export_evidence().                                                     *)

CmlAction(action) ==
    CASE action \in NetworkActions -> "send"
      [] action \in {"read", "open"} -> "read"
      [] action \in {"write", "delete", "deploy", "payment", "push_main"} -> "write"
      [] action = "connect" -> "connect"
      [] OTHER -> "exec"

(* Ids are plain texts, and nothing keeps the cause a span names from      *)
(* being the id of another row of its own trace.                           *)
Gap(id) == "gap:" \o id
Observation(id) == "observation:" \o id

(* Times are relative to the decision.                                     *)
CompletedAt(c) == IF Elapsed[c] > 2 THEN Elapsed[c] ELSE 2

CmlRows(c) ==
    LET p == proposal[c]
    IN  << [id |-> IF p.parent_cause = None THEN Gap(p.span_id) ELSE p.parent_cause,
            time |-> 0, action |-> "write", parent |-> None],
           [id |-> p.span_id, time |-> 1, action |-> CmlAction(p.action),
            parent |-> p.parent_cause],
           [id |-> Observation(p.span_id), time |-> CompletedAt(c), action |-> "write",
            parent |-> p.span_id] >>

LtpRows(c) ==
    << [type |-> "sense", parent |-> proposal[c].parent_span_id],
       [type |-> "transition", parent |-> "sense", decision |-> decision[c]],
       [type |-> "commit", parent |-> "transition", observation |-> outcome[c]] >>

Meta == {"manifest", "bundle-verification"}

(* build_manifest() and verify_bundle().                                   *)
Manifest(dir) == [f \in DOMAIN dir \ Meta |-> Digest(dir[f])]
Valid(dir)    == "manifest" \in DOMAIN dir /\ dir["manifest"] = Manifest(dir)

Records ==
    {"intent", "action", "result", "verification", "authorization", "cml-trace",
     "cml-findings", "ltp-trace"}

(* Mutant of BundleFiles: the manifest is built before the ledger is copied. *)
BundleFilesListedEarly ==
    << Records, {"manifest"}, {"liminaldb-ledger"}, {"bundle-verification"} >>

(* The order in which the files are written.  The records depend on the    *)
(* call alone and nobody else reads them: they are written in one step.    *)
BundleFiles == << Records, {"liminaldb-ledger"}, {"manifest"}, {"bundle-verification"} >>

Content(c, file) ==
    LET p == proposal[c] IN
    CASE file = "intent"        -> << p.intent_id, p.parent_cause, p.scope, p.approval_ref >>
      [] file = "action"        -> << p.span_id, p.parent_span_id, p.action, p.destination, Digest(p) >>
      [] file = "result"        -> outcome[c]
      [] file = "verification"  -> << decision[c], hash[c] >>
      [] file = "authorization" -> decision[c]
      [] file = "cml-trace"     -> CmlRows(c)
      [] file = "cml-findings"  -> decision[c].reasons \cap {"SECRET_EGRESS_DENIED"}
      [] file = "ltp-trace"     -> LtpRows(c)
      [] file = "liminaldb-ledger" -> ledger
      [] file = "manifest"      -> Manifest(bundle[c])
      [] file = "bundle-verification" -> Valid(bundle[c])

Unwritten(c) == {i \in DOMAIN BundleFiles : ~(BundleFiles[i] \subseteq DOMAIN bundle[c])}

Export(c) ==
    /\ pc[c] = "export"
    /\ LET next == Min(Unwritten(c)) IN
       /\ bundle' = [bundle EXCEPT ![c] = Put(@, [f \in BundleFiles[next] |-> Content(c, f)])]
       /\ Goto(c, IF next = Len(BundleFiles) THEN "done" ELSE "export")
    /\ UNCHANGED <<span, proposal, decision, ledger, store, hash, loaded, authorized, outcome,
                   effects, overlapped, kills>>

Kill(c) ==
    /\ c \in InFlight /\ kills < MaxKills
    /\ kills' = kills + 1
    /\ Goto(c, "killed")
    /\ UNCHANGED <<span, proposal, decision, ledger, store, hash, loaded, authorized, outcome, effects,
                   bundle, overlapped>>

Done == (\A c \in Calls : pc[c] \in {"done", "killed"}) /\ UNCHANGED vars

Step(c) ==
    Evaluate(c) \/ ReadLastHash(c) \/ AppendAuthorization(c) \/ LoadNonces(c) \/ ReplaceNonces(c)
    \/ Run(c) \/ AppendObservation(c) \/ Export(c)

Next == (\E c \in Calls : Step(c) \/ Kill(c)) \/ Done

Spec == Init /\ [][Next]_vars
=============================================================================
