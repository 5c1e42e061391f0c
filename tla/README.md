# ProofPath, verified

TLA+ models of ProofPath: an *action boundary* that lets an agent's action
through only when its intent, cause, scope and approval check out, and that
leaves a hash-chained audit record of every decision. The models follow the
code; every definition that stands for code is listed with its lines in
`PROJECT.json` (`map`).

Source paths below are relative to `src/`.

## 1. Inventory

| Component | Source | State | Operations | Interacts with | What is hard | What makes it correct |
| --- | --- | --- | --- | --- | --- | --- |
| Payment decision engine | `examples/agent-payment-guard/payment_guard.py` | audit log (JSONL), replay store (JSON), its `.tmp` file | `decide`, `verify_intent_envelope`, `nonce_replayed`, `append_audit`, `record_nonce`, `save_replay_store` | called by the service and by its own command line; all share the files | no lock anywhere; read-modify-write of files; crash between two files | no payment accepted that the policy refuses; a nonce accepted once; every answer recorded; records linked |
| Guard HTTP service | `examples/agent-payment-guard/payment_guard_service.py` | the same files, the configuration | `do_POST`, `do_GET` | one thread per request (`ThreadingHTTPServer`); the adapter | threads interleave between file accesses; the hash is read back after the append | as above, also across a restart |
| Mock payment rail | `examples/agent-payment-guard/mock_payment_rail.py` | ledger file, behind a process lock | execute, cancel, list | adapter, external actors | whole-file rewrite, crash in it | the ledger loses no payment |
| Adapter and ASB-01 scenario | `payment_guard_to_mock_rail_adapter.py`, `run_stale_observation_race_demo.sh`, `scripts/finalize_asb01_evidence.py` | none (a process) | evaluate, then execute | guard and rail over HTTP | lost answers, stale observation | nothing reaches the rail without an ACCEPT |
| Gateway | `crates/proofpath-gateway/src/main.rs` | `last_hash` behind an async mutex, audit file | `gateway`, `forward_to_upstream`, `AuditLog::append` | clients, the protected API, the file system through tokio's blocking threads | tasks dropped at an await, writes in the background, restart forgets `last_hash` | mutex never stuck; records truthful; chain intact |
| Header verifier | `crates/proofpath-verifier/src/lib.rs` | none | `verify` | the gateway | order of the checks | ACCEPT only with a complete context |
| Witness tools | `crates/proofpath-verifier/src/audit.rs`, `bin/*.rs`, `scripts/validate_compute_witness.py`, `scripts/check_conformance_fixtures.py` | files read | build, verify a packet | conformance fixtures | two implementations of one verdict | they agree |
| Audit verification, export, metrics | `scripts/verify_audit_log.py`, `scripts/export_payment_guard_evidence.py`, `scripts/collect_action_boundary_metrics.py` | bundle directory | verify the chain, copy, report | the logs of guard and gateway | runs beside a live service | the bundle is what the report describes |
| NOOA liminal guard | `examples/nooa-liminal-guard/nooa_liminal_guard.py` | ledger (JSONL), consumed nonces, bundles | evaluate, execute, export | the executor it wraps | crash between authorization, nonce and action | no action without authorization; a nonce is used once |
| ASB-02, -03, -04 scenarios | `examples/authorization-revocation-guard`, `examples/business-invariant-guard`, `examples/order-timeout-three-graph`, `scripts/finalize_asb0*.py` | JSON files of the scenario | plan, revoke, dispatch, contain, reconcile | the finalizers | stale authority, tool success against a business failure, unknown outcome | the containment leaves the invariant true |
| Personal agent guard | `examples/personal-agent-guard` | approvals file, audit file | hook, approve | agent hosts run it per command | processes share files without a lock | no blocked command without a live approval |
| Authorization record export | `scripts/verify_authorization_record_export.py`, `scripts/check_authorization_record_export.py` | none | build, verify | each other | two implementations of one verdict; expiry, consumption and the report | an effect only under live authority, an execution only within it |
| Causal-temporal graph, anchors | `scripts/check_causal_temporal_graph.py`, `scripts/verify_ots_anchor.py`, ... | none | validate | - | order relations | no effect before its cause |
| Packaging, manifests, demo hosts | `scripts/build_*_skill.py`, `scripts/validate_capability_manifest.py`, `examples/upstream`, `examples/real-model-agent` | none | - | - | - | - |

The hazards of the code, each at the line where it bites and with the
properties that watch it, are in `PROJECT.json` (`hazards`).

## 2. Plan

| Order | Module(s) | Of | State |
| --- | --- | --- | --- |
| 1 | `PaymentDecision`, `PaymentDecisionTable` | the decision ladder as operators, and relations between the verdicts of several submissions | done, five theorems |
| 2 | `GuardService`, `SingleUse` | the guard on its files, and the single-use ledger it implements when served one at a time | done, eight theorems |
| 3 | `HeaderVerifier`, `Gateway` | the Rust gateway | done, six theorems |
| 4 | `PaymentRail` | guard, adapter and rail together, with a stale observation, lost answers and a torn ledger; again a `SingleUse` | done, four theorems |
| 5 | `LiminalGuard` | the NOOA guard: authorization, nonce, action, observation, evidence | done, five theorems |
| 6 | `LocalTrail` | the exporter, the two verifiers, the agent hook and the approval command over one set of files | done, five theorems |
| 7 | `RevocationScenario`, `LimitScenario`, `OrderScenario`, composed by `ScenarioEvidence` over `EvidenceFiles` | ASB-02 to ASB-04 and their finalizers | done, four theorems |
| 8 | `TransitionTrace`, `WitnessChain`, `AuthorizationExport`, composed by `RecordReview` | the verdicts of the conformance scripts over mutated documents | done, four theorems |

What is left: every safety property of the passing runs is now also a theorem
(section 6). An append-only chained log that both guard and gateway refine under
one writer is the abstract specification still worth stating, and the trace and
bundle of ASB-01 could join the other scenarios.

## 3. The modules and the code

Every operator that stands for code is in `PROJECT.json` (`map`) with its lines.
An operator whose comment starts with "Mutant of" is not the code: it is a
plausible mistake in the operator after it, and `PROJECT.json` (`mutants`) names
the property that notices it.

### PaymentDecision, PaymentDecisionTable

`decide()` and `verify_intent_envelope()` are ladders of `if ...: return`.
`PolicyChecks` and `EnvelopeChecks` list the rungs in the order of the code,
because the order decides which reason is reported, whether the replay store is
read at all, and which refusal an approval can still repair;
`FirstThatApplies` is the ladder. Amounts keep the three ways `Decimal()` can go:
a number, text it refuses, and NaN, which it accepts and which raises in the
comparison, outside the `try`. `Raised` is that exception leaving `decide()`.

`PaymentDecisionTable` is a table rather than a system: its state is a submission
and the policy in force, and a step edits one field. Its properties compare the
verdicts of several submissions (with and without the envelope, under the policy
and a tighter one, before and after expiry), which one call of `decide()` does
not show.

### GuardService, GuardServiceProperties, SingleUse

| Code | Model |
| --- | --- |
| `audit.jsonl`, `replay-store.json`, `replay-store.json.tmp` | `log`, `store`, `tmp`; a file is `Absent`, `Empty` (just truncated), `Torn` (not JSON) or its content |
| a thread of `ThreadingHTTPServer`, or a run of the command line | a request `r`, at `pc[r]` |
| local variables of the handler | `meta[r]`, `prev[r]`, `audit_hash[r]`, `loaded[r]`, and `fd[r]`, the file behind the open handle (a rename moves the file, not the handle) |
| `do_POST` up to the first file access; its 400 answers | `Receive`; `RejectMalformed` |
| `nonce_replayed` | `ReplayLookup`, and `ScanAudit` when there is no store |
| `verify_intent_envelope` with `datetime.now()` | `VerifyEnvelope` |
| `append_audit`: read the last hash, append | `ReadPreviousHash`, `AppendAudit` |
| `get_previous_hash` after the append, guard of `persist_accepted_nonce_if_needed` | `ReadBackHash` |
| `record_nonce`, `save_replay_store` | `LoadStore`, `OpenTmp`, `WriteTmp`, `ReplaceStore` |
| the response | `Respond` |
| the process dies and is started again | `CrashService`, `KillCommand` |

The steps are the accesses to shared files; what a process computes between two
of them belongs to the earlier one. There is no lock in the code and none in the
model. `SingleUse` is the promise without files: a nonce is spent once, and only
the claim that spent it can be granted. `ImplementsSingleUse` maps the nonces in the
store to `spent`, the acceptances on their way to the client to `due` and the
answered ones to `granted`. `PaymentsAreSingleUse` of the rail maps the same ledger
one station further, where `granted` is what has been paid.

### HeaderVerifier, Gateway, GatewayProperties

| Code | Model |
| --- | --- |
| `proofpath-audit.jsonl` | `file`: records, line ends and fragments, as they were written |
| `AuditLog.last_hash` behind `tokio::sync::Mutex`, held across the append | `last_hash`, `holder` |
| tokio's file operations on blocking threads | `background`; `line_error` remembers a failed write until the next operation on the handle |
| the API behind the gateway | `upstream`, the requests it has carried out |
| the task of a request, at its `.await` | `pc[r]` with `forwarded[r]`, `previous[r]`, `audit_hash[r]` |
| `gateway` | `Receive`, `Respond` |
| `forward_to_upstream` | `SendUpstream`, `UpstreamReply` (status or broken connection) |
| `AuditLog::append` | `TakeLock`, `OpenLog`, `WriteLineEnd`, `AppendFails` |
| a blocking thread | `PerformWrite` |
| the client disconnects and the server drops the handler's future | `Disconnect` |
| the process dies, `main()` runs again | `Crash` |

tokio's and hyper's behaviour is external to `src/` and modelled from how
`main.rs` uses it: `write_all` returns when the bytes are handed over, the next
operation on the handle waits for it and reports its error, the file is never
flushed, and a dropped future runs no further but its guards are dropped.

### PaymentRail, PaymentRailProperties

| Code | Model |
| --- | --- |
| `mock-rail-transactions.jsonl` | `lines` and `torn` (half a line at the end, which makes every reader raise) |
| `TRANSACTIONS_LOCK`, and the list in the memory of the thread that holds it | `lock`, `rewritten` |
| `append_transaction`, `cancel_transaction` | `AppendTransaction` or `CancelTransaction` (take the lock, read, truncate), then `FinishRewrite` (write, release), then `RailReply` |
| the replay store and the accepted records of the guard's log | `spent`, `recorded`; `loaded[a]` is the store in the hands of a thread of the guard |
| the guard's thread for a run of the adapter | `Evaluate` (`decide`, with the lookup), `Persist`: `AppendAudit`, `LoadStore`, `SaveStore`; `GuardLost` if it dies or raises in between |
| the adapter | `Evaluate`, `GuardReply`, and the rail's actions; `Forwards` is its test, `ExecutionAllowed` the flag the guard computes |
| `run_stale_observation_race_demo.sh`, steps 1 to 6 | `script`: `Observe`, `RivalPaid`, `AgentPaid`, `Readback`, `VictimUndone`, `Check`; any failure leads to `aborted` (`set -e`) |
| the rail dies in the middle and is started again | `CrashRail`: the ledger is what had been written |

The guard appears here reduced to its nonces, with the steps that matter to them: it
looks a nonce up, appends its record, loads the store and replaces it, and threads
may come in between each other at every step, as in `GuardService` (which has the
hashes, the temporary file and the crashes in detail). `overlapped` is a history variable:
a nonce was looked up while another acceptance was not saved yet. Two such runs
under one envelope are both accepted (`v_double_accept`) and both paid, so
`PaidOnceAndOnlyIfAccepted` claims one payment per nonce only while nothing has
overlapped; that nothing is paid unaccepted, and no run pays twice, it claims always.
`PaymentsAreSingleUse` carries the promise to the ledger under the same condition:
guard, adapter and rail together take the steps of a `SingleUse` whose spending is the
save of the store and whose grant is the completed rewrite; a lost answer, a torn
ledger or a crash drops the claim for good.
`executed` is a history variable: the ledger cannot say what was paid before a
crash cut it.

### LiminalGuard, LiminalGuardProperties

| Code | Model |
| --- | --- |
| ledger (JSONL), `consumed_nonces.json`, one bundle per call | `ledger`, `store`, `bundle[c]` |
| one `execute()` of one process | a call `c` at `pc[c]`, with the span it was given in `span[c]` |
| `proposal_from_nooa_span`: aliases, defaults, `bool()` and `upper()` of what a span holds | `Proposal` |
| `evaluate` | `Decision`, in the order of the code's `if`s |
| `execute` up to the authorization record | `Evaluate`, `ReadLastHash`, `AppendAuthorization` |
| `NonceStore.consume`: load and look again, write and replace | `LoadNonces`, `ReplaceNonces` |
| the executor, which may raise; the observation | `Run`, `AppendObservation` |
| `_export_evidence`, file by file | `Export` (also after a refusal) |
| `verify_bundle` | `Valid`, over the files that are there |
| the process is killed | `Kill` |

`effects` is a history variable: what the executor has done, whatever was written
about it. `overlapped` remembers that two calls were inside `consume()` at once,
the one condition under which a nonce is used twice. The ids of the exported rows are
plain texts, as in the code: `"observation:" \o id`, `"gap:" \o id`, a span id and a
cause can coincide, and one of the spans makes them do so.

### LocalTrail, LocalTrailProperties

The tools that meet under `.proofpath/`: the payment guard (reduced to accepted
submissions, one at a time), the personal agent hook, two approval commands, the
exporter, and an editor of the log. `Casts` names the processes that come together
in one behaviour.

| Code | Model |
| --- | --- |
| `audit.jsonl`, `replay-store.json`, `approvals.json`, the bundle | `log`, `store`, `approvals`, `bundle` |
| `proofpath_guard.py main` | look up the rule and the approval, then append the record and answer |
| `proofpath_approve.py main` | read, truncate, write |
| `export_bundle` | verify the chain, load the store, copy log, copy store, write the report: one step each, any of them the last |
| `verify_hash_chain` and `verify_chain` | operators over a log; both judge a record by its own hash and by `previous_hash` |

Every approval command has its own lifetime (`--ttl-minutes`), one of `Ttls`, which may
be negative: `latest` remembers what the last command of a scope gave, and that is what
`ApprovalsAreKept` compares the file with.

The hook hashes its records over JSON with spaces and gives them no
`previous_hash`; `Spaced` and `NoPrevious` are these two facts.

### RevocationScenario, LimitScenario, OrderScenario, ScenarioEvidence

The three scripts are straight lines of "require, then write a file". `EvidenceFiles`
has the form: a step is a condition that must hold and the file it writes, and a
script is the sequence of its steps, computed from its fixtures and its mode.
`ScenarioEvidence` runs one (`Execute`, `Raise`, `Finish`), lets an owner re-issue
or revoke an authorization beside it, kills it (`Kill`), exchanges a raw file for that of
another run (`Swap`), and then runs the finalizer (`Finalize`), which copies, judges
(`RevocationHolds`, `LimitHolds`, `OrderHolds`), derives and seals. `Harmful` says
from the inputs what happened; the finalizers see only files.
`HarmfulRunIsNotSealed` is claimed while at most one file has been exchanged. The
bundle that may lie there before the finalizer runs is `SealedBundle`, the files it
derives from a set of raw files. Each file is written in one step: a kill inside the
write of a file, which would leave half of it, is not represented.

### TransitionTrace, WitnessChain, AuthorizationExport, RecordReview

Verdict functions as operators, one per check, in the order in which the scripts
fail. `RecordReview` is the editor: it starts from the base document of the vectors,
applies the mutations the vectors are made of (`materialize_case`, the challenge
fixtures), and computes ids, hashes, seals and expectations again wherever it likes.
A hash is the content it was computed from, so that it changes exactly when the
content does. The sealed vectors' `require_seal` is taken as true. An edit of a trace
relinks one event at a time, as the vectors do. A verdict is the first check
that fails. `Progress` of `WitnessChain` is the loop over the fixtures with the two
registers it carries, the receipts seen and the results so far.

### Abstractions

- A record's hash is a fresh name: the guard's is its position in the log, the
  gateway's is the request (the record carries a UUID). Two guard records with
  the same content in the same second, which would have equal hashes, are left
  out.
- A signature is its outcome (`authentic`); a nonce, a name, an amount is one of
  a few values. `None` is an absent field, `NoNonce` an absent or empty nonce.
- A guard record is one `write` of one line and taken to be atomic. A process
  crash keeps what was written (power loss is not modelled), and a gateway crash
  does not tear the write under way, though a failing disk may.
- A restart reads nothing but the files, and in the gateway not even those.
- `upstream_status` and the times in records are left out; no property needs them.
- `Served` and `AtRest` are the end of the inputs, a step that changes nothing,
  so that TLC's deadlock check stays on: a real deadlock is a state where a
  request waits and neither these nor another action is possible.

## 4. The runs

| Run | Instance | Asks |
| --- | --- | --- |
| `decision` | every submission at most three field edits from an accepted one | does the ladder keep its promises across submissions |
| `guard_concurrent` | four submissions, any two in flight: a thread, a command line and an excessive amount under one envelope, one under another; one crash | what survives with no lock at all |
| `guard_serial` | six submissions in every order, one at a time (two of them under one envelope, enforced and in shadow mode); one crash, one tick | what one client at a time may rely on, and is every submission answered |
| `gateway` | three requests, all at once; one crash, one departure, one failure, each at any await | chain, truthfulness, termination |
| `rail` | the scenario's two payments and its cancel, the adapter run again in shadow mode under the same envelope, once under another, and a shadow run without one that is held; two faults | who reaches the ledger, what it may lose, what containment may touch, is a payment again a single use if no lookup overlaps a save, does the scenario succeed |
| `liminal` | two calls at once, every span that differs from an accepted one in one value or uses aliases, one kill at any step | is every effect authorised, are the records of it true, is a nonce used once, does a bundle stand on its own |
| `files` | a hook with two approvers, with guard and exporter, and with guard and approver; approvals of two lifetimes, two exports, a clock tick, a kill, an edit of the log | what survives tools that share files and take no lock |
| `scenarios` | ASB-02 to -04 in every mode over shipped fixtures and one-field variants; one kill, one file of another run, an earlier bundle | can evidence be sealed that hides what happened, and is genuine evidence sealed |
| `records` | a sealed trace, four witness fixtures and five exported cases, two mutations each and any recomputation | what an accepted document means |
| `v_double_accept`, `v_crash_replay`, `v_gateway_trail` | the smallest instances that show them | see section 7 |

What each property says is in the comment above it. The properties fall into
those that hold under any concurrency and those that need one submission at a
time. The second group is not a restriction the guard enforces: nothing in
the code serialises submissions, and `v_double_accept` shows what happens
otherwise. `MaxInFlight = 1` is a condition on the deployment.

Why the bounds are enough. *Edits*: each property of the table relates at most
three fields (an amount, its budget and the presence of an envelope), so three
edits meet every combination a counterexample would need. *Guard, concurrent*:
every race is about one shared file and needs two processes in flight;
four submissions give each of the two a successor, which can take away the file
of a handle still open. Two envelopes are needed for a store that
already holds another nonce. One crash already puts every pair of files out of
step. One clock tick takes an envelope from live to expired; expiry only chooses
the verdict a process carries on with, so the serial run explores it. *Gateway*: three
requests allow one to hold the mutex, one to have left a write in the background
and one to wait; each kind of fault once, together, gives every combination of
two and three faults.

*Rail*: two writers contend for the ledger while a third waits; two faults let an
answer be lost and the rail crash over the ledger that payment left. Three runs of the
adapter go through the guard with a nonce, two of them with the same: two can
overlap while the third comes before, between or after.

*NOOA guard*: the races are between two calls at the same nonce, and one kill puts
ledger, store and bundle out of step at every step; the two calls that never
overlap are among the behaviours. *Local files*: no three of the tools write the
same file, except two approvers and none else; two lifetimes, one of them already over
when it is given, make a later approval end before the one it replaces; a second export meets what a
killed first one left. *Scenarios*: each script is deterministic but for the
owner, so a kill and an exchanged file are all that can differ from its straight
line. With two exchanged files the evidence of ASB-03 and ASB-04 can be made
consistent for another run (section 7). *Records*: the checks compare at most two
neighbouring pieces of a document; two mutations change both, and the
recomputations are free.

`gateway`, `guard_serial`, `rail` and `scenarios` use `FairSpec`, the others `Spec`.
`files` and `records` say `CHECK_DEADLOCK FALSE`: their processes end when the
commands have run, or when nothing is left of a document.

## 5. Fairness

Weak fairness is assumed of the steps of a request that has started (a started
thread or task goes on running: the operating system and tokio schedule it) and
in the gateway also of the background writes. `Receive`, the clock, crashes and
departures have none: no client has to submit anything. The gateway's upstream is
assumed to answer or to break the connection; the code has no timeout of its own,
so a silent upstream would hold its request, and only it, for ever (the mutex is not
held there). The mutex needs no strong fairness: with finitely many requests a
waiting task is passed only finitely often, and tokio's mutex is first-come. In
the rail the script and the requests it starts are fair; the other clients are
not, and `ScenarioReachesTarget` is promised only if they stay away and nothing
fails, because the script aborts at the first count it does not expect. In
`ScenarioEvidence` script and finalizer are fair (commands of one shell, run to their
end); the owner, kills and exchanged files are not.

## 6. The proofs

All theorems hold for every value of the constants that satisfies the module's
`ASSUME`: any finite set of requests, any bodies or headers, policy and bounds.

**Decision** (`PaymentDecisionTableProofs`), under `TableAssumption`. The ladder is
never unrolled by case analysis on the data: `FirstThatApplies` returns ACCEPT
only when no earlier refusing rung applies, and each rung is related to the same
rung of the other submission. `EnvelopesOnlyNarrow`: whatever an envelope says,
what is accepted with it is accepted by the policy alone. `TighteningNeverAdmits`:
removing an asset or a recipient, or asking for an approval, never turns a
refusal into an acceptance. `HoldsWaitOnlyForApproval`: approving a held submission gives the verdict
of a policy that asks for no approval, and never another HOLD. `SpentAnswersAreStable`
and `AcceptanceStaysMonotone` compare the ladder at two moments, at two amounts and in
the two modes: the answer to a spent nonce never changes and is no ACCEPT, and neither
time, a larger amount nor strict mode turns a refusal into an acceptance.

**Guard** (`GuardServiceProofs`). The inductive invariant `IInv` adds to the type
invariant what a process knows at each label (`StageInv`), that every hash in
circulation is the position of a record already written (`HashInv`), that
every copy of the store, in the file, in the temporary file and in memory, holds
only nonces with an ACCEPT record (`StoreInv`), that a process about to report a
replay has seen the original (`ReplayInv`), and that a request has a record
exactly from its append on (`RecordInv`). The copies matter: the store alone is not
inductive, since any process may rename any other's temporary file. Crashes are
cheap here, because the invariants only relate files to an append-only log. From
it: `SpentNoncesAreAudited`, `NoFalseReplay`,
`EveryAnswerIsAudited` and `TypeCorrect`, with no bound on the processes in flight.

**Guard, one at a time** (also in `GuardServiceProofs`), under `MaxInFlight = 1`. `SerialInv` adds
that all requests but one are at rest (`Alone`), that nobody but the request that saves
has the temporary file open and its copy of the store is still the store (`SaveInv`), that
the nonce a request carries is unspent until its own rename and in the store from
then on (`SpendInv`), that no two answers share one (`OnceInv`), that the previous
hash in hand is the last line (`ChainInv`), and that the hash in hand is that of the request's own record
(`NameInv`). A crash keeps all of it because a request that is stopped never moves
again. The proof needs the last conjunct of `GuardAssumption`: an absent, empty or torn
file is not one with a content. From it: `SerialGuardAcceptsOnce`, `SerialLogIsOneChain`,
`SerialHashesNameTheDecision` and the step simulation `SerialGuardIsSingleUse`: the rename
is `Spend`, the answer `Grant`, a crash or kill drops what is due, and every other step
is a stutter.

**Rail** (`PaymentRailProofs`). The lock is held exactly while the
ledger is being rewritten, and the file is empty meanwhile (`LockInv`); a payment on its way to the rail was
accepted, and while no lookup has overlapped a save, a run between the two is alone there,
holds the store as it is, and of the runs that have saved no two share a nonce
(`GrantInv`); a transaction's number is its
line (`LedgerInv`), and before any rail crash every payment has a line in
the ledger or in its rewrite (`CompleteInv`). `PaidInv` says who is paid for certain, `SceneInv` what the
script knows at each of its steps, so that the identifier it cancels is the agent's.
From it: `PaidOnce`, `NoPaymentIsLost`, `ContainmentIsPrecise`, and the step simulation
`RailIsSingleUse`, up to the first overlap: the save of the store is `Spend`, the finished
rewrite `Grant`, a lost answer, an unreadable ledger and a crash are `Drop`, and all
that lookups and audit records, the other payers, the script and the cancel do is a stutter.

**NOOA guard** (`LiminalGuardProofs`). `AdapterInv`: what is judged is what the span says
once aliases and defaults are resolved. `AuthorityInv`: a call past its authorization has
an accepted proposal and its record in the ledger; `OutcomeInv`: what a call is about to observe
is what the executor did; `NonceInv`: while no two calls have been inside
`consume()` together, a call past its rename is the only one with its nonce, and
the store in hand is the store on file; `BundleInv`: the ledger is a chain of back
references, and the files a bundle has so far are the right ones, taken from a beginning
of it. From it: `EffectsWereAccepted`, `EffectsAreAuthorized` (from the span itself, and
down to its defaults, to the effect), `ObservationsAreTruthful`, `OneUsePerNonce`,
`BundlesExplainTheirCalls`. `LiminalAssumption` asks that a policy
allows none of the values a span without a scope is given.

**Gateway** (`GatewayProofs`). `IInv` says that a record is handed over at most once
and is afterwards on its way, in the file or known to have failed (`WriteInv`),
that every hash a link may use is on file (`LinkInv`), that the lock is held
exactly inside `append`, and that a forwarded flag follows the upstream
(`UpstreamInv`). `ChainPerLife` needs more (`ChainInv`): while nobody departed
and nothing failed, the only pending write is that of the lock's holder, a holder whose
record is written has it at the end of the file, otherwise the end of the file is
`last_hash`, and the starts of chains are counted against the crashes so far.

**Local trail** (`LocalTrailProofs`), under `TrailAssumption`. `LogInv`: hashes are
distinct and positive, so a record that loses its predecessor points at nothing, and a
log that was edited, or that lost a record before its end, has a broken record;
`StoreInv`: the store never runs ahead of the log. The exporter's argument is one of
prefixes: a verdict `Describes` every log that begins with the one it was reached
on, and the copy in the bundle `Begins` the log (`ExportInv`); `QuietInv` is the
same with equality, for an export beside which nobody writes. `HookInv` and
`ApprovalInv`: every entry of the approvals file, and of the copies the approval
commands hold, is one that was granted, so a hook that answers ALLOW has seen a granted
one. `KeptInv`: without overlap and kill the file, or the one command that is writing
it, holds of every scope what the last command gave (`latest`). From it:
`ForeignRecordsShow`, `ReportsDescribeTheCopy`, `PassesAreApproved`, `ApprovalsStay`.

**Scenarios** (`ScenarioEvidenceProofs`), for any number of kills and exchanges.
`FinalizerInv`: the files of a bundle under way are those up to the finalizer's
position, with the contents the sealed bundle has, and the checksums are written
last; `BundleInv`: so a bundle with checksums is whole. `ScriptInv`: a script is n steps far
and every raw file is as its last write left it, except one if one has been exchanged.
`JudgedInv`: the judgement is passed before the first derived file, on the raw files as
they are. The three scripts are concatenations of parts; which step writes a
file last is put together from lemmas over two parts (`OnlyInBoth`,
`NeverInEither`, `LastInTheFirst`, `LastInTheSecond`). The argument of `HarmIsNotSealed`:
whatever harm a script does shows in two files that the finalizer reads, and one
exchange cannot hide both. `EffectsAreRecordedFirst` reads the order of the writes off
the same lemmas; `SealedBundlesAreWhole` needs only the first two parts.

**Records** (`RecordReviewProofs`). Every edit is possible, so the invariant holds only
the shape of the documents (`TraceInv`, `EntriesInv`, `CaseInv`), and the theorems are about
the verdicts. `AcceptedTraceIsHistory`: a position of the trace is what the declared moves
before it lead to, or there would be a first one that is not, and the last
id names the whole chain backwards, so that one seal has one trace.
`AcceptedFixturesAreAChain` (whoever continues a receipt takes the output of the one
accepted last before it under that id, and an audit entry points to one of a fixture
that passed before): the registers of the loop hold the audit entries of the fixtures
that have passed and, of each id, the receipt accepted last, and every check of a
fixture is one against the registers; that the loop's function exists for any sequence
of fixtures is shown by a least counterexample, since the library's induction theorems cannot be used here.
`VerifiedExecutionsWereAuthorized`: what the independent verifier recomputes from record
and observation bounds the execution by its authority; `LiveRecords` says which records a
report finds active and which expired, and from it follows what may be allowed, by either
script, and what is historical.

Only model-checked: liveness (`EveryRequestAnswered`, `EveryRequestEnds`,
`ScenarioReachesTarget`, `GenuineRunIsSealed`), which is out of the prover's reach. Every
safety property and both refinements of the passing runs are theorems. The theorems
about the guard served one at a time, and only those, are claimed under
`MaxInFlight = 1`. Of the gateway `TypeCorrect` and `MutexIsReleased` (`LockHeldInAppend`) are
proved and listed in no run: they are parts of its inductive invariant, and
`EveryRequestEnds` and `OneChainPerLife` fail when the mutex is kept.

## 7. Where the code and its documentation disagree

Shown by a run (`PROJECT.json`, `findings`):

- `v_double_accept`: two overlapping submissions of one envelope are both
  accepted, though "a replayed envelope is always `BLOCK / INTENT_REPLAYED`"
  (`README.md:86`).
- `v_crash_replay`: a crash between the ACCEPT record and the save of its nonce,
  with a store already there: after the restart the same intent is accepted again,
  although the log holds its ACCEPT (`docs/GRANT_EVIDENCE_INDEX.md:83`).
- `v_gateway_trail`: a client that leaves after the upstream acted leaves an action
  without a record (`crates/proofpath-gateway/README.md:137`).

Without a run of their own:

- Two overlapping guard submissions append on the same predecessor, so the chain
  forks, and `verify_chain` rejects a log nobody edited, although "each following
  record points to the prior record's `hash`" (`docs/agent-payment-guard.md:99`):
  `ChainIsLinear` with two submissions in flight is violated within a few steps.
- Two overlapping runs of the adapter under one envelope are both accepted by the guard
  (`v_double_accept`) and both pay: the rail does not know nonces.
- A save that overlaps another can publish the temporary file half-written; until it is
  replaced every lookup raises (`StoreBackedByAudit` speaks of readable stores).
- Of two overlapping saves the later forgets the nonce of the earlier, whose
  envelope is then accepted again.
- A NaN amount raises in `decide()` before any record is written, also in shadow
  mode, of which `docs/agent-payment-guard-service.md` says that it always writes
  one. `EveryRequestAnswered` therefore speaks of `Judgeable` submissions.
- A shadow evaluation spends the nonce of the envelope it only observes; the
  enforced submission that follows is refused as a replay.
- A restarted gateway links its first record to GENESIS in the middle of an
  existing file (`OneChainPerLife` counts such starts);
  `docs/audit-log-verification.md` allows GENESIS for the first record only.
- A gateway client that leaves between the two writes of `append` leaves a record
  that `last_hash` does not know, and the next record links past it
  (`docs/audit-log-verification.md:32` wants the hash of the previous record).
- `forwarded` is false when the upstream carried the action out and the
  connection broke before its status arrived. `RecordsAreTruthful` claims only
  the other direction.
- A line end written late, or never, puts two records on one line.
- A rail that crashes between truncating the ledger and writing it forgets the
  payments of everybody, and numbers the next one from there: a cancel request
  that was prepared before can then name a payment of somebody else.
  `LedgerLosesNoPayment` and `OnlyTheDuplicateIsCancelled` are therefore claimed
  only while the rail does not crash; `PaidOnceAndOnlyIfAccepted` is claimed throughout.
- An accepted payment whose answer is lost, or whose rail is unreachable, is never
  made: its nonce is spent, and running the adapter again is refused
  (`docs/mock-payment-rail-demo.md:10` says that an ACCEPT results in a transaction).
- In shadow mode without `require_signed_intent` the adapter forwards payments that
  carry no envelope, so nothing limits how often.
- NOOA guard: the comment at `nooa_liminal_guard.py:354-355`, "Consume authority
  before invoking the side effect so a retry cannot reuse the same nonce", holds
  for a retry after the fact; two calls inside `consume()` at once both find the
  nonce unused (`NonceUsedOnce` excepts them). `contains_secret` goes through
  `bool()`, so the text "false" counts as a secret: safe, and stricter than
  the span says. `default_decision` of the policy is stored and never used. A span
  that names itself as its cause is its own parent in the exported trace, and one whose
  cause is spelled `observation:<its own id>` gives two rows of the trace one id
  (`nooa_liminal_guard.py:452`, `:489`); `verify_bundle` does not mind.
- Local trail: by default the agent hook appends to the payment guard's log;
  its records carry no `previous_hash` and a hash over another spelling, so one
  hook call makes the guard's log invalid for both verifiers
  (`ForeignRecordsBreakTheChain`). A command that matches two rules needs the
  approval of the first only. Approving a scope again replaces its entry, so a shorter (or
  negative) `--ttl-minutes` ends an earlier approval. An approver killed between truncation and write
  leaves a file that makes every later hook and approver fail. An export beside a
  writing guard can copy a store with nonces the copied log lacks
  (`ReportDescribesTheCopy` claims that of quiet exports only).
- Scenarios: nothing is checked between the read at dispatch and the delete. With
  two files of other runs, a harmful ASB-03 or ASB-04 run can be sealed. An
  earlier bundle stays, sealed, if the finalizer raises for a missing raw file
  before it clears the directory.
- Records: an execution within the window of an authority that is consumed (or unknown
  to be), reported after its expiry, must be called `MATCH`, because `report_state`
  looks at the expiry of ACTIVE records only
  (`verify_authorization_record_export.py:253`, `:363-368`); the export document
  (`docs/interop/PROOFPATH_AUTHORIZATION_RECORD_EXPORT_V0_1.md:176-181`) keeps `MATCH`
  for live authority and calls this `HISTORICAL_ONLY`. `ExecutionStaysUnderAuthority`
  says of `HISTORICAL_ONLY` what the verifier does. An EXECUTED observation of a record whose consumption is UNKNOWN (state
  INVALID) is accepted by `verify_handoff`; the `check_` script does not judge what
  an observation says at all. Of two witness fixtures with the same receipt id the
  later replaces the earlier, which `AcceptedWorkIsAChain` says as it is.

## 8. Not modelled

The components with status `partly` or `not_modelled` in `PROJECT.json` say what is
left out and why: configuration and read-only endpoints, one-document verdicts of
the Rust tools, metrics, the trace and bundle of ASB-01, the OTS anchor, packaging
and demo hosts. Outside TLC's reach or without state to model:
the cryptography (SHA-256, HMAC, OTS anchors), JSON and Decimal parsing beyond
its outcomes, HTTP framing, the printing and packaging scripts.
