----------------------- MODULE LiminalGuardProperties -----------------------
(***************************************************************************)
(* What the guard around a NOOA agent's actions promises, with calls that  *)
(* overlap and calls that are killed.                                      *)
(***************************************************************************)
EXTENDS LiminalGuard

RecordsOf(type, c) == {i \in DOMAIN ledger : ledger[i].type = type /\ ledger[i].call = c}

(* The span of c, or the defaults, give name a value that is not blank.    *)
Supplies(c, name) ==
    \E values \in {span[c].top, span[c].attributes, Defaults} :
        name \in DOMAIN values /\ values[name] \notin {None, "", " "}

(* The span of c, or the defaults, say that it carries no secret: with a   *)
(* no, or with an empty text, which Python takes for one.                  *)
DeniesSecret(c) ==
    \E values \in {span[c].top, span[c].attributes, Defaults} :
        "contains_secret" \in DOMAIN values /\ values["contains_secret"] \in {False, ""}

(* No action without authority that somebody wrote down: a call acts only  *)
(* after the ledger has its ACCEPT, and only if intent, cause, nonce and   *)
(* scope were supplied; whatever is said of a secret, unless it is a no    *)
(* somewhere, keeps it from destinations that are not listed.              *)
EffectIsAuthorized ==
    \A c \in effects :
        /\ \E i \in RecordsOf("authorization", c) : ledger[i].decision.decision = "ACCEPT"
        /\ \A name \in {"intent_id", "parent_cause", "nonce", "scope"} : Supplies(c, name)
        /\ IsNetwork(proposal[c]) /\ Supplies(c, "contains_secret") /\ ~DeniesSecret(c)
              => Lower(proposal[c].destination) \in NetworkAllowlist

(* What the ledger says of a call is true whenever it is read, and also    *)
(* when the executor raises, or another call consumes the nonce first: an  *)
(* observation refers to the authorization of its own call, one that says  *)
(* nothing was executed is right, and so is one that says it succeeded.    *)
ObservationIsTruthful ==
    \A c \in Calls : \A i \in RecordsOf("observation", c) :
        /\ ledger[i].authorization \in RecordsOf("authorization", c)
        /\ ledger[i].authorization < i
        /\ ledger[i].observation.executed = FALSE => c \notin effects
        /\ ledger[i].observation.status = "SUCCEEDED" => c \in effects

(* A nonce is good for one action, also for calls evaluated before either  *)
(* consumed it and for a retry of a killed call: consume() looks again.    *)
(* The exception is two calls inside consume() at once.                    *)
NonceUsedOnce ==
    ~overlapped =>
        \A c \in effects :
            /\ proposal[c].nonce \in DOMAIN store
            /\ store[proposal[c].nonce] = c

(* A bundle that reached its last file stands on its own: it verifies, its *)
(* copy of the ledger holds the authorization and the observation of the   *)
(* call, and the causes in its trace are earlier rows, at earlier times.   *)
BundleExplainsTheCall ==
    \A c \in Calls : pc[c] = "done" =>
        LET rows == bundle[c]["cml-trace"]
            copy == bundle[c]["liminaldb-ledger"]
        IN
        /\ bundle[c]["bundle-verification"]
        /\ \E i, j \in DOMAIN copy :
              /\ copy[i].call = c /\ copy[i].type = "authorization"
              /\ copy[i].decision = bundle[c]["authorization"]
              /\ copy[j].call = c /\ copy[j].type = "observation"
              /\ copy[j].authorization = i /\ copy[j].observation = bundle[c]["result"]
        /\ \A i \in DOMAIN copy : copy[i].previous \in 0 .. i - 1
        /\ \A i \in DOMAIN rows :
              /\ i > 1 => rows[i].time > rows[i - 1].time
              /\ rows[i].parent # None => \E k \in 1 .. i - 1 : rows[k].id = rows[i].parent

-----------------------------------------------------------------------------
(* The inductive invariant behind these properties.                        *)

Labels ==
    {"evaluate", "authorize", "append authorization", "consume", "replace", "run", "observe",
     "append observation", "export", "done", "killed"}

Reasons ==
    {"MISSING_INTENT", "MISSING_CAUSAL_PARENT", "INVALID_SCOPE", "MISSING_NONCE", "INTENT_REPLAYED",
     "SECRET_EGRESS_DENIED", "HUMAN_APPROVAL_REQUIRED", "POLICY_MATCH"}

Proposals == {Proposal(s[c]) : s \in SpanChoices, c \in Calls}
Verdicts  == [decision : {None, "BLOCK", "HOLD", "ACCEPT"}, reasons : SUBSET Reasons]
Outcomes  == [status : {"NOT_EXECUTED", "FAILED", "SUCCEEDED"}, executed : BOOLEAN]
LedgerRecords ==
    [type : {"authorization"}, previous : Nat, call : Calls, proposal : Proposals,
     decision : Verdicts]
    \cup [type : {"observation"}, previous : Nat, call : Calls, authorization : Nat,
          observation : Outcomes]

TypeOK ==
    /\ proposal \in [Calls -> Proposals] /\ pc \in [Calls -> Labels]
    /\ decision \in [Calls -> Verdicts] /\ outcome \in [Calls -> Outcomes]
    /\ ledger \in Seq(LedgerRecords)
    /\ hash \in [Calls -> Nat] /\ authorized \in [Calls -> Nat]
    /\ DOMAIN loaded = Calls /\ DOMAIN bundle = Calls /\ effects \subseteq Calls

(* What is evaluated is what the adapter made of the span.                 *)
AdapterInv == \A c \in Calls : proposal[c] = Proposal(span[c])

(* The authorization that c remembers is in the ledger.                    *)
OnRecord(c) ==
    /\ authorized[c] \in RecordsOf("authorization", c)
    /\ ledger[authorized[c]].decision = decision[c]

(* A call that acts or has acted was accepted, for a proposal that         *)
(* evaluate() accepts, and is on record as such.                           *)
AuthorityOf(c) ==
    /\ pc[c] \in {"consume", "replace", "run", "observe", "append observation"} => OnRecord(c)
    /\ pc[c] \in {"consume", "replace", "run"} => Allowed(c)
    /\ Allowed(c) => pc[c] # "evaluate" /\ Decision(proposal[c], {}).decision = "ACCEPT"
    /\ c \in effects => Allowed(c) /\ OnRecord(c)

AuthorityInv == \A c \in Calls : AuthorityOf(c)

(* The outcome of a call is true before it is written down, and the record *)
(* of it is the last thing the call does to the ledger.                    *)
OutcomeOf(c) ==
    /\ pc[c] \notin {"observe", "append observation", "export", "done", "killed"} => c \notin effects
    /\ pc[c] \notin {"export", "done", "killed"} => RecordsOf("observation", c) = {}
    /\ outcome[c].executed = FALSE => c \notin effects
    /\ outcome[c].status = "SUCCEEDED" => c \in effects
    /\ \A i \in RecordsOf("observation", c) :
          /\ ledger[i].observation = outcome[c]
          /\ ledger[i].authorization \in RecordsOf("authorization", c)
          /\ ledger[i].authorization < i

OutcomeInv == \A c \in Calls : OutcomeOf(c)

Spent(c) == proposal[c].nonce \in DOMAIN store /\ store[proposal[c].nonce] = c

(* Whoever is about to replace the store alone has seen all of it.         *)
NonceInv ==
    ~overlapped =>
        /\ \A c, d \in Calls : pc[c] = "replace" /\ pc[d] = "replace" => c = d
        /\ \A c \in Calls : pc[c] = "replace" =>
              loaded[c] = store /\ proposal[c].nonce \notin DOMAIN store
        /\ \A c \in Calls : pc[c] = "run" \/ c \in effects => Spent(c)

(* The ledger is a chain of back references, and nobody has read a hash    *)
(* that is not in it.                                                      *)
IsChain(records) == \A i \in DOMAIN records : records[i].previous \in 0 .. i - 1

LedgerInv == IsChain(ledger) /\ \A c \in Calls : hash[c] \in 0 .. Len(ledger)

(* These records hold what was decided on c and what was observed of it.   *)
Tell(records, c) ==
    \E i, j \in DOMAIN records :
        /\ records[i].call = c /\ records[i].type = "authorization"
        /\ records[i].decision = decision[c]
        /\ records[j].call = c /\ records[j].type = "observation"
        /\ records[j].authorization = i /\ records[j].observation = outcome[c]

(* The first k groups of files are in the bundle of c, as they should be.  *)
Exported(c, k) ==
    /\ DOMAIN bundle[c] = UNION {BundleFiles[i] : i \in 1 .. k}
    /\ k >= 1 => /\ bundle[c]["authorization"] = decision[c]
                 /\ bundle[c]["result"] = outcome[c]
                 /\ bundle[c]["cml-trace"] = CmlRows(c)
    /\ k >= 2 => LET copy == bundle[c]["liminaldb-ledger"] IN IsChain(copy) /\ Tell(copy, c)
    /\ k >= 3 => bundle[c]["manifest"] = Manifest(bundle[c])
    /\ k >= 4 => bundle[c]["bundle-verification"] = TRUE

BundleOf(c) ==
    /\ pc[c] \notin {"export", "done", "killed"} => bundle[c] = NoFiles
    /\ pc[c] = "export" => Tell(ledger, c) /\ \E k \in 0 .. 3 : Exported(c, k)
    /\ pc[c] = "done" => Exported(c, 4)

BundleInv == LedgerInv /\ \A c \in Calls : BundleOf(c)

IInv == TypeOK /\ AdapterInv /\ AuthorityInv /\ OutcomeInv /\ NonceInv /\ BundleInv
=============================================================================
