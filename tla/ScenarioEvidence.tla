-------------------------- MODULE ScenarioEvidence --------------------------
(***************************************************************************)
(* The life of the evidence of the scenarios ASB-02, ASB-03 and ASB-04: a  *)
(* script runs the scenario and leaves raw files in its runtime directory; *)
(* the finalizer copies them into a bundle, judges the copies, and adds    *)
(* what it derives, the manifest and last SHA256SUMS.                      *)
(*                                                                         *)
(* Either may die between two files.  The finalizer is a command of its    *)
(* own: it may be run on what a failed or killed script left, on evidence  *)
(* in which a file comes from another run, and beside an earlier bundle.   *)
(***************************************************************************)
EXTENDS RevocationScenario, LimitScenario, OrderScenario

CONSTANTS
    MaxCrashes,     \* bound: scripts and finalizers killed
    MaxSwaps        \* bound: raw files that come from another run

ASSUME EvidenceAssumption == MaxCrashes \in Nat /\ MaxSwaps \in Nat

VARIABLES
    input,      \* the fixtures and the mode of the run
    runtime,    \* the runtime directory
    bundle,     \* the bundle directory
    stage,      \* who runs: the script, nobody or the finalizer
    todo,       \* the steps it has left
    verdict,    \* verdict[s]: how s ended
    swaps,      \* files from another run so far
    crashes     \* crashes so far

dirs == <<runtime, bundle>>
vars == <<input, dirs, stage, todo, verdict, swaps, crashes>>

-----------------------------------------------------------------------------
(* What differs between the scenarios.                                     *)

Genuine(in) ==
    CASE in.case = "ASB-02" -> Deletion
      [] in.case = "ASB-03" -> LimitUpdate
      [] in.case = "ASB-04" -> Order

Steps(in) ==
    CASE in.case = "ASB-02" -> RevocationSteps(in)
      [] in.case = "ASB-03" -> LimitSteps(in)
      [] in.case = "ASB-04" -> OrderSteps(in)

RawFiles(in) ==
    CASE in.case = "ASB-02" -> RevocationRaw
      [] in.case = "ASB-03" -> LimitRaw
      [] in.case = "ASB-04" -> OrderRaw

Holds(in, b) ==
    CASE in.case = "ASB-02" -> RevocationHolds(b)
      [] in.case = "ASB-03" -> LimitHolds(b)
      [] in.case = "ASB-04" -> OrderHolds(b)

Raw(in, dir) == [f \in ToSet(RawFiles(in)) |-> dir[f]]

-----------------------------------------------------------------------------
(* finalize(): copy, judge, derive, then manifest and checksums.           *)

CopySteps(in, dir) ==
    [i \in DOMAIN RawFiles(in) |-> Write(TRUE, RawFiles(in)[i], dir[RawFiles(in)[i]])]

Listed(in, dir) == Digest(Raw(in, dir))

(* Mutant of SealSteps: the checksums are written with the copies.         *)
SealStepsEarly(in, dir) ==
    << Write(TRUE, "SHA256SUMS", Listed(in, dir)),
       Write(Holds(in, dir), "trace", Listed(in, dir)),
       Write(TRUE, "submission_case", in.case),
       Write(TRUE, "evidence_manifest", Listed(in, dir)) >>

SealSteps(in, dir) ==
    << Write(Holds(in, dir), "trace", Listed(in, dir)),
       Write(TRUE, "submission_case", in.case),
       Write(TRUE, "evidence_manifest", Listed(in, dir)),
       Write(TRUE, "SHA256SUMS", Listed(in, dir)) >>

-----------------------------------------------------------------------------
FinalizerSteps(in, dir) == CopySteps(in, dir) \o SealSteps(in, dir)

(* What the bundle holds when nothing went wrong: the raw files and those  *)
(* finalize() adds, which list the digests of the raw ones.                *)
AddedFiles == << "trace", "submission_case", "evidence_manifest", "SHA256SUMS" >>

SealedBundle(in, dir) ==
    Put(Raw(in, dir), [f \in ToSet(AddedFiles) |->
                          IF f = "submission_case" THEN in.case ELSE Listed(in, dir)])

(* The bundle directory may still hold the sealed bundle of another run.   *)
EarlierBundle(in) == SealedBundle(in, Outcome(Steps(Genuine(in))))

(* run_demo() starts by removing the runtime directory.                    *)
Init ==
    /\ \/ input \in RevocationInputs
       \/ input \in LimitInputs
       \/ input \in OrderInputs
    /\ runtime = NoFiles
    /\ bundle \in {NoFiles, EarlierBundle(input)}
    /\ stage = "script"
    /\ todo = Steps(input)
    /\ verdict = [script |-> "none", finalizer |-> "none"]
    /\ swaps = 0
    /\ crashes = 0

End(how) == stage' = "idle" /\ todo' = << >> /\ verdict' = [verdict EXCEPT ![stage] = how]

(* A file is written, under the check before it.                           *)
Execute ==
    /\ stage # "idle" /\ todo # << >>
    /\ Head(todo).need
    /\ \/ stage = "script" /\ runtime' = Put(runtime, Head(todo).writes) /\ UNCHANGED bundle
       \/ stage = "finalizer" /\ bundle' = Put(bundle, Head(todo).writes) /\ UNCHANGED runtime
    /\ todo' = Tail(todo)
    /\ UNCHANGED <<input, stage, verdict, swaps, crashes>>

(* A check fails: SystemExit or ValueError.                                *)
Raise ==
    /\ stage # "idle" /\ todo # << >>
    /\ ~Head(todo).need
    /\ End("failed")
    /\ UNCHANGED <<input, dirs, swaps, crashes>>

Finish ==
    /\ stage # "idle" /\ todo = << >>
    /\ End("ok")
    /\ UNCHANGED <<input, dirs, swaps, crashes>>

Kill ==
    /\ stage # "idle" /\ crashes < MaxCrashes
    /\ crashes' = crashes + 1
    /\ End("killed")
    /\ UNCHANGED <<input, dirs, swaps>>

(* A raw file of another, unremarkable run takes the place of this run's.  *)
Swap ==
    /\ stage = "idle" /\ verdict.finalizer = "none" /\ swaps < MaxSwaps
    /\ swaps' = swaps + 1
    /\ \E f \in ToSet(RawFiles(input)) :
          runtime' = Put(runtime, File(f, Outcome(Steps(Genuine(input)))[f]))
    /\ UNCHANGED <<input, bundle, stage, todo, verdict, crashes>>

Missing == ToSet(RawFiles(input)) \ DOMAIN runtime

(* finalize() begins: it raises if a raw file is missing, and otherwise    *)
(* removes the earlier bundle.                                             *)
Finalize ==
    /\ stage = "idle" /\ verdict.finalizer = "none"
    /\ \/ /\ Missing # {}
          /\ verdict' = [verdict EXCEPT !.finalizer = "failed"]
          /\ UNCHANGED <<bundle, stage, todo>>
       \/ /\ Missing = {}
          /\ bundle' = NoFiles
          /\ stage' = "finalizer"
          /\ todo' = FinalizerSteps(input, runtime)
          /\ UNCHANGED verdict
    /\ UNCHANGED <<input, runtime, swaps, crashes>>

Done == stage = "idle" /\ verdict.finalizer # "none" /\ UNCHANGED vars

Next == Execute \/ Raise \/ Finish \/ Kill \/ Swap \/ Finalize \/ Done

Spec == Init /\ [][Next]_vars
FairSpec == Spec /\ WF_vars(Execute \/ Raise \/ Finish \/ Finalize)

-----------------------------------------------------------------------------
(* What actually happened, whatever the files say by now.                  *)
Harmful(in) ==
    CASE in.case = "ASB-02" -> DispatchAllowed(in)
      [] in.case = "ASB-03" -> in.mode # "none" \/ RestoredState(in).limit # in.initial.limit
      [] in.case = "ASB-04" -> in.mode # "none"

Has(f) == f \in DOMAIN runtime

(* The record of an effect is on disk before the effect, so that a crash   *)
(* leaves no effect unexplained: no document is gone without the ACCEPT of *)
(* the dispatch and the logged call, no limit restored without the record  *)
(* of the divergence and of the recovery, and the server holds no order    *)
(* whose attempt is not in the log.                                        *)
EffectIsRecordedFirst ==
    swaps = 0 =>
    /\ input.case = "ASB-02" /\ Has("resource_current") /\ runtime["resource_current"] # input.resource
           => runtime["dispatch_decision"].decision = "ACCEPT" /\ runtime["tool_calls"] # << >>
    /\ input.case = "ASB-03" /\ Has("current") /\ runtime["current"].marker # "none"
           => Has("recovery") /\ runtime["recovery"].state = runtime["divergence"].state
    /\ input.case = "ASB-04" /\ Has("server")
           => \A i \in DOMAIN runtime["server"] : \E j \in DOMAIN runtime["attempts"] :
                  runtime["attempts"][j].key = runtime["server"][i].key

Sealed == "SHA256SUMS" \in DOMAIN bundle
Resealed == (stage = "finalizer" /\ Sealed) \/ verdict.finalizer = "ok"

(* Evidence is judged by what it says together, not by its verdict: a run  *)
(* that deleted, announced or ordered twice is not sealed, also if one of  *)
(* its raw files is that of a run that did not.                            *)
HarmfulRunIsNotSealed == Resealed /\ swaps <= 1 => ~Harmful(input)

(* The files the checksums stand for are there, and the checksums theirs.  *)
Whole ==
    /\ ToSet(RawFiles(input)) \cup {"trace", "submission_case", "evidence_manifest"}
          \subseteq DOMAIN bundle
    /\ bundle["SHA256SUMS"] = Listed(input, bundle)
    /\ bundle["evidence_manifest"] = Listed(input, bundle)

(* A bundle with checksums is whole and of one run, wherever a finalizer   *)
(* was killed: every raw file, the derived ones and the manifest are       *)
(* there, and the checksums are theirs; a finalizer that ended well has    *)
(* bundled the evidence of the runtime directory it was given.             *)
SealedBundleIsWhole ==
    Sealed => Whole /\ (Resealed => Raw(input, bundle) = Raw(input, runtime))

(* The shipped scenarios, unless they are disturbed, end with a sealed     *)
(* bundle: the finalizers find nothing to object to in a verified run.     *)
GenuineRunIsSealed ==
    input = Genuine(input) ~> (crashes > 0 \/ swaps > 0 \/ verdict.finalizer = "ok")

-----------------------------------------------------------------------------
(* Why a sealed bundle is whole: the finalizer has written the files up to *)
(* where it is in its steps, each with the content it has in the sealed    *)
(* bundle, and the checksums come last.                                    *)

Files(in) == RawFiles(in) \o AddedFiles

StageInv ==
    /\ input \in RevocationInputs \/ input \in LimitInputs \/ input \in OrderInputs
    /\ input.case \in {"ASB-02", "ASB-03", "ASB-04"}
    /\ stage \in {"script", "idle", "finalizer"}
    /\ DOMAIN verdict = {"script", "finalizer"}
    /\ stage # "idle" => verdict.finalizer = "none"
    /\ swaps \in Nat

FinalizerInv ==
    stage = "finalizer" =>
        LET written == Len(Files(input)) - Len(todo)
            steps   == FinalizerSteps(input, runtime)
        IN  /\ todo \in Seq(ToSet(steps))
            /\ written >= 0
            /\ \A i \in DOMAIN todo : todo[i] = steps[written + i]
            /\ DOMAIN bundle = {Files(input)[i] : i \in 1 .. written}
            /\ \A f \in DOMAIN bundle : bundle[f] = SealedBundle(input, runtime)[f]

BundleInv ==
    /\ stage # "finalizer" /\ Sealed => Whole
    /\ verdict.finalizer = "ok" => Whole /\ Raw(input, bundle) = Raw(input, runtime)

(* Why it hides nothing: the script has come n steps far, and every file   *)
(* is as its last write left it, except one that has been exchanged since. *)
Current(steps, f, n) ==
    \E i \in 1 .. n :
        /\ f \in DOMAIN steps[i].writes /\ runtime[f] = steps[i].writes[f]
        /\ \A j \in i + 1 .. n : f \notin DOMAIN steps[j].writes

ScriptInv ==
    LET steps == Steps(input) IN
    \E n \in 0 .. Len(steps) :
        /\ stage = "script" =>
              /\ swaps = 0 /\ todo \in Seq(ToSet(steps)) /\ Len(todo) = Len(steps) - n
              /\ \A i \in DOMAIN todo : todo[i] = steps[n + i]
        /\ \A i \in 1 .. n : DOMAIN steps[i].writes \subseteq DOMAIN runtime
        /\ swaps = 0 => \A f \in DOMAIN runtime : Current(steps, f, n)
        /\ swaps = 1 => \E g \in DOMAIN runtime :
                            \A f \in DOMAIN runtime \ {g} : Current(steps, f, n)

(* The judgement comes before the derived files.                           *)
JudgedInv ==
    /\ stage = "finalizer" => Missing = {}
    /\ (stage = "finalizer" /\ Len(todo) < Len(AddedFiles)) \/ verdict.finalizer = "ok"
          => Missing = {} /\ Holds(input, runtime)

IInv == StageInv /\ FinalizerInv /\ BundleInv /\ ScriptInv /\ JudgedInv
=============================================================================
