--------------------------- MODULE EvidenceFiles ---------------------------
(***************************************************************************)
(* Directories of evidence as the scenario scripts and their finalizers    *)
(* keep them.  A directory is a function from the names of the files that  *)
(* exist to their contents.  A script is the sequence of its steps: a step *)
(* first requires something, raising if it does not hold, and then writes. *)
(***************************************************************************)
EXTENDS Naturals, Sequences, FiniteSets, SequencesExt

NoFiles == << >>

File(name, content) == [f \in {name} |-> content]

Write(need, file, content) == [need |-> need, writes |-> File(file, content)]

(* A check with no write after it: the exit status of the script.          *)
Require(need) == [need |-> need, writes |-> NoFiles]

Put(dir, writes) ==
    [f \in DOMAIN dir \cup DOMAIN writes |-> IF f \in DOMAIN writes THEN writes[f] ELSE dir[f]]

(* The directory a script leaves when nothing goes wrong.                  *)
Outcome(steps) == FoldLeft(LAMBDA dir, step : Put(dir, step.writes), NoFiles, steps)

(* SHA-256 of the canonical JSON of c, taken to be injective.              *)
Digest(c) == [of |-> c]

(* A validation is a sequence of checks, pairs of the code a check fails   *)
(* with and of what it demands: it stops at the first that fails.          *)
FirstFailure(checks) ==
    LET failing == {i \in DOMAIN checks : ~checks[i][2]}
    IN  IF failing = {} THEN "ok" ELSE checks[Min(failing)][1]

(* The contents c takes when one of its fields is another of its values.   *)
Variants(c, Values) ==
    UNION {{[c EXCEPT ![field] = v] : v \in Values[field]} : field \in DOMAIN Values}
=============================================================================
