----------------------- MODULE ScenarioEvidenceProofs -----------------------
(***************************************************************************)
(* A bundle with checksums is whole, it is not that of a run that did      *)
(* harm, and no effect goes unrecorded: for every scenario, however often  *)
(* a script or a finalizer is killed.                                      *)
(*                                                                         *)
(* The finalizer writes its files in a fixed order (StepsWriteTheBundle).  *)
(* The scripts are straight lines with branches: what a file is given last *)
(* (LastBy) or ever (Only) is put together from the parts of a script, and *)
(* the invariant says that every file is as its last write left it.        *)
(***************************************************************************)
EXTENDS ScenarioEvidence, SequenceTheorems, TLAPS

Cases == {"ASB-02", "ASB-03", "ASB-04"}

(* A sequence followed by another.                                         *)
LEMMA Joined ==
    ASSUME NEW S, NEW s \in Seq(S), NEW t \in Seq(S)
    PROVE  /\ s \o t \in Seq(S)
           /\ Len(s \o t) = Len(s) + Len(t)
           /\ \A i \in 1 .. Len(s) : (s \o t)[i] = s[i]
           /\ \A i \in 1 .. Len(t) : (s \o t)[Len(s) + i] = t[i]
<1>1. /\ Len(s \o t) = Len(s) + Len(t)
      /\ \A i \in 1 .. Len(s) + Len(t) : (s \o t)[i] = IF i <= Len(s) THEN s[i] ELSE t[i - Len(s)]
  BY ConcatProperties, Zenon
<1>2. s \o t \in Seq(S)
  OBVIOUS
<1>3. Len(s) \in Nat /\ Len(t) \in Nat
  OBVIOUS
<1> DEFINE both == s \o t
<1>4. /\ Len(both) = Len(s) + Len(t)
      /\ \A i \in 1 .. Len(s) + Len(t) : both[i] = IF i <= Len(s) THEN s[i] ELSE t[i - Len(s)]
  BY <1>1
<1> HIDE DEF both
<1>5. \A i \in 1 .. Len(s) : both[i] = s[i]
  BY <1>3, <1>4
<1>6. \A i \in 1 .. Len(t) : both[Len(s) + i] = t[i]
  <2> TAKE i \in 1 .. Len(t)
  <2>1. /\ Len(s) + i \in 1 .. Len(s) + Len(t)
        /\ ~ (Len(s) + i <= Len(s))
        /\ (Len(s) + i) - Len(s) = i
    BY <1>3
  <2> QED
    BY <1>4, <2>1
<1> QED
  BY <1>2, <1>4, <1>5, <1>6 DEF both

(* The names of the raw files are not those of the added ones.             *)
LEMMA RawNames ==
    ASSUME NEW in, in.case \in Cases
    PROVE  /\ RawFiles(in) \in Seq(ToSet(RawFiles(in)))
           /\ Len(RawFiles(in)) \in Nat
           /\ DOMAIN RawFiles(in) = 1 .. Len(RawFiles(in))
           /\ \A f \in ToSet(RawFiles(in)) : f \notin ToSet(AddedFiles)
<1>0. ToSet(AddedFiles) = {"trace", "submission_case", "evidence_manifest", "SHA256SUMS"}
  BY DEF ToSet, AddedFiles
<1> DEFINE Told(raw) == /\ raw \in Seq(ToSet(raw))
                        /\ \A f \in ToSet(raw) : f \notin ToSet(AddedFiles)
<1>1. Told(RevocationRaw)
  BY <1>0 DEF RevocationRaw, ToSet
<1>2. Told(LimitRaw)
  BY <1>0 DEF LimitRaw, ToSet
<1>3. Told(OrderRaw)
  BY <1>0 DEF OrderRaw, ToSet
<1>4. RawFiles(in) \in {RevocationRaw, LimitRaw, OrderRaw}
  BY DEF RawFiles, Cases
<1>5. Told(RawFiles(in))
  BY <1>1, <1>2, <1>3, <1>4
<1> QED
  BY <1>5

(* An input is of one of the three cases.                                  *)
LEMMA InputCases ==
    ASSUME NEW in, in \in RevocationInputs \/ in \in LimitInputs \/ in \in OrderInputs
    PROVE  /\ in.case \in Cases
           /\ in.case = "ASB-03" => in \in LimitInputs
           /\ in.case = "ASB-04" => in \in OrderInputs
<1>1. ASSUME in \in RevocationInputs PROVE in.case = "ASB-02"
  <2>1. CASE in \in {Deletion, [Deletion EXCEPT !.resource.exists = FALSE],
                    [Deletion EXCEPT !.resource.id = "other"]}
    BY <2>1 DEF Deletion
  <2>2. ASSUME NEW a, in = [Deletion EXCEPT !.active = a] \/ in = [Deletion EXCEPT !.revoked = a]
        PROVE  in.case = "ASB-02"
    BY <2>2 DEF Deletion
  <2>3. ASSUME NEW a, NEW moments, in = [Deletion EXCEPT !.owner = a, !.changes = moments]
        PROVE  in.case = "ASB-02"
    BY <2>3 DEF Deletion
  <2>4. CASE in \in {[Deletion EXCEPT !.active = a] :
                       a \in Variants(ActiveAuthorization, AuthorizationValues)}
    BY <2>2, <2>4
  <2>5. CASE in \in {[Deletion EXCEPT !.revoked = a] :
                       a \in Variants(RevokedAuthorization, AuthorizationValues)}
    BY <2>2, <2>5
  <2>6. CASE in \in UNION {{[Deletion EXCEPT !.owner = a, !.changes = moments] :
                              a \in Variants(ActiveAuthorization, AuthorizationValues)} :
                          moments \in SUBSET {"before the read", "after the read"}}
    <3>1. PICK moments \in SUBSET {"before the read", "after the read"} :
             in \in {[Deletion EXCEPT !.owner = a, !.changes = moments] :
                       a \in Variants(ActiveAuthorization, AuthorizationValues)}
      BY <2>6
    <3>2. PICK a : in = [Deletion EXCEPT !.owner = a, !.changes = moments]
      BY <3>1
    <3> QED
      BY <2>3, <3>2
  <2> QED
    BY <1>1, <2>1, <2>4, <2>5, <2>6 DEF RevocationInputs
<1>2. ASSUME in \in LimitInputs PROVE in.case = "ASB-03"
  <2>1. \E v : in \in {[LimitUpdate EXCEPT !.mode = v], [LimitUpdate EXCEPT !.policy = v],
                      [LimitUpdate EXCEPT !.request = v], [LimitUpdate EXCEPT !.initial.limit = v]}
    BY <1>2 DEF LimitInputs
  <2> QED
    BY <2>1 DEF LimitUpdate
<1>3. ASSUME in \in OrderInputs PROVE in.case = "ASB-04"
  <2>1. \E v : in \in {[Order EXCEPT !.mode = v], [Order EXCEPT !.request = v]}
    BY <1>3 DEF OrderInputs
  <2> QED
    BY <2>1 DEF Order
<1> QED
  BY <1>1, <1>2, <1>3 DEF Cases

(* The files of the bundle in the order in which they are written.         *)
LEMMA FileOrder ==
    ASSUME NEW in, in.case \in Cases
    PROVE  /\ Len(Files(in)) = Len(RawFiles(in)) + 4
           /\ \A i \in 1 .. Len(RawFiles(in)) : Files(in)[i] = RawFiles(in)[i]
           /\ \A i \in 1 .. 4 : Files(in)[Len(RawFiles(in)) + i] = AddedFiles[i]
<1> DEFINE Names == ToSet(RawFiles(in)) \cup ToSet(AddedFiles)
<1>1. AddedFiles \in Seq(ToSet(AddedFiles)) /\ Len(AddedFiles) = 4
  BY DEF AddedFiles, ToSet
<1>2. AddedFiles \in Seq(Names)
  BY <1>1, SeqMonotonic
<1>3. RawFiles(in) \in Seq(Names)
  BY RawNames, SeqMonotonic
<1>4. /\ Len(RawFiles(in) \o AddedFiles) = Len(RawFiles(in)) + Len(AddedFiles)
      /\ \A i \in 1 .. Len(RawFiles(in)) : (RawFiles(in) \o AddedFiles)[i] = RawFiles(in)[i]
      /\ \A i \in 1 .. Len(AddedFiles) :
            (RawFiles(in) \o AddedFiles)[Len(RawFiles(in)) + i] = AddedFiles[i]
  BY <1>2, <1>3, Joined
<1> QED
  BY <1>1, <1>4 DEF Files

(* Only the last file of the bundle is the checksums.                      *)
LEMMA ChecksumsComeLast ==
    ASSUME NEW in, in.case \in Cases,
           NEW i \in 1 .. Len(Files(in)), Files(in)[i] = "SHA256SUMS"
    PROVE  i = Len(Files(in))
<1>1. Len(RawFiles(in)) \in Nat
  BY RawNames
<1>2. CASE i \in 1 .. Len(RawFiles(in))
  <2>1. Files(in)[i] \in ToSet(RawFiles(in))
    BY <1>2, RawNames, FileOrder DEF ToSet
  <2>2. "SHA256SUMS" \in ToSet(AddedFiles)
    BY DEF AddedFiles, ToSet
  <2> QED
    BY <2>1, <2>2, RawNames
<1>3. CASE i \notin 1 .. Len(RawFiles(in))
  <2>1. i - Len(RawFiles(in)) \in 1 .. 4 /\ i = Len(RawFiles(in)) + (i - Len(RawFiles(in)))
    BY <1>1, <1>3, FileOrder
  <2>2. AddedFiles[i - Len(RawFiles(in))] = "SHA256SUMS"
    BY <2>1, FileOrder
  <2>3. i - Len(RawFiles(in)) = 4
    BY <2>1, <2>2 DEF AddedFiles
  <2> QED
    BY <1>1, <2>3, FileOrder
<1> QED
  BY <1>2, <1>3

(* The sealed bundle has the raw files and the added ones,                 *)
LEMMA AddedNames ==
    ToSet(AddedFiles) = {"trace", "submission_case", "evidence_manifest", "SHA256SUMS"}
BY DEF ToSet, AddedFiles

LEMMA SealedBundleFiles ==
    ASSUME NEW in, in.case \in Cases, NEW dir
    PROVE  DOMAIN SealedBundle(in, dir) = ToSet(RawFiles(in)) \cup ToSet(AddedFiles)
<1>1. DOMAIN Raw(in, dir) = ToSet(RawFiles(in))
  BY DEF Raw
<1> QED
  BY <1>1 DEF SealedBundle, Put

(* the raw ones as they are in the directory,                              *)
LEMMA SealedBundleCopies ==
    ASSUME NEW in, in.case \in Cases, NEW dir, NEW f \in ToSet(RawFiles(in))
    PROVE  SealedBundle(in, dir)[f] = dir[f]
<1>1. DOMAIN Raw(in, dir) = ToSet(RawFiles(in)) /\ Raw(in, dir)[f] = dir[f]
  BY DEF Raw
<1>2. f \notin ToSet(AddedFiles)
  BY RawNames
<1> QED
  BY <1>1, <1>2 DEF SealedBundle, Put

(* and the digests of the raw ones.                                        *)
LEMMA SealedBundleCase ==
    ASSUME NEW in, NEW dir
    PROVE  SealedBundle(in, dir)["submission_case"] = in.case
BY AddedNames DEF SealedBundle, Put

LEMMA SealedBundleDigests ==
    ASSUME NEW in, NEW dir, NEW f \in {"trace", "evidence_manifest", "SHA256SUMS"}
    PROVE  SealedBundle(in, dir)[f] = Listed(in, dir)
BY AddedNames DEF SealedBundle, Put

(* Every step of the finalizer writes one file, as it is in the sealed     *)
(* bundle, and together they write all of it.                              *)
LEMMA StepsWriteTheBundle ==
    ASSUME NEW in, in.case \in Cases, NEW dir
    PROVE  /\ FinalizerSteps(in, dir) \in Seq(ToSet(FinalizerSteps(in, dir)))
           /\ Len(FinalizerSteps(in, dir)) = Len(Files(in))
           /\ \A i \in 1 .. Len(Files(in)) :
                 FinalizerSteps(in, dir)[i].writes
                    = File(Files(in)[i], SealedBundle(in, dir)[Files(in)[i]])
           /\ DOMAIN SealedBundle(in, dir) = {Files(in)[i] : i \in 1 .. Len(Files(in))}
           /\ FinalizerSteps(in, dir)[Len(Files(in)) - 3].need = Holds(in, dir)
<1> DEFINE copies == CopySteps(in, dir)
           seals  == SealSteps(in, dir)
           all    == ToSet(copies) \cup ToSet(seals)
           n      == Len(RawFiles(in))
           steps  == FinalizerSteps(in, dir)
<1>1. n \in Nat /\ DOMAIN RawFiles(in) = 1 .. n
  BY RawNames
<1>2. copies \in Seq(all) /\ Len(copies) = n
  <2>1. /\ DOMAIN copies = 1 .. n
        /\ copies = [i \in 1 .. n |-> copies[i]]
    BY <1>1 DEF CopySteps
  <2>2. \A i \in 1 .. n : copies[i] \in all
    BY <2>1 DEF ToSet
  <2> HIDE DEF copies, all, n
  <2>3. copies \in [1 .. n -> all]
    BY <2>1, <2>2
  <2> QED
    BY <1>1, <2>3, SeqDef
<1>3. seals \in Seq(all) /\ Len(seals) = 4
  <2>1. seals \in Seq(ToSet(copies) \cup ToSet(seals))
    <3>1. PICK a, b, c, d : seals = << a, b, c, d >>
      BY DEF SealSteps
    <3> HIDE DEF copies, seals
    <3> QED
      BY <3>1 DEF ToSet
  <2>2. Len(seals) = 4
    BY DEF SealSteps
  <2> QED
    BY <2>1, <2>2
<1>4. /\ steps \in Seq(all) /\ Len(steps) = n + 4
      /\ \A i \in 1 .. n : steps[i] = copies[i]
      /\ \A i \in 1 .. 4 : steps[n + i] = seals[i]
  <2>1. steps = copies \o seals
    BY DEF FinalizerSteps
  <2> HIDE DEF copies, seals, all, n, steps
  <2>2. /\ copies \o seals \in Seq(all)
        /\ Len(copies \o seals) = Len(copies) + Len(seals)
        /\ \A i \in 1 .. Len(copies) : (copies \o seals)[i] = copies[i]
        /\ \A i \in 1 .. Len(seals) : (copies \o seals)[Len(copies) + i] = seals[i]
    <3>1. copies \in Seq(all)
      BY <1>2
    <3>2. seals \in Seq(all)
      BY <1>3
    <3> QED
      BY <3>1, <3>2, Joined
  <2> QED
    BY <1>2, <1>3, <2>1, <2>2
<1>5. \A i \in 1 .. n : steps[i].writes = File(Files(in)[i], SealedBundle(in, dir)[Files(in)[i]])
  <2> TAKE i \in 1 .. n
  <2>1. copies[i].writes = File(RawFiles(in)[i], dir[RawFiles(in)[i]])
    BY <1>1 DEF CopySteps, Write
  <2>2. RawFiles(in)[i] \in ToSet(RawFiles(in))
    BY <1>1 DEF ToSet
  <2>3. Files(in)[i] = RawFiles(in)[i] /\ steps[i] = copies[i]
    BY <1>4, FileOrder
  <2>4. SealedBundle(in, dir)[RawFiles(in)[i]] = dir[RawFiles(in)[i]]
    BY <2>2, SealedBundleCopies
  <2> QED
    BY <2>1, <2>3, <2>4
<1>6. \A i \in 1 .. 4 :
         steps[n + i].writes = File(Files(in)[n + i], SealedBundle(in, dir)[Files(in)[n + i]])
  <2> TAKE i \in 1 .. 4
  <2>1. seals[i].writes = File(AddedFiles[i], SealedBundle(in, dir)[AddedFiles[i]])
    <3>1. /\ seals[1].writes = File("trace", Listed(in, dir))
          /\ seals[2].writes = File("submission_case", in.case)
          /\ seals[3].writes = File("evidence_manifest", Listed(in, dir))
          /\ seals[4].writes = File("SHA256SUMS", Listed(in, dir))
      BY DEF SealSteps, Write
    <3>2. /\ AddedFiles[1] = "trace" /\ AddedFiles[2] = "submission_case"
          /\ AddedFiles[3] = "evidence_manifest" /\ AddedFiles[4] = "SHA256SUMS"
      BY DEF AddedFiles
    <3>3. i = 1 \/ i = 2 \/ i = 3 \/ i = 4
      OBVIOUS
    <3>4. SealedBundle(in, dir)["submission_case"] = in.case
      BY SealedBundleCase
    <3>5. /\ SealedBundle(in, dir)["trace"] = Listed(in, dir)
          /\ SealedBundle(in, dir)["evidence_manifest"] = Listed(in, dir)
          /\ SealedBundle(in, dir)["SHA256SUMS"] = Listed(in, dir)
      BY SealedBundleDigests
    <3> HIDE DEF seals
    <3> QED
      BY <3>1, <3>2, <3>3, <3>4, <3>5
  <2> QED
    BY <1>4, <2>1, FileOrder
<1>7. \A i \in 1 .. n + 4 : i \in 1 .. n \/ (i - n \in 1 .. 4 /\ i = n + (i - n))
  BY <1>1
<1>8. \A i \in 1 .. Len(Files(in)) :
         steps[i].writes = File(Files(in)[i], SealedBundle(in, dir)[Files(in)[i]])
  <2> HIDE DEF n, steps
  <2> QED
    BY <1>1, <1>5, <1>6, <1>7, FileOrder DEF n
<1>9. DOMAIN SealedBundle(in, dir) = {Files(in)[i] : i \in 1 .. Len(Files(in))}
  <2>1. \A f \in ToSet(RawFiles(in)) : \E i \in 1 .. n : f = Files(in)[i]
    BY <1>1, FileOrder DEF ToSet
  <2>2. \A f \in ToSet(AddedFiles) : \E i \in 1 .. 4 : f = Files(in)[n + i]
    BY FileOrder DEF ToSet, AddedFiles
  <2>3. \A i \in 1 .. n : Files(in)[i] \in ToSet(RawFiles(in))
    BY <1>1, FileOrder DEF ToSet
  <2>4. \A i \in 1 .. 4 : Files(in)[n + i] \in ToSet(AddedFiles)
    BY FileOrder DEF ToSet, AddedFiles
  <2>5. \A i \in 1 .. 4 : n + i \in 1 .. n + 4
    BY <1>1
  <2>6. \A i \in 1 .. n : i \in 1 .. n + 4
    BY <1>1
  <2> HIDE DEF n
  <2> QED
    <3>1. Len(Files(in)) = n + 4
      BY FileOrder DEF n
    <3>2. \A f \in DOMAIN SealedBundle(in, dir) : \E i \in 1 .. n + 4 : f = Files(in)[i]
      BY <2>1, <2>2, <2>5, <2>6, SealedBundleFiles
    <3>3. \A i \in 1 .. n + 4 : Files(in)[i] \in DOMAIN SealedBundle(in, dir)
      BY <1>7, <2>3, <2>4, SealedBundleFiles
    <3> QED
      BY <3>1, <3>2, <3>3
<1>10. steps \in Seq(ToSet(steps))
  BY <1>4 DEF ToSet
<1>11. steps[Len(Files(in)) - 3].need = Holds(in, dir)
  <2>1. seals[1].need = Holds(in, dir)
    BY DEF SealSteps, Write
  <2>2. Len(Files(in)) - 3 = n + 1 /\ steps[n + 1] = seals[1]
    BY <1>1, <1>4, FileOrder
  <2> HIDE DEF seals, steps, n
  <2> QED
    BY <2>1, <2>2
<1> QED
  BY <1>4, <1>8, <1>9, <1>10, <1>11, FileOrder

(* A directory with the files of a sealed bundle is whole.                 *)
LEMMA SealedIsWhole ==
    ASSUME NEW in, in.case \in Cases, NEW dir, NEW b,
           DOMAIN b = DOMAIN SealedBundle(in, dir),
           \A f \in DOMAIN b : b[f] = SealedBundle(in, dir)[f]
    PROVE  /\ ToSet(RawFiles(in)) \cup {"trace", "submission_case", "evidence_manifest"}
                 \subseteq DOMAIN b
           /\ Raw(in, b) = Raw(in, dir)
           /\ b["SHA256SUMS"] = Listed(in, b)
           /\ b["evidence_manifest"] = Listed(in, b)
<1>1. \A f \in ToSet(RawFiles(in)) : b[f] = dir[f]
  BY SealedBundleFiles, SealedBundleCopies
<1>2. Raw(in, b) = Raw(in, dir)
  BY <1>1 DEF Raw
<1>3. Listed(in, b) = Listed(in, dir)
  BY <1>2 DEF Listed
<1>4. ToSet(RawFiles(in)) \cup {"trace", "submission_case", "evidence_manifest"} \subseteq DOMAIN b
  BY SealedBundleFiles, AddedNames
<1>5. b["SHA256SUMS"] = Listed(in, dir) /\ b["evidence_manifest"] = Listed(in, dir)
  <2>1. "SHA256SUMS" \in DOMAIN b /\ "evidence_manifest" \in DOMAIN b
    BY SealedBundleFiles, AddedNames
  <2> QED
    BY <2>1, SealedBundleDigests
<1> QED
  BY <1>2, <1>3, <1>4, <1>5

-----------------------------------------------------------------------------
(* Scripts as sequences of steps: what is the only content a file gets,    *)
(* and what is its last one, given within the first k steps.               *)
Script(s) == s \in Seq(ToSet(s))

Only(s, f, c) == \A i \in 1 .. Len(s) : f \in DOMAIN s[i].writes => s[i].writes[f] = c

Never(s, f) == \A i \in 1 .. Len(s) : f \notin DOMAIN s[i].writes

LastBy(s, f, c, k) ==
    \E j \in 1 .. Len(s) :
        /\ j <= k /\ f \in DOMAIN s[j].writes /\ s[j].writes[f] = c
        /\ \A m \in j + 1 .. Len(s) : f \notin DOMAIN s[m].writes

(* Steps written out one after the other are a script.                     *)
LEMMA WrittenOut ==
    ASSUME NEW a, NEW b, NEW c, NEW d, NEW e, NEW f, NEW g, NEW h
    PROVE  /\ Script(<< >>) /\ Script(<< a >>) /\ Script(<< a, b >>) /\ Script(<< a, b, c >>)
           /\ \A i, j, k, l, m, n, o, p, q :
                Script(<< a, b, c, d, e, f, g, h, i, j, k, l, m, n, o, p, q >>)
           /\ Script(<< a, b, c, d, e, f, g >>) /\ Script(<< a, b, c, d, e, f, g, h >>)
BY DEF Script, ToSet

LEMMA OneAfterTheOther ==
    ASSUME NEW s, NEW t, Script(s), Script(t)
    PROVE  /\ Script(s \o t) /\ Len(s) \in Nat /\ Len(t) \in Nat
           /\ Len(s \o t) = Len(s) + Len(t)
           /\ \A i \in 1 .. Len(s) : (s \o t)[i] = s[i]
           /\ \A i \in 1 .. Len(t) : (s \o t)[Len(s) + i] = t[i]
           /\ \A i \in 1 .. Len(s \o t) :
                 i \in 1 .. Len(s) \/ (i - Len(s) \in 1 .. Len(t) /\ i = Len(s) + (i - Len(s)))
<1> DEFINE S == ToSet(s) \cup ToSet(t)
<1>1. s \in Seq(S) /\ t \in Seq(S)
  BY SeqMonotonic DEF Script
<1> HIDE DEF S
<1>2. /\ s \o t \in Seq(S)
      /\ Len(s \o t) = Len(s) + Len(t)
      /\ \A i \in 1 .. Len(s) : (s \o t)[i] = s[i]
      /\ \A i \in 1 .. Len(t) : (s \o t)[Len(s) + i] = t[i]
  BY <1>1, Joined
<1>3. Script(s \o t)
  <2> DEFINE u == s \o t
  <2>1. u \in Seq(S)
    BY <1>2
  <2> HIDE DEF u
  <2>2. u \in Seq(ToSet(u))
    BY <2>1 DEF ToSet
  <2> QED
    BY <2>2 DEF Script, u
<1>4. Len(s) \in Nat /\ Len(t) \in Nat
  BY <1>1
<1> QED
  BY <1>2, <1>3, <1>4

LEMMA OnlyInBoth ==
    ASSUME NEW s, NEW t, Script(s), Script(t), NEW f, NEW c, Only(s, f, c), Only(t, f, c)
    PROVE  Only(s \o t, f, c)
<1> DEFINE u == s \o t
<1>1. /\ \A i \in 1 .. Len(s) : u[i] = s[i]
      /\ \A i \in 1 .. Len(t) : u[Len(s) + i] = t[i]
      /\ \A i \in 1 .. Len(u) :
            i \in 1 .. Len(s) \/ (i - Len(s) \in 1 .. Len(t) /\ i = Len(s) + (i - Len(s)))
  BY OneAfterTheOther
<1> HIDE DEF u
<1>2. Only(u, f, c)
  BY <1>1 DEF Only
<1> QED
  BY <1>2 DEF u

LEMMA NeverInEither ==
    ASSUME NEW s, NEW t, Script(s), Script(t), NEW f, Never(s, f), Never(t, f)
    PROVE  Never(s \o t, f)
<1> DEFINE u == s \o t
<1>1. /\ \A i \in 1 .. Len(s) : u[i] = s[i]
      /\ \A i \in 1 .. Len(t) : u[Len(s) + i] = t[i]
      /\ \A i \in 1 .. Len(u) :
            i \in 1 .. Len(s) \/ (i - Len(s) \in 1 .. Len(t) /\ i = Len(s) + (i - Len(s)))
  BY OneAfterTheOther
<1> HIDE DEF u
<1>2. Never(u, f)
  BY <1>1 DEF Never
<1> QED
  BY <1>2 DEF u

LEMMA LastInTheFirst ==
    ASSUME NEW s, NEW t, Script(s), Script(t), NEW f, NEW c, NEW k \in Nat,
           LastBy(s, f, c, k), Never(t, f)
    PROVE  LastBy(s \o t, f, c, k)
<1> DEFINE u == s \o t
<1>1. /\ Len(s) \in Nat /\ Len(t) \in Nat
      /\ Len(u) = Len(s) + Len(t)
      /\ \A i \in 1 .. Len(s) : u[i] = s[i]
      /\ \A i \in 1 .. Len(t) : u[Len(s) + i] = t[i]
      /\ \A i \in 1 .. Len(u) :
            i \in 1 .. Len(s) \/ (i - Len(s) \in 1 .. Len(t) /\ i = Len(s) + (i - Len(s)))
  BY OneAfterTheOther
<1> HIDE DEF u
<1>2. PICK j \in 1 .. Len(s) :
         /\ j <= k /\ f \in DOMAIN s[j].writes /\ s[j].writes[f] = c
         /\ \A m \in j + 1 .. Len(s) : f \notin DOMAIN s[m].writes
  BY DEF LastBy
<1>3. j \in 1 .. Len(u) /\ u[j] = s[j]
  BY <1>1
<1>4. ASSUME NEW m \in j + 1 .. Len(u) PROVE f \notin DOMAIN u[m].writes
  <2>1. m \in 1 .. Len(u)
    BY <1>1
  <2>2. CASE m \in 1 .. Len(s)
    <3>1. m \in j + 1 .. Len(s) /\ u[m] = s[m]
      BY <1>1, <2>2
    <3> QED
      BY <1>2, <3>1
  <2>3. CASE m - Len(s) \in 1 .. Len(t) /\ m = Len(s) + (m - Len(s))
    <3>1. u[m] = t[m - Len(s)]
      BY <1>1, <2>3
    <3> QED
      BY <2>3, <3>1 DEF Never
  <2> QED
    BY <1>1, <2>1, <2>2, <2>3
<1>5. LastBy(u, f, c, k)
  BY <1>2, <1>3, <1>4 DEF LastBy
<1> QED
  BY <1>5 DEF u

LEMMA LastInTheSecond ==
    ASSUME NEW s, NEW t, Script(s), Script(t), NEW f, NEW c, NEW k \in Nat, LastBy(t, f, c, k)
    PROVE  LastBy(s \o t, f, c, Len(s) + k)
<1> DEFINE u == s \o t
<1>1. /\ Len(s) \in Nat /\ Len(t) \in Nat
      /\ Len(u) = Len(s) + Len(t)
      /\ \A i \in 1 .. Len(t) : u[Len(s) + i] = t[i]
  BY OneAfterTheOther
<1> HIDE DEF u
<1>2. PICK j \in 1 .. Len(t) :
         /\ j <= k /\ f \in DOMAIN t[j].writes /\ t[j].writes[f] = c
         /\ \A m \in j + 1 .. Len(t) : f \notin DOMAIN t[m].writes
  BY DEF LastBy
<1>3. /\ Len(s) + j \in 1 .. Len(u) /\ Len(s) + j <= Len(s) + k
      /\ u[Len(s) + j] = t[j]
  BY <1>1, <1>2
<1>4. ASSUME NEW m \in Len(s) + j + 1 .. Len(u) PROVE f \notin DOMAIN u[m].writes
  <2>1. m - Len(s) \in j + 1 .. Len(t) /\ m - Len(s) \in 1 .. Len(t) /\ m = Len(s) + (m - Len(s))
    BY <1>1
  <2>2. u[m] = t[m - Len(s)]
    BY <1>1, <2>1
  <2> QED
    BY <1>2, <2>1, <2>2
<1>5. LastBy(u, f, c, Len(s) + k)
  BY <1>2, <1>3, <1>4 DEF LastBy
<1> QED
  BY <1>5 DEF u

-----------------------------------------------------------------------------
(* What the three scripts write, and in which order.                       *)
(* ASB-02: the document goes after the decision and the logged call.      *)
LEMMA DocumentGoesLast ==
    ASSUME NEW in
    PROVE  LET s == RevocationSteps(in) IN
           /\ Script(s)
           /\ Only(s, "dispatch_decision", DispatchDecision(in))
           /\ Only(s, "verification_report", RevocationReport(in))
           /\ \A i \in 1 .. Len(s) :
                 "resource_current" \in DOMAIN s[i].writes
                    /\ s[i].writes["resource_current"] # in.resource
                 => /\ DispatchAllowed(in)
                    /\ LastBy(s, "dispatch_decision", DispatchDecision(in), i)
                    /\ LastBy(s, "tool_calls", ToolCalls(in), i)
<1> DEFINE s     == RevocationSteps(in)
           early == OwnerChange(in, "before the read")
           late  == OwnerChange(in, "after the read")
           kill  == DeleteSteps(in)
           decision == DispatchDecision(in)   report == RevocationReport(in)
           calls == ToolCalls(in)   gone == Deleted(in)
           active == in.active   revoked == in.revoked   doc == in.resource
           plan == Plan(in)   record == RevocationRecord(in)   after == AfterwardsOf(in)
           planned == active.status = "ACTIVE" /\ active.scope = doc.id
                         /\ active.action = "delete_resource"
           superseded == revoked.id = active.id /\ revoked.revision > active.revision
                         /\ revoked.status = "REVOKED"
           checked == AllHold(report.checks)
           head == << Write(TRUE, "tool_calls", << >>),
                      Write(TRUE, "resource_current", doc),
                      Write(TRUE, "authorization_current", active),
                      Write(planned, "resource_before", doc),
                      Write(TRUE, "authorization_before", active),
                      Write(TRUE, "plan", plan),
                      Write(superseded, "authorization_current", revoked),
                      Write(TRUE, "revocation_record", record) >>
           read == << Write(TRUE, "dispatch_decision", decision) >>
           tail == << Write(TRUE, "resource_after", after),
                      Write(TRUE, "verification_report", report),
                      Require(checked) >>
           files == {"dispatch_decision", "verification_report", "resource_current", "tool_calls"}
<1>1. s = ((((head \o early) \o read) \o late) \o kill) \o tail
  BY DEF RevocationSteps
<1>2. /\ early = << >> \/ \E c : early = << Write(TRUE, "authorization_current", c) >>
      /\ late = << >> \/ \E c : late = << Write(TRUE, "authorization_current", c) >>
  BY Zenon DEF OwnerChange
<1>3. \/ ~DispatchAllowed(in) /\ kill = << >>
      \/ /\ DispatchAllowed(in)
         /\ kill = << Write(TRUE, "tool_calls", calls), Write(TRUE, "resource_current", gone) >>
  BY Zenon DEF DeleteSteps
<1> HIDE DEF s, early, late, kill, decision, report, calls, gone, active, revoked, doc, plan,
             record, after, planned, superseded, checked
<1>4. /\ Script(early) /\ Script(late)
      /\ \A f \in files : Never(early, f) /\ Never(late, f)
  <2>1. Script(early) /\ Script(late)
    BY <1>2, WrittenOut
  <2>2. \A f \in files : Never(early, f) /\ Never(late, f)
    BY <1>2 DEF Never, Write, File
  <2> QED
    BY <2>1, <2>2
<1>5. /\ Script(kill)
      /\ Never(kill, "dispatch_decision") /\ Never(kill, "verification_report")
  <2>1. Script(kill)
    BY <1>3, WrittenOut
  <2>2. Never(kill, "dispatch_decision") /\ Never(kill, "verification_report")
    BY <1>3 DEF Never, Write, File
  <2> QED
    BY <2>1, <2>2
<1>6. Script(head) /\ Script(read) /\ Script(tail)
  BY WrittenOut
<1>7. /\ Never(head, "dispatch_decision") /\ Never(head, "verification_report")
      /\ Only(head, "resource_current", doc)
      /\ Never(read, "verification_report") /\ Never(read, "resource_current")
      /\ LastBy(read, "dispatch_decision", decision, 1)
      /\ Only(read, "dispatch_decision", decision)
  BY DEF Never, Only, LastBy, Write, File
<1>8. /\ Never(tail, "dispatch_decision") /\ Never(tail, "resource_current")
      /\ Never(tail, "tool_calls") /\ Only(tail, "verification_report", report)
  BY DEF Never, Only, Write, File, Require, NoFiles
<1> DEFINE first == head \o early   second == first \o read   third == second \o late
<1> HIDE DEF head, read, tail
<1>9. /\ Script(first) /\ Only(first, "resource_current", doc)
      /\ Never(first, "dispatch_decision") /\ Never(first, "verification_report")
  <2>1. Only(early, "resource_current", doc)
    BY <1>4 DEF Never, Only
  <2> QED
    BY <1>4, <1>6, <1>7, <2>1, OneAfterTheOther, OnlyInBoth, NeverInEither
<1> HIDE DEF first
<1>10. /\ Script(second) /\ Only(second, "resource_current", doc)
       /\ Never(second, "verification_report") /\ Only(second, "dispatch_decision", decision)
       /\ LastBy(second, "dispatch_decision", decision, Len(second))
  <2>1. Only(read, "resource_current", doc) /\ Only(first, "dispatch_decision", decision)
    BY <1>7, <1>9 DEF Never, Only
  <2>2. LastBy(second, "dispatch_decision", decision, Len(first) + 1)
    BY <1>6, <1>7, <1>9, LastInTheSecond
  <2>3. Len(second) = Len(first) + 1
    BY <1>6, <1>9, OneAfterTheOther DEF read
  <2> QED
    BY <1>6, <1>7, <1>9, <2>1, <2>2, <2>3, OneAfterTheOther, OnlyInBoth, NeverInEither
<1> HIDE DEF second
<1>11. /\ Script(third) /\ Only(third, "resource_current", doc)
       /\ Never(third, "verification_report") /\ Only(third, "dispatch_decision", decision)
       /\ LastBy(third, "dispatch_decision", decision, Len(third))
  <2>1. Only(late, "resource_current", doc) /\ Only(late, "dispatch_decision", decision)
    BY <1>4 DEF Never, Only
  <2>2. /\ Len(second) \in Nat /\ Len(late) \in Nat /\ Len(third) = Len(second) + Len(late)
        /\ Script(third)
    BY <1>4, <1>10, OneAfterTheOther
  <2>3. LastBy(third, "dispatch_decision", decision, Len(second))
    BY <1>4, <1>10, <2>2, LastInTheFirst
  <2>4. LastBy(third, "dispatch_decision", decision, Len(third))
    BY <2>2, <2>3 DEF LastBy
  <2> QED
    BY <1>4, <1>10, <2>1, <2>2, <2>4, OnlyInBoth, NeverInEither
<1> HIDE DEF third
<1> DEFINE fourth == third \o kill
<1>12. /\ Script(fourth) /\ Never(fourth, "verification_report")
       /\ Only(fourth, "dispatch_decision", decision)
       /\ LastBy(fourth, "dispatch_decision", decision, Len(third))
       /\ Len(third) \in Nat /\ Len(fourth) = Len(third) + Len(kill)
       /\ \A i \in 1 .. Len(third) : fourth[i] = third[i]
       /\ \A i \in 1 .. Len(kill) : fourth[Len(third) + i] = kill[i]
       /\ \A i \in 1 .. Len(fourth) :
             i \in 1 .. Len(third) \/ (i - Len(third) \in 1 .. Len(kill)
                                         /\ i = Len(third) + (i - Len(third)))
  <2>1. Only(kill, "dispatch_decision", decision)
    BY <1>5 DEF Never, Only
  <2>2. Len(third) \in Nat
    BY <1>5, <1>11, OneAfterTheOther
  <2> QED
    BY <1>5, <1>11, <2>1, <2>2, OneAfterTheOther, OnlyInBoth, NeverInEither, LastInTheFirst
<1> HIDE DEF fourth
<1>13. s = fourth \o tail
  BY <1>1 DEF first, second, third, fourth
<1>14. /\ Script(s) /\ Only(s, "verification_report", report)
       /\ Only(s, "dispatch_decision", decision)
       /\ LastBy(s, "dispatch_decision", decision, Len(third))
  <2>1. Only(fourth, "verification_report", report) /\ Only(tail, "dispatch_decision", decision)
    BY <1>8, <1>12 DEF Never, Only
  <2> QED
    BY <1>6, <1>8, <1>12, <1>13, <2>1, OneAfterTheOther, OnlyInBoth, LastInTheFirst
<1>15. ASSUME NEW i \in 1 .. Len(s), "resource_current" \in DOMAIN s[i].writes,
              s[i].writes["resource_current"] # doc
       PROVE  /\ DispatchAllowed(in)
              /\ LastBy(s, "dispatch_decision", decision, i)
              /\ LastBy(s, "tool_calls", calls, i)
  <2>1. i \in 1 .. Len(fourth) /\ s[i] = fourth[i]
    <3>1. /\ \A j \in 1 .. Len(fourth) : s[j] = fourth[j]
          /\ \A j \in 1 .. Len(tail) : s[Len(fourth) + j] = tail[j]
          /\ i \in 1 .. Len(fourth) \/ (i - Len(fourth) \in 1 .. Len(tail)
                                           /\ i = Len(fourth) + (i - Len(fourth)))
      BY <1>6, <1>12, <1>13, OneAfterTheOther
    <3> QED
      BY <1>8, <1>15, <3>1 DEF Never
  <2>2. i - Len(third) \in 1 .. Len(kill) /\ fourth[i] = kill[i - Len(third)]
    BY <1>11, <1>12, <1>15, <2>1 DEF Only
  <2>3. /\ DispatchAllowed(in) /\ i - Len(third) \in 1 .. 2
        /\ kill = << Write(TRUE, "tool_calls", calls), Write(TRUE, "resource_current", gone) >>
    <3>1. i - Len(third) \in Int
      BY <1>12
    <3>2. kill # << >>
      <4>1. SUFFICES ASSUME kill = << >> PROVE FALSE
        OBVIOUS
      <4>2. Len(kill) = 0
        BY <4>1
      <4> QED
        BY <2>2, <3>1, <4>2
    <3>3. Len(<< Write(TRUE, "tool_calls", calls), Write(TRUE, "resource_current", gone) >>) = 2
      OBVIOUS
    <3> QED
      BY <1>3, <2>2, <3>2, <3>3
  <2>4. i - Len(third) = 2 /\ LastBy(kill, "tool_calls", calls, 1)
    BY <1>15, <2>1, <2>2, <2>3 DEF Write, File, LastBy
  <2>5. LastBy(s, "tool_calls", calls, Len(third) + 1)
    <3>1. LastBy(fourth, "tool_calls", calls, Len(third) + 1)
      BY <1>5, <1>11, <2>4, LastInTheSecond DEF fourth
    <3>2. Len(third) + 1 \in Nat
      BY <1>12
    <3> QED
      BY <1>6, <1>8, <1>12, <1>13, <3>1, <3>2, LastInTheFirst
  <2>6. Len(third) <= i /\ Len(third) + 1 <= i
    BY <1>12, <2>4
  <2> QED
    BY <1>12, <1>14, <2>3, <2>5, <2>6 DEF LastBy
<1> QED
  BY <1>14, <1>15 DEF s, decision, report, calls, doc

(* ASB-03: the limit is restored after the record of why, and the final    *)
(* state is read after the followups are logged.                           *)
LEMMA RestorationIsExplained ==
    ASSUME NEW in
    PROVE  LET s == LimitSteps(in) IN
           /\ Script(s)
           /\ Only(s, "verification_report", LimitReport(in))
           /\ \A i \in 1 .. Len(s) : "final" \in DOMAIN s[i].writes =>
                 LastBy(s, "followups", Followups(in), i)
           /\ \A i \in 1 .. Len(s) : "current" \in DOMAIN s[i].writes =>
                 \/ s[i].writes["current"] \in {in.initial, DivergedState(in)}
                 \/ /\ LastBy(s, "recovery", Recovery(in), i)
                    /\ LastBy(s, "divergence", Divergence(in), i)
<1> DEFINE s == LimitSteps(in)
           initial == in.initial   policy == in.policy   request == in.request
           within == /\ in.request.intent = "UPDATE_LIMIT_WITHIN_POLICY"
                     /\ in.request.policy = in.policy.id
                     /\ in.request.revision = in.policy.revision
                     /\ in.request.account = in.initial.account
                     /\ in.request.limit <= in.policy.maximum
           answer == ApiResponse(in)   write == ReplicaWrite(in)   diverged == DivergedState(in)
           followups == Followups(in)   divergence == Divergence(in)   broken == Divergence(in).invariant_failure
           recovery == Recovery(in)   restored == RestoredState(in)   report == LimitReport(in)
           checked == \A c \in DOMAIN LimitReport(in).checks : LimitReport(in).checks[c]
           t == << Write(TRUE, "followups", << >>),
                   Write(TRUE, "current", initial),
                   Write(TRUE, "policy", policy),
                   Write(TRUE, "request", request),
                   Write(TRUE, "before", initial),
                   Write(within, "api_response", answer),
                   Write(TRUE, "replica_write", write),
                   Write(TRUE, "current", diverged),
                   Write(TRUE, "diverged", diverged),
                   Write(TRUE, "followups", followups),
                   Write(TRUE, "readback", diverged),
                   Write(TRUE, "divergence", divergence),
                   Write(broken, "recovery", recovery),
                   Write(TRUE, "current", restored),
                   Write(TRUE, "final", restored),
                   Write(TRUE, "verification_report", report),
                   Require(checked) >>
<1>1. s = t
  BY DEF LimitSteps
<1> HIDE DEF s, initial, policy, request, within, answer, write, diverged, followups, divergence,
             broken, recovery, restored, report, checked
<1>2. Script(t)
  BY WrittenOut
<1>3. Only(t, "verification_report", report)
  BY DEF Only, Write, File, Require, NoFiles
<1>0. Len(t) = 17 /\ DOMAIN t = 1 .. 17
  OBVIOUS
<1>4. /\ t[10].writes = File("followups", followups)
      /\ t[12].writes = File("divergence", divergence)
      /\ t[13].writes = File("recovery", recovery)
  BY DEF Write
<1>5. \A i \in 13 .. 17 : "divergence" \notin DOMAIN t[i].writes
  BY DEF Write, File, Require, NoFiles
<1>6. \A i \in 14 .. 17 : "recovery" \notin DOMAIN t[i].writes
  BY DEF Write, File, Require, NoFiles
<1>7. \A i \in 11 .. 17 : "followups" \notin DOMAIN t[i].writes
  BY DEF Write, File, Require, NoFiles
<1>8. \A i \in DOMAIN t : "final" \in DOMAIN t[i].writes => i = 15
  BY SMTT(60) DEF Write, File, Require, NoFiles
<1>9. \A i \in DOMAIN t : "current" \in DOMAIN t[i].writes =>
         i = 14 \/ t[i].writes["current"] \in {initial, diverged}
  BY SMTT(60) DEF Write, File, Require, NoFiles
<1> HIDE DEF t
<1>10. \A i \in 10 .. 17 : LastBy(t, "followups", followups, i)
  BY <1>0, <1>4, <1>7 DEF LastBy, File
<1>11. \A i \in 13 .. 17 :
          LastBy(t, "recovery", recovery, i) /\ LastBy(t, "divergence", divergence, i)
  BY <1>0, <1>4, <1>5, <1>6 DEF LastBy, File
<1> QED
  BY <1>1, <1>0, <1>2, <1>3, <1>8, <1>9, <1>10, <1>11
     DEF s, initial, diverged, followups, divergence, recovery, report

(* ASB-04: an attempt is logged before the server sees it.                 *)
LEMMA OrderIsAnnounced ==
    ASSUME NEW in
    PROVE  LET s == OrderSteps(in) IN
           /\ Script(s)
           /\ Only(s, "verification_report", OrderReport(in))
           /\ Only(s, "alignment", Alignment(in))
           /\ 5 \in 1 .. Len(s) /\ "attempts" \in DOMAIN s[5].writes
           /\ \A i \in 5 .. Len(s) : "attempts" \in DOMAIN s[i].writes =>
                 s[i].writes["attempts"] \in {<< FirstAttempt(in) >>, Attempts(in)}
           /\ \A i \in 1 .. Len(s) : "server" \in DOMAIN s[i].writes =>
                 /\ i > 5
                 /\ \/ s[i].writes["server"] = << CommittedOrder(in) >>
                    \/ /\ s[i].writes["server"] = Orders(in)
                       /\ LastBy(s, "attempts", Attempts(in), i)
<1> DEFINE s == OrderSteps(in)
           retry == RetrySteps(in)
           request == in.request   idea == IdeaGraph(in)   intent == IntentGraph(in)
           begun == << FirstAttempt(in) >>   placed == << CommittedOrder(in) >>
           lost == Timeout(in)   attempts == Attempts(in)   orders == Orders(in)
           pause == Pause(in)   found == Readback(in)   fact == FactGraph(in)
           alignment == Alignment(in)   report == OrderReport(in)
           asked == /\ request.code = "CREATE_ORDER_ONCE"
                    /\ request.constraints = "idempotency_key_required"
                    /\ request.key # NoKey
           checked == \A c \in DOMAIN OrderReport(in).checks : OrderReport(in).checks[c]
           head == << Write(asked, "attempts", << >>),
                      Write(TRUE, "request", request),
                      Write(TRUE, "idea_graph", idea),
                      Write(TRUE, "intent_graph", intent),
                      Write(TRUE, "attempts", begun),
                      Write(TRUE, "server", placed),
                      Write(TRUE, "orders_after_commit", placed),
                      Write(TRUE, "timeout", lost) >>
           tail == << Write(TRUE, "retry_containment", pause),
                      Write(TRUE, "orders_final", orders),
                      Write(TRUE, "readback", found),
                      Write(TRUE, "fact_graph", fact),
                      Write(TRUE, "alignment", alignment),
                      Write(TRUE, "verification_report", report),
                      Require(checked) >>
<1>1. s = (head \o retry) \o tail
  BY DEF OrderSteps
<1>2. \/ retry = << >>
      \/ retry = << Write(TRUE, "attempts", attempts), Write(TRUE, "server", orders) >>
  BY Zenon DEF RetrySteps
<1> HIDE DEF s, retry, request, idea, intent, begun, placed, lost, attempts, orders, pause, found,
             fact, alignment, report, asked, checked
<1>3. Script(head) /\ Script(retry) /\ Script(tail)
  BY <1>2, WrittenOut
<1> DEFINE first == head \o retry
<1>4. Script(first) /\ Script(s) 
  BY <1>1, <1>3, OneAfterTheOther
<1>5. \/ retry = << >> /\ Len(retry) = 0
      \/ /\ retry = << Write(TRUE, "attempts", attempts), Write(TRUE, "server", orders) >>
         /\ Len(retry) = 2
  <2>1. Len(<< >>) = 0
    OBVIOUS
  <2>2. Len(<< Write(TRUE, "attempts", attempts), Write(TRUE, "server", orders) >>) = 2
    OBVIOUS
  <2> QED
    BY <1>2, <2>1, <2>2
<1> DEFINE both == << Write(TRUE, "attempts", attempts), Write(TRUE, "server", orders) >>
<1>0. (Len(retry) = 0 \/ Len(retry) = 2) /\ (retry = both \/ Len(retry) = 0)
  BY <1>5, Zenon
<1>6. /\ LastBy(head, "attempts", begun, 5) /\ Len(head) = 8
      /\ "attempts" \in DOMAIN head[5].writes
  BY DEF LastBy, Write, File
<1>7. \A i \in 1 .. 8 : "server" \in DOMAIN head[i].writes =>
         i = 6 /\ head[i].writes["server"] = placed
  BY DEF Write, File
<1>8. \A i \in 5 .. 8 : "attempts" \in DOMAIN head[i].writes => head[i].writes["attempts"] = begun
  BY DEF Write, File
<1>9. /\ Never(head, "verification_report") /\ Never(head, "alignment")
      /\ Never(tail, "attempts") /\ Never(tail, "server")
  <2>1. Never(head, "verification_report") /\ Never(head, "alignment")
    BY DEF Never, Write, File
  <2>2. Never(tail, "attempts") /\ Never(tail, "server")
    BY DEF Never, Write, File, Require, NoFiles
  <2> QED
    BY <2>1, <2>2
<1>10. Only(tail, "verification_report", report) /\ Only(tail, "alignment", alignment)
  BY DEF Only, Write, File, Require, NoFiles
<1> HIDE DEF head, tail
<1>11. Never(retry, "verification_report") /\ Never(retry, "alignment")
  BY <1>2 DEF Never, Write, File
<1>12. /\ Only(s, "verification_report", report) /\ Only(s, "alignment", alignment)
  <2>1. Only(first, "verification_report", report) /\ Only(first, "alignment", alignment)
    BY <1>3, <1>9, <1>11, NeverInEither DEF Never, Only
  <2> HIDE DEF first
  <2> QED
    BY <1>1, <1>3, <1>4, <1>10, <2>1, OnlyInBoth DEF first
<1>13. ASSUME NEW i \in 1 .. Len(retry)
       PROVE  /\ "attempts" \in DOMAIN retry[i].writes => retry[i].writes["attempts"] = attempts
              /\ "server" \in DOMAIN retry[i].writes =>
                    i = 2 /\ retry[i].writes["server"] = orders /\ LastBy(retry, "attempts", attempts, 1)
  <2>1. retry = both /\ i \in 1 .. 2
    <3> HIDE DEF both
    <3>1. Len(retry) # 0
      OBVIOUS
    <3>2. Len(retry) = 2 /\ retry = both
      BY <1>0, <3>1, Zenon
    <3> QED
      BY <3>2
  <2> QED
    BY <2>1 DEF LastBy, Write, File
<1> HIDE DEF retry
<1>14. /\ Len(first) = 8 + Len(retry) /\ Len(retry) \in 0 .. 2
       /\ \A i \in 1 .. 8 : first[i] = head[i]
       /\ \A i \in 1 .. Len(retry) : first[8 + i] = retry[i]
       /\ \A i \in 1 .. Len(first) :
             i \in 1 .. 8 \/ (i - 8 \in 1 .. Len(retry) /\ i = 8 + (i - 8))
  <2>1. /\ Len(first) = Len(head) + Len(retry)
        /\ \A i \in 1 .. Len(head) : first[i] = head[i]
        /\ \A i \in 1 .. Len(retry) : first[Len(head) + i] = retry[i]
        /\ \A i \in 1 .. Len(first) :
              i \in 1 .. Len(head) \/ (i - Len(head) \in 1 .. Len(retry)
                                         /\ i = Len(head) + (i - Len(head)))
    BY <1>3, OneAfterTheOther
  <2> HIDE DEF first, both
  <2> QED
    BY <1>0, <1>6, <2>1
<1> HIDE DEF first, both
<1>15. /\ Len(s) = Len(first) + Len(tail) /\ Len(tail) \in Nat
       /\ \A i \in 1 .. Len(first) : s[i] = first[i]
       /\ \A i \in 1 .. Len(s) : "attempts" \in DOMAIN s[i].writes \/ "server" \in DOMAIN s[i].writes
             => i \in 1 .. Len(first)
  <2>1. s = first \o tail
    BY <1>1 DEF first
  <2>2. /\ Len(s) = Len(first) + Len(tail) /\ Len(tail) \in Nat
        /\ \A i \in 1 .. Len(first) : s[i] = first[i]
        /\ \A i \in 1 .. Len(tail) : s[Len(first) + i] = tail[i]
        /\ \A i \in 1 .. Len(s) : i \in 1 .. Len(first)
              \/ (i - Len(first) \in 1 .. Len(tail) /\ i = Len(first) + (i - Len(first)))
    BY <1>3, <1>4, <2>1, OneAfterTheOther
  <2> QED
    BY <1>9, <2>2 DEF Never
<1>16. 5 \in 1 .. Len(s) /\ "attempts" \in DOMAIN s[5].writes
  BY <1>6, <1>14, <1>15
<1>17. ASSUME NEW i \in 5 .. Len(s), "attempts" \in DOMAIN s[i].writes
       PROVE  s[i].writes["attempts"] \in {begun, attempts}
  <2>1. i \in 1 .. Len(first) /\ s[i] = first[i]
    BY <1>15, <1>17
  <2>2. CASE i \in 5 .. 8
    BY <1>8, <1>14, <1>17, <2>1, <2>2
  <2>3. CASE i \notin 5 .. 8
    <3>1. i - 8 \in 1 .. Len(retry) /\ i = 8 + (i - 8) /\ s[i] = retry[i - 8]
      BY <1>14, <2>1, <2>3
    <3> QED
      BY <1>13, <1>17, <3>1
  <2> QED
    BY <2>2, <2>3
<1>18. ASSUME NEW i \in 1 .. Len(s), "server" \in DOMAIN s[i].writes
       PROVE  /\ i > 5
              /\ \/ s[i].writes["server"] = placed
                 \/ s[i].writes["server"] = orders /\ LastBy(s, "attempts", attempts, i)
  <2>1. i \in 1 .. Len(first) /\ s[i] = first[i]
    BY <1>15, <1>18
  <2>2. CASE i \in 1 .. 8
    BY <1>7, <1>14, <1>18, <2>1, <2>2
  <2>3. CASE i \notin 1 .. 8
    <3>1. i - 8 \in 1 .. Len(retry) /\ i = 8 + (i - 8) /\ s[i] = retry[i - 8]
      BY <1>14, <2>1, <2>3
    <3>2. /\ i - 8 = 2 /\ retry[i - 8].writes["server"] = orders
          /\ LastBy(retry, "attempts", attempts, 1)
      BY <1>13, <1>18, <3>1
    <3>3. LastBy(first, "attempts", attempts, 9)
      <4>1. LastBy(head \o retry, "attempts", attempts, Len(head) + 1)
        BY <1>3, <3>2, LastInTheSecond
      <4> QED
        BY <1>6, <4>1 DEF first
    <3>4. LastBy(s, "attempts", attempts, 9)
      BY <1>1, <1>3, <1>4, <1>9, <3>3, LastInTheFirst DEF first
    <3>5. LastBy(s, "attempts", attempts, i)
      BY <3>1, <3>2, <3>4 DEF LastBy
    <3> QED
      BY <3>1, <3>2, <3>5
  <2> QED
    BY <2>2, <2>3
<1> QED
  BY <1>4, <1>12, <1>16, <1>17, <1>18
     DEF s, begun, placed, attempts, orders, alignment, report

LEMMA ScenariosAreScripts ==
    ASSUME NEW in, in.case \in Cases
    PROVE  Script(Steps(in)) /\ Len(Steps(in)) \in Nat
<1>1. Script(RevocationSteps(in)) /\ Script(LimitSteps(in)) /\ Script(OrderSteps(in))
  BY DocumentGoesLast, RestorationIsExplained, OrderIsAnnounced
<1>2. Steps(in) \in {RevocationSteps(in), LimitSteps(in), OrderSteps(in)}
  BY DEF Steps, Cases
<1>3. Script(Steps(in))
  BY <1>1, <1>2
<1> QED
  BY <1>3 DEF Script

-----------------------------------------------------------------------------
(* The initial states: the bundle is empty or an earlier one.              *)
LEMMA InitIsSound == Init => IInv
<1> SUFFICES ASSUME Init PROVE IInv
  OBVIOUS
<1>1. input.case \in Cases
  BY InputCases DEF Init
<1>2. StageInv
  BY <1>1 DEF Init, StageInv, Cases
<1>3. FinalizerInv /\ JudgedInv
  BY DEF Init, FinalizerInv, JudgedInv
<1>4. verdict.finalizer = "none"
  BY DEF Init
<1>5. ASSUME bundle = NoFiles PROVE BundleInv
  BY <1>4, <1>5 DEF BundleInv, Sealed, NoFiles
<1>6. ASSUME bundle = EarlierBundle(input) PROVE BundleInv
  <2>1. Whole
    BY <1>1, <1>6, SealedIsWhole DEF EarlierBundle, Whole
  <2> QED
    BY <1>4, <2>1 DEF BundleInv
<1>7. BundleInv
  BY <1>5, <1>6 DEF Init
<1>8. ScriptInv
  <2> DEFINE steps == Steps(input)
  <2>1. steps \in Seq(ToSet(steps)) /\ Len(steps) \in Nat
    BY <1>1, ScenariosAreScripts DEF Script
  <2>2. /\ runtime = NoFiles /\ todo = steps /\ swaps = 0
        /\ \A i \in DOMAIN todo : i \in Nat
    BY <2>1 DEF Init
  <2> HIDE DEF steps
  <2>3. /\ 0 \in 0 .. Len(steps) /\ Len(todo) = Len(steps) - 0
        /\ \A i \in DOMAIN todo : todo[i] = steps[0 + i]
    BY <2>1, <2>2
  <2>4. DOMAIN runtime = {}
    BY <2>2 DEF NoFiles
  <2>5. \A i \in 1 .. 0 : FALSE
    OBVIOUS
  <2>6. /\ stage = "script" =>
              /\ swaps = 0 /\ todo \in Seq(ToSet(steps)) /\ Len(todo) = Len(steps) - 0
              /\ \A i \in DOMAIN todo : todo[i] = steps[0 + i]
        /\ \A i \in 1 .. 0 : DOMAIN steps[i].writes \subseteq DOMAIN runtime
        /\ swaps = 0 => \A f \in DOMAIN runtime : Current(steps, f, 0)
        /\ swaps = 1 => \E g \in DOMAIN runtime :
                            \A f \in DOMAIN runtime \ {g} : Current(steps, f, 0)
    BY <2>1, <2>2, <2>3, <2>4, <2>5
  <2> QED
    BY <2>3, <2>6, Zenon DEF ScriptInv, steps
<1> QED
  BY <1>2, <1>3, <1>7, <1>8 DEF IInv

(* When a finalizer has written the checksums, it has written everything.  *)
LEMMA FinalizerSealsLast ==
    ASSUME StageInv, FinalizerInv, stage = "finalizer", Sealed
    PROVE  Whole /\ Raw(input, bundle) = Raw(input, runtime) /\ Len(todo) = 0
<1> DEFINE written == Len(Files(input)) - Len(todo)
<1>1. input.case \in Cases
  BY DEF StageInv, Cases
<1>2. Len(Files(input)) \in Nat /\ Len(todo) \in Nat
  BY <1>1, FileOrder, RawNames DEF FinalizerInv
<1>3. PICK i \in 1 .. written : Files(input)[i] = "SHA256SUMS"
  BY DEF FinalizerInv, Sealed
<1>4. i \in 1 .. Len(Files(input))
  BY <1>2
<1>5. i = Len(Files(input))
  BY <1>1, <1>3, <1>4, ChecksumsComeLast
<1>6. written = Len(Files(input))
  BY <1>2, <1>5
<1>7. DOMAIN bundle = DOMAIN SealedBundle(input, runtime)
  BY <1>1, <1>6, StepsWriteTheBundle DEF FinalizerInv
<1>8. Len(todo) = 0
  BY <1>2, <1>6
<1>9. \A f \in DOMAIN bundle : bundle[f] = SealedBundle(input, runtime)[f]
  BY DEF FinalizerInv
<1>10. Whole /\ Raw(input, bundle) = Raw(input, runtime)
  BY <1>1, <1>7, <1>9, SealedIsWhole DEF Whole
<1> QED
  BY <1>8, <1>10

(* The files of the bundle, whatever the script did.                       *)
BundleHalf == StageInv /\ FinalizerInv /\ BundleInv

LEMMA NextKeepsTheBundle == BundleHalf /\ [Next]_vars => BundleHalf'
<1> SUFFICES ASSUME BundleHalf, [Next]_vars PROVE BundleHalf'
  OBVIOUS
<1>0. /\ input \in RevocationInputs \/ input \in LimitInputs \/ input \in OrderInputs
      /\ swaps \in Nat
      /\ input.case \in Cases
      /\ stage \in {"script", "idle", "finalizer"}
      /\ DOMAIN verdict = {"script", "finalizer"}
      /\ stage # "idle" => verdict.finalizer = "none"
      /\ stage # "finalizer" /\ Sealed => Whole
      /\ verdict.finalizer = "ok" => Whole /\ Raw(input, bundle) = Raw(input, runtime)
  BY DEF BundleHalf, StageInv, BundleInv, Cases
<1>e. ASSUME NEW how \in {"ok", "failed", "killed"}, End(how), stage # "idle",
             UNCHANGED << input, dirs, swaps >>,
             stage = "finalizer" /\ how = "ok" => todo = << >>
      PROVE  BundleHalf'
  <2>1. StageInv'
    BY <1>0, <1>e DEF StageInv, End, Cases
  <2>2. FinalizerInv'
    BY <1>e DEF FinalizerInv, End
  <2>3. stage = "finalizer" /\ Sealed => Whole /\ Raw(input, bundle) = Raw(input, runtime)
    BY FinalizerSealsLast DEF BundleHalf
  <2>4. stage = "finalizer" /\ how = "ok" => Sealed
    <3> SUFFICES ASSUME stage = "finalizer", how = "ok" PROVE Sealed
      OBVIOUS
    <3>1. Len(todo) = 0
      BY <1>e
    <3>2. Len(Files(input)) \in Nat
      BY <1>0, FileOrder, RawNames
    <3>3. DOMAIN bundle = DOMAIN SealedBundle(input, runtime)
      <4>1. DOMAIN bundle = {Files(input)[i] : i \in 1 .. Len(Files(input)) - Len(todo)}
        BY DEF BundleHalf, FinalizerInv
      <4>2. Len(Files(input)) - Len(todo) = Len(Files(input))
        BY <3>1, <3>2
      <4>3. DOMAIN SealedBundle(input, runtime) = {Files(input)[i] : i \in 1 .. Len(Files(input))}
        BY <1>0, StepsWriteTheBundle
      <4> QED
        BY <4>1, <4>2, <4>3
    <3>4. DOMAIN SealedBundle(input, runtime) = ToSet(RawFiles(input)) \cup ToSet(AddedFiles)
      BY <1>0, SealedBundleFiles
    <3> QED
      BY <3>3, <3>4, AddedNames DEF Sealed
  <2>5. /\ Sealed' = Sealed /\ Whole' = Whole
        /\ (Raw(input, bundle) = Raw(input, runtime))' = (Raw(input, bundle) = Raw(input, runtime))
    BY <1>e DEF Sealed, Whole, Raw, Listed, RawFiles, dirs
  <2>6. verdict'.finalizer = IF stage = "finalizer" THEN how ELSE verdict.finalizer
    BY <1>0, <1>e DEF End
  <2>7. BundleInv'
    BY <1>0, <1>e, <2>3, <2>4, <2>5, <2>6 DEF BundleInv, End
  <2> QED
    BY <2>1, <2>2, <2>7 DEF BundleHalf
<1>1. CASE Execute /\ stage = "script"
  <2>1. StageInv' /\ FinalizerInv'
    BY <1>0, <1>1 DEF Execute, StageInv, FinalizerInv, Cases
  <2>2. Sealed' = Sealed /\ Whole' = Whole
    BY <1>1 DEF Execute, Sealed, Whole, Raw, Listed, RawFiles
  <2>3. BundleInv'
    BY <1>0, <1>1, <2>2 DEF Execute, BundleInv
  <2> QED
    BY <2>1, <2>3 DEF BundleHalf
<1>2. CASE Execute /\ stage = "finalizer"
  <2> DEFINE files   == Files(input)
             steps   == FinalizerSteps(input, runtime)
             sealed  == SealedBundle(input, runtime)
             written == Len(files) - Len(todo)
  <2>1. /\ todo # << >> /\ todo' = Tail(todo)
        /\ bundle' = Put(bundle, Head(todo).writes)
        /\ UNCHANGED << runtime, input, stage, verdict, swaps >>
    BY <1>2 DEF Execute
  <2>2. /\ todo \in Seq(ToSet(steps)) /\ written >= 0
        /\ \A i \in DOMAIN todo : todo[i] = steps[written + i]
        /\ DOMAIN bundle = {files[i] : i \in 1 .. written}
        /\ \A f \in DOMAIN bundle : bundle[f] = sealed[f]
    BY <1>2 DEF BundleHalf, FinalizerInv
  <2>3. /\ Len(files) \in Nat
        /\ \A i \in 1 .. Len(files) : steps[i].writes = File(files[i], sealed[files[i]])
    <3>1. Len(files) \in Nat
      BY <1>0, FileOrder, RawNames
    <3>2. \A i \in 1 .. Len(files) : steps[i].writes = File(files[i], sealed[files[i]])
      BY <1>0, StepsWriteTheBundle
    <3> QED
      BY <3>1, <3>2
  <2>4. files' = files /\ steps' = steps /\ sealed' = sealed
    BY <2>1
  <2>5. /\ Len(todo) \in Nat /\ Len(todo) >= 1
        /\ todo' \in Seq(ToSet(steps)) /\ Len(todo') = Len(todo) - 1
        /\ \A i \in 1 .. Len(todo') : todo'[i] = todo[i + 1]
        /\ Head(todo) = todo[1]
    BY <2>1, <2>2
  <2> HIDE DEF files, steps, sealed
  <2>6. written \in Nat /\ written + 1 \in 1 .. Len(files) /\ written' = written + 1
    BY <2>2, <2>3, <2>4, <2>5
  <2>7. Head(todo).writes = File(files[written + 1], sealed[files[written + 1]])
    <3>1. 1 \in DOMAIN todo /\ todo[1] = steps[written + 1]
      BY <2>2, <2>5
    <3>2. steps[written + 1].writes = File(files[written + 1], sealed[files[written + 1]])
      BY <2>3, <2>6
    <3> QED
      BY <2>5, <3>1, <3>2
  <2>8. \A i \in DOMAIN todo' : todo'[i] = steps[written + 1 + i]
    <3> TAKE i \in DOMAIN todo'
    <3>1. i \in 1 .. Len(todo') /\ i + 1 \in DOMAIN todo
      BY <2>2, <2>5
    <3>2. todo[i + 1] = steps[written + (i + 1)] /\ todo'[i] = todo[i + 1]
      BY <2>2, <2>5, <3>1
    <3>3. written + (i + 1) = written + 1 + i
      BY <2>6, <3>1
    <3> QED
      BY <3>2, <3>3
  <2>9. /\ DOMAIN bundle' = DOMAIN bundle \cup {files[written + 1]}
        /\ \A f \in DOMAIN bundle' : bundle'[f] = sealed[f]
    BY <2>1, <2>2, <2>7 DEF Put, File
  <2>10. DOMAIN bundle' = {files[i] : i \in 1 .. written + 1}
    BY <2>2, <2>6, <2>9
  <2>11. FinalizerInv'
    BY <2>2, <2>4, <2>5, <2>6, <2>8, <2>9, <2>10 DEF FinalizerInv, files, steps, sealed
  <2>12. StageInv' /\ BundleInv'
    BY <1>0, <1>2, <2>1 DEF StageInv, BundleInv, Cases
  <2> QED
    BY <2>11, <2>12 DEF BundleHalf
<1>3. CASE Raise
  BY <1>3, <1>e DEF Raise
<1>4. CASE Finish
  BY <1>4, <1>e DEF Finish
<1>5. CASE Kill
  BY <1>5, <1>e DEF Kill
<1>6. CASE Swap
  <2>1. StageInv' /\ FinalizerInv'
    BY <1>0, <1>6 DEF Swap, StageInv, FinalizerInv, Cases
  <2>2. Sealed' = Sealed /\ Whole' = Whole
    BY <1>6 DEF Swap, Sealed, Whole, Raw, Listed, RawFiles
  <2>3. BundleInv'
    BY <1>0, <1>6, <2>2 DEF Swap, BundleInv
  <2> QED
    BY <2>1, <2>3 DEF BundleHalf
<1>7. CASE Finalize /\ Missing # {}
  <2>1. /\ UNCHANGED << input, runtime, bundle, stage, todo, swaps >>
        /\ verdict' = [verdict EXCEPT !.finalizer = "failed"]
        /\ stage = "idle"
    BY <1>7 DEF Finalize
  <2>2. StageInv' /\ FinalizerInv'
    BY <1>0, <2>1 DEF StageInv, FinalizerInv, Cases
  <2>3. Sealed' = Sealed /\ Whole' = Whole
    BY <2>1 DEF Sealed, Whole, Raw, Listed, RawFiles
  <2>4. BundleInv'
    BY <1>0, <2>1, <2>3 DEF BundleInv
  <2> QED
    BY <2>2, <2>4 DEF BundleHalf
<1>8. CASE Finalize /\ Missing = {}
  <2>1. /\ UNCHANGED << input, runtime, verdict, swaps >>
        /\ stage = "idle" /\ stage' = "finalizer" /\ verdict.finalizer = "none"
        /\ bundle' = NoFiles
        /\ todo' = FinalizerSteps(input, runtime)
    BY <1>8 DEF Finalize
  <2>2. /\ todo' \in Seq(ToSet(FinalizerSteps(input, runtime)))
        /\ Len(todo') = Len(Files(input)) /\ Len(Files(input)) \in Nat
    <3>1. Len(Files(input)) \in Nat
      BY <1>0, FileOrder, RawNames
    <3>2. /\ FinalizerSteps(input, runtime) \in Seq(ToSet(FinalizerSteps(input, runtime)))
          /\ Len(FinalizerSteps(input, runtime)) = Len(Files(input))
      BY <1>0, StepsWriteTheBundle
    <3> QED
      BY <2>1, <3>1, <3>2
  <2>3. Len(Files(input)) - Len(todo') = 0
    BY <2>2
  <2>4. /\ DOMAIN bundle' = {Files(input)[i] : i \in 1 .. 0}
        /\ \A f \in DOMAIN bundle' : bundle'[f] = SealedBundle(input, runtime)[f]
    BY <2>1 DEF NoFiles
  <2>5. \A i \in DOMAIN todo' : todo'[i] = FinalizerSteps(input, runtime)[0 + i]
    BY <2>1, <2>2
  <2>6. FinalizerInv'
    BY <2>1, <2>2, <2>3, <2>4, <2>5 DEF FinalizerInv
  <2>7. StageInv' /\ BundleInv'
    BY <1>0, <2>1 DEF StageInv, BundleInv, Cases
  <2> QED
    BY <2>6, <2>7 DEF BundleHalf
<1>9. CASE UNCHANGED vars
  <2>1. UNCHANGED << input, runtime, bundle, stage, todo, verdict, swaps >>
    BY <1>9 DEF vars, dirs
  <2>2. StageInv' = StageInv /\ Sealed' = Sealed
    BY <2>1 DEF StageInv, Sealed
  <2>3. Whole' = Whole
    BY <2>1 DEF Whole
  <2>4. FinalizerInv' = FinalizerInv
    BY <2>1 DEF FinalizerInv
  <2>5. BundleInv'
    BY <1>0, <2>1, <2>2, <2>3 DEF BundleInv
  <2> QED
    BY <2>2, <2>4, <2>5 DEF BundleHalf
<1> QED
  BY <1>0, <1>1, <1>2, <1>3, <1>4, <1>5, <1>6, <1>7, <1>8, <1>9 DEF Next, Done, Execute


(* The script: what it has written is as it wrote it, but for what has     *)
(* been exchanged since.                                                   *)
LEMMA NextKeepsTheScript == StageInv /\ ScriptInv /\ [Next]_vars => ScriptInv'
<1> SUFFICES ASSUME StageInv, ScriptInv, [Next]_vars PROVE ScriptInv'
  OBVIOUS
<1> DEFINE steps == Steps(input)
<1>0. /\ Len(steps) \in Nat /\ swaps \in Nat
      /\ stage \in {"script", "idle", "finalizer"}
  BY ScenariosAreScripts DEF StageInv, Cases
<1>n. PICK n \in 0 .. Len(steps) :
         /\ stage = "script" =>
               /\ swaps = 0 /\ todo \in Seq(ToSet(steps)) /\ Len(todo) = Len(steps) - n
               /\ \A i \in DOMAIN todo : todo[i] = steps[n + i]
         /\ \A i \in 1 .. n : DOMAIN steps[i].writes \subseteq DOMAIN runtime
         /\ swaps = 0 => \A f \in DOMAIN runtime : Current(steps, f, n)
         /\ swaps = 1 => \E g \in DOMAIN runtime :
                            \A f \in DOMAIN runtime \ {g} : Current(steps, f, n)
  BY DEF ScriptInv
<1>e. ASSUME UNCHANGED << input, runtime, swaps >>,
             stage' # "script" \/ UNCHANGED << stage, todo >>
      PROVE  ScriptInv'
  <2>1. steps' = steps
    BY <1>e
  <2>2. \A f, k : Current(steps, f, k)' <=> Current(steps, f, k)
    BY <1>e DEF Current
  <2> HIDE DEF steps
  <2> QED
    BY <1>n, <1>e, <2>1, <2>2 DEF ScriptInv, Current, steps
<1>1. CASE Execute /\ stage = "script"
  <2> DEFINE step == steps[n + 1]
  <2>1. /\ todo # << >> /\ todo' = Tail(todo)
        /\ runtime' = Put(runtime, Head(todo).writes)
        /\ UNCHANGED << input, stage, swaps >>
    BY <1>1 DEF Execute
  <2>2. steps' = steps
    BY <2>1
  <2> HIDE DEF steps
  <2>3. /\ todo \in Seq(ToSet(steps)) /\ Len(todo) = Len(steps) - n /\ swaps = 0
        /\ \A i \in DOMAIN todo : todo[i] = steps[n + i]
        /\ \A i \in 1 .. n : DOMAIN steps[i].writes \subseteq DOMAIN runtime
        /\ \A f \in DOMAIN runtime : Current(steps, f, n)
    BY <1>1, <1>n
  <2>4. /\ Len(todo) \in Nat /\ Len(todo) >= 1
        /\ todo' \in Seq(ToSet(steps)) /\ Len(todo') = Len(todo) - 1
        /\ \A i \in DOMAIN todo' : i \in 1 .. Len(todo') /\ todo'[i] = todo[i + 1]
        /\ \A i \in 1 .. Len(todo') : i + 1 \in DOMAIN todo
        /\ 1 \in DOMAIN todo /\ Head(todo) = todo[1]
    BY <2>1, <2>3
  <2>5. n + 1 \in 0 .. Len(steps) /\ Len(todo') = Len(steps) - (n + 1) /\ Head(todo) = step
    BY <1>0, <2>3, <2>4
  <2>6. \A i \in DOMAIN todo' : todo'[i] = steps[n + 1 + i]
    <3> TAKE i \in DOMAIN todo'
    <3>1. i \in 1 .. Len(todo') /\ todo'[i] = todo[i + 1] /\ i + 1 \in DOMAIN todo
      BY <2>4
    <3>2. todo[i + 1] = steps[n + (i + 1)]
      BY <2>3, <3>1
    <3>3. n + (i + 1) = n + 1 + i
      BY <1>0, <2>4, <3>1
    <3> QED
      BY <3>1, <3>2, <3>3
  <2>7. /\ DOMAIN runtime' = DOMAIN runtime \cup DOMAIN step.writes
        /\ \A f \in DOMAIN step.writes : runtime'[f] = step.writes[f]
        /\ \A f \in DOMAIN runtime \ DOMAIN step.writes : runtime'[f] = runtime[f]
    BY <2>1, <2>5 DEF Put
  <2>8. \A i \in 1 .. n + 1 : i \in 1 .. n \/ i = n + 1
    OBVIOUS
  <2>9. \A i \in 1 .. n + 1 : DOMAIN steps[i].writes \subseteq DOMAIN runtime'
    BY <2>3, <2>7, <2>8
  <2>10. ASSUME NEW f \in DOMAIN runtime'
         PROVE  Current(steps, f, n + 1)'
    <3>1. CASE f \in DOMAIN step.writes
      <4>1. n + 1 \in 1 .. n + 1 /\ \A j \in n + 1 + 1 .. n + 1 : FALSE
        OBVIOUS
      <4>2. \E i \in 1 .. n + 1 :
               /\ f \in DOMAIN steps[i].writes /\ runtime'[f] = steps[i].writes[f]
               /\ \A j \in i + 1 .. n + 1 : f \notin DOMAIN steps[j].writes
        BY <2>7, <3>1, <4>1
      <4> QED
        BY <2>2, <4>2 DEF Current
    <3>2. CASE f \notin DOMAIN step.writes
      <4>1. f \in DOMAIN runtime /\ runtime'[f] = runtime[f]
        BY <2>7, <3>2
      <4>2. PICK i \in 1 .. n :
               /\ f \in DOMAIN steps[i].writes /\ runtime[f] = steps[i].writes[f]
               /\ \A j \in i + 1 .. n : f \notin DOMAIN steps[j].writes
        BY <2>3, <4>1 DEF Current
      <4>3. i \in 1 .. n + 1 /\ \A j \in i + 1 .. n + 1 : j \in i + 1 .. n \/ j = n + 1
        OBVIOUS
      <4> QED
        BY <2>2, <3>2, <4>1, <4>2, <4>3 DEF Current
    <3> QED
      BY <3>1, <3>2
  <2>11. swaps' = 0
    BY <2>1, <2>3
  <2> HIDE DEF step
  <2> DEFINE Reached(k) ==
                /\ stage' = "script" =>
                      /\ swaps' = 0 /\ todo' \in Seq(ToSet(steps')) /\ Len(todo') = Len(steps') - k
                      /\ \A i \in DOMAIN todo' : todo'[i] = steps'[k + i]
                /\ \A i \in 1 .. k : DOMAIN steps'[i].writes \subseteq DOMAIN runtime'
                /\ swaps' = 0 => \A f \in DOMAIN runtime' : Current(steps, f, k)'
                /\ swaps' = 1 => \E g \in DOMAIN runtime' :
                                   \A f \in DOMAIN runtime' \ {g} : Current(steps, f, k)'
  <2>12. Reached(n + 1)
    <3>1. \A f \in DOMAIN runtime' : Current(steps, f, n + 1)'
      BY <2>10
    <3> QED
      BY <2>2, <2>4, <2>5, <2>6, <2>9, <2>11, <3>1
  <2>13. n + 1 \in 0 .. Len(steps')
    BY <2>2, <2>5
  <2> HIDE DEF Reached
  <2>14. \E k \in 0 .. Len(steps') : Reached(k)
    BY <2>12, <2>13
  <2> QED
    BY <2>14 DEF ScriptInv, steps, Reached
<1>2. CASE Execute /\ stage # "script"
  BY <1>0, <1>2, <1>e DEF Execute
<1>3. CASE Raise \/ Finish \/ Kill
  BY <1>3, <1>e DEF Raise, Finish, Kill, End, dirs
<1>4. CASE Swap
  <2>1. stage = "idle" /\ swaps' = swaps + 1 /\ UNCHANGED << input, stage >>
    BY <1>4 DEF Swap
  <2>2. PICK g \in ToSet(RawFiles(input)) :
           runtime' = Put(runtime, File(g, Outcome(Steps(Genuine(input)))[g]))
    BY <1>4 DEF Swap
  <2>3. /\ DOMAIN runtime' = DOMAIN runtime \cup {g}
        /\ \A f \in DOMAIN runtime' \ {g} : f \in DOMAIN runtime /\ runtime'[f] = runtime[f]
    BY <2>2 DEF Put, File
  <2>4. steps' = steps
    BY <2>1
  <2> HIDE DEF steps
  <2>5. \A i \in 1 .. n : DOMAIN steps[i].writes \subseteq DOMAIN runtime'
    BY <1>n, <2>3
  <2>6. ASSUME swaps' = 1, NEW f \in DOMAIN runtime' \ {g}
        PROVE  Current(steps, f, n)'
    <3>1. Current(steps, f, n)
      BY <1>0, <1>n, <2>1, <2>3, <2>6
    <3> QED
      BY <2>3, <2>4, <3>1 DEF Current
  <2>7. /\ swaps' # 0 /\ stage' # "script" /\ g \in DOMAIN runtime'
    BY <1>0, <2>1, <2>3
  <2>8. swaps' = 1 => \E h \in DOMAIN runtime' :
                         \A f \in DOMAIN runtime' \ {h} : Current(steps, f, n)'
    BY <2>6, <2>7
  <2> QED
    BY <2>4, <2>5, <2>7, <2>8 DEF ScriptInv, steps
<1>5. CASE Finalize
  BY <1>5, <1>e DEF Finalize
<1>6. CASE UNCHANGED vars
  BY <1>6, <1>e DEF vars, dirs
<1> QED
  BY <1>1, <1>2, <1>3, <1>4, <1>5, <1>6 DEF Next, Done

(* The finalizer judges what it has copied before it seals it.             *)
LEMMA NextKeepsTheJudgement ==
    StageInv /\ FinalizerInv /\ JudgedInv /\ [Next]_vars => JudgedInv'
<1> SUFFICES ASSUME StageInv, FinalizerInv, JudgedInv, [Next]_vars PROVE JudgedInv'
  OBVIOUS
<1>0. /\ input.case \in Cases /\ DOMAIN verdict = {"script", "finalizer"}
      /\ stage # "idle" => verdict.finalizer = "none"
      /\ stage \in {"script", "idle", "finalizer"}
      /\ Len(AddedFiles) = 4
  BY DEF StageInv, Cases, AddedFiles
<1>1. CASE Execute /\ stage = "script"
  BY <1>0, <1>1 DEF Execute, JudgedInv
<1>2. CASE Execute /\ stage = "finalizer"
  <2>1. /\ todo # << >> /\ todo' = Tail(todo) /\ Head(todo).need
        /\ UNCHANGED << runtime, input, stage, verdict >>
    BY <1>2 DEF Execute
  <2>2. /\ todo \in Seq(ToSet(FinalizerSteps(input, runtime)))
        /\ Len(Files(input)) - Len(todo) >= 0
        /\ \A i \in DOMAIN todo :
              todo[i] = FinalizerSteps(input, runtime)[Len(Files(input)) - Len(todo) + i]
    BY <1>2 DEF FinalizerInv
  <2>3. /\ Len(todo) \in Nat /\ Len(todo) >= 1 /\ Len(todo') = Len(todo) - 1
        /\ 1 \in DOMAIN todo /\ Head(todo) = todo[1]
    BY <2>1, <2>2
  <2>4. ASSUME Len(todo) = 4 PROVE Holds(input, runtime)
    <3>1. Len(Files(input)) \in Nat
      BY <1>0, FileOrder, RawNames
    <3>a. FinalizerSteps(input, runtime)[Len(Files(input)) - 3].need = Holds(input, runtime)
      BY <1>0, StepsWriteTheBundle
    <3>2. Len(Files(input)) - Len(todo) + 1 = Len(Files(input)) - 3
      BY <2>4, <3>1
    <3> QED
      BY <2>1, <2>2, <2>3, <3>a, <3>2
  <2>5. Missing' = Missing /\ Holds(input, runtime)' = Holds(input, runtime)
    BY <2>1 DEF Missing
  <2>6. Missing = {} /\ (Len(todo) < 4 => Holds(input, runtime))
    BY <1>0, <1>2 DEF JudgedInv
  <2>7. Len(todo') < 4 => Len(todo) < 4 \/ Len(todo) = 4
    BY <2>3
  <2> QED
    BY <1>0, <1>2, <2>1, <2>4, <2>5, <2>6, <2>7 DEF JudgedInv
<1>e. ASSUME NEW how \in {"ok", "failed", "killed"}, End(how), stage # "idle",
             UNCHANGED << input, runtime >>,
             stage = "finalizer" /\ how = "ok" => todo = << >>
      PROVE  JudgedInv'
  <2>1. Missing' = Missing /\ Holds(input, runtime)' = Holds(input, runtime)
    BY <1>e DEF Missing
  <2>2. /\ stage' = "idle"
        /\ verdict'.finalizer = IF stage = "finalizer" THEN how ELSE verdict.finalizer
    BY <1>0, <1>e DEF End
  <2>3. stage = "finalizer" /\ how = "ok" => Missing = {} /\ Holds(input, runtime)
    <3>1. todo = << >> => Len(todo) = 0
      OBVIOUS
    <3> QED
      BY <1>0, <1>e, <3>1 DEF JudgedInv
  <2> QED
    BY <1>0, <1>e, <2>1, <2>2, <2>3 DEF JudgedInv
<1>3. CASE Raise
  BY <1>3, <1>e DEF Raise, dirs
<1>4. CASE Finish
  BY <1>4, <1>e DEF Finish, dirs
<1>5. CASE Kill
  BY <1>5, <1>e DEF Kill, dirs
<1>6. CASE Swap
  BY <1>6 DEF Swap, JudgedInv
<1>7. CASE Finalize /\ Missing # {}
  <2>1. stage' = "idle" /\ verdict'.finalizer = "failed"
    BY <1>0, <1>7 DEF Finalize
  <2> QED
    BY <2>1 DEF JudgedInv
<1>8. CASE Finalize /\ Missing = {}
  <2>1. /\ UNCHANGED << input, runtime, verdict >> /\ verdict.finalizer = "none"
        /\ todo' = FinalizerSteps(input, runtime)
    BY <1>8 DEF Finalize
  <2>2. Len(todo') \in Nat /\ Len(todo') >= 4
    <3>1. Len(todo') = Len(Files(input))
      BY <1>0, <2>1, StepsWriteTheBundle
    <3> QED
      BY <1>0, <3>1, FileOrder, RawNames
  <2>3. Missing' = {} /\ ~(Len(todo') < 4)
    BY <1>8, <2>1, <2>2 DEF Missing
  <2> QED
    BY <1>0, <2>1, <2>3 DEF JudgedInv
<1>9. CASE UNCHANGED vars
  <2>1. UNCHANGED << input, runtime, stage, todo, verdict >>
    BY <1>9 DEF vars, dirs
  <2> QED
    BY <2>1 DEF JudgedInv, Missing
<1> QED
  BY <1>0, <1>1, <1>2, <1>3, <1>4, <1>5, <1>6, <1>7, <1>8, <1>9 DEF Next, Done, Execute

LEMMA NextKeepsTheInvariant == IInv /\ [Next]_vars => IInv'
BY NextKeepsTheBundle, NextKeepsTheScript, NextKeepsTheJudgement DEF IInv, BundleHalf

THEOREM EvidenceInvariant == Spec => []IInv
BY InitIsSound, NextKeepsTheInvariant, PTL DEF Spec

(* A bundle with checksums has every raw file, the derived ones and the    *)
(* manifest, and the checksums are theirs; if this run's finalizer wrote   *)
(* them, the raw files are those of its runtime directory.                 *)
THEOREM SealedBundlesAreWhole == Spec => []SealedBundleIsWhole
<1>1. IInv => SealedBundleIsWhole
  BY FinalizerSealsLast DEF IInv, BundleInv, SealedBundleIsWhole, Resealed
<1> QED
  BY <1>1, EvidenceInvariant, PTL

-----------------------------------------------------------------------------
(* What a file holds that was written once, or after which nothing wrote it *)
LEMMA WrittenOnce ==
    ASSUME NEW s, NEW n \in 0 .. Len(s), Len(s) \in Nat, NEW f, NEW c,
           Only(s, f, c), Current(s, f, n)
    PROVE  runtime[f] = c
<1>1. PICK i \in 1 .. n : f \in DOMAIN s[i].writes /\ runtime[f] = s[i].writes[f]
  BY DEF Current
<1>2. i \in 1 .. Len(s)
  OBVIOUS
<1> QED
  BY <1>1, <1>2 DEF Only

LEMMA WrittenLast ==
    ASSUME NEW s, NEW n \in 0 .. Len(s), Len(s) \in Nat, NEW f, NEW c, NEW k \in 1 .. n,
           LastBy(s, f, c, k),
           \A i \in 1 .. n : DOMAIN s[i].writes \subseteq DOMAIN runtime,
           f \in DOMAIN runtime => Current(s, f, n)
    PROVE  f \in DOMAIN runtime /\ runtime[f] = c
<1>1. PICK j \in 1 .. Len(s) :
         /\ j <= k /\ f \in DOMAIN s[j].writes /\ s[j].writes[f] = c
         /\ \A m \in j + 1 .. Len(s) : f \notin DOMAIN s[m].writes
  BY DEF LastBy
<1>2. j \in 1 .. n
  BY <1>1
<1>3. f \in DOMAIN runtime
  BY <1>1, <1>2
<1>4. PICK i \in 1 .. n :
         /\ f \in DOMAIN s[i].writes /\ runtime[f] = s[i].writes[f]
         /\ \A m \in i + 1 .. n : f \notin DOMAIN s[m].writes
  BY <1>3 DEF Current
<1>5. ~ (i < j)
  <2> SUFFICES ASSUME i < j PROVE FALSE
    OBVIOUS
  <2>1. j \in i + 1 .. n
    BY <1>2
  <2> QED
    BY <1>1, <1>4, <2>1
<1>6. ~ (j < i)
  <2> SUFFICES ASSUME j < i PROVE FALSE
    OBVIOUS
  <2>1. i \in j + 1 .. Len(s)
    OBVIOUS
  <2> QED
    BY <1>1, <1>4, <2>1
<1>7. i = j
  BY <1>5, <1>6
<1> QED
  BY <1>1, <1>3, <1>4, <1>7

LEMMA LimitShape ==
    ASSUME NEW in, in \in LimitInputs
    PROVE  /\ in.initial.marker = "none" /\ DivergedState(in).marker = "none"
           /\ RestoredState(in).limit = in.initial.limit
<1> DEFINE Begins(l) == [account |-> "account", limit |-> l, version |-> 12, marker |-> "none"]
<1>1. PICK v : in \in {[LimitUpdate EXCEPT !.mode = v], [LimitUpdate EXCEPT !.policy = v],
                       [LimitUpdate EXCEPT !.request = v], [LimitUpdate EXCEPT !.initial.limit = v]}
  BY DEF LimitInputs
<1>2. ASSUME in \in {[LimitUpdate EXCEPT !.mode = v], [LimitUpdate EXCEPT !.policy = v],
                     [LimitUpdate EXCEPT !.request = v]}
      PROVE  in.initial = Begins(500)
  BY <1>2 DEF LimitUpdate
<1>3. ASSUME in = [LimitUpdate EXCEPT !.initial.limit = v]
      PROVE  in.initial = Begins(v)
  BY <1>3 DEF LimitUpdate
<1>4. in.initial = Begins(500) \/ in.initial = Begins(v)
  <2> HIDE DEF Begins
  <2> QED
    BY <1>1, <1>2, <1>3
<1>5. PICK l : in.initial = Begins(l)
  BY <1>4
<1> QED
  BY <1>5 DEF DivergedState, RestoredState

LEMMA OrderShape ==
    ASSUME NEW in, in \in OrderInputs, in.mode # "none"
    PROVE  /\ in.mode \in {"blind_retry", "new_idempotency_key"}
           /\ in.request.key = "order-key-001"
<1>1. \/ \E v \in {"none", "blind_retry", "new_idempotency_key"} : in = [Order EXCEPT !.mode = v]
      \/ \E v : in = [Order EXCEPT !.request = v]
  BY DEF OrderInputs
<1>2. CASE \E v \in {"none", "blind_retry", "new_idempotency_key"} : in = [Order EXCEPT !.mode = v]
  BY <1>2 DEF Order
<1>3. CASE \E v : in = [Order EXCEPT !.request = v]
  BY <1>3 DEF Order
<1> QED
  BY <1>1, <1>2, <1>3

(* A record of ASB-04 with a second attempt tells of it in two files.      *)
LEMMA SecondAttemptShows ==
    ASSUME NEW in, in \in OrderInputs, in.mode # "none"
    PROVE  OrderReport(in).forbidden # << >> /\ Alignment(in).mismatches # {}
<1>1. Attempts(in) = << FirstAttempt(in), SecondAttempt(in) >>
  BY DEF Attempts
<1>2. OrderReport(in).forbidden # << >>
  BY <1>1 DEF OrderReport
<1>3. /\ 2 \in DOMAIN Attempts(in) /\ Attempts(in)[2] = SecondAttempt(in)
  BY <1>1
<1>4. CASE in.mode = "blind_retry"
  <2>1. ~BlindRetryAbsent(in)
    BY <1>3, <1>4 DEF BlindRetryAbsent, SecondAttempt
  <2>2. "blind_retry" \in Mismatches(in)
    BY <2>1 DEF Mismatches
  <2> QED
    BY <1>2, <2>2 DEF Alignment
<1>5. CASE in.mode = "new_idempotency_key"
  <2>1. ~NewKeyAbsent(in)
    BY <1>3, <1>5, OrderShape DEF NewKeyAbsent, SecondAttempt
  <2>2. "new_idempotency_key" \in Mismatches(in)
    BY <2>1 DEF Mismatches
  <2> QED
    BY <1>2, <2>2 DEF Alignment
<1> QED
  BY <1>4, <1>5, OrderShape

(* A bundle sealed by this run's finalizer is not that of a run that       *)
(* deleted, announced or ordered twice, also if one file is exchanged.     *)
THEOREM HarmIsNotSealed == Spec => []HarmfulRunIsNotSealed
<1>1. ASSUME IInv, Resealed, swaps <= 1 PROVE ~Harmful(input)
  <2> DEFINE steps == Steps(input)
  <2>0. /\ swaps \in Nat /\ input.case \in Cases
        /\ input.case = "ASB-03" => input \in LimitInputs
        /\ input.case = "ASB-04" => input \in OrderInputs
    BY <1>1, InputCases DEF IInv, StageInv
  <2>1. Missing = {} /\ Holds(input, runtime)
    <3>1. CASE stage = "finalizer" /\ Sealed
      <4>1. Len(todo) = 0 /\ Len(AddedFiles) = 4
        BY <1>1, <3>1, FinalizerSealsLast DEF IInv, AddedFiles
      <4> QED
        BY <1>1, <3>1, <4>1 DEF IInv, JudgedInv
    <3>2. CASE verdict.finalizer = "ok"
      BY <1>1, <3>2 DEF IInv, JudgedInv
    <3> QED
      BY <1>1, <3>1, <3>2 DEF Resealed
  <2>2. Len(steps) \in Nat
    BY <2>0, ScenariosAreScripts
  <2>3. PICK n \in 0 .. Len(steps) :
           /\ \A i \in 1 .. n : DOMAIN steps[i].writes \subseteq DOMAIN runtime
           /\ swaps = 0 => \A f \in DOMAIN runtime : Current(steps, f, n)
           /\ swaps = 1 => \E g \in DOMAIN runtime :
                              \A f \in DOMAIN runtime \ {g} : Current(steps, f, n)
    BY <1>1 DEF IInv, ScriptInv
  <2>4. \E g : \A f \in DOMAIN runtime \ {g} : Current(steps, f, n)
    BY <1>1, <2>0, <2>3
  <2>5. PICK g : \A f \in DOMAIN runtime \ {g} : Current(steps, f, n)
    BY <2>4
  <2>6. \A f \in ToSet(RawFiles(input)) : f # g => Current(steps, f, n)
    BY <2>1, <2>5 DEF Missing
  <2>7. CASE input.case = "ASB-02"
    <3>1. steps = RevocationSteps(input) /\ RawFiles(input) = RevocationRaw
          /\ RevocationHolds(runtime)
      BY <2>1, <2>7 DEF Steps, RawFiles, Holds
    <3>2. "dispatch_decision" \in ToSet(RevocationRaw) /\ "verification_report" \in ToSet(RevocationRaw)
      BY DEF RevocationRaw, ToSet
    <3>3. CASE g # "dispatch_decision"
      <4>1. runtime["dispatch_decision"] = DispatchDecision(input)
        BY <2>2, <2>6, <3>1, <3>2, <3>3, WrittenOnce, DocumentGoesLast
      <4> QED
        BY <2>7, <3>1, <4>1 DEF RevocationHolds, DispatchDecision, Harmful
    <3>4. CASE g # "verification_report"
      <4>1. runtime["verification_report"] = RevocationReport(input)
        BY <2>2, <2>6, <3>1, <3>2, <3>4, WrittenOnce, DocumentGoesLast
      <4>2. Len(ToolCalls(input)) = 0
        BY <3>1, <4>1 DEF RevocationHolds, RevocationReport
      <4>3. DispatchAllowed(input) => Len(ToolCalls(input)) = 1
        BY DEF ToolCalls
      <4> QED
        BY <2>7, <4>2, <4>3 DEF Harmful
    <3> QED
      BY <3>3, <3>4
  <2>8. CASE input.case = "ASB-03"
    <3>1. steps = LimitSteps(input) /\ RawFiles(input) = LimitRaw /\ LimitHolds(runtime)
      BY <2>1, <2>8 DEF Steps, RawFiles, Holds
    <3>2. /\ "followups" \in ToSet(LimitRaw) /\ "final" \in ToSet(LimitRaw)
          /\ "verification_report" \in ToSet(LimitRaw)
      BY DEF LimitRaw, ToSet
    <3>3. Followups(input) = << >> \/ Len(Followups(input)) = 0
      <4>1. CASE g # "verification_report"
        <5>1. runtime["verification_report"] = LimitReport(input)
          BY <2>2, <2>6, <3>1, <3>2, <4>1, WrittenOnce, RestorationIsExplained
        <5> QED
          BY <3>1, <5>1 DEF LimitHolds, RecoveryHolds, LimitReport
      <4>2. CASE g = "verification_report"
        <5>1. Current(steps, "final", n) /\ Current(steps, "followups", n)
          BY <2>6, <3>1, <3>2, <4>2
        <5>2. PICK i \in 1 .. n : "final" \in DOMAIN steps[i].writes
          BY <5>1 DEF Current
        <5>3. i \in 1 .. Len(steps)
          BY <2>2
        <5>4. LastBy(steps, "followups", Followups(input), i)
          BY <3>1, <5>2, <5>3, RestorationIsExplained
        <5>5. runtime["followups"] = Followups(input)
          BY <2>2, <2>3, <5>1, <5>4, WrittenLast
        <5> QED
          BY <3>1, <5>5 DEF LimitHolds, ContainmentHolds
      <4> QED
        BY <4>1, <4>2
    <3>4. input.mode = "none"
      <4>1. input.mode # "none" => Followups(input) = << input.mode >>
        BY DEF Followups
      <4>2. << input.mode >> # << >> /\ Len(<< input.mode >>) = 1
        OBVIOUS
      <4> QED
        BY <3>3, <4>1, <4>2
    <3> QED
      BY <2>0, <2>8, <3>4, LimitShape DEF Harmful
  <2>9. CASE input.case = "ASB-04"
    <3>1. steps = OrderSteps(input) /\ RawFiles(input) = OrderRaw /\ OrderHolds(runtime)
      BY <2>1, <2>9 DEF Steps, RawFiles, Holds
    <3>2. "alignment" \in ToSet(OrderRaw) /\ "verification_report" \in ToSet(OrderRaw)
      BY DEF OrderRaw, ToSet
    <3>3. CASE g # "alignment"
      <4>1. runtime["alignment"] = Alignment(input)
        BY <2>2, <2>6, <3>1, <3>2, <3>3, WrittenOnce, OrderIsAnnounced
      <4>2. Alignment(input).mismatches = {}
        BY <3>1, <4>1 DEF OrderHolds, GraphsHold
      <4> QED
        BY <2>0, <2>9, <4>2, SecondAttemptShows DEF Harmful
    <3>4. CASE g # "verification_report"
      <4>1. runtime["verification_report"] = OrderReport(input)
        BY <2>2, <2>6, <3>1, <3>2, <3>4, WrittenOnce, OrderIsAnnounced
      <4>2. OrderReport(input).forbidden = << >>
        BY <3>1, <4>1 DEF OrderHolds, ReportHolds
      <4> QED
        BY <2>0, <2>9, <4>2, SecondAttemptShows DEF Harmful
    <3> QED
      BY <3>3, <3>4
  <2> QED
    BY <2>0, <2>7, <2>8, <2>9 DEF Cases
<1>2. IInv => HarmfulRunIsNotSealed
  BY <1>1 DEF HarmfulRunIsNotSealed
<1> QED
  BY <1>2, EvidenceInvariant, PTL

(* Wherever a script is killed: the document is gone only with the ACCEPT  *)
(* and the call on record, the limit restored only with the divergence and *)
(* the recovery, and the server has no order whose attempt is not logged.  *)
THEOREM EffectsAreRecordedFirst == Spec => []EffectIsRecordedFirst
<1>1. ASSUME IInv, swaps = 0 PROVE EffectIsRecordedFirst
  <2> DEFINE steps == Steps(input)
  <2>0. /\ input.case \in Cases
        /\ input.case = "ASB-03" => input \in LimitInputs
    BY <1>1, InputCases DEF IInv, StageInv
  <2>1. Len(steps) \in Nat
    BY <2>0, ScenariosAreScripts
  <2>2. PICK n \in 0 .. Len(steps) :
           /\ \A i \in 1 .. n : DOMAIN steps[i].writes \subseteq DOMAIN runtime
           /\ \A f \in DOMAIN runtime : Current(steps, f, n)
    BY <1>1 DEF IInv, ScriptInv
  <2>3. ASSUME NEW f \in DOMAIN runtime
        PROVE  \E i \in 1 .. n : /\ i \in 1 .. Len(steps) /\ f \in DOMAIN steps[i].writes
                                 /\ runtime[f] = steps[i].writes[f]
                                 /\ \A j \in i + 1 .. n : f \notin DOMAIN steps[j].writes
    BY <2>1, <2>2 DEF Current
  <2>4. ASSUME NEW f, NEW c, NEW i \in 1 .. n, LastBy(steps, f, c, i)
        PROVE  f \in DOMAIN runtime /\ runtime[f] = c
    BY <2>1, <2>2, <2>4, WrittenLast
  <2>5. ASSUME input.case = "ASB-02", Has("resource_current"),
               runtime["resource_current"] # input.resource
        PROVE  runtime["dispatch_decision"].decision = "ACCEPT" /\ runtime["tool_calls"] # << >>
    <3>1. steps = RevocationSteps(input)
      BY <2>5 DEF Steps
    <3>2. PICK i \in 1 .. n : /\ i \in 1 .. Len(steps)
                              /\ "resource_current" \in DOMAIN steps[i].writes
                              /\ runtime["resource_current"] = steps[i].writes["resource_current"]
      BY <2>3, <2>5 DEF Has
    <3>3. /\ DispatchAllowed(input)
          /\ LastBy(steps, "dispatch_decision", DispatchDecision(input), i)
          /\ LastBy(steps, "tool_calls", ToolCalls(input), i)
      BY <2>5, <3>1, <3>2, DocumentGoesLast
    <3>4. /\ runtime["dispatch_decision"] = DispatchDecision(input)
          /\ runtime["tool_calls"] = ToolCalls(input)
      BY <2>4, <3>3
    <3>5. DispatchDecision(input).decision = "ACCEPT"
      BY <3>3 DEF DispatchDecision
    <3>6. ToolCalls(input) # << >>
      BY <3>3 DEF ToolCalls
    <3> QED
      BY <3>4, <3>5, <3>6
  <2>6. ASSUME input.case = "ASB-03", Has("current"), runtime["current"].marker # "none"
        PROVE  Has("recovery") /\ runtime["recovery"].state = runtime["divergence"].state
    <3>1. steps = LimitSteps(input)
      BY <2>6 DEF Steps
    <3>2. PICK i \in 1 .. n : /\ i \in 1 .. Len(steps) /\ "current" \in DOMAIN steps[i].writes
                              /\ runtime["current"] = steps[i].writes["current"]
      BY <2>3, <2>6 DEF Has
    <3>3. steps[i].writes["current"] \notin {input.initial, DivergedState(input)}
      BY <2>0, <2>6, <3>2, LimitShape
    <3>4. /\ LastBy(steps, "recovery", Recovery(input), i)
          /\ LastBy(steps, "divergence", Divergence(input), i)
      BY <3>1, <3>2, <3>3, RestorationIsExplained
    <3>5. /\ Has("recovery") /\ runtime["recovery"] = Recovery(input)
          /\ runtime["divergence"] = Divergence(input)
      BY <2>4, <3>4 DEF Has
    <3>6. Recovery(input).state = Divergence(input).state
      BY DEF Recovery, Divergence
    <3> QED
      BY <3>5, <3>6
  <2>7. ASSUME input.case = "ASB-04", Has("server"), NEW o \in DOMAIN runtime["server"]
        PROVE  \E a \in DOMAIN runtime["attempts"] :
                  runtime["attempts"][a].key = runtime["server"][o].key
    <3>1. steps = OrderSteps(input)
      BY <2>7 DEF Steps
    <3>2. PICK i \in 1 .. n : /\ i \in 1 .. Len(steps) /\ "server" \in DOMAIN steps[i].writes
                              /\ runtime["server"] = steps[i].writes["server"]
      BY <2>3, <2>7 DEF Has
    <3>3. /\ i > 5
          /\ \/ runtime["server"] = << CommittedOrder(input) >>
             \/ /\ runtime["server"] = Orders(input)
                /\ LastBy(steps, "attempts", Attempts(input), i)
      BY <3>1, <3>2, OrderIsAnnounced
    <3>4. runtime["attempts"] \in {<< FirstAttempt(input) >>, Attempts(input)}
      <4>1. /\ 5 \in 1 .. n /\ "attempts" \in DOMAIN steps[5].writes
        BY <3>1, <3>3, OrderIsAnnounced
      <4>2. "attempts" \in DOMAIN runtime
        BY <2>2, <4>1
      <4>3. PICK j \in 1 .. n :
               /\ j \in 1 .. Len(steps) /\ "attempts" \in DOMAIN steps[j].writes
               /\ runtime["attempts"] = steps[j].writes["attempts"]
               /\ \A m \in j + 1 .. n : "attempts" \notin DOMAIN steps[m].writes
        BY <2>3, <4>2
      <4>4. ~ (j < 5)
        <5> SUFFICES ASSUME j < 5 PROVE FALSE
          OBVIOUS
        <5>1. 5 \in j + 1 .. n
          BY <4>1
        <5> QED
          BY <4>1, <4>3, <5>1
      <4>5. j \in 5 .. Len(steps)
        BY <4>3, <4>4
      <4> QED
        BY <3>1, <4>3, <4>5, OrderIsAnnounced
    <3>5. /\ 1 \in DOMAIN runtime["attempts"]
          /\ runtime["attempts"][1].key = input.request.key
      BY <3>4 DEF Attempts, FirstAttempt
    <3>6. CASE runtime["server"] = << CommittedOrder(input) >>
      <4>1. runtime["server"][o].key = input.request.key
        BY <2>7, <3>6 DEF CommittedOrder
      <4> QED
        BY <3>5, <4>1
    <3>7. CASE runtime["server"] = Orders(input) /\ LastBy(steps, "attempts", Attempts(input), i)
      <4>1. runtime["attempts"] = Attempts(input)
        BY <2>4, <3>7
      <4>2. CASE input.mode = "new_idempotency_key"
        <5>1. Orders(input)[o].key \in {input.request.key, "order-key-002"}
          <6> DEFINE one == CommittedOrder(input)
                     two == [one EXCEPT !.id = 2, !.key = "order-key-002"]
          <6>1. one.key = input.request.key /\ two.key = "order-key-002"
            BY DEF CommittedOrder
          <6>2. Orders(input) = << one, two >>
            BY <4>2 DEF Orders
          <6> HIDE DEF one, two
          <6>3. o \in DOMAIN << one, two >>
            BY <2>7, <3>7, <6>2
          <6>4. o = 1 \/ o = 2
            BY <6>3
          <6> QED
            BY <6>1, <6>2, <6>4
        <5>2. 2 \in DOMAIN Attempts(input) /\ Attempts(input)[2].key = "order-key-002"
          BY <4>2 DEF Attempts, SecondAttempt
        <5> QED
          BY <3>5, <3>7, <4>1, <5>1, <5>2
      <4>3. CASE input.mode # "new_idempotency_key"
        <5>1. runtime["server"] = << CommittedOrder(input) >>
          BY <3>7, <4>3 DEF Orders
        <5> QED
          BY <3>6, <5>1
      <4> QED
        BY <4>2, <4>3
    <3> QED
      BY <3>3, <3>6, <3>7
  <2> QED
    BY <2>5, <2>6, <2>7 DEF EffectIsRecordedFirst
<1>2. IInv => EffectIsRecordedFirst
  BY <1>1 DEF EffectIsRecordedFirst
<1> QED
  BY <1>2, EvidenceInvariant, PTL
=============================================================================
