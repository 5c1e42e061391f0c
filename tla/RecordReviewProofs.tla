------------------------- MODULE RecordReviewProofs -------------------------
(***************************************************************************)
(* What the conformance scripts accept, for every document of the right    *)
(* shape: however often a trace or a case was edited, if it verifies it    *)
(* means what RecordReview says.  The invariant is only the shape.         *)
(***************************************************************************)
EXTENDS RecordReview, SequenceTheorems, WellFoundedInduction, TLAPS

-----------------------------------------------------------------------------
(* Validations.                                                            *)

(* A nonempty set of naturals has a least element, and Min is it.          *)
LEMMA LeastElement ==
    ASSUME NEW S \in SUBSET Nat, S # {}
    PROVE  \E i \in S : \A j \in S : i <= j
<1>1. \E i \in S : \A j \in S : ~ (<<j, i>> \in OpToRel(<, Nat))
  BY NatLessThanWellFounded, WFMin
<1>2. ASSUME NEW i \in S, NEW j \in S, ~ (<<j, i>> \in OpToRel(<, Nat))
      PROVE  i <= j
  BY <1>2 DEF OpToRel
<1> QED
  BY <1>1, <1>2

LEMMA MinIsLeast ==
    ASSUME NEW S \in SUBSET Nat, S # {}
    PROVE  Min(S) \in S /\ \A j \in S : Min(S) <= j
BY LeastElement DEF Min

(* A nonempty set of indices has a greatest element, and Max is it.        *)
LEMMA MaxIsGreatest ==
    ASSUME NEW n \in Nat, NEW S \in SUBSET (1 .. n), S # {}
    PROVE  Max(S) \in S /\ \A j \in S : j <= Max(S)
<1> DEFINE T == {x \in Nat : n - x \in S}
<1>1. T # {}
  <2>1. PICK j \in S : TRUE
    OBVIOUS
  <2>2. n - j \in Nat /\ n - (n - j) = j
    OBVIOUS
  <2> QED
    BY <2>1, <2>2
<1>2. PICK x \in T : \A y \in T : x <= y
  BY <1>1, LeastElement
<1>3. n - x \in S /\ \A j \in S : j <= n - x
  <2> SUFFICES ASSUME NEW j \in S PROVE j <= n - x
    BY <1>2
  <2>1. n - j \in Nat /\ n - (n - j) = j
    OBVIOUS
  <2>2. n - j \in T
    BY <2>1
  <2>3. x <= n - j
    BY <1>2, <2>2
  <2> QED
    BY <1>2, <2>3
<1>4. \E m \in S : \A j \in S : m >= j
  BY <1>3
<1> QED
  BY <1>4 DEF Max

(* A validation without a failure has passed every check.                  *)
LEMMA NothingFails ==
    ASSUME NEW n \in Nat, NEW checks, DOMAIN checks = 1 .. n,
           \A i \in 1 .. n : checks[i][1] # "ok",
           FirstFailure(checks) = "ok"
    PROVE  \A i \in 1 .. n : checks[i][2]
<1> DEFINE failing == {i \in DOMAIN checks : ~ checks[i][2]}
<1>1. ASSUME failing # {} PROVE FALSE
  <2>1. failing \in SUBSET Nat
    OBVIOUS
  <2>2. Min(failing) \in failing
    BY <1>1, <2>1, MinIsLeast
  <2>3. Min(failing) \in 1 .. n
    BY <2>2
  <2>4. FirstFailure(checks) = checks[Min(failing)][1]
    BY <1>1 DEF FirstFailure
  <2> QED
    BY <2>3, <2>4
<1> QED
  BY <1>1

-----------------------------------------------------------------------------
(* Traces.                                                                 *)

(* What verify_trace() has checked of every event of a trace it accepts.   *)
LEMMA EventsAreChecked ==
    ASSUME NEW t, NEW n \in Nat, DOMAIN t.events = 1 .. n, VerifyTrace(t) = "ok",
           NEW i \in 1 .. n
    PROVE  /\ t.events[i].parent = PreviousId(t, i)
           /\ t.events[i].id = EventId(t.events[i])
           /\ t.events[i].time >= NotBefore(t, i)
           /\ VectorIsSound(t, i)
           /\ t.events[i].type \in DOMAIN Transitions
           /\ MoveIsLegal(t.events[i])
           /\ EvidenceIsGiven(t.events[i])
<1> DEFINE failing == {k \in DOMAIN t.events : FirstFailure(EventChecks(t, k)) # "ok"}
<1>1. ASSUME failing # {} PROVE FALSE
  <2>1. failing \in SUBSET Nat
    OBVIOUS
  <2>2. Min(failing) \in failing
    BY <1>1, <2>1, MinIsLeast
  <2>3. FirstFailure(EventChecks(t, Min(failing))) # "ok"
    BY <2>2
  <2>4. VerifyTrace(t) = FirstFailure(EventChecks(t, Min(failing)))
    BY <1>1 DEF VerifyTrace
  <2> QED
    BY <2>3, <2>4
<1>2. FirstFailure(EventChecks(t, i)) = "ok"
  BY <1>1
<1> DEFINE checks == EventChecks(t, i)
<1>3. DOMAIN checks = 1 .. 9 /\ \A k \in 1 .. 9 : checks[k][1] # "ok"
  BY DEF EventChecks
<1>4. \A k \in 1 .. 9 : checks[k][2]
  <2> HIDE DEF checks
  <2> QED
    BY <1>2, <1>3, NothingFails DEF checks
<1>5. /\ checks[2][2] /\ checks[4][2] /\ checks[5][2] /\ checks[6][2] /\ checks[7][2]
      /\ checks[8][2] /\ checks[9][2]
  BY <1>4
<1> QED
  BY <1>5 DEF EventChecks

LEMMA SealIsChecked ==
    ASSUME NEW t, NEW n \in Nat, t.events \in Seq(ToSet(t.events)), Len(t.events) = n,
           VerifyTrace(t) = "ok", NEW seal \in ToSet(t.seal)
    PROVE  /\ seal.subject = t.subject
           /\ seal.total = n
           /\ seal.terminal = PreviousId(t, n + 1)
<1> DEFINE failing == {k \in DOMAIN t.events : FirstFailure(EventChecks(t, k)) # "ok"}
<1>1. ASSUME failing # {} PROVE FALSE
  <2>1. failing \in SUBSET Nat
    OBVIOUS
  <2>2. Min(failing) \in failing
    BY <1>1, <2>1, MinIsLeast
  <2>3. FirstFailure(EventChecks(t, Min(failing))) # "ok"
    BY <2>2
  <2>4. VerifyTrace(t) = FirstFailure(EventChecks(t, Min(failing)))
    BY <1>1 DEF VerifyTrace
  <2> QED
    BY <2>3, <2>4
<1>2. FirstFailure(SealChecks(t)) = "ok"
  BY <1>1 DEF VerifyTrace
<1> DEFINE checks == SealChecks(t)
<1>3. DOMAIN checks = 1 .. 6 /\ \A k \in 1 .. 6 : checks[k][1] # "ok"
  BY DEF SealChecks
<1>4. \A k \in 1 .. 6 : checks[k][2]
  <2> HIDE DEF checks
  <2> QED
    BY <1>2, <1>3, NothingFails DEF checks
<1>5. checks[3][2] /\ checks[4][2] /\ checks[5][2]
  BY <1>4
<1> QED
  BY <1>5 DEF SealChecks

(* The events up to n that moved axis a.                                   *)
Moves(t, n, a) == {i \in 1 .. n : Transitions[t.events[i].type].axis = a}

LEMMA StateOfAxis ==
    ASSUME NEW t, NEW n \in Nat, NEW a \in DOMAIN Axes
    PROVE  StateAfter(t, n)[a] = IF Moves(t, n, a) = {} THEN Axes[a].initial
                                 ELSE Transitions[t.events[Max(Moves(t, n, a))].type].to
BY DEF StateAfter, Moves

(* A move sets its axis and leaves the others.                             *)
LEMMA StateAfterMove ==
    ASSUME NEW t, NEW i \in Nat \ {0}, NEW a \in DOMAIN Axes
    PROVE  StateAfter(t, i)[a] =
              IF Transitions[t.events[i].type].axis = a THEN Transitions[t.events[i].type].to
              ELSE StateAfter(t, i - 1)[a]
<1>0. i - 1 \in Nat /\ i \in Nat
  OBVIOUS
<1>1. CASE Transitions[t.events[i].type].axis = a
  <2>1. i \in Moves(t, i, a) /\ Moves(t, i, a) \in SUBSET (1 .. i)
    BY <1>1 DEF Moves
  <2>2. Max(Moves(t, i, a)) = i
    <3>1. Max(Moves(t, i, a)) \in 1 .. i /\ i <= Max(Moves(t, i, a))
      BY <1>0, <2>1, MaxIsGreatest
    <3> QED
      BY <1>0, <3>1
  <2> QED
    BY <1>0, <1>1, <2>1, <2>2, StateOfAxis
<1>2. CASE Transitions[t.events[i].type].axis # a
  <2>1. Moves(t, i, a) = Moves(t, i - 1, a)
    <3>1. \A k : k \in 1 .. i <=> (k \in 1 .. i - 1 \/ k = i)
      BY <1>0
    <3> QED
      BY <1>2, <3>1 DEF Moves
  <2> QED
    BY <1>0, <1>2, <2>1, StateOfAxis
<1> QED
  BY <1>1, <1>2

LEMMA NoMoveYet == \A t : StateAfter(t, 0) = InitialState
<1> TAKE t
<1>1. \A a \in DOMAIN Axes : Moves(t, 0, a) = {}
  BY DEF Moves
<1>2. \A a \in DOMAIN Axes : StateAfter(t, 0)[a] = Axes[a].initial
  BY <1>1, StateOfAxis
<1>3. StateAfter(t, 0) = [a \in DOMAIN Axes |-> StateAfter(t, 0)[a]]
  BY DEF StateAfter
<1> QED
  BY <1>2, <1>3 DEF InitialState

(* The vectors of an accepted trace are those its moves lead to.           *)
LEMMA VectorsFollowTheMoves ==
    ASSUME NEW t, NEW n \in Nat, DOMAIN t.events = 1 .. n, VerifyTrace(t) = "ok",
           \A i \in 1 .. n : IsEvent(t.events[i])
    PROVE  \A i \in 1 .. n : /\ t.events[i].before = StateAfter(t, i - 1)
                            /\ t.events[i].after = StateAfter(t, i)
<1> DEFINE Follows(i) == t.events[i].after = StateAfter(t, i)
           wrong == {i \in 1 .. n : ~ Follows(i)}
<1>1. ASSUME NEW i \in 1 .. n, \A j \in 1 .. n : j < i => Follows(j)
      PROVE  t.events[i].before = StateAfter(t, i - 1) /\ Follows(i)
  <2> DEFINE event == t.events[i]
             move  == Transitions[event.type]
  <2>1. /\ VectorIsSound(t, i) /\ MoveIsLegal(event) /\ event.type \in DOMAIN Transitions
    BY EventsAreChecked
  <2>2. Current(t, i) = StateAfter(t, i - 1)
    <3>1. CASE i = 1
      BY <3>1, NoMoveYet DEF Current
    <3>2. CASE i # 1
      <4>1. i - 1 \in 1 .. n /\ i - 1 < i
        BY <3>2
      <4> QED
        BY <1>1, <3>2, <4>1 DEF Current
    <3> QED
      BY <3>1, <3>2
  <2>3. event.before = StateAfter(t, i - 1)
    BY <2>1, <2>2 DEF VectorIsSound
  <2>4. DOMAIN event.after = DOMAIN Axes /\ event.after = [a \in DOMAIN Axes |-> event.after[a]]
    BY <2>1 DEF VectorIsSound, IsEvent, HasFields
  <2>5. \A a \in DOMAIN Axes : event.after[a] = StateAfter(t, i)[a]
    <3> TAKE a \in DOMAIN Axes
    <3>1. CASE move.axis = a
      <4>1. event.after[a] = move.to
        BY <2>1, <3>1 DEF MoveIsLegal
      <4> QED
        BY <3>1, <4>1, StateAfterMove
    <3>2. CASE move.axis # a
      <4>1. event.after[a] = event.before[a]
        BY <2>1, <3>2 DEF MoveIsLegal, Untouched
      <4>2. StateAfter(t, i)[a] = StateAfter(t, i - 1)[a]
        BY <3>2, StateAfterMove
      <4> QED
        BY <2>3, <4>1, <4>2
    <3> QED
      BY <3>1, <3>2
  <2>6. StateAfter(t, i) = [a \in DOMAIN Axes |-> StateAfter(t, i)[a]]
    BY DEF StateAfter
  <2> QED
    BY <2>3, <2>4, <2>5, <2>6
<1>2. ASSUME wrong # {} PROVE FALSE
  <2>1. wrong \in SUBSET Nat
    OBVIOUS
  <2>2. PICK i \in wrong : \A j \in wrong : i <= j
    BY <1>2, <2>1, LeastElement
  <2>3. \A j \in 1 .. n : j < i => Follows(j)
    BY <2>2
  <2> QED
    BY <1>1, <2>2, <2>3
<1>3. \A i \in 1 .. n : Follows(i)
  BY <1>2
<1> QED
  BY <1>1, <1>3

(* Times never go back.                                                    *)
LEMMA TimesAscend ==
    ASSUME NEW t, NEW n \in Nat, DOMAIN t.events = 1 .. n, VerifyTrace(t) = "ok",
           \A i \in 1 .. n : IsEvent(t.events[i]),
           NEW i \in 1 .. n
    PROVE  \A j \in 1 .. n : i < j => t.events[i].time <= t.events[j].time
<1> DEFINE early == {j \in 1 .. n : i < j /\ ~ (t.events[i].time <= t.events[j].time)}
<1>1. ASSUME early # {} PROVE FALSE
  <2>1. early \in SUBSET Nat
    OBVIOUS
  <2>2. PICK j \in early : \A k \in early : j <= k
    BY <1>1, <2>1, LeastElement
  <2>3. j \in 1 .. n /\ j - 1 \in 1 .. n /\ i <= j - 1 /\ ~ (j <= j - 1) /\ j # 1
    BY <2>2
  <2>4. t.events[i].time <= t.events[j - 1].time
    BY <2>2, <2>3 DEF IsEvent
  <2>5. t.events[j].time >= t.events[j - 1].time
    BY <2>3, EventsAreChecked DEF NotBefore
  <2>6. /\ t.events[i].time \in Nat /\ t.events[j].time \in Nat
        /\ t.events[j - 1].time \in Nat
    BY <2>3 DEF IsEvent
  <2> QED
    BY <2>2, <2>4, <2>5, <2>6
<1> QED
  BY <1>1

(* What the declared transitions say of anchors and origins.               *)
LEMMA DeclaredMoves ==
    ASSUME NEW type \in DOMAIN Transitions
    PROVE  /\ Transitions[type].axis = "temporal" /\ "ANCHORED" \in Transitions[type].from
                 => Transitions[type].to = "ANCHORED"
           /\ Transitions[type].axis = "temporal" /\ Transitions[type].to = "ANCHORED"
                 => Transitions[type].fields = Bound
           /\ Transitions[type].axis = "origin" => "INVALID" \notin Transitions[type].from
           /\ Transitions[type].axis = "origin" /\ Transitions[type].to = "REPRODUCIBLE"
                 => type = "VERIFY_SOURCE_SNAPSHOT" /\ Transitions[type].from = {"COMMITTED"}
           /\ Transitions[type].axis = "origin" /\ Transitions[type].to = "COMMITTED"
                 => type = "COMMIT_SOURCE_HASH"
BY DEF Transitions, Transition, Reachable, Axes

LEMMA AxesAre ==
    /\ DOMAIN Axes = {"origin", "freshness", "temporal"}
    /\ Axes["origin"].initial = "UNCOMMITTED"
    /\ Axes["temporal"].initial = "UNANCHORED"
BY DEF Axes

(* Where an axis is not as it was, some event moved it there.              *)
LEMMA LastMove ==
    ASSUME NEW t, NEW n \in Nat, NEW a \in DOMAIN Axes, StateAfter(t, n)[a] # Axes[a].initial
    PROVE  \E k \in 1 .. n : /\ Transitions[t.events[k].type].axis = a
                            /\ Transitions[t.events[k].type].to = StateAfter(t, n)[a]
<1>1. Moves(t, n, a) # {} /\ Moves(t, n, a) \in SUBSET (1 .. n)
  <2>1. Moves(t, n, a) # {}
    BY StateOfAxis
  <2> QED
    BY <2>1 DEF Moves
<1>2. Max(Moves(t, n, a)) \in Moves(t, n, a)
  BY <1>1, MaxIsGreatest
<1>3. StateAfter(t, n)[a] = Transitions[t.events[Max(Moves(t, n, a))].type].to
  BY <1>1, StateOfAxis
<1> QED
  BY <1>2, <1>3 DEF Moves

(* The history of one event of an accepted trace.                          *)
LEMMA EventIsHistory ==
    ASSUME NEW t, NEW n \in Nat, DOMAIN t.events = 1 .. n, VerifyTrace(t) = "ok",
           \A i \in 1 .. n : IsEvent(t.events[i]),
           NEW i \in 1 .. n
    PROVE  LET event == t.events[i]   after == StateAfter(t, i) IN
           /\ event.after = after
           /\ event.before.temporal = "ANCHORED" => after.temporal = "ANCHORED"
           /\ event.before.origin = "INVALID" => after.origin = "INVALID"
           /\ after.origin = "REPRODUCIBLE" =>
                 \E j, k \in 1 .. i :
                     /\ j < k /\ t.events[j].type = "COMMIT_SOURCE_HASH"
                     /\ t.events[k].type = "VERIFY_SOURCE_SNAPSHOT"
           /\ after.temporal = "ANCHORED" => \E j \in 1 .. i : Bound \subseteq t.events[j].fields
<1> DEFINE event == t.events[i]
           after == StateAfter(t, i)
           move  == Transitions[event.type]
<1>1. /\ event.type \in DOMAIN Transitions /\ MoveIsLegal(event)
      /\ event.after = after /\ event.before = StateAfter(t, i - 1)
  BY EventsAreChecked, VectorsFollowTheMoves
<1>2. /\ event.before[move.axis] \in move.from /\ after[move.axis] = move.to
      /\ \A a \in DOMAIN Axes : a # move.axis => event.before[a] = after[a]
  BY <1>1 DEF MoveIsLegal, Untouched
<1>3. event.before["temporal"] = "ANCHORED" => after["temporal"] = "ANCHORED"
  BY <1>1, <1>2, AxesAre, DeclaredMoves
<1>4. event.before["origin"] = "INVALID" => after["origin"] = "INVALID"
  BY <1>1, <1>2, AxesAre, DeclaredMoves
<1>5. ASSUME after["origin"] = "REPRODUCIBLE"
      PROVE  \E j, k \in 1 .. i : /\ j < k /\ t.events[j].type = "COMMIT_SOURCE_HASH"
                                 /\ t.events[k].type = "VERIFY_SOURCE_SNAPSHOT"
  <2>1. PICK k \in 1 .. i : /\ Transitions[t.events[k].type].axis = "origin"
                            /\ Transitions[t.events[k].type].to = "REPRODUCIBLE"
    BY <1>5, AxesAre, LastMove
  <2>2. k \in 1 .. n /\ k - 1 \in Nat
    OBVIOUS
  <2>3. /\ t.events[k].type \in DOMAIN Transitions /\ MoveIsLegal(t.events[k])
        /\ t.events[k].before = StateAfter(t, k - 1)
    BY <2>2, EventsAreChecked, VectorsFollowTheMoves
  <2>4. t.events[k].type = "VERIFY_SOURCE_SNAPSHOT"
        /\ Transitions[t.events[k].type].from = {"COMMITTED"}
    BY <2>1, <2>3, DeclaredMoves
  <2>5. StateAfter(t, k - 1)["origin"] = "COMMITTED"
    BY <2>1, <2>3, <2>4 DEF MoveIsLegal
  <2>6. PICK j \in 1 .. k - 1 : /\ Transitions[t.events[j].type].axis = "origin"
                                /\ Transitions[t.events[j].type].to = "COMMITTED"
    BY <2>2, <2>5, AxesAre, LastMove
  <2>7. j \in 1 .. n /\ j \in 1 .. i /\ j < k
    BY <2>2
  <2>8. t.events[j].type = "COMMIT_SOURCE_HASH"
    BY <2>6, <2>7, EventsAreChecked, DeclaredMoves
  <2> QED
    BY <2>4, <2>7, <2>8
<1>6. ASSUME after["temporal"] = "ANCHORED"
      PROVE  \E j \in 1 .. i : Bound \subseteq t.events[j].fields
  <2>1. PICK j \in 1 .. i : /\ Transitions[t.events[j].type].axis = "temporal"
                            /\ Transitions[t.events[j].type].to = "ANCHORED"
    BY <1>6, AxesAre, LastMove
  <2>2. j \in 1 .. n
    OBVIOUS
  <2>3. t.events[j].type \in DOMAIN Transitions /\ EvidenceIsGiven(t.events[j])
    BY <2>2, EventsAreChecked
  <2>4. Transitions[t.events[j].type].fields = Bound
    BY <2>1, <2>3, DeclaredMoves
  <2> QED
    BY <2>3, <2>4 DEF EvidenceIsGiven
<1> QED
  BY <1>1, <1>3, <1>4, <1>5, <1>6

-----------------------------------------------------------------------------
(* The chain of ids.                                                       *)

(* An id names one event, and with it the one before.                      *)
LEMMA IdNamesTheEvent ==
    ASSUME NEW e, NEW f, IsEvent(e), IsEvent(f),
           e.id = EventId(e), f.id = EventId(f), e.id = f.id
    PROVE  e = f
<1> DEFINE C(x) == [k \in DOMAIN x \ {"id"} |-> x[k]]
<1>1. DOMAIN e = EventFields /\ DOMAIN f = EventFields
  BY DEF IsEvent, HasFields
<1>2. << C(e) >> = << C(f) >>
  BY DEF EventId
<1>3. C(e) = C(f)
  BY <1>2
<1>4. \A k \in EventFields \ {"id"} : e[k] = f[k]
  <2> TAKE k \in EventFields \ {"id"}
  <2>1. C(e)[k] = e[k] /\ C(f)[k] = f[k]
    BY <1>1
  <2> QED
    BY <1>3, <2>1
<1>5. e["id"] = f["id"]
  OBVIOUS
<1>6. \A k \in EventFields : e[k] = f[k]
  BY <1>4, <1>5
<1>7. e = [k \in EventFields |-> e[k]] /\ f = [k \in EventFields |-> f[k]]
  BY DEF IsEvent, HasFields
<1> QED
  BY <1>6, <1>7

(* Events that are chained: each is shaped, identified and linked.         *)
Chained(events) ==
    \A i \in 1 .. Len(events) :
        /\ IsEvent(events[i])
        /\ events[i].id = EventId(events[i])
        /\ events[i].parent = PreviousId([events |-> events], i)

(* Two chains of the same length with the same last id are the same.       *)
LEMMA LastIdNamesTheChain ==
    ASSUME NEW S, NEW events \in Seq(S), NEW base \in Seq(S),
           NEW n \in Nat, n > 0, Len(events) = n, Len(base) = n,
           Chained(events), Chained(base), events[n].id = base[n].id
    PROVE  events = base
<1> DEFINE T == {k \in Nat : n - k \in 1 .. n /\ events[n - k] # base[n - k]}
<1>1. ASSUME NEW i \in 1 .. n, events[i].id = base[i].id
      PROVE  events[i] = base[i]
  BY <1>1, IdNamesTheEvent DEF Chained
<1>2. ASSUME NEW k \in T, \A j \in T : k <= j PROVE FALSE
  <2>1. CASE k = 0
    BY <1>1, <1>2, <2>1
  <2>2. CASE k # 0
    <3> DEFINE i == n - k
    <3>1. /\ i \in 1 .. n /\ i + 1 \in 1 .. n /\ i + 1 # 1 /\ (i + 1) - 1 = i
          /\ k - 1 \in Nat /\ n - (k - 1) = i + 1 /\ ~ (k <= k - 1)
      BY <1>2, <2>2
    <3>2. events[i + 1] = base[i + 1]
      BY <1>2, <3>1
    <3>3. events[i + 1].parent = events[i].id /\ base[i + 1].parent = base[i].id
      BY <3>1 DEF Chained, PreviousId
    <3>4. events[i] = base[i]
      BY <1>1, <3>1, <3>2, <3>3
    <3> QED
      BY <1>2, <3>4
  <2> QED
    BY <2>1, <2>2
<1>3. T = {}
  <2>1. T \in SUBSET Nat
    OBVIOUS
  <2> QED
    BY <1>2, <2>1, LeastElement
<1>4. \A i \in 1 .. n : events[i] = base[i]
  <2> TAKE i \in 1 .. n
  <2>1. n - i \in Nat /\ n - (n - i) = i
    OBVIOUS
  <2> QED
    BY <1>3, <2>1
<1> QED
  BY <1>4

-----------------------------------------------------------------------------
(* The sealed trace of the vectors.                                        *)

LEMMA SeqOfItself ==
    ASSUME NEW S, NEW s \in Seq(S)
    PROVE  s \in Seq(ToSet(s))
BY DEF ToSet

LEMMA FollowingIsEvent ==
    ASSUME NEW events, NEW type, NEW at \in Nat, NEW fields
    PROVE  LET event == Following(events, type, at, fields) IN
           /\ IsEvent(event)
           /\ event.id = EventId(event)
           /\ event.parent = PreviousId([events |-> events], Len(events) + 1)
<1> DEFINE event == Following(events, type, at, fields)
           start == Current([events |-> events], Len(events) + 1)
           move  == Transitions[type]
           after == [start EXCEPT ![move.axis] = move.to]
           draft == [seq |-> (Len(events) + 1) - 1,
                     parent |-> PreviousId([events |-> events], Len(events) + 1),
                     type |-> type, subject |-> "aaaa", evidence |-> "given",
                     before |-> start, after |-> after,
                     time |-> at, fields |-> fields, id |-> << >>]
<1>1. event = [draft EXCEPT !.id = EventId(draft)]
  BY DEF Following
<1>2. after = [a \in DOMAIN after |-> after[a]]
  OBVIOUS
<1> HIDE DEF after, start
<1>3. DOMAIN draft = EventFields /\ draft = [k \in EventFields |-> draft[k]]
  BY DEF EventFields
<1>4. draft.after = after /\ draft.time = at
      /\ draft.parent = PreviousId([events |-> events], Len(events) + 1)
  OBVIOUS
<1> HIDE DEF draft, event
<1>5. /\ DOMAIN event = EventFields /\ event = [k \in EventFields |-> event[k]]
      /\ \A k \in EventFields \ {"id"} : event[k] = draft[k]
      /\ event["id"] = EventId(draft)
  BY <1>1, <1>3 DEF EventFields
<1>6. EventId(event) = EventId(draft)
  <2>1. [k \in DOMAIN event \ {"id"} |-> event[k]] = [k \in DOMAIN draft \ {"id"} |-> draft[k]]
    BY <1>3, <1>5
  <2> QED
    BY <2>1 DEF EventId
<1>7. event.after = after /\ event.time = at
      /\ event.parent = PreviousId([events |-> events], Len(events) + 1)
  BY <1>4, <1>5 DEF EventFields
<1> QED
  BY <1>2, <1>5, <1>6, <1>7 DEF IsEvent, HasFields, event

LEMMA ChainExtended ==
    ASSUME NEW events, NEW type, events \in Seq(ToSet(events)), Chained(events)
    PROVE  LET longer == Extended(events, type) IN
           /\ longer \in Seq(ToSet(longer))
           /\ Len(longer) = Len(events) + 1
           /\ Chained(longer)
<1> DEFINE event == Following(events, type, Len(events), Transitions[type].fields)
           longer == Append(events, event)
           n == Len(events)
<1>1. n \in Nat
  OBVIOUS
<1>2. /\ IsEvent(event) /\ event.id = EventId(event)
      /\ event.parent = PreviousId([events |-> events], n + 1)
  BY <1>1, FollowingIsEvent
<1> HIDE DEF event
<1>3. /\ longer \in Seq(ToSet(events) \cup {event}) /\ Len(longer) = n + 1
      /\ \A i \in 1 .. n : longer[i] = events[i]
      /\ longer[n + 1] = event
  OBVIOUS
<1> HIDE DEF longer
<1>4. longer \in Seq(ToSet(longer))
  BY <1>3, SeqOfItself
<1>5. \A i \in 1 .. n + 1 : PreviousId([events |-> longer], i) = PreviousId([events |-> events], i)
  <2> TAKE i \in 1 .. n + 1
  <2>1. CASE i = 1
    BY <2>1 DEF PreviousId
  <2>2. CASE i # 1
    <3>1. i - 1 \in 1 .. n
      BY <1>1, <2>2
    <3> QED
      BY <1>3, <2>2, <3>1 DEF PreviousId
  <2> QED
    BY <2>1, <2>2
<1>6. ASSUME NEW i \in 1 .. n + 1
      PROVE  /\ IsEvent(longer[i]) /\ longer[i].id = EventId(longer[i])
             /\ longer[i].parent = PreviousId([events |-> longer], i)
  <2>1. CASE i \in 1 .. n
    BY <1>3, <1>5, <2>1 DEF Chained
  <2>2. CASE i = n + 1
    BY <1>2, <1>3, <1>5, <2>2
  <2>3. i \in 1 .. n \/ i = n + 1
    BY <1>1
  <2> QED
    BY <2>1, <2>2, <2>3
<1>7. Chained(longer)
  BY <1>3, <1>6 DEF Chained
<1> QED
  BY <1>3, <1>4, <1>7 DEF Extended, longer, event

LEMMA BaseIsChained ==
    /\ BaseEvents \in Seq(ToSet(BaseEvents)) /\ Len(BaseEvents) = 5 /\ Chained(BaseEvents)
<1> DEFINE Good(events, n) == events \in Seq(ToSet(events)) /\ Len(events) = n /\ Chained(events)
           none      == << >>
           committed == Extended(none, "COMMIT_SOURCE_HASH")
           verified  == Extended(committed, "VERIFY_SOURCE_SNAPSHOT")
           fresh     == Extended(verified, "CHECK_SOURCE_FRESH")
           submitted == Extended(fresh, "SUBMIT_OTS")
           anchored  == Extended(submitted, "VERIFY_OTS_SUCCESS")
<1>1. \A events, type : \A n \in Nat : Good(events, n) => Good(Extended(events, type), n + 1)
  BY ChainExtended
<1>2. Good(none, 0)
  BY DEF Chained, ToSet
<1> HIDE DEF Good, none
<1>3. Good(committed, 0 + 1)
  BY <1>1, <1>2
<1> HIDE DEF committed
<1>4. Good(verified, 0 + 1 + 1)
  BY <1>1, <1>3
<1> HIDE DEF verified
<1>5. Good(fresh, 0 + 1 + 1 + 1)
  BY <1>1, <1>4
<1> HIDE DEF fresh
<1>6. Good(submitted, 0 + 1 + 1 + 1 + 1)
  BY <1>1, <1>5
<1> HIDE DEF submitted
<1>7. Good(anchored, 0 + 1 + 1 + 1 + 1 + 1)
  BY <1>1, <1>6
<1>8. BaseEvents = anchored
  BY DEF BaseEvents, anchored, submitted, fresh, verified, committed, none
<1> QED
  BY <1>7, <1>8 DEF Good

-----------------------------------------------------------------------------
(* What an edit leaves of the shape of a trace.                            *)

LEMMA EventsReplaced ==
    ASSUME NEW t, IsTrace(t), NEW S, NEW events \in Seq(S),
           \A i \in 1 .. Len(events) : IsEvent(events[i])
    PROVE  IsTrace([t EXCEPT !.events = events])
<1> DEFINE u == [t EXCEPT !.events = events]
<1>1. u = [f \in {"subject", "events", "seal"} |-> u[f]] /\ u.events = events
  BY DEF IsTrace, HasFields
<1>2. events \in Seq(ToSet(events))
  BY SeqOfItself
<1>3. \A event \in ToSet(events) : IsEvent(event)
  BY DEF ToSet
<1> HIDE DEF u
<1> QED
  BY <1>1, <1>2, <1>3 DEF IsTrace, HasFields

LEMMA EventReplaced ==
    ASSUME NEW t, IsTrace(t), NEW i \in DOMAIN t.events, NEW event, IsEvent(event)
    PROVE  IsTrace([t EXCEPT !.events = [t.events EXCEPT ![i] = event]])
<1> DEFINE events == [t.events EXCEPT ![i] = event]
<1>1. events \in Seq(ToSet(t.events) \cup {event}) /\ Len(events) = Len(t.events)
  BY DEF IsTrace
<1>2. \A k \in 1 .. Len(events) : IsEvent(events[k])
  <2> TAKE k \in 1 .. Len(events)
  <2>1. CASE k = i
    BY <1>1, <2>1 DEF IsTrace
  <2>2. CASE k # i
    <3>1. events[k] = t.events[k] /\ k \in DOMAIN t.events
      BY <1>1, <2>2 DEF IsTrace
    <3> QED
      BY <3>1 DEF IsTrace, ToSet
  <2> QED
    BY <2>1, <2>2
<1>3. ASSUME NEW S, NEW es \in Seq(S), \A k \in 1 .. Len(es) : IsEvent(es[k])
      PROVE  IsTrace([t EXCEPT !.events = es])
  BY <1>3, EventsReplaced
<1> HIDE DEF events
<1> QED
  BY <1>1, <1>2, <1>3 DEF events

LEMMA EventOfTrace ==
    ASSUME NEW t, IsTrace(t), NEW i \in DOMAIN t.events
    PROVE  IsEvent(t.events[i])
BY DEF IsTrace, ToSet

LEMMA FieldReplaced ==
    ASSUME NEW event, IsEvent(event), NEW field \in EventFields \ {"after"}, NEW v,
           field = "time" => v \in Nat
    PROVE  IsEvent([event EXCEPT ![field] = v])
<1> DEFINE e == [event EXCEPT ![field] = v]
<1>1. e = [f \in EventFields |-> e[f]]
  BY DEF IsEvent, HasFields
<1>2. e["after"] = event["after"] /\ e["time"] \in Nat
  BY DEF IsEvent, HasFields, EventFields
<1> HIDE DEF e
<1>3. HasFields(e.after, DOMAIN e.after)
  BY <1>2 DEF IsEvent
<1> QED
  BY <1>1, <1>2, <1>3 DEF IsEvent, HasFields

LEMMA AfterReplaced ==
    ASSUME NEW event, IsEvent(event), NEW after, after = [a \in DOMAIN after |-> after[a]]
    PROVE  IsEvent([event EXCEPT !.after = after])
<1> DEFINE e == [event EXCEPT !.after = after]
<1>1. e = [f \in EventFields |-> e[f]]
  BY DEF IsEvent, HasFields
<1>2. e["after"] = after /\ e["time"] = event["time"]
  BY DEF IsEvent, HasFields, EventFields
<1> HIDE DEF e
<1> QED
  BY <1>1, <1>2 DEF IsEvent, HasFields

LEMMA FieldIsSet ==
    ASSUME NEW t, IsTrace(t), NEW i \in DOMAIN t.events,
           NEW field \in EventFields \ {"after"}, NEW v, field = "time" => v \in Nat
    PROVE  IsTrace(SetField(t, i, field, v))
<1> DEFINE event == [t.events[i] EXCEPT ![field] = v]
<1>1. IsEvent(event)
  BY EventOfTrace, FieldReplaced
<1>2. SetField(t, i, field, v) = [t EXCEPT !.events = [t.events EXCEPT ![i] = event]]
  BY DEF SetField
<1> HIDE DEF event
<1> QED
  BY <1>1, <1>2, EventReplaced

LEMMA AfterIsSet ==
    ASSUME NEW t, IsTrace(t), NEW i \in DOMAIN t.events, NEW axis
    PROVE  /\ \A state : IsTrace(SetAxis(t, i, axis, state))
           /\ IsTrace(DeleteAxis(t, i, axis))
<1> DEFINE Event(after) == [t.events[i] EXCEPT !.after = after]
<1>1. ASSUME NEW after, after = [a \in DOMAIN after |-> after[a]]
      PROVE  IsTrace([t EXCEPT !.events = [t.events EXCEPT ![i] = Event(after)]])
  <2>1. IsEvent(Event(after))
    BY <1>1, EventOfTrace, AfterReplaced
  <2> QED
    BY <2>1, EventReplaced
<1>2. ASSUME NEW state PROVE IsTrace(SetAxis(t, i, axis, state))
  <2> DEFINE after == [t.events[i].after EXCEPT ![axis] = state]
  <2>1. after = [a \in DOMAIN after |-> after[a]]
    OBVIOUS
  <2>2. SetAxis(t, i, axis, state) = [t EXCEPT !.events = [t.events EXCEPT ![i] = Event(after)]]
    BY DEF SetAxis
  <2> HIDE DEF after
  <2> QED
    BY <1>1, <2>1, <2>2
<1>3. IsTrace(DeleteAxis(t, i, axis))
  <2> DEFINE after == [a \in DOMAIN t.events[i].after \ {axis} |-> t.events[i].after[a]]
  <2>1. after = [a \in DOMAIN after |-> after[a]]
    OBVIOUS
  <2>2. DeleteAxis(t, i, axis) = [t EXCEPT !.events = [t.events EXCEPT ![i] = Event(after)]]
    BY DEF DeleteAxis
  <2> HIDE DEF after
  <2> QED
    BY <1>1, <2>1, <2>2
<1> QED
  BY <1>2, <1>3

LEMMA EventsAddedOrCut ==
    ASSUME NEW t, IsTrace(t)
    PROVE  /\ \A event : IsEvent(event) => IsTrace(AppendEvent(t, event))
           /\ \A count \in 0 .. Len(t.events) - 1 : IsTrace(TruncateEvents(t, count))
<1>1. ASSUME NEW event, IsEvent(event) PROVE IsTrace(AppendEvent(t, event))
  <2> DEFINE events == Append(t.events, event)
             n == Len(t.events)
  <2>1. /\ events \in Seq(ToSet(t.events) \cup {event}) /\ Len(events) = n + 1 /\ n \in Nat
        /\ events[n + 1] = event /\ \A k \in 1 .. n : events[k] = t.events[k]
    BY DEF IsTrace
  <2> HIDE DEF events
  <2>2. \A k \in 1 .. n : IsEvent(t.events[k])
    BY EventOfTrace DEF IsTrace
  <2>3. \A k \in 1 .. Len(events) : k \in 1 .. n \/ k = n + 1
    BY <2>1
  <2>4. \A k \in 1 .. Len(events) : IsEvent(events[k])
    BY <1>1, <2>1, <2>2, <2>3
  <2> QED
    BY <2>1, <2>4, EventsReplaced DEF AppendEvent, events
<1>2. ASSUME NEW count \in 0 .. Len(t.events) - 1 PROVE IsTrace(TruncateEvents(t, count))
  <2> DEFINE events == SubSeq(t.events, 1, count)
  <2>1. /\ events \in Seq(ToSet(t.events)) /\ Len(events) = count
        /\ \A k \in 1 .. count : events[k] = t.events[k] /\ k \in DOMAIN t.events
    BY DEF IsTrace
  <2> HIDE DEF events
  <2>2. \A k \in 1 .. Len(events) : IsEvent(events[k])
    BY <2>1, EventOfTrace
  <2> QED
    BY <2>1, <2>2, EventsReplaced DEF TruncateEvents, events
<1> QED
  BY <1>1, <1>2

(* No edit of the seal touches the events.                                 *)
LEMMA SealReplaced ==
    ASSUME NEW t, IsTrace(t), NEW seal
    PROVE  IsTrace([t EXCEPT !.seal = seal])
<1> DEFINE u == [t EXCEPT !.seal = seal]
<1>1. u = [f \in {"subject", "events", "seal"} |-> u[f]] /\ u.events = t.events
  BY DEF IsTrace, HasFields
<1> HIDE DEF u
<1> QED
  BY <1>1 DEF IsTrace, HasFields

LEMMA SealIsSet ==
    ASSUME NEW t, IsTrace(t)
    PROVE  /\ \A field, v : IsTrace(SetSealField(t, field, v))
           /\ IsTrace(DeleteSeal(t))
           /\ IsTrace(RecomputeSealId(t))
<1>1. ASSUME NEW field, NEW v PROVE IsTrace(SetSealField(t, field, v))
  <2> DEFINE seal == [t.seal EXCEPT ![1] = [t.seal[1] EXCEPT ![field] = v]]
  <2>1. SetSealField(t, field, v) = [t EXCEPT !.seal = seal]
    BY DEF SetSealField
  <2> HIDE DEF seal
  <2> QED
    BY <2>1, SealReplaced
<1>2. IsTrace(DeleteSeal(t))
  BY SealReplaced DEF DeleteSeal
<1>3. RecomputeSealId(t) = SetSealField(t, "id", SealId(t.seal[1]))
  BY DEF RecomputeSealId, SetSealField
<1> QED
  BY <1>1, <1>2, <1>3

LEMMA BaseIsTrace == IsTrace(BaseTrace)
<1>1. /\ BaseTrace = [f \in {"subject", "events", "seal"} |-> BaseTrace[f]]
      /\ BaseTrace.events = BaseEvents
  BY DEF BaseTrace
<1>2. \A event \in ToSet(BaseEvents) : IsEvent(event)
  BY BaseIsChained DEF Chained, ToSet
<1> QED
  BY <1>1, <1>2, BaseIsChained DEF IsTrace, HasFields

LEMMA EditKeepsTrace == IsTrace(trace) /\ EditTrace => IsTrace(trace')
<1> SUFFICES ASSUME IsTrace(trace), EditTrace PROVE IsTrace(trace')
  OBVIOUS
<1>1. ASSUME NEW i \in DOMAIN trace.events, NEW field \in DOMAIN EventValues,
             NEW v \in EventValues[field], trace' = SetField(trace, i, field, v)
      PROVE  IsTrace(trace')
  <2>1. field \in EventFields \ {"after"} /\ (field = "time" => v \in Nat)
    <3>1. field \in {"seq", "parent", "subject", "type", "time", "evidence", "fields", "id"}
          /\ EventValues["time"] = {0, 9}
      BY DEF EventValues
    <3> QED
      BY <3>1 DEF EventFields
  <2> QED
    BY <1>1, <2>1, FieldIsSet
<1>2. ASSUME NEW i \in DOMAIN trace.events, NEW axis,
             \/ \E state \in Axes[axis].states : trace' = SetAxis(trace, i, axis, state)
             \/ trace' = DeleteAxis(trace, i, axis)
      PROVE  IsTrace(trace')
  BY <1>2, AfterIsSet
<1>3. ASSUME NEW event \in LaterEvents, trace' = AppendEvent(trace, event)
      PROVE  IsTrace(trace')
  <2>1. Len(BaseEvents) \in Nat
    BY BaseIsChained
  <2>2. IsEvent(event)
    BY <2>1, FollowingIsEvent DEF LaterEvents
  <2> QED
    BY <1>3, <2>2, EventsAddedOrCut
<1>4. ASSUME NEW count \in 0 .. Len(trace.events) - 1, trace' = TruncateEvents(trace, count)
      PROVE  IsTrace(trace')
  BY <1>4, EventsAddedOrCut
<1>5. ASSUME NEW field, NEW v, trace' = SetSealField(trace, field, v) PROVE IsTrace(trace')
  BY <1>5, SealIsSet
<1>6. ASSUME trace' = DeleteSeal(trace) PROVE IsTrace(trace')
  BY <1>6, SealIsSet
<1> QED
  BY <1>1, <1>2, <1>3, <1>4, <1>5, <1>6 DEF EditTrace

LEMMA RecomputeKeepsTrace == IsTrace(trace) /\ RecomputeTrace => IsTrace(trace')
<1> SUFFICES ASSUME IsTrace(trace), RecomputeTrace PROVE IsTrace(trace')
  OBVIOUS
<1>1. ASSUME NEW t, IsTrace(t), NEW i \in DOMAIN t.events PROVE IsTrace(RecomputeEventId(t, i))
  <2>1. RecomputeEventId(t, i) = SetField(t, i, "id", EventId(t.events[i]))
    BY DEF RecomputeEventId, SetField
  <2>2. "id" \in EventFields \ {"after"} /\ "id" # "time"
    BY DEF EventFields
  <2> QED
    BY <1>1, <2>1, <2>2, FieldIsSet
<1>2. ASSUME NEW i \in DOMAIN trace.events PROVE IsTrace(Relinked(trace, i))
  <2> DEFINE t == SetField(trace, i, "parent", PreviousId(trace, i))
  <2>1. IsTrace(t)
    BY FieldIsSet DEF EventFields
  <2>2. i \in DOMAIN t.events
    BY DEF SetField, IsTrace, HasFields
  <2> HIDE DEF t
  <2>3. IsTrace(RecomputeEventId(t, i))
    BY <1>1, <2>1, <2>2
  <2> QED
    BY <2>3 DEF Relinked, t
<1>3. IsTrace(RecomputeSealId(trace)) /\ IsTrace(Resealed(trace))
  BY SealIsSet DEF Resealed
<1> QED
  BY <1>1, <1>2, <1>3 DEF RecomputeTrace

-----------------------------------------------------------------------------
(* What an edit leaves of the shape of a case.                             *)

LEMMA CaseIsCase ==
    ASSUME NEW decision, NEW reasons, NEW expires \in Int, NEW reversibility, NEW approval,
           NEW handoff, NEW reported,
           handoff # << >> => \E o, j, k : /\ handoff = << [observation |-> o, join |-> j,
                                                           integrity |-> k] >>
                                           /\ o.at \in Int,
           reported # << >> => \E r \in Int : reported = << r >>
    PROVE  IsCase(Case(decision, reasons, expires, reversibility, approval, handoff, reported))
<1> DEFINE c == Case(decision, reasons, expires, reversibility, approval, handoff, reported)
<1>1. /\ {"action", "binding", "decision", "handoff", "reported", "expected"} \subseteq DOMAIN c
      /\ "reversibility" \in DOMAIN c.action /\ "approval" \in DOMAIN c.binding
      /\ c.handoff = handoff /\ c.reported = reported
      /\ c.decision.issued = 1 /\ c.decision.expires = << expires >>
  BY DEF Case
<1>2. DOMAIN DecisionValues \subseteq DOMAIN c.decision
  BY DEF Case, DecisionValues
<1> HIDE DEF c
<1>3. \A t \in ToSet(c.decision.expires) \cup ToSet(c.reported) : t \in Int
  BY <1>1 DEF ToSet
<1>4. c.reported # << >> => c.reported = << c.reported[1] >>
  BY <1>1
<1>5. ASSUME c.handoff # << >>
      PROVE  /\ c.handoff = << c.handoff[1] >>
             /\ {"observation", "join"} \subseteq DOMAIN c.handoff[1]
             /\ c.handoff[1].observation.at \in Int
  <2>1. PICK o, j, k : /\ handoff = << [observation |-> o, join |-> j, integrity |-> k] >>
                       /\ o.at \in Int
    BY <1>1, <1>5
  <2> QED
    BY <1>1, <2>1
<1> QED
  BY <1>1, <1>2, <1>3, <1>4, <1>5 DEF IsCase, c

LEMMA BaseIsCase ==
    /\ \A c \in BaseCases : IsCase(c)
    /\ IsCase(Case("ACCEPT", {"POLICY_MATCH"}, 10, "reversible", << >>, << >>, << >>))
<1>1. \A decision, reasons, reversibility : \A expires \in Int :
          IsCase(Case(decision, reasons, expires, reversibility, << >>, << >>, << >>))
  BY CaseIsCase
<1>2. ASSUME NEW at \in Int, NEW join, NEW integrity, NEW expires \in Int, NEW reported \in Int
      PROVE  IsCase(Case("ACCEPT", {"POLICY_MATCH"}, expires, "irreversible", << "human" >>,
                         Handoff(at, join, integrity), << reported >>))
  <2>1. \E o, j, k : /\ Handoff(at, join, integrity) = << [observation |-> o, join |-> j,
                                                           integrity |-> k] >>
                     /\ o.at \in Int
    <3> DEFINE o == [status |-> "EXECUTED", at |-> at]
    <3>1. Handoff(at, join, integrity) = << [observation |-> o, join |-> join,
                                            integrity |-> integrity] >> /\ o.at \in Int
      BY DEF Handoff
    <3> HIDE DEF o
    <3> QED
      BY <3>1
  <2> QED
    BY <2>1, CaseIsCase
<1> QED
  BY <1>1, <1>2 DEF BaseCases

LEMMA EditKeepsCase == IsCase(case) /\ EditCase => IsCase(case')
<1> SUFFICES ASSUME IsCase(case), EditCase PROVE IsCase(case')
  OBVIOUS
<1>1. ASSUME NEW field \in DOMAIN DecisionValues, NEW v \in DecisionValues[field],
             case' = [case EXCEPT !.decision = [case.decision EXCEPT ![field] = v]]
      PROVE  IsCase(case')
  <2>1. /\ field = "issued" => v \in Int
        /\ field = "expires" => \A t \in ToSet(v) : t \in Int
    BY DEF DecisionValues, ToSet
  <2>2. /\ DOMAIN case' = DOMAIN case /\ DOMAIN case'.decision = DOMAIN case.decision
        /\ case'.action = case.action /\ case'.binding = case.binding
        /\ case'.handoff = case.handoff /\ case'.reported = case.reported
        /\ case'.decision = [case.decision EXCEPT ![field] = v]
    BY <1>1 DEF IsCase
  <2>3. "issued" \in DOMAIN case.decision /\ "expires" \in DOMAIN case.decision
    BY DEF IsCase, DecisionValues
  <2>4. case'.decision.issued \in Int
    BY <2>1, <2>2, <2>3 DEF IsCase
  <2>5. \A t \in ToSet(case'.decision.expires) : t \in Int
    BY <2>1, <2>2, <2>3 DEF IsCase
  <2> QED
    BY <2>2, <2>4, <2>5 DEF IsCase
<1>2. ASSUME NEW v, \/ case' = [case EXCEPT !.action.reversibility = v]
                    \/ case' = [case EXCEPT !.binding.approval = v]
      PROVE  IsCase(case')
  <2>1. /\ DOMAIN case' = DOMAIN case
        /\ DOMAIN case'.action = DOMAIN case.action /\ DOMAIN case'.binding = DOMAIN case.binding
        /\ case'.decision = case.decision
        /\ case'.handoff = case.handoff /\ case'.reported = case.reported
    BY <1>2 DEF IsCase
  <2> QED
    BY <2>1 DEF IsCase
<1>3. ASSUME NEW v \in {<< >>, << 3 >>, << 6 >>}, case' = [case EXCEPT !.reported = v]
      PROVE  IsCase(case')
  <2>1. /\ DOMAIN case' = DOMAIN case /\ case'.reported = v
        /\ case'.action = case.action /\ case'.binding = case.binding
        /\ case'.decision = case.decision /\ case'.handoff = case.handoff
    BY <1>3 DEF IsCase
  <2>2. (\A t \in ToSet(v) : t \in Int) /\ (v # << >> => v = << v[1] >>)
    BY DEF ToSet
  <2> QED
    BY <2>1, <2>2 DEF IsCase
<1>4. ASSUME NEW h, case' = [case EXCEPT !.handoff = h],
             h # << >> => /\ h = << h[1] >> /\ {"observation", "join"} \subseteq DOMAIN h[1]
                          /\ h[1].observation.at \in Int
      PROVE  IsCase(case')
  <2>1. /\ DOMAIN case' = DOMAIN case /\ case'.handoff = h
        /\ case'.action = case.action /\ case'.binding = case.binding
        /\ case'.decision = case.decision /\ case'.reported = case.reported
    BY <1>4 DEF IsCase
  <2> QED
    BY <1>4, <2>1 DEF IsCase
<1>5. ASSUME case.handoff # << >>, NEW field \in {"observation", "join"}, NEW v,
             field = "observation" => v.at \in Int,
             case' = [case EXCEPT !.handoff = [case.handoff EXCEPT
                                     ![1] = [case.handoff[1] EXCEPT ![field] = v]]]
      PROVE  IsCase(case')
  <2> DEFINE g == case.handoff[1]
             h == [case.handoff EXCEPT ![1] = [g EXCEPT ![field] = v]]
  <2>1. /\ case.handoff = << g >> /\ {"observation", "join"} \subseteq DOMAIN g
        /\ g.observation.at \in Int
    BY <1>5 DEF IsCase
  <2>2. h = << [g EXCEPT ![field] = v] >>
    BY <2>1
  <2>3. [g EXCEPT ![field] = v].observation.at \in Int
    BY <1>5, <2>1
  <2>4. h = << h[1] >> /\ {"observation", "join"} \subseteq DOMAIN h[1]
        /\ h[1].observation.at \in Int
    BY <2>1, <2>2, <2>3
  <2>5. case' = [case EXCEPT !.handoff = h]
    BY <1>5
  <2> HIDE DEF h
  <2> QED
    BY <1>4, <2>4, <2>5
<1>6. \A o \in Observations : o.at \in Int
  BY DEF Observations
<1> QED
  BY <1>1, <1>2, <1>3, <1>4, <1>5, <1>6 DEF EditCase

LEMMA RecomputeKeepsCase == IsCase(case) /\ RecomputeCase => IsCase(case')
<1> SUFFICES ASSUME IsCase(case), RecomputeCase PROVE IsCase(case')
  OBVIOUS
<1> DEFINE Intrinsic(state) == [case EXCEPT !.decision = [case.decision EXCEPT !.current = state]]
<1>1. PICK state, derived : case' = [Intrinsic(state) EXCEPT !.expected = derived]
  BY DEF RecomputeCase
<1>2. /\ DOMAIN Intrinsic(state) = DOMAIN case
      /\ Intrinsic(state).decision = [case.decision EXCEPT !.current = state]
      /\ Intrinsic(state).action = case.action /\ Intrinsic(state).binding = case.binding
      /\ Intrinsic(state).handoff = case.handoff /\ Intrinsic(state).reported = case.reported
  BY DEF IsCase
<1> HIDE DEF Intrinsic
<1>3. /\ DOMAIN case' = DOMAIN case
      /\ case'.decision = [case.decision EXCEPT !.current = state]
      /\ case'.action = case.action /\ case'.binding = case.binding
      /\ case'.handoff = case.handoff /\ case'.reported = case.reported
  BY <1>1, <1>2 DEF IsCase
<1>4. /\ DOMAIN case'.decision = DOMAIN case.decision
      /\ case'.decision.issued = case.decision.issued
      /\ case'.decision.expires = case.decision.expires
  BY <1>3 DEF IsCase
<1> QED
  BY <1>3, <1>4 DEF IsCase

-----------------------------------------------------------------------------
(* What an edit leaves of the shape of the fixtures.                       *)

LEMMA EntriesStayASequence ==
    EntriesInv /\ (EditEntries \/ RecomputeEntries) => EntriesInv'
<1> DEFINE n == Len(entries)
<1> SUFFICES ASSUME EntriesInv, EditEntries \/ RecomputeEntries
             PROVE  \E S : entries' \in Seq(S)
  BY SeqOfItself DEF EntriesInv
<1>1. /\ entries \in Seq(ToSet(entries)) /\ n \in Nat /\ DOMAIN entries = 1 .. n
  BY DEF EntriesInv
<1>2. ASSUME NEW i \in DOMAIN entries, NEW e, entries' = [entries EXCEPT ![i] = e]
      PROVE  entries' \in Seq(ToSet(entries) \cup {e})
  BY <1>1, <1>2
<1>3. ASSUME NEW i \in DOMAIN entries, entries' = RemoveAt(entries, i)
      PROVE  entries' \in Seq(ToSet(entries))
  BY <1>1, <1>3 DEF RemoveAt
<1>4. ASSUME NEW i \in DOMAIN entries, i > 1,
             entries' = [entries EXCEPT ![i] = entries[i - 1], ![i - 1] = entries[i]]
      PROVE  entries' \in Seq(ToSet(entries))
  <2>1. i - 1 \in DOMAIN entries /\ entries[i] \in ToSet(entries) /\ entries[i - 1] \in ToSet(entries)
    BY <1>1, <1>4 DEF ToSet
  <2> QED
    BY <1>1, <1>4, <2>1
<1> QED
  BY <1>2, <1>3, <1>4 DEF EditEntries, RecomputeEntries

(* However often a document is edited, it keeps its shape.                 *)
THEOREM ShapesAreKept == Spec => []IInv
<1>1. Init => IInv
  <2>1. BaseEntries \in Seq(ToSet(BaseEntries))
    BY DEF BaseEntries, ToSet
  <2> QED
    BY <2>1, BaseIsTrace, BaseIsCase DEF Init, IInv, TraceInv, EntriesInv, CaseInv
<1>2. IInv /\ [Next]_vars => IInv'
  <2> SUFFICES ASSUME IsTrace(trace), EntriesInv, IsCase(case), [Next]_vars
               PROVE  IsTrace(trace') /\ EntriesInv' /\ IsCase(case')
    BY DEF IInv, TraceInv, CaseInv
  <2>1. CASE EditTrace
    BY <2>1, EditKeepsTrace DEF EditTrace, EntriesInv
  <2>2. CASE RecomputeTrace
    BY <2>2, RecomputeKeepsTrace DEF RecomputeTrace, EntriesInv
  <2>3. CASE EditEntries
    BY <2>3, EntriesStayASequence DEF EditEntries
  <2>4. CASE RecomputeEntries
    BY <2>4, EntriesStayASequence DEF RecomputeEntries
  <2>5. CASE EditCase
    BY <2>5, EditKeepsCase DEF EditCase, EntriesInv
  <2>6. CASE RecomputeCase
    BY <2>6, RecomputeKeepsCase DEF RecomputeCase, EntriesInv
  <2>7. CASE UNCHANGED vars
    BY <2>7 DEF vars, EntriesInv
  <2> QED
    BY <2>1, <2>2, <2>3, <2>4, <2>5, <2>6, <2>7 DEF Next
<1> QED
  BY <1>1, <1>2, PTL DEF Spec

-----------------------------------------------------------------------------
(* What is accepted.                                                       *)

(* An accepted trace under the seal of the vectors is their trace.         *)
LEMMA OneTraceUnderTheSeal ==
    ASSUME NEW t, IsTrace(t), VerifyTrace(t) = "ok", t.seal = BaseTrace.seal
    PROVE  t = BaseTrace
<1> DEFINE n == Len(t.events)
           base == BaseEvents
<1>1. n \in Nat /\ t.events \in Seq(ToSet(t.events)) /\ DOMAIN t.events = 1 .. n
  BY DEF IsTrace
<1>2. PICK seal : /\ t.seal = << seal >> /\ seal.subject = "aaaa" /\ seal.total = Len(base)
                  /\ seal.terminal = Last(base).id
  BY DEF BaseTrace
<1>3. seal \in ToSet(t.seal)
  BY <1>2 DEF ToSet
<1>4. /\ t.subject = "aaaa" /\ n = 5 /\ Last(base).id = PreviousId(t, n + 1)
  BY <1>1, <1>2, <1>3, SealIsChecked, BaseIsChained
<1>5. t.events[5].id = base[5].id
  BY <1>4, BaseIsChained DEF PreviousId, Last
<1>6. Chained(t.events)
  <2> SUFFICES ASSUME NEW i \in 1 .. n
               PROVE  /\ IsEvent(t.events[i]) /\ t.events[i].id = EventId(t.events[i])
                      /\ t.events[i].parent = PreviousId([events |-> t.events], i)
    BY DEF Chained
  <2>1. PreviousId([events |-> t.events], i) = PreviousId(t, i)
    BY DEF PreviousId
  <2> QED
    BY <1>1, <2>1, EventOfTrace, EventsAreChecked
<1>7. t.events = base
  <2> DEFINE S == ToSet(t.events) \cup ToSet(base)
  <2>1. t.events \in Seq(S) /\ base \in Seq(S)
    BY <1>1, BaseIsChained
  <2> HIDE DEF S
  <2> QED
    BY <1>4, <1>5, <1>6, <2>1, BaseIsChained, LastIdNamesTheChain
<1>8. /\ BaseTrace = [f \in {"subject", "events", "seal"} |-> BaseTrace[f]]
      /\ BaseTrace["subject"] = "aaaa" /\ BaseTrace["events"] = base
  BY DEF BaseTrace
<1>9. t = [f \in {"subject", "events", "seal"} |-> t[f]]
  BY DEF IsTrace, HasFields
<1> QED
  BY <1>4, <1>7, <1>8, <1>9

(* A trace that verifies is the history of its subject: its vectors are    *)
(* what its declared moves lead to, anchors are kept and rest on a bound,  *)
(* times ascend, and under the seal it was given it is the sealed trace.   *)
THEOREM AcceptedTraceIsHistory == Spec => []SealedTraceIsTheHistory
<1>1. IInv => SealedTraceIsTheHistory
  <2> SUFFICES ASSUME IsTrace(trace), VerifyTrace(trace) = "ok"
               PROVE  SealedTraceIsTheHistory
    BY DEF IInv, TraceInv, SealedTraceIsTheHistory
  <2> DEFINE n == Len(trace.events)
  <2>1. n \in Nat /\ DOMAIN trace.events = 1 .. n /\ \A i \in 1 .. n : IsEvent(trace.events[i])
    BY EventOfTrace DEF IsTrace
  <2>2. \A i, j \in DOMAIN trace.events :
            i < j => trace.events[i].time <= trace.events[j].time
    BY <2>1, TimesAscend
  <2>3. trace.seal = BaseTrace.seal => trace = BaseTrace
    BY OneTraceUnderTheSeal
  <2>4. \A i \in DOMAIN trace.events :
            LET event == trace.events[i]   after == StateAfter(trace, i) IN
            /\ event.after = after
            /\ event.before.temporal = "ANCHORED" => after.temporal = "ANCHORED"
            /\ event.before.origin = "INVALID" => after.origin = "INVALID"
            /\ after.origin = "REPRODUCIBLE" =>
                  \E j, k \in 1 .. i :
                      /\ j < k /\ trace.events[j].type = "COMMIT_SOURCE_HASH"
                      /\ trace.events[k].type = "VERIFY_SOURCE_SNAPSHOT"
            /\ after.temporal = "ANCHORED" =>
                  \E j \in 1 .. i : Bound \subseteq trace.events[j].fields
    BY <2>1, EventIsHistory
  <2> QED
    BY <2>2, <2>3, <2>4 DEF SealedTraceIsTheHistory
<1> QED
  BY <1>1, ShapesAreKept, PTL

(* What verify_handoff() has checked of the handoff of an accepted case.   *)
LEMMA HandoffIsChecked ==
    ASSUME NEW c, IsCase(c), Verified(c), NEW h \in ToSet(c.handoff)
    PROVE  /\ c.reported # << >>
           /\ h = c.handoff[1]
           /\ ObservedUnder(AuthorizationRecord(c), h.observation, c.reported[1])
           /\ h.join = DerivedJoin(Derived(c).state, h.integrity)
<1>1. c.handoff # << >>
  BY DEF ToSet
<1>2. c.handoff = << c.handoff[1] >>
  BY <1>1 DEF IsCase
<1>3. h = c.handoff[1]
  BY <1>2 DEF ToSet
<1>4. HandoffHolds(c)
  BY DEF Verified
<1> QED
  BY <1>1, <1>3, <1>4 DEF HandoffHolds

(* The report allows what is live: an ACCEPT, unconsumed, not expired.     *)
LEMMA LiveRecords ==
    ASSUME NEW c, IsCase(c)
    PROVE  LET record == AuthorizationRecord(c) IN
           /\ c.decision.decision = "ACCEPT" /\ c.decision.consumption = "UNCONSUMED"
                 => ReportState(record, c.reported) =
                       IF Expired(c) THEN "EXPIRED_AT_REPORT" ELSE "ACTIVE"
           /\ Vocabulary(c) /\ ReportState(record, c.reported) = "EXPIRED_AT_REPORT"
                 => /\ c.decision.decision = "ACCEPT" /\ c.decision.consumption = "UNCONSUMED"
                    /\ Expired(c)
<1> DEFINE record == AuthorizationRecord(c)
<1>1. /\ record.decision = c.decision.decision /\ record.expires = c.decision.expires
      /\ record.consumption = c.decision.consumption
  BY DEF AuthorizationRecord
<1> HIDE DEF record
<1>2. Expired(c) <=> \E t \in ToSet(c.reported) : After(t, record.expires)
  BY <1>1 DEF Expired, After
<1>3. record.decision = "ACCEPT" /\ record.consumption = "UNCONSUMED"
         => IntrinsicState(record) = "ACTIVE"
  BY DEF IntrinsicState
<1>4. Vocabulary(c) /\ IntrinsicState(record) = "ACTIVE"
         => record.decision = "ACCEPT" /\ record.consumption = "UNCONSUMED"
  BY <1>1 DEF IntrinsicState, Vocabulary
<1>5. IntrinsicState(record) # "EXPIRED_AT_REPORT"
  BY DEF IntrinsicState
<1>6. ReportState(record, c.reported) = "EXPIRED_AT_REPORT"
         <=> IntrinsicState(record) = "ACTIVE" /\ Expired(c)
  BY <1>2, <1>5 DEF ReportState
<1>7. IntrinsicState(record) = "ACTIVE" /\ ~Expired(c)
         => ReportState(record, c.reported) = "ACTIVE"
  BY <1>2 DEF ReportState
<1> QED
  BY <1>1, <1>3, <1>4, <1>6, <1>7 DEF record

(* A case either script accepts allows an effect only under live           *)
(* authority, and what the independent verifier accepts as executed        *)
(* happened under it.                                                      *)
THEOREM VerifiedExecutionsWereAuthorized == Spec => []ExecutionStaysUnderAuthority
<1>1. ASSUME NEW c, IsCase(c), Verified(c), NEW h \in ToSet(c.handoff),
             NEW reported \in ToSet(c.reported)
      PROVE  /\ h.observation.at <= reported
             /\ h.observation.status = "EXECUTED" =>
                   /\ c.decision.decision = "ACCEPT"
                   /\ c.decision.issued <= h.observation.at
                   /\ \A e \in ToSet(c.decision.expires) : h.observation.at <= e
                   /\ c.action.reversibility = "irreversible" => c.binding.approval # << >>
             /\ h.join = "HISTORICAL_ONLY" <=>
                   /\ c.decision.decision = "ACCEPT"
                   /\ c.decision.consumption = "UNCONSUMED"
                   /\ Expired(c)
  <2> DEFINE record == AuthorizationRecord(c)
             state  == ReportState(record, c.reported)
  <2>1. /\ c.reported # << >> /\ h = c.handoff[1]
        /\ ObservedUnder(record, h.observation, c.reported[1])
        /\ h.join = DerivedJoin(Derived(c).state, h.integrity)
    BY <1>1, HandoffIsChecked
  <2>2. reported = c.reported[1]
    <3>1. c.reported = << c.reported[1] >>
      BY <1>1, <2>1 DEF IsCase
    <3> QED
      BY <3>1 DEF ToSet
  <2>3. /\ h.observation.at \in Int /\ c.decision.issued \in Int /\ reported \in Int
        /\ \A e \in ToSet(c.decision.expires) : e \in Int
    <3>1. c.handoff # << >>
      BY <1>1 DEF ToSet
    <3> QED
      BY <1>1, <2>1, <3>1 DEF IsCase
  <2>4. /\ record.decision = c.decision.decision /\ record.issued = c.decision.issued
        /\ record.expires = c.decision.expires
    BY DEF AuthorizationRecord
  <2>5. Derived(c).state = state
    BY DEF Derived
  <2>6. /\ Vocabulary(c)
        /\ c.decision.decision = "ACCEPT" /\ c.action.reversibility = "irreversible"
              => c.binding.approval # << >>
    BY <1>1 DEF Verified, ContextsAgree
  <2>7. state = "EXPIRED_AT_REPORT" <=>
           /\ c.decision.decision = "ACCEPT" /\ c.decision.consumption = "UNCONSUMED"
           /\ Expired(c)
    BY <1>1, <2>6, LiveRecords
  <2> HIDE DEF record, state
  <2>8. h.observation.at <= reported /\ h.observation.at >= c.decision.issued
    BY <2>1, <2>2, <2>4 DEF ObservedUnder
  <2>9. ASSUME h.observation.status = "EXECUTED"
        PROVE  /\ c.decision.decision = "ACCEPT"
               /\ \A e \in ToSet(c.decision.expires) : h.observation.at <= e
    BY <2>1, <2>3, <2>4, <2>9 DEF ObservedUnder, After
  <2>10. h.join = "HISTORICAL_ONLY" <=> state = "EXPIRED_AT_REPORT"
    BY <2>1, <2>5 DEF DerivedJoin
  <2> QED
    BY <2>3, <2>6, <2>7, <2>8, <2>9, <2>10
<1>2. ASSUME NEW c, IsCase(c), Verified(c) \/ Reproduced(c)
      PROVE  /\ c.expected.effects > 0 => c.expected.allowed
             /\ c.expected.allowed =>
                   /\ c.decision.decision = "ACCEPT"
                   /\ c.decision.consumption = "UNCONSUMED"
                   /\ ~Expired(c)
  <2> DEFINE record == AuthorizationRecord(c)
  <2>1. c.expected = Derived(c)
    BY <1>2 DEF Verified, Reproduced, AsExpected
  <2>2. /\ c.expected.allowed = Allowed(record, c.reported)
        /\ c.expected.effects = IF Allowed(record, c.reported) THEN 1 ELSE 0
    BY <2>1 DEF Derived
  <2>3. /\ record.decision = c.decision.decision
        /\ record.consumption = c.decision.consumption
    BY DEF AuthorizationRecord
  <2>4. Expired(c) /\ record.decision = "ACCEPT" /\ record.consumption = "UNCONSUMED"
           => ReportState(record, c.reported) = "EXPIRED_AT_REPORT"
    BY <1>2, <2>3, LiveRecords
  <2> HIDE DEF record
  <2> QED
    BY <2>2, <2>3, <2>4 DEF Allowed
<1>3. IInv => ExecutionStaysUnderAuthority
  BY <1>1, <1>2 DEF IInv, CaseInv, ExecutionStaysUnderAuthority
<1> QED
  BY <1>3, ShapesAreKept, PTL

-----------------------------------------------------------------------------
(* Fixtures.                                                               *)

(* The equation of the recursive function Progress: such functions exist   *)
(* for the first n entries, whatever n.                                    *)
LEMMA ProgressIsDefined ==
    ASSUME NEW es, Len(es) \in Nat
    PROVE  Progress(es) =
              [i \in 0 .. Len(es) |->
                  IF i = 0 THEN [ok |-> es # << >>, seen |-> {}, accepted |-> << >>]
                  ELSE AfterEntry(Progress(es)[i - 1], es[i])]
<1> DEFINE N == Len(es)
           start == [ok |-> es # << >>, seen |-> {}, accepted |-> << >>]
           Done(f, i) == IF i = 0 THEN start ELSE AfterEntry(f[i - 1], es[i])
           Upto(n, f) == f = [i \in 0 .. n |-> Done(f, i)]
           undone == {n \in 0 .. N : ~ \E f : Upto(n, f)}
<1> HIDE DEF start
<1>1. ASSUME NEW n \in undone, \A m \in undone : n <= m PROVE FALSE
  <2>1. CASE n = 0
    <3> DEFINE f == [i \in 0 .. 0 |-> start]
    <3>1. Upto(0, f)
      OBVIOUS
    <3> QED
      BY <2>1, <3>1
  <2>2. CASE n # 0
    <3>1. n \in Nat /\ n - 1 \in 0 .. N /\ ~ (n <= n - 1)
      BY <2>2
    <3>2. PICK f : Upto(n - 1, f)
      BY <1>1, <3>1
    <3> DEFINE g == [i \in 0 .. n |-> IF i = n THEN AfterEntry(f[n - 1], es[n]) ELSE f[i]]
    <3>3. ASSUME NEW i \in 0 .. n PROVE g[i] = Done(g, i)
      <4>1. CASE i = n
        <5>1. n - 1 \in 0 .. n /\ n - 1 # n
          BY <3>1
        <5> QED
          BY <2>2, <4>1, <5>1
      <4>2. CASE i # n
        <5>1. i \in 0 .. n - 1 /\ (i # 0 => i - 1 \in 0 .. n /\ i - 1 # n)
          BY <3>1, <4>2
        <5>2. f[i] = Done(f, i)
          BY <3>2, <5>1
        <5> QED
          BY <4>2, <5>1, <5>2
      <4> QED
        BY <4>1, <4>2
    <3>4. Upto(n, g)
      BY <3>3
    <3> HIDE DEF g
    <3> QED
      BY <3>4
  <2> QED
    BY <2>1, <2>2
<1>2. undone = {}
  <2>1. undone \in SUBSET Nat
    OBVIOUS
  <2> QED
    BY <1>1, <2>1, LeastElement
<1>3. \E f : Upto(N, f)
  BY <1>2
<1>4. Upto(N, Progress(es))
  BY <1>3 DEF Progress, start
<1> QED
  BY <1>4 DEF start

(* The entries up to i that passed, and that were accepted under an id.    *)
Passed(es, i) == {j \in 1 .. i : es[j].expects = "ok"}
AcceptedAs(es, i, id) ==
    {j \in Passed(es, i) : /\ es[j].receipt.decision = "ACCEPT"
                           /\ es[j].receipt.receipt_id = id}

LEMMA PassedBefore ==
    ASSUME NEW es, NEW i \in Nat \ {0}
    PROVE  Passed(es, i) = Passed(es, i - 1) \cup {j \in {i} : es[j].expects = "ok"}
<1>1. \A j : j \in 1 .. i <=> j \in 1 .. i - 1 \/ j = i
  OBVIOUS
<1> QED
  BY <1>1 DEF Passed

(* What the registers hold after i entries: the audit entries of those     *)
(* that passed, and of each id the receipt accepted last.                  *)
Registers(es, i, done) ==
    /\ \A h \in done.seen : \E j \in Passed(es, i) : h = Sha256(es[j].audit)
    /\ \A id : id \in DOMAIN done.accepted <=> AcceptedAs(es, i, id) # {}
    /\ \A id \in DOMAIN done.accepted :
          done.accepted[id] = es[Max(AcceptedAs(es, i, id))].receipt

LEMMA AfterEntryType ==
    ASSUME NEW done, done.ok \in BOOLEAN, "ok" \in DOMAIN done, NEW entry
    PROVE  LET next == AfterEntry(done, entry) IN next.ok \in BOOLEAN /\ "ok" \in DOMAIN next
<1> DEFINE next == AfterEntry(done, entry)
<1>1. next \in {[done EXCEPT !.ok = FALSE], done}
      \/ \E seen, accepted : next = [ok |-> TRUE, seen |-> seen, accepted |-> accepted]
  BY DEF AfterEntry
<1>2. \A d \in {[done EXCEPT !.ok = FALSE], done} : d.ok \in BOOLEAN /\ "ok" \in DOMAIN d
  OBVIOUS
<1>3. \A seen, accepted :
          LET d == [ok |-> TRUE, seen |-> seen, accepted |-> accepted]
          IN  d.ok \in BOOLEAN /\ "ok" \in DOMAIN d
  OBVIOUS
<1> HIDE DEF next
<1>4. next.ok \in BOOLEAN /\ "ok" \in DOMAIN next
  BY <1>1, <1>2, <1>3
<1> QED
  BY <1>4 DEF next

(* An entry that is as expected leaves the registers right.                *)
LEMMA RegistersFollow ==
    ASSUME NEW es, NEW i \in Nat \ {0}, NEW done, done.ok \in BOOLEAN, "ok" \in DOMAIN done,
           AfterEntry(done, es[i]).ok
    PROVE  /\ done.ok
           /\ ValidateEntry(es[i], done) = es[i].expects
           /\ Registers(es, i - 1, done) => Registers(es, i, AfterEntry(done, es[i]))
<1> DEFINE entry == es[i]
           next == AfterEntry(done, entry)
<1>1. done.ok /\ ValidateEntry(entry, done) = entry.expects
  <2>1. ASSUME ~ done.ok \/ ValidateEntry(entry, done) # entry.expects PROVE FALSE
    <3>1. next = [done EXCEPT !.ok = FALSE]
      BY <2>1 DEF AfterEntry
    <3> QED
      BY <3>1
  <2> QED
    BY <2>1
<1>2. ASSUME Registers(es, i - 1, done), entry.expects # "ok" PROVE Registers(es, i, next)
  <2>1. next = done
    BY <1>1, <1>2 DEF AfterEntry
  <2>2. Passed(es, i) = Passed(es, i - 1)
    <3>1. {j \in {i} : es[j].expects = "ok"} = {}
      BY <1>2
    <3>2. Passed(es, i) = Passed(es, i - 1) \cup {j \in {i} : es[j].expects = "ok"}
      BY PassedBefore
    <3> QED
      BY <3>1, <3>2
  <2> QED
    BY <1>2, <2>1, <2>2 DEF Registers, AcceptedAs
<1>3. ASSUME Registers(es, i - 1, done), entry.expects = "ok" PROVE Registers(es, i, next)
  <2>1. Passed(es, i) = Passed(es, i - 1) \cup {i} /\ i \notin Passed(es, i - 1)
    <3>1. Passed(es, i) = Passed(es, i - 1) \cup {i}
      BY <1>3, PassedBefore
    <3>2. i \notin 1 .. i - 1
      OBVIOUS
    <3> QED
      BY <3>1, <3>2 DEF Passed
  <2>2. /\ next.seen = done.seen \cup {Sha256(entry.audit)}
        /\ next.accepted = IF entry.receipt.decision = "ACCEPT"
                           THEN Put(done.accepted, File(entry.receipt.receipt_id, entry.receipt))
                           ELSE done.accepted
    BY <1>1, <1>3 DEF AfterEntry
  <2>3. \A h \in next.seen : \E j \in Passed(es, i) : h = Sha256(es[j].audit)
    BY <1>3, <2>1, <2>2 DEF Registers
  <2>4. CASE entry.receipt.decision # "ACCEPT"
    <3>1. \A id : AcceptedAs(es, i, id) = AcceptedAs(es, i - 1, id)
      BY <2>1, <2>4 DEF AcceptedAs
    <3>2. next.accepted = done.accepted
      BY <2>2, <2>4
    <3> QED
      BY <1>3, <2>3, <3>1, <3>2 DEF Registers
  <2>5. CASE entry.receipt.decision = "ACCEPT"
    <3> DEFINE mine == entry.receipt.receipt_id
    <3>1. next.accepted = [id \in DOMAIN done.accepted \cup {mine} |->
                              IF id \in {mine} THEN entry.receipt ELSE done.accepted[id]]
      <4>1. DOMAIN File(mine, entry.receipt) = {mine}
            /\ File(mine, entry.receipt)[mine] = entry.receipt
        BY DEF File
      <4>2. next.accepted = Put(done.accepted, File(mine, entry.receipt))
        BY <2>2, <2>5
      <4> QED
        BY <4>1, <4>2 DEF Put
    <3>2. \A id : id # mine => AcceptedAs(es, i, id) = AcceptedAs(es, i - 1, id)
      BY <2>1 DEF AcceptedAs
    <3>3. i \in AcceptedAs(es, i, mine) /\ AcceptedAs(es, i, mine) \in SUBSET (1 .. i)
      BY <2>1, <2>5 DEF AcceptedAs, Passed
    <3>4. Max(AcceptedAs(es, i, mine)) = i
      <4>1. /\ Max(AcceptedAs(es, i, mine)) \in 1 .. i
            /\ i <= Max(AcceptedAs(es, i, mine))
        BY <3>3, MaxIsGreatest
      <4> QED
        BY <4>1
    <3>5. \A id : id \in DOMAIN next.accepted <=> AcceptedAs(es, i, id) # {}
      BY <1>3, <3>1, <3>2, <3>3 DEF Registers
    <3>6. ASSUME NEW id \in DOMAIN next.accepted
          PROVE  next.accepted[id] = es[Max(AcceptedAs(es, i, id))].receipt
      <4>1. CASE id = mine
        BY <3>1, <3>4, <4>1
      <4>2. CASE id # mine
        <5>1. id \in DOMAIN done.accepted /\ next.accepted[id] = done.accepted[id]
          BY <3>1, <4>2
        <5> QED
          BY <1>3, <3>2, <4>2, <5>1 DEF Registers
      <4> QED
        BY <4>1, <4>2
    <3> QED
      BY <2>3, <3>5, <3>6 DEF Registers
  <2> QED
    BY <2>4, <2>5
<1> QED
  BY <1>1, <1>2, <1>3

(* Fixtures that validate: every entry was as expected, under registers    *)
(* that hold what the entries before it left.                              *)
LEMMA EntriesAreChecked ==
    ASSUME NEW es, NEW N \in Nat, Len(es) = N, ValidateFixtures(es).ok,
           NEW i \in 1 .. N
    PROVE  \E done : /\ ValidateEntry(es[i], done) = es[i].expects
                     /\ Registers(es, i - 1, done)
<1> DEFINE P == Progress(es)
           start == [ok |-> es # << >>, seen |-> {}, accepted |-> << >>]
           Sound(k) == P[k].ok \in BOOLEAN /\ "ok" \in DOMAIN P[k]
           unsound == {k \in 0 .. N : ~ Sound(k)}
           stopped == {k \in Nat : N - k \in 0 .. N /\ ~ P[N - k].ok}
           wrong == {k \in 0 .. N : ~ Registers(es, k, P[k])}
<1>1. /\ P[0] = start
      /\ \A k \in 1 .. N : k - 1 \in 0 .. N /\ P[k] = AfterEntry(P[k - 1], es[k])
  <2>1. P = [k \in 0 .. N |-> IF k = 0 THEN start ELSE AfterEntry(P[k - 1], es[k])]
    BY ProgressIsDefined
  <2> HIDE DEF P, start
  <2>2. 0 \in 0 .. N /\ \A k \in 1 .. N : k \in 0 .. N /\ k # 0 /\ k - 1 \in 0 .. N
    OBVIOUS
  <2> QED
    BY <2>1, <2>2
<1>2. \A k \in 0 .. N : Sound(k)
  <2>1. Sound(0)
    BY <1>1
  <2>2. ASSUME NEW k \in 1 .. N, Sound(k - 1) PROVE Sound(k)
    BY <1>1, <2>2, AfterEntryType
  <2>3. ASSUME unsound # {} PROVE FALSE
    <3>1. unsound \in SUBSET Nat
      OBVIOUS
    <3>2. PICK k \in unsound : \A j \in unsound : k <= j
      BY <2>3, <3>1, LeastElement
    <3>3. k # 0 /\ k \in 1 .. N /\ k - 1 \in 0 .. N /\ ~ (k <= k - 1)
      BY <2>1, <3>2
    <3> QED
      BY <2>2, <3>2, <3>3
  <2> QED
    BY <2>3
<1>3. \A k \in 0 .. N : P[k].ok
  <2>1. ASSUME stopped # {} PROVE FALSE
    <3>1. stopped \in SUBSET Nat
      OBVIOUS
    <3>2. PICK k \in stopped : \A j \in stopped : k <= j
      BY <2>1, <3>1, LeastElement
    <3>3. P[N].ok
      BY DEF ValidateFixtures
    <3>4. k # 0 /\ k - 1 \in Nat /\ ~ (k <= k - 1)
      BY <3>2, <3>3
    <3> DEFINE m == N - k
    <3>5. N - (k - 1) = m + 1 /\ m + 1 \in 1 .. N /\ (m + 1) - 1 = m
          /\ m \in 0 .. N /\ m + 1 \in 0 .. N /\ m + 1 \in Nat \ {0}
      BY <3>2, <3>4
    <3>6. P[m + 1].ok /\ P[m + 1] = AfterEntry(P[m], es[m + 1])
      BY <1>1, <3>2, <3>4, <3>5
    <3>7. P[m].ok
      BY <1>2, <3>5, <3>6, RegistersFollow
    <3> QED
      BY <3>2, <3>7
  <2> SUFFICES ASSUME NEW k \in 0 .. N PROVE P[k].ok
    OBVIOUS
  <2>2. N - k \in Nat /\ N - (N - k) = k
    OBVIOUS
  <2> QED
    BY <2>1, <2>2
<1>4. ASSUME NEW k \in 1 .. N
      PROVE  /\ ValidateEntry(es[k], P[k - 1]) = es[k].expects
             /\ Registers(es, k - 1, P[k - 1]) => Registers(es, k, P[k])
  <2>1. k \in Nat \ {0} /\ k - 1 \in 0 .. N /\ k \in 0 .. N
    OBVIOUS
  <2>2. P[k] = AfterEntry(P[k - 1], es[k]) /\ P[k].ok /\ Sound(k - 1)
    BY <1>1, <1>2, <1>3, <2>1
  <2> HIDE DEF P
  <2> QED
    BY <2>1, <2>2, RegistersFollow
<1>5. Registers(es, 0, P[0])
  <2>1. P[0].seen = {} /\ DOMAIN P[0].accepted = {}
    BY <1>1
  <2>2. \A id : AcceptedAs(es, 0, id) = {}
    BY DEF AcceptedAs, Passed
  <2> QED
    BY <2>1, <2>2 DEF Registers
<1>6. \A k \in 0 .. N : Registers(es, k, P[k])
  <2>1. ASSUME wrong # {} PROVE FALSE
    <3>1. wrong \in SUBSET Nat
      OBVIOUS
    <3>2. PICK k \in wrong : \A j \in wrong : k <= j
      BY <2>1, <3>1, LeastElement
    <3>3. k # 0 /\ k \in 1 .. N /\ k - 1 \in 0 .. N /\ ~ (k <= k - 1)
      BY <1>5, <3>2
    <3> QED
      BY <1>4, <3>2, <3>3
  <2> QED
    BY <2>1
<1>7. i - 1 \in 0 .. N
  OBVIOUS
<1> QED
  BY <1>4, <1>6, <1>7

(* What is checked of an entry that passes, beside the parent it continues *)
(* and the audit entry it points to.                                       *)
LEMMA EntryPasses ==
    ASSUME NEW entry, NEW done, ValidateEntry(entry, done) = "ok"
    PROVE  /\ ContinuesParent(entry, done.accepted)
           /\ AuditIsOfReceipt(entry, done.seen)
<1> DEFINE checks ==
        << << "expected_decision", entry.expected.decision \in Decisions >>,
           << "required_fields", RequiredFieldsGiven(entry) >>,
           << "receipt", ReceiptAsExpected(entry) >>,
           << "manifest", ReceiptIsOfManifest(entry) >>,
           << "causal_parent", ContinuesParent(entry, done.accepted) >>,
           << "audit", AuditIsOfReceipt(entry, done.seen) >> >>
<1>1. FirstFailure(checks) = "ok"
  BY DEF ValidateEntry
<1>2. DOMAIN checks = 1 .. 6 /\ \A k \in 1 .. 6 : checks[k][1] # "ok"
  OBVIOUS
<1>3. \A k \in 1 .. 6 : checks[k][2]
  <2> HIDE DEF checks
  <2> QED
    BY <1>1, <1>2, NothingFails
<1>4. checks[5][2] /\ checks[6][2]
  BY <1>3
<1> QED
  BY <1>4

(* Fixtures that validate are a chain of work: whoever continues a receipt *)
(* takes the output of the last one accepted under that id before it, and  *)
(* audit entries point to entries that passed before.                      *)
THEOREM AcceptedFixturesAreAChain == Spec => []AcceptedWorkIsAChain
<1>1. ASSUME EntriesInv, ValidateFixtures(entries).ok, NEW i \in DOMAIN entries, Passes(i)
      PROVE  LET named == {j \in 1 .. i - 1 :
                              Passes(j) /\ entries[j].receipt.decision = "ACCEPT"
                              /\ entries[j].receipt.receipt_id = entries[i].continues}
             IN
             /\ entries[i].continues # Blank =>
                   /\ named # {}
                   /\ entries[Max(named)].receipt.output_hash = entries[i].receipt.input_hash
                   /\ entries[i].receipt.input_hash # Blank
             /\ entries[i].audit.previous # << >> =>
                   \E j \in 1 .. i - 1 :
                       Passes(j) /\ entries[j].receipt.audit_hash = entries[i].audit.previous
  <2> DEFINE N == Len(entries)
             entry == entries[i]
             named == {j \in 1 .. i - 1 :
                          Passes(j) /\ entries[j].receipt.decision = "ACCEPT"
                          /\ entries[j].receipt.receipt_id = entry.continues}
  <2>1. N \in Nat /\ i \in 1 .. N
    BY <1>1 DEF EntriesInv
  <2>2. PICK done : /\ ValidateEntry(entry, done) = entry.expects
                    /\ Registers(entries, i - 1, done)
    BY <1>1, <2>1, EntriesAreChecked
  <2>3. /\ ContinuesParent(entry, done.accepted)
        /\ AuditIsOfReceipt(entry, done.seen)
    BY <1>1, <2>2, EntryPasses DEF Passes
  <2>4. named = AcceptedAs(entries, i - 1, entry.continues)
    BY DEF AcceptedAs, Passed, Passes
  <2>5. ASSUME entry.continues # Blank
        PROVE  /\ named # {}
               /\ entries[Max(named)].receipt.output_hash = entry.receipt.input_hash
               /\ entry.receipt.input_hash # Blank
    <3>1. /\ entry.continues \in DOMAIN done.accepted
          /\ done.accepted[entry.continues].output_hash # Blank
          /\ entry.receipt.input_hash = done.accepted[entry.continues].output_hash
      BY <2>3, <2>5 DEF ContinuesParent
    <3>2. named # {} /\ done.accepted[entry.continues] = entries[Max(named)].receipt
      BY <2>2, <2>4, <3>1 DEF Registers
    <3> QED
      BY <3>1, <3>2
  <2>6. ASSUME entry.audit.previous # << >>
        PROVE  \E j \in 1 .. i - 1 :
                   Passes(j) /\ entries[j].receipt.audit_hash = entry.audit.previous
    <3>1. PICK j \in Passed(entries, i - 1) : entry.audit.previous = Sha256(entries[j].audit)
      BY <2>2, <2>3, <2>6 DEF AuditIsOfReceipt, Registers
    <3>2. j \in 1 .. N /\ j \in 1 .. i - 1 /\ entries[j].expects = "ok"
      BY <2>1 DEF Passed
    <3>3. PICK before : ValidateEntry(entries[j], before) = "ok"
      BY <1>1, <2>1, <3>2, EntriesAreChecked
    <3>4. entries[j].receipt.audit_hash = Sha256(entries[j].audit)
      BY <3>3, EntryPasses DEF AuditIsOfReceipt
    <3> QED
      BY <3>1, <3>2, <3>4 DEF Passes
  <2> QED
    BY <2>5, <2>6
<1>2. IInv => AcceptedWorkIsAChain
  BY <1>1 DEF IInv, AcceptedWorkIsAChain
<1> QED
  BY <1>2, ShapesAreKept, PTL
=============================================================================
