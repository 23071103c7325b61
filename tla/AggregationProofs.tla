-------------------------- MODULE AggregationProofs --------------------------
(***************************************************************************)
(* Proofs about Aggregation and Interval, for any set of condition types,  *)
(* any bounds of the interval and any number of results.                   *)
(***************************************************************************)
EXTENDS Aggregation, SortingProofs

\* Every duration, the negative ones included, ends within the bounds.
LEMMA NormalizeBounded ==
  ASSUME NEW raw \in Texts
  PROVE  /\ NormalizeInterval(raw).interval \in MinInterval .. MaxInterval
         /\ NormalizeInterval(raw).interval > 0
         /\ NormalizeInterval(raw).warning \in Reasons \cup {NoWarning}
BY IntervalAssumption DEF NormalizeInterval, Texts, Reasons, NoWarning

\* Writing the interval in force into the spec changes nothing and ends the
\* warning.
LEMMA NormalizeStable ==
  ASSUME NEW raw \in Texts
  PROVE  NormalizeInterval(Duration(NormalizeInterval(raw).interval))
         = [interval |-> NormalizeInterval(raw).interval, warning |-> NoWarning]
<1> DEFINE i == NormalizeInterval(raw).interval
<1>1. i \in Nat /\ MinInterval <= i /\ i <= MaxInterval
  BY NormalizeBounded, IntervalAssumption
<1>2. Duration(i).kind = "duration" /\ Duration(i).seconds = i
  BY DEF Duration
<1>3. QED
  BY <1>1, <1>2, IntervalAssumption DEF NormalizeInterval

\* Merging a warning never lowers a phase, and leaves Failed alone.
LEMMA MergeRaises ==
  ASSUME NEW out, out.phase \in TerminalPhases, NEW warning
  PROVE  /\ PhaseRank(MergeIntervalWarning(out, warning).phase) >= PhaseRank(out.phase)
         /\ out.phase = "Failed" => MergeIntervalWarning(out, warning).phase = "Failed"
         /\ warning # NoWarning =>
              MergeIntervalWarning(out, warning).phase \in {"Warning", "Failed"}
BY DEF MergeIntervalWarning, EscalatePhase, PhaseRank, TerminalPhases

\* What one more result of the checks can do to a flag of Aggregate: raise it.
LEMMA AppendHas ==
  ASSUME NEW rs \in Seq(Results), NEW r \in Results
  PROVE  /\ Has(rs, Failed) => Has(Append(rs, r), Failed)
         /\ Has(rs, FailedNonCritical) => Has(Append(rs, r), FailedNonCritical)
         /\ Has(rs, Unknown) => Has(Append(rs, r), Unknown)
<1>1. \A i \in DOMAIN rs : i \in DOMAIN Append(rs, r) /\ Append(rs, r)[i] = rs[i]
  OBVIOUS
<1>2. QED
  BY <1>1 DEF Has

-----------------------------------------------------------------------------
(* What dedupeAndSortConditions keeps. *)

\* Result j of rs goes before result i: it is above it, or the earlier of two
\* of which neither is above the other.
Beats(rs, j, i) == Above(rs[j], rs[i]) \/ (~Above(rs[i], rs[j]) /\ j < i)

\* The results of rs, among those numbered s, that nothing of their type beats.
Best(rs, s) ==
  {i \in s : \A j \in s : rs[j].name = rs[i].name => ~Beats(rs, j, i)}
Kept(rs, s) == {rs[i] : i \in Best(rs, s)}

LEMMA RankType ==
  ASSUME NEW r \in Results
  PROVE  SeverityRank(r.severity) \in 0 .. 3 /\ r.time \in Nat /\ r.name \in Nat
<1>1. r.time \in Times /\ r.name \in Names
  BY DEF Results
<1>2. r.time \in Nat /\ r.name \in Nat
  BY <1>1, TimesAssumption, NamesAssumption
<1>3. \A s : SeverityRank(s) \in 0 .. 3
  BY DEF SeverityRank
<1> QED
  BY <1>2, <1>3

LEMMA BeatsOrders ==
  ASSUME NEW rs \in Seq(Results), NEW i \in DOMAIN rs, NEW j \in DOMAIN rs, NEW k \in DOMAIN rs
  PROVE  /\ ~Beats(rs, i, i)
         /\ Beats(rs, i, j) /\ Beats(rs, j, k) => Beats(rs, i, k)
         /\ i # j => Beats(rs, i, j) \/ Beats(rs, j, i)
<1>1. \A r \in Results : SeverityRank(r.severity) \in 0 .. 3 /\ r.time \in Nat
  BY RankType
<1>2. /\ SeverityRank(rs[i].severity) \in Int /\ SeverityRank(rs[j].severity) \in Int
      /\ SeverityRank(rs[k].severity) \in Int
      /\ rs[i].time \in Int /\ rs[j].time \in Int /\ rs[k].time \in Int
      /\ i \in Int /\ j \in Int /\ k \in Int
  BY <1>1
<1> QED
  BY <1>2 DEF Beats, Above

\* Whatever is not among the best is beaten by one of them.
LEMMA BestExist ==
  ASSUME NEW rs \in Seq(Results), NEW s \in SUBSET DOMAIN rs, NEW j \in s
  PROVE  \E b \in Best(rs, s) : rs[b].name = rs[j].name /\ (b = j \/ Beats(rs, b, j))
<1> DEFINE P(t) == \A i \in t : \E b \in Best(rs, t) :
                      rs[b].name = rs[i].name /\ (b = i \/ Beats(rs, b, i))
           C == {t \in SUBSET DOMAIN rs : ~P(t)}
<1>1. SUFFICES ASSUME C # {} PROVE FALSE
  OBVIOUS
<1>2. \A t \in C : IsFiniteSet(t)
  BY FS_Interval, FS_Subset
<1>3. PICK t \in C : \A x \in t : t \ {x} \notin C
  BY <1>1, <1>2, SmallestSet
<1>4. PICK i \in t : \A b \in Best(rs, t) :
                        ~(rs[b].name = rs[i].name /\ (b = i \/ Beats(rs, b, i)))
  OBVIOUS
<1>5. PICK k \in t : rs[k].name = rs[i].name /\ Beats(rs, k, i)
  BY <1>4 DEF Best
<1>6. k # i
  BY <1>5, BeatsOrders
<1>7. PICK b \in Best(rs, t \ {i}) : rs[b].name = rs[k].name /\ (b = k \/ Beats(rs, b, k))
  BY <1>3, <1>6
<1>8. b \in t \ {i}
  BY <1>7 DEF Best
<1>9. Beats(rs, b, i) /\ ~Beats(rs, i, b)
  BY <1>5, <1>7, <1>8, BeatsOrders
<1>10. b \in Best(rs, t)
  BY <1>7, <1>8, <1>9 DEF Best
<1> QED
  BY <1>4, <1>5, <1>7, <1>9, <1>10

\* One more result at the end is put to what was kept (dedupeAndSortConditions).
LEMMA KeptStep ==
  ASSUME NEW rs \in Seq(Results), NEW s \in SUBSET DOMAIN rs, NEW x \in s,
         \A i \in s : i <= x
  PROVE  Kept(rs, s) = Put(Kept(rs, s \ {x}), rs[x])
<1> DEFINE t == s \ {x}
           r == rs[x]
           existing == {e \in Kept(rs, t) : e.name = r.name}
<1>1. \A i, j \in s : rs[i] = rs[j] => \A k \in s : Above(rs[k], rs[i]) <=> Above(rs[k], rs[j])
  OBVIOUS
<1>2. \A e \in Kept(rs, t) : Replaces(r, e) <=> Above(r, e)
  BY DEF Replaces, Above
<1>3. \A i \in t : i < x /\ i \in DOMAIN rs /\ x \in DOMAIN rs /\ x \in Int /\ i \in Int
  OBVIOUS
<1>4. \A i \in t : Beats(rs, x, i) <=> Above(r, rs[i])
  BY <1>3 DEF Beats
<1>5. CASE \A e \in existing : Replaces(r, e)
  <2>1. \A i \in t : rs[i].name = r.name => Beats(rs, x, i)
    <3> SUFFICES ASSUME NEW i \in t, rs[i].name = r.name PROVE Beats(rs, x, i)
      OBVIOUS
    <3>1. PICK b \in Best(rs, t) : rs[b].name = r.name /\ (b = i \/ Beats(rs, b, i))
      BY BestExist
    <3>2. b \in t /\ rs[b] \in existing
      BY <3>1 DEF Best, Kept
    <3>3. Beats(rs, x, b)
      BY <1>2, <1>4, <1>5, <3>2
    <3> QED
      BY <3>1, <3>2, <3>3, BeatsOrders
  <2>2. \A i \in t : rs[i].name = r.name => ~Beats(rs, i, x)
    BY <1>3, <2>1, BeatsOrders
  <2>3. x \in Best(rs, s)
    BY <2>2, BeatsOrders DEF Best
  <2>4. \A i \in t : i \in Best(rs, s) <=> i \in Best(rs, t) /\ rs[i].name # r.name
    BY <2>1 DEF Best
  <2>5. Kept(rs, s) = (Kept(rs, t) \ existing) \cup {r}
    BY <2>3, <2>4 DEF Kept, Best
  <2> QED
    BY <1>5, <2>5 DEF Put
<1>6. CASE ~(\A e \in existing : Replaces(r, e))
  <2>1. PICK b \in Best(rs, t) : rs[b].name = r.name /\ ~Above(r, rs[b])
    BY <1>2, <1>6 DEF Kept
  <2>2. b \in t /\ ~Beats(rs, x, b) /\ Beats(rs, b, x)
    BY <1>3, <1>4, <2>1, BeatsOrders DEF Best
  <2>3. x \notin Best(rs, s)
    BY <2>1, <2>2 DEF Best
  <2>4. \A i \in Best(rs, t) : rs[i].name = r.name => i = b
    BY <2>1, <2>2, <1>3, BeatsOrders DEF Best
  <2>5. Best(rs, s) = Best(rs, t)
    BY <2>2, <2>3, <2>4 DEF Best
  <2>6. Kept(rs, s) = Kept(rs, t)
    BY <2>5 DEF Kept
  <2> QED
    BY <1>6, <2>6 DEF Put
<1> QED
  BY <1>5, <1>6

LEMMA MaxOfFinite ==
  ASSUME NEW n \in Nat, NEW s \in SUBSET (1 .. n), s # {}
  PROVE  Max(s) \in s /\ \A i \in s : i <= Max(s)
<1> DEFINE T == {n - i : i \in s}
<1>1. T \subseteq Nat /\ T # {}
  <2>1. \A i \in s : n - i \in Nat
    OBVIOUS
  <2> QED
    BY <2>1
<1>2. PICK m \in T : \A k \in T : m <= k
  BY <1>1, LeastElement
<1>3. PICK x \in s : m = n - x
  BY <1>2
<1>4. \A i \in s : x >= i
  <2> SUFFICES ASSUME NEW i \in s PROVE x >= i
    OBVIOUS
  <2>1. n - x <= n - i
    BY <1>2, <1>3
  <2> QED
    BY <2>1
<1>5. PICK y : y = Max(s)
  OBVIOUS
<1>6. y \in s /\ \A i \in s : y >= i
  BY Zenon, <1>4, <1>5 DEF Max
<1>7. \A i \in s : i <= y
  BY <1>6
<1> QED
  BY <1>5, <1>6, <1>7

\* Folding Put over all results keeps the best (dedupeAndSortConditions).
LEMMA FoldKeeps ==
  ASSUME NEW rs \in Seq(Results)
  PROVE  FoldLeft(Put, {}, rs) = Kept(rs, DOMAIN rs)
<1> DEFINE D == DOMAIN rs
           Unfolds(f) == f = [s \in SUBSET D |->
                                IF s = {} THEN {}
                                ELSE LET x == Max(s) IN Put(f[s \ {x}], rs[x])]
           iter == CHOOSE f : Unfolds(f)
           kept == [s \in SUBSET D |-> Kept(rs, s)]
<1>1. LET f[s \in SUBSET DOMAIN rs] ==
            IF s = {} THEN {} ELSE LET x == Max(s) IN Put(f[s \ {x}], rs[x])
      IN  FoldLeft(Put, {}, rs) = f[DOMAIN rs]
  BY Zenon DEF FoldLeft, MapThenFoldSet
<1>fold. FoldLeft(Put, {}, rs) = iter[D]
  BY Zenon, <1>1
<1>2. \A s \in SUBSET D : s # {} => Max(s) \in s /\ \A i \in s : i <= Max(s)
  <2>1. D = 1 .. Len(rs) /\ Len(rs) \in Nat
    OBVIOUS
  <2> HIDE DEF D
  <2> QED
    BY <2>1, MaxOfFinite
<1>3. Kept(rs, {}) = {}
  BY DEF Kept, Best
<1>4. \A s \in SUBSET D : s # {} => Kept(rs, s) = Put(Kept(rs, s \ {Max(s)}), rs[Max(s)])
  BY <1>2, KeptStep
<1>5. Unfolds(kept)
  BY <1>2, <1>3, <1>4
<1>6. Unfolds(iter)
  BY <1>5
<1>7. \A s \in SUBSET D : iter[s] = Kept(rs, s)
  <2> DEFINE C == {s \in SUBSET D : iter[s] # Kept(rs, s)}
  <2> HIDE DEF iter
  <2>1. SUFFICES ASSUME C # {} PROVE FALSE
    OBVIOUS
  <2>2. \A s \in C : IsFiniteSet(s)
    BY FS_Interval, FS_Subset
  <2>3. PICK s \in C : \A x \in s : s \ {x} \notin C
    BY <2>1, <2>2, SmallestSet
  <2>4. s # {}
    BY <1>3, <1>6
  <2>5. iter[s] = Put(iter[s \ {Max(s)}], rs[Max(s)])
    BY <1>6, <2>4
  <2>6. iter[s \ {Max(s)}] = Kept(rs, s \ {Max(s)})
    BY <1>2, <2>3, <2>4
  <2> QED
    BY <1>4, <2>3, <2>4, <2>5, <2>6
<1> QED
  BY <1>fold, <1>7

\* No two conditions are of one type, and each is a result.
LEMMA KeptUnique ==
  ASSUME NEW rs \in Seq(Results)
  PROVE  /\ IsFiniteSet(Kept(rs, DOMAIN rs)) /\ Kept(rs, DOMAIN rs) \subseteq Results
         /\ \A c, d \in Kept(rs, DOMAIN rs) : c.name = d.name => c = d
         /\ \A i \in DOMAIN rs : \E c \in Kept(rs, DOMAIN rs) : c.name = rs[i].name
<1> DEFINE D == DOMAIN rs
           B == Best(rs, D)
           K == Kept(rs, D)
<1>1. D = 1 .. Len(rs) /\ Len(rs) \in Nat /\ B \subseteq D
  BY DEF Best
<1>2. IsFiniteSet(K)
  <2>1. IsFiniteSet(B)
    <3>1. IsFiniteSet(1 .. Len(rs))
      BY <1>1, FS_Interval
    <3> QED
      BY <1>1, <3>1, FS_Subset
  <2>2. [i \in B |-> rs[i]] \in Surjection(B, K)
    BY DEF Surjection, Kept
  <2> QED
    BY <2>1, <2>2, FS_Surjection
<1>3. \A i, j \in B : rs[i].name = rs[j].name => i = j
  BY BeatsOrders DEF Best
<1>4. \A i \in D : \E b \in B : rs[b].name = rs[i].name
  BY BestExist
<1> QED
  BY <1>1, <1>2, <1>3, <1>4 DEF Kept

\* The sorted conditions are those of the set, one per type, in their order.
LEMMA SortByTypeLists ==
  ASSUME NEW conds, IsFiniteSet(conds), \A c \in conds : c.name \in Int,
         \A c, d \in conds : c.name = d.name => c = d
  PROVE  /\ ToSet(SortByType(conds)) = conds
         /\ \A i, j \in DOMAIN SortByType(conds) :
              i < j => SortByType(conds)[i].name < SortByType(conds)[j].name
<1> DEFINE key == [c \in conds |-> c.name]
<1>1. key \in [conds -> Int] /\ \A c, d \in conds : key[c] = key[d] => c = d
  OBVIOUS
<1> HIDE DEF key
<1>2. /\ SortBy(conds, key) \in [1 .. Cardinality(conds) -> conds]
      /\ {SortBy(conds, key)[k] : k \in DOMAIN SortBy(conds, key)} = conds
      /\ \A i, j \in DOMAIN SortBy(conds, key) :
           i < j => key[SortBy(conds, key)[i]] < key[SortBy(conds, key)[j]]
  BY <1>1, SortByLists
<1>3. SortByType(conds) = SortBy(conds, key)
  BY DEF SortByType, key
<1>4. \A c \in conds : key[c] = c.name
  BY DEF key
<1> QED
  BY <1>2, <1>3, <1>4 DEF ToSet

\* The conditions of Aggregate are the best results.
LEMMA DedupeLists ==
  ASSUME NEW rs \in Seq(Results)
  PROVE  /\ ToSet(DedupeAndSort(rs)) = Kept(rs, DOMAIN rs)
         /\ \A i, j \in DOMAIN DedupeAndSort(rs) :
              i < j => DedupeAndSort(rs)[i].name < DedupeAndSort(rs)[j].name
<1>1. \A c \in Kept(rs, DOMAIN rs) : c.name \in Int
  BY KeptUnique, RankType
<1>2. DedupeAndSort(rs) = SortByType(Kept(rs, DOMAIN rs))
  BY FoldKeeps DEF DedupeAndSort
<1> QED
  BY <1>1, <1>2, KeptUnique, SortByTypeLists

-----------------------------------------------------------------------------

\* The results are results, and the interval does not change during a run.
THEOREM TypeCorrect == Spec => []TypeOK
<1>1. Init => TypeOK
  BY DEF Init, TypeOK
<1>2. TypeOK /\ [Next]_vars => TypeOK'
  BY DEF TypeOK, Next, AppendResult, vars
<1>3. QED
  BY <1>1, <1>2, PTL DEF Spec

\* RequeueAfter is positive and within its bounds (NormalizeInterval).
THEOREM RequeueBounded == Spec => []RequeueInBounds
<1>1. TypeOK => RequeueInBounds
  BY NormalizeBounded, IntervalsAssumption DEF TypeOK, RequeueInBounds
<1>2. QED
  BY <1>1, TypeCorrect, PTL

\* The warning appears exactly when the interval was not taken as it is.
THEOREM WarnedExactly == Spec => []WarnedIffChanged
<1>1. TypeOK => WarnedIffChanged
  <2> SUFFICES ASSUME interval \in Texts PROVE WarnedIffChanged
    BY IntervalsAssumption DEF TypeOK
  <2>1. CASE interval.kind = "unset"
    BY <2>1 DEF WarnedIffChanged, NormalizeInterval
  <2>2. CASE interval.kind = "unparseable"
    BY <2>2 DEF WarnedIffChanged, NormalizeInterval, NoWarning, Duration
  <2>3. CASE interval.kind = "duration"
    <3>1. interval.seconds \in Int /\ interval = Duration(interval.seconds)
      BY <2>3 DEF Texts, Duration
    <3>2. \A i : interval = Duration(i) <=> i = interval.seconds
      BY <3>1 DEF Duration
    <3>3. QED
      BY <2>3, <3>1, <3>2, IntervalAssumption DEF WarnedIffChanged, NormalizeInterval, NoWarning
  <2>4. QED
    BY <2>1, <2>2, <2>3 DEF Texts
<1>2. QED
  BY <1>1, TypeCorrect, PTL

\* No further result makes the phase better (derivePhase).
THEOREM PhaseOnlyWorsens == Spec => NeverImproves
<1>1. TypeOK /\ [Next]_vars =>
        [Badness(DerivePhase(results')) >= Badness(DerivePhase(results))]_vars
  <2> SUFFICES ASSUME TypeOK, NEW r \in Results, AppendResult(r)
               PROVE  Badness(DerivePhase(results')) >= Badness(DerivePhase(results))
    BY DEF Next
  <2>1. results' = Append(results, r)
    BY DEF AppendResult
  <2>2. /\ Has(results, Failed) => Has(results', Failed)
        /\ Has(results, FailedNonCritical) => Has(results', FailedNonCritical)
        /\ Has(results, Unknown) => Has(results', Unknown)
    BY <2>1, AppendHas DEF TypeOK
  <2>3. QED
    BY <2>2 DEF DerivePhase, Badness
<1>2. QED
  BY <1>1, TypeCorrect, PTL DEF Spec, NeverImproves

\* The counters and the phase tell the same story, for lists of any length
\* (Aggregate, derivePhase).
THEOREM PhaseMatchesSummary == Spec => []PhaseFitsSummary
<1>1. ASSUME TypeOK PROVE PhaseFitsSummary
  <2> DEFINE D == DOMAIN results
             P == {i \in D : Passed(results[i])}
             F == {i \in D : Failed(results[i])}
             W == {i \in D : FailedNonCritical(results[i])}
             U == {i \in D : Unknown(results[i])}
  <2>1. D = 1 .. Len(results) /\ Len(results) \in Nat /\ \A i \in D : results[i] \in Results
    BY <1>1 DEF TypeOK
  <2>2. IsFiniteSet(D) /\ Cardinality(D) = Len(results)
    BY <2>1, FS_Interval
  <2>3. IsFiniteSet(P) /\ IsFiniteSet(F) /\ IsFiniteSet(W) /\ IsFiniteSet(U)
    BY <2>2, FS_Subset
  <2>4. D = P \cup F \cup W \cup U
    BY <2>1 DEF Passed, Failed, FailedNonCritical, Unknown, Results
  <2>5. P \cap F = {} /\ (P \cup F) \cap W = {} /\ (P \cup F \cup W) \cap U = {}
    BY DEF Passed, Failed, FailedNonCritical, Unknown
  <2> HIDE DEF D, P, F, W, U
  <2>6. /\ Cardinality(P) \in Nat /\ Cardinality(F) \in Nat
        /\ Cardinality(W) \in Nat /\ Cardinality(U) \in Nat
    BY <2>3, FS_CardinalityType
  <2>7. IsFiniteSet(P \cup F) /\ Cardinality(P \cup F) = Cardinality(P) + Cardinality(F)
    BY <2>3, <2>5, DisjointUnion
  <2>8. /\ IsFiniteSet(P \cup F \cup W)
        /\ Cardinality(P \cup F \cup W) = Cardinality(P) + Cardinality(F) + Cardinality(W)
    BY <2>3, <2>5, <2>7, DisjointUnion
  <2>9. Len(results) = Cardinality(P) + Cardinality(F) + Cardinality(W) + Cardinality(U)
    BY <2>2, <2>3, <2>4, <2>5, <2>8, DisjointUnion
  <2>10. /\ Cardinality(F) > 0 <=> Has(results, Failed)
         /\ Cardinality(W) > 0 <=> Has(results, FailedNonCritical)
         /\ Cardinality(U) > 0 <=> Has(results, Unknown)
    <3>1. /\ F # {} <=> Has(results, Failed)
          /\ W # {} <=> Has(results, FailedNonCritical)
          /\ U # {} <=> Has(results, Unknown)
      BY DEF F, W, U, D, Has
    <3>2. /\ Cardinality(F) = 0 <=> F = {}
          /\ Cardinality(W) = 0 <=> W = {}
          /\ Cardinality(U) = 0 <=> U = {}
      BY <2>3, FS_EmptySet
    <3> QED
      BY <2>6, <3>1, <3>2
  <2> DEFINE out == Aggregate(results)
             sum == out.summary
  <2>11. /\ sum.total = Len(results) /\ sum.passed = Cardinality(P)
         /\ sum.failed = Cardinality(F) /\ sum.warning = Cardinality(W)
         /\ sum.unknown = Cardinality(U) /\ out.phase = DerivePhase(results)
    BY DEF Aggregate, SummaryOf, Count, P, F, W, U, D
  <2> HIDE DEF out, sum
  <2>12. /\ sum.total = sum.passed + sum.failed + sum.warning + sum.unknown
         /\ (out.phase = "Failed") <=> (sum.failed > 0)
         /\ (out.phase = "Warning") <=> (sum.failed = 0 /\ sum.warning > 0)
         /\ (out.phase = "Unknown") <=> (sum.failed + sum.warning = 0 /\ sum.unknown > 0)
    <3>1. sum.total = sum.passed + sum.failed + sum.warning + sum.unknown
      BY <2>9, <2>11
    <3>2. (out.phase = "Failed") <=> Has(results, Failed)
      BY <2>11 DEF DerivePhase
    <3>3. (out.phase = "Warning") <=> ~Has(results, Failed) /\ Has(results, FailedNonCritical)
      BY <2>11 DEF DerivePhase
    <3>4. (out.phase = "Unknown")
          <=> ~Has(results, Failed) /\ ~Has(results, FailedNonCritical) /\ Has(results, Unknown)
      BY <2>11 DEF DerivePhase
    <3> QED
      BY <2>6, <2>10, <2>11, <3>1, <3>2, <3>3, <3>4
  <2> QED
    BY <2>12 DEF PhaseFitsSummary, out, sum
<1>2. QED
  BY <1>1, TypeCorrect, PTL

\* The condition of a type is the winner among its results, for lists of any
\* length (dedupeAndSortConditions).
THEOREM WinnersWin == Spec => []WinnersKept
<1>1. ASSUME TypeOK PROVE WinnersKept
  <2> SUFFICES ASSUME NEW n \in Names
               PROVE  LET same == {i \in DOMAIN results : results[i].name = n}
                          best == {i \in same : \A j \in same : ~Above(results[j], results[i])}
                      IN  {c \in ToSet(DedupeAndSort(results)) : c.name = n}
                          = {results[i] : i \in {i \in best : \A j \in best : i <= j}}
    BY DEF WinnersKept
  <2> DEFINE D == DOMAIN results
             same == {i \in D : results[i].name = n}
             best == {i \in same : \A j \in same : ~Above(results[j], results[i])}
             first == {i \in best : \A j \in best : i <= j}
  <2>1. results \in Seq(Results) /\ D \subseteq Int
    BY <1>1 DEF TypeOK
  <2>2. {c \in ToSet(DedupeAndSort(results)) : c.name = n}
        = {results[i] : i \in {i \in Best(results, D) : results[i].name = n}}
    BY <2>1, DedupeLists DEF Kept
  <2>3. {i \in Best(results, D) : results[i].name = n} = first
    <3>1. ASSUME NEW i \in Best(results, D), results[i].name = n PROVE i \in first
      <4>1. i \in same /\ \A j \in same : ~Beats(results, j, i)
        BY <3>1 DEF Best
      <4>2. \A j \in same : j # i => Beats(results, i, j)
        BY <2>1, <4>1, BeatsOrders
      <4>3. i \in best
        BY <4>1 DEF Beats
      <4>4. \A j \in best : i <= j
        BY <2>1, <4>1, <4>2 DEF Beats
      <4> QED
        BY <4>3, <4>4
    <3>2. ASSUME NEW i \in first PROVE i \in Best(results, D) /\ results[i].name = n
      <4>1. i \in same
        OBVIOUS
      <4>2. PICK b \in Best(results, D) :
                   results[b].name = results[i].name /\ (b = i \/ Beats(results, b, i))
        BY <2>1, <4>1, BestExist
      <4>3. b \in first
        BY <3>1, <4>1, <4>2
      <4>4. b = i
        BY <2>1, <3>2, <4>3
      <4> QED
        BY <4>1, <4>2, <4>4
    <3> QED
      BY <3>1, <3>2 DEF Best
  <2> QED
    BY <2>2, <2>3
<1>2. QED
  BY <1>1, TypeCorrect, PTL

\* Merging the warning keeps the conditions sorted and one per type; nothing
\* but the warning is new, and a condition as grave as it stays
\* (mergeIntervalWarning).
LEMMA PutWarningLists ==
  ASSUME NEW conds, IsFiniteSet(ToSet(conds)), \A c \in ToSet(conds) : c.name \in Int,
         \A c, d \in ToSet(conds) : c.name = d.name => c = d
  PROVE  /\ \A i, j \in DOMAIN PutWarning(conds) :
              i < j => PutWarning(conds)[i].name < PutWarning(conds)[j].name
         /\ ToSet(PutWarning(conds)) \subseteq ToSet(conds) \cup {WarningCondition}
         /\ \E c \in ToSet(PutWarning(conds)) :
              c.name = WarningName /\ SeverityRank(c.severity) >= 2
<1> DEFINE C == ToSet(conds)
           existing == {c \in C : c.name = WarningName}
           keep == \E c \in existing :
                      SeverityRank(c.severity) >= SeverityRank(WarningCondition.severity)
           K == IF keep THEN C ELSE (C \ existing) \cup {WarningCondition}
<1>1. /\ WarningCondition.name = WarningName /\ WarningName \in Int
      /\ SeverityRank(WarningCondition.severity) = 2
  BY NamesAssumption DEF WarningCondition, SeverityRank
<1>2. IsFiniteSet(K)
  <2>1. IsFiniteSet(C \ existing)
    BY FS_Subset
  <2> QED
    BY <2>1, FS_AddElement
<1>3. /\ \A c \in K : c.name \in Int
      /\ \A c, d \in K : c.name = d.name => c = d
  BY <1>1
<1>4. K \subseteq C \cup {WarningCondition}
  OBVIOUS
<1>5. \E c \in K : c.name = WarningName /\ SeverityRank(c.severity) >= 2
  <2>1. CASE keep
    BY <1>1, <2>1
  <2>2. CASE ~keep
    BY <1>1, <2>2
  <2> QED
    BY <2>1, <2>2
<1>6. PutWarning(conds) = SortByType(K)
  BY DEF PutWarning
<1> HIDE DEF K
<1> QED
  BY <1>2, <1>3, <1>4, <1>5, <1>6, SortByTypeLists

\* What is written has one condition per type, in order; a critical failure
\* and the warning show in the phase, and a failed phase in the counters
\* (Aggregate, mergeIntervalWarning).
THEOREM ConditionsShow == Spec => []ConditionsShowInPhase
<1>1. ASSUME TypeOK, PhaseFitsSummary PROVE ConditionsShowInPhase
  <2> DEFINE agg == Aggregate(results)
             w == NormalizeInterval(interval).warning
             out == MergeIntervalWarning(agg, w)
             kept == Kept(results, DOMAIN results)
  <2>1. results \in Seq(Results)
    BY <1>1 DEF TypeOK
  <2>2. /\ agg.phase = DerivePhase(results) /\ agg.phase \in TerminalPhases
        /\ agg.conditions = DedupeAndSort(results)
    BY DEF Aggregate, DerivePhase, TerminalPhases
  <2>3. /\ ToSet(agg.conditions) = kept /\ IsFiniteSet(kept)
        /\ \A c \in kept : c.name \in Int
        /\ \A c, d \in kept : c.name = d.name => c = d
        /\ \A i, j \in DOMAIN agg.conditions :
             i < j => agg.conditions[i].name < agg.conditions[j].name
    BY <2>1, <2>2, DedupeLists, KeptUnique, RankType
  <2>4. \A c \in kept : Failed(c) => agg.phase = "Failed"
    BY <2>2 DEF Kept, Best, DerivePhase, Has
  <2>5. ~Failed(WarningCondition)
    BY DEF Failed, WarningCondition
  <2>6. agg.phase = "Failed" => agg.summary.failed > 0
    BY <1>1 DEF PhaseFitsSummary
  <2> HIDE DEF agg, w, kept
  <2>7. /\ w = NoWarning => out = agg
        /\ w # NoWarning => /\ out.conditions = PutWarning(agg.conditions)
                            /\ out.phase = EscalatePhase(agg.phase, "Warning")
                            /\ out.summary = agg.summary
    BY DEF MergeIntervalWarning
  <2>8. /\ \A i, j \in DOMAIN out.conditions :
             i < j => out.conditions[i].name < out.conditions[j].name
        /\ ToSet(out.conditions) \subseteq kept \cup {WarningCondition}
        /\ w # NoWarning => \E c \in ToSet(out.conditions) :
                               c.name = WarningName /\ SeverityRank(c.severity) >= 2
    <3>1. CASE w = NoWarning
      BY <2>3, <2>7, <3>1
    <3>2. CASE w # NoWarning
      BY <2>3, <2>7, <3>2, PutWarningLists
    <3> QED
      BY <3>1, <3>2
  <2>9. /\ agg.phase = "Failed" <=> out.phase = "Failed"
        /\ w # NoWarning => out.phase \in {"Warning", "Failed"}
    BY <2>2, <2>7 DEF EscalatePhase, PhaseRank, TerminalPhases
  <2>10. out.summary = agg.summary
    BY <2>7
  <2>11. (\E c \in ToSet(out.conditions) : Failed(c)) => out.phase = "Failed"
    BY <2>4, <2>5, <2>8, <2>9
  <2>12. Output(results) = out
    BY DEF Output, agg, w
  <2> HIDE DEF out
  <2>13. w = NormalizeInterval(interval).warning
    BY DEF w
  <2> QED
    BY <2>6, <2>8, <2>9, <2>10, <2>11, <2>12, <2>13 DEF ConditionsShowInPhase
<1>2. QED
  BY <1>1, TypeCorrect, PhaseMatchesSummary, PTL

=============================================================================
