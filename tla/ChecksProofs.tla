---------------------------- MODULE ChecksProofs ----------------------------
(***************************************************************************)
(* Proofs about Checks: for any demands the CRD lets through and any       *)
(* clusters, nothing asked for is passed over, the loop implements         *)
(* Aggregation, Passed means that each demand was met, and more cluster    *)
(* never fares worse.                                                      *)
(***************************************************************************)
EXTENDS Checks, SortingProofs, SequenceTheorems

-----------------------------------------------------------------------------
(* The sum over the nodes.                                                 *)

\* One element for each unit that a node adds to a sum.
Units(nodes, field) == {u \in nodes \X Nat : 1 <= u[2] /\ u[2] <= u[1][field]}

\* One node more is its own units more.
LEMMA UnitsOfOneMore ==
  ASSUME NEW nodes, NEW field, \A n \in nodes : n[field] \in Nat,
         NEW x \in nodes, IsFiniteSet(Units(nodes \ {x}, field))
  PROVE  /\ IsFiniteSet(Units(nodes, field))
         /\ Cardinality(Units(nodes, field))
            = Cardinality(Units(nodes \ {x}, field)) + x[field]
<1> DEFINE m == x[field]
           own == {x} \X (1 .. m)
           f == [k \in 1 .. m |-> <<x, k>>]
<1>1. m \in Nat
  OBVIOUS
<1>2. IsFiniteSet(own) /\ Cardinality(own) = m
  <2>1. IsFiniteSet(1 .. m) /\ Cardinality(1 .. m) = m
    BY <1>1, FS_Interval
  <2>2. f \in Bijection(1 .. m, own)
    BY DEF Bijection, Injection, Surjection, IsInjective
  <2>3. ExistsBijection(1 .. m, own)
    BY <2>2 DEF ExistsBijection
  <2> QED
    BY <2>1, <2>3, FS_Bijection
<1>3. Units(nodes, field) = Units(nodes \ {x}, field) \cup own
  BY <1>1 DEF Units
<1>4. Units(nodes \ {x}, field) \cap own = {}
  BY DEF Units
<1> HIDE DEF own
<1>5. /\ IsFiniteSet(Units(nodes \ {x}, field) \cup own)
      /\ Cardinality(Units(nodes \ {x}, field) \cup own)
         = Cardinality(Units(nodes \ {x}, field)) + Cardinality(own)
  BY <1>2, <1>4, DisjointUnion
<1> QED
  BY <1>2, <1>3, <1>5

\* A finite set of nodes has finitely many units.
LEMMA UnitsFinite ==
  ASSUME NEW nodes, IsFiniteSet(nodes), NEW field, \A n \in nodes : n[field] \in Nat
  PROVE  IsFiniteSet(Units(nodes, field))
<1> DEFINE C == {s \in SUBSET nodes : ~IsFiniteSet(Units(s, field))}
<1>1. SUFFICES ASSUME C # {} PROVE FALSE
  <2>1. nodes \in SUBSET nodes
    OBVIOUS
  <2> QED
    BY <2>1
<1>2. \A s \in C : IsFiniteSet(s)
  BY FS_Subset
<1>3. PICK s \in C : \A x \in s : s \ {x} \notin C
  BY <1>1, <1>2, SmallestSet
<1>4. s # {}
  <2>1. Units({}, field) = {}
    BY DEF Units
  <2> QED
    BY <2>1, FS_EmptySet
<1>5. PICK x \in s : IsFiniteSet(Units(s \ {x}, field))
  BY <1>3, <1>4
<1> QED
  BY <1>5, UnitsOfOneMore

\* The sum counts the units, in whatever order the nodes are taken.
LEMMA SumCountsUnits ==
  ASSUME NEW nodes, IsFiniteSet(nodes), NEW field, \A n \in nodes : n[field] \in Nat
  PROVE  SumOf(nodes, field) = Cardinality(Units(nodes, field))
<1> DEFINE pick(s) == CHOOSE x \in s : TRUE
           Unfolds(f) == f = [s \in SUBSET nodes |->
                                IF s = {} THEN 0
                                ELSE f[s \ {pick(s)}] + pick(s)[field]]
           iter == CHOOSE f : Unfolds(f)
           count == [s \in SUBSET nodes |-> Cardinality(Units(s, field))]
<1>1. LET f[s \in SUBSET nodes] ==
            IF s = {} THEN 0
            ELSE LET x == CHOOSE x \in s : TRUE IN f[s \ {x}] + x[field]
      IN  SumOf(nodes, field) = f[nodes]
  BY Zenon DEF SumOf, FoldSet, MapThenFoldSet
<1>2. SumOf(nodes, field) = iter[nodes]
  BY Zenon, <1>1
<1>3. Units({}, field) = {} /\ Cardinality(Units({}, field)) = 0
  BY FS_EmptySet DEF Units
<1>4. \A s \in SUBSET nodes : s # {} =>
        Cardinality(Units(s, field))
        = Cardinality(Units(s \ {pick(s)}, field)) + pick(s)[field]
  <2> SUFFICES ASSUME NEW s \in SUBSET nodes, s # {}
               PROVE  Cardinality(Units(s, field))
                      = Cardinality(Units(s \ {pick(s)}, field)) + pick(s)[field]
    OBVIOUS
  <2>1. pick(s) \in s
    OBVIOUS
  <2> HIDE DEF pick
  <2>2. IsFiniteSet(s \ {pick(s)})
    BY FS_Subset
  <2>3. IsFiniteSet(Units(s \ {pick(s)}, field))
    BY <2>2, UnitsFinite
  <2> QED
    BY <2>1, <2>3, UnitsOfOneMore
<1>5. \A s \in SUBSET nodes : s # {} => pick(s) \in s
  OBVIOUS
<1> HIDE DEF pick
<1>6. Unfolds(count)
  BY <1>3, <1>4
<1>7. Unfolds(iter)
  BY <1>6
<1>8. \A s \in SUBSET nodes : iter[s] = Cardinality(Units(s, field))
  <2> DEFINE C == {s \in SUBSET nodes : iter[s] # Cardinality(Units(s, field))}
  <2> HIDE DEF iter
  <2>1. SUFFICES ASSUME C # {} PROVE FALSE
    OBVIOUS
  <2>2. \A s \in C : IsFiniteSet(s)
    BY FS_Subset
  <2>3. PICK s \in C : \A x \in s : s \ {x} \notin C
    BY <2>1, <2>2, SmallestSet
  <2>4. s # {}
    BY <1>3, <1>7
  <2>5. iter[s] = iter[s \ {pick(s)}] + pick(s)[field]
    BY <1>7, <2>4
  <2>6. iter[s \ {pick(s)}] = Cardinality(Units(s \ {pick(s)}, field))
    BY <1>5, <2>3, <2>4
  <2> QED
    BY <1>4, <2>3, <2>4, <2>5, <2>6
<1> QED
  BY <1>2, <1>8

\* More nodes have no smaller sum.
LEMMA SumGrows ==
  ASSUME NEW more, IsFiniteSet(more), NEW field, \A n \in more : n[field] \in Nat,
         NEW nodes \in SUBSET more
  PROVE  /\ SumOf(nodes, field) \in Nat /\ SumOf(more, field) \in Nat
         /\ SumOf(nodes, field) <= SumOf(more, field)
<1>1. IsFiniteSet(nodes)
  BY FS_Subset
<1>2. IsFiniteSet(Units(more, field)) /\ Units(nodes, field) \subseteq Units(more, field)
  BY UnitsFinite DEF Units
<1>3. /\ IsFiniteSet(Units(nodes, field))
      /\ Cardinality(Units(nodes, field)) <= Cardinality(Units(more, field))
  BY <1>2, FS_Subset
<1> QED
  BY <1>1, <1>2, <1>3, SumCountsUnits, FS_CardinalityType

\* Wrapping around never adds to a sum, and leaves one that fits alone.
LEMMA WrapBounded ==
  ASSUME NEW n \in Nat, NEW width \in Nat, 0 < width
  PROVE  /\ Wrap(n, width) \in Int /\ Wrap(n, width) <= n
         /\ n < width => Wrap(n, width) = n
BY DEF Wrap

-----------------------------------------------------------------------------
(* The selection.                                                          *)

\* The names are numbered in their order, each by its own number.
LEMMA KindNumbers ==
  /\ ToSet(Kinds) = {"certManager", "clusterResources", "ingressClass",
                     "kubernetesVersion", "storageClass"}
  /\ \A k \in ToSet(Kinds) : Number[k] \in 1 .. 5 /\ Kinds[Number[k]] = k
<1>1. DOMAIN Kinds = 1 .. 5 /\ ToSet(Kinds) = {Kinds[i] : i \in 1 .. 5}
  BY DEF Kinds, ToSet
<1>2. \A k \in ToSet(Kinds) : \E i \in 1 .. 5 : Kinds[i] = k
  BY <1>1
<1>3. \A k \in ToSet(Kinds) : Number[k] = CHOOSE i \in DOMAIN Kinds : Kinds[i] = k
  BY DEF Number
<1>4. \A k \in ToSet(Kinds) : Number[k] \in 1 .. 5 /\ Kinds[Number[k]] = k
  BY <1>1, <1>2, <1>3
<1>5. {Kinds[i] : i \in 1 .. 5} = {Kinds[1], Kinds[2], Kinds[3], Kinds[4], Kinds[5]}
  OBVIOUS
<1>6. /\ Kinds[1] = "certManager" /\ Kinds[2] = "clusterResources" /\ Kinds[3] = "ingressClass"
      /\ Kinds[4] = "kubernetesVersion" /\ Kinds[5] = "storageClass"
  BY DEF Kinds
<1> QED
  BY <1>1, <1>4, <1>5, <1>6

\* ListByProfile lists what is configured.
LEMMA ListsConfigured ==
  ASSUME NEW d
  PROVE  /\ ListByProfile(d) \in Seq(ToSet(Kinds))
         /\ ToSet(ListByProfile(d)) = Configured(d)
         /\ Len(ListByProfile(d)) \in 0 .. 5
<1> DEFINE S == Configured(d)
<1>1. S \subseteq ToSet(Kinds)
  BY KindNumbers DEF Configured
<1>2. \A k \in S : Number[k] \in 1 .. 5
  BY <1>1, KindNumbers
<1>3. \A k, l \in S : Number[k] = Number[l] => k = l
  BY <1>1, KindNumbers
<1>4. IsFiniteSet(S) /\ Cardinality(S) <= 5
  <2> DEFINE I == 1 .. 5
  <2>1. [k \in S |-> Number[k]] \in Injection(S, I)
    BY <1>2, <1>3 DEF Injection, IsInjective
  <2>2. IsFiniteSet(I) /\ Cardinality(I) = 5
    <3>1. \A n \in Nat : IsFiniteSet(1 .. n) /\ Cardinality(1 .. n) = n
      <4>1. ASSUME NEW n \in Nat PROVE IsFiniteSet(1 .. n) /\ Cardinality(1 .. n) = n
        BY FS_Interval
      <4> QED
        BY <4>1
    <3>2. 5 \in Nat
      OBVIOUS
    <3> QED
      BY Zenon, <3>1, <3>2
  <2> HIDE DEF I
  <2> QED
    BY <2>1, <2>2, FS_Injection
<1> HIDE DEF S
<1>5. /\ SortBy(S, Number) \in [1 .. Cardinality(S) -> S]
      /\ Cardinality(S) \in Nat
      /\ {SortBy(S, Number)[k] : k \in DOMAIN SortBy(S, Number)} = S
  <2>1. \A k \in S : Number[k] \in Int
    BY <1>2
  <2> QED
    BY <1>3, <1>4, <2>1, SortByLists
<1>6. SortBy(S, Number) \in Seq(S) /\ Len(SortBy(S, Number)) = Cardinality(S)
  BY <1>5
<1> QED
  BY <1>1, <1>4, <1>5, <1>6 DEF ListByProfile, ToSet, S

-----------------------------------------------------------------------------
(* The checks.                                                             *)

\* The forms of a finding, apart in their status.
LEMMA PassForm ==
  ASSUME NEW kind \in ToSet(Kinds)
  PROVE  /\ Pass(kind) \in Findings /\ Pass(kind).kind = kind
         /\ Pass(kind).status = "True" /\ Pass(kind).severity = "info"
BY DEF Findings, Reasons, Finding, Pass

LEMMA FindingForms ==
  ASSUME NEW kind \in ToSet(Kinds), NEW reason \in Reasons
  PROVE  /\ Fail(kind, reason) \in Findings /\ Fail(kind, reason).kind = kind
         /\ Fail(kind, reason).status = "False" /\ Fail(kind, reason).severity = "critical"
         /\ CannotSay(kind, reason) \in Findings /\ CannotSay(kind, reason).kind = kind
         /\ CannotSay(kind, reason).status = "Unknown"
         /\ Finding(kind, "False", "warning", reason) \in Findings
         /\ Finding(kind, "False", "warning", reason).kind = kind
         /\ Finding(kind, "False", "warning", reason).status = "False"
         /\ Finding(kind, "False", "warning", reason).severity = "warning"
BY DEF Findings, Reasons, Finding, Fail, CannotSay

\* Each name is that of its check.
LEMMA RunByName ==
  ASSUME NEW d, NEW c
  PROVE  /\ Run("certManager", d, c) = RunCertManager(c)
         /\ Run("clusterResources", d, c) = RunClusterResources(d, c)
         /\ Run("ingressClass", d, c) = RunIngressClass(d, c)
         /\ Run("kubernetesVersion", d, c) = RunKubernetesVersion(d, c)
         /\ Run("storageClass", d, c) = RunStorageClass(d, c)
BY DEF Run

\* What a check finds is a result under its own name.
LEMMA FindingsOfRun ==
  ASSUME NEW kind \in ToSet(Kinds), NEW d, NEW c
  PROVE  /\ Run(kind, d, c) \in Findings /\ Run(kind, d, c).kind = kind
         /\ RunLookupFails(kind, d) \in Findings /\ RunLookupFails(kind, d).kind = kind
         /\ RunLookupFails(kind, d).status = "Unknown"
<1>1. /\ RunLookupFails(kind, d) \in Findings /\ RunLookupFails(kind, d).kind = kind
      /\ RunLookupFails(kind, d).status = "Unknown"
  <2>1. \/ RunLookupFails(kind, d) = CannotSay(kind, "InvalidSpec")
        \/ RunLookupFails(kind, d) = CannotSay(kind, "LookupFailed")
    BY DEF RunLookupFails
  <2> QED
    BY <2>1, FindingForms DEF Reasons
<1>2. CASE kind = "certManager"
  <2>1. RunCertManager(c) \in {Pass(kind), Finding(kind, "False", "warning", "Missing")}
    BY <1>2 DEF RunCertManager
  <2> QED
    BY <1>1, <1>2, <2>1, RunByName, PassForm, FindingForms DEF Reasons
<1>3. CASE kind = "clusterResources"
  <2>1. RunClusterResources(d, c) \in {Pass(kind), CannotSay(kind, "InvalidSpec"),
          Fail(kind, "InsufficientResources"), Fail(kind, "InsufficientCPU"),
          Fail(kind, "InsufficientMemory")}
    BY Zenon, <1>3 DEF RunClusterResources
  <2> QED
    BY <1>1, <1>3, <2>1, RunByName, PassForm, FindingForms DEF Reasons
<1>4. CASE kind = "ingressClass"
  <2>1. RunIngressClass(d, c) \in {Pass(kind), Fail(kind, "Missing")}
    BY Zenon, <1>4 DEF RunIngressClass
  <2> QED
    BY <1>1, <1>4, <2>1, RunByName, PassForm, FindingForms DEF Reasons
<1>5. CASE kind = "kubernetesVersion"
  <2>1. RunKubernetesVersion(d, c) \in {Pass(kind), Fail(kind, "TooOld"),
          CannotSay(kind, "ServerVersionParseFailed"), CannotSay(kind, "MinVersionParseFailed")}
    BY Zenon, <1>5 DEF RunKubernetesVersion
  <2> QED
    BY <1>1, <1>5, <2>1, RunByName, PassForm, FindingForms DEF Reasons
<1>6. CASE kind = "storageClass"
  <2>1. RunStorageClass(d, c) \in {Pass(kind), Fail(kind, "Missing"), Fail(kind, "DefaultMissing")}
    BY Zenon, <1>6 DEF RunStorageClass
  <2> QED
    BY <1>1, <1>6, <2>1, RunByName, PassForm, FindingForms DEF Reasons
<1> QED
  BY <1>2, <1>3, <1>4, <1>5, <1>6, KindNumbers

-----------------------------------------------------------------------------
(* The inductive invariant.                                               *)

\* It holds before the checks are selected.
LEMMA InitHolds == Init => IInv
BY DEF Init, IInv, TypeOK, Account, Sighted

\* A step of the loop appends what the check says now (runChecks).
LEMMA RunNextSafe ==
  ASSUME IInv, RunNext PROVE IInv'
<1> DEFINE kind == Head(todo)
           active == ListByProfile(demand)
<1>1. /\ kind \in ToSet(Kinds) /\ todo' \in Seq(ToSet(Kinds))
      /\ Len(todo) \in Nat \ {0} /\ DOMAIN todo = 1 .. Len(todo)
      /\ Len(todo') = Len(todo) - 1 /\ DOMAIN todo' = 1 .. Len(todo) - 1
      /\ \A i \in 1 .. Len(todo) - 1 : i + 1 \in DOMAIN todo /\ todo'[i] = todo[i + 1]
      /\ kind = todo[1] /\ 1 \in DOMAIN todo
  <2>1. todo \in Seq(ToSet(Kinds)) /\ todo # <<>> /\ todo' = Tail(todo)
    BY DEF IInv, TypeOK, RunNext
  <2> QED
    BY <2>1
<1>2. PICK r \in {Run(kind, demand, cluster), RunLookupFails(kind, demand)} :
        results' = Append(results, r)
  BY DEF RunNext
<1>3. r \in Findings /\ r.kind = kind
  BY <1>1, <1>2, FindingsOfRun
<1>4. /\ results \in Seq(Findings) /\ results' \in Seq(Findings)
      /\ DOMAIN results' = 1 .. Len(results) + 1 /\ DOMAIN results = 1 .. Len(results)
      /\ \A i \in 1 .. Len(results) : results'[i] = results[i]
      /\ results'[Len(results) + 1] = r
      /\ Len(results) \in Nat /\ Len(results') = Len(results) + 1
  BY <1>2, <1>3 DEF IInv, TypeOK
<1> HIDE DEF kind, active
<1>5. TypeOK'
  BY <1>1, <1>4 DEF IInv, TypeOK, RunNext
<1>6. Account'
  <2>1. /\ stage = "check" /\ stage' = "check" /\ rejected' = rejected /\ rejected = "none"
        /\ active' = active
    BY DEF RunNext, active, IInv, Account
  <2>2. /\ Len(results) + Len(todo) = Len(active)
        /\ \A i \in DOMAIN results : results[i].kind = active[i]
        /\ \A i \in DOMAIN todo : todo[i] = active[Len(results) + i]
    BY <2>1 DEF IInv, Account, active
  <2>3. Len(results') + Len(todo') = Len(active)
    <3>1. /\ Len(results) \in Nat /\ Len(results') = Len(results) + 1
          /\ Len(todo) \in Nat /\ Len(todo') = Len(todo) - 1
      BY <1>1, <1>4
    <3>2. Len(results) + Len(todo) = Len(active)
      BY <2>2
    <3> QED
      BY <3>1, <3>2
  <2>4. \A i \in DOMAIN results' : results'[i].kind = active[i]
    <3>1. \A i \in DOMAIN results' : i \in DOMAIN results \/ i = Len(results) + 1
      BY <1>4
    <3>2. r.kind = active[Len(results) + 1]
      BY <1>1, <1>3, <2>2
    <3> QED
      <4> SUFFICES ASSUME NEW i \in DOMAIN results' PROVE results'[i].kind = active[i]
        OBVIOUS
      <4>1. CASE i \in DOMAIN results
        <5>1. results'[i] = results[i]
          BY <1>4, <4>1
        <5> QED
          BY <2>2, <4>1, <5>1
      <4>2. CASE i = Len(results) + 1
        BY <1>4, <3>2, <4>2
      <4> QED
        BY <3>1, <4>1, <4>2
  <2>5. \A i \in DOMAIN todo' : todo'[i] = active[Len(results') + i]
    <3>1. \A i \in DOMAIN todo' : /\ i \in Nat /\ i + 1 \in DOMAIN todo
                                  /\ todo'[i] = todo[i + 1]
                                  /\ Len(results') + i = Len(results) + (i + 1)
      BY <1>1, <1>4
    <3> QED
      BY <2>2, <3>1
  <2> QED
    BY <2>1, <2>3, <2>4, <2>5 DEF Account, active
<1>7. Sighted'
  <2>1. demand' = demand /\ seen' = seen /\ cluster \in seen
    BY DEF RunNext, IInv, TypeOK
  <2>2. \A i \in DOMAIN results' : results'[i] = r \/ (i \in DOMAIN results /\ results'[i] = results[i])
    BY <1>4
  <2> QED
    BY <1>2, <1>3, <2>1, <2>2 DEF IInv, Sighted
<1> QED
  BY <1>5, <1>6, <1>7 DEF IInv

\* Every step keeps the invariant.
LEMMA NextHolds == IInv /\ [Next]_vars => IInv'
<1> SUFFICES ASSUME IInv, [Next]_vars PROVE IInv'
  OBVIOUS
<1>1. CASE UNCHANGED vars
  BY <1>1 DEF vars, IInv, TypeOK, Account, Sighted
<1>2. CASE RejectSpec \/ RejectSelection
  BY <1>2 DEF RejectSpec, RejectSelection, IInv, TypeOK, Account, Sighted
<1>3. CASE Select
  <2> DEFINE active == ListByProfile(demand)
  <2>1. active \in Seq(ToSet(Kinds)) /\ todo' = active /\ active' = active
    BY <1>3, ListsConfigured DEF Select
  <2>2. results = <<>> /\ results' = <<>> /\ rejected' = "none" /\ stage' = "check"
    BY <1>3 DEF Select, IInv, Account
  <2> HIDE DEF active
  <2>3. /\ Len(results') = 0 /\ DOMAIN results' = {} /\ Len(active) \in Nat
        /\ \A i \in DOMAIN active : 0 + i = i
    BY <2>1, <2>2
  <2>4. Account'
    BY <2>1, <2>2, <2>3 DEF Account, active
  <2>5. TypeOK' /\ Sighted'
    BY <1>3, <2>1, <2>2, <2>3 DEF Select, IInv, TypeOK, Sighted
  <2> QED
    BY <2>4, <2>5 DEF IInv
<1>4. CASE RunNext
  BY <1>4, RunNextSafe
<1>5. CASE Finish
  BY <1>5 DEF Finish, IInv, TypeOK, Account, Sighted
<1>6. CASE \E c \in Clusters : ClusterChanges(c)
  BY <1>6 DEF ClusterChanges, IInv, TypeOK, Account, Sighted
<1> QED
  BY <1>1, <1>2, <1>3, <1>4, <1>5, <1>6 DEF Next

\* When the checks are done, the results are those of the configured ones.
LEMMA DoneHasAll ==
  ASSUME IInv, stage = "done", rejected = "none"
  PROVE  {results[i].kind : i \in DOMAIN results} = Configured(demand)
<1> DEFINE active == ListByProfile(demand)
<1>1. active \in Seq(ToSet(Kinds)) /\ ToSet(active) = Configured(demand)
  BY ListsConfigured
<1>2. /\ todo = <<>> /\ Len(results) + Len(todo) = Len(active)
      /\ \A i \in DOMAIN results : results[i].kind = active[i]
      /\ results \in Seq(Findings)
  BY DEF IInv, TypeOK, Account
<1> HIDE DEF active
<1>3. DOMAIN results = DOMAIN active
  BY <1>1, <1>2
<1> QED
  BY <1>1, <1>2, <1>3 DEF ToSet

\* The types, the account of what was selected, and the sightings hold in every
\* state of a run (Reconcile, runChecks).
THEOREM InvariantHolds == Spec => []IInv
BY InitHolds, NextHolds, PTL DEF Spec

\* Each configured check has its result, unless the run was rejected
\* (buildSpecMap, ListByProfile, runChecks).
THEOREM NothingMissing == Spec => []NothingPassedOver
<1>1. IInv => NothingPassedOver
  <2> SUFFICES ASSUME IInv, stage = "done", rejected = "none"
               PROVE  NothingPassedOver
    BY DEF NothingPassedOver
  <2>1. {results[i].kind : i \in DOMAIN results} = Configured(demand)
    BY DoneHasAll
  <2>2. \A k \in Configured(demand) : \E i \in DOMAIN results : results[i].kind = k
    BY <2>1
  <2> QED
    BY <2>1, <2>2 DEF NothingPassedOver, Configured
<1> QED
  BY <1>1, InvariantHolds, PTL

-----------------------------------------------------------------------------
(* The loop of the checks and the aggregation of what it collects.         *)

\* A result that a check may report is one Aggregation is written for.
LEMMA ReportedForm ==
  ASSUME NEW rs \in Seq(Findings), NEW r \in Findings
  PROVE  /\ Reported(rs) \in Seq(A!Results) /\ Len(Reported(rs)) = Len(rs)
         /\ \E s \in A!Results : Reported(Append(rs, r)) = Append(Reported(rs), s)
<1> DEFINE result(f) == [name |-> Number[f.kind], status |-> f.status,
                         severity |-> f.severity, time |-> 1]
<1>1. \A f \in Findings : result(f) \in A!Results
  <2>1. DOMAIN Kinds = 1 .. 5
    BY DEF Kinds
  <2>2. \A f \in Findings : /\ Number[f.kind] \in DOMAIN Kinds
                            /\ f.status \in {"True", "False", "Unknown"}
                            /\ f.severity \in {"critical", "warning", "info"}
    BY <2>1, KindNumbers DEF Findings
  <2> QED
    BY <2>2 DEF A!Results, A!Severities
<1>2. \A ts : Reported(ts) = [i \in DOMAIN ts |-> result(ts[i])]
  BY DEF Reported
<1> HIDE DEF result
<1>3. Reported(rs) \in Seq(A!Results) /\ Len(Reported(rs)) = Len(rs)
  BY <1>1, <1>2
<1>4. Reported(Append(rs, r)) = Append(Reported(rs), result(r))
  <2> DEFINE ts == Append(rs, r)
             n == Len(rs)
             S == Reported(rs)
             s == result(r)
  <2>1. /\ n \in Nat /\ ts \in Seq(Findings) /\ DOMAIN ts = 1 .. n + 1 /\ ts[n + 1] = r
        /\ \A i \in 1 .. n : ts[i] = rs[i]
    OBVIOUS
  <2>2. S \in Seq(A!Results) /\ Len(S) = n /\ s \in A!Results /\ \A i \in 1 .. n : S[i] = result(rs[i])
    BY <1>1, <1>2, <1>3
  <2> HIDE DEF ts, S, s
  <2>3. /\ Reported(ts) \in Seq(A!Results) /\ Len(Reported(ts)) = n + 1
        /\ \A i \in 1 .. n + 1 : Reported(ts)[i] = result(ts[i])
    BY <1>1, <1>2, <2>1
  <2>4. /\ Append(S, s) \in Seq(A!Results) /\ Len(Append(S, s)) = n + 1
        /\ Append(S, s)[n + 1] = s /\ \A i \in 1 .. n : Append(S, s)[i] = S[i]
    BY <2>2
  <2>5. Reported(ts)[n + 1] = s /\ \A i \in 1 .. n : Reported(ts)[i] = S[i]
    BY <2>1, <2>2, <2>3 DEF s
  <2>6. \A i \in 1 .. n + 1 : Reported(ts)[i] = Append(S, s)[i]
    <3>1. \A i \in 1 .. n + 1 : i = n + 1 \/ i \in 1 .. n
      BY <2>1
    <3> QED
      BY <2>4, <2>5, <3>1
  <2>7. Reported(ts) = Append(S, s)
    BY <2>3, <2>4, <2>6, SeqEqual
  <2> QED
    BY <2>7 DEF ts, S, s
<1> QED
  BY <1>1, <1>3, <1>4

\* No more than the five kinds of checks are ever reported.
LEMMA RoomForMore ==
  ASSUME IInv, RunNext
  PROVE  Len(results) < Len(Kinds)
<1>1. Len(ListByProfile(demand)) \in 0 .. 5
  BY ListsConfigured
<1>2. Len(results) + Len(todo) = Len(ListByProfile(demand))
  BY DEF IInv, Account, RunNext
<1>3. Len(results) \in Nat /\ Len(todo) \in Nat \ {0}
  <2>1. results \in Seq(Findings) /\ todo \in Seq(ToSet(Kinds)) /\ todo # <<>>
    BY DEF IInv, TypeOK, RunNext
  <2> QED
    BY <2>1
<1>4. Len(Kinds) = 5
  BY DEF Kinds
<1> QED
  BY <1>1, <1>2, <1>3, <1>4

\* The loop over the checks implements the specification of Aggregation: each
\* step appends one more result, no result is changed or taken back, and none is
\* of a form the aggregation does not know (runChecks, Aggregate).
THEOREM ChecksAggregate == Spec => A!Spec
<1>1. Init => A!Init
  <2>1. Reported(<<>>) = <<>>
    BY DEF Reported
  <2> QED
    BY <2>1 DEF Init, A!Init
<1>2. IInv /\ [Next]_vars => [A!Next]_A!vars
  <2> SUFFICES ASSUME IInv, [Next]_vars PROVE [A!Next]_A!vars
    OBVIOUS
  <2>1. CASE RunNext
    <3>1. Len(results) < Len(Kinds)
      BY <2>1, RoomForMore
    <3>2. results \in Seq(Findings) /\ Head(todo) \in ToSet(Kinds)
      BY <2>1 DEF IInv, TypeOK, RunNext
    <3>3. PICK r \in {Run(Head(todo), demand, cluster), RunLookupFails(Head(todo), demand)} :
            results' = Append(results, r)
      BY <2>1 DEF RunNext
    <3>4. r \in Findings
      BY <3>2, <3>3, FindingsOfRun
    <3>5. /\ Len(Reported(results)) = Len(results)
          /\ \E s \in A!Results : Reported(results)' = Append(Reported(results), s)
      <4>1. Reported(results)' = Reported(results')
        BY DEF Reported
      <4> QED
        BY <3>2, <3>3, <3>4, <4>1, ReportedForm
    <3> QED
      BY <3>1, <3>5 DEF A!Next, A!AppendResult
  <2>2. CASE results' = results
    BY <2>2 DEF A!vars, Reported
  <2> QED
    BY <2>1, <2>2 DEF Next, vars, RejectSpec, RejectSelection, Select, Finish, ClusterChanges
<1> QED
  BY <1>1, <1>2, InvariantHolds, PTL DEF Spec, A!Spec

-----------------------------------------------------------------------------
(* What Passed means.                                                      *)

\* An option that is set is its element, one that is not is the default.
LEMMA OptionSet ==
  ASSUME NEW S, NEW option \in Option(S), NEW default
  PROVE  /\ \A v \in option : OrElse(option, default) = v
         /\ option = {} => OrElse(option, default) = default
         /\ default \in S => OrElse(option, default) \in S
BY DEF OrElse, Option

\* A run that passed has looked at each of its checks, and saw it pass.
LEMMA PassedRuns ==
  ASSUME IInv, stage = "done", Phase = "Passed"
  PROVE  \A k \in Configured(demand) : \E c \in seen : Run(k, demand, c).status = "True"
<1>1. rejected = "none" /\ A!DerivePhase(Reported(results)) = "Passed"
  BY DEF Phase
<1>2. \A i \in DOMAIN results : results[i] \in Findings
  BY DEF IInv, TypeOK
<1>3. ASSUME NEW i \in DOMAIN results PROVE results[i].status = "True"
  <2>1. /\ i \in DOMAIN Reported(results)
        /\ Reported(results)[i].status = results[i].status
        /\ Reported(results)[i].severity = results[i].severity
    BY DEF Reported
  <2>2. results[i].status \notin {"False", "Unknown"}
    BY <1>1, <2>1 DEF A!DerivePhase, A!Has, A!Failed, A!FailedNonCritical, A!Unknown
  <2> QED
    BY <1>2, <2>2 DEF Findings
<1>4. {results[i].kind : i \in DOMAIN results} = Configured(demand)
  BY <1>1, DoneHasAll
<1>5. ASSUME NEW i \in DOMAIN results
      PROVE  \E c \in seen : Run(results[i].kind, demand, c).status = "True"
  <2>1. results[i].kind \in ToSet(Kinds)
    BY <1>2 DEF Findings
  <2>2. results[i] # RunLookupFails(results[i].kind, demand)
    <3>1. RunLookupFails(results[i].kind, demand).status = "Unknown"
      BY <2>1, FindingsOfRun
    <3> QED
      BY <1>3, <3>1
  <2> QED
    BY <1>3, <2>2 DEF IInv, Sighted
<1> QED
  BY <1>4, <1>5

\* The sum a check compares is not above that of the ready nodes.
LEMMA TotalBounded ==
  ASSUME NEW c \in Clusters, NEW field \in {"cpu", "mem"}, NEW width \in Nat, 0 < width
  PROVE  /\ Total(c, field, width) \in Int
         /\ \A q \in Int : q <= Total(c, field, width) => HasAtLeast(c, field, q)
<1> DEFINE N == {n \in c.nodes : n.ready = "True"}
<1>1. ListReadyNodes(c) = N
  BY DEF ListReadyNodes, IsNodeReady
<1>2. IsFiniteSet(N) /\ \A n \in N : n[field] \in Nat
  <2>1. IsFiniteSet(c.nodes) /\ c.nodes \subseteq Nodes
    BY ClustersAssumption DEF ClusterStates
  <2> QED
    BY <2>1, FS_Subset DEF Nodes
<1> HIDE DEF N
<1>3. SumOf(N, field) \in Nat
  BY <1>2, SumGrows
<1>4. Total(c, field, width) \in Int /\ Total(c, field, width) <= SumOf(N, field)
  BY <1>1, <1>3, WrapBounded DEF Total
<1>5. \A q \in Int : q <= Total(c, field, width) => SumOf(N, field) >= q
  BY <1>3, <1>4
<1>6. \A q : SumOf(N, field) >= q => HasAtLeast(c, field, q)
  BY DEF HasAtLeast, N
<1> QED
  BY <1>4, <1>5, <1>6

\* A check of the resources that passed has seen the minimum, if it fits.
LEMMA ResourcesMet ==
  ASSUME NEW d, NEW c \in Clusters, Minimum(d).cpu \in Int, Minimum(d).mem \in Int,
         RunClusterResources(d, c).status = "True"
  PROVE  /\ Minimum(d).cpu < CPUWidth => HasAtLeast(c, "cpu", Minimum(d).cpu)
         /\ Minimum(d).mem < MemWidth => HasAtLeast(c, "mem", Minimum(d).mem)
<1> DEFINE cpu == Minimum(d).cpu
           mem == Minimum(d).mem
           cpuTotal == Total(c, "cpu", CPUWidth)
           memTotal == Total(c, "mem", MemWidth)
<1>1. /\ cpuTotal \in Int /\ \A q \in Int : q <= cpuTotal => HasAtLeast(c, "cpu", q)
      /\ memTotal \in Int /\ \A q \in Int : q <= memTotal => HasAtLeast(c, "mem", q)
  BY WidthAssumption, TotalBounded
<1>2. ~(cpuTotal < MilliValue(cpu)) /\ ~(memTotal < Value(mem))
  <2>1. "clusterResources" \in ToSet(Kinds)
    BY KindNumbers
  <2>2. \A reason \in Reasons : /\ CannotSay("clusterResources", reason).status = "Unknown"
                                /\ Fail("clusterResources", reason).status = "False"
    BY <2>1, FindingForms
  <2>3. /\ CannotSay("clusterResources", "InvalidSpec").status # "True"
        /\ Fail("clusterResources", "InsufficientResources").status # "True"
        /\ Fail("clusterResources", "InsufficientCPU").status # "True"
        /\ Fail("clusterResources", "InsufficientMemory").status # "True"
    BY <2>2 DEF Reasons
  <2> QED
    BY Zenon, <2>3 DEF RunClusterResources
<1>3. /\ cpu < CPUWidth => MilliValue(cpu) = cpu
      /\ mem < MemWidth => Value(mem) = mem
  BY DEF MilliValue, Value
<1> HIDE DEF cpuTotal, memTotal
<1> QED
  BY <1>1, <1>2, <1>3

\* An empty profile is the production one.
IsProduction(profile) == profile \in {"", "production"}

\* The floor of the production profile, which is the one of an empty profile.
LEMMA FloorOf ==
  ASSUME NEW profile
  PROVE  /\ DefaultsFor(profile).cpu \in Int /\ DefaultsFor(profile).mem \in Int
         /\ IsProduction(profile) =>
              DefaultsFor(profile).cpu = 4000 /\ DefaultsFor(profile).mem = 8192
<1>1. DefaultsFor(profile) \in {ProductionFloor, EvaluationFloor}
  BY DEF DefaultsFor
<1>2. IsProduction(profile) => DefaultsFor(profile) = ProductionFloor
  BY Zenon DEF DefaultsFor, ProfileWithDefault, IsProduction
<1>3. /\ ProductionFloor.cpu = 4000 /\ ProductionFloor.mem = 8192
      /\ EvaluationFloor.cpu = 2000 /\ EvaluationFloor.mem = 4096
  BY DEF ProductionFloor, EvaluationFloor
<1> QED
  BY <1>1, <1>2, <1>3

\* The demands on the resources, written or default, were met when that check
\* passed.
LEMMA MinimumMet ==
  ASSUME NEW d \in ChecksSpec, NEW c \in Clusters, RunClusterResources(d, c).status = "True"
  PROVE  /\ \A q \in d.cpu : q < CPUWidth => HasAtLeast(c, "cpu", q)
         /\ \A q \in d.mem : q < MemWidth => HasAtLeast(c, "mem", q)
         /\ d.cpu = {} /\ IsProduction(d.profile) => HasAtLeast(c, "cpu", 4000)
         /\ d.mem = {} /\ IsProduction(d.profile) => HasAtLeast(c, "mem", 8192)
<1> DEFINE floor == DefaultsFor(d.profile)
           cpu == Minimum(d).cpu
           mem == Minimum(d).mem
<1>1. d.cpu \in Option(Int) /\ d.mem \in Option(Int)
  BY DEF ChecksSpec
<1>2. cpu = OrElse(d.cpu, floor.cpu) /\ mem = OrElse(d.mem, floor.mem)
  BY DEF Minimum
<1>3. /\ floor.cpu \in Int /\ floor.mem \in Int
      /\ IsProduction(d.profile) => floor.cpu = 4000 /\ floor.mem = 8192
  BY FloorOf
<1> HIDE DEF floor, cpu, mem
<1>4. /\ \A q \in d.cpu : cpu = q
      /\ d.cpu = {} => cpu = floor.cpu
      /\ cpu \in Int
  BY <1>1, <1>2, <1>3, OptionSet
<1>5. /\ \A q \in d.mem : mem = q
      /\ d.mem = {} => mem = floor.mem
      /\ mem \in Int
  BY <1>1, <1>2, <1>3, OptionSet
<1>6. /\ cpu < CPUWidth => HasAtLeast(c, "cpu", cpu)
      /\ mem < MemWidth => HasAtLeast(c, "mem", mem)
  BY <1>4, <1>5, ResourcesMet DEF cpu, mem
<1>7. 4000 < CPUWidth /\ 8192 < MemWidth
  BY WidthAssumption
<1>8. ASSUME NEW q \in d.cpu, q < CPUWidth PROVE HasAtLeast(c, "cpu", q)
  BY <1>4, <1>6, <1>8
<1>9. ASSUME NEW q \in d.mem, q < MemWidth PROVE HasAtLeast(c, "mem", q)
  BY <1>5, <1>6, <1>9
<1>10. ASSUME IsProduction(d.profile)
       PROVE  /\ d.cpu = {} => HasAtLeast(c, "cpu", 4000)
              /\ d.mem = {} => HasAtLeast(c, "mem", 8192)
  <2>1. floor.cpu = 4000 /\ floor.mem = 8192
    BY <1>3, <1>10
  <2> QED
    BY <1>4, <1>5, <1>6, <1>7, <2>1
<1> QED
  BY <1>8, <1>9, <1>10

\* A check of the version that passed has seen one that is not less.
LEMMA VersionMet ==
  ASSUME NEW d, NEW c, RunKubernetesVersion(d, c).status = "True"
  PROVE  c.version # NoVersion /\ MinVersion(d) # NoVersion /\ ~Less(c.version, MinVersion(d))
<1>1. "kubernetesVersion" \in ToSet(Kinds)
  BY KindNumbers
<1>2. \A reason \in Reasons : /\ CannotSay("kubernetesVersion", reason).status = "Unknown"
                              /\ Fail("kubernetesVersion", reason).status = "False"
  BY <1>1, FindingForms
<1>3. /\ CannotSay("kubernetesVersion", "ServerVersionParseFailed").status # "True"
      /\ CannotSay("kubernetesVersion", "MinVersionParseFailed").status # "True"
      /\ Fail("kubernetesVersion", "TooOld").status # "True"
  BY <1>2 DEF Reasons
<1> QED
  BY Zenon, <1>3 DEF RunKubernetesVersion

\* A check of the classes that passed has seen them.
LEMMA ClassesMet ==
  ASSUME NEW d \in ChecksSpec, NEW c
  PROVE  /\ RunIngressClass(d, c).status = "True" =>
              \A s \in d.ingress : s.names \subseteq c.ingress
         /\ RunStorageClass(d, c).status = "True" =>
              \A s \in d.storage : s.names \subseteq Present(c) /\ (s.default => HasDefaultClass(c))
<1>1. /\ Fail("ingressClass", "Missing").status = "False"
      /\ Fail("storageClass", "Missing").status = "False"
      /\ Fail("storageClass", "DefaultMissing").status = "False"
  BY DEF Fail, Finding
<1>2. \A s \in d.storage : s = CHOOSE t \in d.storage : TRUE
  BY DEF ChecksSpec, Option
<1>3. ASSUME RunStorageClass(d, c).status = "True", NEW s \in d.storage
      PROVE  s.names \subseteq Present(c) /\ (s.default => HasDefaultClass(c))
  <2>1. s = CHOOSE t \in d.storage : TRUE
    BY <1>2
  <2>2. s.names \subseteq Present(c) /\ ~(s.default /\ \A class \in c.storage : ~IsDefault(class))
    BY Zenon, <1>1, <1>3, <2>1 DEF RunStorageClass
  <2> QED
    BY <2>2 DEF HasDefaultClass, IsDefault
<1>4. RunIngressClass(d, c).status = "True" => \A s \in d.ingress : s.names \subseteq c.ingress
  BY <1>1 DEF RunIngressClass
<1> QED
  BY <1>3, <1>4

\* Passed means that each demand, written or default, was met at some moment of
\* the run (buildSpecMap, the checks, derivePhase).
THEOREM PassedMet == Spec => []PassedMeansMet
<1>1. ASSUME IInv, stage = "done", Phase = "Passed" PROVE PassedMeansMet
  <2> DEFINE d == demand
  <2>1. d \in ChecksSpec /\ seen \subseteq Clusters
    BY <1>1, DemandsAssumption DEF IInv, TypeOK
  <2>2. \A k \in Configured(d) : \E c \in seen : Run(k, d, c).status = "True"
    BY <1>1, PassedRuns
  <2>3. \A s \in d.storage :
          \E c \in seen : s.names \subseteq Present(c) /\ (s.default => HasDefaultClass(c))
    <3> SUFFICES ASSUME NEW s \in d.storage
                 PROVE  \E c \in seen : s.names \subseteq Present(c) /\ (s.default => HasDefaultClass(c))
      OBVIOUS
    <3>1. "storageClass" \in Configured(d)
      BY DEF Configured
    <3>2. PICK c \in seen : RunStorageClass(d, c).status = "True"
      BY <2>2, <3>1, RunByName
    <3> QED
      BY <2>1, <3>2, ClassesMet
  <2>4. \A s \in d.ingress : \E c \in seen : s.names \subseteq c.ingress
    <3> SUFFICES ASSUME NEW s \in d.ingress PROVE \E c \in seen : s.names \subseteq c.ingress
      OBVIOUS
    <3>1. "ingressClass" \in Configured(d)
      BY DEF Configured
    <3>2. PICK c \in seen : RunIngressClass(d, c).status = "True"
      BY <2>2, <3>1, RunByName
    <3> QED
      BY <2>1, <3>2, ClassesMet
  <2>5. {"kubernetesVersion", "certManager", "clusterResources"} \subseteq Configured(d)
    BY DEF Configured
  <2>6. PICK c \in seen : RunClusterResources(d, c).status = "True"
    BY <2>2, <2>5, RunByName
  <2>7. d.version \in Option(Versions)
    BY <2>1 DEF ChecksSpec
  <2>11. PICK b \in seen : RunKubernetesVersion(d, b).status = "True"
    BY <2>2, <2>5, RunByName
  <2>12. b.version # NoVersion /\ ~Less(b.version, MinVersion(d))
    BY <2>11, VersionMet
  <2>13. /\ \A v \in d.version : MinVersion(d) = v
         /\ d.version = {} => MinVersion(d) = DefaultVersion
    BY <2>7, OptionSet DEF MinVersion
  <2>14. d.version = {} => b.version[1] > 1 \/ (b.version[1] = 1 /\ b.version[2] >= 34)
    <3>1. b.version \in [1 .. 4 -> Nat]
      BY <2>1, <2>12, ClustersAssumption DEF ClusterStates, Versions
    <3>2. ASSUME ~Less(b.version, DefaultVersion)
          PROVE  b.version[1] > 1 \/ (b.version[1] = 1 /\ b.version[2] >= 34)
      <4>1. ~(b.version[1] < DefaultVersion[1])
        BY <3>2 DEF Less
      <4>2. ~(b.version[2] < DefaultVersion[2] /\ b.version[1] = DefaultVersion[1])
        BY <3>2 DEF Less
      <4>3. DefaultVersion[1] = 1 /\ DefaultVersion[2] = 34
        BY DEF DefaultVersion
      <4> QED
        BY <3>1, <4>1, <4>2, <4>3
    <3> QED
      BY <2>12, <2>13, <3>2
  <2>15. PICK a \in seen : RunCertManager(a).status = "True"
    BY <2>2, <2>5, RunByName
  <2>16. "cert-manager.io" \in a.groups
    BY <2>15 DEF RunCertManager, HasAPIGroup, CertManagerAPIGroup, Finding
  <2>17. /\ \A q \in d.cpu : q < CPUWidth => HasAtLeast(c, "cpu", q)
         /\ \A q \in d.mem : q < MemWidth => HasAtLeast(c, "mem", q)
         /\ d.cpu = {} /\ IsProduction(d.profile) => HasAtLeast(c, "cpu", 4000)
         /\ d.mem = {} /\ IsProduction(d.profile) => HasAtLeast(c, "mem", 8192)
    BY <2>1, <2>6, MinimumMet
  <2>18. \A q \in d.cpu : q < CPUWidth => \E e \in seen : HasAtLeast(e, "cpu", q)
    BY <2>17
  <2>19. \A q \in d.mem : q < MemWidth => \E e \in seen : HasAtLeast(e, "mem", q)
    BY <2>17
  <2>20. d.cpu = {} /\ d.profile \in {"", "production"} => \E e \in seen : HasAtLeast(e, "cpu", 4000)
    <3>1. d.profile \in {"", "production"} => IsProduction(d.profile)
      BY Zenon DEF IsProduction
    <3>2. d.cpu = {} /\ IsProduction(d.profile) => \E e \in seen : HasAtLeast(e, "cpu", 4000)
      BY <2>17
    <3> QED
      BY Zenon, <3>1, <3>2
  <2>21. d.mem = {} /\ d.profile \in {"", "production"} => \E e \in seen : HasAtLeast(e, "mem", 8192)
    <3>1. d.profile \in {"", "production"} => IsProduction(d.profile)
      BY Zenon DEF IsProduction
    <3>2. d.mem = {} /\ IsProduction(d.profile) => \E e \in seen : HasAtLeast(e, "mem", 8192)
      BY <2>17
    <3> QED
      BY Zenon, <3>1, <3>2
  <2>22. \A v \in d.version : \E e \in seen : e.version # NoVersion /\ ~Less(e.version, v)
    BY <2>12, <2>13
  <2>23. d.version = {} =>
           \E e \in seen : /\ e.version # NoVersion
                          /\ \/ e.version[1] > 1
                             \/ e.version[1] = 1 /\ e.version[2] >= 34
    BY <2>12, <2>14
  <2>24. \E e \in seen : "cert-manager.io" \in e.groups
    BY <2>16
  <2> QED
    BY Zenon, <2>3, <2>4, <2>18, <2>19, <2>20, <2>21, <2>22, <2>23, <2>24 DEF PassedMeansMet
<1>2. IInv => PassedMeansMet
  BY <1>1 DEF PassedMeansMet
<1> QED
  BY <1>2, InvariantHolds, PTL

-----------------------------------------------------------------------------
(* More is never worse.                                                    *)

\* Finding s is no worse than finding r: it passed, or is of the same weight.
NoWorse(s, r) == s.status = "True" \/ (s.status = r.status /\ s.severity = r.severity)

\* More nodes have no smaller total, as none is too large for an int64.
LEMMA TotalGrows ==
  ASSUME NEW c \in Clusters, NEW e \in Clusters, Within(c, e)
  PROVE  /\ Total(c, "cpu", CPUWidth) <= Total(e, "cpu", CPUWidth)
         /\ Total(c, "mem", MemWidth) <= Total(e, "mem", MemWidth)
         /\ Total(c, "cpu", CPUWidth) \in Int /\ Total(e, "cpu", CPUWidth) \in Int
         /\ Total(c, "mem", MemWidth) \in Int /\ Total(e, "mem", MemWidth) \in Int
<1> DEFINE C == ListReadyNodes(c)
           E == ListReadyNodes(e)
<1>1. C \subseteq E
  BY DEF Within, ListReadyNodes, IsNodeReady
<1>2. IsFiniteSet(E) /\ E \subseteq Nodes
  <2>1. IsFiniteSet(e.nodes) /\ e.nodes \subseteq Nodes /\ E \subseteq e.nodes
    BY ClustersAssumption DEF ClusterStates, ListReadyNodes
  <2> QED
    BY <2>1, FS_Subset
<1>3. \A n \in E : n["cpu"] \in Nat /\ n["mem"] \in Nat
  BY <1>2 DEF Nodes
<1>4. /\ SumOf(C, "cpu") < CPUWidth /\ SumOf(E, "cpu") < CPUWidth
      /\ SumOf(C, "mem") < MemWidth /\ SumOf(E, "mem") < MemWidth
  BY TotalsAssumption
<1> HIDE DEF C, E
<1>5. /\ SumOf(C, "cpu") \in Nat /\ SumOf(E, "cpu") \in Nat /\ SumOf(C, "cpu") <= SumOf(E, "cpu")
      /\ SumOf(C, "mem") \in Nat /\ SumOf(E, "mem") \in Nat /\ SumOf(C, "mem") <= SumOf(E, "mem")
  BY <1>1, <1>2, <1>3, SumGrows
<1>6. /\ Wrap(SumOf(C, "cpu"), CPUWidth) = SumOf(C, "cpu")
      /\ Wrap(SumOf(E, "cpu"), CPUWidth) = SumOf(E, "cpu")
      /\ Wrap(SumOf(C, "mem"), MemWidth) = SumOf(C, "mem")
      /\ Wrap(SumOf(E, "mem"), MemWidth) = SumOf(E, "mem")
  BY <1>4, <1>5, WidthAssumption, WrapBounded
<1> QED
  BY <1>5, <1>6 DEF Total, C, E

\* A version that is less than another is so after a downgrade, too.
LEMMA LessUpgrades ==
  ASSUME NEW v \in [1 .. 4 -> Nat], NEW w \in [1 .. 4 -> Nat], NEW m \in [1 .. 4 -> Nat],
         Upgrades(v, w), Less(w, m)
  PROVE  Less(v, m)
<1>1. CASE v = w
  BY <1>1
<1>2. CASE \E i \in 1 .. 3 : v[i] < w[i] /\ \A j \in 1 .. i - 1 : v[j] = w[j]
  <2>1. PICK i \in 1 .. 3 : v[i] < w[i] /\ \A j \in 1 .. i - 1 : v[j] = w[j]
    BY <1>2
  <2>2. PICK k \in 1 .. 4 : w[k] < m[k] /\ \A j \in 1 .. k - 1 : w[j] = m[j]
    BY DEF Less
  <2>3. CASE i < k
    <3>1. v[i] < m[i]
      BY <2>1, <2>2, <2>3
    <3>2. \A j \in 1 .. i - 1 : v[j] = m[j]
      BY <2>1, <2>2, <2>3
    <3> QED
      BY <3>1, <3>2 DEF Less
  <2>4. CASE k <= i
    <3>1. v[k] < m[k]
      BY <2>1, <2>2, <2>4
    <3>2. \A j \in 1 .. k - 1 : v[j] = m[j]
      BY <2>1, <2>2, <2>4
    <3> QED
      BY <3>1, <3>2 DEF Less
  <2> QED
    BY <2>3, <2>4
<1> QED
  BY <1>1, <1>2 DEF Upgrades

\* What the minimum is compared as is a number.
LEMMA MinimumInt ==
  ASSUME NEW d \in ChecksSpec
  PROVE  MilliValue(Minimum(d).cpu) \in Int /\ Value(Minimum(d).mem) \in Int
<1>1. Minimum(d).cpu \in Int /\ Minimum(d).mem \in Int
  <2>1. d.cpu \in Option(Int) /\ d.mem \in Option(Int)
    BY DEF ChecksSpec
  <2> QED
    BY <2>1, FloorOf, OptionSet DEF Minimum
<1>2. \A n \in Int : Wrap(n, CPUWidth) \in Int
  BY WidthAssumption DEF Wrap
<1> QED
  BY <1>1, <1>2, WidthAssumption DEF MilliValue, Value

\* The check of the resources fares no worse on a cluster that has more.
LEMMA MoreForResources ==
  ASSUME NEW d \in ChecksSpec, NEW c \in Clusters, NEW e \in Clusters, Within(c, e)
  PROVE  NoWorse(RunClusterResources(d, e), RunClusterResources(d, c))
<1> DEFINE kind == "clusterResources"
           cpu(x) == Total(x, "cpu", CPUWidth) < MilliValue(Minimum(d).cpu)
           mem(x) == Total(x, "mem", MemWidth) < Value(Minimum(d).mem)
<1>1. kind \in ToSet(Kinds)
  BY KindNumbers
<1>2. /\ Pass(kind).status = "True"
      /\ \A reason \in Reasons :
           Fail(kind, reason).status = "False" /\ Fail(kind, reason).severity = "critical"
  BY <1>1, PassForm, FindingForms
<1>3. Unparseable \in {Minimum(d).cpu, Minimum(d).mem} =>
        RunClusterResources(d, e) = RunClusterResources(d, c)
  BY Zenon DEF RunClusterResources
<1>4. ASSUME Unparseable \notin {Minimum(d).cpu, Minimum(d).mem}, NEW x
      PROVE  /\ ~cpu(x) /\ ~mem(x) => RunClusterResources(d, x) = Pass(kind)
             /\ cpu(x) \/ mem(x) =>
                  RunClusterResources(d, x) \in {Fail(kind, "InsufficientResources"),
                    Fail(kind, "InsufficientCPU"), Fail(kind, "InsufficientMemory")}
  BY Zenon, <1>4 DEF RunClusterResources
<1>5. MilliValue(Minimum(d).cpu) \in Int /\ Value(Minimum(d).mem) \in Int
  BY MinimumInt
<1>6. (cpu(e) => cpu(c)) /\ (mem(e) => mem(c))
  BY <1>5, TotalGrows
<1> HIDE DEF cpu, mem
<1>7. CASE Unparseable \notin {Minimum(d).cpu, Minimum(d).mem}
  <2>1. CASE ~cpu(e) /\ ~mem(e)
    BY <1>2, <1>4, <1>7, <2>1 DEF NoWorse
  <2>2. CASE cpu(e) \/ mem(e)
    <3>1. /\ RunClusterResources(d, e).status = "False"
          /\ RunClusterResources(d, e).severity = "critical"
      BY <1>2, <1>4, <1>7, <2>2 DEF Reasons
    <3>2. /\ RunClusterResources(d, c).status = "False"
          /\ RunClusterResources(d, c).severity = "critical"
      BY <1>2, <1>4, <1>6, <1>7, <2>2 DEF Reasons
    <3> QED
      BY <3>1, <3>2 DEF NoWorse
  <2> QED
    BY <2>1, <2>2
<1> QED
  BY <1>3, <1>7 DEF NoWorse

\* Nor does the check of the version.
LEMMA MoreForVersion ==
  ASSUME NEW d \in ChecksSpec, NEW c \in Clusters, NEW e \in Clusters, Within(c, e)
  PROVE  NoWorse(RunKubernetesVersion(d, e), RunKubernetesVersion(d, c))
<1> DEFINE kind == "kubernetesVersion"
           m == MinVersion(d)
<1>1. kind \in ToSet(Kinds)
  BY KindNumbers
<1>2. Pass(kind).status = "True"
  BY <1>1, PassForm
<1>3. /\ c.version \in Versions /\ e.version \in Versions
      /\ m \in Versions
  <2>1. DefaultVersion \in Versions
    BY DEF DefaultVersion, Versions
  <2>2. d.version \in Option(Versions)
    BY DEF ChecksSpec
  <2>3. m \in Versions
    BY <2>1, <2>2, OptionSet DEF MinVersion
  <2>4. c.version \in Versions /\ e.version \in Versions
    BY ClustersAssumption DEF ClusterStates
  <2> QED
    BY <2>3, <2>4
<1>4. CASE c.version = e.version
  <2>1. RunKubernetesVersion(d, e) = RunKubernetesVersion(d, c)
    BY Zenon, <1>4 DEF RunKubernetesVersion
  <2> QED
    BY <2>1 DEF NoWorse
<1>5. CASE NoVersion \notin {c.version, e.version} /\ Upgrades(c.version, e.version)
  <2>1. CASE m = NoVersion
    <3>1. RunKubernetesVersion(d, e) = RunKubernetesVersion(d, c)
      BY Zenon, <1>5, <2>1 DEF RunKubernetesVersion
    <3> QED
      BY <3>1 DEF NoWorse
  <2>2. CASE m # NoVersion
    <3>1. Less(e.version, m) => Less(c.version, m)
      <4>1. c.version \in [1 .. 4 -> Nat] /\ e.version \in [1 .. 4 -> Nat] /\ m \in [1 .. 4 -> Nat]
        BY <1>3, <1>5, <2>2 DEF Versions
      <4> QED
        BY <1>5, <4>1, LessUpgrades
    <3>2. CASE Less(e.version, m)
      <4>1. /\ RunKubernetesVersion(d, e) = Fail(kind, "TooOld")
            /\ RunKubernetesVersion(d, c) = Fail(kind, "TooOld")
        BY Zenon, <1>5, <2>2, <3>1, <3>2 DEF RunKubernetesVersion
      <4> QED
        BY <4>1 DEF NoWorse
    <3>3. CASE ~Less(e.version, m)
      <4>1. RunKubernetesVersion(d, e) = Pass(kind)
        BY Zenon, <1>5, <2>2, <3>3 DEF RunKubernetesVersion
      <4> QED
        BY <1>2, <4>1 DEF NoWorse
    <3> QED
      BY <3>2, <3>3
  <2> QED
    BY <2>1, <2>2
<1> QED
  BY <1>4, <1>5 DEF Within

\* Nor do the others.
LEMMA MoreForTheRest ==
  ASSUME NEW d \in ChecksSpec, NEW c, NEW e, Within(c, e)
  PROVE  /\ NoWorse(RunCertManager(e), RunCertManager(c))
         /\ NoWorse(RunIngressClass(d, e), RunIngressClass(d, c))
         /\ NoWorse(RunStorageClass(d, e), RunStorageClass(d, c))
<1>1. /\ Pass("ingressClass").status = "True" /\ Pass("storageClass").status = "True"
      /\ Pass("certManager").status = "True"
      /\ \A reason \in Reasons : /\ Fail("storageClass", reason).status = "False"
                                 /\ Fail("storageClass", reason).severity = "critical"
  BY KindNumbers, PassForm, FindingForms
<1>2. NoWorse(RunCertManager(e), RunCertManager(c))
  <2>1. CASE RunCertManager(e) = Pass("certManager")
    BY <1>1, <2>1 DEF NoWorse
  <2>2. CASE RunCertManager(e) # Pass("certManager")
    <3>1. RunCertManager(e) = RunCertManager(c)
      BY Zenon, <2>2 DEF RunCertManager, HasAPIGroup, Within
    <3> QED
      BY <3>1 DEF NoWorse
  <2> QED
    BY <2>1, <2>2
<1>3. NoWorse(RunIngressClass(d, e), RunIngressClass(d, c))
  <2>1. CASE \E s \in d.ingress : ~(s.names \subseteq e.ingress)
    <3>1. \E s \in d.ingress : ~(s.names \subseteq c.ingress)
      BY <2>1 DEF Within
    <3>2. RunIngressClass(d, e) = RunIngressClass(d, c)
      BY <2>1, <3>1 DEF RunIngressClass
    <3> QED
      BY <3>2 DEF NoWorse
  <2>2. CASE ~ \E s \in d.ingress : ~(s.names \subseteq e.ingress)
    <3>1. RunIngressClass(d, e) = Pass("ingressClass")
      BY <2>2 DEF RunIngressClass
    <3> QED
      BY <1>1, <3>1 DEF NoWorse
  <2> QED
    BY <2>1, <2>2
<1>4. NoWorse(RunStorageClass(d, e), RunStorageClass(d, c))
  <2> DEFINE s == CHOOSE s \in d.storage : TRUE
             missing(x) == ~(s.names \subseteq Present(x))
             noDefault(x) == s.default /\ ~HasDefaultClass(x)
  <2>1. \A x : (\A class \in x.storage : ~IsDefault(class)) <=> ~HasDefaultClass(x)
    BY DEF IsDefault, HasDefaultClass
  <2>2. ASSUME NEW x
        PROVE  /\ ~missing(x) /\ ~noDefault(x) => RunStorageClass(d, x) = Pass("storageClass")
               /\ missing(x) \/ noDefault(x) =>
                    RunStorageClass(d, x) \in {Fail("storageClass", "Missing"),
                                               Fail("storageClass", "DefaultMissing")}
    BY Zenon, <2>1 DEF RunStorageClass
  <2>3. (missing(e) => missing(c)) /\ (noDefault(e) => noDefault(c))
    BY DEF Within
  <2> HIDE DEF missing, noDefault
  <2>4. CASE ~missing(e) /\ ~noDefault(e)
    BY <1>1, <2>2, <2>4 DEF NoWorse
  <2>5. CASE missing(e) \/ noDefault(e)
    <3>1. \A x \in {c, e} : /\ RunStorageClass(d, x).status = "False"
                            /\ RunStorageClass(d, x).severity = "critical"
      BY <1>1, <2>2, <2>3, <2>5 DEF Reasons
    <3> QED
      BY <3>1 DEF NoWorse
  <2> QED
    BY <2>4, <2>5
<1> QED
  BY <1>2, <1>3, <1>4

\* Nor does any.
LEMMA MoreForRun ==
  ASSUME NEW d \in ChecksSpec, NEW c \in Clusters, NEW e \in Clusters, Within(c, e),
         NEW kind \in ToSet(Kinds)
  PROVE  NoWorse(Run(kind, d, e), Run(kind, d, c))
BY KindNumbers, RunByName, MoreForResources, MoreForVersion, MoreForTheRest

\* A cluster that has all another one has, and more, never fares worse
\* (the comparisons of the checks, derivePhase).
THEOREM MoreNeverWorse == Spec => []MoreIsNeverWorse
<1>1. ASSUME IInv, NEW e \in Clusters, Within(cluster, e)
      PROVE  A!Badness(StillPhase(demand, e)) <= A!Badness(StillPhase(demand, cluster))
  <2> DEFINE active == ListByProfile(demand)
             found(x) == [i \in DOMAIN active |-> Run(active[i], demand, x)]
             phase(x) == A!DerivePhase(Reported(found(x)))
  <2>1. demand \in ChecksSpec /\ cluster \in Clusters
    BY <1>1, DemandsAssumption DEF IInv, TypeOK
  <2>2. \A i \in DOMAIN active : active[i] \in ToSet(Kinds)
    BY ListsConfigured
  <2>3. \A i \in DOMAIN active :
          NoWorse(Run(active[i], demand, e), Run(active[i], demand, cluster))
    BY <1>1, <2>1, <2>2, MoreForRun
  <2>4. \A x : /\ DOMAIN Reported(found(x)) = DOMAIN active
               /\ \A i \in DOMAIN active :
                    /\ Reported(found(x))[i].status = Run(active[i], demand, x).status
                    /\ Reported(found(x))[i].severity = Run(active[i], demand, x).severity
    BY DEF Reported
  <2> HIDE DEF active, found
  <2>5. A!Badness(phase(e)) <= A!Badness(phase(cluster))
    <3> DEFINE R == Reported(found(cluster))
               S == Reported(found(e))
    <3>1. /\ DOMAIN R = DOMAIN active /\ DOMAIN S = DOMAIN active
          /\ \A i \in DOMAIN active : NoWorse(S[i], R[i])
      BY <2>3, <2>4 DEF NoWorse
    <3> HIDE DEF R, S
    <3>2. /\ A!Has(S, A!Failed) => A!Has(R, A!Failed)
          /\ A!Has(S, A!FailedNonCritical) => A!Has(R, A!FailedNonCritical)
          /\ A!Has(S, A!Unknown) => A!Has(R, A!Unknown)
      BY <3>1 DEF NoWorse, A!Has, A!Failed, A!FailedNonCritical, A!Unknown
    <3>3. A!Badness(A!DerivePhase(S)) <= A!Badness(A!DerivePhase(R))
      BY <3>2 DEF A!Badness, A!DerivePhase
    <3> QED
      BY <3>3 DEF R, S
  <2>6. \A x : StillPhase(demand, x) = IF Invalid(demand) # {} THEN "Failed" ELSE phase(x)
    BY DEF StillPhase, active, found
  <2>7. A!Badness("Failed") <= A!Badness("Failed")
    BY DEF A!Badness
  <2> HIDE DEF phase
  <2> QED
    BY <2>5, <2>6, <2>7
<1>2. IInv => MoreIsNeverWorse
  BY <1>1 DEF MoreIsNeverWorse
<1> QED
  BY <1>2, InvariantHolds, PTL

=============================================================================
