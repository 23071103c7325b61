------------------------------- MODULE Checks -------------------------------
(***************************************************************************)
(* From spec.checks to a phase, over a cluster that does not stand still:  *)
(* buildSpecMap (reconciler.go) fills in defaults and validates,           *)
(* ListByProfile (registry.go) selects and orders, and each of the five    *)
(* checks (adapter/check, adapter/k8s) looks at the cluster at a moment of *)
(* its own.  The results go to Aggregation.                                *)
(*                                                                         *)
(* An optional value is a set of at most one element.  Quantities are in   *)
(* milli-CPU and MiB, and negative if the text passes the pattern of the   *)
(* CRD but not resource.ParseQuantity ("1K"); versions are tuples, empty   *)
(* if the text passes the pattern but not semver (a number too long).      *)
(***************************************************************************)
EXTENDS Sorting, Sequences, SequencesExt

CONSTANTS Demands,    \* contents of spec.profile and spec.checks
          Clusters,   \* states the cluster can be in
          Registries, \* sets of registered checks; main registers all
          Blank,      \* a class name of white space only
          CPUWidth,   \* where int64 ends: 2^63 milli-CPU
          MemWidth,   \* 2^63 bytes, in MiB
          BigDecimals,     \* those of the quantities that are kept as big decimals
          MaxChanges  \* bound: changes of the cluster during a run

NoVersion == <<>>
Versions == {NoVersion} \cup [1 .. 4 -> Nat]

\* What the CRD lets through.  The user may leave out every field.
Option(S) == {o \in SUBSET S : \A x, y \in o : x = y}
ChecksSpec ==
  [profile : {"", "production", "evaluation"},
   version : Option(Versions), cpu : Option(Int), mem : Option(Int),
   storage : Option([names : SUBSET STRING, default : BOOLEAN]),
   ingress : Option([names : SUBSET STRING])]

\* What the API server may say of the cluster.
Nodes == [id : Nat, ready : {"True", "False", "Unknown", "none"}, cpu : Nat, mem : Nat]
ClusterStates ==
  [version : Versions, groups : SUBSET STRING,
   storage : SUBSET [name : STRING, ga : STRING, legacy : STRING],
   ingress : SUBSET STRING, nodes : SUBSET Nodes]

ASSUME DemandsAssumption == Demands \subseteq ChecksSpec
ASSUME ClustersAssumption ==
  Clusters \subseteq ClusterStates /\ \A c \in Clusters : IsFiniteSet(c.nodes)
ASSUME WidthAssumption ==
  CPUWidth \in Nat /\ MemWidth \in Nat /\ 4000 < CPUWidth /\ 8192 < MemWidth

VARIABLES demand, cluster, registry,
          stage,    \* "select", "check" or "done"
          todo,     \* selected checks that have not run
          results,  \* results so far
          rejected, \* what kept the checks from running, if anything
          seen,     \* history: states of the cluster since the run began
          changes

vars == <<demand, cluster, registry, stage, todo, results, rejected, seen, changes>>

\* In the order of their names, which is that of their condition types.
Kinds == <<"certManager", "clusterResources", "ingressClass",
           "kubernetesVersion", "storageClass">>
Number == [kind \in ToSet(Kinds) |-> CHOOSE i \in DOMAIN Kinds : Kinds[i] = kind]

-----------------------------------------------------------------------------
(* buildSpecMap.                                                           *)

\* The value that is set, or else the default.
OrElse(option, default) == IF option = {} THEN default ELSE CHOOSE v \in option : TRUE

Unparseable == -1

\* Major, minor, patch, and whether it is a release: 0 for a pre-release.
DefaultVersion == <<1, 34, 0, 1>>

\* A profile that is left out is production.
ProfileWithDefault(profile) == IF profile = "" THEN "production" ELSE profile

ProductionFloor == [cpu |-> 4000, mem |-> 8192]
EvaluationFloor == [cpu |-> 2000, mem |-> 4096]

\* Mutant: the default of the profile is not filled in.
DefaultsUnlessProduction(profile) ==
  IF profile # "production" THEN EvaluationFloor ELSE ProductionFloor

DefaultsFor(profile) ==
  IF ProfileWithDefault(profile) = "evaluation" THEN EvaluationFloor ELSE ProductionFloor

\* Values of the user override the defaults field by field.
Minimum(d) == [cpu |-> OrElse(d.cpu, DefaultsFor(d.profile).cpu),
               mem |-> OrElse(d.mem, DefaultsFor(d.profile).mem)]
MinVersion(d) == OrElse(d.version, DefaultVersion)

\* Mutant: a class check without names is not activated.
ConfiguredIfNamed(d) ==
  {"kubernetesVersion", "certManager", "clusterResources"}
  \cup {k \in {"storageClass"} : \E s \in d.storage : s.names # {}}
  \cup {k \in {"ingressClass"} : \E s \in d.ingress : s.names # {}}

\* Three checks always run, two when their sub-spec is there.
Configured(d) ==
  {"kubernetesVersion", "certManager", "clusterResources"}
  \cup {k \in {"storageClass"} : d.storage # {}}
  \cup {k \in {"ingressClass"} : d.ingress # {}}

\* Validate.  The pattern of the CRD leaves nothing for the other kinds.
InvalidStorage(sub) == Blank \in sub.names \/ (sub.names = {} /\ ~sub.default)
InvalidIngress(sub) == Blank \in sub.names \/ sub.names = {}
Invalid(d) ==
  {k \in {"storageClass"} : \E sub \in d.storage : InvalidStorage(sub)}
  \cup {k \in {"ingressClass"} : \E sub \in d.ingress : InvalidIngress(sub)}

\* The keys of the map, all registered, in their order.
ListByProfile(d) == SortBy(Configured(d), Number)

-----------------------------------------------------------------------------
(* The checks.                                                             *)

Reasons == {"Ready", "Missing", "InsufficientResources", "InsufficientCPU",
            "InsufficientMemory", "TooOld", "DefaultMissing", "InvalidSpec",
            "ServerVersionParseFailed", "MinVersionParseFailed", "LookupFailed"}
Findings == [kind : ToSet(Kinds), status : {"True", "False", "Unknown"},
             severity : {"critical", "warning", "info"}, reason : Reasons]
Finding(kind, status, severity, reason) ==
  [kind |-> kind, status |-> status, severity |-> severity, reason |-> reason]
Pass(kind)             == Finding(kind, "True", "info", "Ready")
Fail(kind, reason)     == Finding(kind, "False", "critical", reason)
CannotSay(kind, reason) == Finding(kind, "Unknown", "critical", reason)

HasAPIGroup(c, name) == name \in c.groups

CertManagerAPIGroup == "cert-manager.io"

RunCertManager(c) ==
  IF HasAPIGroup(c, CertManagerAPIGroup) THEN Pass("certManager")
  ELSE Finding("certManager", "False", "warning", "Missing")

\* Mutant: a node that is not said to be down counts.
NotDown(n) == n.ready # "False"

\* The status of the node's Ready condition, "none" if it has not got one yet.
IsNodeReady(n) == n.ready = "True"
ListReadyNodes(c) == {n \in c.nodes : IsNodeReady(n)}

Wrap(n, width) == ((n + width) % (2 * width)) - width

\* What does not fit is 0 if it is kept as an int64 with a scale, as decimal
\* texts of up to 18 digits are.  Big decimals (longer texts, and those with a
\* binary suffix that are not small) wrap around, unless ParseQuantity has capped
\* them: at 2^63 - 1 cores or bytes.
MilliValue(q) ==
  IF q < CPUWidth THEN q ELSE IF q \in BigDecimals THEN Wrap(q, CPUWidth) ELSE 0
Value(q) ==
  IF q < MemWidth THEN q ELSE IF q \in BigDecimals THEN MemWidth - 1 ELSE 0

SumOf(nodes, field) == FoldSet(LAMBDA n, sum : sum + n[field], 0, nodes)

\* The sum over the nodes is one of int64.
Total(c, field, width) == Wrap(SumOf(ListReadyNodes(c), field), width)

\* No cluster has 2^63 milli-CPU or bytes.
ASSUME TotalsAssumption ==
  \A c \in Clusters : /\ SumOf(ListReadyNodes(c), "cpu") < CPUWidth
                      /\ SumOf(ListReadyNodes(c), "mem") < MemWidth

RunClusterResources(d, c) ==
  LET min      == Minimum(d)
      cpuShort == Total(c, "cpu", CPUWidth) < MilliValue(min.cpu)
      memShort == Total(c, "mem", MemWidth) < Value(min.mem)
      kind     == "clusterResources"
  IN  IF Unparseable \in {min.cpu, min.mem} THEN CannotSay(kind, "InvalidSpec")
      ELSE IF cpuShort /\ memShort THEN Fail(kind, "InsufficientResources")
      ELSE IF cpuShort THEN Fail(kind, "InsufficientCPU")
      ELSE IF memShort THEN Fail(kind, "InsufficientMemory")
      ELSE Pass(kind)

RunIngressClass(d, c) ==
  IF \E s \in d.ingress : ~(s.names \subseteq c.ingress) THEN Fail("ingressClass", "Missing")
  ELSE Pass("ingressClass")

\* semver: by the first place that differs, a pre-release before its release.
Less(v, w) ==
  \E i \in 1 .. 4 : v[i] < w[i] /\ \A j \in 1 .. i - 1 : v[j] = w[j]

RunKubernetesVersion(d, c) ==
  LET kind == "kubernetesVersion"
  IN  IF c.version = NoVersion THEN CannotSay(kind, "ServerVersionParseFailed")
      ELSE IF MinVersion(d) = NoVersion THEN CannotSay(kind, "MinVersionParseFailed")
      ELSE IF Less(c.version, MinVersion(d)) THEN Fail(kind, "TooOld")
      ELSE Pass(kind)

\* Either annotation marks a default, whatever the other one says.
IsDefault(class) == class.ga = "true" \/ class.legacy = "true"
Present(c) == {class.name : class \in c.storage}

RunStorageClass(d, c) ==
  LET s == CHOOSE s \in d.storage : TRUE
  IN  IF ~(s.names \subseteq Present(c)) THEN Fail("storageClass", "Missing")
      ELSE IF s.default /\ \A class \in c.storage : ~IsDefault(class)
           THEN Fail("storageClass", "DefaultMissing")
      ELSE Pass("storageClass")

\* What check kind says of a cluster in state c if its call gets through.
Run(kind, d, c) ==
  CASE kind = "certManager"       -> RunCertManager(c)
    [] kind = "clusterResources"  -> RunClusterResources(d, c)
    [] kind = "ingressClass"      -> RunIngressClass(d, c)
    [] kind = "kubernetesVersion" -> RunKubernetesVersion(d, c)
    [] kind = "storageClass"      -> RunStorageClass(d, c)

\* Quantities are parsed before the nodes are listed.
RunLookupFails(kind, d) ==
  IF kind = "clusterResources" /\ Unparseable \in {Minimum(d).cpu, Minimum(d).mem}
  THEN CannotSay(kind, "InvalidSpec")
  ELSE CannotSay(kind, "LookupFailed")

-----------------------------------------------------------------------------

Init ==
  /\ demand \in Demands /\ cluster \in Clusters /\ registry \in Registries
  /\ stage = "select"
  /\ todo = <<>> /\ results = <<>>
  /\ rejected = "none"
  /\ seen = {cluster}
  /\ changes = 0

ClusterChanges(c) ==
  /\ changes < MaxChanges /\ stage # "done" /\ c # cluster
  /\ changes' = changes + 1
  /\ cluster' = c
  /\ seen' = seen \cup {c}
  /\ UNCHANGED <<demand, registry, stage, todo, results, rejected>>

\* buildSpecMap: what does not validate keeps every check from running.
RejectSpec ==
  /\ stage = "select" /\ Invalid(demand) # {}
  /\ rejected' = "SpecInvalid"
  /\ stage' = "done"
  /\ UNCHANGED <<demand, cluster, registry, todo, results, seen, changes>>

\* ListByProfile: and so does a check that is not registered.
RejectSelection ==
  /\ stage = "select" /\ Invalid(demand) = {}
  /\ ~(Configured(demand) \subseteq registry)
  /\ rejected' = "UnknownCheck"
  /\ stage' = "done"
  /\ UNCHANGED <<demand, cluster, registry, todo, results, seen, changes>>

Select ==
  /\ stage = "select" /\ Invalid(demand) = {}
  /\ Configured(demand) \subseteq registry
  /\ todo' = ListByProfile(demand)
  /\ stage' = "check"
  /\ UNCHANGED <<demand, cluster, registry, results, rejected, seen, changes>>

\* The call of the check gets through, or fails.
RunNext ==
  /\ stage = "check" /\ todo # <<>>
  /\ \E r \in {Run(Head(todo), demand, cluster), RunLookupFails(Head(todo), demand)} :
       results' = Append(results, r)
  /\ todo' = Tail(todo)
  /\ UNCHANGED <<demand, cluster, registry, stage, rejected, seen, changes>>

Finish ==
  /\ stage = "check" /\ todo = <<>>
  /\ stage' = "done"
  /\ UNCHANGED <<demand, cluster, registry, todo, results, rejected, seen, changes>>

Next ==
  \/ RejectSpec \/ RejectSelection \/ Select \/ RunNext \/ Finish
  \/ \E c \in Clusters : ClusterChanges(c)

Spec == Init /\ [][Next]_vars

Reported(rs) ==
  [i \in DOMAIN rs |-> [name |-> Number[rs[i].kind], status |-> rs[i].status,
                        severity |-> rs[i].severity, time |-> 1]]

A == INSTANCE Aggregation WITH
       results <- Reported(results), interval <- [kind |-> "unset", seconds |-> 0],
       Names <- DOMAIN Kinds, WarningName <- 0, Times <- {1}, Now <- 1,
       Intervals <- {[kind |-> "unset", seconds |-> 0]}, MaxResults <- Len(Kinds),
       DefaultInterval <- 300, MinInterval <- 30, MaxInterval <- 86400

\* specInvalidOutputAt and selectionIssueOutputAt, or else Aggregate.
Phase == IF rejected # "none" THEN "Failed" ELSE A!DerivePhase(Reported(results))

-----------------------------------------------------------------------------
(* Properties.                                                             *)

\* What the user may take Passed to mean: for each demand, written or default,
\* there was a moment of the run at which the cluster met it (buildSpecMap, the
\* checks and derivePhase together).  Not one moment for all of them, and not
\* for a minimum that does not fit into an int64 of milli-CPU or bytes.
HasAtLeast(c, field, least) ==
  \E N \in SUBSET {n \in c.nodes : n.ready = "True"} : SumOf(N, field) >= least
HasDefaultClass(c) == \E class \in c.storage : "true" \in {class.ga, class.legacy}
PassedMeansMet ==
  stage = "done" /\ Phase = "Passed" =>
    /\ \A s \in demand.storage :
         \E c \in seen : s.names \subseteq Present(c) /\ (s.default => HasDefaultClass(c))
    /\ \A s \in demand.ingress : \E c \in seen : s.names \subseteq c.ingress
    /\ \A q \in demand.cpu : q < CPUWidth => \E c \in seen : HasAtLeast(c, "cpu", q)
    /\ \A q \in demand.mem : q < MemWidth => \E c \in seen : HasAtLeast(c, "mem", q)
    /\ demand.cpu = {} /\ demand.profile \in {"", "production"} =>
         \E c \in seen : HasAtLeast(c, "cpu", 4000)
    /\ demand.mem = {} /\ demand.profile \in {"", "production"} =>
         \E c \in seen : HasAtLeast(c, "mem", 8192)
    /\ \A v \in demand.version : \E c \in seen : c.version # NoVersion /\ ~Less(c.version, v)
    /\ demand.version = {} =>
         \E c \in seen : /\ c.version # NoVersion
                        /\ \/ c.version[1] > 1
                           \/ c.version[1] = 1 /\ c.version[2] >= 34
    /\ \E c \in seen : "cert-manager.io" \in c.groups

\* Nothing that was asked for is passed over: each configured check has its
\* result, or the run was rejected and says so (buildSpecMap, ListByProfile).
NothingPassedOver ==
  stage = "done" /\ rejected = "none" =>
    /\ demand.storage # {} => \E i \in DOMAIN results : results[i].kind = "storageClass"
    /\ demand.ingress # {} => \E i \in DOMAIN results : results[i].kind = "ingressClass"
    /\ {"kubernetesVersion", "certManager", "clusterResources"}
       \subseteq {results[i].kind : i \in DOMAIN results}

\* The phase a run over an unchanging cluster yields when every call gets through.
StillPhase(d, c) ==
  LET active == ListByProfile(d)
  IN  IF Invalid(d) # {} THEN "Failed"
      ELSE A!DerivePhase(Reported([i \in DOMAIN active |-> Run(active[i], d, c)]))

\* A cluster that has all another one has, and more, never fares worse, and nor
\* does one whose version has a larger number, whatever suffix either carries: a
\* suffix counts against the release of its own number only (the comparisons of
\* all five checks, and derivePhase above them).
Upgrades(v, w) ==
  v = w \/ \E i \in 1 .. 3 : v[i] < w[i] /\ \A j \in 1 .. i - 1 : v[j] = w[j]
Within(c, e) ==
  /\ Present(c) \subseteq Present(e) /\ (HasDefaultClass(c) => HasDefaultClass(e))
  /\ c.ingress \subseteq e.ingress /\ c.groups \subseteq e.groups
  /\ {n \in c.nodes : n.ready = "True"} \subseteq {n \in e.nodes : n.ready = "True"}
  /\ c.version = e.version \/ (NoVersion \notin {c.version, e.version}
                               /\ Upgrades(c.version, e.version))
MoreIsNeverWorse ==
  LET now == A!Badness(StillPhase(demand, cluster))
  IN  \A e \in Clusters : Within(cluster, e) => A!Badness(StillPhase(demand, e)) <= now

-----------------------------------------------------------------------------
(* The inductive invariant behind PassedMeansMet and NothingPassedOver.    *)

TypeOK ==
  /\ demand \in Demands /\ registry \in Registries
  /\ cluster \in seen /\ seen \subseteq Clusters
  /\ stage \in {"select", "check", "done"}
  /\ todo \in Seq(ToSet(Kinds)) /\ results \in Seq(Findings)
  /\ rejected \in {"none", "SpecInvalid", "UnknownCheck"}

\* The results and what is still to come are what was selected, in its order.
Account ==
  LET active == ListByProfile(demand) IN
  /\ stage = "select" => results = <<>> /\ rejected = "none"
  /\ rejected # "none" => results = <<>> /\ stage = "done"
  /\ stage # "select" /\ rejected = "none" =>
       /\ Len(results) + Len(todo) = Len(active)
       /\ \A i \in DOMAIN results : results[i].kind = active[i]
       /\ \A i \in DOMAIN todo : todo[i] = active[Len(results) + i]
  /\ stage = "done" /\ rejected = "none" => todo = <<>>

\* A result is what its check says of the cluster at a moment of the run, or
\* that it could not look.
Sighted ==
  \A i \in DOMAIN results :
    LET kind == results[i].kind IN
    \/ results[i] = RunLookupFails(kind, demand)
    \/ \E c \in seen : results[i] = Run(kind, demand, c)

IInv == TypeOK /\ Account /\ Sighted

=============================================================================
