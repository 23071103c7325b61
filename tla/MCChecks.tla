------------------------------ MODULE MCChecks ------------------------------
(***************************************************************************)
(* A small instance of Checks for TLC: demands that use every default,     *)
(* override and invalid form, and clusters around each threshold.          *)
(***************************************************************************)
EXTENDS Checks

Sub(names, default) == [names |-> names, default |-> default]
Names(names) == [names |-> names]

Base == [profile |-> "production", version |-> {}, cpu |-> {}, mem |-> {},
         storage |-> {}, ingress |-> {}]

\* 10Pi as a minimum of CPU, 20Ei as one of memory.
Huge == CPUWidth + CPUWidth \div 2
MCBigDecimals == {Huge}

MCDemands ==
  {[Base EXCEPT !.profile = p] : p \in {"", "production", "evaluation"}}
  \cup {[Base EXCEPT !.version = {v}] : v \in {<<1, 34, 1, 1>>, NoVersion}}
  \cup {[Base EXCEPT !.profile = p, !.cpu = {q}] :
          p \in {"", "evaluation"}, q \in {1000, CPUWidth - 1, CPUWidth, Huge, Unparseable}}
  \cup {[Base EXCEPT !.mem = {q}] : q \in {1024, MemWidth - 1, MemWidth, Huge}}
  \cup {[Base EXCEPT !.storage = {Sub(n, d)}] :
          n \in {{}, {"fast"}, {Blank}, {"fast", "slow"}}, d \in BOOLEAN}
  \cup {[Base EXCEPT !.ingress = {Names(n)}] : n \in {{}, {"nginx"}, {Blank, "nginx"}}}
  \cup {[Base EXCEPT !.storage = {Sub({"fast"}, TRUE)}, !.ingress = {Names({"nginx"})}]}

\* Two nodes of half the production floor; one may be lost, or not have come up.
Node(id, ready) == [id |-> id, ready |-> ready, cpu |-> 2000, mem |-> 4096]

Class(name, ga, legacy) == [name |-> name, ga |-> ga, legacy |-> legacy]
Fast == Class("fast", "true", "none")
Slow == Class("slow", "none", "none")

Best == [version |-> <<1, 34, 0, 1>>, groups |-> {"apps", "cert-manager.io"},
         storage |-> {Fast, Slow}, ingress |-> {"nginx"},
         nodes |-> {Node(1, "True"), Node(2, "True")}]

MCClusters ==
  {Best,
   [Best EXCEPT !.groups = {"apps"}],
   [Best EXCEPT !.storage = {Class("slow", "false", "true")}],
   [Best EXCEPT !.storage = {Class("fast", "false", "none"), Slow}],
   [Best EXCEPT !.storage = {}, !.ingress = {}],
   [Best EXCEPT !.nodes = {Node(1, "True"), Node(2, "Unknown")}],
   [Best EXCEPT !.nodes = {Node(1, "True"), Node(2, "none")}],
   [Best EXCEPT !.nodes = {Node(1, "True")}],
   [Best EXCEPT !.version = <<1, 34, 0, 0>>],
   [Best EXCEPT !.version = <<1, 35, 0, 0>>],
   [Best EXCEPT !.version = NoVersion]}

\* As main registers them, and as a build that lacks one check would.
MCRegistries == {{Kinds[i] : i \in DOMAIN Kinds}, {Kinds[i] : i \in 1 .. 4}}

=============================================================================
