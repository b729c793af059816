------------------------------ MODULE Optimizer ------------------------------
(***************************************************************************)
(* The optimization loop of main.cpp: the latest usage is judged by the    *)
(* BottleneckDetector, the Optimizer looks up a configuration per          *)
(* bottleneck in the ConfigKnowledgeBase, and the ConfigApplicator writes  *)
(* its items, one by one, to files of the Linux kernel, any of which may   *)
(* refuse to open.  Meanwhile the monitor keeps storing new samples.       *)
(*                                                                         *)
(* Strings are abstracted: a line of the knowledge base is its key and the *)
(* items after the "=", without what a # cuts off; an item is a key and a  *)
(* value; NoKey stands for a line or an item without "=".                  *)
(***************************************************************************)
EXTENDS Integers, SequencesExt

CONSTANTS
  Cpus,            \* processors: each has a scaling_governor file
  CpuLevels, MemoryLevels,  \* percentages a sample can have
  Traffic,         \* bytes all interfaces together can move between samples
  MaxBytes,        \* bound: the interfaces' byte counters
  DetectorThresholds, \* thresholds the constructor and the setters are given
  KnowledgeBases,  \* contents of the configuration file: sequences of lines
  Numbers,         \* values std::stoul accepts
  Unset,           \* what a kernel file holds at first
  Absent,          \* kernel files the machine does not have
  MaxRefused,      \* bound: openings of existing kernel files that fail
  Monitoring       \* whether main() has built a ResourceMonitor

\* kCpuUsageThreshold, kMemoryUsageThreshold and kNetworkUsageThreshold (10^9
\* bytes in the code).
CONSTANTS OwnCpu, OwnMemory, OwnNetwork

Resources == {"cpu", "memory", "network", "storage"}

\* What the detector's constructor and setters accept.
ValidThresholds ==
  [cpu : 0 .. 100, memory : 0 .. 100, network : Nat \ {0}, storage : Nat \ {0}]

\* A sequence, whatever its elements are.
IsSequence(s) == s \in Seq(Range(s))

ASSUME OptimizerAssumption ==
  /\ IsFiniteSet(Cpus)
  /\ CpuLevels \cup MemoryLevels \subseteq 0 .. 100
  /\ Traffic \subseteq Nat /\ MaxBytes \in Nat /\ MaxRefused \in Nat
  /\ DetectorThresholds \subseteq ValidThresholds
  /\ \A kb \in KnowledgeBases :
       IsSequence(kb) /\ \A i \in DOMAIN kb : IsSequence(kb[i].config)
  /\ OwnCpu \in 0 .. 100 /\ OwnMemory \in 0 .. 100 /\ OwnNetwork \in Nat \ {0}
  /\ Monitoring \in BOOLEAN

NoKey == "none"

KernelFiles ==
  Cpus \cup {"nr_hugepages", "smp_affinity", "tcp_rmem", "tcp_wmem", "maxsockbuf"}

VARIABLES
  thresholds,  \* of the BottleneckDetector
  lines,       \* the file the ConfigKnowledgeBase was loaded from
  latest,      \* the latest usage: cpu, memory, counted bytes
  step,        \* "loop", or "apply": inside OptimizeConfiguration
  judged,      \* main()'s copy of the usage
  found,       \* what DetectBottlenecks returned for it
  request,     \* the items OptimizeConfiguration applies
  next,        \* the next of them
  before,      \* the kernel files when it was called
  files,       \* the kernel files
  refused      \* openings that failed so far (bound)

vars == <<thresholds, lines, latest, step, judged, found, request, next, before,
          files, refused>>

\* The default-constructed ResourceUsage.
NoUsage == [cpu |-> 0, memory |-> 0, bytes |-> 0]

Init ==
  /\ thresholds \in DetectorThresholds
  /\ lines \in KnowledgeBases
  /\ latest = NoUsage /\ judged = NoUsage
  /\ step = "loop"
  /\ found = <<>> /\ request = <<>> /\ next = 1
  /\ files = [f \in KernelFiles |-> Unset]
  /\ before = files
  /\ refused = 0

------------------------------------------------------------------------------
(* BottleneckDetector::DetectBottlenecks.                                  *)

\* The sum over the interfaces of their counters, which count since the
\* machine was started and are judged like a rate; no caller has a storage
\* usage, and passes 0.
Level(u) == [cpu |-> u.cpu, memory |-> u.memory, network |-> u.bytes, storage |-> 0]

\* Mutant: the threshold itself is not yet a bottleneck.
Exceeded(u, r) == Level(u)[r] > thresholds[r]

Reached(u, r) ==
  Level(u)[r] >= thresholds[r] /\ (r = "storage" => Level(u)[r] > 0)

\* Mutant: std::min with its arguments swapped lets NaN (0 / 0) through.
NaNPasses(over, span) == IF over > span THEN <<1, 1>> ELSE <<over, span>>

\* std::min(1.0, over / span), as a fraction: 0 / 0 is not less than 1.0.
CappedQuotient(over, span) == IF over < span THEN <<over, span>> ELSE <<1, 1>>

Severity(u, r) ==
  CappedQuotient(Level(u)[r] - thresholds[r],
                 IF r \in {"cpu", "memory"} THEN 100 - thresholds[r] ELSE thresholds[r])

\* What the check of one resource adds to the list.
Check(u, r) ==
  IF Reached(u, r) THEN <<[resource |-> r, severity |-> Severity(u, r)]>> ELSE <<>>

DetectBottlenecks(u) ==
  Check(u, "cpu") \o Check(u, "memory") \o Check(u, "network") \o Check(u, "storage")

------------------------------------------------------------------------------
(* ConfigKnowledgeBase: later lines replace earlier ones.                  *)

\* Mutant: the first line with a key counts.
FirstLine(r) == SelectInSeq(lines, LAMBDA l : l.key = r)

LineOf(r) == SelectLastInSeq(lines, LAMBDA l : l.key = r)

GetConfigValue(r) == IF LineOf(r) = 0 THEN <<>> ELSE lines[LineOf(r)].config

------------------------------------------------------------------------------
(* Optimizer::OptimizeConfiguration.                                       *)

\* Mutant: the last return is missing its condition.
AlwaysNetwork(u) ==
  IF u.cpu >= OwnCpu THEN {"cpu"} ELSE IF u.memory >= OwnMemory THEN {"memory"} ELSE {"network"}

\* The fallback's own judgement: at most one resource.
GetBottleneckType(u) ==
  IF u.cpu >= OwnCpu THEN {"cpu"}
  ELSE IF u.memory >= OwnMemory THEN {"memory"}
  ELSE IF u.bytes >= OwnNetwork THEN {"network"}
  ELSE {}

Fallback(u) == SetToSeq(GetBottleneckType(u))

Resource(list) == [i \in DOMAIN list |-> list[i].resource]

Configurations(rs) == FlattenSeq([i \in DOMAIN rs |-> GetConfigValue(rs[i])])

Requested(list) == Configurations(Resource(list))

OptimizeConfiguration ==
  /\ Monitoring
  /\ step = "loop"
  /\ judged' = latest
  /\ found' = DetectBottlenecks(latest)
  /\ request' = IF found' = <<>> THEN Configurations(Fallback(latest)) ELSE Requested(found')
  /\ next' = 1
  /\ before' = files
  /\ step' = "apply"
  /\ UNCHANGED <<thresholds, lines, latest, files, refused>>

------------------------------------------------------------------------------
(* ConfigApplicator::ApplyConfiguration.                                   *)

\* net.core.rmem_max is applied under the name of a BSD kernel.
FilesOf(key) ==
  CASE key = "cpu_governor" -> Cpus
    [] key = "hugepages" -> {"nr_hugepages"}
    [] key = "irq_affinity" -> {"smp_affinity"}
    [] key = "tcp_rmem" -> {"tcp_rmem"}
    [] key = "tcp_wmem" -> {"tcp_wmem"}
    [] key = "net.core.rmem_max" -> {"maxsockbuf"}
    [] OTHER -> {}

\* Files an item is written to: none if it has no "=", an unknown key, or a
\* number std::stoul rejects.
Targets(item) ==
  IF item.key = "hugepages" /\ item.value \notin Numbers THEN {} ELSE FilesOf(item.key) \ Absent

\* Mutants: the exception is caught outside the loop; an item in error takes
\* the one after it along.
GiveUpAfterError(item) == IF Targets(item) = {} THEN Len(request) + 1 ELSE next + 1

SkipTwo(item) == IF Targets(item) = {} THEN next + 2 ELSE next + 1

NextItem(item) == next + 1

ApplyItem ==
  /\ step = "apply" /\ next <= Len(request)
  /\ LET item == request[next] IN
       \E opened \in SUBSET Targets(item) :
         /\ files' = [f \in KernelFiles |-> IF f \in opened THEN item.value ELSE files[f]]
         /\ refused' = refused + Cardinality(Targets(item) \ opened)
         /\ next' = NextItem(item)
  /\ refused' <= MaxRefused
  /\ UNCHANGED <<thresholds, lines, latest, step, judged, found, request, before>>

Optimized ==
  /\ step = "apply" /\ next > Len(request)
  /\ step' = "loop"
  /\ UNCHANGED <<thresholds, lines, latest, judged, found, request, next, before,
                 files, refused>>

------------------------------------------------------------------------------
(* The surroundings: the monitor thread, and a user of the detector.       *)

\* A new sample; the counters of the interfaces only grow.
Sample ==
  /\ \E c \in CpuLevels, m \in MemoryLevels, t \in Traffic :
       /\ latest.bytes + t <= MaxBytes
       /\ latest' = [cpu |-> c, memory |-> m, bytes |-> latest.bytes + t]
  /\ UNCHANGED <<thresholds, lines, step, judged, found, request, next, before,
                 files, refused>>

SetThreshold ==
  /\ step = "loop"
  /\ \E t \in DetectorThresholds, r \in Resources :
       thresholds' = [thresholds EXCEPT ![r] = t[r]]
  /\ UNCHANGED <<lines, latest, step, judged, found, request, next, before, files, refused>>

LoopStep == OptimizeConfiguration \/ ApplyItem \/ Optimized

Next == LoopStep \/ Sample \/ SetThreshold

Spec == Init /\ [][Next]_vars

\* main()'s loop goes on; samples come as they like.
FairSpec == Spec /\ WF_vars(OptimizeConfiguration) /\ WF_vars(ApplyItem) /\ WF_vars(Optimized)

------------------------------------------------------------------------------
(* Properties.                                                             *)

TypeOK ==
  /\ thresholds \in ValidThresholds
  /\ lines \in KnowledgeBases
  /\ \A u \in {latest, judged} :
       u.cpu \in 0 .. 100 /\ u.memory \in 0 .. 100 /\ u.bytes \in 0 .. MaxBytes
  /\ step \in {"loop", "apply"}
  /\ \A i \in DOMAIN found : found[i].resource \in Resources
  /\ next \in 1 .. (Len(request) + 1)
  /\ DOMAIN files = KernelFiles /\ DOMAIN before = KernelFiles
  /\ refused \in 0 .. MaxRefused

\* BottleneckInfo's constructor never throws out of the optimization: every
\* severity is a number between 0 and 1, for a threshold of 100% too.
SeverityInRange ==
  \A i \in DOMAIN found :
    LET s == found[i].severity IN s[2] > 0 /\ 0 <= s[1] /\ s[1] <= s[2]

LastWriter(f) == SelectLastInSeq(request, LAMBDA item : f \in Targets(item))

\* When every file opened, a round leaves each kernel file with the last value
\* its items give it, and the others alone: a malformed item, an unknown key
\* or a bad number does not keep the items after it from being applied.
RoundResult ==
  (step = "apply" /\ next = Len(request) + 1 /\ refused = 0)
    => files = [f \in KernelFiles |->
                  IF LastWriter(f) = 0 THEN before[f] ELSE request[LastWriter(f)].value]

Overloaded(u, r) ==
  \/ Reached(u, r)
  \/ CASE r = "cpu" -> u.cpu >= OwnCpu
       [] r = "memory" -> u.memory >= OwnMemory
       [] r = "network" -> u.bytes >= OwnNetwork
       [] OTHER -> FALSE

EffectiveConfig(r) ==
  {lines[i].config : i \in {j \in DOMAIN lines :
      lines[j].key = r /\ \A k \in DOMAIN lines : lines[k].key = r => k <= j}}

Concerns(r, f) ==
  \E config \in EffectiveConfig(r) : \E i \in DOMAIN config : f \in Targets(config[i])

\* A kernel file changes only in a round whose usage reached a threshold, and
\* only by the configuration of that resource that is in effect.
NothingWithoutCause ==
  [][\A f \in KernelFiles : files'[f] # files[f] =>
       \E r \in Resources : Overloaded(judged, r) /\ Concerns(r, f)]_vars

\* What main() sets up: the detector has the fallback's thresholds.
DetectorAgrees ==
  thresholds.cpu = OwnCpu /\ thresholds.memory = OwnMemory /\ thresholds.network = OwnNetwork

\* Where the two sets of thresholds are the same, the detector alone decides:
\* the fallback, which judges the same usage again by comparisons of its own,
\* never makes the optimizer write for a resource the detector did not report.
DetectorDecides ==
  [][DetectorAgrees => \A f \in KernelFiles : files'[f] # files[f] =>
       \E i \in DOMAIN found : Concerns(found[i].resource, f)]_vars

\* Where the configurations of two resources name one file, the later wins.
InForce(r) ==
  \A config \in EffectiveConfig(r) : \A f \in KernelFiles :
    LET i == SelectLastInSeq(config, LAMBDA item : f \in Targets(item))
    IN (i # 0 /\ \A q \in Resources \ {r} : ~Concerns(q, f)) => files[f] = config[i].value

\* Automatic optimization: while the machine stays overloaded, from some time
\* on its configuration is in force after every round, also when files refused
\* to open at first.
OptimizationTakesHold ==
  \A r \in {"cpu", "memory"} :
    <>[]Reached(latest, r) => <>[](step = "loop" => InForce(r))

==============================================================================
