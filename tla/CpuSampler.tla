----------------------------- MODULE CpuSampler -----------------------------
(***************************************************************************)
(* GetCPUUsage of ResourceMonitor                                          *)
(* (src/bottleneck_analysis/resource_monitor.cpp, Linux): each call reads  *)
(* the first line of /proc/stat and compares it with the line before.      *)
(* That one is kept in two function-local statics, so all monitors of the  *)
(* process share it; each monitor calls from its own thread, without a     *)
(* lock.                                                                   *)
(*                                                                         *)
(* One action per access to the statics.  Counters are words of Modulus    *)
(* values; a usage is a fraction of which the code takes 100 times.        *)
(***************************************************************************)
EXTENDS Integers

CONSTANTS
  Monitors,   \* the ResourceMonitor objects
  Modulus,    \* 2^64
  MaxTicks,   \* bound: ticks the machine counts, below Modulus
  GoesBack,   \* whether the kernel's iowait may decrease
  Overlap     \* whether two monitors may be in GetCPUUsage at the same time

ASSUME SamplerAssumption ==
  /\ Modulus \in Nat /\ MaxTicks \in Nat /\ MaxTicks < Modulus
  /\ GoesBack \in BOOLEAN /\ Overlap \in BOOLEAN

Word == 0 .. (Modulus - 1)

\* A line of /proc/stat.  busy stands for user, nice, system, irq, softirq
\* and steal, which the code only adds up.
Lines == [busy : Nat, idle : Nat, iowait : Nat]

NoTicks == [busy |-> 0, idle |-> 0, iowait |-> 0]

VARIABLES
  stat,       \* the counters of the kernel, since it booted
  prev,       \* prev_idle_time and prev_total_time, shared by all monitors
  pc,         \* step of each monitor's thread
  read,       \* the locals idle_time and total_time of its call
  diff,       \* the locals idle_time_diff and total_time_diff
  usage,      \* what the call that returned last has returned
  last,       \* history: the line read last
  span,       \* history: the lines each call in progress should compare
  compared,   \* history: the lines the call that returned last should compare
  accounted   \* history: the ticks in all usages so far, idle and in total

vars == <<stat, prev, pc, read, diff, usage, last, span, compared, accounted>>

\* Mutant: iowait is not idle time.
IdleOnly(line) == line.idle

IdleTime(line) == line.idle + line.iowait

TotalTime(line) == line.busy + line.idle + line.iowait

\* uint64_t arithmetic.
Plus(a, b) == IF a + b < Modulus THEN a + b ELSE a + b - Modulus

\* Mutant: a signed difference.
SignedMinus(a, b) == a - b

Minus(a, b) == IF a >= b THEN a - b ELSE a - b + Modulus

Zero == [num |-> 0, den |-> 1]


\* 1.0 - idle_time_diff / total_time_diff, in floating point: no wrap here.
Share(d) == IF d.total = 0 THEN Zero ELSE [num |-> d.total - d.idle, den |-> d.total]

NoPair == [idle |-> 0, total |-> 0]
NoSpan == [from |-> NoTicks, to |-> NoTicks]

\* The machine has been running before the process began.
Init ==
  /\ stat \in [busy : 0 .. 1, idle : 0 .. 1, iowait : 0 .. 1]
  /\ TotalTime(stat) <= MaxTicks
  /\ prev = NoPair
  /\ pc = [m \in Monitors |-> "out"]
  /\ read = [m \in Monitors |-> NoPair]
  /\ diff = [m \in Monitors |-> NoPair]
  /\ usage = Zero
  /\ last = NoTicks
  /\ span = [m \in Monitors |-> NoSpan]
  /\ compared = NoSpan
  /\ accounted = NoPair

------------------------------------------------------------------------------
(* The machine.                                                            *)

Tick ==
  /\ TotalTime(stat) < MaxTicks
  /\ \E f \in {"busy", "idle", "iowait"} : stat' = [stat EXCEPT ![f] = @ + 1]
  /\ UNCHANGED <<prev, pc, read, diff, usage, last, span, compared, accounted>>

IowaitDrops ==
  /\ GoesBack /\ stat.iowait > 0
  /\ stat' = [stat EXCEPT !.iowait = @ - 1]
  /\ UNCHANGED <<prev, pc, read, diff, usage, last, span, compared, accounted>>

------------------------------------------------------------------------------
(* GetCPUUsage.                                                            *)

Goto(m, from, to) == pc[m] = from /\ pc' = [pc EXCEPT ![m] = to]

MayCall(m) == Overlap \/ \A o \in Monitors : pc[o] = "out"

\* The file does not open, or its first line is not the one of all CPUs: 0.0
\* is returned and the statics keep the line before.
Unreadable(m) ==
  /\ MayCall(m) /\ pc[m] = "out"
  /\ usage' = Zero
  /\ compared' = [from |-> last, to |-> last]
  /\ UNCHANGED <<stat, prev, pc, read, diff, last, span, accounted>>

ReadStat(m) ==
  /\ MayCall(m)
  /\ Goto(m, "out", "idle_diff")
  /\ read' = [read EXCEPT ![m] = [idle |-> IdleTime(stat), total |-> TotalTime(stat)]]
  /\ span' = [span EXCEPT ![m] = [from |-> last, to |-> stat]]
  /\ last' = stat
  /\ UNCHANGED <<stat, prev, diff, usage, compared, accounted>>

DiffIdle(m) ==
  /\ Goto(m, "idle_diff", "total_diff")
  /\ diff' = [diff EXCEPT ![m].idle = Minus(read[m].idle, prev.idle)]
  /\ UNCHANGED <<stat, prev, read, usage, last, span, compared, accounted>>

DiffTotal(m) ==
  /\ Goto(m, "total_diff", "store_idle")
  /\ diff' = [diff EXCEPT ![m].total = Minus(read[m].total, prev.total)]
  /\ UNCHANGED <<stat, prev, read, usage, last, span, compared, accounted>>

StoreIdle(m) ==
  /\ Goto(m, "store_idle", "store_total")
  /\ prev' = [prev EXCEPT !.idle = read[m].idle]
  /\ UNCHANGED <<stat, read, diff, usage, last, span, compared, accounted>>

\* Mutant: prev_total_time is only stored the first time.
FirstTotal(m) == IF prev.total = 0 THEN read[m].total ELSE prev.total

NewTotal(m) == read[m].total

\* The usage is returned and the locals are gone.
StoreTotal(m) ==
  /\ Goto(m, "store_total", "out")
  /\ prev' = [prev EXCEPT !.total = NewTotal(m)]
  /\ usage' = Share(diff[m])
  /\ compared' = span[m]
  /\ accounted' = [idle |-> Plus(accounted.idle, diff[m].idle),
                   total |-> Plus(accounted.total, diff[m].total)]
  /\ read' = [read EXCEPT ![m] = NoPair]
  /\ diff' = [diff EXCEPT ![m] = NoPair]
  /\ span' = [span EXCEPT ![m] = NoSpan]
  /\ UNCHANGED <<stat, last>>

------------------------------------------------------------------------------
CallStep(m) == DiffIdle(m) \/ DiffTotal(m) \/ StoreIdle(m) \/ StoreTotal(m)

Next ==
  \/ Tick \/ IowaitDrops
  \/ \E m \in Monitors : Unreadable(m) \/ ReadStat(m) \/ CallStep(m)

Spec == Init /\ [][Next]_vars

------------------------------------------------------------------------------
(* Properties.                                                             *)

WordPair == [idle : Word, total : Word]

Fractions == [num : Int, den : Nat \ {0}]

TypeOK ==
  /\ stat \in Lines /\ TotalTime(stat) <= MaxTicks
  /\ prev \in WordPair /\ accounted \in WordPair
  /\ pc \in [Monitors -> {"out", "idle_diff", "total_diff", "store_idle", "store_total"}]
  /\ read \in [Monitors -> WordPair] /\ diff \in [Monitors -> WordPair]
  /\ usage \in Fractions
  /\ last \in Lines /\ TotalTime(last) <= MaxTicks
  /\ span \in [Monitors -> [from : Lines, to : Lines]]
  /\ compared \in [from : Lines, to : Lines]

\* Neither the idle nor the total time is lower in the later line.
Forward(s) == s.to.busy >= s.from.busy /\ IdleTime(s.to) >= IdleTime(s.from)

\* The usage a call returns is a percentage, and the busy share of the ticks
\* since the line that was read before it, however many calls have failed in
\* between, also for the first sample and after a counter went back: only the
\* call that meets the lower counter is wrong.
UsageIsShare ==
  Forward(compared) =>
    /\ 0 <= usage.num /\ usage.num <= usage.den
    /\ usage.num * (TotalTime(compared.to) - TotalTime(compared.from))
         = usage.den * (compared.to.busy - compared.from.busy)

\* Every tick is in the usage of exactly one call, of whichever monitor: the
\* calls of several monitors divide the time among them, none is lost to a
\* read that failed, and a counter that went back is made up for (modulo the
\* word) by the calls after it.
EveryTickOnce ==
  (\A m \in Monitors : pc[m] = "out")
    => accounted = [idle |-> IdleTime(last), total |-> TotalTime(last)]

==============================================================================
