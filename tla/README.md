# Verification of the NVMe-oF benchmark suite

This directory holds TLA+ models of the NVMe-oF benchmark suite, the TLC
configurations that check them on small instances, and TLAPS proofs of their
main properties for every instance. Every definition is translated from the
source; `PROJECT.json` names the lines for each. Paths below are relative to
the repository.

To check one run: `tlc -config ResourceMonitor.cfg ResourceMonitor.tla`; to
check the proofs: `tlapm ResourceMonitorProofs.tla`.

## The system

`nvmeof_benchmarking` (`src/main.cpp`) runs a benchmark loop in its main
thread. With `--monitor` a second thread samples the machine; with `--optimize`
and a `--config-file` the loop judges the samples and writes tuning values to
files of the kernel. Both threads write rows to one results file. The library
also has a workload generator, which the program itself does not call yet
(its loop is a mock), and two more programs read the results file.

```
 signals --> main() --Start/Stop/GetLatestUsage--> ResourceMonitor
               |  \                                   | thread
               |   \--> Optimizer --> Detector        | callback
               |           |--> KnowledgeBase         v
               |           '--> Applicator --> /proc, /sys
               '------------ CollectDataPoint ---> DataCollector --> file
                                                                      |
 WorkloadGenerator --> SPDK queue pair          ResultVisualizer, analysis <-'
```

### Inventory

| Component | State | Operations | What is hard | What makes it correct |
|---|---|---|---|---|
| `ResourceMonitor` | `running_` (atomic), `monitor_thread_`, `mutex_`, `latest_usage_`, `callback_`, `interval_`; two statics behind `GetCPUUsage` | `Start`, `Stop`, destructor, `GetLatestUsage`, `SetCallback`, `SetInterval`, the thread's loop with its readers of `/proc` | lifecycle of the thread, callback outside the lock, failing thread creation; statics shared by all monitors, unsigned differences, files that change between two reads | stopping is complete and returns, one thread at a time, no torn sample, no `std::terminate`; a usage is the busy share since the last reading, a counter is what it is named for |
| `DataCollector` | `data_points_`, `file_stream_` (with its buffer and error state), `mutex_`, `format_` | `CollectDataPoint`, `CollectData`, `Flush`, destructor | rows made of many writes, write errors that nobody looks at, exceptions between the store and the write or within a row, the header or the footer | a whole row for exactly what was acknowledged, in order, a successful `Flush` hides no loss |
| `WorkloadGenerator` | `is_running_`, `total_bytes_processed_`, the two completion flags, the operation in progress | `Generate`, `Stop`, destructor, `ReadBlock`, `WriteBlock`, completion callbacks | `uint32_t` arithmetic, retries, early and late completion, Stop at any moment, exceptions | it ends, covers its region and stays in it, reports truthfully, can be used again |
| `main` | `g_running`, progress, its locals | set-up, loop, shutdown, unwinding | signals and exceptions anywhere, order of destruction | the monitor is gone before the collector, no row is lost, the program ends |
| `BottleneckDetector` | thresholds | setters, `DetectBottlenecks` | limits of the thresholds, units | severity is a number in 0..1, resources at their threshold are found |
| `ConfigKnowledgeBase` | `config_map_` | load, `GetConfigValue` | duplicate keys, lines without `=` | the last line of a key counts |
| `Optimizer` | none of its own | `OptimizeConfiguration` | a fallback with thresholds of its own | nothing without cause; overload leads to the configuration being in force |
| `ConfigApplicator` | the kernel's files | `ApplyConfiguration` | items in error, files that do not open, two values for one file | an error costs only its own item |
| SPDK mock | none | submit, poll, buffers | completes inside the submission, unlike a driver | (external; modelled from its use) |
| `ResultVisualizer`, `nvmeof_analysis`, `nvmeof_visualizer` | the metrics they read | parse, summarize, detect, recommend, draw, export | a file still being written, three parsers for one format, divisions by zero and indexes of charts | they show the values that were collected, agree with each other and with what the running program saw, and do not crash |
| `SystemProfiler`, utilities, hardware detection | none | stateless readers | - | - |

The hazards in the code, with the line each bites at and the properties that
would notice, are listed in `PROJECT.json` under `hazards`.

## Modules

| Module | Models | Grain |
|---|---|---|
| `ResourceMonitor` | `resource_monitor.cpp` | one action per access to shared state |
| `MonitorLifecycle` | what the monitor promises its owner | abstract specification |
| `ResourceMonitorProofs` | theorems about `ResourceMonitor` | |
| `CpuSampler` | `GetCPUUsage` in `resource_monitor.cpp` | one action per access to the statics |
| `CpuSamplerProofs` | theorems about `CpuSampler` | |
| `NetworkCounters` | the network part of a sample in `resource_monitor.cpp` | one action per open of `/proc/net/dev` |
| `NetworkCountersProofs` | theorems about `NetworkCounters` | |
| `DataCollector` | `data_collector.cpp` | one action per locked section, two for a row |
| `CollectorLog` | what the collector promises its owner | abstract specification |
| `DataCollectorProofs` | theorems about `DataCollector`, and its refinement | |
| `Benchmark` | `main()`; instances of `ResourceMonitor` and `DataCollector` | composition |
| `BenchmarkProofs` | theorems about `Benchmark`, from those about its components | |
| `WorkloadGenerator`, `MCWorkloadGenerator` | `workload_generator.cpp`, `workload_generator.h` | one action per statement another thread or the driver can tell apart |
| `WorkloadGeneratorProofs` | theorems about `WorkloadGenerator` | |
| `Charts` | the arithmetic of the charts in `visualizer.cpp` | operators |
| `Results`, `MCResults` | the results file; `analysis.cpp`, `visualizer.cpp`, `result_visualizer.cpp` | one action per phase of a tool |
| `ResultsProofs` | theorems about `Results` and `Charts` | |
| `Optimizer`, `MCOptimizer` | detector, knowledge base, optimizer, applicator, and the part of `main()` that calls them | one action per configuration item |
| `OptimizerProofs` | theorems about `Optimizer` | |

### ResourceMonitor

`running`, `handle`, `mutex`, `latest` and `callback` are the members
`running_`, `monitor_thread_`, `mutex_`, `latest_usage_` and `callback_`.
`pc[c]` says where caller `c` is in `Start`, `Stop`, the destructor or an
accessor; `mon[t]` where thread `t` is in `MonitorResources`. Each `Start` that
creates a thread creates a new member of `Threads`, so that a second thread,
or an old one that was never joined, can be told from the current one.

`StartAssign` sets `terminated` when it overwrites a joinable handle,
`DestroyMembers` when it destroys one: that is what `std::thread` does.
`StartSpawnFails` is the constructor of `std::thread` throwing, which leaves
`running_` set. `FillVectors` ends the scope of the `lock_guard`; the callback
runs after it, and may call `GetLatestUsage` (`CallbackGets`). A sample is two
fields, because `UpdateScalars` and `FillVectors` are two steps: a torn read
would show fields that differ.

`SetLock` and `SetWrite` are `SetCallback` and `SetInterval`, which assign
`callback_` and `interval_` under the mutex; the thread reads the one at lines
125 and 126 and the other at 144 without it (`UnlockedReads`). `LiveReconfig`
says whether the setters are called while the monitor runs, too. Nothing forbids
it, and the unit test does it, but it is a data race: C++ promises nothing of
what follows, so a model that went on would show nothing. `resource_monitor_race`
therefore asks only whether it happens, and the other runs are about monitors
that are configured while they are stopped.

A refused `Start` (it throws) and a refused `Stop` (it returns false) change
nothing and are not actions. What `interval_` is makes no difference to the
model, which leaves the length of a sleep open.

### CpuSampler and NetworkCounters

These are the readers behind a sample, with the machine that goes on meanwhile.
In `CpuSampler` `prev` is the pair of statics, shared by all `Monitors`, and
`read` and `diff` are the locals of a call, in words of `Modulus` values.
`Tick` and `IowaitDrops` are the kernel. `last`, `span`, `compared` and
`accounted` are history variables: the line read last, the two lines a call
should compare, and the sum of the differences that went into usages. A usage is
the fraction of which the code takes 100 times; doubles are exact.

In `NetworkCounters` the rows of `/proc/net/dev` have the four numbers the
sample is about, under their `Position` in the row. `Extracted` is the position
of the number each function returns. Traffic passes, interfaces vanish and come
back from zero between any two opens of the file. `since` and `absent` are
history variables: the rows when the names were listed, and the interfaces that
have been missing during the sample. The two parts of a sample share nothing
with each other or with `ResourceMonitor`, where a sample is a choice.

### DataCollector

`stream` is what the `ofstream` accepted, `flushed` how much of it is in the
file, `bad` its error state. `Put` is `operator<<`: on a bad stream it does
nothing, otherwise it buffers, and it may write out any part of the buffer,
which may fail. Members of `std::ofstream` throw nothing, since the code does
not enable its exceptions. What throws are the allocations (`AllocMayFail`), and
what the stream took before then stays in it:

- storing the point (`StoreThrows`): nothing is written, and the point is not
  there;
- the text of the timestamp (`FormatThrows`): the point stays in `data_points_`,
  and a JSON row has its comma and its first key in the stream by then
  (`TimestampAt`), so that it stays torn, and the next row follows behind it;
- the rule of dashes of the plain-text header (`TitlePiece`, `headed`): the
  constructor ignores it, and the next point writes the header again from its
  start (`WriteHeader`, `HeaderThrows`);
- the same rule at the head of the footer (`FooterThrows`), caught in
  `WriteFooter`: the file is closed without a footer.

`acked`, `skipped` and `synced` are history variables: what the callers were
told. A point is in `skipped` when it is stored and its call returned false.

`CollectorLog` is the promise: a log of points, rows that are written at most
once, behind earlier rows and before the next point, as a whole or else begun
and given up (`Tear`) for good, a part of the rows that has reached the file,
always the earlier ones. The mapping (`ImplementsLog`) takes as the rows the row
ends in `stream`, each with the index of its point, as the saved ones those
below `flushed`, and as the torn ones (`Torn`) the points whose row was begun,
is not ended by the next piece, and whose call is over; a row end without its
begin gets index 0, which no row of the log may have. Taking the lock, the
header and a row that is never begun are stutters, a drain of the buffer inside
`operator<<` is a `Drain`, `Flush` is a `Sync` when it returns true.

### Benchmark

The model instantiates the two modules above with one controller, `main`, which
is also the only observer, and with the monitor thread as the second writer. A
step of `main()` or of the monitor thread is a step of one of the components
with the rest unchanged, or a step of `main()` alone. The lambda at
`main.cpp:232` becomes `CallbackBegins`, `CallbackRow` and `CallbackEnds`
around the collector's own actions. `Throws` is an exception between two calls;
`Unwind` and what follows it are the destructors in reverse order of
declaration, on the normal way out, too.

### WorkloadGenerator

`Modulus` is 2^32: the size of an operation is the remaining bytes modulo
`Modulus`, as the cast at line 78 has it; `AlignedSize` wraps in the same
width; `Report` truncates the count handed to the callback. The percentages of
a profile decide which operations and patterns can occur and are replaced by
the sets of these. `Submit(TRUE)` is a driver that completes the command before
it returns (the mock in `third_party`), `Submit(FALSE)` and `Complete` one that
completes it while the generator polls. `BlockFails`, `SubmitFails`,
`WriteThrows` and `GenerateThrows` are the error paths. `touched` is a history
variable: the sectors the commands accessed. `Destroy` is the destructor, which
clears `is_running_` and waits for nobody; as for any object, its owner may run
it only when no call is in progress (`alive` is down afterwards). `StopEnds` is
what lets an owner get there: stop, join the thread in `Generate`, destroy.

### Optimizer

A round is `OptimizeConfiguration` (copy the usage, detect, look up), one
`ApplyItem` per item, and `Optimized`. The lookups are done up front: the
knowledge base does not change while the program runs, so the items are those
that the code finds one bottleneck at a time. `Severity` is a fraction, of
which `CappedQuotient` is `std::min(1.0, over / span)` with its treatment of
0 / 0. `Targets(item)` are the files an item is written to on Linux; an item in
error has none. `Sample` is the monitor thread; the interface counters only
grow. A knowledge base is the sequence of its lines, a line its key and the
sequence of its items. The loop of `main()` has at most 20 rounds (progress grows
by 5); that of the model goes on for ever, which only `OptimizationTakesHold`
needs: it says what the code tends to, not that 20 rounds suffice.

`NothingWithoutCause` takes a resource for overloaded by the thresholds of the
detector or by those of the fallback, since the code acts on either.
`DetectorDecides` is the stricter claim for the program as `main()` sets it up,
with both the same (`DetectorAgrees`): there the fallback adds nothing.

### Results and Charts

`rows` and `tail` are the file as far as it has left the collector's buffer:
whole rows, the last of them perhaps cut off within its value or its units (a
row cut off earlier is refused like one cut off in its value). `Write` lets
more of it arrive. The file is only ever appended to, so a tool that reads it
line by line gets what was there when it met the end of the file; reading is one
step. `LineOf` is what `std::getline` makes of a line; a row with empty units,
such as "Benchmark Start", has no fourth field. Labels are not quoted, and
`CollectData` takes any text for one: of a label with a comma a reader finds what
is before it as the label and what is behind it as the value, whatever the value
is (`Split`), and the rest as units (`Leftover`). `Printed` is `operator<<` for
doubles: six digits, here a multiple of `Grain`; the thresholds 80 and 90 are
such multiples.

The lines a reader accepts are a function on their numbers in the file
(`Lines`, restricted by each reader's own tests), so that one can say of every
value which line it is from; `Listed` puts what was taken from them in the order
of the file, and `Grouped` is the map of vectors that all three readers build.
A value is an integer or what `std::stod` refuses. `OnlyCollected` compares what a
reader shows with the points that were collected (`Known`), not with the lines.
Where a label with a comma begins with a label, the readers cannot tell the two
apart; nothing is claimed of such a label (`Clean`), and everything of the others
in the same file.

`Analyze` is `main()` of `analysis.cpp` up to the reports; `parseBenchmarkData`,
`visualizeBenchmarkData` and `exportVisualization` are the phases of
`visualizer.cpp`, of which the first includes the test for an empty result in
`main()`. What the command line asks for is chosen where it is used.

`Charts` has the arithmetic of the four charts, with exact quotients in place of
doubles. Where the code divides an `int` by zero or makes an index of NaN, the
step either crashes or goes on with 0 (`Quotient`): both occur, depending on the
machine. The size of a terminal may be anything `ioctl` says: a line chart of
negative size is refused by `std::string` or `std::vector` (`Refused`; `main()`
catches that), one without rows is written out of bounds (`Fatal`).

## Runs

| Run | Question | Result |
|---|---|---|
| `resource_monitor` | lifecycle, exclusion, whole samples, refinement of `MonitorLifecycle`, Stop returns | holds |
| `resource_monitor_race` | may a running monitor be given a callback? | violated: the thread reads it without the lock |
| `cpu_sampler` | is a usage the busy share since the last reading, and is every tick counted once? | holds |
| `network_counters` | are the transmitted bytes the transmitted bytes? | violated: they are the received packets |
| `data_collector` | rows, flush, closed file, refinement of `CollectorLog`, with write errors and failing allocations | holds |
| `data_collector_full` | does `true` mean that the point was written? | violated: failed writes go unnoticed |
| `benchmark` | shutdown of the program under signals and exceptions | holds |
| `benchmark_visualize` | does `--visualize` see the benchmark's results? | violated: they are still buffered |
| `workload_generator` | bounds, coverage, reports, reuse, ending | holds |
| `optimizer` | what a round writes and for which cause, that the fallback adds nothing to the detector, and that optimization takes hold | holds |
| `results` | do the readers of the file show what was collected, also from an unfinished file; do they agree; do charts show their values? | holds |
| `results_chart` | is every metric drawn? | violated: a single value crashes the default chart |

A run that is violated states what a document or header says; `PROJECT.json`
quotes it under `findings`. Further observations have no run of their own:

- A workload of 2^32 bytes or more never ends: the remaining bytes are truncated
  to `uint32_t` (`workload_generator.cpp:78`), come to 0 and stay there, and
  operations of size 0 succeed for ever. `LargeNeverDone` in
  `WorkloadGeneratorProofs` proves it for every such profile.
- The network is judged by the total of the interface counters since boot
  (`main.cpp:326`), where `bottleneck_detector.h:74` and `:104` say "bytes per
  second": after one gigabyte it is a bottleneck for good. `Sample` in
  `Optimizer` has such counters.
- The comment in `~WorkloadGenerator` (`workload_generator.cpp:41`), "Ensure
  workload generation is stopped before destruction", promises more than the
  destructor does: it clears the flag, and a thread in `Generate` goes on for the
  rest of its operation in an object that is gone.
- The rounding to sectors (`workload_generator.cpp:166`) wraps for sizes above
  2^32 less one sector and gives a command of size 0 (`RoundingWraps`). No
  property of the run sees it: a command that is too small stays inside.
- A JSON row whose timestamp cannot be built leaves its opening in the file
  (`data_collector.cpp:160-165`), which then is no JSON any more; a plain-text
  file may be closed without its footer (`:200`). The caller of the first is
  told, nobody of the second.
- `CollectData("CPU Usage,95")` writes a label with a comma
  (`data_collector.cpp:72`, `:152-155`); the readers show it as a CPU usage of 95,
  and `nvmeof_analysis` takes it for a bottleneck. The comment at `:66` ("parse the
  string and delegate to the new method") announces a parser that is not there.
- Two monitors that are in `GetCPUUsage` at the same time race on its statics:
  with `Overlap = TRUE` TLC violates `UsageIsShare` in eight steps. The program
  has one monitor.
- A call that meets a lower idle counter returns a negative usage, about -2^64
  hundred percent (`BackwardsNegative`); `UsageIsShare` exempts that call, and
  only that one.
- The last value of every line chart is written behind the end of its row and
  never shown (`LastOutside` in `ResultsProofs`), and a metric with more values
  than the chart has columns loses all its later ones, since the loop at
  `visualizer.cpp:313` ends at the width while the columns are computed for all
  of them. `ChartsShowValues` says exactly which values have a mark, and
  `DrawnValues` proves it.
- A histogram of equal values and a heatmap of zeros make an index of NaN
  (`HistogramUndefined`, `HeatmapUndefined`).
- In a window of fewer than ten columns, or of four rows or fewer, a line chart
  ends in an exception or in a write out of bounds (`Refused`, `Fatal`): the
  sizes from `ioctl` (`visualizer.cpp:671-674`) are not checked as those of the
  command line are.
- `README.md:229-232` documents automatic optimization with a command line
  without `--monitor`, with which `main()` never calls the optimizer (the guard
  `Monitoring` in `Optimizer`).

### Bounds

- `resource_monitor`: three threads over the object's life, so that a
  stop/start cycle can follow a failed thread creation and another cycle; one
  controller, as in `main.cpp`, who is also an observer, and a second
  observer; two samples, so that a mixture of them would show; two reads. The
  proofs remove all of these but the single controller.
- `resource_monitor_race`: one thread, no observer, one sample: enough for the
  violation.
- `cpu_sampler`: two monitors, whose calls follow each other in any order; a
  word of eight values and five ticks, so that a difference that wraps can be
  told from one that does not; every counter may be zero at first.
- `network_counters`: two interfaces, so that a value may end up in the wrong
  place, and one packet in each direction, of three bytes, so that every number
  of a row can differ from the others. The proofs remove these bounds.
- `data_collector`: two writers with two points each. Interleavings of rows
  need two writers; the separators and the footer need a first, a middle and a
  last row (there are four). Every allocation and every write may fail, any
  number of times.
- `benchmark`: two iterations (`Increment` 2 and `Full` 3, so that the cap at
  `Full` matters), one row per iteration, callbacks of two rows, one sample
  before the stop and the one the stop may let through. `MaxSamples` bounds how
  often the monitor's sleep ends while it runs, not what it does then.
- `workload_generator`: a word of 3 bits and sectors of 2 bytes, sizes just
  below, at and above the word, blocks of whole sectors and not, up to the
  largest size in the word; two faults and two calls of `Generate`, so that a
  failure can be followed by another, by a Stop, and by a second call.
- `optimizer`: levels at, around and above each threshold, a threshold of 100%,
  knowledge bases with a duplicate key, a malformed item, a bad number, an
  unknown key and two values for one file, one refused opening.
- `results`: three rows out of ten kinds: marker rows, values just below, at
  (after printing) and above a threshold, a negative one (which `main.cpp:232-247`
  collects when `GetCPUUsage` goes wrong), a text with a comma that begins with a
  known label and one that does not. Three values make a line chart with a first,
  a middle and a last point; the terminals leave a line chart one and two columns,
  fewer than there are values, all it needs, no row, and a negative size, and a
  heatmap none.

### Fairness

- `ResourceMonitor`: a call that has begun goes on, and a monitor thread is
  scheduled (weak fairness of the steps of each). Taking the lock is a step of
  the thread; weak fairness is enough because the reads are bounded. Nobody is
  obliged to call anything, so `StopReturns` is a `~>` from the moment `Stop`
  has begun.
- `DataCollector`: who holds the lock runs on.
- `Benchmark`: both threads are scheduled. A signal, an exception and a failing
  thread creation may happen, but nothing needs them to.
- `WorkloadGenerator`: the thread in `Generate` is scheduled and the driver
  completes the commands it has accepted; the mock does so at once. Faults are
  bounded (`MaxFaults`): a driver that refuses every command for ever makes
  `Generate` retry for ever, which is what the code does.
- `Optimizer`: the loop of `main()` goes on; samples come as they like.

`CHECK_DEADLOCK FALSE` is set in every configuration, since each of the systems
comes to a legitimate end: a destroyed monitor, a closed collector, an exited
program, the bound on calls of `Generate`, or (for the optimizer without a
monitor) nothing left to do. That no call hangs is stated by the liveness
properties instead.

## Proofs

Every invariant and every action property that a passing run checks, and both
refinements, are also proved: TLC shows them on a small instance, the theorem for
all values of the constants that meet the `ASSUME` of the module and, for
`ResourceMonitor` and `CpuSampler`, the further assumptions named below.

All of the proofs about a specification follow one pattern. `IInv` is an
inductive invariant; `Invariance` proves `Spec => []IInv` from `Init => IInv` and
one lemma per action or per conjunct, and the theorems derive the properties
from it. `IInv` was checked with TLC as an invariant before it was proved.

Two arguments recur in the lemmas about operators:

- *Induction*. It goes over sets: of the numbers for which a claim fails one is
  the least (`Least`), which leads to a contradiction (`Induction`). The same for
  the subsets of a finite set, by their size (`SubsetInduction`).
- *Recursion*. A recursive function defined with `LET`, and the fold behind
  `SumFunction`, are a `CHOOSE` to the prover: that such a function exists must
  be shown first (`ListingExists`, `SumExists`, `FlattenExists`). Only then do its
  equations hold. `SelectSeq` is opaque to the provers, which is a reason why
  `Results` takes its lines by number.

`ResourceMonitorProofs` assumes `SingleController`: the calls that start, stop
and destroy come from one thread, which is how `main()` uses the monitor. There
may be any number of observers, samples, reads and starts. `NoTerminate` is not
inductive: the invariant says in addition which thread the handle names, that
every other thread has returned or was never created, what the controller's
place in `Start` or `Stop` says about `running` and `handle`, and that whoever
is inside a locked section owns the mutex. From it follow

- `TypeCorrect`, `NeverTerminates`, `OneMonitor`, `NoCallbackAfterStop` and
  `WholeSamples`: the invariants of the run;
- `RacesOnlyWhileRunning`, for any use of the setters: a race, as
  `resource_monitor_race` has it, takes a monitor whose `running_` is up. While
  a setter is at work the controller is in no other call, and then a thread that
  is left means that `running_` is up;
- `Refinement`: the monitor implements `MonitorLifecycle`, under the mapping in
  which the phase is *stopped* when no handle and no live thread is left,
  *active* while `running` and *draining* in between. The step lemma maps each
  action to an action of the abstract specification or to a stutter.

`CpuSamplerProofs` assumes `~Overlap`; the number of monitors, the width of the
counters and how far they count are open. The invariant says of the one call
that may be in progress which line `prev` holds at each of its steps and that
the differences are those of the two lines in its `span`, modulo the word; and,
between calls, that `prev` is the line read last and `accounted` its counters.
From it follow `TypeCorrect`, `UsageCorrect` and `TicksAccounted`, the three
properties of the run. `BackwardsNegative` is about the operators alone.

`NetworkCountersProofs` needs a finite set of interfaces and a packet size. The
invariant says how far each of the four vectors is filled (`Aligned`), that the
rows of interfaces that stayed have only grown since the names were listed
(`Steady`), and that each value lies between the two rows at the position it was
*extracted* from. `OthersCorrect` follows for the three counters whose position
is the right one, and `SentAreReceivedPackets` for the fourth: the general form
of the counterexample of `network_counters`.

`DataCollectorProofs` assumes only what the module does (`CollectorAssumption`).
`FlushTruthful` is not inductive: one needs to know that every point is
acknowledged, skipped or being written, and that the acknowledged ones have
their rows as long as the stream is good (`AckInv`); that only acknowledged
points have an end of a row, whole and in order (`RowInv`); that the row being
written is the last thing in a good stream and was begun once (`PendingInv`); that
no point is collected twice (`PointsInv`), without which none of these would say
which point a row is of; and how the stream begins and that a footer comes with
the end (`EndsInv`).
From it follow

- `TypeCorrect`, `FlushCorrect` and `CloseCorrect`;
- `OutputCorrect`, through a second invariant (`LayoutInv`) that says what each
  piece of the stream is, by its number;
- `Implements`: the refinement of `CollectorLog`, one lemma per action. By
  `RowInv` no row of the mapping has index 0 (`RowsAre`); a `FormatThrows` in JSON
  is a `Tear`, after which no other step touches that point.

`WorkloadGeneratorProofs` assumes only what the constructor checks
(`GeneratorAssumption`): any word width that is a multiple of the sector size,
any profile. The invariant adds to the properties that the operation in
progress is never larger than the truncated remainder (`SizeFits`), that the
bytes done never exceed `total_size` modulo the word (`Truncated`), that while
the driver holds a command `Generate` polls, the flag is down and the buffer
allocated (`CommandPolled`), and that `is_running_` is already cleared when a
failure is reported (`Released`). From it follow

- `TypeCorrect`, `ProgressBounded`, `TruthfulReport`, `BufferSafe` and
  `AlwaysReusable`: five invariants of the run;
- `LargeNeverDone`: for every profile with `total_size >= Modulus`, `total`
  stays below `total_size` for ever, whatever fails or is stopped;
- `RoundingWraps`, about `AlignedSize` alone: which sizes are rounded to sectors,
  and which wrap.

Where the commands reach needs an invariant of its own on top (`ReachInv`): the
operation at hand is one that could be chosen now (`OperationChosen`), the bytes
done are whole blocks until the truncated total is reached (`WholeBlocks`), and a
sequential workload has touched all the sectors below the bytes it has submitted
(`Covered`). From it follow

- `RegionSafe`: no command leaves the region of the profile;
- `NoHole`: a sequential run in blocks of whole sectors that came to its end has
  touched every sector of its region.

`BenchmarkProofs` is compositional. `main()` uses each of its components only as
the component allows: a step of the program is a step of the monitor or leaves it
alone, and the same for the collector (`MonitorDriven`, `CollectorDriven`). So
the program implements both specifications, and what is proved of them, for the
parameters they have in `main()`, holds in the program. (`SingleController` is a
fact here: `main()` is the only caller. The callback is the constructor's, and
`main()` calls no setter.) The program's own invariant (`ProgramInv`) says in which states of `main()`
a call of a component can be in progress (`MonitorCallInv`, `CollectorCallInv`),
and how many rows the callbacks have begun (`CallbackInv`). From it follow

- `TypeCorrect`, `CollectorOutlives` and `CompleteAtExit`: the three invariants
  of the run, for every length of the benchmark, wherever `main()` is left;
- `SamplesAreWhole`, `RowsNeverMix` and `NeverTerminated`: properties of the
  components, for the program.

`OptimizerProofs` assumes a finite set of processors, knowledge bases that are
sequences, and thresholds that the setters accept (`OptimizerAssumption`). The
invariant adds to the type and the range of the severities that every file an
item of this round is written to belongs to a resource whose usage reached its
threshold, by the last line for it in the knowledge base (`CauseInv`); and that,
as long as every file has opened, each file holds what the last of the items
applied so far gave it, or what it held before the round (`RoundInv`). The second
makes `RoundResult` inductive: it is the same claim for every prefix of the
items. `FoundInv` is the first one again, for the bottlenecks the detector found,
as long as its thresholds are those of the fallback: the two judge by different
comparisons, of which the proof shows that they agree. From these follow
`TypeCorrect`, `SeveritySound`, `RoundCorrect` and the action properties
`OnlyWithCause` and `DetectorFirst`.

`ResultsProofs` assumes what a collector writes: the CPU and memory rows have
units and integers for values, thresholds are positive, those of CPU and memory
are printed exactly, and what is before the first comma of a label has none
(`ResultsAssumption`). Values may be negative, terminals may have any size. Which rows a file has, where it ends, and which metrics
are asked for is open. The invariant says for each tool that what it holds is the
function of the lines it found that the code computes (`AnalysisInv`,
`VisualizerInv`, `PrinterInv`), though the file goes on growing. From it follow

- `TypeCorrect`;
- `ShowsCollected`: the values shown under a label are the collected ones, in
  order, all of them but perhaps the one of the row the file ends in, if no label
  with a comma begins with it;
- `FindsBottlenecks`: a CPU or memory sample at its threshold is found wherever in
  the file it is, and what is found was at the threshold up to rounding and labels
  with a comma;
- `ParsersAgree`: `nvmeof_visualizer` reports the least and greatest values that
  `nvmeof_analysis` reports of the same file;
- `ChartsShow`, from a second invariant on the pictures (`ChartInv`), and from the
  theorems about the charts, each for every number of values and every terminal:
  `DrawnValues` (the marks inside a line chart are those of as many values as it
  has columns, without the last), `LeftToRight`, `BarsFit` (no bar is longer than the space for it),
  `EachCountedOnce` (the bins of a histogram add up to the number of values) and
  `ColoursOfTheScale`. `LastOutside` is the negative one: the last value of a line
  chart never has a column.

### Only model-checked

- Everything temporal under fairness (`StopReturns`, `CallsReturn`,
  `Terminates`, `StopEnds`, `SmallWorkloadEnds`, `OptimizationTakesHold`):
  liveness is out of the prover's reach.
- The five runs that are violated: their counterexamples are TLC's. One of them
  has a general form that is proved (`SentAreReceivedPackets`).

## Not modelled

- Parsing of command lines and of profiles, console output, the text of reports
  and hardware detection: no state, or layout only.
- The test of the header line in `nvmeof_visualizer` (`visualizer.cpp:200-205`):
  it tells a file of the collector, whose header is complete, from others; a file
  cut off within its header has no rows. Labels with a line break.
- An exception that leaves the monitor's thread function (out of memory in a
  sampler) ends the process; the samplers and the callback are taken not to
  throw.
- Two threads that call `Start` or `Stop` of one monitor at the same time, and two threads in
  `Generate`: no caller does so and no document allows it. What a monitor does
  after its callback was set in the middle of a call of it.
- Commands that complete with an error: the code logs and counts them, and the
  mock never reports one.
- `BottleneckDetector`'s detection callback: the program sets none.
- The memory figures of a sample (two calls of `sysinfo`) and the readers of
  macOS.

## Plan

1. `Results` reads a file that any prefix of the collector's stream may be;
   stating its writer as `CollectorLog` would connect the two, and let what is
   proved of the readers be a statement about the benchmark's points.
2. The search of `nvmeof_analysis` for the newest file of a directory that a
   running benchmark writes to.
3. Proofs with more than one controller of a monitor, once the code says what
   concurrent calls of `Start` and `Stop` should do.
