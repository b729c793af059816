------------------------------ MODULE Benchmark ------------------------------
(***************************************************************************)
(* main() of src/main.cpp: the main thread drives a DataCollector and,     *)
(* when asked to, a ResourceMonitor whose callback writes to the same      *)
(* collector; SIGINT and SIGTERM clear g_running at any moment; on return  *)
(* and on any exception the locals are destroyed in reverse order.         *)
(*                                                                         *)
(* The two components are instances of their own modules: a step of main   *)
(* or of the monitor thread is a step of one of them.  The mock workload   *)
(* of the loop is abstracted to the rows it writes.                        *)
(***************************************************************************)
EXTENDS Naturals, Sequences

CONSTANTS
  Main,          \* the main thread
  Sample, Never, \* the content of a usage sample, and of the default one
  Increment,     \* progress per iteration (5 in the code)
  Full,          \* progress at which the benchmark ends (100 in the code)
  RowsPerStep,   \* rows one iteration writes (4 in the code)
  CallbackRows,  \* rows one callback writes (2 and 2 per interface)
  MaxSamples     \* bound: samples the monitor thread takes before it is stopped

ASSUME BenchmarkAssumption ==
  /\ Increment \in Nat \ {0} /\ Full \in Nat
  /\ RowsPerStep \in Nat /\ CallbackRows \in Nat \ {0} /\ MaxSamples \in Nat
  /\ Main \notin 0 .. 1   \* neither the monitor thread nor the free lock
  /\ Sample # Never

Monitor == 1   \* the monitor thread: Start is called once

\* Enough points for either thread.
MaxRows == 2 + Full * RowsPerStep + (MaxSamples + 1) * CallbackRows

VARIABLES
  main,        \* step of main()
  opts,        \* the switches; optimize: --optimize with a --config-file
  g_running,   \* cleared by the signal handler
  progress,
  written,     \* rows written in this iteration
  rows,        \* rows written in this callback
  built,       \* resource_monitor holds an object
  seen,        \* the set of points the visualizer found in the file, once it ran
  \* the ResourceMonitor
  running, handle, created, mmutex, latest, callback, alive, terminated, reads,
  mpc, mon, view,
  \* the DataCollector
  format, headed, points, stream, flushed, bad, cmutex, cpc, count, closed, acked,
  skipped, synced

mainVars == <<main, opts, g_running, progress, written, built, seen>>
monitorVars == <<running, handle, created, mmutex, latest, callback, alive, terminated,
                 reads, mpc, mon, view>>
collectorVars == <<format, headed, points, stream, flushed, bad, cmutex, cpc, count,
                   closed, acked, skipped, synced>>
vars == <<mainVars, rows, monitorVars, collectorVars>>

M == INSTANCE ResourceMonitor WITH
       Controllers <- {Main}, Observers <- {Main}, Samples <- {Sample},
       MaxStarts <- 1, MaxReads <- Full, LiveReconfig <- FALSE,
       mutex <- mmutex, pc <- mpc

C == INSTANCE DataCollector WITH
       Writers <- {Main, Monitor}, NoWriter <- 0, Formats <- {"CSV"}, MaxPoints <- MaxRows,
       DiskMayFail <- FALSE, AllocMayFail <- FALSE,
       mutex <- cmutex, pc <- cpc

Init ==
  /\ main = "monitor"
  /\ opts \in [monitor : BOOLEAN, optimize : BOOLEAN, visualize : BOOLEAN]
  /\ g_running = TRUE
  /\ progress = 0 /\ written = 0 /\ rows = 0
  /\ built = FALSE
  /\ seen = {}
  /\ M!Init /\ callback
  /\ C!Init

\* main() is not inside a call of a component.
Idle == mpc[Main] = "idle" /\ cpc[Main] = "idle"

MainGoto(from, to) == Idle /\ main = from /\ main' = to

------------------------------------------------------------------------------
(* Setting up.                                                             *)

\* The constructor rejects an interval of zero: nothing was built yet.
MonitorConstructorThrows ==
  /\ opts.monitor
  /\ MainGoto("monitor", "unwind")
  /\ UNCHANGED <<opts, g_running, progress, written, rows, built, seen,
                 monitorVars, collectorVars>>

StartMonitor ==
  /\ opts.monitor
  /\ MainGoto("monitor", "starting")
  /\ M!StartCheck(Main)
  /\ built' = TRUE
  /\ UNCHANGED <<opts, g_running, progress, written, rows, seen, collectorVars>>

StartMonitorStep ==
  /\ main = "starting"
  /\ M!StartStep(Main)
  /\ UNCHANGED <<mainVars, rows, collectorVars>>

\* Start has returned, or the std::thread constructor threw out of it.
StartMonitorReturns ==
  /\ MainGoto("starting", IF handle = M!NoThread THEN "unwind" ELSE "setup")
  /\ UNCHANGED <<opts, g_running, progress, written, rows, built, seen,
                 monitorVars, collectorVars>>

NoMonitor ==
  /\ ~opts.monitor
  /\ MainGoto("monitor", "setup")
  /\ UNCHANGED <<opts, g_running, progress, written, rows, built, seen,
                 monitorVars, collectorVars>>

\* The detector, the knowledge base and the optimizer are built.
Setup ==
  /\ MainGoto("setup", "start_row")
  /\ UNCHANGED <<opts, g_running, progress, written, rows, built, seen,
                 monitorVars, collectorVars>>

------------------------------------------------------------------------------
(* The benchmark loop.                                                     *)

BenchmarkStart ==
  /\ MainGoto("start_row", "loop")
  /\ C!CollectLock(Main)
  /\ UNCHANGED <<opts, g_running, progress, written, rows, built, seen, monitorVars>>

\* The rest of a CollectDataPoint call of main().
MainCollects ==
  /\ C!CollectStep(Main)
  /\ UNCHANGED <<mainVars, rows, monitorVars>>

\* Mutant: the progress is not capped.
UncappedProgress == progress + Increment

NextProgress == IF progress + Increment > Full THEN Full ELSE progress + Increment

LoopTest ==
  /\ IF g_running /\ progress < Full
     THEN /\ MainGoto("loop", "work")
          /\ progress' = NextProgress
          /\ written' = 0
     ELSE MainGoto("loop", "end_row") /\ UNCHANGED <<progress, written>>
  /\ UNCHANGED <<opts, g_running, rows, built, seen, monitorVars, collectorVars>>

WorkRow ==
  /\ written < RowsPerStep
  /\ MainGoto("work", "work")
  /\ C!CollectLock(Main)
  /\ written' = written + 1
  /\ UNCHANGED <<opts, g_running, progress, rows, built, seen, monitorVars>>

WorkDone ==
  /\ written = RowsPerStep
  /\ MainGoto("work", IF opts.optimize /\ built THEN "optimize" ELSE "loop")
  /\ UNCHANGED <<opts, g_running, progress, written, rows, built, seen,
                 monitorVars, collectorVars>>

OptimizeLock ==
  /\ MainGoto("optimize", "optimizing")
  /\ M!GetLatestUsageLock(Main)
  /\ UNCHANGED <<opts, g_running, progress, written, rows, built, seen, collectorVars>>

\* The copy is judged by the optimizer, which shares nothing else.
OptimizeCopy ==
  /\ main = "optimizing" /\ main' = "loop"
  /\ M!GetLatestUsageCopy(Main)
  /\ UNCHANGED <<opts, g_running, progress, written, rows, built, seen, collectorVars>>

BenchmarkEnd ==
  /\ MainGoto("end_row", "stop")
  /\ C!CollectLock(Main)
  /\ UNCHANGED <<opts, g_running, progress, written, rows, built, seen, monitorVars>>

------------------------------------------------------------------------------
(* Stopping, visualizing, unwinding.                                       *)

StopMonitor ==
  /\ built
  /\ MainGoto("stop", "stopping")
  /\ M!StopCheck(Main)
  /\ UNCHANGED <<opts, g_running, progress, written, rows, built, seen, collectorVars>>

StopMonitorStep ==
  /\ main = "stopping"
  /\ M!StopStep(Main)
  /\ UNCHANGED <<mainVars, rows, collectorVars>>

Stopped ==
  /\ \/ MainGoto("stopping", "visualize")
     \/ ~built /\ MainGoto("stop", "visualize")
  /\ UNCHANGED <<opts, g_running, progress, written, rows, built, seen,
                 monitorVars, collectorVars>>

\* ResultVisualizer opens the file by name while the collector holds it open.
Visualize ==
  /\ MainGoto("visualize", "unwind")
  /\ seen' = IF opts.visualize THEN {{p \in C!Points : C!InFile(p)}} ELSE {}
  /\ UNCHANGED <<opts, g_running, progress, written, rows, built,
                 monitorVars, collectorVars>>

\* An exception between the calls: an allocation, the copy of a usage.
Throws ==
  /\ \E s \in {"setup", "optimize", "visualize"} : MainGoto(s, "unwind")
  /\ UNCHANGED <<opts, g_running, progress, written, rows, built, seen,
                 monitorVars, collectorVars>>

\* Mutant: the collector, declared first, is destroyed first.
CollectorFirst == "close"

FirstDestroyed == IF built THEN "unwind_monitor" ELSE "close"

Unwind ==
  /\ MainGoto("unwind", FirstDestroyed)
  /\ UNCHANGED <<opts, g_running, progress, written, rows, built, seen,
                 monitorVars, collectorVars>>

\* Mutant: the monitor's destructor does not stop it.
DestroyWithoutStop ==
  /\ mpc' = [mpc EXCEPT ![Main] = "dtor"]
  /\ UNCHANGED <<running, handle, created, mmutex, latest, callback, alive, terminated,
                 reads, mon, view>>

DestroyMonitor == M!Destroy(Main)

UnwindMonitor ==
  /\ MainGoto("unwind_monitor", "unwinding")
  /\ DestroyMonitor
  /\ UNCHANGED <<opts, g_running, progress, written, rows, built, seen, collectorVars>>

UnwindMonitorStep ==
  /\ main = "unwinding"
  /\ \/ M!StopStep(Main) /\ UNCHANGED main
     \/ mpc[Main] = "gone" /\ main' = "close" /\ UNCHANGED monitorVars
  /\ UNCHANGED <<opts, g_running, progress, written, rows, built, seen, collectorVars>>

\* Mutant: the process ends without running the destructor.
ExitAtOnce ==
  /\ closed' = TRUE
  /\ UNCHANGED <<format, headed, points, stream, flushed, bad, cmutex, cpc, count, acked,
                 skipped, synced>>

CloseFile == C!Destroy

CloseCollector ==
  /\ main = "close" /\ main' = "exited"
  /\ CloseFile
  /\ UNCHANGED <<opts, g_running, progress, written, rows, built, seen, monitorVars>>

------------------------------------------------------------------------------
(* The monitor thread and the signals.                                     *)

\* A sleep may outlast the benchmark: MaxSamples bounds how many end before
\* the monitor is stopped.
SleepMayEnd == ~running \/ count[Monitor] < MaxSamples * CallbackRows

MonitorSamples ==
  /\ \/ M!LoopCheck(Monitor) \/ M!SampleLock(Monitor) \/ M!UpdateScalars(Monitor)
     \/ M!FillVectors(Monitor) \/ (SleepMayEnd /\ M!Sleep(Monitor))
  /\ UNCHANGED <<mainVars, rows, collectorVars>>

CallbackBegins ==
  /\ M!TestCallback(Monitor)
  /\ rows' = 0
  /\ UNCHANGED <<mainVars, collectorVars>>

CallbackRow ==
  /\ mon[Monitor] = "call" /\ rows < CallbackRows
  /\ C!CollectLock(Monitor)
  /\ rows' = rows + 1
  /\ UNCHANGED <<mainVars, monitorVars>>

CallbackCollects ==
  /\ C!CollectStep(Monitor)
  /\ UNCHANGED <<mainVars, rows, monitorVars>>

CallbackEnds ==
  /\ rows = CallbackRows /\ cpc[Monitor] = "idle"
  /\ M!CallbackReturns(Monitor)
  /\ UNCHANGED <<mainVars, rows, collectorVars>>

Signal ==
  /\ g_running
  /\ main # "exited"
  /\ g_running' = FALSE
  /\ UNCHANGED <<main, opts, progress, written, rows, built, seen,
                 monitorVars, collectorVars>>

MainStep ==
  \/ StartMonitor \/ StartMonitorStep
  \/ StartMonitorReturns \/ NoMonitor \/ Setup
  \/ BenchmarkStart \/ MainCollects \/ LoopTest \/ WorkRow \/ WorkDone
  \/ OptimizeLock \/ OptimizeCopy \/ BenchmarkEnd
  \/ StopMonitor \/ StopMonitorStep \/ Stopped \/ Visualize
  \/ Unwind \/ UnwindMonitor \/ UnwindMonitorStep \/ CloseCollector

MonitorStep ==
  MonitorSamples \/ CallbackBegins \/ CallbackRow \/ CallbackCollects \/ CallbackEnds

Next ==
  /\ ~terminated
  /\ MainStep \/ MonitorStep \/ MonitorConstructorThrows \/ Throws \/ Signal

\* Both threads are scheduled; neither a signal nor an exception need come.
Spec == Init /\ [][Next]_vars /\ WF_vars(~terminated /\ MainStep)
             /\ WF_vars(~terminated /\ MonitorStep)

------------------------------------------------------------------------------
(* Properties.                                                             *)

TypeOK ==
  /\ M!TypeOK /\ C!TypeOK
  /\ main \in {"monitor", "starting", "setup", "start_row", "loop", "work",
       "optimize", "optimizing", "end_row", "stop", "stopping", "visualize",
       "unwind", "unwind_monitor", "unwinding", "close", "exited"}
  /\ opts \in [monitor : BOOLEAN, optimize : BOOLEAN, visualize : BOOLEAN]
  /\ g_running \in BOOLEAN /\ built \in BOOLEAN
  /\ progress \in 0 .. Full
  /\ written \in 0 .. RowsPerStep /\ rows \in 0 .. CallbackRows
  /\ \A found \in seen : found \subseteq C!Points

\* The callback captures the collector by reference: no monitor thread is
\* left that could use it once it is destroyed, on any way out of main().
CollectorOutlivesMonitor == closed => ~M!Live(Monitor)

\* When the program has exited, by a signal or an exception included, every
\* point either thread collected is in the file, and no sample is cut off:
\* stopping has waited for the callback in progress to write all of its rows.
ExitComplete ==
  main = "exited" =>
    /\ closed /\ flushed = Len(stream)
    /\ {p \in C!Points : C!InFile(p)} = {points[i] : i \in 1 .. Len(points)}
    /\ count[Monitor] % CallbackRows = 0

\* The program ends through main(), whether a signal or an exception comes or
\* not: the graceful shutdown never waits for good on the monitor or on a lock,
\* and no way out destroys a joinable thread, which would end the process.
Terminates == <>(main = "exited")

\* --visualize shows the results of the benchmark that has just run.
VisualizerSeesResults ==
  main \in {"unwind", "exited"} => \A found \in seen : found = acked

==============================================================================
