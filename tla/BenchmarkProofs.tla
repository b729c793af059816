--------------------------- MODULE BenchmarkProofs ---------------------------
(***************************************************************************)
(* Proofs about the program, for every length of the benchmark, number of  *)
(* rows and bound on the samples.                                          *)
(*                                                                         *)
(* The argument: main() and the monitor's callback use the two components  *)
(* only as these allow, so every step of the program is a step of the      *)
(* ResourceMonitor or none, and a step of the DataCollector or none.  What *)
(* is proved of the components therefore holds in the program.  The rest   *)
(* is where main() is when it is inside a call of theirs (MonitorCallInv,  *)
(* CollectorCallInv), and how far the callback has come (CallbackInv).     *)
(***************************************************************************)
EXTENDS Benchmark, TLAPS

\* The proofs about the components, for the parameters they have in main().
MP == INSTANCE ResourceMonitorProofs WITH
        Controllers <- {Main}, Observers <- {Main}, Samples <- {Sample},
        MaxStarts <- 1, MaxReads <- Full, LiveReconfig <- FALSE,
        mutex <- mmutex, pc <- mpc

CP == INSTANCE DataCollectorProofs WITH
        Writers <- {Main, Monitor}, NoWriter <- 0, Formats <- {"CSV"}, MaxPoints <- MaxRows,
        DiskMayFail <- FALSE, AllocMayFail <- FALSE,
        mutex <- cmutex, pc <- cpc

\* Where main() is while it calls the monitor, and what is left of it after.
MonitorCallInv ==
  /\ main \in {"starting", "optimize", "optimizing", "stopping", "unwind_monitor", "unwinding"}
       => built
  /\ main = "starting" => mpc[Main] \in M!StartSteps \cup {"idle"}
  /\ main = "optimizing" => mpc[Main] = "get_copy"
  /\ main = "stopping" => mpc[Main] \in M!StopSteps \cup {"idle"}
  /\ main = "unwinding" => mpc[Main] \in M!StopSteps \cup {"dtor", "gone"}
  /\ main \in {"close", "exited"} /\ built => mpc[Main] = "gone"
  /\ main \notin {"starting", "optimizing", "stopping", "unwinding", "close", "exited"}
       => mpc[Main] = "idle"
  /\ ~built => created = 0 /\ mpc[Main] = "idle"
  /\ alive <=> main \notin {"unwinding", "close", "exited"} \/ ~built

\* Where main() is while it calls the collector; nothing fails in it.
CollectorCallInv ==
  /\ cpc[Main] # "idle" => main \in {"loop", "work", "stop"}
  /\ closed <=> main = "exited"
  /\ ~bad /\ skipped = {}

\* The rows the callbacks have begun.
RowsBegun == count[Monitor] + (IF cpc[Monitor] = "push" THEN 1 ELSE 0)

\* The callback is the only one to collect on the monitor thread; before it and
\* after it the rows are those of whole samples.
CallbackInv ==
  /\ mon[Monitor] # "call_get"
  /\ mon[Monitor] = "call" => \E k \in Nat : RowsBegun = k * CallbackRows + rows
  /\ mon[Monitor] # "call" =>
       cpc[Monitor] = "idle" /\ \E k \in Nat : count[Monitor] = k * CallbackRows

\* The types of the variables of main() itself.
MainTypeOK ==
  /\ main \in {"monitor", "starting", "setup", "start_row", "loop", "work",
       "optimize", "optimizing", "end_row", "stop", "stopping", "visualize",
       "unwind", "unwind_monitor", "unwinding", "close", "exited"}
  /\ opts \in [monitor : BOOLEAN, optimize : BOOLEAN, visualize : BOOLEAN]
  /\ g_running \in BOOLEAN /\ built \in BOOLEAN
  /\ progress \in 0 .. Full
  /\ written \in 0 .. RowsPerStep /\ rows \in 0 .. CallbackRows
  /\ \A found \in seen : found \subseteq C!Points

ProgramInv == MainTypeOK /\ MonitorCallInv /\ CollectorCallInv /\ CallbackInv

------------------------------------------------------------------------------
(* The parameters of the components are ones they allow.                   *)

\* What ResourceMonitor assumes of its constants.
LEMMA MonitorParameters ==
  /\ \A c \in {Main} \cup {Main} : c \notin 0 .. 1
  /\ Never \notin {Sample}
  /\ 1 \in Nat \ {0}
  /\ Full \in Nat
  /\ FALSE \in BOOLEAN
BY BenchmarkAssumption

\* The bound on the points is a number.
LEMMA MaxRowsType == MaxRows \in Nat
<1>1. Full * RowsPerStep \in Nat /\ (MaxSamples + 1) * CallbackRows \in Nat
  BY BenchmarkAssumption
<1> QED
  BY <1>1 DEF MaxRows

\* What DataCollector assumes of its constants.
LEMMA CollectorParameters ==
  /\ {"CSV"} \subseteq {"CSV", "JSON", "PLAINTEXT"}
  /\ MaxRows \in Nat
  /\ FALSE \in BOOLEAN
  /\ 0 \notin {Main, Monitor}
BY BenchmarkAssumption, MaxRowsType DEF Monitor

\* The two threads are different, and main() is the one controller.
LEMMA Actors == Main # Monitor /\ Monitor = 1 /\ MP!SingleController
BY BenchmarkAssumption DEF Monitor, MP!SingleController

------------------------------------------------------------------------------
(* The program uses the components as they allow.                          *)

\* A step of the program is a step of the monitor, or leaves it alone.
LEMMA MonitorUse ==
  ASSUME Next
  PROVE  [M!Next]_(M!vars)
<1> USE DEF M!vars, monitorVars
<1>1. ASSUME M!ControllerStep(Main) \/ M!ObserverStep(Main) \/ M!ThreadStep(Monitor)
      PROVE  M!Next
  BY <1>1, Actors DEF Next, M!Next, M!Threads
<1>2. CASE StartMonitor
  BY <1>1, <1>2 DEF StartMonitor, M!ControllerStep
<1>3. CASE StartMonitorStep
  BY <1>1, <1>3 DEF StartMonitorStep, M!ControllerStep
<1>4. CASE OptimizeLock \/ OptimizeCopy
  BY <1>1, <1>4 DEF OptimizeLock, OptimizeCopy, M!ObserverStep
<1>5. CASE StopMonitor
  BY <1>1, <1>5 DEF StopMonitor, M!ControllerStep
<1>6. CASE StopMonitorStep
  BY <1>1, <1>6 DEF StopMonitorStep, M!ControllerStep
<1>7. CASE UnwindMonitor
  BY <1>1, <1>7 DEF UnwindMonitor, DestroyMonitor, M!ControllerStep
<1>8. CASE UnwindMonitorStep
  BY <1>1, <1>8 DEF UnwindMonitorStep, M!ControllerStep
<1>9. CASE MonitorSamples
  BY <1>1, <1>9 DEF MonitorSamples, M!ThreadStep
<1>10. CASE CallbackBegins
  BY <1>1, <1>10 DEF CallbackBegins, M!ThreadStep
<1>11. CASE CallbackEnds
  BY <1>1, <1>11 DEF CallbackEnds, M!ThreadStep
<1>12. CASE StartMonitorReturns \/ NoMonitor \/ Setup \/ LoopTest \/ WorkDone
  BY <1>12 DEF StartMonitorReturns, NoMonitor, Setup, LoopTest, WorkDone
<1>13. CASE BenchmarkStart \/ MainCollects \/ WorkRow \/ BenchmarkEnd
  BY <1>13 DEF BenchmarkStart, MainCollects, WorkRow, BenchmarkEnd
<1>14. CASE Stopped \/ Visualize \/ Unwind \/ CloseCollector
  BY <1>14 DEF Stopped, Visualize, Unwind, CloseCollector
<1>15. CASE CallbackRow \/ CallbackCollects
  BY <1>15 DEF CallbackRow, CallbackCollects
<1>16. CASE MonitorConstructorThrows \/ Throws \/ Signal
  BY <1>16 DEF MonitorConstructorThrows, Throws, Signal
<1> QED
  BY <1>2, <1>3, <1>4, <1>5, <1>6, <1>7, <1>8, <1>9, <1>10, <1>11, <1>12, <1>13, <1>14, <1>15,
     <1>16 DEF Next, MainStep, MonitorStep

\* A step of the program is a step of the collector, or leaves it alone.
LEMMA CollectorUse ==
  ASSUME Next
  PROVE  [C!Next]_(C!vars)
<1> USE DEF C!vars, collectorVars
<1>1. ASSUME NEW w \in {Main, Monitor}, C!CollectLock(w) \/ C!CollectStep(w)
      PROVE  C!Next
  BY <1>1 DEF C!Next
<1>2. CASE BenchmarkStart \/ MainCollects \/ WorkRow \/ BenchmarkEnd
  BY <1>1, <1>2 DEF BenchmarkStart, MainCollects, WorkRow, BenchmarkEnd
<1>3. CASE CallbackRow \/ CallbackCollects
  BY <1>1, <1>3 DEF CallbackRow, CallbackCollects
<1>4. CASE CloseCollector
  BY <1>4 DEF CloseCollector, CloseFile, C!Next
<1>5. CASE StartMonitor \/ StartMonitorStep \/ StartMonitorReturns \/ NoMonitor \/ Setup
  BY <1>5 DEF StartMonitor, StartMonitorStep, StartMonitorReturns, NoMonitor, Setup
<1>6. CASE LoopTest \/ WorkDone \/ OptimizeLock \/ OptimizeCopy
  BY <1>6 DEF LoopTest, WorkDone, OptimizeLock, OptimizeCopy
<1>7. CASE StopMonitor \/ StopMonitorStep \/ Stopped \/ Visualize
  BY <1>7 DEF StopMonitor, StopMonitorStep, Stopped, Visualize
<1>8. CASE Unwind \/ UnwindMonitor \/ UnwindMonitorStep
  BY <1>8 DEF Unwind, UnwindMonitor, UnwindMonitorStep
<1>9. CASE MonitorSamples \/ CallbackBegins \/ CallbackEnds
  BY <1>9 DEF MonitorSamples, CallbackBegins, CallbackEnds
<1>10. CASE MonitorConstructorThrows \/ Throws \/ Signal
  BY <1>10 DEF MonitorConstructorThrows, Throws, Signal
<1> QED
  BY <1>2, <1>3, <1>4, <1>5, <1>6, <1>7, <1>8, <1>9, <1>10 DEF Next, MainStep, MonitorStep

\* The steps of the two instances of a component's module are the same.
LEMMA SameMonitorStep ==
  ASSUME M!Next
  PROVE  MP!Next
BY DEF M!Next, MP!Next, M!ControllerStep, MP!ControllerStep, M!ObserverStep, MP!ObserverStep,
       M!ThreadStep, MP!ThreadStep, M!StartStep, MP!StartStep, M!StopStep, MP!StopStep,
       M!StartCheck, MP!StartCheck, M!StartSet, MP!StartSet, M!StartSpawn, MP!StartSpawn,
       M!StartSpawnFails, MP!StartSpawnFails, M!StartAssign, MP!StartAssign, M!StopCheck,
       MP!StopCheck, M!StopClear, MP!StopClear, M!StopJoinable, MP!StopJoinable, M!StopJoin,
       MP!StopJoin, M!Destroy, MP!Destroy, M!DestroyMembers, MP!DestroyMembers, M!SetLock,
       MP!SetLock, M!SetWrite, MP!SetWrite, M!GetLatestUsageLock, MP!GetLatestUsageLock,
       M!GetLatestUsageCopy, MP!GetLatestUsageCopy, M!LoopCheck, MP!LoopCheck, M!SampleLock,
       MP!SampleLock, M!UpdateScalars, MP!UpdateScalars, M!FillVectors, MP!FillVectors,
       M!TestCallback, MP!TestCallback, M!CallbackGets, MP!CallbackGets, M!CallbackReturns,
       MP!CallbackReturns, M!Sleep, MP!Sleep, M!Goto, MP!Goto, M!Advance, MP!Advance,
       M!MayStart, MP!MayStart, M!NewThread, MP!NewThread, M!AfterClear, MP!AfterClear,
       M!AfterStop, MP!AfterStop, M!Joined, MP!Joined, M!CanLock, MP!CanLock, M!KeepRunning,
       MP!KeepRunning, M!Unlocked, MP!Unlocked, M!Threads, MP!Threads, M!Callers, MP!Callers,
       M!Free, MP!Free, M!NoThread, MP!NoThread

LEMMA SameCollectorStep ==
  ASSUME C!Next
  PROVE  CP!Next
BY DEF C!Next, CP!Next, C!CollectLock, CP!CollectLock, C!CollectStep, CP!CollectStep,
       C!CollectPush, CP!CollectPush, C!StoreThrows, CP!StoreThrows, C!WriteHeader,
       CP!WriteHeader, C!HeaderThrows, CP!HeaderThrows, C!RuleMayThrow, CP!RuleMayThrow,
       C!GiveUp, CP!GiveUp, C!TimestampAt, CP!TimestampAt, C!HeaderPiece, CP!HeaderPiece,
       C!TitlePiece, CP!TitlePiece, C!WriteOpen, CP!WriteOpen, C!FormatThrows,
       CP!FormatThrows, C!WriteClose, CP!WriteClose, C!Flush, CP!Flush, C!Destroy, CP!Destroy,
       C!WriteFooter, CP!WriteFooter, C!FooterThrows, CP!FooterThrows,
       C!Put, CP!Put, C!OpenPiece, CP!OpenPiece, C!ClosePiece, CP!ClosePiece, C!FooterPiece,
       CP!FooterPiece, C!FooterTotal, CP!FooterTotal, C!Current, CP!Current, C!NeedsComma,
       CP!NeedsComma, C!CanLock, CP!CanLock, C!Unlocked, CP!Unlocked, C!FlushResult,
       CP!FlushResult

\* The program drives its monitor as the ResourceMonitor module says: every
\* theorem about that holds in the program.
THEOREM MonitorDriven == Spec => M!Spec
<1>1. Init => M!Init
  BY DEF Init
<1>2. [Next]_vars => [M!Next]_(M!vars)
  BY MonitorUse DEF vars, monitorVars, M!vars
<1> QED
  BY <1>1, <1>2, PTL DEF Spec, M!Spec

\* The two threads use the collector as the DataCollector module says, with no
\* failing disk and no failing allocation.
THEOREM CollectorDriven == Spec => C!Spec
<1>1. Init => C!Init
  BY DEF Init
<1>2. [Next]_vars => [C!Next]_(C!vars)
  BY CollectorUse DEF vars, collectorVars, C!vars
<1> QED
  BY <1>1, <1>2, PTL DEF Spec, C!Spec

\* What a component's module says is what the module of its proofs says.
LEMMA SameSpecs == (M!Spec => MP!Spec) /\ (C!Spec => CP!Spec)
<1>1. M!Init => MP!Init
  BY DEF M!Init, MP!Init, M!NoThread, MP!NoThread, M!Free, MP!Free, M!NoUsage, MP!NoUsage,
       M!Callers, MP!Callers, M!Threads, MP!Threads
<1>2. [M!Next]_(M!vars) => [MP!Next]_(MP!vars)
  BY SameMonitorStep DEF M!vars, MP!vars
<1>3. C!Init => CP!Init
  BY DEF C!Init, CP!Init, C!HeaderPiece, CP!HeaderPiece, C!TitlePiece, CP!TitlePiece,
       C!RuleMayThrow, CP!RuleMayThrow
<1>4. [C!Next]_(C!vars) => [CP!Next]_(CP!vars)
  BY SameCollectorStep DEF C!vars, CP!vars
<1> QED
  BY <1>1, <1>2, <1>3, <1>4, PTL DEF M!Spec, MP!Spec, C!Spec, CP!Spec

\* So the invariants of the components hold in the program.
LEMMA ComponentsInvariant == Spec => [](MP!IInv /\ CP!IInv)
<1>1. MP!Spec => []MP!IInv
  BY MP!Invariance, MonitorParameters, Actors
<1>2. CP!Spec => []CP!IInv
  BY CP!Invariance, CollectorParameters
<1> QED
  BY <1>1, <1>2, MonitorDriven, CollectorDriven, SameSpecs, PTL

------------------------------------------------------------------------------
(* What the components' invariants say of the program's variables.         *)

\* The monitor's variables: types, and no thread where there can be none.
LEMMA MonitorFacts ==
  ASSUME MP!IInv
  PROVE  /\ M!TypeOK
         /\ mpc \in [{Main} -> M!CallerSteps] /\ mon \in [{Monitor} -> M!ThreadSteps]
         /\ created = 0 => mon[Monitor] = "none"
         /\ mpc[Main] = "gone" => ~M!Live(Monitor)
<1>1. M!TypeOK
  BY DEF MP!IInv,
     M!TypeOK, MP!TypeOK, M!Usage, MP!Usage, M!Callers, MP!Callers, M!Threads, MP!Threads,
     M!NoThread, MP!NoThread, M!Free, MP!Free, M!CallerSteps, MP!CallerSteps, M!ThreadSteps,
     MP!ThreadSteps, M!StartSteps, MP!StartSteps, M!StopSteps, MP!StopSteps, M!LoopSteps,
     MP!LoopSteps
<1>2. mpc \in [{Main} -> M!CallerSteps] /\ mon \in [{Monitor} -> M!ThreadSteps]
  BY <1>1, Actors DEF M!TypeOK, M!Callers, M!Threads
<1>3. created = 0 => mon[Monitor] = "none"
  BY Actors DEF MP!IInv, MP!HandleInv, MP!Threads
<1>4. mpc[Main] = "gone" => ~M!Live(Monitor)
  BY Actors DEF MP!IInv, MP!HandleInv, MP!Threads, MP!Live, M!Live, MP!LoopSteps, M!LoopSteps,
     MP!NoThread
<1> QED
  BY <1>1, <1>2, <1>3, <1>4

\* The collector's variables: types, and the whole file once it is closed.
LEMMA CollectorFacts ==
  ASSUME CP!IInv
  PROVE  /\ C!TypeOK
         /\ cpc \in [{Main, Monitor} -> {"idle", "push", "open", "close"}]
         /\ count \in [{Main, Monitor} -> Nat]
         /\ closed /\ ~bad /\ skipped = {} =>
              /\ flushed = Len(stream)
              /\ {p \in C!Points : C!InFile(p)} = {points[i] : i \in 1 .. Len(points)}
<1>1. C!TypeOK
  BY DEF CP!IInv,
     C!TypeOK, CP!TypeOK, C!Points, CP!Points, C!Pieces, CP!Pieces
<1>2. /\ cpc \in [{Main, Monitor} -> {"idle", "push", "open", "close"}]
      /\ count \in [{Main, Monitor} -> Nat]
  BY <1>1, MaxRowsType DEF C!TypeOK
<1>3. ASSUME closed, ~bad, skipped = {}
      PROVE  /\ flushed = Len(stream)
             /\ {p \in C!Points : C!InFile(p)} = {points[i] : i \in 1 .. Len(points)}
  <2>1. flushed = Len(stream) /\ acked = {p \in C!Points : C!InFile(p)}
    BY <1>3 DEF CP!IInv, CP!ClosedFileComplete, CP!Points, C!Points, CP!InFile, C!InFile
  <2>2. \A w \in {Main, Monitor} : ~CP!Writing(w)
    <3>1. cmutex = 0 /\ 0 \notin {Main, Monitor}
      BY <1>3, CollectorParameters DEF CP!IInv, CP!HolderInv
    <3>2. \A w \in {Main, Monitor} : cpc[w] = "idle"
      BY <3>1, <1>1 DEF C!TypeOK
    <3> QED
      BY <3>2 DEF CP!Writing
  <2>3. \A k \in 1 .. Len(points) : points[k] \in acked
    BY <1>3, <2>2 DEF CP!IInv, CP!AckInv
  <2>4. \A p \in acked : \E k \in 1 .. Len(points) : points[k] = p
    BY DEF CP!IInv, CP!AckInv
  <2> QED
    BY <2>1, <2>3, <2>4
<1> QED
  BY <1>1, <1>2, <1>3

------------------------------------------------------------------------------
(* The steps.                                                              *)

\* Between the calls main() moves on; it does not enter a call and leaves none.
LEMMA MonitorCallGoto ==
  ASSUME MonitorCallInv, NEW from, NEW to, MainGoto(from, to), UNCHANGED <<built, monitorVars>>,
         from \notin {"unwinding", "close", "exited"},
         to \notin {"starting", "optimizing", "stopping", "unwinding", "exited"},
         to \in {"optimize", "unwind_monitor"} => built,
         to = "close" => ~built
  PROVE  MonitorCallInv'
BY DEF MonitorCallInv, MainGoto, Idle, monitorVars

\* Where main() is while it calls the monitor.
LEMMA MonitorCallStep ==
  ASSUME MP!IInv, MonitorCallInv, [Next]_vars
  PROVE  MonitorCallInv'
<1> USE DEF MonitorCallInv, monitorVars, mainVars, M!Goto, M!StartSteps, M!StopSteps
<1>1. mpc \in [{Main} -> M!CallerSteps]
  BY MonitorFacts
<1>2. CASE StartMonitor
  BY <1>1, <1>2 DEF StartMonitor, MainGoto, Idle, M!StartCheck, M!MayStart
<1>3. CASE StartMonitorStep
  BY <1>1, <1>3 DEF StartMonitorStep, M!StartStep, M!StartSet, M!StartSpawn,
     M!StartSpawnFails, M!StartAssign
<1>4. CASE StartMonitorReturns \/ NoMonitor \/ Setup
  BY <1>4, MonitorCallGoto DEF StartMonitorReturns, NoMonitor, Setup
<1>5. CASE BenchmarkStart \/ WorkRow \/ BenchmarkEnd
  BY <1>5, MonitorCallGoto DEF BenchmarkStart, WorkRow, BenchmarkEnd
<1>6. CASE LoopTest \/ WorkDone
  BY <1>6, MonitorCallGoto DEF LoopTest, WorkDone
<1>7. CASE OptimizeLock
  BY <1>1, <1>7 DEF OptimizeLock, MainGoto, Idle, M!GetLatestUsageLock
<1>8. CASE OptimizeCopy
  BY <1>1, <1>8 DEF OptimizeCopy, M!GetLatestUsageCopy
<1>9. CASE StopMonitor
  BY <1>1, <1>9 DEF StopMonitor, MainGoto, Idle, M!StopCheck
<1>10. CASE StopMonitorStep
  BY <1>1, <1>10 DEF StopMonitorStep, M!StopStep, M!StopClear, M!StopJoinable, M!StopJoin,
     M!DestroyMembers, M!AfterClear, M!AfterStop
<1>11. CASE Stopped \/ Visualize
  BY <1>11, MonitorCallGoto DEF Stopped, Visualize
<1>12. CASE Unwind
  BY <1>12, MonitorCallGoto DEF Unwind, FirstDestroyed
<1>13. CASE UnwindMonitor
  BY <1>1, <1>13 DEF UnwindMonitor, DestroyMonitor, MainGoto, Idle, M!Destroy
<1>14. CASE UnwindMonitorStep
  BY <1>1, <1>14 DEF UnwindMonitorStep, M!StopStep, M!StopClear, M!StopJoinable, M!StopJoin,
     M!DestroyMembers, M!AfterClear, M!AfterStop
<1>15. CASE CloseCollector
  BY <1>15 DEF CloseCollector
<1>16. CASE MainCollects \/ CallbackRow \/ CallbackCollects \/ Signal
  BY <1>16 DEF MainCollects, CallbackRow, CallbackCollects, Signal
<1>17. CASE MonitorSamples
  BY <1>17 DEF MonitorSamples, M!LoopCheck, M!SampleLock, M!UpdateScalars, M!FillVectors, M!Sleep
<1>18. CASE CallbackBegins \/ CallbackEnds
  BY <1>18 DEF CallbackBegins, CallbackEnds, M!TestCallback, M!CallbackReturns
<1>19. CASE MonitorConstructorThrows \/ Throws
  BY <1>19, MonitorCallGoto DEF MonitorConstructorThrows, Throws
<1>20. CASE UNCHANGED vars
  BY <1>20 DEF vars
<1> QED
  BY <1>2, <1>3, <1>4, <1>5, <1>6, <1>7, <1>8, <1>9, <1>10, <1>11, <1>12, <1>13, <1>14, <1>15,
     <1>16, <1>17, <1>18, <1>19, <1>20 DEF Next, MainStep, MonitorStep

\* While main() is not in the collector, its other steps leave that alone.
LEMMA CollectorCallGoto ==
  ASSUME CollectorCallInv, NEW from, NEW to, MainGoto(from, to), UNCHANGED collectorVars,
         from # "exited", to # "exited"
  PROVE  CollectorCallInv'
BY DEF CollectorCallInv, MainGoto, Idle, collectorVars

\* Nothing fails in a call of the collector.
LEMMA CollectFaultless ==
  ASSUME CollectorCallInv, NEW w \in {Main, Monitor}, C!CollectLock(w) \/ C!CollectStep(w)
  PROVE  ~bad' /\ skipped' = {} /\ closed' = closed
BY DEF CollectorCallInv, C!CollectLock, C!CollectStep, C!CollectPush, C!StoreThrows,
   C!WriteHeader, C!HeaderThrows, C!RuleMayThrow, C!WriteOpen, C!FormatThrows, C!WriteClose, C!Put

\* A thread's call of the collector moves that thread only.
LEMMA CollectMoves ==
  ASSUME CP!IInv, NEW w \in {Main, Monitor}, C!CollectLock(w) \/ C!CollectStep(w)
  PROVE  /\ C!CollectLock(w) => cpc[w] = "idle" /\ cpc'[w] = "push" /\ count' = count
         /\ C!CollectStep(w) => cpc[w] # "idle"
         /\ \A v \in {Main, Monitor} : v # w => cpc'[v] = cpc[v] /\ count'[v] = count[v]
         /\ C!CollectStep(w) =>
              \/ cpc[w] = "push" /\ cpc'[w] # "push" /\ count'[w] = count[w] + 1
              \/ cpc[w] # "push" /\ cpc'[w] # "push" /\ count'[w] = count[w]
<1>1. /\ cpc \in [{Main, Monitor} -> {"idle", "push", "open", "close"}]
      /\ count \in [{Main, Monitor} -> Nat]
  BY CollectorFacts
<1>2. CASE C!CollectLock(w)
  <2>1. ~C!CollectStep(w)
    BY <1>2 DEF C!CollectLock, C!CollectStep, C!CollectPush, C!StoreThrows, C!WriteHeader,
       C!HeaderThrows, C!RuleMayThrow, C!WriteOpen, C!FormatThrows, C!WriteClose
  <2> QED
    BY <1>1, <1>2, <2>1 DEF C!CollectLock
<1>3. CASE C!CollectStep(w)
  BY <1>1, <1>3 DEF C!CollectLock, C!CollectStep, C!CollectPush, C!StoreThrows, C!WriteHeader,
     C!HeaderThrows, C!RuleMayThrow, C!WriteOpen, C!FormatThrows, C!WriteClose
<1> QED
  BY <1>2, <1>3

\* Where main() is while it calls the collector.
LEMMA CollectorCallStep ==
  ASSUME CP!IInv, MonitorCallInv, CollectorCallInv, [Next]_vars
  PROVE  CollectorCallInv'
<1> USE DEF CollectorCallInv, collectorVars, mainVars
<1>1. CASE BenchmarkStart
  BY <1>1, CollectFaultless, CollectMoves DEF BenchmarkStart, MainGoto
<1>2. CASE WorkRow
  BY <1>2, CollectFaultless, CollectMoves DEF WorkRow, MainGoto
<1>3. CASE BenchmarkEnd
  BY <1>3, CollectFaultless, CollectMoves DEF BenchmarkEnd, MainGoto
<1>4. CASE MainCollects
  BY <1>4, CollectFaultless, CollectMoves DEF MainCollects
<1>5. CASE CallbackRow
  BY <1>5, Actors, CollectFaultless, CollectMoves DEF CallbackRow
<1>6. CASE CallbackCollects
  BY <1>6, Actors, CollectFaultless, CollectMoves DEF CallbackCollects
<1>7. CASE CloseCollector
  BY <1>7 DEF CloseCollector, CloseFile, C!Destroy
<1>8. CASE StartMonitor \/ StartMonitorReturns \/ NoMonitor \/ Setup \/ OptimizeLock
  BY <1>8, CollectorCallGoto DEF StartMonitor, StartMonitorReturns, NoMonitor, Setup,
     OptimizeLock
<1>9. CASE LoopTest \/ WorkDone \/ StopMonitor \/ Stopped \/ Visualize
  BY <1>9, CollectorCallGoto DEF LoopTest, WorkDone, StopMonitor, Stopped, Visualize
<1>10. CASE Unwind \/ UnwindMonitor \/ MonitorConstructorThrows \/ Throws
  BY <1>10, CollectorCallGoto DEF Unwind, FirstDestroyed, UnwindMonitor,
     MonitorConstructorThrows, Throws
<1>11. CASE StartMonitorStep \/ StopMonitorStep
  BY <1>11 DEF StartMonitorStep, StopMonitorStep
<1>12. CASE OptimizeCopy \/ UnwindMonitorStep
  BY <1>12 DEF OptimizeCopy, UnwindMonitorStep
<1>13. CASE MonitorSamples \/ CallbackBegins \/ CallbackEnds \/ Signal
  BY <1>13 DEF MonitorSamples, CallbackBegins, CallbackEnds, Signal
<1>14. CASE UNCHANGED vars
  BY <1>14 DEF vars
<1> QED
  BY <1>1, <1>2, <1>3, <1>4, <1>5, <1>6, <1>7, <1>8, <1>9, <1>10, <1>11, <1>12, <1>13, <1>14
  DEF Next, MainStep, MonitorStep

\* The callback's rows are disturbed by no step of another.
LEMMA CallbackKept ==
  ASSUME CallbackInv, rows' = rows, mon'[Monitor] = mon[Monitor],
         cpc'[Monitor] = cpc[Monitor], count'[Monitor] = count[Monitor]
  PROVE  CallbackInv'
BY DEF CallbackInv, RowsBegun

\* How far the callback has come.
LEMMA CallbackStep ==
  ASSUME MP!IInv, CP!IInv, MainTypeOK, CallbackInv, [Next]_vars
  PROVE  CallbackInv'
<1> USE DEF mainVars, monitorVars, collectorVars
<1>0. /\ mon \in [{Monitor} -> M!ThreadSteps]
      /\ created = 0 => mon[Monitor] = "none"
      /\ cpc \in [{Main, Monitor} -> {"idle", "push", "open", "close"}]
      /\ count \in [{Main, Monitor} -> Nat]
  BY MonitorFacts, CollectorFacts
<1>1. CASE BenchmarkStart \/ MainCollects \/ WorkRow \/ BenchmarkEnd
  <2>1. C!CollectLock(Main) \/ C!CollectStep(Main)
    BY <1>1 DEF BenchmarkStart, MainCollects, WorkRow, BenchmarkEnd
  <2>2. cpc'[Monitor] = cpc[Monitor] /\ count'[Monitor] = count[Monitor]
    BY <2>1, Actors, CollectMoves
  <2>3. rows' = rows /\ mon' = mon
    BY <1>1 DEF BenchmarkStart, MainCollects, WorkRow, BenchmarkEnd
  <2> QED
    BY <2>2, <2>3, CallbackKept
<1>2. CASE StartMonitorStep
  <2>1. CASE M!StartSpawn(Main)
    <3>1. created \in Nat /\ created < 1
      BY <2>1, MonitorFacts DEF M!StartSpawn, M!TypeOK
    <3>2. created = 0 /\ created + 1 = Monitor
      BY <3>1, Actors
    <3>3. mon[Monitor] = "none" /\ mon'[Monitor] = "check"
      <4>1. mon' = [mon EXCEPT ![created + 1] = "check"]
        BY <2>1 DEF M!StartSpawn
      <4> QED
        BY <4>1, <1>0, <3>2
    <3>4. cpc' = cpc /\ count' = count
      BY <1>2 DEF StartMonitorStep
    <3> QED
      BY <3>3, <3>4 DEF CallbackInv
  <2>2. CASE M!StartSet(Main) \/ M!StartSpawnFails(Main) \/ M!StartAssign(Main)
    BY <1>2, <2>2, CallbackKept DEF StartMonitorStep, M!StartSet, M!StartSpawnFails,
       M!StartAssign
  <2> QED
    BY <1>2, <2>1, <2>2 DEF StartMonitorStep, M!StartStep
<1>3. CASE StartMonitor \/ OptimizeLock \/ OptimizeCopy \/ StopMonitor
  BY <1>3, CallbackKept DEF StartMonitor, OptimizeLock, OptimizeCopy, StopMonitor, M!StartCheck,
     M!GetLatestUsageLock, M!GetLatestUsageCopy, M!StopCheck
<1>4. CASE StopMonitorStep \/ UnwindMonitorStep \/ UnwindMonitor
  BY <1>4, CallbackKept DEF StopMonitorStep, UnwindMonitorStep, UnwindMonitor, DestroyMonitor,
     M!StopStep, M!StopClear, M!StopJoinable, M!StopJoin, M!DestroyMembers, M!Destroy
<1>5. CASE StartMonitorReturns \/ NoMonitor \/ Setup \/ LoopTest \/ WorkDone
  BY <1>5, CallbackKept DEF StartMonitorReturns, NoMonitor, Setup, LoopTest, WorkDone
<1>6. CASE Stopped \/ Visualize \/ Unwind \/ MonitorConstructorThrows \/ Throws \/ Signal
  BY <1>6, CallbackKept DEF Stopped, Visualize, Unwind, MonitorConstructorThrows, Throws, Signal
<1>7. CASE CloseCollector
  BY <1>7, CallbackKept DEF CloseCollector, CloseFile, C!Destroy
<1>8. CASE MonitorSamples
  <2>1. /\ mon[Monitor] # "call" /\ mon'[Monitor] \notin {"call", "call_get"}
    BY <1>0, <1>8 DEF MonitorSamples, M!Advance, M!LoopCheck, M!SampleLock, M!UpdateScalars,
       M!FillVectors, M!Sleep
  <2>2. cpc' = cpc /\ count' = count
    BY <1>8 DEF MonitorSamples
  <2> QED
    BY <2>1, <2>2 DEF CallbackInv
<1>9. CASE CallbackBegins
  <2>1. /\ mon[Monitor] = "invoke" /\ mon'[Monitor] \in {"call", "sleep"}
        /\ rows' = 0 /\ cpc' = cpc /\ count' = count
    BY <1>0, <1>9 DEF CallbackBegins, M!Advance, M!TestCallback
  <2>2. cpc[Monitor] = "idle" /\ count[Monitor] \in Nat
    BY <1>0, <2>1, Actors DEF CallbackInv
  <2>3. PICK k \in Nat : count[Monitor] = k * CallbackRows
    BY <2>1 DEF CallbackInv
  <2>4. RowsBegun' = count[Monitor]
    BY <2>1, <2>2 DEF RowsBegun
  <2>5. RowsBegun' = k * CallbackRows + rows'
    BY <2>1, <2>2, <2>3, <2>4
  <2> QED
    BY <2>1, <2>2, <2>3, <2>5 DEF CallbackInv
<1>10. CASE CallbackRow
  <2>1. /\ mon[Monitor] = "call" /\ mon' = mon /\ rows' = rows + 1 /\ count' = count
        /\ cpc[Monitor] = "idle" /\ cpc'[Monitor] = "push"
    BY <1>10, CollectMoves DEF CallbackRow
  <2>2. PICK k \in Nat : RowsBegun = k * CallbackRows + rows
    BY <2>1 DEF CallbackInv
  <2>3. RowsBegun = count[Monitor] /\ RowsBegun' = count[Monitor] + 1 /\ count[Monitor] \in Nat
    BY <1>0, <2>1 DEF RowsBegun
  <2>4. k * CallbackRows \in Nat /\ rows \in Nat
    BY BenchmarkAssumption DEF MainTypeOK
  <2>5. RowsBegun' = k * CallbackRows + rows'
    BY <2>1, <2>2, <2>3, <2>4
  <2> QED
    BY <2>1, <2>5 DEF CallbackInv
<1>11. CASE CallbackCollects
  <2>1. /\ cpc[Monitor] # "idle" /\ mon' = mon /\ rows' = rows
        /\ cpc'[Monitor] # "push"
        /\ \/ cpc[Monitor] = "push" /\ count'[Monitor] = count[Monitor] + 1
           \/ cpc[Monitor] # "push" /\ count'[Monitor] = count[Monitor]
    BY <1>11, CollectMoves DEF CallbackCollects
  <2>2. RowsBegun' = RowsBegun
    BY <1>0, <2>1 DEF RowsBegun
  <2> QED
    BY <2>1, <2>2 DEF CallbackInv
<1>12. CASE CallbackEnds
  <2>1. /\ mon[Monitor] \in {"call", "call_get"} /\ mon'[Monitor] = "sleep"
        /\ rows = CallbackRows /\ cpc[Monitor] = "idle" /\ cpc' = cpc /\ count' = count
    BY <1>0, <1>12 DEF CallbackEnds, M!CallbackReturns, M!Advance
  <2>2. PICK k \in Nat : RowsBegun = k * CallbackRows + rows
    BY <2>1 DEF CallbackInv
  <2>3. count[Monitor] = k * CallbackRows + CallbackRows
    BY <1>0, <2>1, <2>2 DEF RowsBegun
  <2>4. k * CallbackRows + CallbackRows = (k + 1) * CallbackRows /\ k + 1 \in Nat
    BY BenchmarkAssumption
  <2> QED
    BY <2>1, <2>3, <2>4 DEF CallbackInv
<1>13. CASE UNCHANGED vars
  BY <1>13, CallbackKept DEF vars
<1> QED
  BY <1>1, <1>2, <1>3, <1>4, <1>5, <1>6, <1>7, <1>8, <1>9, <1>10, <1>11, <1>12, <1>13
  DEF Next, MainStep, MonitorStep

\* The variables of main() itself.
LEMMA MainTypeStep ==
  ASSUME MainTypeOK, [Next]_vars
  PROVE  MainTypeOK'
<1> USE BenchmarkAssumption DEF MainTypeOK, mainVars, MainGoto
<1>1. CASE StartMonitor \/ StartMonitorStep \/ StartMonitorReturns \/ NoMonitor \/ Setup
  BY <1>1 DEF StartMonitor, StartMonitorStep, StartMonitorReturns, NoMonitor, Setup
<1>2. CASE BenchmarkStart \/ MainCollects \/ BenchmarkEnd
  BY <1>2 DEF BenchmarkStart, MainCollects, BenchmarkEnd
<1>3. CASE LoopTest
  BY <1>3 DEF LoopTest, NextProgress
<1>4. CASE WorkRow \/ WorkDone
  BY <1>4 DEF WorkRow, WorkDone
<1>5. CASE OptimizeLock \/ OptimizeCopy \/ StopMonitor \/ StopMonitorStep \/ Stopped
  BY <1>5 DEF OptimizeLock, OptimizeCopy, StopMonitor, StopMonitorStep, Stopped
<1>6. CASE Visualize
  <2>1. \A found \in seen' : found \subseteq C!Points
    BY <1>6 DEF Visualize
  <2>2. UNCHANGED <<opts, g_running, progress, written, rows, built>> /\ main' = "unwind"
    BY <1>6 DEF Visualize
  <2>3. C!Points' = C!Points
    BY DEF C!Points
  <2> QED
    BY <2>1, <2>2, <2>3
<1>7. CASE Unwind \/ UnwindMonitor \/ UnwindMonitorStep \/ CloseCollector
  BY <1>7 DEF Unwind, FirstDestroyed, UnwindMonitor, UnwindMonitorStep, CloseCollector
<1>8. CASE MonitorSamples \/ CallbackBegins \/ CallbackRow \/ CallbackCollects \/ CallbackEnds
  BY <1>8 DEF MonitorSamples, CallbackBegins, CallbackRow, CallbackCollects, CallbackEnds
<1>9. CASE MonitorConstructorThrows \/ Throws \/ Signal
  BY <1>9 DEF MonitorConstructorThrows, Throws, Signal
<1>10. CASE UNCHANGED vars
  BY <1>10 DEF vars
<1> QED
  BY <1>1, <1>2, <1>3, <1>4, <1>5, <1>6, <1>7, <1>8, <1>9, <1>10 DEF Next, MainStep, MonitorStep

------------------------------------------------------------------------------
(* The invariant and what follows from it.                                 *)

\* The program begins outside of both components.
LEMMA InitProgramInv == Init => ProgramInv
<1> SUFFICES ASSUME Init PROVE ProgramInv
  OBVIOUS
<1>1. MainTypeOK
  <2>1. 0 \in 0 .. Full /\ 0 \in 0 .. RowsPerStep /\ 0 \in 0 .. CallbackRows
    BY BenchmarkAssumption
  <2> QED
    BY <2>1 DEF Init, MainTypeOK
<1> USE BenchmarkAssumption, Actors DEF Init, M!Init, C!Init, M!Callers, M!Threads, M!NoThread
<1>2. MonitorCallInv
  BY DEF MonitorCallInv
<1>3. CollectorCallInv
  BY DEF CollectorCallInv
<1>4. CallbackInv
  <2>1. count[Monitor] = 0 * CallbackRows
    OBVIOUS
  <2> QED
    BY <2>1 DEF CallbackInv
<1> QED
  BY <1>1, <1>2, <1>3, <1>4 DEF ProgramInv

\* The program's own invariant holds in every reachable state.
THEOREM Invariance == Spec => []ProgramInv
<1>1. MP!IInv /\ CP!IInv /\ ProgramInv /\ [Next]_vars => ProgramInv'
  BY MonitorCallStep, CollectorCallStep, CallbackStep, MainTypeStep DEF ProgramInv
<1> QED
  BY <1>1, InitProgramInv, ComponentsInvariant, PTL DEF Spec

\* Every variable of the program and of its two components keeps its type.
THEOREM TypeCorrect == Spec => []TypeOK
<1>1. MP!IInv /\ CP!IInv /\ ProgramInv => TypeOK
  BY MonitorFacts, CollectorFacts DEF ProgramInv, MainTypeOK, TypeOK
<1> QED
  BY <1>1, Invariance, ComponentsInvariant, PTL

\* Once the collector is destroyed no monitor thread is left that could still
\* run the callback, whichever way main() is left.
THEOREM CollectorOutlives == Spec => []CollectorOutlivesMonitor
<1>1. MP!IInv /\ CP!IInv /\ ProgramInv => CollectorOutlivesMonitor
  <2> SUFFICES ASSUME MP!IInv, ProgramInv, closed
               PROVE  ~M!Live(Monitor)
    BY DEF CollectorOutlivesMonitor
  <2>1. main = "exited"
    BY DEF ProgramInv, CollectorCallInv
  <2>2. CASE built
    BY <2>1, <2>2, MonitorFacts DEF ProgramInv, MonitorCallInv
  <2>3. CASE ~built
    BY <2>3, MonitorFacts DEF ProgramInv, MonitorCallInv, M!Live, M!LoopSteps
  <2> QED
    BY <2>2, <2>3
<1> QED
  BY <1>1, Invariance, ComponentsInvariant, PTL

\* A product has no remainder.
LEMMA NoRemainder ==
  ASSUME NEW k \in Nat, NEW n \in Nat \ {0}
  PROVE  (k * n) % n = 0
BY n > 0, Z3

\* When the program has exited every collected point is in the file, and the
\* rows of the callback are those of whole samples.
THEOREM CompleteAtExit == Spec => []ExitComplete
<1>1. MP!IInv /\ CP!IInv /\ ProgramInv => ExitComplete
  <2> SUFFICES ASSUME MP!IInv, CP!IInv, ProgramInv, main = "exited"
               PROVE  /\ closed /\ flushed = Len(stream)
                      /\ {p \in C!Points : C!InFile(p)} = {points[i] : i \in 1 .. Len(points)}
                      /\ count[Monitor] % CallbackRows = 0
    BY DEF ExitComplete
  <2>1. closed /\ ~bad /\ skipped = {}
    BY DEF ProgramInv, CollectorCallInv
  <2>2. /\ flushed = Len(stream)
        /\ {p \in C!Points : C!InFile(p)} = {points[i] : i \in 1 .. Len(points)}
    BY <2>1, CollectorFacts
  <2>3. mon[Monitor] # "call"
    <3>1. CASE built
      BY <3>1, MonitorFacts DEF ProgramInv, MonitorCallInv, M!Live, M!LoopSteps
    <3>2. CASE ~built
      BY <3>2, MonitorFacts DEF ProgramInv, MonitorCallInv
    <3> QED
      BY <3>1, <3>2
  <2>4. PICK k \in Nat : count[Monitor] = k * CallbackRows
    BY <2>3 DEF ProgramInv, CallbackInv
  <2>5. count[Monitor] % CallbackRows = 0
    BY <2>4, NoRemainder, BenchmarkAssumption
  <2> QED
    BY <2>1, <2>2, <2>5
<1> QED
  BY <1>1, Invariance, ComponentsInvariant, PTL

\* Neither the optimizer's copy of the latest sample nor the usage the callback
\* gets by reference is ever half written.
THEOREM SamplesAreWhole == Spec => []M!SamplesWhole
<1>1. MP!Spec => []MP!SamplesWhole
  BY MP!WholeSamples, MonitorParameters, Actors
<1>2. MP!SamplesWhole => M!SamplesWhole
  BY DEF MP!SamplesWhole, M!SamplesWhole, MP!Threads, M!Threads
<1> QED
  BY <1>1, <1>2, MonitorDriven, SameSpecs, PTL

\* The rows that main() and the callback write never mix: whenever neither is in
\* the collector the file is the header and one whole row per point, in order.
THEOREM RowsNeverMix == Spec => []C!OutputMatchesPoints
<1>1. CP!Spec => []CP!OutputMatchesPoints
  BY CP!OutputCorrect, CollectorParameters
<1>2. CP!OutputMatchesPoints => C!OutputMatchesPoints
  BY DEF C!OutputMatchesPoints, CP!OutputMatchesPoints, C!Faultless, CP!Faultless, C!Rendering,
     CP!Rendering, C!Footer, CP!Footer, C!HeaderPiece, CP!HeaderPiece, C!OpenPiece,
     CP!OpenPiece, C!ClosePiece, CP!ClosePiece, C!FooterPiece, CP!FooterPiece,
     C!RuleMayThrow, CP!RuleMayThrow
<1> QED
  BY <1>1, <1>2, CollectorDriven, SameSpecs, PTL

\* No way out of main() ends the process by std::terminate: the monitor's
\* destructor never finds its thread joinable.
THEOREM NeverTerminated == Spec => []~terminated
<1>1. MP!IInv => ~terminated
  BY DEF MP!IInv, MP!NoTerminate
<1> QED
  BY <1>1, ComponentsInvariant, PTL

==============================================================================
