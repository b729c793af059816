------------------------ MODULE ResourceMonitorProofs ------------------------
(***************************************************************************)
(* Proofs about ResourceMonitor for one controller, as in main.cpp, and    *)
(* any number of observers, samples, starts and reads.                     *)
(***************************************************************************)
EXTENDS ResourceMonitor, TLAPS

SingleController == \E c : Controllers = {c}

\* Every live thread is the one monitor_thread_ names, or the one Start has
\* just created; and where the controller is fixes what it names.
HandleInv ==
  /\ handle <= created
  /\ \A t \in Threads : t > created => mon[t] = "none"
  /\ \A t \in Threads : Live(t) =>
       \/ t = handle
       \/ t = created /\ \E c \in Controllers : pc[c] = "start_assign"
  /\ \A c \in Controllers :
       /\ pc[c] \in StartSteps \cup {"dtor", "gone"} => handle = NoThread
       /\ pc[c] \in {"start_spawn", "start_assign", "stop_clear"} => running
       /\ pc[c] \in {"start_set", "stop_joinable", "stop_join", "dtor", "gone"} => ~running
       /\ pc[c] \in {"idle", "set_write", "get_copy"} /\ ~running => handle = NoThread
       /\ pc[c] = "start_assign" => created # 0

\* mutex_ belongs to the caller or thread that is inside its scope.
MutexInv ==
  /\ \A c \in Callers : pc[c] \in {"get_copy", "set_write"} => mutex = c
  /\ \A t \in Threads : mon[t] \in {"update", "fill", "call_get"} => mutex = t

\* latest_usage_ is half written only while a thread is filling it in.
SampleInv ==
  /\ (\A t \in Threads : mon[t] # "fill") => latest.vectors = latest.scalars
  /\ \A o \in Observers : view[o].vectors = view[o].scalars

IInv == TypeOK /\ NoTerminate /\ HandleInv /\ MutexInv /\ SampleInv

\* Callers and threads are different actors, and no caller is the free lock.
LEMMA ActorsDiffer ==
  /\ \A c \in Callers : c \notin Threads /\ c # Free
  /\ Controllers \subseteq Callers /\ Observers \subseteq Callers
  /\ \A t \in Threads : t \in Nat /\ t # Free
BY MonitorAssumption DEF MonitorAssumption, Callers, Threads, Free

\* Initially nothing runs and nothing is held.
LEMMA InitIInv == Init => IInv
<1> USE DEF Init, Live, LoopSteps, NoThread, Free, NoUsage, Usage
<1> SUFFICES ASSUME Init PROVE IInv
  OBVIOUS
<1>1. TypeOK
  <2>1. created \in 0 .. MaxStarts /\ reads \in 0 .. MaxReads
    BY MonitorAssumption DEF MonitorAssumption
  <2>2. latest \in Usage
    OBVIOUS
  <2>3. view \in [Observers -> Usage]
    OBVIOUS
  <2>4. pc \in [Callers -> CallerSteps] /\ mon \in [Threads -> ThreadSteps]
    BY DEF CallerSteps, ThreadSteps
  <2>5. running \in BOOLEAN /\ alive \in BOOLEAN /\ terminated \in BOOLEAN /\ callback \in BOOLEAN
    OBVIOUS
  <2>6. QED
    BY <2>1, <2>2, <2>3, <2>4, <2>5 DEF TypeOK
<1>2. HandleInv
  BY MonitorAssumption, ActorsDiffer DEF HandleInv, StartSteps, MonitorAssumption, Callers, Threads
<1>3. MutexInv
  BY ActorsDiffer DEF MutexInv
<1>4. SampleInv
  BY DEF SampleInv
<1>5. QED
  BY <1>1, <1>2, <1>3, <1>4 DEF IInv, NoTerminate

\* Types are preserved: every step moves one actor along its own steps.
LEMMA TypeStep ==
  ASSUME IInv, [Next]_vars
  PROVE  TypeOK'
<1> USE MonitorAssumption, ActorsDiffer DEF IInv, TypeOK, MonitorAssumption, Threads, CallerSteps,
       ThreadSteps, LoopSteps, StartSteps, StopSteps, NoThread, Usage, Free
<1>1. ASSUME NEW c \in Controllers, StartCheck(c) PROVE TypeOK'
  BY <1>1 DEF StartCheck, Goto, MayStart
<1>2. ASSUME NEW c \in Controllers, StartSet(c) PROVE TypeOK'
  BY <1>2 DEF StartSet, Goto
<1>3. ASSUME NEW c \in Controllers, StartSpawn(c) PROVE TypeOK'
  BY <1>3 DEF StartSpawn, Goto
<1>4. ASSUME NEW c \in Controllers, StartSpawnFails(c) PROVE TypeOK'
  BY <1>4 DEF StartSpawnFails, Goto
<1>5. ASSUME NEW c \in Controllers, StartAssign(c) PROVE TypeOK'
  BY <1>5 DEF StartAssign, Goto, NewThread
<1>6. ASSUME NEW c \in Controllers, StopCheck(c) PROVE TypeOK'
  BY <1>6 DEF StopCheck, Goto
<1>7. ASSUME NEW c \in Controllers, StopClear(c) PROVE TypeOK'
  BY <1>7 DEF StopClear, Goto
<1>8. ASSUME NEW c \in Controllers, StopJoinable(c) PROVE TypeOK'
  BY <1>8 DEF StopJoinable, Goto, AfterClear, AfterStop
<1>9. ASSUME NEW c \in Controllers, StopJoin(c) PROVE TypeOK'
  BY <1>9 DEF StopJoin, Goto, Joined, AfterStop
<1>10. ASSUME NEW c \in Controllers, Destroy(c) PROVE TypeOK'
  BY <1>10 DEF Destroy, Goto
<1>11. ASSUME NEW c \in Controllers, DestroyMembers(c) PROVE TypeOK'
  BY <1>11 DEF DestroyMembers, Goto
<1>12. ASSUME NEW c \in Controllers, SetLock(c) PROVE TypeOK'
  BY <1>12 DEF SetLock, Goto, CanLock
<1>13. ASSUME NEW c \in Controllers, SetWrite(c) PROVE TypeOK'
  BY <1>13 DEF SetWrite, Goto
<1>14. ASSUME NEW o \in Observers, GetLatestUsageLock(o) PROVE TypeOK'
  BY <1>14 DEF GetLatestUsageLock, Goto, CanLock
<1>15. ASSUME NEW o \in Observers, GetLatestUsageCopy(o) PROVE TypeOK'
  BY <1>15 DEF GetLatestUsageCopy, Goto
<1>16. ASSUME NEW t \in Threads, LoopCheck(t) PROVE TypeOK'
  BY <1>16 DEF LoopCheck, Advance, KeepRunning
<1>17. ASSUME NEW t \in Threads, SampleLock(t) PROVE TypeOK'
  BY <1>17 DEF SampleLock, Advance, CanLock
<1>18. ASSUME NEW t \in Threads, UpdateScalars(t) PROVE TypeOK'
  BY <1>18 DEF UpdateScalars, Advance
<1>19. ASSUME NEW t \in Threads, FillVectors(t) PROVE TypeOK'
  BY <1>19 DEF FillVectors, Advance, Unlocked
<1>20. ASSUME NEW t \in Threads, TestCallback(t) PROVE TypeOK'
  BY <1>20 DEF TestCallback, Advance
<1>21. ASSUME NEW t \in Threads, CallbackGets(t) PROVE TypeOK'
  BY <1>21 DEF CallbackGets, Advance, CanLock
<1>22. ASSUME NEW t \in Threads, CallbackReturns(t) PROVE TypeOK'
  BY <1>22 DEF CallbackReturns, Advance
<1>23. ASSUME NEW t \in Threads, Sleep(t) PROVE TypeOK'
  BY <1>23 DEF Sleep, Advance
<1>24. CASE UNCHANGED vars
  BY <1>24 DEF vars
<1>25. QED
  BY <1>1, <1>2, <1>3, <1>4, <1>5, <1>6, <1>7, <1>8, <1>9, <1>10, <1>11, <1>12, <1>13, <1>14, <1>15, <1>16, <1>17, <1>18, <1>19, <1>20, <1>21, <1>22, <1>23, <1>24
  DEF Next, ControllerStep, ObserverStep, ThreadStep, StartStep, StopStep

\* The handle, the threads and the controller's place stay in step: this is where
\* one controller matters, for a second one could pass the test of running_ too.
LEMMA HandleStep ==
  ASSUME SingleController, IInv, [Next]_vars
  PROVE  HandleInv'
<1> USE MonitorAssumption, ActorsDiffer DEF IInv, TypeOK, MonitorAssumption, Threads, CallerSteps,
       ThreadSteps, LoopSteps, StartSteps, StopSteps, NoThread, Live, HandleInv, SingleController
<1>1. ASSUME NEW c \in Controllers, StartCheck(c) PROVE HandleInv'
  BY <1>1 DEF StartCheck, Goto, MayStart
<1>2. ASSUME NEW c \in Controllers, StartSet(c) PROVE HandleInv'
  BY <1>2 DEF StartSet, Goto
<1>3. ASSUME NEW c \in Controllers, StartSpawn(c) PROVE HandleInv'
  BY <1>3 DEF StartSpawn, Goto
<1>4. ASSUME NEW c \in Controllers, StartSpawnFails(c) PROVE HandleInv'
  BY <1>4 DEF StartSpawnFails, Goto
<1>5. ASSUME NEW c \in Controllers, StartAssign(c) PROVE HandleInv'
  BY <1>5 DEF StartAssign, Goto, NewThread
<1>6. ASSUME NEW c \in Controllers, StopCheck(c) PROVE HandleInv'
  BY <1>6 DEF StopCheck, Goto
<1>7. ASSUME NEW c \in Controllers, StopClear(c) PROVE HandleInv'
  BY <1>7 DEF StopClear, Goto
<1>8. ASSUME NEW c \in Controllers, StopJoinable(c) PROVE HandleInv'
  BY <1>8 DEF StopJoinable, Goto, AfterClear, AfterStop
<1>9. ASSUME NEW c \in Controllers, StopJoin(c) PROVE HandleInv'
  BY <1>9 DEF StopJoin, Goto, Joined, AfterStop
<1>10. ASSUME NEW c \in Controllers, Destroy(c) PROVE HandleInv'
  BY <1>10 DEF Destroy, Goto
<1>11. ASSUME NEW c \in Controllers, DestroyMembers(c) PROVE HandleInv'
  BY <1>11 DEF DestroyMembers, Goto
<1>12. ASSUME NEW c \in Controllers, SetLock(c) PROVE HandleInv'
  BY <1>12 DEF SetLock, Goto, CanLock
<1>13. ASSUME NEW c \in Controllers, SetWrite(c) PROVE HandleInv'
  BY <1>13 DEF SetWrite, Goto
<1>14. ASSUME NEW o \in Observers, GetLatestUsageLock(o) PROVE HandleInv'
  BY <1>14 DEF GetLatestUsageLock, Goto, CanLock
<1>15. ASSUME NEW o \in Observers, GetLatestUsageCopy(o) PROVE HandleInv'
  BY <1>15 DEF GetLatestUsageCopy, Goto
<1>16. ASSUME NEW t \in Threads, LoopCheck(t) PROVE HandleInv'
  BY <1>16 DEF LoopCheck, Advance, KeepRunning
<1>17. ASSUME NEW t \in Threads, SampleLock(t) PROVE HandleInv'
  BY <1>17 DEF SampleLock, Advance, CanLock
<1>18. ASSUME NEW t \in Threads, UpdateScalars(t) PROVE HandleInv'
  BY <1>18 DEF UpdateScalars, Advance
<1>19. ASSUME NEW t \in Threads, FillVectors(t) PROVE HandleInv'
  BY <1>19 DEF FillVectors, Advance, Unlocked
<1>20. ASSUME NEW t \in Threads, TestCallback(t) PROVE HandleInv'
  BY <1>20 DEF TestCallback, Advance
<1>21. ASSUME NEW t \in Threads, CallbackGets(t) PROVE HandleInv'
  BY <1>21 DEF CallbackGets, Advance, CanLock
<1>22. ASSUME NEW t \in Threads, CallbackReturns(t) PROVE HandleInv'
  BY <1>22 DEF CallbackReturns, Advance
<1>23. ASSUME NEW t \in Threads, Sleep(t) PROVE HandleInv'
  BY <1>23 DEF Sleep, Advance
<1>24. CASE UNCHANGED vars
  BY <1>24 DEF vars
<1>25. QED
  BY <1>1, <1>2, <1>3, <1>4, <1>5, <1>6, <1>7, <1>8, <1>9, <1>10, <1>11, <1>12, <1>13, <1>14, <1>15, <1>16, <1>17, <1>18, <1>19, <1>20, <1>21, <1>22, <1>23, <1>24
  DEF Next, ControllerStep, ObserverStep, ThreadStep, StartStep, StopStep

\* Neither Start nor the destructor meets a joinable handle.
LEMMA NoTerminateStep ==
  ASSUME SingleController, IInv, [Next]_vars
  PROVE  NoTerminate'
<1> USE MonitorAssumption, ActorsDiffer DEF IInv, TypeOK, MonitorAssumption, Threads, CallerSteps,
       ThreadSteps, LoopSteps, StartSteps, StopSteps, NoThread, NoTerminate, HandleInv, SingleController
<1>1. ASSUME NEW c \in Controllers, StartCheck(c) PROVE NoTerminate'
  BY <1>1 DEF StartCheck, Goto, MayStart
<1>2. ASSUME NEW c \in Controllers, StartSet(c) PROVE NoTerminate'
  BY <1>2 DEF StartSet, Goto
<1>3. ASSUME NEW c \in Controllers, StartSpawn(c) PROVE NoTerminate'
  BY <1>3 DEF StartSpawn, Goto
<1>4. ASSUME NEW c \in Controllers, StartSpawnFails(c) PROVE NoTerminate'
  BY <1>4 DEF StartSpawnFails, Goto
<1>5. ASSUME NEW c \in Controllers, StartAssign(c) PROVE NoTerminate'
  BY <1>5 DEF StartAssign, Goto, NewThread
<1>6. ASSUME NEW c \in Controllers, StopCheck(c) PROVE NoTerminate'
  BY <1>6 DEF StopCheck, Goto
<1>7. ASSUME NEW c \in Controllers, StopClear(c) PROVE NoTerminate'
  BY <1>7 DEF StopClear, Goto
<1>8. ASSUME NEW c \in Controllers, StopJoinable(c) PROVE NoTerminate'
  BY <1>8 DEF StopJoinable, Goto, AfterClear, AfterStop
<1>9. ASSUME NEW c \in Controllers, StopJoin(c) PROVE NoTerminate'
  BY <1>9 DEF StopJoin, Goto, Joined, AfterStop
<1>10. ASSUME NEW c \in Controllers, Destroy(c) PROVE NoTerminate'
  BY <1>10 DEF Destroy, Goto
<1>11. ASSUME NEW c \in Controllers, DestroyMembers(c) PROVE NoTerminate'
  BY <1>11 DEF DestroyMembers, Goto
<1>12. ASSUME NEW c \in Controllers, SetLock(c) PROVE NoTerminate'
  BY <1>12 DEF SetLock, Goto, CanLock
<1>13. ASSUME NEW c \in Controllers, SetWrite(c) PROVE NoTerminate'
  BY <1>13 DEF SetWrite, Goto
<1>14. ASSUME NEW o \in Observers, GetLatestUsageLock(o) PROVE NoTerminate'
  BY <1>14 DEF GetLatestUsageLock, Goto, CanLock
<1>15. ASSUME NEW o \in Observers, GetLatestUsageCopy(o) PROVE NoTerminate'
  BY <1>15 DEF GetLatestUsageCopy, Goto
<1>16. ASSUME NEW t \in Threads, LoopCheck(t) PROVE NoTerminate'
  BY <1>16 DEF LoopCheck, Advance, KeepRunning
<1>17. ASSUME NEW t \in Threads, SampleLock(t) PROVE NoTerminate'
  BY <1>17 DEF SampleLock, Advance, CanLock
<1>18. ASSUME NEW t \in Threads, UpdateScalars(t) PROVE NoTerminate'
  BY <1>18 DEF UpdateScalars, Advance
<1>19. ASSUME NEW t \in Threads, FillVectors(t) PROVE NoTerminate'
  BY <1>19 DEF FillVectors, Advance, Unlocked
<1>20. ASSUME NEW t \in Threads, TestCallback(t) PROVE NoTerminate'
  BY <1>20 DEF TestCallback, Advance
<1>21. ASSUME NEW t \in Threads, CallbackGets(t) PROVE NoTerminate'
  BY <1>21 DEF CallbackGets, Advance, CanLock
<1>22. ASSUME NEW t \in Threads, CallbackReturns(t) PROVE NoTerminate'
  BY <1>22 DEF CallbackReturns, Advance
<1>23. ASSUME NEW t \in Threads, Sleep(t) PROVE NoTerminate'
  BY <1>23 DEF Sleep, Advance
<1>24. CASE UNCHANGED vars
  BY <1>24 DEF vars
<1>25. QED
  BY <1>1, <1>2, <1>3, <1>4, <1>5, <1>6, <1>7, <1>8, <1>9, <1>10, <1>11, <1>12, <1>13, <1>14, <1>15, <1>16, <1>17, <1>18, <1>19, <1>20, <1>21, <1>22, <1>23, <1>24
  DEF Next, ControllerStep, ObserverStep, ThreadStep, StartStep, StopStep

\* mutex_ stays with the actor inside its scope.
LEMMA MutexStep ==
  ASSUME IInv, [Next]_vars
  PROVE  MutexInv'
<1> USE MonitorAssumption, ActorsDiffer DEF IInv, TypeOK, MonitorAssumption, Threads, CallerSteps,
       ThreadSteps, LoopSteps, StartSteps, StopSteps, NoThread, Free, MutexInv, HandleInv
<1>1. ASSUME NEW c \in Controllers, StartCheck(c) PROVE MutexInv'
  BY <1>1 DEF StartCheck, Goto, MayStart
<1>2. ASSUME NEW c \in Controllers, StartSet(c) PROVE MutexInv'
  BY <1>2 DEF StartSet, Goto
<1>3. ASSUME NEW c \in Controllers, StartSpawn(c) PROVE MutexInv'
  BY <1>3 DEF StartSpawn, Goto
<1>4. ASSUME NEW c \in Controllers, StartSpawnFails(c) PROVE MutexInv'
  BY <1>4 DEF StartSpawnFails, Goto
<1>5. ASSUME NEW c \in Controllers, StartAssign(c) PROVE MutexInv'
  BY <1>5 DEF StartAssign, Goto, NewThread
<1>6. ASSUME NEW c \in Controllers, StopCheck(c) PROVE MutexInv'
  BY <1>6 DEF StopCheck, Goto
<1>7. ASSUME NEW c \in Controllers, StopClear(c) PROVE MutexInv'
  BY <1>7 DEF StopClear, Goto
<1>8. ASSUME NEW c \in Controllers, StopJoinable(c) PROVE MutexInv'
  BY <1>8 DEF StopJoinable, Goto, AfterClear, AfterStop
<1>9. ASSUME NEW c \in Controllers, StopJoin(c) PROVE MutexInv'
  BY <1>9 DEF StopJoin, Goto, Joined, AfterStop
<1>10. ASSUME NEW c \in Controllers, Destroy(c) PROVE MutexInv'
  BY <1>10 DEF Destroy, Goto
<1>11. ASSUME NEW c \in Controllers, DestroyMembers(c) PROVE MutexInv'
  BY <1>11 DEF DestroyMembers, Goto
<1>12. ASSUME NEW c \in Controllers, SetLock(c) PROVE MutexInv'
  BY <1>12 DEF SetLock, Goto, CanLock
<1>13. ASSUME NEW c \in Controllers, SetWrite(c) PROVE MutexInv'
  BY <1>13 DEF SetWrite, Goto
<1>14. ASSUME NEW o \in Observers, GetLatestUsageLock(o) PROVE MutexInv'
  BY <1>14 DEF GetLatestUsageLock, Goto, CanLock
<1>15. ASSUME NEW o \in Observers, GetLatestUsageCopy(o) PROVE MutexInv'
  BY <1>15 DEF GetLatestUsageCopy, Goto
<1>16. ASSUME NEW t \in Threads, LoopCheck(t) PROVE MutexInv'
  BY <1>16 DEF LoopCheck, Advance, KeepRunning
<1>17. ASSUME NEW t \in Threads, SampleLock(t) PROVE MutexInv'
  BY <1>17 DEF SampleLock, Advance, CanLock
<1>18. ASSUME NEW t \in Threads, UpdateScalars(t) PROVE MutexInv'
  BY <1>18 DEF UpdateScalars, Advance
<1>19. ASSUME NEW t \in Threads, FillVectors(t) PROVE MutexInv'
  BY <1>19 DEF FillVectors, Advance, Unlocked
<1>20. ASSUME NEW t \in Threads, TestCallback(t) PROVE MutexInv'
  BY <1>20 DEF TestCallback, Advance
<1>21. ASSUME NEW t \in Threads, CallbackGets(t) PROVE MutexInv'
  BY <1>21 DEF CallbackGets, Advance, CanLock
<1>22. ASSUME NEW t \in Threads, CallbackReturns(t) PROVE MutexInv'
  BY <1>22 DEF CallbackReturns, Advance
<1>23. ASSUME NEW t \in Threads, Sleep(t) PROVE MutexInv'
  BY <1>23 DEF Sleep, Advance
<1>24. CASE UNCHANGED vars
  BY <1>24 DEF vars
<1>25. QED
  BY <1>1, <1>2, <1>3, <1>4, <1>5, <1>6, <1>7, <1>8, <1>9, <1>10, <1>11, <1>12, <1>13, <1>14, <1>15, <1>16, <1>17, <1>18, <1>19, <1>20, <1>21, <1>22, <1>23, <1>24
  DEF Next, ControllerStep, ObserverStep, ThreadStep, StartStep, StopStep

\* Whoever reads latest_usage_ reads it whole.
LEMMA SampleStep ==
  ASSUME IInv, [Next]_vars
  PROVE  SampleInv'
<1> USE MonitorAssumption, ActorsDiffer DEF IInv, TypeOK, MonitorAssumption, Threads, CallerSteps,
       ThreadSteps, LoopSteps, StartSteps, StopSteps, NoThread, Free, Usage, SampleInv, MutexInv, HandleInv
<1>1. ASSUME NEW c \in Controllers, StartCheck(c) PROVE SampleInv'
  BY <1>1 DEF StartCheck, Goto, MayStart
<1>2. ASSUME NEW c \in Controllers, StartSet(c) PROVE SampleInv'
  BY <1>2 DEF StartSet, Goto
<1>3. ASSUME NEW c \in Controllers, StartSpawn(c) PROVE SampleInv'
  BY <1>3 DEF StartSpawn, Goto
<1>4. ASSUME NEW c \in Controllers, StartSpawnFails(c) PROVE SampleInv'
  BY <1>4 DEF StartSpawnFails, Goto
<1>5. ASSUME NEW c \in Controllers, StartAssign(c) PROVE SampleInv'
  BY <1>5 DEF StartAssign, Goto, NewThread
<1>6. ASSUME NEW c \in Controllers, StopCheck(c) PROVE SampleInv'
  BY <1>6 DEF StopCheck, Goto
<1>7. ASSUME NEW c \in Controllers, StopClear(c) PROVE SampleInv'
  BY <1>7 DEF StopClear, Goto
<1>8. ASSUME NEW c \in Controllers, StopJoinable(c) PROVE SampleInv'
  BY <1>8 DEF StopJoinable, Goto, AfterClear, AfterStop
<1>9. ASSUME NEW c \in Controllers, StopJoin(c) PROVE SampleInv'
  BY <1>9 DEF StopJoin, Goto, Joined, AfterStop
<1>10. ASSUME NEW c \in Controllers, Destroy(c) PROVE SampleInv'
  BY <1>10 DEF Destroy, Goto
<1>11. ASSUME NEW c \in Controllers, DestroyMembers(c) PROVE SampleInv'
  BY <1>11 DEF DestroyMembers, Goto
<1>12. ASSUME NEW c \in Controllers, SetLock(c) PROVE SampleInv'
  BY <1>12 DEF SetLock, Goto, CanLock
<1>13. ASSUME NEW c \in Controllers, SetWrite(c) PROVE SampleInv'
  BY <1>13 DEF SetWrite, Goto
<1>14. ASSUME NEW o \in Observers, GetLatestUsageLock(o) PROVE SampleInv'
  BY <1>14 DEF GetLatestUsageLock, Goto, CanLock
<1>15. ASSUME NEW o \in Observers, GetLatestUsageCopy(o) PROVE SampleInv'
  BY <1>15 DEF GetLatestUsageCopy, Goto
<1>16. ASSUME NEW t \in Threads, LoopCheck(t) PROVE SampleInv'
  BY <1>16 DEF LoopCheck, Advance, KeepRunning
<1>17. ASSUME NEW t \in Threads, SampleLock(t) PROVE SampleInv'
  BY <1>17 DEF SampleLock, Advance, CanLock
<1>18. ASSUME NEW t \in Threads, UpdateScalars(t) PROVE SampleInv'
  BY <1>18 DEF UpdateScalars, Advance
<1>19. ASSUME NEW t \in Threads, FillVectors(t) PROVE SampleInv'
  BY <1>19 DEF FillVectors, Advance, Unlocked
<1>20. ASSUME NEW t \in Threads, TestCallback(t) PROVE SampleInv'
  BY <1>20 DEF TestCallback, Advance
<1>21. ASSUME NEW t \in Threads, CallbackGets(t) PROVE SampleInv'
  BY <1>21 DEF CallbackGets, Advance, CanLock
<1>22. ASSUME NEW t \in Threads, CallbackReturns(t) PROVE SampleInv'
  BY <1>22 DEF CallbackReturns, Advance
<1>23. ASSUME NEW t \in Threads, Sleep(t) PROVE SampleInv'
  BY <1>23 DEF Sleep, Advance
<1>24. CASE UNCHANGED vars
  BY <1>24 DEF vars
<1>25. QED
  BY <1>1, <1>2, <1>3, <1>4, <1>5, <1>6, <1>7, <1>8, <1>9, <1>10, <1>11, <1>12, <1>13, <1>14, <1>15, <1>16, <1>17, <1>18, <1>19, <1>20, <1>21, <1>22, <1>23, <1>24
  DEF Next, ControllerStep, ObserverStep, ThreadStep, StartStep, StopStep

\* IInv is inductive for one controller.
LEMMA StepIInv ==
  ASSUME SingleController, IInv, [Next]_vars
  PROVE  IInv'
BY TypeStep, HandleStep, NoTerminateStep, MutexStep, SampleStep DEF IInv

\* IInv holds in every state, whatever the constants.
THEOREM Invariance ==
  ASSUME SingleController
  PROVE  Spec => []IInv
<1>1. IInv /\ [Next]_vars => IInv'
  BY StepIInv
<1>2. QED
  BY InitIInv, <1>1, PTL DEF Spec

\* Every variable keeps its type, also the handle and the mutex that three
\* kinds of actor pass on.
THEOREM TypeCorrect ==
  ASSUME SingleController
  PROVE  Spec => []TypeOK
<1>1. IInv => TypeOK
  BY DEF IInv
<1>2. QED
  BY Invariance, <1>1, PTL

\* Start never assigns over a joinable std::thread and the destructor never
\* destroys one: one controller cannot drive the process into std::terminate.
THEOREM NeverTerminates ==
  ASSUME SingleController
  PROVE  Spec => []NoTerminate
<1>1. IInv => NoTerminate
  BY DEF IInv
<1>2. QED
  BY Invariance, <1>1, PTL

\* A live thread is the one the handle names, unless Start has not stored it.
LEMMA LiveIsNamed ==
  ASSUME IInv, NEW t \in Threads, Live(t)
  PROVE  \/ t = handle
         \/ /\ t = created /\ handle = NoThread
            /\ \E c \in Controllers : pc[c] = "start_assign"
BY DEF IInv, HandleInv, StartSteps

\* Two monitor threads never run at the same time, across any number of Start
\* and Stop calls: latest_usage_ has one writer.
THEOREM OneMonitor ==
  ASSUME SingleController
  PROVE  Spec => []AtMostOneMonitor
<1>1. IInv => AtMostOneMonitor
  BY LiveIsNamed, ActorsDiffer DEF AtMostOneMonitor, NoThread, Free
<1>2. QED
  BY Invariance, <1>1, PTL

\* After Stop has returned no thread is left that could call the callback.
THEOREM NoCallbackAfterStop ==
  ASSUME SingleController
  PROVE  Spec => []QuietWhenStopped
<1>1. IInv => QuietWhenStopped
  <2> SUFFICES ASSUME IInv, ~running, NEW t \in Threads, Live(t),
                      \A c \in Controllers : pc[c] \in {"idle", "gone"}
               PROVE  FALSE
    BY DEF QuietWhenStopped
  <2>1. t = handle
    BY LiveIsNamed
  <2>2. handle = NoThread
    BY SingleController DEF IInv, HandleInv, SingleController
  <2>3. QED
    BY <2>1, <2>2, ActorsDiffer DEF NoThread, Free
<1>2. QED
  BY Invariance, <1>1, PTL

\* Neither an observer nor the callback ever sees a half-written sample,
\* although the callback reads latest_usage_ without the lock.
THEOREM WholeSamples ==
  ASSUME SingleController
  PROVE  Spec => []SamplesWhole
<1>1. IInv => SamplesWhole
  <2> SUFFICES ASSUME IInv, NEW t \in Threads, mon[t] \in {"call", "call_get"},
                      NEW u \in Threads, mon[u] = "fill"
               PROVE  FALSE
    BY DEF IInv, SampleInv, SamplesWhole
  <2>1. Live(t) /\ Live(u)
    BY DEF Live, LoopSteps
  <2>2. t = u
    BY <2>1, LiveIsNamed, ActorsDiffer DEF NoThread, Free
  <2>3. QED
    BY <2>2
<1>2. QED
  BY Invariance, <1>1, PTL

\* A setter called on a stopped monitor never races with a thread: none is
\* left that could still read callback_ or interval_, also right after Stop and
\* after a Start that failed.  It takes a running monitor to race.
THEOREM RacesOnlyWhileRunning ==
  ASSUME SingleController
  PROVE  Spec => [](~NoDataRace => running)
<1>1. IInv => (~NoDataRace => running)
  <2> SUFFICES ASSUME IInv, NEW c \in Controllers, pc[c] = "set_write", ~running,
                      NEW t \in Threads, mon[t] \in UnlockedReads
               PROVE  FALSE
    BY DEF NoDataRace
  <2>1. Live(t)
    BY DEF Live, LoopSteps, UnlockedReads
  <2>2. handle = NoThread
    BY DEF IInv, HandleInv
  <2>3. \A d \in Controllers : pc[d] # "start_assign"
    BY SingleController DEF SingleController
  <2>4. QED
    BY <2>1, <2>2, <2>3, LiveIsNamed, ActorsDiffer DEF NoThread, Free
<1>2. QED
  BY Invariance, <1>1, PTL

\* Every step of the monitor is a step of MonitorLifecycle, or none.
LEMMA LifecycleStep ==
  ASSUME SingleController, IInv', IInv, [Next]_vars
  PROVE  [Lifecycle!Next]_(Lifecycle!lifecycle)
<1> USE MonitorAssumption, ActorsDiffer DEF IInv, TypeOK, MonitorAssumption, Threads, CallerSteps,
       ThreadSteps, LoopSteps, StartSteps, StopSteps, NoThread, Live, Phase, Stopped, Delivering, LastCall, InSample, HandleInv, NoTerminate, SingleController, Lifecycle!Next, Lifecycle!Open, Lifecycle!RequestStop, Lifecycle!Deliver, Lifecycle!Forgo, Lifecycle!Return, Lifecycle!Close, Lifecycle!lifecycle
<1>1. ASSUME NEW c \in Controllers, StartCheck(c) PROVE [Lifecycle!Next]_(Lifecycle!lifecycle)
  BY <1>1 DEF StartCheck, Goto, MayStart
<1>2. ASSUME NEW c \in Controllers, StartSet(c) PROVE [Lifecycle!Next]_(Lifecycle!lifecycle)
  BY <1>2 DEF StartSet, Goto
<1>3. ASSUME NEW c \in Controllers, StartSpawn(c) PROVE [Lifecycle!Next]_(Lifecycle!lifecycle)
  BY <1>3 DEF StartSpawn, Goto
<1>4. ASSUME NEW c \in Controllers, StartSpawnFails(c) PROVE [Lifecycle!Next]_(Lifecycle!lifecycle)
  BY <1>4 DEF StartSpawnFails, Goto
<1>5. ASSUME NEW c \in Controllers, StartAssign(c) PROVE [Lifecycle!Next]_(Lifecycle!lifecycle)
  BY <1>5 DEF StartAssign, Goto, NewThread
<1>6. ASSUME NEW c \in Controllers, StopCheck(c) PROVE [Lifecycle!Next]_(Lifecycle!lifecycle)
  BY <1>6 DEF StopCheck, Goto
<1>7. ASSUME NEW c \in Controllers, StopClear(c) PROVE [Lifecycle!Next]_(Lifecycle!lifecycle)
  BY <1>7 DEF StopClear, Goto
<1>8. ASSUME NEW c \in Controllers, StopJoinable(c) PROVE [Lifecycle!Next]_(Lifecycle!lifecycle)
  BY <1>8 DEF StopJoinable, Goto, AfterClear, AfterStop
<1>9. ASSUME NEW c \in Controllers, StopJoin(c) PROVE [Lifecycle!Next]_(Lifecycle!lifecycle)
  BY <1>9 DEF StopJoin, Goto, Joined, AfterStop
<1>10. ASSUME NEW c \in Controllers, Destroy(c) PROVE [Lifecycle!Next]_(Lifecycle!lifecycle)
  BY <1>10 DEF Destroy, Goto
<1>11. ASSUME NEW c \in Controllers, DestroyMembers(c) PROVE [Lifecycle!Next]_(Lifecycle!lifecycle)
  BY <1>11 DEF DestroyMembers, Goto
<1>12. ASSUME NEW c \in Controllers, SetLock(c) PROVE [Lifecycle!Next]_(Lifecycle!lifecycle)
  BY <1>12 DEF SetLock, Goto, CanLock
<1>13. ASSUME NEW c \in Controllers, SetWrite(c) PROVE [Lifecycle!Next]_(Lifecycle!lifecycle)
  BY <1>13 DEF SetWrite, Goto
<1>14. ASSUME NEW o \in Observers, GetLatestUsageLock(o) PROVE [Lifecycle!Next]_(Lifecycle!lifecycle)
  BY <1>14 DEF GetLatestUsageLock, Goto, CanLock
<1>15. ASSUME NEW o \in Observers, GetLatestUsageCopy(o) PROVE [Lifecycle!Next]_(Lifecycle!lifecycle)
  BY <1>15 DEF GetLatestUsageCopy, Goto
<1>16. ASSUME NEW t \in Threads, LoopCheck(t) PROVE [Lifecycle!Next]_(Lifecycle!lifecycle)
  BY <1>16 DEF LoopCheck, Advance, KeepRunning
<1>17. ASSUME NEW t \in Threads, SampleLock(t) PROVE [Lifecycle!Next]_(Lifecycle!lifecycle)
  BY <1>17 DEF SampleLock, Advance, CanLock
<1>18. ASSUME NEW t \in Threads, UpdateScalars(t) PROVE [Lifecycle!Next]_(Lifecycle!lifecycle)
  BY <1>18 DEF UpdateScalars, Advance
<1>19. ASSUME NEW t \in Threads, FillVectors(t) PROVE [Lifecycle!Next]_(Lifecycle!lifecycle)
  BY <1>19 DEF FillVectors, Advance, Unlocked
<1>20. ASSUME NEW t \in Threads, TestCallback(t) PROVE [Lifecycle!Next]_(Lifecycle!lifecycle)
  BY <1>20 DEF TestCallback, Advance
<1>21. ASSUME NEW t \in Threads, CallbackGets(t) PROVE [Lifecycle!Next]_(Lifecycle!lifecycle)
  BY <1>21 DEF CallbackGets, Advance, CanLock
<1>22. ASSUME NEW t \in Threads, CallbackReturns(t) PROVE [Lifecycle!Next]_(Lifecycle!lifecycle)
  BY <1>22 DEF CallbackReturns, Advance
<1>23. ASSUME NEW t \in Threads, Sleep(t) PROVE [Lifecycle!Next]_(Lifecycle!lifecycle)
  BY <1>23 DEF Sleep, Advance
<1>24. CASE UNCHANGED vars
  BY <1>24 DEF vars
<1>25. QED
  BY <1>1, <1>2, <1>3, <1>4, <1>5, <1>6, <1>7, <1>8, <1>9, <1>10, <1>11, <1>12, <1>13, <1>14, <1>15, <1>16, <1>17, <1>18, <1>19, <1>20, <1>21, <1>22, <1>23, <1>24
  DEF Next, ControllerStep, ObserverStep, ThreadStep, StartStep, StopStep


\* The monitor implements MonitorLifecycle: callbacks one at a time, only
\* between Start and the return of Stop, at most one begun while Stop waits.
THEOREM Refinement ==
  ASSUME SingleController
  PROVE  Spec => ImplementsLifecycle
<1>1. Init => Lifecycle!Init
  BY ActorsDiffer DEF Init, Lifecycle!Init, Phase, Stopped, Delivering, LastCall, Live,
     LoopSteps, NoThread
<1>2. IInv /\ IInv' /\ [Next]_vars => [Lifecycle!Next]_(Lifecycle!lifecycle)
  BY LifecycleStep
<1>3. QED
  BY Invariance, <1>1, <1>2, PTL DEF Spec, ImplementsLifecycle, Lifecycle!Spec

==============================================================================
