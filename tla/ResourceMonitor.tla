--------------------------- MODULE ResourceMonitor ---------------------------
(***************************************************************************)
(* ResourceMonitor (src/bottleneck_analysis/resource_monitor.cpp): a       *)
(* background thread samples the machine into latest_usage_ and hands each *)
(* sample to a callback.  Controllers call Start, Stop, SetCallback,       *)
(* SetInterval and the destructor; Observers call GetLatestUsage; every    *)
(* std::thread that Start creates is a thread of its own (Threads).        *)
(*                                                                         *)
(* One action per point at which another thread can be noticed: every      *)
(* access to running_, monitor_thread_, mutex_, latest_usage_, callback_   *)
(* and interval_, whose value only says how long a sleep lasts.  The       *)
(* samplers (CpuSampler, NetworkCounters) and the callback are taken not   *)
(* to throw.                                                               *)
(***************************************************************************)
EXTENDS Naturals

CONSTANTS
  Controllers,   \* threads that start, stop, reconfigure and destroy
  Observers,     \* threads that read the latest sample; may be controllers too
  Samples,       \* contents one sample can have
  Never,         \* the default-constructed ResourceUsage
  MaxStarts,     \* bound: std::threads created over the object's life
  MaxReads,      \* bound: GetLatestUsage calls of all observers together
  LiveReconfig   \* whether the setters are called on a running monitor: nothing
                 \* forbids it, but it is a data race (NoDataRace), after which
                 \* C++ promises nothing and what follows shows nothing

ASSUME MonitorAssumption ==
  /\ \A c \in Controllers \cup Observers : c \notin 0 .. MaxStarts
  /\ Never \notin Samples
  /\ MaxStarts \in Nat \ {0}
  /\ MaxReads \in Nat
  /\ LiveReconfig \in BOOLEAN

Callers == Controllers \cup Observers
Threads == 1 .. MaxStarts

\* The two values a lock or a handle has beside its owner.
Free == 0
NoThread == 0

\* Steps of Start, Stop, the destructor, GetLatestUsage and the setters.
StartSteps == {"start_set", "start_spawn", "start_assign"}
StopSteps == {"stop_clear", "stop_joinable", "stop_join"}
CallerSteps ==
  {"idle", "get_copy", "set_write", "dtor", "gone"} \cup StartSteps \cup StopSteps

\* Steps of MonitorResources; "none": no such thread yet, "done": returned.
LoopSteps == {"check", "sample", "update", "fill", "invoke", "call", "call_get", "sleep"}
ThreadSteps == {"none", "done"} \cup LoopSteps

VARIABLES
  running,      \* running_ (atomic)
  handle,       \* monitor_thread_: the thread it names, joinable iff # NoThread
  created,      \* std::threads created so far
  mutex,        \* mutex_: its owner
  latest,       \* latest_usage_: scalar fields and the per-interface vectors
  callback,     \* whether callback_ holds a target
  alive,        \* FALSE once the destructor has begun
  terminated,   \* std::terminate was called
  reads,        \* GetLatestUsage calls so far (bound)
  pc,           \* step of each caller
  mon,          \* step of each monitor thread
  view          \* what GetLatestUsage last returned to each observer

vars == <<running, handle, created, mutex, latest, callback, alive, terminated,
          reads, pc, mon, view>>

Usage == [scalars : Samples \cup {Never}, vectors : Samples \cup {Never, "partial"}]

NoUsage == [scalars |-> Never, vectors |-> Never]

Live(t) == mon[t] \in LoopSteps

Goto(c, from, to) == pc[c] = from /\ pc' = [pc EXCEPT ![c] = to]

Advance(t, from, to) == mon[t] = from /\ mon' = [mon EXCEPT ![t] = to]

\* Mutant: the guard is missing.
NoLockGuard(c) == TRUE

\* A lock_guard on mutex_ can be constructed.
CanLock(c) == mutex = Free

Init ==
  /\ running = FALSE
  /\ handle = NoThread
  /\ created = 0
  /\ mutex = Free
  /\ latest = NoUsage
  /\ callback \in BOOLEAN
  /\ alive = TRUE
  /\ terminated = FALSE
  /\ reads = 0
  /\ pc = [c \in Callers |-> "idle"]
  /\ mon = [t \in Threads |-> "none"]
  /\ view = [o \in Observers |-> NoUsage]

------------------------------------------------------------------------------
(* Start: when running_ is set the call throws and changes nothing.        *)

\* Mutant: Start does not test running_.
MayStartAgain == alive

MayStart == alive /\ ~running

StartCheck(c) ==
  /\ MayStart
  /\ created < MaxStarts
  /\ Goto(c, "idle", "start_set")
  /\ UNCHANGED <<running, handle, created, mutex, latest, callback, alive,
                 terminated, reads, mon, view>>

StartSet(c) ==
  /\ Goto(c, "start_set", "start_spawn")
  /\ running' = TRUE
  /\ UNCHANGED <<handle, created, mutex, latest, callback, alive, terminated,
                 reads, mon, view>>

\* The temporary std::thread: its function may run before it is assigned.
StartSpawn(c) ==
  /\ created < MaxStarts
  /\ Goto(c, "start_spawn", "start_assign")
  /\ created' = created + 1
  /\ mon' = [mon EXCEPT ![created + 1] = "check"]
  /\ UNCHANGED <<running, handle, mutex, latest, callback, alive, terminated,
                 reads, view>>

\* The std::thread constructor throws: running_ stays set, no thread exists.
StartSpawnFails(c) ==
  /\ Goto(c, "start_spawn", "idle")
  /\ UNCHANGED <<running, handle, created, mutex, latest, callback, alive,
                 terminated, reads, mon, view>>

\* Mutant: the handle names a thread that was never created.
NextThread == created + 1

NewThread == created

\* Move assignment over a joinable std::thread calls std::terminate.
StartAssign(c) ==
  /\ Goto(c, "start_assign", "idle")
  /\ handle' = NewThread
  /\ terminated' = (handle # NoThread)
  /\ UNCHANGED <<running, created, mutex, latest, callback, alive, reads, mon, view>>

------------------------------------------------------------------------------
(* Stop, and the destructor, which calls it.                               *)

StopCheck(c) ==
  /\ alive /\ running
  /\ Goto(c, "idle", "stop_clear")
  /\ UNCHANGED <<running, handle, created, mutex, latest, callback, alive,
                 terminated, reads, mon, view>>

StopClear(c) ==
  /\ Goto(c, "stop_clear", "stop_joinable")
  /\ running' = FALSE
  /\ UNCHANGED <<handle, created, mutex, latest, callback, alive, terminated,
                 reads, mon, view>>

\* Where Stop returns to: its caller, or the rest of the destructor.
AfterStop == IF alive THEN "idle" ELSE "dtor"

\* Mutant: Stop only clears the flag.
ClearOnly == AfterStop

AfterClear == IF handle # NoThread THEN "stop_join" ELSE AfterStop

StopJoinable(c) ==
  /\ Goto(c, "stop_joinable", AfterClear)
  /\ UNCHANGED <<running, handle, created, mutex, latest, callback, alive,
                 terminated, reads, mon, view>>

\* Mutant: detach() in place of join().
Detached == TRUE

Joined == handle # NoThread => mon[handle] = "done"

\* join() on a handle another caller has joined meanwhile throws out of Stop.
StopJoin(c) ==
  /\ Joined
  /\ Goto(c, "stop_join", AfterStop)
  /\ handle' = NoThread
  /\ UNCHANGED <<running, created, mutex, latest, callback, alive, terminated,
                 reads, mon, view>>

\* An object is destroyed when no call on it is in progress.
Destroy(c) ==
  /\ alive
  /\ \A d \in Callers : pc[d] = "idle"
  /\ Goto(c, "idle", IF running THEN "stop_clear" ELSE "dtor")
  /\ alive' = FALSE
  /\ UNCHANGED <<running, handle, created, mutex, latest, callback, terminated,
                 reads, mon, view>>

\* The member monitor_thread_ is destroyed: terminate if it is joinable.
DestroyMembers(c) ==
  /\ Goto(c, "dtor", "gone")
  /\ terminated' = (handle # NoThread)
  /\ UNCHANGED <<running, handle, created, mutex, latest, callback, alive,
                 reads, mon, view>>

------------------------------------------------------------------------------
(* The setters and GetLatestUsage hold mutex_ for their whole body.        *)

\* SetCallback and SetInterval, which throws before it locks if the new
\* interval is zero.
SetLock(c) ==
  /\ alive
  /\ LiveReconfig \/ ~running
  /\ CanLock(c)
  /\ Goto(c, "idle", "set_write")
  /\ mutex' = c
  /\ UNCHANGED <<running, handle, created, latest, callback, alive, terminated,
                 reads, mon, view>>

\* SetInterval leaves callback_ as it is.
SetWrite(c) ==
  /\ Goto(c, "set_write", "idle")
  /\ callback' \in BOOLEAN
  /\ mutex' = Free
  /\ UNCHANGED <<running, handle, created, latest, alive, terminated, reads, mon, view>>

GetLatestUsageLock(o) ==
  /\ alive
  /\ reads < MaxReads
  /\ CanLock(o)
  /\ Goto(o, "idle", "get_copy")
  /\ mutex' = o
  /\ reads' = reads + 1
  /\ UNCHANGED <<running, handle, created, latest, callback, alive, terminated,
                 mon, view>>

GetLatestUsageCopy(o) ==
  /\ Goto(o, "get_copy", "idle")
  /\ view' = [view EXCEPT ![o] = latest]
  /\ mutex' = Free
  /\ UNCHANGED <<running, handle, created, latest, callback, alive, terminated,
                 reads, mon>>

------------------------------------------------------------------------------
(* MonitorResources.                                                       *)

\* Mutant: the loop does not read running_ again.
LoopForever == TRUE

KeepRunning == running

LoopCheck(t) ==
  /\ Advance(t, "check", IF KeepRunning THEN "sample" ELSE "done")
  /\ UNCHANGED <<running, handle, created, mutex, latest, callback, alive,
                 terminated, reads, pc, view>>

\* CPU and memory are read without the lock; then mutex_ is taken.
SampleLock(t) ==
  /\ CanLock(t)
  /\ Advance(t, "sample", "update")
  /\ mutex' = t
  /\ UNCHANGED <<running, handle, created, latest, callback, alive, terminated,
                 reads, pc, view>>

\* The scalar fields are stored and the per-interface vectors cleared.
UpdateScalars(t) ==
  /\ Advance(t, "update", "fill")
  /\ \E s \in Samples : latest' = [scalars |-> s, vectors |-> "partial"]
  /\ UNCHANGED <<running, handle, created, mutex, callback, alive, terminated,
                 reads, pc, view>>

\* Mutant: the callback is called inside the lock's scope.
StillLocked == mutex

Unlocked == Free

FillVectors(t) ==
  /\ Advance(t, "fill", "invoke")
  /\ latest' = [latest EXCEPT !.vectors = latest.scalars]
  /\ mutex' = Unlocked
  /\ UNCHANGED <<running, handle, created, callback, alive, terminated, reads, pc, view>>

\* callback_ is tested and called without the lock.
TestCallback(t) ==
  /\ Advance(t, "invoke", IF callback THEN "call" ELSE "sleep")
  /\ UNCHANGED <<running, handle, created, mutex, latest, callback, alive,
                 terminated, reads, pc, view>>

\* The callback may itself ask the monitor for the latest usage.
CallbackGets(t) ==
  /\ CanLock(t)
  /\ Advance(t, "call", "call_get")
  /\ mutex' = t
  /\ UNCHANGED <<running, handle, created, latest, callback, alive, terminated,
                 reads, pc, view>>

CallbackReturns(t) ==
  /\ \/ Advance(t, "call", "sleep") /\ UNCHANGED mutex
     \/ Advance(t, "call_get", "sleep") /\ mutex' = Free
  /\ UNCHANGED <<running, handle, created, latest, callback, alive, terminated,
                 reads, pc, view>>

Sleep(t) ==
  /\ Advance(t, "sleep", "check")
  /\ UNCHANGED <<running, handle, created, mutex, latest, callback, alive,
                 terminated, reads, pc, view>>

------------------------------------------------------------------------------
StartStep(c) == StartSet(c) \/ StartSpawn(c) \/ StartSpawnFails(c) \/ StartAssign(c)

StopStep(c) == StopClear(c) \/ StopJoinable(c) \/ StopJoin(c) \/ DestroyMembers(c)

ThreadStep(t) ==
  \/ LoopCheck(t) \/ SampleLock(t) \/ UpdateScalars(t) \/ FillVectors(t)
  \/ TestCallback(t) \/ CallbackGets(t) \/ CallbackReturns(t) \/ Sleep(t)

ControllerStep(c) ==
  \/ StartCheck(c) \/ StopCheck(c) \/ Destroy(c) \/ SetLock(c)
  \/ SetWrite(c) \/ StartStep(c) \/ StopStep(c)

ObserverStep(o) == GetLatestUsageLock(o) \/ GetLatestUsageCopy(o)

\* Nothing runs after std::terminate.
Next ==
  /\ ~terminated
  /\ \/ \E c \in Controllers : ControllerStep(c)
     \/ \E o \in Observers : ObserverStep(o)
     \/ \E t \in Threads : ThreadStep(t)

\* A call that has begun goes on, and so does a monitor thread: the OS
\* schedules every runnable thread.  Nobody is obliged to make a call.
Fairness ==
  /\ \A c \in Controllers :
       WF_vars(~terminated /\ (StartStep(c) \/ StopStep(c) \/ SetWrite(c)))
  /\ \A o \in Observers : WF_vars(~terminated /\ GetLatestUsageCopy(o))
  /\ \A t \in Threads : WF_vars(~terminated /\ ThreadStep(t))

Spec == Init /\ [][Next]_vars

FairSpec == Spec /\ Fairness

------------------------------------------------------------------------------
(* Properties.                                                             *)

TypeOK ==
  /\ running \in BOOLEAN
  /\ handle \in {NoThread} \cup 1 .. created
  /\ created \in 0 .. MaxStarts
  /\ mutex \in Callers \cup Threads \cup {Free}
  /\ latest \in Usage
  /\ callback \in BOOLEAN
  /\ alive \in BOOLEAN
  /\ terminated \in BOOLEAN
  /\ reads \in 0 .. MaxReads
  /\ pc \in [Callers -> CallerSteps]
  /\ mon \in [Threads -> ThreadSteps]
  /\ view \in [Observers -> Usage]

\* No sequence of legal calls by one controller ends the process: Start never
\* assigns over a joinable thread, and the destructor leaves none joinable.
NoTerminate == ~terminated

\* latest_usage_ has one writer at a time: two monitor threads never coexist,
\* also across Stop/Start cycles and failed thread creations.
AtMostOneMonitor == \A t, u \in Threads : Live(t) /\ Live(u) => t = u

\* Once Stop has returned, or the destructor has run, no monitor thread is
\* left that could still invoke the callback (the test's "no more callbacks").
QuietWhenStopped ==
  (~running /\ \A c \in Controllers : pc[c] \in {"idle", "gone"})
    => \A t \in Threads : ~Live(t)

\* A sample is never seen half written: neither what GetLatestUsage returned
\* nor the usage a callback gets by reference, without the lock.
SamplesWhole ==
  /\ \A o \in Observers : view[o].vectors = view[o].scalars
  /\ \A t \in Threads : mon[t] \in {"call", "call_get"} => latest.vectors = latest.scalars

\* Where the monitor thread tests and runs callback_ and reads interval_,
\* without mutex_.
UnlockedReads == {"invoke", "call", "call_get", "sleep"}

\* The setters and the monitor thread never use callback_ or interval_ at the
\* same time: what the mutex and the README's "proper synchronization
\* mechanisms" promise.  The setters write under mutex_, the thread reads
\* without it, so this fails where a running monitor is configured anew.
NoDataRace ==
  \A c \in Controllers, t \in Threads :
    ~(pc[c] = "set_write" /\ mon[t] \in UnlockedReads)

\* Stop and the destructor return: the thread they join always comes back to
\* its test of running_, whatever the observers and the callback do.
StopReturns ==
  \A c \in Controllers : pc[c] \in StopSteps ~> pc[c] \in {"idle", "gone"}

------------------------------------------------------------------------------
(* The monitor implements MonitorLifecycle: stopped means that no thread   *)
(* samples and none is left to join.                                       *)

Stopped == handle = NoThread /\ \A t \in Threads : ~Live(t)

Phase == IF Stopped THEN "stopped" ELSE IF running THEN "active" ELSE "draining"

Delivering == \E t \in Threads : mon[t] \in {"call", "call_get"}

InSample == {"sample", "update", "fill", "invoke"}

LastCall == Phase = "draining" /\ \E t \in Threads : mon[t] \in InSample

Lifecycle == INSTANCE MonitorLifecycle
  WITH phase <- Phase, delivering <- Delivering, lastCall <- LastCall

\* Callbacks come one at a time, only between Start and the return of Stop,
\* and at most one begins after Stop has cleared running_.
ImplementsLifecycle == Lifecycle!Spec

==============================================================================
