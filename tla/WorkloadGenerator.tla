-------------------------- MODULE WorkloadGenerator --------------------------
(***************************************************************************)
(* WorkloadGenerator (src/benchmarking/workload_generator.cpp): Generate   *)
(* issues one read or write at a time until total_size bytes are done;     *)
(* another thread may call Stop at any moment; the NVMe driver completes a *)
(* command inside the submission, as the mock in third_party does, or      *)
(* later, while Generate polls the queue pair, as a real one does.         *)
(*                                                                         *)
(* Sizes of one operation are uint32_t: they are taken modulo Modulus      *)
(* (2^32 in the code).  total_size and total_bytes_processed_ are uint64_t *)
(* and do not wrap.  is_running_ is a plain bool; the calls in the loop    *)
(* are opaque to the compiler, so each test of it is a real read.          *)
(***************************************************************************)
EXTENDS Naturals

CONSTANTS
  Modulus,     \* 2^32
  SectorSize,  \* bytes per sector of the namespace (4096 in the mock)
  Profiles,    \* workload profiles the constructor accepts
  MaxRuns,     \* bound: calls of Generate
  MaxFaults    \* bound: driver calls and random devices that fail

\* What IsValid accepts.  The percentages only decide which operations and
\* which access patterns can occur, so they are the sets of these.
ValidProfiles ==
  [total_size : Nat \ {0}, block_size : 1 .. (Modulus - 1), num_blocks : 1 .. (Modulus - 1),
   operations : SUBSET {"read", "write"} \ {{}},
   patterns : SUBSET {"sequential", "random"} \ {{}}]

ASSUME GeneratorAssumption ==
  /\ Modulus \in Nat \ {0} /\ SectorSize \in Nat \ {0}
  /\ Modulus % SectorSize = 0
  /\ Profiles \subseteq ValidProfiles
  /\ MaxRuns \in Nat /\ MaxFaults \in Nat

VARIABLES
  profile,     \* profile_
  hasCallback, \* whether completion_callback_ holds a target
  running,     \* is_running_
  total,       \* total_bytes_processed_
  completed,   \* write_completed_ and read_completed_
  step,        \* where the thread in Generate is
  op,          \* the operation it is at: kind, block_index, block_size
  buffer,      \* whether the buffer of that operation is allocated
  device,      \* whether the driver holds a command (and with it the buffer)
  touched,     \* sectors the commands of this Generate accessed
  reported,    \* what the callback was last told: success and bytes
  aborted,     \* an exception has left Generate from before its try block
  alive,       \* FALSE once the destructor has run
  runs, faults \* calls of Generate and failures so far (bounds)

vars == <<profile, hasCallback, running, total, completed, step, op, buffer, device,
          touched, reported, aborted, alive, runs, faults>>

Kinds == {"read", "write"}

NoOp == [kind |-> "read", index |-> 0, size |-> 0]
NoReport == [success |-> FALSE, bytes |-> 0]

Init ==
  /\ profile \in Profiles
  /\ hasCallback \in BOOLEAN
  /\ running = FALSE
  /\ total = 0
  /\ completed = [k \in Kinds |-> TRUE]
  /\ step = "idle"
  /\ op = NoOp
  /\ buffer = FALSE /\ device = FALSE
  /\ touched = {}
  /\ reported = NoReport
  /\ aborted = FALSE /\ alive = TRUE
  /\ runs = 0 /\ faults = 0

------------------------------------------------------------------------------
(* Generate, up to the choice of an operation.                             *)

\* Generate refuses, changing nothing, while is_running_ is set.
Generate ==
  /\ alive /\ step = "idle" /\ ~running
  /\ runs < MaxRuns
  /\ runs' = runs + 1
  /\ running' = TRUE
  /\ total' = 0
  /\ touched' = {}
  /\ step' = "loop"
  /\ UNCHANGED <<alive, profile, hasCallback, completed, op, buffer, device, reported,
                 aborted, faults>>

\* std::random_device throws out of Generate: is_running_ stays set.
GenerateThrows ==
  /\ alive /\ step = "idle" /\ ~running
  /\ runs < MaxRuns /\ faults < MaxFaults
  /\ runs' = runs + 1 /\ faults' = faults + 1
  /\ running' = TRUE
  /\ total' = 0
  /\ aborted' = TRUE
  /\ UNCHANGED <<alive, profile, hasCallback, completed, step, op, buffer, device, touched,
                 reported>>

\* Mutant: the loop does not look at is_running_.
IgnoreStop == total < profile.total_size

KeepRunning == running /\ total < profile.total_size

Remaining == profile.total_size - total

Smaller(a, b) == IF b < a THEN b ELSE a

\* Mutant: every operation is a whole block.
WholeBlock == profile.block_size

\* The size of the next operation: the remaining bytes, cast to uint32_t.
BlockSize == Smaller(profile.block_size, Remaining % Modulus)

NextBlock == (total \div profile.block_size) % profile.num_blocks

\* Mutant: the bound of the random choice is one too high.
OneBlockTooMany ==
  (IF "sequential" \in profile.patterns THEN {NextBlock} ELSE {})
  \cup (IF "random" \in profile.patterns THEN 0 .. profile.num_blocks ELSE {})

BlockIndexes ==
  (IF "sequential" \in profile.patterns THEN {NextBlock} ELSE {})
  \cup (IF "random" \in profile.patterns THEN 0 .. (profile.num_blocks - 1) ELSE {})

ChooseOperation ==
  /\ step = "loop" /\ KeepRunning
  /\ \E kind \in profile.operations, index \in BlockIndexes :
       op' = [kind |-> kind, index |-> index, size |-> BlockSize]
  /\ step' = "submit"
  /\ UNCHANGED <<alive, profile, hasCallback, running, total, completed, buffer, device,
                 touched, reported, aborted, runs, faults>>

------------------------------------------------------------------------------
(* ReadBlock and WriteBlock: they differ in the flag, the direction, and   *)
(* in that WriteBlock fills its buffer from a std::random_device.          *)

\* The size rounded up to whole sectors, in uint32_t.
AlignedSize(size) ==
  IF size % SectorSize = 0 THEN size
  ELSE ((size \div SectorSize + 1) * SectorSize) % Modulus

Lba(o) == (o.index * profile.block_size) \div SectorSize

LbaCount(o) == AlignedSize(o.size) \div SectorSize

Sectors(o) == Lba(o) .. (Lba(o) + LbaCount(o) - 1)

\* Mutant: a failed operation is counted as if it had been done.
CountAnyway == total + op.size

TotalAfterFailure == total

\* No namespace, no sector size or no memory: nothing was submitted.
BlockFails ==
  /\ step = "submit"
  /\ faults < MaxFaults /\ faults' = faults + 1
  /\ total' = TotalAfterFailure
  /\ step' = "loop"
  /\ UNCHANGED <<alive, profile, hasCallback, running, completed, op, buffer, device,
                 touched, reported, aborted, runs>>

\* The submission is refused: the flag is down, the buffer freed again.
SubmitFails ==
  /\ step = "submit"
  /\ faults < MaxFaults /\ faults' = faults + 1
  /\ total' = TotalAfterFailure
  /\ completed' = [completed EXCEPT ![op.kind] = FALSE]
  /\ step' = "loop"
  /\ UNCHANGED <<alive, profile, hasCallback, running, op, buffer, device, touched,
                 reported, aborted, runs>>

\* Mutant: the flag is reset after the submission.
ResetLate(done) == FALSE

FlagAfterSubmit(done) == done

\* The flag is reset before the submission; `done`: the driver has called the
\* completion callback before it returned.
Submit(done) ==
  /\ step = "submit"
  /\ buffer' = TRUE
  /\ device' = ~done
  /\ completed' = [completed EXCEPT ![op.kind] = FlagAfterSubmit(done)]
  /\ touched' = touched \cup Sectors(op)
  /\ step' = "poll"
  /\ UNCHANGED <<alive, profile, hasCallback, running, total, op, reported, aborted,
                 runs, faults>>

\* spdk_nvme_qpair_process_completions runs the completion callback.  An error
\* status is logged and changes nothing.
Complete ==
  /\ step = "poll" /\ device
  /\ device' = FALSE
  /\ completed' = [completed EXCEPT ![op.kind] = TRUE]
  /\ UNCHANGED <<alive, profile, hasCallback, running, total, step, op, buffer, touched,
                 reported, aborted, runs, faults>>

\* Mutant: the other direction's flag is polled.
PollsWrongFlag == completed["read"]

Polled == completed[op.kind]

FinishOperation ==
  /\ step = "poll" /\ Polled
  /\ buffer' = FALSE
  /\ total' = total + op.size
  /\ step' = "loop"
  /\ UNCHANGED <<alive, profile, hasCallback, running, completed, op, device, touched,
                 reported, aborted, runs, faults>>

------------------------------------------------------------------------------
(* The end of Generate.                                                    *)

\* The callback is told the bytes as a uint32_t.
Report(success) == [success |-> success, bytes |-> total % Modulus]

LoopEnds ==
  /\ step = "loop" /\ ~KeepRunning
  /\ IF hasCallback
     THEN step' = "callback" /\ reported' = Report(TRUE)
     ELSE step' = "return" /\ UNCHANGED reported
  /\ UNCHANGED <<alive, profile, hasCallback, running, total, completed, op, buffer, device,
                 touched, aborted, runs, faults>>

CallbackReturns ==
  /\ step = "callback"
  /\ step' = "return"
  /\ UNCHANGED <<alive, profile, hasCallback, running, total, completed, op, buffer, device,
                 touched, reported, aborted, runs, faults>>

\* Mutant: is_running_ is left set on the way out.
StaysRunning == running

RunningAfter == FALSE

Return ==
  /\ step = "return"
  /\ running' = RunningAfter
  /\ step' = "idle"
  /\ UNCHANGED <<alive, profile, hasCallback, total, completed, op, buffer, device, touched,
                 reported, aborted, runs, faults>>

\* A std::exception inside the try block: from the callback, or from the random
\* device of WriteBlock (the buffer is leaked).  The callback is told.
Catch ==
  /\ running' = RunningAfter
  /\ IF hasCallback
     THEN step' = "failed" /\ reported' = Report(FALSE)
     ELSE step' = "idle" /\ UNCHANGED reported
  /\ UNCHANGED <<alive, profile, hasCallback, total, completed, op, buffer, device, touched,
                 aborted, runs>>

CallbackThrows == step = "callback" /\ Catch /\ UNCHANGED faults

WriteThrows ==
  /\ step = "submit" /\ op.kind = "write"
  /\ faults < MaxFaults /\ faults' = faults + 1
  /\ Catch

\* The second callback returns, or throws out of Generate.
FailureReported ==
  /\ step = "failed"
  /\ step' = "idle"
  /\ UNCHANGED <<alive, profile, hasCallback, running, total, completed, op, buffer, device,
                 touched, reported, aborted, runs, faults>>

------------------------------------------------------------------------------
(* Stop comes from another thread, or from the callback.                   *)

Stop ==
  /\ alive
  /\ running' = FALSE
  /\ UNCHANGED <<alive, profile, hasCallback, total, completed, step, op, buffer, device,
                 touched, reported, aborted, runs, faults>>

\* The destructor calls Stop and waits for nobody.  Like any object this one
\* is destroyed when no call on it is in progress: that is up to its owner, who
\* has to join the thread in Generate first (StopEnds).
Destroy ==
  /\ alive /\ step = "idle"
  /\ running' = FALSE
  /\ alive' = FALSE
  /\ UNCHANGED <<profile, hasCallback, total, completed, step, op, buffer, device,
                 touched, reported, aborted, runs, faults>>

GenerateStep ==
  \/ ChooseOperation \/ BlockFails \/ SubmitFails
  \/ \E done \in BOOLEAN : Submit(done)
  \/ Complete \/ FinishOperation \/ LoopEnds
  \/ CallbackReturns \/ Return \/ CallbackThrows \/ WriteThrows \/ FailureReported

Next == Generate \/ GenerateThrows \/ GenerateStep \/ Stop \/ Destroy

Spec == Init /\ [][Next]_vars

\* The thread in Generate is scheduled, and the driver completes the commands
\* it has accepted.  Nobody need call Generate or Stop.
FairSpec == Spec /\ WF_vars(GenerateStep)

------------------------------------------------------------------------------
(* Properties.                                                             *)

TypeOK ==
  /\ profile \in Profiles
  /\ hasCallback \in BOOLEAN /\ running \in BOOLEAN
  /\ total \in Nat
  /\ completed \in [Kinds -> BOOLEAN]
  /\ step \in {"idle", "loop", "submit", "poll", "callback", "return", "failed"}
  /\ op \in [kind : Kinds, index : 0 .. (profile.num_blocks - 1), size : 0 .. (Modulus - 1)]
  /\ buffer \in BOOLEAN /\ device \in BOOLEAN
  /\ touched \in SUBSET Nat
  /\ reported \in [success : BOOLEAN, bytes : 0 .. (Modulus - 1)]
  /\ aborted \in BOOLEAN /\ alive \in BOOLEAN
  /\ runs \in 0 .. MaxRuns /\ faults \in 0 .. MaxFaults

\* GetProgress never exceeds 1.0: no mixture of failed, short and truncated
\* operations counts more bytes than the profile asks for.
NoOvershoot == total <= profile.total_size

\* The callback is told the true number of bytes although its parameter is
\* narrower than the counter, and is told success without a Stop only when
\* the whole workload was done.
ReportTruthful ==
  step = "callback" =>
    /\ reported = [success |-> TRUE, bytes |-> total]
    /\ running => total = profile.total_size

\* The buffer of a command is not freed while the driver holds the command.
BufferOutlivesCommand == device => buffer

Region == profile.num_blocks * profile.block_size

\* No command reaches beyond the last sector of the num_blocks blocks, also
\* when blocks are not made of whole sectors.
StaysInRegion ==
  \A s \in touched : s * SectorSize < Region

\* A sequential workload of at least one pass over the blocks leaves no hole:
\* failed operations are repeated at the same block.
SequentialCoversRegion ==
  (/\ step = "callback" /\ running
   /\ profile.patterns = {"sequential"}
   /\ profile.block_size % SectorSize = 0
   /\ Region <= profile.total_size)
    => 0 .. (Region \div SectorSize - 1) \subseteq touched

\* When Generate is over, the generator can be used again, unless the call
\* threw before its try block.
Reusable == (step = "idle" /\ ~aborted) => ~running

\* After a Stop, Generate comes to its end, whatever the profile, the faults and
\* the place it was stopped at: a thread that calls Stop and then joins the one
\* in Generate gets it back.  Stop and the destructor themselves return at once,
\* whatever the comment in the destructor promises.
StopEnds == (step # "idle" /\ ~running) ~> step = "idle"

Ends == step # "idle" ~> step = "idle"

\* A workload whose size fits uint32_t comes to its end by itself.
SmallWorkloadEnds == profile.total_size < Modulus => Ends

==============================================================================
