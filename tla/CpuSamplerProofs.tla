--------------------------- MODULE CpuSamplerProofs ---------------------------
(***************************************************************************)
(* Proofs about CpuSampler for every word width, any monitors and a kernel *)
(* that takes ticks back, as long as no two calls overlap.                 *)
(***************************************************************************)
EXTENDS CpuSampler, TLAPS

PairOf(line) == [idle |-> IdleTime(line), total |-> TotalTime(line)]

Bounded == {l \in Lines : TotalTime(l) <= MaxTicks}

Spans == [from : Bounded, to : Bounded]

\* At most one monitor is inside GetCPUUsage.
OneCall == \A m, o \in Monitors : pc[m] # "out" /\ pc[o] # "out" => m = o

\* Between the calls the statics are the line read last, and everything up to
\* it is accounted for.
RestInv ==
  (\A m \in Monitors : pc[m] = "out") => prev = PairOf(last) /\ accounted = PairOf(last)

\* Inside a call the statics are still the line before it, each until it is
\* overwritten, and the locals are differences of the two lines.
CallInv(m) ==
  pc[m] # "out" =>
    /\ last = span[m].to /\ read[m] = PairOf(span[m].to)
    /\ accounted = PairOf(span[m].from)
    /\ prev.total = TotalTime(span[m].from)
    /\ prev.idle = IF pc[m] = "store_total" THEN IdleTime(span[m].to)
                                            ELSE IdleTime(span[m].from)
    /\ pc[m] # "idle_diff"
         => diff[m].idle = Minus(IdleTime(span[m].to), IdleTime(span[m].from))
    /\ pc[m] \in {"store_idle", "store_total"}
         => diff[m].total = Minus(TotalTime(span[m].to), TotalTime(span[m].from))

IInv ==
  /\ TypeOK /\ OneCall /\ RestInv /\ UsageIsShare
  /\ span \in [Monitors -> Spans] /\ compared \in Spans
  /\ \A m \in Monitors : CallInv(m)

------------------------------------------------------------------------------
(* Arithmetic.                                                             *)

\* Two counters of one line fit a word.
LEMMA LineFits ==
  ASSUME NEW l \in Bounded
  PROVE  /\ IdleTime(l) \in Word /\ TotalTime(l) \in Word
         /\ IdleTime(l) + l.busy = TotalTime(l) /\ l.busy \in Nat
         /\ PairOf(l) \in WordPair
BY SamplerAssumption DEF SamplerAssumption, Bounded, Lines, IdleTime, TotalTime, Word,
   WordPair, PairOf

\* Differences and sums stay in the word, and adding a difference to what was
\* subtracted gives the minuend, however often either has wrapped.
LEMMA WordArithmetic ==
  ASSUME NEW a \in Word, NEW b \in Word
  PROVE  /\ Minus(a, b) \in Word /\ Plus(a, b) \in Word
         /\ Plus(b, Minus(a, b)) = a
BY SamplerAssumption DEF SamplerAssumption, Word, Minus, Plus

\* The usage of the differences of two lines that go forward is the busy share.
LEMMA ShareOfLines ==
  ASSUME NEW a \in Bounded, NEW b \in Bounded, NEW d, Forward([from |-> a, to |-> b]),
         d = [idle |-> Minus(IdleTime(b), IdleTime(a)),
              total |-> Minus(TotalTime(b), TotalTime(a))]
  PROVE  /\ 0 <= Share(d).num /\ Share(d).num <= Share(d).den
         /\ Share(d).num * (TotalTime(b) - TotalTime(a)) = Share(d).den * (b.busy - a.busy)
<1>1. /\ IdleTime(a) \in Nat /\ TotalTime(a) = IdleTime(a) + a.busy /\ a.busy \in Nat
      /\ IdleTime(b) \in Nat /\ TotalTime(b) = IdleTime(b) + b.busy /\ b.busy \in Nat
  BY LineFits, SamplerAssumption DEF Word, SamplerAssumption
<1>2. IdleTime(b) >= IdleTime(a) /\ b.busy >= a.busy
  BY DEF Forward
<1>3. d.idle = IdleTime(b) - IdleTime(a) /\ d.total = TotalTime(b) - TotalTime(a)
  BY <1>1, <1>2 DEF Minus
<1>4. CASE d.total = 0
  <2>1. Share(d).num = 0 /\ Share(d).den = 1
    BY <1>4 DEF Share, Zero
  <2>2. TotalTime(b) - TotalTime(a) = 0 /\ b.busy - a.busy = 0
    BY <1>1, <1>2, <1>3, <1>4
  <2>3. QED
    BY <2>1, <2>2
<1>5. CASE d.total # 0
  <2>1. Share(d).num = b.busy - a.busy /\ Share(d).den = TotalTime(b) - TotalTime(a)
    BY <1>1, <1>2, <1>3, <1>5 DEF Share
  <2>2. TotalTime(b) - TotalTime(a) \in Nat /\ b.busy - a.busy \in Nat
    BY <1>1, <1>2
  <2>3. \A x, y \in Nat : x * y = y * x
    OBVIOUS
  <2>4. b.busy - a.busy <= TotalTime(b) - TotalTime(a)
    BY <1>1, <1>2
  <2>5. QED
    BY <2>1, <2>2, <2>3, <2>4
<1>6. QED
  BY <1>4, <1>5

\* A fraction is what any two differences give.
LEMMA ShareIsFraction ==
  ASSUME NEW d \in WordPair
  PROVE  Share(d) \in Fractions
BY SamplerAssumption DEF SamplerAssumption, WordPair, Word, Share, Zero, Fractions

\* "CPU usage as a percentage (0-100)" is only true of counters that grow: if
\* the idle time of a line is below that of the line before it while the total
\* is above, as when the kernel takes back iowait on a busy machine, the
\* difference wraps and the usage is negative, by about 2^64 hundred percent.
THEOREM BackwardsNegative ==
  ASSUME NEW a \in Bounded, NEW b \in Bounded,
         IdleTime(b) < IdleTime(a), TotalTime(b) > TotalTime(a)
  PROVE  Share([idle |-> Minus(IdleTime(b), IdleTime(a)),
                total |-> Minus(TotalTime(b), TotalTime(a))]).num < 0
<1>1. /\ IdleTime(a) \in Nat /\ TotalTime(a) = IdleTime(a) + a.busy /\ a.busy \in Nat
      /\ IdleTime(b) \in Nat /\ TotalTime(b) = IdleTime(b) + b.busy /\ b.busy \in Nat
      /\ TotalTime(b) < Modulus
  BY LineFits, SamplerAssumption DEF Word, SamplerAssumption
<1>2. Minus(IdleTime(b), IdleTime(a)) = IdleTime(b) - IdleTime(a) + Modulus
  BY <1>1 DEF Minus
<1>3. Minus(TotalTime(b), TotalTime(a)) = TotalTime(b) - TotalTime(a)
  BY <1>1 DEF Minus
<1>4. QED
  BY <1>1, <1>2, <1>3, SamplerAssumption DEF Share, SamplerAssumption

------------------------------------------------------------------------------
(* The invariant.                                                          *)

\* The kernel's first counters are those of a line.
LEMMA InitIInv == Init => IInv
<1> SUFFICES ASSUME Init PROVE IInv
  OBVIOUS
<1>1. stat \in Lines /\ TotalTime(stat) <= MaxTicks
  BY DEF Init, Lines
<1>2. NoTicks \in Bounded /\ NoPair \in WordPair /\ Zero \in Fractions
  BY SamplerAssumption DEF SamplerAssumption, NoTicks, Bounded, Lines, TotalTime, NoPair,
     WordPair, Word, Zero, Fractions
<1>3. NoSpan \in Spans /\ Bounded \subseteq Lines
  BY <1>2 DEF NoSpan, Spans, Bounded
<1>4. TypeOK
  BY <1>1, <1>2, <1>3 DEF Init, TypeOK, Spans, Bounded
<1>5. OneCall /\ \A m \in Monitors : CallInv(m)
  BY DEF Init, OneCall, CallInv
<1>6. PairOf(NoTicks) = NoPair
  BY DEF PairOf, NoTicks, NoPair, IdleTime, TotalTime
<1>7. RestInv
  BY <1>6 DEF Init, RestInv
<1>8. UsageIsShare
  <2>1. TotalTime(NoTicks) - TotalTime(NoTicks) = 0 /\ NoTicks.busy - NoTicks.busy = 0
    BY DEF NoTicks, TotalTime
  <2>2. Zero.num = 0 /\ Zero.den = 1
    BY DEF Zero
  <2>3. QED
    BY <2>1, <2>2 DEF Init, UsageIsShare, NoSpan
<1>9. QED
  BY <1>2, <1>3, <1>4, <1>5, <1>7, <1>8 DEF Init, IInv

\* The machine does not touch the process.
LEMMA MachineStep ==
  ASSUME IInv, Tick \/ IowaitDrops
  PROVE  IInv'
<1>1. stat' \in Lines /\ TotalTime(stat') <= MaxTicks
  BY SamplerAssumption
  DEF IInv, TypeOK, Tick, IowaitDrops, Lines, TotalTime, SamplerAssumption
<1>2. UNCHANGED <<prev, pc, read, diff, usage, last, span, compared, accounted>>
  BY DEF Tick, IowaitDrops
<1>3. QED
  BY <1>1, <1>2 DEF IInv, TypeOK, OneCall, RestInv, UsageIsShare, CallInv

\* A file that cannot be read changes the result only.
LEMMA UnreadableStep ==
  ASSUME IInv, NEW m \in Monitors, Unreadable(m)
  PROVE  IInv'
<1>1. last \in Bounded
  BY DEF IInv, TypeOK, Bounded
<1>2. compared' \in Spans /\ usage' \in Fractions
  BY <1>1 DEF Unreadable, Spans, Zero, Fractions
<1>3. UsageIsShare'
  <2>1. TotalTime(last) - TotalTime(last) = 0 /\ last.busy - last.busy = 0
    BY <1>1, LineFits, SamplerAssumption DEF Word, SamplerAssumption
  <2>2. Zero.num = 0 /\ Zero.den = 1
    BY DEF Zero
  <2>3. QED
    BY <2>1, <2>2 DEF Unreadable, UsageIsShare
<1>4. TypeOK'
  BY <1>2 DEF IInv, TypeOK, Unreadable, Spans, Bounded
<1>5. QED
  BY <1>2, <1>3, <1>4 DEF IInv, OneCall, RestInv, CallInv, Unreadable

\* A call begins when no other is in progress: the statics are at rest.
LEMMA ReadStatStep ==
  ASSUME ~Overlap, IInv, NEW m \in Monitors, ReadStat(m)
  PROVE  IInv'
<1> USE DEF ReadStat, Goto
<1>1. last \in Bounded /\ stat \in Bounded
  BY DEF IInv, TypeOK, Bounded
<1>2. \A o \in Monitors : pc[o] = "out"
  BY DEF MayCall
<1>3. pc' = [pc EXCEPT ![m] = "idle_diff"] /\ pc \in [Monitors -> {"out", "idle_diff", "total_diff", "store_idle", "store_total"}]
  BY DEF IInv, TypeOK
<1>4. PairOf(stat) \in WordPair
  BY <1>1, LineFits
<1>5. [from |-> last, to |-> stat] \in Spans
  BY <1>1 DEF Spans
<1>6. span' \in [Monitors -> Spans]
  BY <1>5 DEF IInv
<1>7. TypeOK'
  <2>1. read' \in [Monitors -> WordPair]
    BY <1>4 DEF IInv, TypeOK, PairOf
  <2>2. span' \in [Monitors -> [from : Lines, to : Lines]]
    BY <1>6 DEF Spans, Bounded
  <2>3. QED
    BY <1>1, <2>1, <2>2 DEF IInv, TypeOK
<1>8. OneCall'
  BY <1>2, <1>3 DEF OneCall
<1>9. RestInv'
  BY <1>3 DEF RestInv
<1>10. ASSUME NEW o \in Monitors PROVE CallInv(o)'
  <2>1. CASE o = m
    <3>1. prev = PairOf(last) /\ accounted = PairOf(last)
      BY <1>2 DEF IInv, RestInv
    <3>2. span'[m] = [from |-> last, to |-> stat] /\ read'[m] = PairOf(stat) /\ pc'[m] = "idle_diff"
      BY <1>3 DEF IInv, TypeOK, PairOf
    <3>3. QED
      BY <2>1, <3>1, <3>2 DEF CallInv, PairOf
  <2>2. CASE o # m
    BY <1>2, <1>3, <2>2 DEF CallInv
  <2>3. QED
    BY <2>1, <2>2
<1>11. UsageIsShare' /\ compared' \in Spans
  BY DEF IInv, UsageIsShare
<1>12. QED
  BY <1>6, <1>7, <1>8, <1>9, <1>10, <1>11 DEF IInv

\* What a step inside a call relies on.
LEMMA InsideCall ==
  ASSUME IInv, NEW m \in Monitors, pc[m] # "out"
  PROVE  /\ span[m].from \in Bounded /\ span[m].to \in Bounded
         /\ PairOf(span[m].to) \in WordPair /\ PairOf(span[m].from) \in WordPair
         /\ \A o \in Monitors : o # m => pc[o] = "out"
<1>1. span[m] \in Spans
  BY DEF IInv
<1>2. span[m].from \in Bounded /\ span[m].to \in Bounded
  BY <1>1 DEF Spans
<1>3. QED
  BY <1>2, LineFits DEF IInv, OneCall

\* A step inside a call that leaves the file, the result and the history alone
\* keeps what is not about its own monitor.
LEMMA InnerStep ==
  ASSUME IInv, NEW m \in Monitors, pc[m] # "out", pc'[m] # "out", TypeOK', CallInv(m)',
         pc' = [pc EXCEPT ![m] = pc'[m]],
         UNCHANGED <<usage, last, span, compared, accounted>>
  PROVE  IInv'
<1>1. \A o \in Monitors : o # m => pc'[o] = "out"
  BY InsideCall DEF IInv, TypeOK
<1>2. \A o \in Monitors : CallInv(o)'
  BY <1>1 DEF CallInv
<1>3. OneCall'
  BY <1>1 DEF OneCall
<1>4. RestInv'
  BY DEF RestInv
<1>5. UsageIsShare'
  BY DEF IInv, UsageIsShare
<1>6. QED
  BY <1>2, <1>3, <1>4, <1>5 DEF IInv

\* prev still is the line before, so the idle difference is of the right pair.
LEMMA DiffIdleStep ==
  ASSUME IInv, NEW m \in Monitors, DiffIdle(m)
  PROVE  IInv'
<1> USE DEF DiffIdle, Goto
<1>1. /\ read[m] = PairOf(span[m].to) /\ prev.idle = IdleTime(span[m].from)
      /\ diff[m] \in WordPair /\ pc[m] = "idle_diff"
  BY DEF IInv, CallInv, TypeOK
<1>2. Minus(IdleTime(span[m].to), IdleTime(span[m].from)) \in Word
  BY <1>1, InsideCall, LineFits, WordArithmetic
<1>3. diff' = [diff EXCEPT ![m].idle = Minus(IdleTime(span[m].to), IdleTime(span[m].from))]
  BY <1>1 DEF PairOf
<1>4. diff' \in [Monitors -> WordPair]
  BY <1>2, <1>3 DEF IInv, TypeOK, WordPair
<1>5. TypeOK'
  BY <1>4 DEF IInv, TypeOK
<1>6. pc' = [pc EXCEPT ![m] = pc'[m]] /\ pc'[m] = "total_diff"
  BY DEF IInv, TypeOK
<1>7. diff'[m].idle = Minus(IdleTime(span[m].to), IdleTime(span[m].from))
  BY <1>3 DEF IInv, TypeOK, WordPair
<1>8. CallInv(m)'
  BY <1>1, <1>6, <1>7 DEF IInv, CallInv
<1>9. QED
  BY <1>1, <1>5, <1>6, <1>8, InnerStep

\* And so is the total difference.
LEMMA DiffTotalStep ==
  ASSUME IInv, NEW m \in Monitors, DiffTotal(m)
  PROVE  IInv'
<1> USE DEF DiffTotal, Goto
<1>1. /\ read[m] = PairOf(span[m].to) /\ prev.total = TotalTime(span[m].from)
      /\ diff[m] \in WordPair /\ pc[m] = "total_diff"
  BY DEF IInv, CallInv, TypeOK
<1>2. Minus(TotalTime(span[m].to), TotalTime(span[m].from)) \in Word
  BY <1>1, InsideCall, LineFits, WordArithmetic
<1>3. diff' = [diff EXCEPT ![m].total = Minus(TotalTime(span[m].to), TotalTime(span[m].from))]
  BY <1>1 DEF PairOf
<1>4. diff' \in [Monitors -> WordPair]
  BY <1>2, <1>3 DEF IInv, TypeOK, WordPair
<1>5. TypeOK'
  BY <1>4 DEF IInv, TypeOK
<1>6. pc' = [pc EXCEPT ![m] = pc'[m]] /\ pc'[m] = "store_idle"
  BY DEF IInv, TypeOK
<1>7. /\ diff'[m].total = Minus(TotalTime(span[m].to), TotalTime(span[m].from))
      /\ diff'[m].idle = diff[m].idle
  BY <1>1, <1>3 DEF IInv, TypeOK, WordPair
<1>8. CallInv(m)'
  BY <1>1, <1>6, <1>7 DEF IInv, CallInv
<1>9. QED
  BY <1>1, <1>5, <1>6, <1>8, InnerStep

\* Once both differences are taken, prev may lose the line before.
LEMMA StoreIdleStep ==
  ASSUME IInv, NEW m \in Monitors, StoreIdle(m)
  PROVE  IInv'
<1> USE DEF StoreIdle, Goto
<1>1. read[m] = PairOf(span[m].to) /\ prev \in WordPair /\ pc[m] = "store_idle"
  BY DEF IInv, CallInv, TypeOK
<1>2. IdleTime(span[m].to) \in Word
  BY <1>1, InsideCall, LineFits
<1>3. prev' = [prev EXCEPT !.idle = IdleTime(span[m].to)]
  BY <1>1 DEF PairOf
<1>4. prev' \in WordPair /\ prev'.idle = IdleTime(span[m].to) /\ prev'.total = prev.total
  BY <1>1, <1>2, <1>3 DEF WordPair
<1>5. TypeOK'
  BY <1>4 DEF IInv, TypeOK
<1>6. pc' = [pc EXCEPT ![m] = pc'[m]] /\ pc'[m] = "store_total"
  BY DEF IInv, TypeOK
<1>7. CallInv(m)'
  BY <1>1, <1>4, <1>6 DEF IInv, CallInv
<1>8. QED
  BY <1>1, <1>5, <1>6, <1>7, InnerStep

\* The call returns the share of its two lines and leaves the later one behind.
LEMMA StoreTotalStep ==
  ASSUME IInv, NEW m \in Monitors, StoreTotal(m)
  PROVE  IInv'
<1> DEFINE a == span[m].from
           b == span[m].to
<1> USE DEF StoreTotal, Goto
<1>1. /\ read[m] = PairOf(b) /\ accounted = PairOf(a) /\ last = b
      /\ prev.idle = IdleTime(b) /\ prev \in WordPair /\ pc[m] = "store_total"
      /\ diff[m] \in WordPair
      /\ diff[m].idle = Minus(IdleTime(b), IdleTime(a))
      /\ diff[m].total = Minus(TotalTime(b), TotalTime(a))
  BY DEF IInv, CallInv, TypeOK
<1>2. a \in Bounded /\ b \in Bounded
  BY <1>1, InsideCall
<1>3. /\ IdleTime(a) \in Word /\ TotalTime(a) \in Word
      /\ IdleTime(b) \in Word /\ TotalTime(b) \in Word
  BY <1>2, LineFits
<1>4. diff[m] = [idle |-> Minus(IdleTime(b), IdleTime(a)),
                 total |-> Minus(TotalTime(b), TotalTime(a))]
  BY <1>1 DEF WordPair
<1>5. accounted' = PairOf(b)
  BY <1>1, <1>3, WordArithmetic DEF PairOf
<1>6. prev' = PairOf(b)
  BY <1>1 DEF PairOf, NewTotal, WordPair
<1>7. \A o \in Monitors : pc'[o] = "out"
  BY <1>1, InsideCall DEF IInv, TypeOK
<1>8. span[m] \in Spans /\ span[m] = [from |-> a, to |-> b]
  BY DEF IInv, Spans
<1>9. NoPair \in WordPair /\ NoSpan \in Spans
  BY SamplerAssumption DEF SamplerAssumption, NoPair, NoSpan, WordPair, Word, Spans, NoTicks,
     Bounded, Lines, TotalTime
<1>10. TypeOK'
  <2>1. usage' \in Fractions
    BY <1>1, ShareIsFraction
  <2>2. prev' \in WordPair /\ accounted' \in WordPair
    BY <1>2, <1>5, <1>6, LineFits
  <2>3. pc' \in [Monitors -> {"out", "idle_diff", "total_diff", "store_idle", "store_total"}]
    BY DEF IInv, TypeOK
  <2>4. read' \in [Monitors -> WordPair] /\ diff' \in [Monitors -> WordPair]
    BY <1>9 DEF IInv, TypeOK
  <2>5. /\ span' \in [Monitors -> [from : Lines, to : Lines]]
        /\ compared' \in [from : Lines, to : Lines]
    BY <1>8, <1>9 DEF IInv, TypeOK, Spans, Bounded
  <2>6. QED
    BY <2>1, <2>2, <2>3, <2>4, <2>5 DEF IInv, TypeOK
<1>11. UsageIsShare'
  <2>1. compared' = [from |-> a, to |-> b] /\ usage' = Share(diff[m])
    BY <1>8
  <2>2. QED
    BY <2>1, <1>2, <1>4, ShareOfLines DEF UsageIsShare
<1>12. OneCall' /\ \A o \in Monitors : CallInv(o)'
  BY <1>7 DEF OneCall, CallInv
<1>13. RestInv'
  BY <1>1, <1>5, <1>6 DEF RestInv
<1>14. span' \in [Monitors -> Spans] /\ compared' \in Spans
  BY <1>8, <1>9 DEF IInv
<1>15. QED
  BY <1>10, <1>11, <1>12, <1>13, <1>14 DEF IInv

\* IInv is inductive when calls do not overlap.
THEOREM Invariance ==
  ASSUME ~Overlap
  PROVE  Spec => []IInv
<1>1. IInv /\ [Next]_vars => IInv'
  <2> SUFFICES ASSUME IInv, [Next]_vars PROVE IInv'
    OBVIOUS
  <2>1. CASE UNCHANGED vars
    BY <2>1 DEF vars, IInv, TypeOK, OneCall, RestInv, UsageIsShare, CallInv
  <2>2. CASE Next
    BY <2>2, MachineStep, UnreadableStep, ReadStatStep, DiffIdleStep, DiffTotalStep,
       StoreIdleStep, StoreTotalStep DEF Next, CallStep
  <2>3. QED
    BY <2>1, <2>2
<1>2. QED
  BY InitIInv, <1>1, PTL DEF Spec

\* The statics, the locals and the results keep their types; the unsigned
\* differences stay in the word.
THEOREM TypeCorrect ==
  ASSUME ~Overlap
  PROVE  Spec => []TypeOK
<1>1. IInv => TypeOK
  BY DEF IInv
<1>2. QED
  BY Invariance, <1>1, PTL

\* A usage is a percentage and the busy share of the ticks between two readings
\* of the file, for every width of the counters and any number of monitors,
\* unless the later reading has a lower counter.
THEOREM UsageCorrect ==
  ASSUME ~Overlap
  PROVE  Spec => []UsageIsShare
<1>1. IInv => UsageIsShare
  BY DEF IInv
<1>2. QED
  BY Invariance, <1>1, PTL

\* Every tick is in the usage of one call, across monitors, failed reads and
\* counters that go back.
THEOREM TicksAccounted ==
  ASSUME ~Overlap
  PROVE  Spec => []EveryTickOnce
<1>1. IInv => EveryTickOnce
  BY DEF IInv, RestInv, EveryTickOnce, PairOf
<1>2. QED
  BY Invariance, <1>1, PTL

==============================================================================
