----------------------- MODULE WorkloadGeneratorProofs -----------------------
(***************************************************************************)
(* Proofs about WorkloadGenerator, for every word size, sector size and    *)
(* set of valid profiles.                                                  *)
(*                                                                         *)
(* The argument: the next size is at most the remaining bytes modulo       *)
(* Modulus, so the bytes done never exceed the total modulo Modulus        *)
(* (Truncated).  Below Modulus that is the total itself: no overshoot and  *)
(* no truncated report.  From Modulus on it is less than the total: such a *)
(* workload never gets to its end.                                         *)
(*                                                                         *)
(* The sectors the commands touch have an invariant of their own, ReachInv *)
(* (below), inductive together with TypeOK and Truncated.                  *)
(***************************************************************************)
EXTENDS WorkloadGenerator, TLAPS

\* The bytes done stay within what one word can hold of the total.
Truncated == total <= profile.total_size % Modulus

\* The operation at hand fits into what is left of that.
SizeFits == step \in {"submit", "poll"} => op.size <= Remaining % Modulus

\* The driver holds a command only while Generate polls for it.
CommandPolled == device => step = "poll" /\ buffer /\ ~completed[op.kind]

\* The failure is reported after is_running_ was cleared.
Released == step = "failed" => ~running

IInv ==
  /\ TypeOK /\ Truncated /\ SizeFits /\ CommandPolled
  /\ ReportTruthful /\ Reusable /\ Released

------------------------------------------------------------------------------
(* Arithmetic.                                                             *)

\* Taking s, at most the remainder of a, from a takes s from the remainder.
LEMMA RemainderMinus ==
  ASSUME NEW m \in Nat \ {0}, NEW a \in Nat, NEW s \in Nat, s <= a % m
  PROVE  (a - s) % m = (a % m) - s
OBVIOUS

\* A remainder is no larger than the number and smaller than the modulus.
LEMMA RemainderBounds ==
  ASSUME NEW m \in Nat \ {0}, NEW a \in Nat
  PROVE  a % m \in 0 .. (m - 1) /\ a % m <= a
OBVIOUS

\* A number is its quotient times the divisor and a remainder.
LEMMA Division ==
  ASSUME NEW a \in Nat, NEW b \in Nat \ {0}
  PROVE  /\ a \div b \in Nat /\ a % b \in 0 .. (b - 1)
         /\ (a \div b) * b \in Nat
         /\ a = (a \div b) * b + (a % b)
<1> DEFINE q == a \div b  r == a % b
<1>1. q \in Nat /\ r \in 0 .. (b - 1)
  OBVIOUS
<1>2. a = b * q + r
  BY b > 0, Z3
<1> HIDE DEF q, r
<1>3. b * q = q * b /\ q * b \in Nat
  BY <1>1
<1>4. a = q * b + r
  BY <1>2, <1>3
<1> QED
  BY <1>1, <1>3, <1>4 DEF q, r

\* The quotient's product is at most the number.
LEMMA QuotientBound ==
  ASSUME NEW a \in Nat, NEW b \in Nat \ {0}
  PROVE  a \div b \in Nat /\ (a \div b) * b \in Nat /\ (a \div b) * b <= a
<1> DEFINE p == (a \div b) * b  r == a % b
<1>1. a \div b \in Nat /\ r \in 0 .. (b - 1) /\ p \in Nat /\ a = p + r
  BY Division
<1> HIDE DEF p, r
<1>2. p <= a
  BY <1>1
<1> QED
  BY <1>1, <1>2 DEF p

\* Without a remainder the quotient's product is the number.
LEMMA ExactQuotient ==
  ASSUME NEW a \in Nat, NEW b \in Nat \ {0}, a % b = 0
  PROVE  a \div b \in Nat /\ (a \div b) * b \in Nat /\ a = (a \div b) * b
<1> DEFINE p == (a \div b) * b
<1>1. a \div b \in Nat /\ p \in Nat /\ a = p + (a % b)
  BY Division
<1> HIDE DEF p
<1>2. a = p
  BY <1>1
<1> QED
  BY <1>1, <1>2 DEF p

\* A product grows with its first factor.
LEMMA ProductMonotone ==
  ASSUME NEW c \in Nat, NEW a \in Nat, NEW b \in Nat, a <= b
  PROVE  a * c \in Nat /\ b * c \in Nat /\ a * c <= b * c
<1>1. PICK d \in Nat : b = a + d
  <2>1. b - a \in Nat /\ b = a + (b - a)
    OBVIOUS
  <2> QED BY <2>1
<1>2. b * c = a * c + d * c
  BY <1>1
<1>3. a * c \in Nat /\ d * c \in Nat
  BY <1>1
<1> QED
  BY <1>1, <1>2, <1>3

\* Of two products the factor tells the smaller.
LEMMA ProductLess ==
  ASSUME NEW c \in Nat, NEW a \in Nat, NEW b \in Nat, a * c < b * c
  PROVE  a < b
<1>1. a * c \in Nat /\ b * c \in Nat
  OBVIOUS
<1>2. CASE b <= a
  BY <1>2, ProductMonotone, <1>1
<1> QED
  BY <1>2

\* Adding one to a factor adds the other factor.
LEMMA ProductStep ==
  ASSUME NEW a \in Nat, NEW c \in Nat
  PROVE  (a + 1) * c = a * c + c /\ a * c \in Nat
OBVIOUS

\* A product of a sum is the sum of the products.
LEMMA ProductAdd ==
  ASSUME NEW a \in Nat, NEW b \in Nat, NEW c \in Nat
  PROVE  (a + b) * c = a * c + b * c /\ a * c \in Nat /\ b * c \in Nat
OBVIOUS
\* The quotient is the only number whose product and remainder add up.
LEMMA DivisionUnique ==
  ASSUME NEW q \in Nat, NEW b \in Nat \ {0}, NEW r \in 0 .. (b - 1)
  PROVE  (q * b + r) \div b = q /\ (q * b + r) % b = r
<1> DEFINE a == q * b + r
<1>0. a \in Nat
  OBVIOUS
<1> HIDE DEF a
<1>1. a \div b \in Nat /\ a % b \in 0 .. (b - 1) /\ a = (a \div b) * b + (a % b)
  BY <1>0, Division
<1> DEFINE p == a \div b
<1>2. p \in Nat /\ p * b \in Nat /\ q * b \in Nat
  BY <1>1
<1>3. (p + 1) * b = p * b + b /\ (q + 1) * b = q * b + b
  BY <1>2, ProductStep
<1>4. a = q * b + r
  BY DEF a
<1>5. p * b < (q + 1) * b /\ q * b < (p + 1) * b
  BY <1>1, <1>2, <1>3, <1>4
<1>6. p < q + 1 /\ q < p + 1
  BY <1>2, <1>5, ProductLess
<1>7. p = q
  BY <1>2, <1>6
<1>8. a % b = r
  BY <1>1, <1>2, <1>4, <1>7
<1> QED
  BY <1>7, <1>8 DEF a

\* What a profile and the constants look like, for the provers.
LEMMA ProfileType ==
  ASSUME TypeOK
  PROVE  /\ profile.total_size \in Nat \ {0}
         /\ profile.block_size \in 1 .. (Modulus - 1)
         /\ profile.num_blocks \in 1 .. (Modulus - 1)
         /\ profile.operations \subseteq Kinds
         /\ Modulus \in Nat \ {0} /\ SectorSize \in Nat \ {0}
BY GeneratorAssumption DEF TypeOK, ValidProfiles, Kinds

\* The remainder of the total is a number a word holds.
LEMMA RemainderNatural ==
  ASSUME TypeOK
  PROVE  profile.total_size % Modulus \in 0 .. (Modulus - 1) /\ Modulus \in Nat
<1>1. profile.total_size \in Nat /\ Modulus \in Nat \ {0}
  BY ProfileType
<1> QED
  BY <1>1, RemainderBounds

\* With Truncated, the remainder of what is left is the remainder of the
\* total less the bytes done.
LEMMA RemainingBytes ==
  ASSUME TypeOK, Truncated
  PROVE  /\ Remaining \in Nat
         /\ total <= profile.total_size
         /\ Remaining % Modulus = (profile.total_size % Modulus) - total
<1>1. profile.total_size \in Nat /\ Modulus \in Nat \ {0} /\ total \in Nat
  BY ProfileType DEF TypeOK
<1>2. profile.total_size % Modulus <= profile.total_size
  BY <1>1, RemainderBounds
<1>3. total <= profile.total_size /\ Remaining \in Nat
  BY <1>1, <1>2, SMT DEF Truncated, Remaining
<1>4. Remaining % Modulus = (profile.total_size % Modulus) - total
  BY <1>1, RemainderMinus DEF Truncated, Remaining
<1> QED
  BY <1>3, <1>4

\* The size of the next operation fits the remainder, and the word.
LEMMA BlockSizeFits ==
  ASSUME TypeOK, Truncated
  PROVE  BlockSize \in 0 .. (Modulus - 1) /\ BlockSize <= Remaining % Modulus
<1>1. Remaining % Modulus \in 0 .. (Modulus - 1)
  BY ProfileType, RemainingBytes, RemainderBounds
<1>2. profile.block_size \in 1 .. (Modulus - 1) /\ Modulus \in Nat \ {0}
  BY ProfileType
<1> QED
  BY <1>1, <1>2 DEF BlockSize, Smaller

\* A block index names one of the num_blocks blocks.
LEMMA BlockIndexType ==
  ASSUME TypeOK
  PROVE  BlockIndexes \subseteq 0 .. (profile.num_blocks - 1)
<1>1. total \in Nat /\ profile.block_size \in Nat \ {0} /\ profile.num_blocks \in Nat \ {0}
  BY ProfileType DEF TypeOK
<1>2. total \div profile.block_size \in Nat
  BY <1>1
<1>3. NextBlock \in 0 .. (profile.num_blocks - 1)
  BY <1>1, <1>2, RemainderBounds DEF NextBlock
<1> QED
  BY <1>3 DEF BlockIndexes

\* The sectors of an operation are numbers.
LEMMA SectorsType ==
  ASSUME TypeOK
  PROVE  Sectors(op) \subseteq Nat
<1>1. /\ op.index \in Nat /\ op.size \in Nat
      /\ profile.block_size \in Nat /\ SectorSize \in Nat \ {0} /\ Modulus \in Nat \ {0}
  BY ProfileType DEF TypeOK
<1>2. op.index * profile.block_size \in Nat
  BY <1>1
<1>3. Lba(op) \in Nat
  BY <1>1, <1>2 DEF Lba
<1>4. (op.size \div SectorSize + 1) * SectorSize \in Nat
  <2>1. op.size \div SectorSize + 1 \in Nat
    BY <1>1
  <2> QED
    BY <1>1, <2>1
<1>5. AlignedSize(op.size) \in Nat
  BY <1>1, <1>4, RemainderBounds DEF AlignedSize
<1>6. LbaCount(op) \in Nat
  BY <1>1, <1>5 DEF LbaCount
<1> QED
  BY <1>3, <1>6 DEF Sectors

\* What the callback is told has the type of a report.
LEMMA ReportType ==
  ASSUME TypeOK, NEW s \in BOOLEAN
  PROVE  Report(s) \in [success : BOOLEAN, bytes : 0 .. (Modulus - 1)]
BY ProfileType, RemainderBounds DEF TypeOK, Report

------------------------------------------------------------------------------
(* The steps, one part of the invariant at a time.                         *)

\* A step keeps the types.
LEMMA TypeStep ==
  ASSUME TypeOK, Truncated, SizeFits, [Next]_vars
  PROVE  TypeOK'
<1>1. CASE Generate
  BY <1>1, GeneratorAssumption DEF Generate, TypeOK
<1>2. CASE GenerateThrows
  BY <1>2, GeneratorAssumption DEF GenerateThrows, TypeOK
<1>3. CASE ChooseOperation
  <2>1. BlockSize \in 0 .. (Modulus - 1)
    BY BlockSizeFits
  <2>2. op' \in [kind : Kinds, index : 0 .. (profile.num_blocks - 1), size : 0 .. (Modulus - 1)]
    BY <1>3, <2>1, ProfileType, BlockIndexType DEF ChooseOperation
  <2> QED
    BY <1>3, <2>2 DEF ChooseOperation, TypeOK
<1>4. CASE BlockFails
  BY <1>4, GeneratorAssumption DEF BlockFails, TotalAfterFailure, TypeOK
<1>5. CASE SubmitFails
  BY <1>5, GeneratorAssumption DEF SubmitFails, TotalAfterFailure, TypeOK
<1>6. ASSUME NEW done \in BOOLEAN, Submit(done)
      PROVE  TypeOK'
  <2>1. touched' \in SUBSET Nat
    BY <1>6, SectorsType DEF Submit, TypeOK
  <2>2. completed' \in [Kinds -> BOOLEAN]
    BY <1>6 DEF Submit, FlagAfterSubmit, TypeOK
  <2> QED
    BY <1>6, <2>1, <2>2 DEF Submit, TypeOK
<1>7. CASE Complete
  BY <1>7 DEF Complete, TypeOK
<1>8. CASE FinishOperation
  <2>1. total' \in Nat
    BY <1>8 DEF FinishOperation, TypeOK
  <2> QED
    BY <1>8, <2>1 DEF FinishOperation, TypeOK
<1>9. CASE LoopEnds
  BY <1>9, ReportType DEF LoopEnds, TypeOK
<1>10. CASE CallbackReturns
  BY <1>10 DEF CallbackReturns, TypeOK
<1>11. CASE Return
  BY <1>11 DEF Return, RunningAfter, TypeOK
<1>12. CASE CallbackThrows
  BY <1>12, ReportType DEF CallbackThrows, Catch, RunningAfter, TypeOK
<1>13. CASE WriteThrows
  <2>1. running' = FALSE /\ step' \in {"idle", "failed"}
    BY <1>13 DEF WriteThrows, Catch, RunningAfter
  <2>3. reported' \in {reported, Report(FALSE)}
    BY <1>13 DEF WriteThrows, Catch
  <2>4. faults' \in 0 .. MaxFaults
    <3>1. faults < MaxFaults /\ faults' = faults + 1
      BY <1>13 DEF WriteThrows
    <3> QED
      BY <3>1, GeneratorAssumption DEF TypeOK
  <2>2. reported' \in [success : BOOLEAN, bytes : 0 .. (Modulus - 1)]
    BY <2>3, ReportType DEF TypeOK
  <2> QED
    BY <1>13, <2>1, <2>2, <2>4 DEF WriteThrows, Catch, TypeOK
<1>14. CASE FailureReported
  BY <1>14 DEF FailureReported, TypeOK
<1>15. CASE Stop \/ Destroy
  BY <1>15 DEF Stop, Destroy, TypeOK
<1>16. CASE UNCHANGED vars
  BY <1>16 DEF vars, TypeOK
<1> QED
  BY <1>1, <1>2, <1>3, <1>4, <1>5, <1>6, <1>7, <1>8, <1>9, <1>10, <1>11, <1>12, <1>13, <1>14, <1>15, <1>16 DEF Next, GenerateStep

\* A step keeps the bytes done within the remainder of the total.
LEMMA TruncatedStep ==
  ASSUME TypeOK, Truncated, SizeFits, [Next]_vars
  PROVE  Truncated' /\ SizeFits'
<1>1. CASE Generate
  <2>1. total' = 0 /\ profile' = profile /\ step' = "loop"
    BY <1>1 DEF Generate
  <2> QED
    BY <2>1, RemainderNatural DEF Truncated, SizeFits
<1>2. CASE GenerateThrows
  <2>1. total' = 0 /\ profile' = profile /\ step' = "idle"
    BY <1>2 DEF GenerateThrows
  <2> QED
    BY <2>1, RemainderNatural DEF Truncated, SizeFits
<1>3. CASE ChooseOperation
  <2>1. op'.size = BlockSize /\ total' = total /\ profile' = profile
    BY <1>3 DEF ChooseOperation
  <2> QED
    BY <2>1, BlockSizeFits DEF Truncated, SizeFits, Remaining
<1>4. CASE BlockFails
  BY <1>4 DEF BlockFails, TotalAfterFailure, Truncated, SizeFits
<1>5. CASE SubmitFails
  BY <1>5 DEF SubmitFails, TotalAfterFailure, Truncated, SizeFits
<1>6. ASSUME NEW done \in BOOLEAN, Submit(done)
      PROVE  Truncated' /\ SizeFits'
  BY <1>6 DEF Submit, Truncated, SizeFits, Remaining
<1>7. CASE Complete
  BY <1>7 DEF Complete, Truncated, SizeFits, Remaining
<1>8. CASE FinishOperation
  <2>1. total' = total + op.size /\ profile' = profile /\ step' = "loop"
    BY <1>8 DEF FinishOperation
  <2>2. op.size <= (profile.total_size % Modulus) - total
    BY <1>8, RemainingBytes DEF FinishOperation, SizeFits
  <2>3. profile.total_size % Modulus \in Nat /\ total \in Nat /\ op.size \in Nat
    BY RemainderNatural, ProfileType DEF TypeOK
  <2>4. total + op.size <= profile.total_size % Modulus
    BY <2>2, <2>3
  <2> QED
    BY <2>1, <2>4 DEF Truncated, SizeFits
<1>9. CASE LoopEnds
  BY <1>9 DEF LoopEnds, Truncated, SizeFits, Remaining
<1>10. CASE CallbackReturns
  BY <1>10 DEF CallbackReturns, Truncated, SizeFits, Remaining
<1>11. CASE Return
  BY <1>11 DEF Return, Truncated, SizeFits, Remaining
<1>12. CASE CallbackThrows
  BY <1>12 DEF CallbackThrows, Catch, Truncated, SizeFits, Remaining
<1>13. CASE WriteThrows
  BY <1>13 DEF WriteThrows, Catch, Truncated, SizeFits, Remaining
<1>14. CASE FailureReported
  BY <1>14 DEF FailureReported, Truncated, SizeFits, Remaining
<1>15. CASE Stop \/ Destroy
  BY <1>15 DEF Stop, Destroy, Truncated, SizeFits, Remaining
<1>16. CASE UNCHANGED vars
  BY <1>16 DEF vars, Truncated, SizeFits, Remaining
<1> QED
  BY <1>1, <1>2, <1>3, <1>4, <1>5, <1>6, <1>7, <1>8, <1>9, <1>10, <1>11, <1>12, <1>13, <1>14, <1>15, <1>16 DEF Next, GenerateStep

\* A step keeps the buffer of a command the driver holds.
LEMMA CommandStep ==
  ASSUME TypeOK, CommandPolled, [Next]_vars
  PROVE  CommandPolled'
<1>1. CASE Generate
  BY <1>1 DEF Generate, CommandPolled, TypeOK
<1>2. CASE GenerateThrows
  BY <1>2 DEF GenerateThrows, CommandPolled, TypeOK
<1>3. CASE ChooseOperation
  BY <1>3 DEF ChooseOperation, CommandPolled, TypeOK
<1>4. CASE BlockFails
  BY <1>4 DEF BlockFails, CommandPolled, TypeOK
<1>5. CASE SubmitFails
  BY <1>5 DEF SubmitFails, CommandPolled, TypeOK
<1>6. ASSUME NEW done \in BOOLEAN, Submit(done)
      PROVE  CommandPolled'
  BY <1>6 DEF Submit, FlagAfterSubmit, CommandPolled, TypeOK
<1>7. CASE Complete
  BY <1>7 DEF Complete, CommandPolled, TypeOK
<1>8. CASE FinishOperation
  BY <1>8 DEF FinishOperation, Polled, CommandPolled, TypeOK
<1>9. CASE LoopEnds
  BY <1>9 DEF LoopEnds, CommandPolled, TypeOK
<1>10. CASE CallbackReturns
  BY <1>10 DEF CallbackReturns, CommandPolled, TypeOK
<1>11. CASE Return
  BY <1>11 DEF Return, CommandPolled, TypeOK
<1>12. CASE CallbackThrows
  BY <1>12 DEF CallbackThrows, Catch, CommandPolled, TypeOK
<1>13. CASE WriteThrows
  BY <1>13 DEF WriteThrows, Catch, CommandPolled, TypeOK
<1>14. CASE FailureReported
  BY <1>14 DEF FailureReported, CommandPolled, TypeOK
<1>15. CASE Stop \/ Destroy
  BY <1>15 DEF Stop, Destroy, CommandPolled, TypeOK
<1>16. CASE UNCHANGED vars
  BY <1>16 DEF vars, CommandPolled, TypeOK
<1> QED
  BY <1>1, <1>2, <1>3, <1>4, <1>5, <1>6, <1>7, <1>8, <1>9, <1>10, <1>11, <1>12, <1>13, <1>14, <1>15, <1>16 DEF Next, GenerateStep

\* A step keeps what the callback was told true.
LEMMA ReportStep ==
  ASSUME TypeOK, Truncated, ReportTruthful, [Next]_vars
  PROVE  ReportTruthful'
<1>1. CASE Generate
  BY <1>1 DEF Generate, ReportTruthful
<1>2. CASE GenerateThrows
  BY <1>2 DEF GenerateThrows, ReportTruthful
<1>3. CASE ChooseOperation
  BY <1>3 DEF ChooseOperation, ReportTruthful
<1>4. CASE BlockFails
  BY <1>4 DEF BlockFails, ReportTruthful
<1>5. CASE SubmitFails
  BY <1>5 DEF SubmitFails, ReportTruthful
<1>6. ASSUME NEW done \in BOOLEAN, Submit(done)
      PROVE  ReportTruthful'
  BY <1>6 DEF Submit, ReportTruthful
<1>7. CASE Complete
  BY <1>7 DEF Complete, ReportTruthful
<1>8. CASE FinishOperation
  BY <1>8 DEF FinishOperation, ReportTruthful
<1>9. CASE LoopEnds
  <2>1. total <= profile.total_size /\ total < Modulus /\ total \in Nat
    <3>1. profile.total_size \in Nat /\ Modulus \in Nat \ {0} /\ total \in Nat
      BY ProfileType DEF TypeOK
    <3>2. profile.total_size % Modulus \in 0 .. (Modulus - 1)
      BY <3>1, RemainderBounds
    <3> QED
      BY <3>1, <3>2, RemainingBytes DEF Truncated
  <2>2. total % Modulus = total
    BY <2>1, ProfileType
  <2>3. running => total = profile.total_size
    BY <1>9, <2>1, ProfileType DEF LoopEnds, KeepRunning
  <2> QED
    BY <1>9, <2>2, <2>3 DEF LoopEnds, Report, ReportTruthful
<1>10. CASE CallbackReturns
  BY <1>10 DEF CallbackReturns, ReportTruthful
<1>11. CASE Return
  BY <1>11 DEF Return, ReportTruthful
<1>12. CASE CallbackThrows
  BY <1>12 DEF CallbackThrows, Catch, ReportTruthful
<1>13. CASE WriteThrows
  BY <1>13 DEF WriteThrows, Catch, ReportTruthful
<1>14. CASE FailureReported
  BY <1>14 DEF FailureReported, ReportTruthful
<1>15. CASE Stop \/ Destroy
  BY <1>15 DEF Stop, Destroy, ReportTruthful
<1>16. CASE UNCHANGED vars
  BY <1>16 DEF vars, ReportTruthful
<1> QED
  BY <1>1, <1>2, <1>3, <1>4, <1>5, <1>6, <1>7, <1>8, <1>9, <1>10, <1>11, <1>12, <1>13, <1>14, <1>15, <1>16 DEF Next, GenerateStep

\* A step keeps the generator usable.
LEMMA ReusableStep ==
  ASSUME Reusable, Released, [Next]_vars
  PROVE  Reusable' /\ Released'
<1>1. CASE Generate
  BY <1>1 DEF Generate, Reusable, Released
<1>2. CASE GenerateThrows
  BY <1>2 DEF GenerateThrows, Reusable, Released
<1>3. CASE ChooseOperation
  BY <1>3 DEF ChooseOperation, Reusable, Released
<1>4. CASE BlockFails
  BY <1>4 DEF BlockFails, Reusable, Released
<1>5. CASE SubmitFails
  BY <1>5 DEF SubmitFails, Reusable, Released
<1>6. ASSUME NEW done \in BOOLEAN, Submit(done)
      PROVE  Reusable' /\ Released'
  BY <1>6 DEF Submit, Reusable, Released
<1>7. CASE Complete
  BY <1>7 DEF Complete, Reusable, Released
<1>8. CASE FinishOperation
  BY <1>8 DEF FinishOperation, Reusable, Released
<1>9. CASE LoopEnds
  BY <1>9 DEF LoopEnds, Reusable, Released
<1>10. CASE CallbackReturns
  BY <1>10 DEF CallbackReturns, Reusable, Released
<1>11. CASE Return
  BY <1>11 DEF Return, RunningAfter, Reusable, Released
<1>12. CASE CallbackThrows
  BY <1>12 DEF CallbackThrows, Catch, RunningAfter, Reusable, Released
<1>13. CASE WriteThrows
  BY <1>13 DEF WriteThrows, Catch, RunningAfter, Reusable, Released
<1>14. CASE FailureReported
  BY <1>14 DEF FailureReported, Reusable, Released
<1>15. CASE Stop \/ Destroy
  BY <1>15 DEF Stop, Destroy, Reusable, Released
<1>16. CASE UNCHANGED vars
  BY <1>16 DEF vars, Reusable, Released
<1> QED
  BY <1>1, <1>2, <1>3, <1>4, <1>5, <1>6, <1>7, <1>8, <1>9, <1>10, <1>11, <1>12, <1>13, <1>14, <1>15, <1>16 DEF Next, GenerateStep

------------------------------------------------------------------------------
(* Where the commands reach.                                               *)
(*                                                                         *)
(* An operation is chosen for the bytes done so far, and nothing changes   *)
(* these before it is over (OperationChosen).  The bytes done are whole    *)
(* blocks until the total modulo Modulus is reached (WholeBlocks); after   *)
(* that every operation is empty.  So a sequential operation begins where  *)
(* the bytes done end, and covers what it adds to them (Covered).          *)

\* The operation at hand is one that could be chosen now.
OperationChosen ==
  step \in {"submit", "poll"} => op.size = BlockSize /\ op.index \in BlockIndexes

\* Only the last operation is not a whole block.
WholeBlocks ==
  total % profile.block_size = 0 \/ total = profile.total_size % Modulus

\* The bytes whose sectors the driver has been given.
Submitted == IF step = "poll" THEN total + op.size ELSE total

\* A sequential workload of whole sectors has touched all it has submitted, up
\* to the end of the region.
Covered ==
  (profile.patterns = {"sequential"} /\ profile.block_size % SectorSize = 0)
    => \A s \in Nat : s * SectorSize < Smaller(Region, Submitted) => s \in touched

ReachInv == OperationChosen /\ WholeBlocks /\ StaysInRegion /\ Covered

\* The numbers of an operation.
LEMMA OperationType ==
  ASSUME TypeOK, OperationChosen, step \in {"submit", "poll"}
  PROVE  /\ op.index \in Nat /\ op.size \in Nat /\ op.size <= profile.block_size
         /\ op.index + 1 <= profile.num_blocks
         /\ profile.block_size \in Nat \ {0} /\ profile.num_blocks \in Nat \ {0}
         /\ SectorSize \in Nat \ {0} /\ Modulus \in Nat \ {0}
         /\ profile.block_size < Modulus
<1>1. /\ op.index \in 0 .. (profile.num_blocks - 1) /\ op.size \in Nat
      /\ profile.block_size \in 1 .. (Modulus - 1) /\ profile.num_blocks \in 1 .. (Modulus - 1)
      /\ SectorSize \in Nat \ {0} /\ Modulus \in Nat \ {0}
  BY ProfileType DEF TypeOK
<1>2. op.size \in {profile.block_size, Remaining % Modulus}
  BY DEF OperationChosen, BlockSize, Smaller
<1>3. op.size <= profile.block_size
  BY <1>1 DEF OperationChosen, BlockSize, Smaller
<1> QED
  BY <1>1, <1>3

\* A size rounds up to less than one sector more.
LEMMA AlignedBound ==
  ASSUME NEW size \in Nat, SectorSize \in Nat \ {0}, Modulus \in Nat \ {0}
  PROVE  /\ AlignedSize(size) \in Nat
         /\ size % SectorSize = 0 => AlignedSize(size) = size
         /\ AlignedSize(size) <= (size \div SectorSize + 1) * SectorSize
<1> DEFINE q == size \div SectorSize  up == (q + 1) * SectorSize
<1>1. /\ q \in Nat /\ size % SectorSize \in 0 .. (SectorSize - 1)
      /\ q * SectorSize \in Nat /\ size = q * SectorSize + (size % SectorSize)
  BY Division
<1> HIDE DEF q
<1>2. up = q * SectorSize + SectorSize /\ up \in Nat
  BY <1>1, ProductStep
<1> HIDE DEF up
<1>3. up % Modulus \in 0 .. (Modulus - 1) /\ up % Modulus <= up
  BY <1>2, RemainderBounds
<1>4. size <= up
  BY <1>1, <1>2
<1>5. AlignedSize(size) = IF size % SectorSize = 0 THEN size ELSE up % Modulus
  BY DEF AlignedSize, up, q
<1> QED
  BY <1>3, <1>4, <1>5 DEF up, q

\* Every sector of an operation begins inside the bytes of its block.
LEMMA SectorsInBlock ==
  ASSUME TypeOK, OperationChosen, step \in {"submit", "poll"}, NEW s \in Sectors(op)
  PROVE  s \in Nat /\ s * SectorSize < (op.index + 1) * profile.block_size
<1> DEFINE S == SectorSize  start == op.index * profile.block_size  count == LbaCount(op)
           q == op.size \div S  first == start \div S
<1>1. /\ op.index \in Nat /\ op.size \in Nat /\ op.size <= profile.block_size
      /\ profile.block_size \in Nat /\ S \in Nat \ {0} /\ Modulus \in Nat \ {0}
  BY OperationType
<1>2. start \in Nat /\ (op.index + 1) * profile.block_size = start + profile.block_size
  BY <1>1, ProductStep
<1> HIDE DEF start
<1>3. first \in Nat /\ first * S \in Nat /\ first * S <= start
  BY <1>1, <1>2, QuotientBound
<1>4. /\ q \in Nat /\ q * S \in Nat /\ op.size % S \in 0 .. (S - 1)
      /\ op.size = q * S + (op.size % S)
  BY <1>1, Division
<1>5. /\ AlignedSize(op.size) \in Nat
      /\ op.size % S = 0 => AlignedSize(op.size) = op.size
      /\ AlignedSize(op.size) <= (q + 1) * S
  BY <1>1, AlignedBound
<1>6. count \in Nat /\ count * S \in Nat /\ count * S <= AlignedSize(op.size)
  BY <1>1, <1>5, QuotientBound DEF LbaCount
<1> HIDE DEF first, q, count
<1>7. s \in Nat /\ s + 1 <= first + count
  <2>1. s \in first .. (first + count - 1)
    BY DEF Sectors, Lba, first, count, start
  <2> QED
    BY <2>1, <1>3, <1>6
<1>8. (s + 1) * S = s * S + S /\ s * S \in Nat
  BY <1>1, <1>7, ProductStep
<1>9. (first + count) * S = first * S + count * S
  BY <1>1, <1>3, <1>6, ProductAdd
<1>10. (s + 1) * S <= (first + count) * S
  BY <1>1, <1>3, <1>6, <1>7, ProductMonotone
<1>11. s * S + S <= start + count * S
  BY <1>1, <1>2, <1>3, <1>6, <1>8, <1>9, <1>10
<1>12. CASE op.size % S = 0
  <2>1. count * S <= op.size
    BY <1>5, <1>6, <1>12
  <2> QED
    BY <2>1, <1>1, <1>2, <1>6, <1>7, <1>8, <1>11
<1>13. CASE op.size % S # 0
  <2>1. (q + 1) * S = q * S + S
    BY <1>1, <1>4, ProductStep
  <2>2. count * S <= q * S + S
    <3>1. AlignedSize(op.size) <= q * S + S /\ q * S + S \in Nat
      BY <1>1, <1>4, <1>5, <2>1
    <3> QED
      BY <3>1, <1>5, <1>6
  <2>3. q * S < op.size
    BY <1>4, <1>13
  <2>4. s * S + S < start + op.size + S
    BY <1>1, <1>2, <1>4, <1>6, <1>8, <1>11, <2>2, <2>3
  <2> QED
    BY <2>4, <1>1, <1>2, <1>7, <1>8
<1> QED
  BY <1>12, <1>13

\* Where blocks are whole sectors, an operation reads or writes every sector
\* that begins inside its bytes.
LEMMA SectorsCover ==
  ASSUME TypeOK, OperationChosen, step \in {"submit", "poll"},
         profile.block_size % SectorSize = 0, NEW s \in Nat,
         op.index * profile.block_size <= s * SectorSize,
         s * SectorSize < op.index * profile.block_size + op.size
  PROVE  s \in Sectors(op)
<1> DEFINE S == SectorSize  start == op.index * profile.block_size
           b == profile.block_size \div S  q == op.size \div S
           first == op.index * b  aligned == AlignedSize(op.size)
<1>1. /\ op.index \in Nat /\ op.size \in Nat /\ op.size <= profile.block_size
      /\ profile.block_size \in Nat /\ S \in Nat \ {0} /\ Modulus \in Nat \ {0}
      /\ profile.block_size < Modulus
  BY OperationType
<1>2. b \in Nat /\ b * S \in Nat /\ profile.block_size = b * S
  BY <1>1, ExactQuotient
<1>3. /\ q \in Nat /\ q * S \in Nat /\ op.size % S \in 0 .. (S - 1)
      /\ op.size = q * S + (op.size % S)
  BY <1>1, Division
<1> HIDE DEF b, q
<1>4. start \in Nat /\ first \in Nat /\ start = first * S
  BY <1>1, <1>2
<1>5. Lba(op) = first
  <2>1. (first * S + 0) \div S = first
    BY <1>1, <1>4, DivisionUnique
  <2>2. first * S + 0 = start
    BY <1>4
  <2> QED
    BY <2>1, <2>2 DEF Lba
<1>6. s * S \in Nat /\ start <= s * S /\ s * S < start + op.size
  BY <1>1
<1> HIDE DEF start, first
<1>7. first <= s
  <2>1. CASE s < first
    <3>1. (s + 1) * S <= first * S /\ (s + 1) * S = s * S + S
      BY <1>1, <1>4, <2>1, ProductMonotone, ProductStep
    <3> QED
      BY <3>1, <1>1, <1>4, <1>6
  <2> QED
    BY <2>1, <1>4
<1>8. ASSUME NEW n \in Nat, LbaCount(op) = n, op.size <= n * S
      PROVE  s \in Sectors(op)
  <2>1. (first + n) * S = first * S + n * S /\ n * S \in Nat
    BY <1>1, <1>4, <1>8, ProductAdd
  <2>2. s * S < (first + n) * S
    BY <1>1, <1>4, <1>6, <1>8, <2>1
  <2>3. s < first + n
    BY <1>1, <1>4, <1>8, <2>2, ProductLess
  <2> QED
    BY <1>4, <1>5, <1>7, <1>8, <2>3 DEF Sectors
<1>9. CASE op.size % S = 0
  <2>1. op.size = q * S + 0
    BY <1>3, <1>9
  <2>2. aligned = q * S + 0
    BY <2>1, <1>9 DEF AlignedSize
  <2>3. LbaCount(op) = q
    BY <2>2, <1>1, <1>3, DivisionUnique DEF LbaCount
  <2> QED
    BY <2>1, <2>3, <1>3, <1>8
<1>10. CASE op.size % S # 0
  <2>1. (q + 1) * S = q * S + S /\ (q + 1) * S \in Nat
    BY <1>1, <1>3, ProductStep
  <2>2. q * S < op.size /\ op.size <= (q + 1) * S
    <3> DEFINE r == op.size % S
    <3>1. r \in 0 .. (S - 1) /\ r # 0 /\ op.size = q * S + r
      BY <1>3, <1>10
    <3> HIDE DEF r
    <3> QED
      BY <3>1, <2>1, <1>1, <1>3
  <2>3. q < b
    <3>1. q * S < b * S
      <4> DEFINE x == q * S  y == b * S
      <4>1. x \in Nat /\ x < op.size /\ op.size <= profile.block_size /\ profile.block_size = y
        BY <2>2, <1>1, <1>2, <1>3
      <4> HIDE DEF x, y
      <4>2. x < y
        BY <4>1, <1>1
      <4> QED
        BY <4>2 DEF x, y
    <3> QED
      BY <3>1, <1>1, <1>2, <1>3, ProductLess
  <2>4. (q + 1) * S <= b * S
    BY <2>3, <1>1, <1>2, <1>3, ProductMonotone
  <2>5. ((q + 1) * S) % Modulus = (q + 1) * S
    BY <2>1, <2>4, <1>1, <1>2
  <2>6. aligned = (q + 1) * S + 0
    BY <2>1, <2>5, <1>10 DEF AlignedSize, q
  <2>7. LbaCount(op) = q + 1
    BY <2>6, <1>1, <1>3, DivisionUnique DEF LbaCount
  <2> QED
    BY <2>2, <2>7, <1>3, <1>8
<1> QED
  BY <1>9, <1>10

\* The size of an operation: a whole block, or all that is left; nothing once
\* the remainder of the total is done.
LEMMA ChosenSize ==
  ASSUME TypeOK, Truncated, WholeBlocks
  PROVE  \/ BlockSize = profile.block_size /\ total % profile.block_size = 0
         \/ total + BlockSize = profile.total_size % Modulus
<1> DEFINE T == profile.total_size % Modulus
<1>1. Remaining % Modulus = T - total /\ T \in Nat /\ total \in Nat /\ total <= T
  BY RemainingBytes, RemainderNatural DEF TypeOK, Truncated
<1>2. profile.block_size \in Nat \ {0}
  BY ProfileType
<1>3. BlockSize = Smaller(profile.block_size, T - total)
  BY <1>1 DEF BlockSize
<1> HIDE DEF T
<1>4. CASE total = T
  BY <1>1, <1>2, <1>3, <1>4 DEF Smaller, T
<1>5. CASE total % profile.block_size = 0
  BY <1>1, <1>2, <1>3, <1>5 DEF Smaller, T
<1> QED
  BY <1>4, <1>5 DEF WholeBlocks, T

\* One operation more, and the bytes done are whole blocks or all there is.
LEMMA WholeBlocksAfter ==
  ASSUME TypeOK, Truncated, WholeBlocks
  PROVE  \/ (total + BlockSize) % profile.block_size = 0
         \/ total + BlockSize = profile.total_size % Modulus
<1> DEFINE b == profile.block_size  k == total \div b
<1>1. b \in Nat \ {0} /\ total \in Nat
  BY ProfileType DEF TypeOK
<1>2. CASE BlockSize = b /\ total % b = 0
  <2>1. k \in Nat /\ k * b \in Nat /\ total = k * b
    BY <1>1, <1>2, ExactQuotient
  <2> HIDE DEF k, b
  <2>2. total + BlockSize = (k + 1) * b + 0
    BY <1>1, <1>2, <2>1, ProductStep
  <2>3. ((k + 1) * b + 0) % b = 0
    <3>1. k + 1 \in Nat /\ 0 \in 0 .. (b - 1)
      BY <1>1, <2>1
    <3> QED
      BY <3>1, <1>1, DivisionUnique
  <2> QED
    BY <2>2, <2>3 DEF b
<1> QED
  BY <1>2, ChosenSize

\* A sequential operation that starts inside the region is at the block where
\* the bytes done end.
LEMMA NextBlockAtEnd ==
  ASSUME TypeOK, total % profile.block_size = 0, total < Region
  PROVE  NextBlock * profile.block_size = total
<1> DEFINE b == profile.block_size  n == profile.num_blocks  k == total \div b
<1>1. b \in Nat \ {0} /\ n \in Nat \ {0} /\ total \in Nat
  BY ProfileType DEF TypeOK
<1>2. k \in Nat /\ k * b \in Nat /\ total = k * b
  BY <1>1, ExactQuotient
<1>3. total < n * b
  BY DEF Region
<1>4. NextBlock = k % n
  BY DEF NextBlock
<1> HIDE DEF k, b, n
<1>5. k < n
  BY <1>1, <1>2, <1>3, ProductLess
<1>6. k % n = k
  BY <1>1, <1>2, <1>5
<1> QED
  BY <1>2, <1>4, <1>6 DEF b

------------------------------------------------------------------------------
(* The steps, for where the commands reach.                                *)

\* A step that neither submits nor finishes nor chooses keeps it, as long as
\* the bytes and the sectors stay or are both reset.
LEMMA ReachKept ==
  ASSUME TypeOK, ReachInv, profile' = profile, total' = total, touched' = touched,
         \/ step' \notin {"submit", "poll"} /\ step # "poll"
         \/ step' = step /\ op' = op
  PROVE  ReachInv'
<1>1. OperationChosen'
  BY DEF ReachInv, OperationChosen, BlockSize, Remaining, BlockIndexes, NextBlock
<1>2. Submitted' = Submitted
  BY DEF Submitted
<1> QED
  BY <1>1, <1>2 DEF ReachInv, WholeBlocks, StaysInRegion, Covered, Region

\* With no byte done there is nothing to cover.
LEMMA ReachReset ==
  ASSUME TypeOK, ReachInv, profile' = profile, total' = 0, touched' \in {touched, {}},
         step' \notin {"submit", "poll"}
  PROVE  ReachInv'
<1>1. profile.block_size \in Nat \ {0}
  BY ProfileType
<1>2. 0 % profile.block_size = 0
  BY <1>1
<1>3. SectorSize \in Nat /\ Region \in Nat
  BY ProfileType DEF Region
<1>4. Submitted' = 0
  BY DEF Submitted
<1>5. \A s \in Nat : ~(s * SectorSize < Smaller(Region, 0))
  BY <1>3 DEF Smaller
<1>6. Region' = Region
  BY DEF Region
<1>7. Covered'
  BY <1>4, <1>5, <1>6 DEF Covered
<1> QED
  BY <1>2, <1>6, <1>7 DEF ReachInv, OperationChosen, WholeBlocks, StaysInRegion

\* The choice of an operation.
LEMMA ReachChoose ==
  ASSUME TypeOK, ReachInv, ChooseOperation
  PROVE  ReachInv'
<1>1. OperationChosen'
  BY DEF ChooseOperation, OperationChosen, BlockSize, Remaining, BlockIndexes, NextBlock
<1>2. Submitted' = Submitted
  BY DEF ChooseOperation, Submitted
<1> QED
  BY <1>1, <1>2 DEF ChooseOperation, ReachInv, WholeBlocks, StaysInRegion, Covered, Region

\* The submission touches the sectors of the operation: no more than its block
\* has, and no less than the bytes it adds.
LEMMA ReachSubmit ==
  ASSUME TypeOK, Truncated, ReachInv, NEW done \in BOOLEAN, Submit(done)
  PROVE  ReachInv'
<1>0. /\ step = "submit" /\ step' = "poll"
      /\ profile' = profile /\ total' = total /\ op' = op
      /\ touched' = touched \cup Sectors(op)
  BY DEF Submit
<1>1. OperationChosen /\ OperationChosen' /\ WholeBlocks'
  BY <1>0 DEF ReachInv, OperationChosen, WholeBlocks, BlockSize, Remaining, BlockIndexes, NextBlock
<1>2. /\ op.index \in Nat /\ op.size \in Nat
      /\ profile.block_size \in Nat \ {0} /\ profile.num_blocks \in Nat
      /\ op.index + 1 <= profile.num_blocks /\ SectorSize \in Nat \ {0}
      /\ total \in Nat
  BY <1>0, <1>1, OperationType DEF TypeOK
<1>3. Region' = Region /\ Region \in Nat
  BY <1>0, <1>2 DEF Region
<1>4. StaysInRegion'
  <2> SUFFICES ASSUME NEW s \in touched'
               PROVE  s * SectorSize < Region
    BY <1>3 DEF StaysInRegion
  <2>1. CASE s \in touched
    BY <2>1 DEF ReachInv, StaysInRegion
  <2>2. CASE s \in Sectors(op)
    <3>1. s \in Nat /\ s * SectorSize < (op.index + 1) * profile.block_size
      BY <2>2, <1>0, <1>1, SectorsInBlock
    <3>2. (op.index + 1) * profile.block_size <= Region
      BY <1>2, ProductMonotone DEF Region
    <3>3. s * SectorSize \in Nat /\ (op.index + 1) * profile.block_size \in Nat
      BY <3>1, <1>2
    <3> QED
      BY <3>1, <3>2, <3>3, <1>3
  <2> QED
    BY <2>1, <2>2, <1>0
<1>5. Covered'
  <2> SUFFICES ASSUME profile.patterns = {"sequential"}, profile.block_size % SectorSize = 0,
                      NEW s \in Nat, s * SectorSize < Smaller(Region, total + op.size)
               PROVE  s \in touched \cup Sectors(op)
    BY <1>0, <1>3 DEF Covered, Submitted
  <2> DEFINE byte == s * SectorSize
  <2>1. byte \in Nat
    BY <1>2
  <2>2. byte < Region /\ byte < total + op.size
    BY <2>1, <1>2, <1>3 DEF Smaller
  <2> HIDE DEF byte
  <2>3. CASE byte < total
    <3>1. byte < Smaller(Region, Submitted)
      BY <2>2, <2>3, <1>0 DEF Smaller, Submitted
    <3> QED
      BY <3>1 DEF ReachInv, Covered, byte
  <2>4. CASE total <= byte
    <3>1. total < Region /\ op.size # 0
      BY <2>1, <2>2, <2>4, <1>2, <1>3
    <3>2. op.size = BlockSize /\ op.index = NextBlock
      BY <1>0, <1>1 DEF OperationChosen, BlockIndexes
    <3>3. total % profile.block_size = 0
      <4>1. CASE total = profile.total_size % Modulus
        <5>1. Remaining % Modulus = 0
          BY <4>1, <1>2, RemainingBytes
        <5>2. BlockSize = 0
          BY <5>1, <1>2 DEF BlockSize, Smaller
        <5> QED
          BY <5>2, <3>1, <3>2
      <4> QED
        BY <4>1 DEF ReachInv, WholeBlocks
    <3>4. op.index * profile.block_size = total
      BY <3>1, <3>2, <3>3, NextBlockAtEnd
    <3>5. s \in Sectors(op)
      BY <3>4, <2>2, <2>4, <1>0, <1>1, SectorsCover DEF byte
    <3> QED
      BY <3>5
  <2> QED
    BY <2>1, <2>3, <2>4, <1>2 DEF byte
<1> QED
  BY <1>1, <1>4, <1>5 DEF ReachInv

\* The end of an operation.
LEMMA ReachFinish ==
  ASSUME TypeOK, Truncated, ReachInv, FinishOperation
  PROVE  ReachInv'
<1>1. /\ step = "poll" /\ step' = "loop" /\ profile' = profile /\ touched' = touched
      /\ total' = total + op.size /\ op.size = BlockSize
  BY DEF FinishOperation, ReachInv, OperationChosen
<1>2. WholeBlocks'
  BY <1>1, WholeBlocksAfter DEF ReachInv, WholeBlocks
<1>3. Submitted' = Submitted
  BY <1>1 DEF Submitted
<1> QED
  BY <1>1, <1>2, <1>3 DEF ReachInv, OperationChosen, StaysInRegion, Covered, Region

\* Every step keeps where the commands reach.
LEMMA ReachStep ==
  ASSUME TypeOK, Truncated, ReachInv, [Next]_vars
  PROVE  ReachInv'
<1>1. CASE Generate
  BY <1>1, ReachReset DEF Generate
<1>2. CASE GenerateThrows
  BY <1>2, ReachReset DEF GenerateThrows
<1>3. CASE ChooseOperation
  BY <1>3, ReachChoose
<1>4. CASE BlockFails
  BY <1>4, ReachKept DEF BlockFails, TotalAfterFailure
<1>5. CASE SubmitFails
  BY <1>5, ReachKept DEF SubmitFails, TotalAfterFailure
<1>6. ASSUME NEW done \in BOOLEAN, Submit(done)
      PROVE  ReachInv'
  BY <1>6, ReachSubmit
<1>7. CASE Complete
  BY <1>7, ReachKept DEF Complete
<1>8. CASE FinishOperation
  BY <1>8, ReachFinish
<1>9. CASE LoopEnds
  BY <1>9, ReachKept DEF LoopEnds
<1>10. CASE CallbackReturns
  BY <1>10, ReachKept DEF CallbackReturns
<1>11. CASE Return
  BY <1>11, ReachKept DEF Return
<1>12. CASE CallbackThrows
  BY <1>12, ReachKept DEF CallbackThrows, Catch
<1>13. CASE WriteThrows
  BY <1>13, ReachKept DEF WriteThrows, Catch
<1>14. CASE FailureReported
  BY <1>14, ReachKept DEF FailureReported
<1>15. CASE Stop \/ Destroy
  BY <1>15, ReachKept DEF Stop, Destroy
<1>16. CASE UNCHANGED vars
  BY <1>16, ReachKept DEF vars
<1> QED
  BY <1>1, <1>2, <1>3, <1>4, <1>5, <1>6, <1>7, <1>8, <1>9, <1>10, <1>11, <1>12, <1>13, <1>14, <1>15, <1>16 DEF Next, GenerateStep

------------------------------------------------------------------------------
(* The invariant and what follows from it.                                 *)

\* The initial states satisfy the invariant.
LEMMA InitIInv == Init => IInv
<1> SUFFICES ASSUME Init PROVE IInv
  OBVIOUS
<1>1. /\ profile \in Profiles /\ profile.total_size \in Nat /\ profile.num_blocks \in Nat \ {0}
      /\ Modulus \in Nat \ {0}
  BY GeneratorAssumption DEF Init, ValidProfiles
<1>2. TypeOK
  <2>1. op \in [kind : Kinds, index : 0 .. (profile.num_blocks - 1), size : 0 .. (Modulus - 1)]
    BY <1>1 DEF Init, NoOp, Kinds
  <2>2. reported \in [success : BOOLEAN, bytes : 0 .. (Modulus - 1)]
    BY <1>1 DEF Init, NoReport
  <2>3. runs \in 0 .. MaxRuns /\ faults \in 0 .. MaxFaults
    BY GeneratorAssumption DEF Init
  <2> QED
    BY <1>1, <2>1, <2>2, <2>3 DEF Init, TypeOK
<1>3. Truncated
  BY <1>1, RemainderBounds DEF Init, Truncated
<1> QED
  BY <1>2, <1>3
  DEF Init, IInv, SizeFits, CommandPolled, ReportTruthful, Reusable, Released

\* Every step keeps the invariant.
LEMMA StepIInv == IInv /\ [Next]_vars => IInv'
BY TypeStep, TruncatedStep, CommandStep, ReportStep, ReusableStep DEF IInv

\* The strengthened invariant holds in every reachable state.
THEOREM Invariance == Spec => []IInv
BY InitIInv, StepIInv, PTL DEF Spec

\* Nothing is touched and no byte is done at the start.
LEMMA InitReach == Init => ReachInv
<1> SUFFICES ASSUME Init PROVE ReachInv
  OBVIOUS
<1>1. TypeOK
  BY InitIInv DEF IInv
<1>2. profile.block_size \in Nat \ {0} /\ SectorSize \in Nat /\ Region \in Nat
  BY <1>1, ProfileType DEF Region
<1>3. 0 % profile.block_size = 0
  BY <1>2
<1>4. Submitted = 0
  BY DEF Init, Submitted
<1>5. \A s \in Nat : ~(s * SectorSize < Smaller(Region, 0))
  BY <1>2 DEF Smaller
<1>6. Covered
  BY <1>4, <1>5 DEF Covered
<1> QED
  BY <1>3, <1>6 DEF Init, ReachInv, OperationChosen, WholeBlocks, StaysInRegion

\* Where the commands reach holds in every reachable state.
THEOREM Reach == Spec => []ReachInv
<1>1. IInv /\ ReachInv /\ [Next]_vars => ReachInv'
  BY ReachStep DEF IInv
<1> QED
  BY <1>1, InitReach, Invariance, PTL DEF Spec

\* No command reaches beyond the last sector of the region, whatever the sizes
\* of blocks, sectors and words.
THEOREM RegionSafe == Spec => []StaysInRegion
<1>1. ReachInv => StaysInRegion
  BY DEF ReachInv
<1> QED
  BY <1>1, Reach, PTL

\* A sequential workload of at least one pass over the blocks leaves no hole.
THEOREM NoHole == Spec => []SequentialCoversRegion
<1>1. IInv /\ ReachInv => SequentialCoversRegion
  <2> SUFFICES ASSUME IInv, ReachInv, step = "callback", running,
                      profile.patterns = {"sequential"},
                      profile.block_size % SectorSize = 0,
                      Region <= profile.total_size,
                      NEW s \in 0 .. (Region \div SectorSize - 1)
               PROVE  s \in touched
    BY DEF SequentialCoversRegion
  <2>1. /\ SectorSize \in Nat \ {0} /\ Region \in Nat
        /\ total \in Nat /\ profile.total_size \in Nat
    BY ProfileType DEF IInv, TypeOK, Region
  <2>2. total = profile.total_size /\ Submitted = total
    BY DEF IInv, ReportTruthful, Submitted
  <2> DEFINE q == Region \div SectorSize
  <2>3. q \in Nat /\ q * SectorSize \in Nat /\ q * SectorSize <= Region
    BY <2>1, QuotientBound
  <2> HIDE DEF q
  <2>4. s \in Nat /\ s + 1 <= q
    BY <2>3 DEF q
  <2>5. (s + 1) * SectorSize <= q * SectorSize
    BY <2>1, <2>3, <2>4, ProductMonotone
  <2>6. (s + 1) * SectorSize = s * SectorSize + SectorSize /\ s * SectorSize \in Nat
    BY <2>1, <2>4, ProductStep
  <2>7. s * SectorSize < Region
    BY <2>1, <2>3, <2>5, <2>6
  <2>8. Smaller(Region, Submitted) = Region
    BY <2>1, <2>2 DEF Smaller
  <2> QED
    BY <2>4, <2>7, <2>8 DEF ReachInv, Covered
<1> QED
  BY <1>1, Invariance, Reach, PTL

\* Every variable keeps its type: sizes fit a word, indexes name a block.
THEOREM TypeCorrect == Spec => []TypeOK
<1>1. IInv => TypeOK
  BY DEF IInv
<1> QED
  BY <1>1, Invariance, PTL

\* GetProgress never exceeds 1.0, for every profile, word and sector size.
THEOREM ProgressBounded == Spec => []NoOvershoot
<1>1. IInv => NoOvershoot
  BY RemainingBytes DEF IInv, NoOvershoot
<1> QED
  BY <1>1, Invariance, PTL

\* The callback hears the exact byte count, and success without a Stop means
\* the whole workload.
THEOREM TruthfulReport == Spec => []ReportTruthful
<1>1. IInv => ReportTruthful
  BY DEF IInv
<1> QED
  BY <1>1, Invariance, PTL

\* No buffer is freed under a command in flight.
THEOREM BufferSafe == Spec => []BufferOutlivesCommand
<1>1. IInv => BufferOutlivesCommand
  BY DEF IInv, CommandPolled, BufferOutlivesCommand
<1> QED
  BY <1>1, Invariance, PTL

\* The generator can be used again after every call that reached its try block.
THEOREM AlwaysReusable == Spec => []Reusable
<1>1. IInv => Reusable
  BY DEF IInv
<1> QED
  BY <1>1, Invariance, PTL

\* A workload of 2^32 bytes or more is never done: its loop can only end by
\* Stop or by an exception.
THEOREM LargeNeverDone ==
  Spec => [](profile.total_size >= Modulus => total < profile.total_size)
<1>1. IInv => (profile.total_size >= Modulus => total < profile.total_size)
  <2> SUFFICES ASSUME IInv, profile.total_size >= Modulus
               PROVE  total < profile.total_size
    OBVIOUS
  <2>1. /\ profile.total_size % Modulus \in 0 .. (Modulus - 1)
        /\ Modulus \in Nat /\ total \in Nat /\ profile.total_size \in Nat
    BY RemainderNatural, ProfileType DEF IInv, TypeOK
  <2>2. total <= profile.total_size % Modulus
    BY DEF IInv, Truncated
  <2> QED
    BY <2>1, <2>2
<1> QED
  BY <1>1, Invariance, PTL

\* How far the driver is asked to go for one operation: its size rounded up to
\* whole sectors, except for sizes within the last sector below 2^32, whose
\* rounding wraps: their command has no sectors at all, and is counted.
THEOREM RoundingWraps ==
  ASSUME NEW size \in 0 .. (Modulus - 1)
  PROVE  IF size <= Modulus - SectorSize
         THEN size <= AlignedSize(size) /\ AlignedSize(size) < size + SectorSize
         ELSE AlignedSize(size) = 0
<1> DEFINE S == SectorSize  q == size \div S  r == size % S  up == (q + 1) * S
           n == Modulus \div S
<1>1. S \in Nat \ {0} /\ Modulus \in Nat \ {0} /\ Modulus % S = 0 /\ size \in Nat /\ size < Modulus
  BY GeneratorAssumption
<1>2. q \in Nat /\ r \in 0 .. (S - 1) /\ q * S \in Nat /\ size = q * S + r
  BY <1>1, Division
<1>3. n \in Nat /\ n * S \in Nat /\ Modulus = n * S
  BY <1>1, ExactQuotient
<1>4. AlignedSize(size) = IF r = 0 THEN size ELSE up % Modulus
  BY DEF AlignedSize
<1> HIDE DEF q, r, n
<1>5. up = q * S + S
  BY <1>1, <1>2, ProductStep
<1>6. q + 1 <= n
  <2>1. q * S < n * S
    BY <1>1, <1>2, <1>3
  <2>2. q < n
    BY <1>1, <1>2, <1>3, <2>1, ProductLess
  <2> QED
    BY <1>2, <1>3, <2>2
<1>7. up \in Nat /\ up <= Modulus
  <2>1. up <= n * S
    BY <1>1, <1>2, <1>3, <1>6, ProductMonotone
  <2> QED
    BY <1>1, <1>2, <1>3, <1>5, <2>1
<1>8. q + 1 < n => up + S <= Modulus
  <2> SUFFICES ASSUME q + 1 < n PROVE up + S <= Modulus
    OBVIOUS
  <2>1. q + 2 <= n /\ q + 2 \in Nat /\ (q + 1) + 1 = q + 2
    BY <1>2, <1>3
  <2>2. (q + 2) * S <= n * S
    BY <1>1, <1>3, <2>1, ProductMonotone
  <2>3. (q + 2) * S = up + S
    BY <1>1, <1>2, <2>1, ProductStep
  <2> QED
    BY <1>3, <2>2, <2>3
<1> HIDE DEF up
<1>9. CASE r = 0
  <2>1. size <= Modulus - S
    BY <1>1, <1>2, <1>5, <1>7, <1>9
  <2> QED
    BY <2>1, <1>1, <1>4, <1>9
<1>10. CASE r # 0 /\ q + 1 < n
  <2>1. up < Modulus
    BY <1>1, <1>7, <1>8, <1>10
  <2>2. AlignedSize(size) = up
    BY <1>1, <1>4, <1>7, <1>10, <2>1
  <2>3. size <= up /\ up < size + S /\ size <= Modulus - S
    BY <1>1, <1>2, <1>5, <1>8, <1>10
  <2> QED
    BY <2>2, <2>3
<1>11. CASE r # 0 /\ q + 1 = n
  <2>1. up = Modulus
    BY <1>1, <1>2, <1>3, <1>11 DEF up
  <2>2. AlignedSize(size) = 0
    BY <1>1, <1>4, <1>11, <2>1
  <2>3. ~(size <= Modulus - S)
    BY <1>1, <1>2, <1>5, <1>11, <2>1
  <2> QED
    BY <2>2, <2>3
<1> QED
  BY <1>2, <1>3, <1>6, <1>9, <1>10, <1>11

==============================================================================
