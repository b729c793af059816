---------------------------- MODULE ResultsProofs ----------------------------
(***************************************************************************)
(* Theorems about Results and Charts: what the readers of a results file   *)
(* show is what was collected, for every file, cut off anywhere, and what  *)
(* a chart draws stands for it.                                            *)
(***************************************************************************)
EXTENDS Results, TLAPS, NaturalsInduction, WellFoundedInduction, FiniteSetTheorems

------------------------------------------------------------------------------
(* Numbers.                                                                *)

\* A set of natural numbers that is not empty has a least element.
LEMMA Least ==
  ASSUME NEW T \in SUBSET Nat, T # {}
  PROVE  \E m \in T : \A k \in T : m <= k
<1> DEFINE R == OpToRel(<, Nat)
<1>1. IsWellFoundedOn(R, Nat)
  BY NatLessThanWellFounded, Zenon
<1>2. R = {ss \in Nat \X Nat : ss[1] < ss[2]}
  BY Zenon DEF OpToRel
<1> HIDE DEF R
<1>3. PICK m \in T : \A k \in T : ~ (<<k, m>> \in R)
  BY <1>1, WFMin, Zenon
<1>4. \A k \in T : ~(k < m)
  BY <1>2, <1>3
<1> QED
  BY <1>4

\* Induction on a set: it has 0 and with each number the next one, up to n.
LEMMA Induction ==
  ASSUME NEW n \in Nat, NEW T, 0 \in T, \A k \in 0 .. n - 1 : k \in T => k + 1 \in T
  PROVE  0 .. n \subseteq T
<1> DEFINE Missing == {k \in 0 .. n : k \notin T}
<1>1. SUFFICES ASSUME Missing # {} PROVE FALSE
  OBVIOUS
<1>2. PICK m \in Missing : \A k \in Missing : m <= k
  <2>1. Missing \in SUBSET Nat
    OBVIOUS
  <2> HIDE DEF Missing
  <2> QED
    BY <1>1, <2>1, Least
<1>3. m \in 1 .. n /\ m \notin T
  OBVIOUS
<1>4. m - 1 \in 0 .. n - 1 /\ m - 1 \in T
  BY <1>2, <1>3
<1>5. (m - 1) + 1 \in T
  BY <1>4
<1> QED
  BY <1>3, <1>5

\* An integer quotient is rounded down.
LEMMA FloorDivision ==
  ASSUME NEW a \in Int, NEW b \in Nat \ {0}
  PROVE  /\ a \div b \in Int
         /\ b * (a \div b) <= a
         /\ a < b * (a \div b) + b
BY SMT
\* An integer quotient, bounded from both sides.
LEMMA Division ==
  ASSUME NEW a \in Nat, NEW b \in Nat \ {0}
  PROVE  /\ a \div b \in Nat
         /\ b * (a \div b) <= a
         /\ a < b * (a \div b) + b
  BY SMT

\* A quotient lies below every number its numerator lies below the multiple of.
LEMMA QuotientBelow ==
  ASSUME NEW a \in Nat, NEW b \in Nat \ {0}, NEW c \in Nat, a < b * c
  PROVE  a \div b < c
<1> DEFINE q == a \div b
<1>1. q \in Nat /\ b * q <= a
  BY Division
<1> HIDE DEF q
<1>2. SUFFICES ASSUME c <= q PROVE FALSE
  BY <1>1 DEF q
<1>3. b * c <= b * q
  BY <1>1, <1>2, SMT
<1> QED
  BY <1>1, <1>3, SMT

------------------------------------------------------------------------------
(* Listed.                                                                 *)

\* list is the recursive function in Listed, up to n.
IsListing(list, f, n) ==
  list = [k \in 0 .. n |->
            IF k = 0 THEN <<>>
            ELSE IF k \in DOMAIN f THEN Append(list[k - 1], f[k]) ELSE list[k - 1]]

\* The recursion of a listing.
LEMMA ListingStep ==
  ASSUME NEW f, NEW list, NEW n \in Nat, IsListing(list, f, n)
  PROVE  /\ list[0] = <<>>
         /\ \A k \in 1 .. n :
              list[k] = IF k \in DOMAIN f THEN Append(list[k - 1], f[k]) ELSE list[k - 1]
<1> DEFINE at(k) == IF k = 0 THEN <<>>
                    ELSE IF k \in DOMAIN f THEN Append(list[k - 1], f[k]) ELSE list[k - 1]
<1>1. list = [k \in 0 .. n |-> at(k)]
  BY DEF IsListing
<1> HIDE DEF at
<1>2. \A k \in 0 .. n : list[k] = at(k)
  BY <1>1
<1> QED
  BY <1>2 DEF at

\* The function exists.
LEMMA ListingExists ==
  ASSUME NEW f, NEW n \in Nat
  PROVE  \E list : IsListing(list, f, n)
<1> DEFINE T == {m \in 0 .. n : \E list : IsListing(list, f, m)}
<1>1. 0 \in T
  <2> DEFINE start == [k \in 0 .. 0 |-> <<>>]
  <2>1. IsListing(start, f, 0)
    BY DEF IsListing
  <2> QED
    BY <2>1
<1>2. ASSUME NEW m \in 0 .. n - 1, m \in T PROVE m + 1 \in T
  <2>1. PICK list : IsListing(list, f, m)
    BY <1>2
  <2> DEFINE next == IF m + 1 \in DOMAIN f THEN Append(list[m], f[m + 1]) ELSE list[m]
  <2> DEFINE longer == [k \in 0 .. m + 1 |-> IF k = m + 1 THEN next ELSE list[k]]
  <2>2. ASSUME NEW k \in 0 .. m + 1
        PROVE  longer[k] = IF k = 0 THEN <<>>
                           ELSE IF k \in DOMAIN f THEN Append(longer[k - 1], f[k]) ELSE longer[k - 1]
    <3>1. CASE k = m + 1
      <4>1. longer[k - 1] = list[m] /\ longer[k] = next
        BY <3>1
      <4> QED
        BY <3>1, <4>1
    <3>2. CASE k = 0
      <4>1. list[0] = <<>>
        BY <2>1, ListingStep
      <4> QED
        BY <3>2, <4>1
    <3>3. CASE k \in 1 .. m
      <4>1. longer[k] = list[k] /\ longer[k - 1] = list[k - 1]
        BY <3>3
      <4>2. list[k] = IF k \in DOMAIN f THEN Append(list[k - 1], f[k]) ELSE list[k - 1]
        BY <2>1, <3>3, ListingStep
      <4> QED
        BY <3>3, <4>1, <4>2
    <3> QED
      BY <3>1, <3>2, <3>3
  <2>3. longer = [k \in 0 .. m + 1 |-> longer[k]]
    OBVIOUS
  <2> HIDE DEF longer
  <2>4. IsListing(longer, f, m + 1)
    BY <2>2, <2>3 DEF IsListing
  <2> QED
    BY <2>4
<1> HIDE DEF T
<1>3. 0 .. n \subseteq T
  BY <1>1, <1>2, Induction
<1>4. n \in T
  BY <1>3
<1> QED
  BY <1>4 DEF T

\* Listed is its last value.
LEMMA Listing ==
  ASSUME NEW f
  PROVE  \E list : IsListing(list, f, MaxRows) /\ Listed(f) = list[MaxRows]
<1>1. MaxRows \in Nat
  BY ResultsAssumption
<1> DEFINE it == CHOOSE list : IsListing(list, f, MaxRows)
<1>2. IsListing(it, f, MaxRows)
  BY <1>1, ListingExists
<1>3. Listed(f) = it[MaxRows]
  BY DEF Listed, IsListing
<1> QED
  BY <1>2, <1>3

\* Two functions that are the same up to n are listed the same up to n.
LEMMA ListingsAgree ==
  ASSUME NEW f, NEW g, NEW lf, NEW lg, NEW m \in Nat, NEW n \in 0 .. m,
         IsListing(lf, f, m), IsListing(lg, g, m),
         \A k \in 1 .. n : /\ k \in DOMAIN f <=> k \in DOMAIN g
                           /\ k \in DOMAIN f => f[k] = g[k]
  PROVE  lf[n] = lg[n]
<1> DEFINE T == {k \in 0 .. n : lf[k] = lg[k]}
<1>1. 0 \in T
  BY ListingStep
<1>2. ASSUME NEW k \in 0 .. n - 1, k \in T PROVE k + 1 \in T
  <2>1. lf[k] = lg[k] /\ k + 1 \in 1 .. n /\ k + 1 \in 1 .. m /\ (k + 1) - 1 = k
    BY <1>2
  <2>2. /\ lf[k + 1] = IF k + 1 \in DOMAIN f THEN Append(lf[k], f[k + 1]) ELSE lf[k]
        /\ lg[k + 1] = IF k + 1 \in DOMAIN g THEN Append(lg[k], g[k + 1]) ELSE lg[k]
    BY <2>1, ListingStep
  <2> QED
    BY <2>1, <2>2
<1> HIDE DEF T
<1>3. 0 .. n \subseteq T
  BY <1>1, <1>2, Induction
<1>4. n \in T
  BY <1>3
<1> QED
  BY <1>4 DEF T

\* Behind the last element of its domain a listing does not change.
LEMMA ListingEnds ==
  ASSUME NEW f, NEW list, NEW n \in Nat, NEW m \in 0 .. n, IsListing(list, f, n),
         \A k \in m + 1 .. n : k \notin DOMAIN f
  PROVE  list[n] = list[m]
<1> DEFINE T == {k \in 0 .. n : k >= m => list[k] = list[m]}
<1>1. 0 \in T
  OBVIOUS
<1>2. ASSUME NEW k \in 0 .. n - 1, k \in T PROVE k + 1 \in T
  <2>1. CASE k + 1 <= m
    BY <2>1
  <2>2. CASE k >= m
    <3>1. k + 1 \in 1 .. n /\ (k + 1) - 1 = k /\ k + 1 \notin DOMAIN f
      BY <2>2
    <3>2. list[k + 1] = list[k]
      BY <3>1, ListingStep
    <3> QED
      BY <1>2, <2>2, <3>2
  <2> QED
    BY <2>1, <2>2
<1> HIDE DEF T
<1>3. 0 .. n \subseteq T
  BY <1>1, <1>2, Induction
<1>4. n \in T
  BY <1>3
<1> QED
  BY <1>4 DEF T

\* A listing is a sequence of what it lists, and empty only if there is nothing.
LEMMA ListingType ==
  ASSUME NEW S, NEW f, NEW list, NEW n \in Nat, IsListing(list, f, n),
         \A k \in DOMAIN f : f[k] \in S
  PROVE  \A k \in 0 .. n : /\ list[k] \in Seq(S)
                           /\ \A i \in 1 .. k : i \in DOMAIN f => list[k] # <<>>
<1> DEFINE T == {k \in 0 .. n : /\ list[k] \in Seq(S)
                                /\ \A i \in 1 .. k : i \in DOMAIN f => list[k] # <<>>}
<1>1. 0 \in T
  <2>1. list[0] = <<>>
    BY ListingStep
  <2>2. list[0] \in Seq(S)
    BY <2>1
  <2>3. \A i \in 1 .. 0 : i \in DOMAIN f => list[0] # <<>>
    OBVIOUS
  <2> QED
    BY <2>2, <2>3
<1>2. ASSUME NEW k \in 0 .. n - 1, k \in T PROVE k + 1 \in T
  <2>1. /\ k + 1 \in 1 .. n /\ (k + 1) - 1 = k
        /\ list[k] \in Seq(S) /\ \A i \in 1 .. k : i \in DOMAIN f => list[k] # <<>>
    BY <1>2
  <2>2. list[k + 1] = IF k + 1 \in DOMAIN f THEN Append(list[k], f[k + 1]) ELSE list[k]
    BY <2>1, ListingStep
  <2>3. CASE k + 1 \in DOMAIN f
    <3>1. list[k + 1] \in Seq(S) /\ Len(list[k + 1]) = Len(list[k]) + 1 /\ Len(list[k]) \in Nat
      BY <2>1, <2>2, <2>3
    <3>2. list[k + 1] # <<>>
      BY <3>1
    <3> QED
      BY <3>1, <3>2
  <2>4. CASE k + 1 \notin DOMAIN f
    BY <2>1, <2>2, <2>4
  <2> QED
    BY <2>3, <2>4
<1> HIDE DEF T
<1>3. 0 .. n \subseteq T
  BY <1>1, <1>2, Induction
<1> QED
  BY <1>3 DEF T

\* Listed gives a sequence of the values, and empty only if there are none.
LEMMA ListedType ==
  ASSUME NEW S, NEW f, DOMAIN f \subseteq 1 .. MaxRows, \A k \in DOMAIN f : f[k] \in S
  PROVE  Listed(f) \in Seq(S) /\ (DOMAIN f # {} => Listed(f) # <<>>)
<1>1. MaxRows \in Nat
  BY ResultsAssumption
<1>2. PICK list : IsListing(list, f, MaxRows) /\ Listed(f) = list[MaxRows]
  BY Listing
<1>3. MaxRows \in 0 .. MaxRows
  BY <1>1
<1> QED
  BY <1>1, <1>2, <1>3, ListingType

\* The value at the greatest number is listed last.
LEMMA ListedLast ==
  ASSUME NEW f, NEW g, NEW m \in 1 .. MaxRows, DOMAIN f \subseteq 1 .. m,
         m \in DOMAIN f, DOMAIN g = DOMAIN f \ {m}, \A k \in DOMAIN g : g[k] = f[k]
  PROVE  Listed(f) = Append(Listed(g), f[m])
<1>0. MaxRows \in Nat
  BY ResultsAssumption
<1>1. MaxRows \in Nat /\ m - 1 \in 0 .. MaxRows /\ m \in 0 .. MaxRows
  BY <1>0
<1>2. PICK lf : IsListing(lf, f, MaxRows) /\ Listed(f) = lf[MaxRows]
  BY Listing
<1>3. PICK lg : IsListing(lg, g, MaxRows) /\ Listed(g) = lg[MaxRows]
  BY Listing
<1>4. lf[MaxRows] = lf[m]
  <2>1. \A k \in m + 1 .. MaxRows : k \notin DOMAIN f
    OBVIOUS
  <2> QED
    BY <1>1, <1>2, <2>1, ListingEnds
<1>5. lg[MaxRows] = lg[m - 1]
  <2>1. \A k \in (m - 1) + 1 .. MaxRows : k \notin DOMAIN g
    OBVIOUS
  <2> QED
    BY <1>1, <1>3, <2>1, ListingEnds
<1>6. lf[m - 1] = lg[m - 1]
  <2>1. \A k \in 1 .. m - 1 : /\ k \in DOMAIN f <=> k \in DOMAIN g
                              /\ k \in DOMAIN f => f[k] = g[k]
    OBVIOUS
  <2> QED
    BY <1>1, <1>2, <1>3, <2>1, ListingsAgree
<1>7. lf[m] = Append(lf[m - 1], f[m])
  BY <1>1, <1>2, ListingStep
<1> QED
  BY <1>2, <1>3, <1>4, <1>5, <1>6, <1>7

------------------------------------------------------------------------------
(* The inductive invariant.                                                *)

\* The file, what was seen of it, and how far the tool is.
FileInv ==
  /\ rows \in Seq(Collected) /\ Len(rows) <= MaxRows
  /\ tail \in Tails
  /\ tool \in {"none", "analysis", "visualizer", "printer"}
  /\ step \in {"none", "report", "draw", "export", "exited"}
  /\ exit \in {"none", "success", "failure", "crash"}
  /\ step = "exited" <=> exit # "none"
  /\ seen.count \in 0 .. Len(rows) /\ seen.tail \in Tails
  /\ DOMAIN advice \subseteq bottlenecks
  /\ picture.kind \in {"none"} \cup ChartTypes

IdleInv ==
  tool = "none" =>
    /\ step = "none" /\ bottlenecks = {} /\ advice = Nothing
    /\ metrics = Nothing /\ units = Nothing /\ summary = Nothing /\ exported = Nothing

\* nvmeof_analysis has what follows from the lines it saw, or it found none.
AnalysisInv ==
  tool = "analysis" =>
    LET lines == parseBenchmarkResults(seen)
    IN /\ units = Nothing /\ exported = Nothing
       /\ \/ /\ DOMAIN lines = {} /\ step = "exited"
             /\ metrics = Nothing /\ summary = Nothing /\ bottlenecks = {}
          \/ /\ metrics = calculateMetrics(lines) /\ summary = MinMax(metrics)
             /\ bottlenecks = analyzeBottlenecks(lines)

\* So does nvmeof_visualizer, with the summary of the metrics it was asked for.
VisualizerInv ==
  tool = "visualizer" =>
    LET lines == dataLines(seen)
    IN /\ bottlenecks = {}
       /\ \/ /\ step = "exited"
             /\ metrics = Nothing /\ units = Nothing /\ summary = Nothing /\ exported = Nothing
          \/ /\ metrics = Grouped(lines)
             /\ units = [l \in DOMAIN metrics |-> UnitOf(lines, l)]
             /\ DOMAIN summary \subseteq DOMAIN metrics
             /\ \A l \in DOMAIN summary : summary[l] = <<Lowest(metrics[l]), Highest(metrics[l])>>
             /\ exported \in {Nothing, MinMax(Without(metrics, Hidden))}

PrinterInv ==
  tool = "printer" =>
    /\ metrics = Grouped(printedLines(seen)) /\ bottlenecks = {}
    /\ units = Nothing /\ summary = Nothing /\ exported = Nothing

IInv == FileInv /\ IdleInv /\ AnalysisInv /\ VisualizerInv /\ PrinterInv

------------------------------------------------------------------------------
(* Its steps.                                                              *)

\* Nothing is a function on no metric.
LEMMA NothingEmpty == DOMAIN Nothing = {}
BY DEF Nothing

\* It holds before any tool is run.
LEMMA InitIInv == Init => IInv
<1> SUFFICES ASSUME Init PROVE IInv
  OBVIOUS
<1>0. MaxRows \in Nat
  BY ResultsAssumption
<1>1. rows = <<>> /\ <<>> \in Seq(Collected) /\ Len(<<>>) = 0 /\ MaxRows \in Nat
  BY <1>0 DEF Init
<1>2. FileInv
  <2>1. rows \in Seq(Collected) /\ Len(rows) <= MaxRows /\ seen.count \in 0 .. Len(rows)
    BY <1>1 DEF Init
  <2> QED
    BY <2>1, NothingEmpty DEF Init, FileInv, Tails
<1> QED
  BY <1>2 DEF Init, IInv, IdleInv, AnalysisInv, VisualizerInv, PrinterInv

\* A tool that has read goes on with the same lines, whatever is written then.
LEMMA LinesKept ==
  ASSUME seen' = seen, \A i \in 1 .. seen.count : rows'[i] = rows[i]
  PROVE  /\ parseBenchmarkResults(seen)' = parseBenchmarkResults(seen)
         /\ dataLines(seen)' = dataLines(seen)
         /\ printedLines(seen)' = printedLines(seen)
<1>1. Lines(seen)' = Lines(seen)
  BY DEF Lines, LineOf
<1> QED
  BY <1>1 DEF parseBenchmarkResults, dataLines, printedLines

\* What a tool reads is what it has seen.
LEMMA LinesRead ==
  ASSUME seen' = Now, rows' = rows
  PROVE  /\ parseBenchmarkResults(seen)' = parseBenchmarkResults(Now)
         /\ dataLines(seen)' = dataLines(Now)
         /\ printedLines(seen)' = printedLines(Now)
<1>1. Lines(seen)' = Lines(Now)
  BY DEF Lines, LineOf
<1> QED
  BY <1>1 DEF parseBenchmarkResults, dataLines, printedLines

\* A step that leaves the tools alone.
LEMMA ToolsUntouched ==
  ASSUME IInv, FileInv', \A i \in 1 .. seen.count : rows'[i] = rows[i],
         UNCHANGED <<tool, step, seen, metrics, units, summary, exported, bottlenecks,
                     advice, picture, exit>>
  PROVE  IInv'
<1>1. /\ parseBenchmarkResults(seen)' = parseBenchmarkResults(seen)
      /\ dataLines(seen)' = dataLines(seen)
      /\ printedLines(seen)' = printedLines(seen)
  BY LinesKept
<1>2. IdleInv'
  BY DEF IInv, IdleInv
<1>3. AnalysisInv'
  BY <1>1 DEF IInv, AnalysisInv
<1>4. VisualizerInv'
  BY <1>1 DEF IInv, VisualizerInv
<1>5. PrinterInv'
  BY <1>1 DEF IInv, PrinterInv
<1> QED
  BY <1>2, <1>3, <1>4, <1>5 DEF IInv

\* Each action keeps it. More of the file is written behind what was seen.
LEMMA WriteStep ==
  ASSUME IInv, Write
  PROVE  IInv'
<1>1. /\ rows \in Seq(Collected) /\ Len(rows) <= MaxRows /\ seen.count \in 0 .. Len(rows)
      /\ MaxRows \in Nat
  BY ResultsAssumption DEF IInv, FileInv
<1>2. /\ rows' \in Seq(Collected) /\ Len(rows') <= MaxRows /\ Len(rows) <= Len(rows')
      /\ \A i \in 1 .. Len(rows) : rows'[i] = rows[i]
      /\ tail' \in Tails
  <2>1. CASE /\ tail = "whole" /\ Len(rows) < MaxRows
             /\ \E r \in Collected : rows' = Append(rows, r)
             /\ tail' \in Tails
    <3>1. PICK r \in Collected : rows' = Append(rows, r)
      BY <2>1
    <3>2. /\ rows' \in Seq(Collected) /\ Len(rows') = Len(rows) + 1
          /\ \A i \in 1 .. Len(rows) : rows'[i] = rows[i]
      BY <1>1, <3>1
    <3> QED
      BY <1>1, <2>1, <3>2
  <2>2. CASE tail # "whole" /\ tail' \in Tails \ {tail, "value"} /\ UNCHANGED rows
    BY <1>1, <2>2
  <2> QED
    BY <2>1, <2>2 DEF Write
<1>3. UNCHANGED <<tool, step, seen, metrics, units, summary, exported, bottlenecks,
                  advice, picture, exit>>
  BY DEF Write
<1>4. FileInv'
  <2>1. seen.count \in 0 .. Len(rows')
    BY <1>1, <1>2
  <2> QED
    BY <1>2, <1>3, <2>1 DEF IInv, FileInv
<1>5. \A i \in 1 .. seen.count : rows'[i] = rows[i]
  BY <1>1, <1>2
<1> QED
  BY <1>3, <1>4, <1>5, ToolsUntouched

\* A tool that starts has not done anything, and reads the whole file.
LEMMA Start ==
  ASSUME IInv, NEW t, Begin(t), rows' = rows
  PROVE  /\ tool = "none" /\ step = "none" /\ exit = "none"
         /\ bottlenecks = {} /\ advice = Nothing
         /\ metrics = Nothing /\ units = Nothing /\ summary = Nothing /\ exported = Nothing
         /\ tool' = t /\ seen' = Now
         /\ seen'.count \in 0 .. Len(rows') /\ seen'.tail \in Tails
         /\ parseBenchmarkResults(seen)' = parseBenchmarkResults(Now)
         /\ dataLines(seen)' = dataLines(Now)
         /\ printedLines(seen)' = printedLines(Now)
<1>1. tool = "none" /\ tool' = t /\ seen' = Now
  BY DEF Begin
<1>2. seen'.count \in 0 .. Len(rows') /\ seen'.tail \in Tails
  <2>1. Len(rows) \in Nat /\ tail \in Tails
    BY DEF IInv, FileInv
  <2> QED
    BY <1>1, <2>1 DEF Now
<1>3. exit = "none"
  BY <1>1 DEF IInv, IdleInv, FileInv
<1> QED
  BY <1>1, <1>2, <1>3, LinesRead DEF IInv, IdleInv

\* nvmeof_analysis reads the file.
LEMMA AnalyzeStep ==
  ASSUME IInv, Analyze
  PROVE  IInv'
<1> DEFINE lines == parseBenchmarkResults(Now)
<1>1. /\ Begin("analysis")
      /\ UNCHANGED <<rows, tail, units, exported, advice, picture>>
  BY DEF Analyze
<1>2. /\ step = "none" /\ exit = "none" /\ bottlenecks = {} /\ advice = Nothing
      /\ metrics = Nothing /\ units = Nothing /\ summary = Nothing /\ exported = Nothing
      /\ tool' = "analysis"
      /\ seen'.count \in 0 .. Len(rows') /\ seen'.tail \in Tails
      /\ parseBenchmarkResults(seen)' = lines
  BY <1>1, Start
<1>3. \/ /\ DOMAIN lines = {} /\ step' = "exited" /\ exit' = "failure"
         /\ UNCHANGED <<metrics, summary, bottlenecks>>
      \/ /\ metrics' = calculateMetrics(lines) /\ summary' = MinMax(metrics')
         /\ bottlenecks' = analyzeBottlenecks(lines)
         /\ step' = "report" /\ exit' = exit
  BY DEF Analyze, Exits
<1> HIDE DEF lines
<1>4. FileInv'
  <2>1. /\ step' \in {"none", "report", "draw", "export", "exited"}
        /\ exit' \in {"none", "success", "failure", "crash"}
        /\ step' = "exited" <=> exit' # "none"
    BY <1>2, <1>3
  <2>2. DOMAIN advice' = {}
    BY <1>1, <1>2 DEF Nothing
  <2> QED
    BY <1>1, <1>2, <2>1, <2>2 DEF IInv, FileInv
<1>5. AnalysisInv'
  BY <1>1, <1>2, <1>3 DEF AnalysisInv
<1> QED
  BY <1>2, <1>4, <1>5 DEF IInv, IdleInv, VisualizerInv, PrinterInv

\* It writes its recommendations.
LEMMA RecommendStep ==
  ASSUME IInv, Recommend
  PROVE  IInv'
<1>1. /\ tool = "analysis" /\ step' = "exited" /\ exit' = "success"
      /\ UNCHANGED <<rows, tail, tool, seen, metrics, units, summary, exported,
                     bottlenecks, picture>>
  BY DEF Recommend, Exits
<1>2. DOMAIN advice' \subseteq bottlenecks
  <2>1. \/ advice' = Nothing
        \/ advice' = [r \in bottlenecks |-> ""]
        \/ advice' = [r \in bottlenecks |-> Base[r]]
    BY DEF Recommend
  <2> QED
    BY <2>1, NothingEmpty
<1>3. FileInv'
  BY <1>1, <1>2 DEF IInv, FileInv
<1>4. parseBenchmarkResults(seen)' = parseBenchmarkResults(seen)
  BY <1>1, LinesKept
<1>5. AnalysisInv'
  BY <1>1, <1>4 DEF IInv, AnalysisInv
<1> QED
  BY <1>1, <1>3, <1>5 DEF IInv, IdleInv, VisualizerInv, PrinterInv

\* nvmeof_visualizer reads the file.
LEMMA ParseStep ==
  ASSUME IInv, parseBenchmarkData
  PROVE  IInv'
<1> DEFINE lines == dataLines(Now)
<1>1. /\ Begin("visualizer")
      /\ UNCHANGED <<rows, tail, summary, exported, bottlenecks, advice, picture>>
  BY DEF parseBenchmarkData
<1>2. /\ step = "none" /\ exit = "none" /\ bottlenecks = {} /\ advice = Nothing
      /\ metrics = Nothing /\ units = Nothing /\ summary = Nothing /\ exported = Nothing
      /\ tool' = "visualizer"
      /\ seen'.count \in 0 .. Len(rows') /\ seen'.tail \in Tails
      /\ dataLines(seen)' = lines
  BY <1>1, Start
<1>3. \/ /\ step' = "exited" /\ exit' = "failure" /\ UNCHANGED <<metrics, units>>
      \/ /\ metrics' = Grouped(lines)
         /\ units' = [l \in DOMAIN metrics' |-> UnitOf(lines, l)]
         /\ step' = "draw" /\ exit' = exit
  BY DEF parseBenchmarkData, Exits
<1> HIDE DEF lines
<1>4. FileInv'
  <2>1. /\ step' \in {"none", "report", "draw", "export", "exited"}
        /\ exit' \in {"none", "success", "failure", "crash"}
        /\ step' = "exited" <=> exit' # "none"
    BY <1>2, <1>3
  <2>2. DOMAIN advice' = {}
    BY <1>1, <1>2 DEF Nothing
  <2> QED
    BY <1>1, <1>2, <2>1, <2>2 DEF IInv, FileInv
<1>5. DOMAIN summary' = {} /\ summary' = Nothing /\ exported' = Nothing /\ bottlenecks' = {}
  BY <1>1, <1>2 DEF Nothing
<1>6. VisualizerInv'
  BY <1>1, <1>2, <1>3, <1>5 DEF VisualizerInv
<1> QED
  BY <1>2, <1>4, <1>6 DEF IInv, IdleInv, AnalysisInv, PrinterInv

\* It draws a chart with a summary, gives up, or crashes.
LEMMA DrawStep ==
  ASSUME IInv, visualizeBenchmarkData
  PROVE  IInv'
<1>1. /\ tool = "visualizer" /\ step = "draw" /\ exit = "none"
      /\ UNCHANGED <<rows, tail, tool, seen, metrics, units, exported, bottlenecks, advice>>
  BY DEF visualizeBenchmarkData, IInv, FileInv
<1>2. PICK selected \in SUBSET DOMAIN metrics, kind \in ChartTypes :
        /\ \/ step' = "export" /\ exit' = "none"
           \/ step' = "exited" /\ exit' \in {"crash", "failure"}
        /\ summary' \in {summary, MinMax([l \in selected |-> metrics[l]])}
        /\ picture'.kind \in {kind, picture.kind}
  <2>1. PICK selected \in SUBSET DOMAIN metrics, kind \in ChartTypes, terminal \in Terminals :
          LET chosen == [l \in selected |-> metrics[l]]
          IN \/ step' = "export" /\ UNCHANGED <<summary, picture, exit>>
             \/ /\ \E first \in selected : picture' = Drawn(kind, chosen, terminal, first)
                /\ summary' = MinMax(chosen)
                /\ step' = "export" /\ UNCHANGED exit
             \/ Exits("crash") /\ UNCHANGED <<summary, picture>>
             \/ Exits("failure") /\ UNCHANGED <<summary, picture>>
    BY DEF visualizeBenchmarkData, Selections
  <2> DEFINE chosen == [l \in selected |-> metrics[l]]
  <2>2. \A first : Drawn(kind, chosen, terminal, first).kind = kind
    BY DEF Drawn
  <2> HIDE DEF chosen
  <2>3. /\ \/ step' = "export" /\ exit' = "none"
           \/ step' = "exited" /\ exit' \in {"crash", "failure"}
        /\ summary' \in {summary, MinMax(chosen)}
        /\ picture'.kind \in {kind, picture.kind}
    BY <1>1, <2>1, <2>2 DEF Exits, chosen
  <2> QED
    BY <2>3 DEF chosen
<1>3. FileInv'
  BY <1>1, <1>2 DEF IInv, FileInv
<1>4. dataLines(seen)' = dataLines(seen)
  BY <1>1, LinesKept
<1>5. /\ DOMAIN summary' \subseteq DOMAIN metrics
      /\ \A l \in DOMAIN summary' : summary'[l] = <<Lowest(metrics[l]), Highest(metrics[l])>>
  <2>1. CASE summary' = summary
    BY <1>1, <2>1 DEF IInv, VisualizerInv
  <2>2. CASE summary' = MinMax([l \in selected |-> metrics[l]])
    <3>1. summary' = [l \in selected |-> <<Lowest(metrics[l]), Highest(metrics[l])>>]
      BY <2>2 DEF MinMax
    <3> QED
      BY <3>1
  <2> QED
    BY <1>2, <2>1, <2>2
<1>6. VisualizerInv'
  BY <1>1, <1>4, <1>5 DEF IInv, VisualizerInv
<1> QED
  BY <1>1, <1>3, <1>6 DEF IInv, IdleInv, AnalysisInv, PrinterInv

\* It exports what it read.
LEMMA ExportStep ==
  ASSUME IInv, exportVisualization
  PROVE  IInv'
<1>1. /\ tool = "visualizer" /\ step = "export" /\ step' = "exited" /\ exit' = "success"
      /\ exported' \in {Nothing, MinMax(Without(metrics, Hidden))}
      /\ UNCHANGED <<rows, tail, tool, seen, metrics, units, summary, bottlenecks, advice,
                     picture>>
  BY DEF exportVisualization, Exits
<1>2. FileInv'
  BY <1>1 DEF IInv, FileInv
<1>3. dataLines(seen)' = dataLines(seen)
  BY <1>1, LinesKept
<1>4. VisualizerInv'
  BY <1>1, <1>3 DEF IInv, VisualizerInv
<1> QED
  BY <1>1, <1>2, <1>4 DEF IInv, IdleInv, AnalysisInv, PrinterInv

\* ResultVisualizer prints the file.
LEMMA PrintStep ==
  ASSUME IInv, Visualize
  PROVE  IInv'
<1>1. /\ Begin("printer") /\ metrics' = Grouped(printedLines(Now))
      /\ step' = "exited" /\ exit' = "success"
      /\ UNCHANGED <<rows, tail, units, summary, exported, bottlenecks, advice, picture>>
  BY DEF Visualize, Exits
<1>2. /\ bottlenecks = {} /\ advice = Nothing
      /\ units = Nothing /\ summary = Nothing /\ exported = Nothing
      /\ tool' = "printer"
      /\ seen'.count \in 0 .. Len(rows') /\ seen'.tail \in Tails
      /\ printedLines(seen)' = printedLines(Now)
  BY <1>1, Start
<1>3. FileInv'
  <2>1. DOMAIN advice' = {}
    BY <1>1, <1>2 DEF Nothing
  <2> QED
    BY <1>1, <1>2, <2>1 DEF IInv, FileInv
<1>4. PrinterInv'
  BY <1>1, <1>2 DEF PrinterInv
<1> QED
  BY <1>2, <1>3, <1>4 DEF IInv, IdleInv, AnalysisInv, VisualizerInv

\* So every step keeps it.
LEMMA StepIInv == IInv /\ [Next]_vars => IInv'
<1> SUFFICES ASSUME IInv, [Next]_vars PROVE IInv'
  OBVIOUS
<1>1. CASE UNCHANGED vars
  <2>1. FileInv'
    BY <1>1 DEF vars, IInv, FileInv
  <2> QED
    BY <1>1, <2>1, ToolsUntouched DEF vars
<1> QED
  BY <1>1, WriteStep, AnalyzeStep, RecommendStep, ParseStep, DrawStep, ExportStep, PrintStep
  DEF Next

\* What the file holds and what each tool made of it, at every step.
THEOREM Invariance == Spec => []IInv
BY InitIInv, StepIInv, PTL DEF Spec

------------------------------------------------------------------------------
(* Lines and values.                                                       *)

\* The parameters, each by itself.
LEMMA Parameters ==
  /\ MaxRows \in Nat /\ Grain \in Nat \ {0} /\ NotANumber \notin Int
  /\ \A r \in Collected : r.label \in Labels /\ r.value \in Number
  /\ \A r \in Collected : r.label \in {CPUUsage, MemoryUsage} =>
       r.value \in Int /\ r.units # NoUnits
  /\ {CPUUsage, MemoryUsage} \cap DOMAIN Split = {}
  /\ \A l \in DOMAIN Split : /\ Split[l].label \in Labels \ DOMAIN Split
                             /\ Split[l].value \in Number
  /\ \A r \in {"cpu", "memory"} : Limits[r] \in Nat \ {0} /\ Limits[r] % Grain = 0
<1>1. Grain \in Nat \ {0}
  <2>1. Grain \in Nat /\ Grain % 2 = 1
    BY ResultsAssumption
  <2> QED
    BY <2>1
<1>2. \A r \in Collected : r.label \in Labels /\ r.value \in Number
  BY ResultsAssumption DEF Labels
<1>3. \A l \in DOMAIN Split : Split[l].label \in Labels \ DOMAIN Split /\ Split[l].value \in Number
  BY ResultsAssumption DEF Labels
<1> QED
  BY <1>1, <1>2, <1>3, ResultsAssumption DEF Resources

\* What std::stod refuses is no number.
LEMMA NoNumber ==
  ASSUME NEW v \in Int
  PROVE  v # NotANumber
BY Parameters, Zenon

\* The parameters that are numbers.
LEMMA Naturals == MaxRows \in Nat /\ Grain \in Nat \ {0}
BY Parameters, Zenon

\* A printed value is a number, at most half a grain higher, and not below any
\* multiple of the grain the value itself is not below.
LEMMA PrintedValue ==
  ASSUME NEW v \in Int
  PROVE  /\ Printed(v) \in Int
         /\ Printed(v) <= v + Grain \div 2
         /\ \A x \in Nat : x % Grain = 0 /\ x <= v => x <= Printed(v)
<1> DEFINE half == Grain \div 2
<1> DEFINE q == (v + half) \div Grain
<1>1. Grain \in Nat \ {0} /\ v # NotANumber
  BY Naturals, NoNumber
<1>2. half \in Nat
  BY <1>1, Division
<1>3. v + half \in Int
  BY <1>2
<1>4. Printed(v) = q * Grain
  BY <1>1 DEF Printed
<1> HIDE DEF half
<1>5. q \in Int /\ Grain * q <= v + half /\ v + half < Grain * q + Grain
  BY <1>1, <1>3, FloorDivision
<1> HIDE DEF q
<1>6. q * Grain = Grain * q /\ q * Grain \in Int
  BY <1>1, <1>5, SMT
<1>7. ASSUME NEW x \in Nat, x % Grain = 0, x <= v PROVE x <= Printed(v)
  <2> DEFINE p == x \div Grain
  <2>1. x = Grain * p /\ p \in Nat
    BY <1>1, <1>7, Z3
  <2> HIDE DEF p
  <2>2. SUFFICES ASSUME q < p PROVE FALSE
    <3>1. p <= q => Grain * p <= Grain * q
      BY <1>1, <1>5, <2>1, SMT
    <3> QED
      BY <1>4, <1>5, <1>6, <2>1, <3>1
  <2>3. Grain * (q + 1) <= Grain * p /\ Grain * (q + 1) = Grain * q + Grain
    BY <1>1, <1>5, <2>1, <2>2, SMT
  <2> DEFINE a == Grain * q
  <2> DEFINE b == Grain * p
  <2>4. a \in Int /\ b \in Int
    BY <1>1, <1>5, <2>1, SMT
  <2>5. v + half < a + Grain /\ a + Grain <= b /\ b <= v
    BY <1>5, <1>7, <2>1, <2>3
  <2> HIDE DEF a, b
  <2> QED
    BY <1>1, <1>2, <2>4, <2>5
<1>8. Printed(v) \in Int /\ Printed(v) <= v + half
  BY <1>4, <1>5, <1>6
<1> QED
  BY <1>7, <1>8 DEF half

\* How much of the file was seen.
LEMMA Counts ==
  ASSUME FileInv
  PROVE  seen.count \in Nat /\ seen.tail \in Tails
<1>1. Len(rows) \in Nat /\ seen.count \in 0 .. Len(rows) /\ seen.tail \in Tails
  BY DEF FileInv
<1> QED
  BY <1>1

\* What a line says of a row whose label has no comma.
LEMMA PlainLine ==
  ASSUME FileInv, NEW i \in 1 .. seen.count, rows[i].label \notin DOMAIN Split
  PROVE  /\ LineOf(seen, i).label = rows[i].label
         /\ LineOf(seen, i).value \in Number
         /\ Numeric(LineOf(seen, i)) <=> rows[i].value # NotANumber
         /\ HasFourFields(LineOf(seen, i)) <=>
              rows[i].units # NoUnits /\ ~(i = seen.count /\ seen.tail = "value")
         /\ HasFourFields(LineOf(seen, i)) => LineOf(seen, i).value = Printed(rows[i].value)
         /\ LineOf(seen, i).units = rows[i].units \/ (i = seen.count /\ seen.tail # "whole")
<1> DEFINE r == rows[i]
<1> DEFINE end == IF i < seen.count THEN "whole" ELSE seen.tail
<1> DEFINE line == LineOf(seen, i)
<1>0. Len(rows) \in Nat
  BY DEF FileInv
<1>1. r \in Collected
  <2>1. i \in 1 .. Len(rows)
    BY <1>0 DEF FileInv
  <2> QED
    BY <2>1 DEF FileInv
<1>2. /\ line.label = r.label
      /\ end = "value" => line.value = CutOff(Printed(r.value))
      /\ end # "value" => line.value = Printed(r.value)
      /\ line.units = r.units \/ end # "whole"
      /\ end = "value" \/ r.units = NoUnits => line.fields = 3
      /\ end # "value" /\ r.units # NoUnits => line.fields = 4
  BY DEF LineOf
<1>3. end = "value" <=> i = seen.count /\ seen.tail = "value"
  BY <1>0 DEF FileInv
<1>4. end # "whole" => i = seen.count /\ seen.tail # "whole"
  BY <1>0 DEF FileInv
<1> HIDE DEF r, end, line
<1>5. HasFourFields(line) <=> r.units # NoUnits /\ ~(i = seen.count /\ seen.tail = "value")
  BY <1>2, <1>3 DEF HasFourFields
<1>6. HasFourFields(line) => line.value = Printed(r.value)
  BY <1>2, <1>3, <1>5
<1>7. line.units = r.units \/ (i = seen.count /\ seen.tail # "whole")
  BY <1>2, <1>4
<1>8. line.value \in Number /\ (Numeric(line) <=> r.value # NotANumber)
  <2>1. CASE r.value = NotANumber
    <3>1. Printed(r.value) = NotANumber /\ CutOff(Printed(r.value)) = NotANumber
      BY <2>1 DEF Printed, CutOff
    <3> QED
      BY <1>2, <2>1, <3>1 DEF Number, Numeric
  <2>2. CASE r.value # NotANumber
    <3>1. r.value \in Int
      BY <1>1, <2>2, Parameters DEF Number
    <3>2. Printed(r.value) \in Int
      BY <3>1, PrintedValue
    <3>3. CutOff(Printed(r.value)) \in Int
      <4>1. CutOff(Printed(r.value)) = Printed(r.value) \div 10
        BY <3>2, NoNumber DEF CutOff
      <4> QED
        BY <3>2, <4>1, FloorDivision
    <3>4. line.value \in Int
      BY <1>2, <3>2, <3>3
    <3>5. line.value # NotANumber
      BY <3>4, NoNumber
    <3> QED
      BY <2>2, <3>4, <3>5 DEF Number, Numeric
  <2> QED
    BY <2>1, <2>2
<1> QED
  BY <1>2, <1>5, <1>6, <1>7, <1>8 DEF r, line

\* And of one whose label has one.
LEMMA CommaLine ==
  ASSUME NEW i \in 1 .. seen.count, rows[i].label \in DOMAIN Split
  PROVE  /\ LineOf(seen, i).label = Split[rows[i].label].label
         /\ LineOf(seen, i).value \in Number
<1>1. /\ LineOf(seen, i).label = Split[rows[i].label].label
      /\ LineOf(seen, i).value = Split[rows[i].label].value
  BY DEF LineOf
<1> QED
  BY <1>1, Parameters

\* What a line says of the row it was written from.
LEMMA LineFacts ==
  ASSUME FileInv, NEW i \in 1 .. seen.count
  PROVE  /\ i \in 1 .. MaxRows /\ rows[i] \in Collected
         /\ LineOf(seen, i).label \in Labels \ DOMAIN Split
         /\ LineOf(seen, i).value \in Number
<1>1. MaxRows \in Nat /\ Len(rows) \in Nat
  BY Naturals DEF FileInv
<1>2. i \in 1 .. Len(rows) /\ i \in 1 .. MaxRows
  BY <1>1 DEF FileInv
<1>3. rows[i] \in Collected
  BY <1>2 DEF FileInv
<1>4. CASE rows[i].label \in DOMAIN Split
  BY <1>2, <1>3, <1>4, CommaLine, Parameters
<1>5. CASE rows[i].label \notin DOMAIN Split
  BY <1>2, <1>3, <1>5, PlainLine, Parameters
<1> QED
  BY <1>4, <1>5

\* A part of the lines of the file, as every reader takes one.
LinesSeen(lines) ==
  /\ DOMAIN lines \subseteq 1 .. seen.count
  /\ \A i \in DOMAIN lines : lines[i] = LineOf(seen, i)

\* What each of the readers takes.
LEMMA Accepted ==
  ASSUME FileInv
  PROVE  /\ LinesSeen(parseBenchmarkResults(seen))
         /\ LinesSeen(dataLines(seen)) /\ LinesSeen(printedLines(seen))
         /\ \A i \in 1 .. seen.count :
              LET line == LineOf(seen, i)
              IN /\ i \in DOMAIN parseBenchmarkResults(seen) <=> HasFourFields(line) /\ Numeric(line)
                 /\ i \in DOMAIN dataLines(seen) <=>
                      HasFourFields(line) /\ Numeric(line) /\ line.label \notin Markers
                 /\ i \in DOMAIN printedLines(seen) <=> HasFourFields(line)
<1>1. /\ DOMAIN Lines(seen) = 1 .. seen.count
      /\ \A i \in 1 .. seen.count : Lines(seen)[i] = LineOf(seen, i)
  BY DEF Lines
<1>2. ASSUME NEW part, part \subseteq DOMAIN Lines(seen) PROVE LinesSeen(Restrict(Lines(seen), part))
  BY <1>1, <1>2 DEF LinesSeen, Restrict
<1>3. \A part : DOMAIN Restrict(Lines(seen), part) = part
  BY DEF Restrict
<1> QED
  BY <1>1, <1>2, <1>3 DEF parseBenchmarkResults, dataLines, printedLines

\* The metrics a reader makes of its lines: their labels are collected ones,
\* their values are numbers, and there is one at least.
LEMMA GroupedFacts ==
  ASSUME FileInv, NEW lines, LinesSeen(lines), NEW l \in DOMAIN Grouped(lines)
  PROVE  /\ l \in Labels \ DOMAIN Split
         /\ Grouped(lines)[l] = ValuesOf(lines, {l})
         /\ With(lines, {l}) # {} /\ With(lines, {l}) \subseteq 1 .. seen.count
         /\ Grouped(lines)[l] # <<>>
         /\ Grouped(lines)[l] \in Seq(Number)
         /\ (\A i \in DOMAIN lines : Numeric(lines[i])) => Grouped(lines)[l] \in Seq(Int)
<1> DEFINE f == [i \in With(lines, {l}) |-> lines[i].value]
<1>1. PICK i \in DOMAIN lines : lines[i].label = l
  BY DEF Grouped
<1>2. Grouped(lines)[l] = ValuesOf(lines, {l})
  BY DEF Grouped
<1>3. i \in With(lines, {l}) /\ With(lines, {l}) \subseteq 1 .. seen.count
  BY <1>1 DEF With, LinesSeen
<1>4. l \in Labels \ DOMAIN Split
  BY <1>1, <1>3, LineFacts DEF LinesSeen
<1>5. DOMAIN f \subseteq 1 .. MaxRows /\ DOMAIN f # {}
  BY <1>3, LineFacts
<1>6. \A k \in DOMAIN f : f[k] \in Number /\ (Numeric(lines[k]) => f[k] \in Int)
  <2> SUFFICES ASSUME NEW k \in With(lines, {l})
               PROVE  lines[k].value \in Number /\ (Numeric(lines[k]) => lines[k].value \in Int)
    OBVIOUS
  <2>1. k \in 1 .. seen.count /\ lines[k] = LineOf(seen, k)
    BY <1>3 DEF With, LinesSeen
  <2>2. lines[k].value \in Number
    BY <2>1, LineFacts
  <2> QED
    BY <2>2 DEF Number, Numeric
<1>7. Grouped(lines)[l] = Listed(f)
  BY <1>2 DEF ValuesOf
<1>8. (\A k \in DOMAIN lines : Numeric(lines[k])) => \A k \in DOMAIN f : f[k] \in Int
  BY <1>6 DEF With
<1> HIDE DEF f
<1>9. Listed(f) \in Seq(Number) /\ Listed(f) # <<>>
  BY <1>5, <1>6, ListedType
<1>10. (\A k \in DOMAIN lines : Numeric(lines[k])) => Listed(f) \in Seq(Int)
  BY <1>5, <1>8, ListedType
<1> QED
  BY <1>2, <1>3, <1>4, <1>7, <1>9, <1>10

\* Finitely many numbers have a least and a greatest.
LEMMA Extremes ==
  ASSUME NEW n \in Nat \ {0}, NEW f, \A k \in 1 .. n : f[k] \in Int
  PROVE  \E a, b \in 1 .. n : \A k \in 1 .. n : f[a] <= f[k] /\ f[k] <= f[b]
<1> DEFINE T == {m \in 0 .. n : m > 0 =>
                   \E a, b \in 1 .. m : \A k \in 1 .. m : f[a] <= f[k] /\ f[k] <= f[b]}
<1>1. 0 \in T
  OBVIOUS
<1>2. ASSUME NEW m \in 0 .. n - 1, m \in T PROVE m + 1 \in T
  <2>1. CASE m = 0
    <3>1. \A k \in 1 .. 1 : f[1] <= f[k] /\ f[k] <= f[1]
      OBVIOUS
    <3> QED
      BY <2>1, <3>1
  <2>2. CASE m > 0
    <3>1. PICK a \in 1 .. m, b \in 1 .. m : \A k \in 1 .. m : f[a] <= f[k] /\ f[k] <= f[b]
      BY <1>2, <2>2
    <3>2. f[a] \in Int /\ f[b] \in Int /\ f[m + 1] \in Int /\ m + 1 \in 1 .. n
      BY <2>2
    <3> DEFINE lo == IF f[m + 1] < f[a] THEN m + 1 ELSE a
    <3> DEFINE hi == IF f[m + 1] > f[b] THEN m + 1 ELSE b
    <3>3. lo \in 1 .. m + 1 /\ hi \in 1 .. m + 1
      BY <2>2
    <3>4. ASSUME NEW k \in 1 .. m + 1 PROVE f[lo] <= f[k] /\ f[k] <= f[hi]
      <4>1. CASE k = m + 1
        BY <3>2, <4>1
      <4>2. CASE k \in 1 .. m
        <5>1. f[a] <= f[k] /\ f[k] <= f[b] /\ f[k] \in Int
          BY <3>1, <4>2
        <5> QED
          BY <3>2, <5>1
      <4> QED
        BY <4>1, <4>2
    <3> HIDE DEF lo, hi
    <3>5. \E c, d \in 1 .. m + 1 : \A k \in 1 .. m + 1 : f[c] <= f[k] /\ f[k] <= f[d]
      BY <3>3, <3>4
    <3> QED
      BY <3>5
  <2> QED
    BY <2>1, <2>2
<1> HIDE DEF T
<1>3. 0 .. n \subseteq T
  BY <1>1, <1>2, Induction
<1>4. n \in T
  BY <1>3
<1> QED
  BY <1>4 DEF T

\* A summary is the right way round.
LEMMA SummaryOrder ==
  ASSUME NEW vs \in Seq(Int), vs # <<>>
  PROVE  /\ \A i \in 1 .. Len(vs) : Lowest(vs) <= vs[i] /\ vs[i] <= Highest(vs)
         /\ Lowest(vs) \in Int /\ Highest(vs) \in Int
         /\ Lowest(vs) \in Range(vs) /\ Highest(vs) \in Range(vs)
         /\ Lowest(vs) <= Highest(vs)
<1>1. Len(vs) \in Nat \ {0} /\ DOMAIN vs = 1 .. Len(vs)
  OBVIOUS
<1>2. \A k \in 1 .. Len(vs) : vs[k] \in Int
  OBVIOUS
<1>3. PICK a \in 1 .. Len(vs), b \in 1 .. Len(vs) :
        \A k \in 1 .. Len(vs) : vs[a] <= vs[k] /\ vs[k] <= vs[b]
  BY <1>1, <1>2, Extremes
<1>4. Range(vs) = {vs[k] : k \in 1 .. Len(vs)}
  BY <1>1 DEF Range
<1>5. Lowest(vs) \in Range(vs) /\ \A x \in Range(vs) : Lowest(vs) <= x
  <2>1. vs[a] \in Range(vs) /\ \A x \in Range(vs) : vs[a] <= x
    BY <1>3, <1>4
  <2> QED
    BY <2>1 DEF Lowest, Min
<1>6. Highest(vs) \in Range(vs) /\ \A x \in Range(vs) : x <= Highest(vs)
  <2>1. vs[b] \in Range(vs) /\ \A x \in Range(vs) : vs[b] >= x
    BY <1>2, <1>3, <1>4
  <2>2. Highest(vs) \in Range(vs) /\ \A x \in Range(vs) : Highest(vs) >= x
    BY <2>1 DEF Highest, Max
  <2>3. Range(vs) \subseteq Int
    BY <1>2, <1>4
  <2> QED
    BY <2>2, <2>3
<1>7. Range(vs) \subseteq Int /\ \A k \in 1 .. Len(vs) : vs[k] \in Range(vs)
  BY <1>2, <1>4
<1> QED
  BY <1>1, <1>5, <1>6, <1>7

------------------------------------------------------------------------------
(* What the readers show.                                                  *)

\* Every metric of every reader comes from the lines of its label, as far as
\* they are complete and, but for the printer, numeric.
LEMMA MetricsOrigin ==
  ASSUME IInv, NEW l \in DOMAIN metrics
  PROVE  \E lines :
           /\ LinesSeen(lines) /\ l \in DOMAIN Grouped(lines)
           /\ metrics[l] = Grouped(lines)[l]
           /\ \A i \in 1 .. seen.count :
                LineOf(seen, i).label = l =>
                  (i \in DOMAIN lines <=> /\ HasFourFields(LineOf(seen, i))
                                          /\ tool = "printer" \/ Numeric(LineOf(seen, i)))
           /\ tool # "printer" => \A i \in DOMAIN lines : Numeric(lines[i])
           /\ tool = "visualizer" => lines = dataLines(seen)
<1> DEFINE labelOf(i) == LineOf(seen, i).label
<1>1. FileInv /\ tool \in {"none", "analysis", "visualizer", "printer"}
  BY DEF IInv, FileInv
<1>2. CASE tool = "none"
  BY <1>2, NothingEmpty DEF IInv, IdleInv
<1>3. CASE tool = "analysis"
  <2> DEFINE lines == parseBenchmarkResults(seen)
  <2>1. metrics # Nothing
    BY NothingEmpty
  <2>2. metrics = Without(Grouped(lines), {"Progress", "Benchmark Start", "Benchmark End"})
    BY <1>3, <2>1 DEF IInv, AnalysisInv, calculateMetrics
  <2>3. l \in DOMAIN Grouped(lines) /\ metrics[l] = Grouped(lines)[l]
    BY <2>2 DEF Without
  <2>4. LinesSeen(lines)
    BY <1>1, Accepted
  <2>5. \A i \in 1 .. seen.count :
          i \in DOMAIN lines <=> HasFourFields(LineOf(seen, i)) /\ Numeric(LineOf(seen, i))
    BY <1>1, Accepted
  <2> HIDE DEF lines
  <2>6. \A i \in DOMAIN lines : Numeric(lines[i])
    BY <2>4, <2>5 DEF LinesSeen
  <2> QED
    BY <1>3, <2>3, <2>4, <2>5, <2>6
<1>4. CASE tool = "visualizer"
  <2> DEFINE lines == dataLines(seen)
  <2>1. metrics # Nothing
    BY NothingEmpty
  <2>2. metrics = Grouped(lines)
    BY <1>4, <2>1 DEF IInv, VisualizerInv
  <2>3. LinesSeen(lines)
    BY <1>1, Accepted
  <2>4. \A i \in 1 .. seen.count :
          i \in DOMAIN lines <=> /\ HasFourFields(LineOf(seen, i)) /\ Numeric(LineOf(seen, i))
                                 /\ labelOf(i) \notin Markers
    BY <1>1, Accepted
  <2>5. lines = dataLines(seen)
    OBVIOUS
  <2> HIDE DEF lines
  <2>6. \A i \in DOMAIN lines : Numeric(lines[i])
    BY <2>3, <2>4 DEF LinesSeen
  <2>7. l \notin Markers
    <3>1. PICK k \in DOMAIN lines : lines[k].label = l
      BY <2>2 DEF Grouped
    <3> QED
      BY <2>3, <2>4, <3>1 DEF LinesSeen
  <2>8. \A i \in 1 .. seen.count :
          labelOf(i) = l =>
            (i \in DOMAIN lines <=> HasFourFields(LineOf(seen, i)) /\ Numeric(LineOf(seen, i)))
    BY <2>4, <2>7
  <2> QED
    BY <1>4, <2>2, <2>3, <2>5, <2>6, <2>8
<1>5. CASE tool = "printer"
  <2> DEFINE lines == printedLines(seen)
  <2>1. metrics = Grouped(lines)
    BY <1>5 DEF IInv, PrinterInv
  <2>2. LinesSeen(lines)
    BY <1>1, Accepted
  <2>3. \A i \in 1 .. seen.count : i \in DOMAIN lines <=> HasFourFields(LineOf(seen, i))
    BY <1>1, Accepted
  <2> HIDE DEF lines
  <2> QED
    BY <1>5, <2>1, <2>2, <2>3
<1> QED
  BY <1>1, <1>2, <1>3, <1>4, <1>5

\* A metric has values, numbers except for the printer's, and a known label.
LEMMA MetricsFacts ==
  ASSUME IInv, NEW l \in DOMAIN metrics
  PROVE  /\ l \in Labels \ DOMAIN Split /\ metrics[l] # <<>> /\ metrics[l] \in Seq(Number)
         /\ tool # "printer" => metrics[l] \in Seq(Int)
<1>1. PICK lines : /\ LinesSeen(lines) /\ l \in DOMAIN Grouped(lines)
                   /\ metrics[l] = Grouped(lines)[l]
                   /\ tool # "printer" => \A i \in DOMAIN lines : Numeric(lines[i])
  BY MetricsOrigin
<1>2. FileInv
  BY DEF IInv
<1> QED
  BY <1>1, <1>2, GroupedFacts

\* The file, what was read of it and what was made of that keep their types;
\* no minimum is above its maximum.
THEOREM TypeCorrect == Spec => []TypeOK
<1>1. IInv => TypeOK
  <2> SUFFICES ASSUME IInv PROVE TypeOK
    OBVIOUS
  <2>1. \A l \in DOMAIN metrics : l \in Labels /\ metrics[l] # <<>> /\ metrics[l] \in Seq(Number)
    BY MetricsFacts
  <2>2. tool \in {"none", "analysis", "visualizer", "printer"}
    BY DEF IInv, FileInv
  <2>3. DOMAIN units \subseteq DOMAIN metrics
    BY <2>2, NothingEmpty DEF IInv, IdleInv, AnalysisInv, VisualizerInv, PrinterInv
  <2>4. \A g : DOMAIN MinMax(g) = DOMAIN g
    BY DEF MinMax
  <2>5. DOMAIN summary \subseteq DOMAIN metrics
    BY <2>2, <2>4, NothingEmpty DEF IInv, IdleInv, AnalysisInv, VisualizerInv, PrinterInv
  <2>6. DOMAIN exported \subseteq DOMAIN metrics
    <3>1. DOMAIN MinMax(Without(metrics, Hidden)) \subseteq DOMAIN metrics
      BY <2>4 DEF Without
    <3> QED
      BY <2>2, <3>1, NothingEmpty DEF IInv, IdleInv, AnalysisInv, VisualizerInv, PrinterInv
  <2>7. ASSUME NEW l \in DOMAIN summary PROVE summary[l][1] <= summary[l][2]
    <3>1. l \in DOMAIN metrics
      BY <2>5
    <3>2. tool # "printer" /\ summary[l] = <<Lowest(metrics[l]), Highest(metrics[l])>>
      <4>1. CASE tool = "analysis"
        <5>1. summary = Nothing \/ summary = MinMax(metrics)
          BY <4>1 DEF IInv, AnalysisInv
        <5> QED
          BY <3>1, <4>1, <5>1, NothingEmpty DEF MinMax
      <4>2. CASE tool = "visualizer"
        BY <4>2, NothingEmpty DEF IInv, VisualizerInv
      <4>3. CASE tool \in {"none", "printer"}
        BY <4>3, NothingEmpty DEF IInv, IdleInv, PrinterInv
      <4> QED
        BY <2>2, <4>1, <4>2, <4>3
    <3>3. metrics[l] \in Seq(Int) /\ metrics[l] # <<>>
      BY <3>1, <3>2, MetricsFacts
    <3>4. Lowest(metrics[l]) <= Highest(metrics[l])
      BY <3>3, SummaryOrder
    <3> QED
      BY <3>2, <3>4
  <2>8. bottlenecks \subseteq Resources
    <3>1. \A lines : analyzeBottlenecks(lines) \subseteq Resources
      BY DEF analyzeBottlenecks
    <3> QED
      BY <2>2, <3>1 DEF IInv, IdleInv, AnalysisInv, VisualizerInv, PrinterInv
  <2> QED
    BY <2>1, <2>3, <2>5, <2>6, <2>7, <2>8 DEF TypeOK, IInv, FileInv
<1> QED
  BY <1>1, Invariance, PTL

\* Prefixes, as IsPrefix has them.
LEMMA PrefixOfItself ==
  ASSUME NEW s, Len(s) \in Nat
  PROVE  IsPrefix(s, s)
BY DEF IsPrefix

\* A sequence is a prefix of itself with one more element.
LEMMA PrefixOfLonger ==
  ASSUME NEW S, NEW s \in Seq(S), NEW x \in S
  PROVE  IsPrefix(s, Append(s, x))
<1>1. /\ Append(s, x) \in Seq(S) /\ Len(Append(s, x)) = Len(s) + 1 /\ Len(s) \in Nat
      /\ \A k \in 1 .. Len(s) : Append(s, x)[k] = s[k]
  OBVIOUS
<1>2. SubSeq(s, 1, Len(s)) = SubSeq(Append(s, x), 1, Len(s))
  <2>1. /\ SubSeq(s, 1, Len(s)) = [k \in 1 .. Len(s) |-> s[k]]
        /\ SubSeq(Append(s, x), 1, Len(s)) = [k \in 1 .. Len(s) |-> Append(s, x)[k]]
    BY <1>1
  <2> QED
    BY <1>1, <2>1
<1>3. Len(s) <= Len(Append(s, x))
  BY <1>1
<1> QED
  BY <1>2, <1>3 DEF IsPrefix

\* Nothing is listed of nothing.
LEMMA ListedNothing ==
  ASSUME NEW f, DOMAIN f = {}
  PROVE  Listed(f) = <<>>
<1>1. PICK list : IsListing(list, f, MaxRows) /\ Listed(f) = list[MaxRows]
  BY Listing
<1>2. MaxRows \in Nat /\ 0 \in 0 .. MaxRows
  BY Naturals
<1>3. \A k \in 0 + 1 .. MaxRows : k \notin DOMAIN f
  OBVIOUS
<1>4. list[MaxRows] = list[0] /\ list[0] = <<>>
  BY <1>1, <1>2, <1>3, ListingEnds, ListingStep
<1> QED
  BY <1>1, <1>4

\* Each metric is what was collected under its label, or lacks the value of
\* the row at the cut-off end.
LEMMA ShownIsKnown ==
  ASSUME IInv, NEW l \in DOMAIN metrics, Clean(l)
  PROVE  /\ IsPrefix(metrics[l], Known(l))
         /\ Len(metrics[l]) >= Len(Known(l)) - (IF seen.tail = "whole" THEN 0 ELSE 1)
<1>0. FileInv
  BY DEF IInv
<1>1. PICK lines :
        /\ LinesSeen(lines) /\ l \in DOMAIN Grouped(lines)
        /\ metrics[l] = Grouped(lines)[l]
        /\ \A i \in 1 .. seen.count :
             LineOf(seen, i).label = l =>
               (i \in DOMAIN lines <=> /\ HasFourFields(LineOf(seen, i))
                                       /\ tool = "printer" \/ Numeric(LineOf(seen, i)))
  BY MetricsOrigin
<1> DEFINE J == With(lines, {l})
<1> DEFINE K == {i \in 1 .. seen.count : /\ rows[i].label = l /\ rows[i].units # NoUnits
                                         /\ tool = "printer" \/ rows[i].value # NotANumber}
<1> DEFINE f == [i \in K |-> Printed(rows[i].value)]
<1> DEFINE g == [i \in J |-> lines[i].value]
<1>2. metrics[l] = Listed(g)
  BY <1>0, <1>1, GroupedFacts DEF ValuesOf
<1>3. Known(l) = Listed(f)
  BY DEF Known
<1>4. J = {i \in K : ~(i = seen.count /\ seen.tail = "value")}
  <2>1. ASSUME NEW i \in 1 .. seen.count
        PROVE  i \in J <=> i \in K /\ ~(i = seen.count /\ seen.tail = "value")
    <3>1. i \in J <=> i \in DOMAIN lines /\ LineOf(seen, i).label = l
      BY <1>1 DEF With, LinesSeen
    <3>2. CASE rows[i].label \in DOMAIN Split
      <4>1. i \notin J
        BY <3>2, <3>1, CommaLine DEF Clean
      <4>2. i \notin K
        BY <3>2, MetricsFacts
      <4> QED
        BY <4>1, <4>2
    <3> SUFFICES ASSUME rows[i].label \notin DOMAIN Split
                 PROVE  i \in J <=> i \in K /\ ~(i = seen.count /\ seen.tail = "value")
      BY <3>2
    <3>3. /\ LineOf(seen, i).label = rows[i].label
          /\ Numeric(LineOf(seen, i)) <=> rows[i].value # NotANumber
          /\ HasFourFields(LineOf(seen, i)) <=>
               rows[i].units # NoUnits /\ ~(i = seen.count /\ seen.tail = "value")
      BY <1>0, PlainLine
    <3>4. LineOf(seen, i).label = l =>
            (i \in DOMAIN lines <=> /\ HasFourFields(LineOf(seen, i))
                                    /\ tool = "printer" \/ Numeric(LineOf(seen, i)))
      BY <1>1
    <3> QED
      BY <3>1, <3>3, <3>4
  <2>2. J \subseteq 1 .. seen.count
    BY <1>1 DEF With, LinesSeen
  <2> HIDE DEF J
  <2> QED
    BY <2>1, <2>2
<1>5. \A i \in J : g[i] = f[i]
  <2> SUFFICES ASSUME NEW i \in J PROVE lines[i].value = Printed(rows[i].value)
    BY <1>4
  <2>1. i \in 1 .. seen.count /\ i \in DOMAIN lines /\ lines[i] = LineOf(seen, i)
    BY <1>1 DEF With, LinesSeen
  <2>2. HasFourFields(LineOf(seen, i))
    <3>1. LineOf(seen, i).label = l
      BY <2>1 DEF With
    <3> QED
      BY <1>1, <2>1, <3>1
  <2>3. rows[i].label \notin DOMAIN Split
    <3>1. rows[i].label = l
      BY <1>4
    <3> QED
      BY <3>1, MetricsFacts
  <2> QED
    BY <1>0, <2>1, <2>2, <2>3, PlainLine
<1>6. \A i \in K : i \in 1 .. MaxRows /\ f[i] \in Number
  <2> SUFFICES ASSUME NEW i \in K PROVE i \in 1 .. MaxRows /\ Printed(rows[i].value) \in Number
    OBVIOUS
  <2>1. i \in 1 .. MaxRows /\ rows[i] \in Collected
    BY <1>0, LineFacts
  <2>2. rows[i].value \in Int \cup {NotANumber}
    BY <2>1, Parameters DEF Number
  <2>3. Printed(NotANumber) = NotANumber
    BY DEF Printed
  <2> QED
    BY <2>1, <2>2, <2>3, PrintedValue DEF Number
<1>7. seen.count \in Nat /\ seen.tail \in Tails
  BY <1>0 DEF FileInv
<1>8. DOMAIN f = K /\ DOMAIN g = J /\ K \subseteq 1 .. seen.count
  OBVIOUS
<1>9. \A i \in J : g[i] \in Number
  BY <1>4, <1>5, <1>6
<1> HIDE DEF f, g, J, K
<1>10. Listed(g) \in Seq(Number)
  BY <1>4, <1>6, <1>8, <1>9, ListedType
<1>11. CASE seen.tail = "value" /\ seen.count \in K
  <2>1. J = K \ {seen.count}
    BY <1>4, <1>11
  <2>2. seen.count \in 1 .. MaxRows
    BY <1>6, <1>11
  <2>3. Listed(f) = Append(Listed(g), f[seen.count])
    <3>1. /\ DOMAIN f \subseteq 1 .. seen.count /\ seen.count \in DOMAIN f
          /\ DOMAIN g = DOMAIN f \ {seen.count} /\ \A k \in DOMAIN g : g[k] = f[k]
      BY <1>5, <1>8, <1>11, <2>1
    <3> QED
      BY <2>2, <3>1, ListedLast
  <2>4. f[seen.count] \in Number
    BY <1>6, <1>11
  <2>5. Len(Listed(f)) = Len(Listed(g)) + 1 /\ Len(Listed(g)) \in Nat
    BY <1>10, <2>3, <2>4
  <2>6. IsPrefix(Listed(g), Listed(f))
    <3>1. IsPrefix(Listed(g), Append(Listed(g), f[seen.count]))
      BY <1>10, <2>4, PrefixOfLonger
    <3> QED
      BY <2>3, <3>1
  <2>7. seen.tail # "whole"
    BY <1>11
  <2> QED
    BY <1>2, <1>3, <2>5, <2>6, <2>7
<1>12. CASE ~(seen.tail = "value" /\ seen.count \in K)
  <2>1. J = K
    BY <1>4, <1>12
  <2>2. f = g
    <3>1. f = [i \in K |-> f[i]] /\ g = [i \in K |-> g[i]]
      BY <2>1 DEF f, g
    <3> QED
      BY <1>5, <2>1, <3>1
  <2>3. IsPrefix(Listed(g), Listed(g)) /\ Len(Listed(g)) \in Nat
    <3>1. Len(Listed(g)) \in Nat
      BY <1>10
    <3> QED
      BY <3>1, PrefixOfItself
  <2> QED
    BY <1>2, <1>3, <2>2, <2>3
<1> QED
  BY <1>11, <1>12

\* Each unit is that of a row with the label, or a part of the unit of the
\* only one, which is at the cut-off end.
LEMMA ShownUnit ==
  ASSUME IInv, NEW l \in DOMAIN units, Clean(l)
  PROVE  RightUnit(l) \/ (Len(metrics[l]) = 1 /\ seen.tail = "units")
<1> DEFINE lines == dataLines(seen)
<1> DEFINE J == With(lines, {l})
<1> DEFINE m == Min(J)
<1>0. FileInv /\ tool \in {"none", "analysis", "visualizer", "printer"}
  BY DEF IInv, FileInv
<1>1. units # Nothing
  BY NothingEmpty
<1>2. /\ metrics = Grouped(lines) /\ l \in DOMAIN metrics
      /\ units[l] = UnitOf(lines, l)
  BY <1>0, <1>1 DEF IInv, IdleInv, AnalysisInv, VisualizerInv, PrinterInv
<1>3. LinesSeen(lines)
  BY <1>0, Accepted
<1>4. /\ J # {} /\ J \subseteq 1 .. seen.count
      /\ metrics[l] = Listed([i \in J |-> lines[i].value])
  BY <1>0, <1>2, <1>3, GroupedFacts DEF ValuesOf
<1>5. m \in J /\ \A k \in J : m <= k
  <2>1. J \in SUBSET Nat
    <3>1. seen.count \in Nat
      BY <1>0, Counts
    <3> HIDE DEF J
    <3> QED
      BY <1>4, <3>1
  <2> HIDE DEF J
  <2>2. \E a \in J : \A k \in J : a <= k
    BY <1>4, <2>1, Least
  <2> QED
    BY <2>2 DEF Min
<1>6. m \in 1 .. seen.count /\ m \in DOMAIN lines /\ lines[m] = LineOf(seen, m)
  BY <1>3, <1>5 DEF With, LinesSeen
<1>7. units[l] = LineOf(seen, m).units /\ LineOf(seen, m).label = l
  BY <1>2, <1>5, <1>6 DEF UnitOf, With
<1> HIDE DEF m
<1>8. /\ rows[m] \in Collected /\ LineOf(seen, m).label = rows[m].label
      /\ HasFourFields(LineOf(seen, m)) <=>
           rows[m].units # NoUnits /\ ~(m = seen.count /\ seen.tail = "value")
      /\ LineOf(seen, m).units = rows[m].units \/ (m = seen.count /\ seen.tail # "whole")
  <2>1. rows[m].label \notin DOMAIN Split
    BY <1>6, <1>7, CommaLine DEF Clean
  <2> QED
    BY <1>0, <1>6, <2>1, LineFacts, PlainLine
<1>9. HasFourFields(LineOf(seen, m))
  BY <1>0, <1>6, Accepted
<1>10. CASE LineOf(seen, m).units = rows[m].units
  BY <1>7, <1>8, <1>10 DEF RightUnit
<1>11. CASE m = seen.count /\ seen.tail # "whole"
  <2>1. seen.tail = "units"
    BY <1>0, <1>8, <1>9, <1>11 DEF FileInv, Tails
  <2>2. J = {m}
    <3>0. seen.count \in Nat
      BY <1>0, Counts
    <3> HIDE DEF J
    <3>1. ASSUME NEW k \in J PROVE k = m
      <4>1. k \in 1 .. seen.count /\ m <= k /\ m = seen.count
        BY <1>4, <1>5, <1>11, Zenon
      <4> QED
        BY <3>0, <4>1
    <3> QED
      BY <1>5, <3>1
  <2> DEFINE f == [i \in J |-> lines[i].value]
  <2> DEFINE none == [i \in {} |-> lines[i].value]
  <2>3. /\ DOMAIN f = {m} /\ DOMAIN none = {m} \ {m} /\ \A k \in DOMAIN none : none[k] = f[k]
    BY <2>2
  <2>4. Listed(none) = <<>>
    BY ListedNothing
  <2>5. m \in 1 .. MaxRows /\ m \in 1 .. m
    BY <1>0, <1>6, LineFacts
  <2>6. metrics[l] = Listed(f)
    BY <1>4
  <2> HIDE DEF f, none, J
  <2>7. Listed(f) = Append(Listed(none), f[m])
    BY <2>3, <2>5, ListedLast
  <2>8. Len(metrics[l]) = 1
    BY <2>4, <2>6, <2>7
  <2> QED
    BY <2>1, <2>8
<1> QED
  BY <1>8, <1>10, <1>11

\* The readers show what was collected and nothing else: in order, as printed,
\* in the right unit, and all of it but for the end of a file cut off there.
\* It takes labels that begin no label with a comma.
THEOREM ShowsCollected == Spec => []OnlyCollected
<1>1. IInv => OnlyCollected
  BY ShownIsKnown, ShownUnit DEF OnlyCollected
<1> QED
  BY <1>1, Invariance, PTL

\* The highest sample of a label.
LEMMA HighestSample ==
  ASSUME FileInv, NEW lines, LinesSeen(lines), NEW label,
         \A i \in With(lines, {label}) : lines[i].value \in Int
  PROVE  /\ HighestOf(lines, label) \in Nat
         /\ \A i \in With(lines, {label}) : lines[i].value <= HighestOf(lines, label)
         /\ HighestOf(lines, label) # 0 =>
              \E i \in With(lines, {label}) : HighestOf(lines, label) = lines[i].value
<1> DEFINE D == With(lines, {label})
<1> DEFINE V == {0} \cup {lines[i].value : i \in D}
<1> DEFINE n == seen.count + 1
<1> DEFINE f == [k \in 1 .. n |-> IF k \in D THEN lines[k].value ELSE 0]
<1>0. seen.count \in Nat
  BY Counts
<1>1. n \in Nat \ {0} /\ D \subseteq 1 .. seen.count
  BY <1>0 DEF With, LinesSeen
<1>2. \A k \in 1 .. n : f[k] \in V /\ f[k] \in Int
  <2> SUFFICES ASSUME NEW k \in 1 .. n PROVE f[k] \in V /\ f[k] \in Int
    OBVIOUS
  <2>1. CASE k \in D
    <3>1. f[k] = lines[k].value /\ lines[k].value \in Int
      BY <2>1
    <3>2. lines[k].value \in V
      BY <2>1
    <3> HIDE DEF f, V
    <3> QED
      BY <3>1, <3>2
  <2>2. CASE k \notin D
    <3>1. f[k] = 0 /\ 0 \in V
      BY <2>2
    <3> HIDE DEF f, V
    <3> QED
      BY <3>1
  <2> QED
    BY <2>1, <2>2
<1>3. PICK b \in 1 .. n : \A k \in 1 .. n : f[k] <= f[b]
  <2> HIDE DEF f, n
  <2> QED
    BY <1>1, <1>2, Extremes
<1>4. \A x \in V : x <= f[b]
  <2>1. ASSUME NEW i \in D PROVE lines[i].value <= f[b]
    <3>0. i \in 1 .. seen.count
      BY <1>1
    <3>1. i \in 1 .. n
      BY <1>0, <3>0
    <3>2. f[i] = lines[i].value
      BY <3>1
    <3> QED
      BY <1>3, <3>1, <3>2
  <2>2. 0 <= f[b]
    <3>1. n \in 1 .. n /\ n \notin D
      BY <1>0, <1>1
    <3>2. f[n] = 0
      BY <3>1
    <3> QED
      BY <1>3, <3>1, <3>2
  <2> QED
    BY <2>1, <2>2
<1>5. f[b] \in V
  BY <1>2
<1>6. 0 \in V /\ \A x \in V : x \in Int
  <2>1. \A i \in D : lines[i].value \in Int
    OBVIOUS
  <2> HIDE DEF D
  <2> QED
    BY <2>1
<1>7. HighestOf(lines, label) = Max(V)
  BY DEF HighestOf
<1> HIDE DEF f, V
<1>8. \E y \in V : \A x \in V : y >= x
  BY <1>4, <1>5, <1>6
<1>9. Max(V) \in V /\ \A x \in V : Max(V) >= x
  BY <1>8 DEF Max
<1>10. HighestOf(lines, label) \in V /\ \A x \in V : x <= HighestOf(lines, label)
  BY <1>6, <1>7, <1>9
<1> HIDE DEF D
<1> QED
  BY <1>6, <1>10 DEF V, D

\* nvmeof_analysis finds a bottleneck of which there was a sample, and none
\* whose samples are all below the threshold, but for the rounding and for
\* labels with a comma.
LEMMA FoundIfSampled ==
  ASSUME FileInv, NEW r \in {"cpu", "memory"}, NEW label \in {CPUUsage, MemoryUsage},
         Usage(parseBenchmarkResults(seen))[r] = HighestOf(parseBenchmarkResults(seen), label)
  PROVE  LET lines == parseBenchmarkResults(seen)
         IN /\ SamplesOf(label) \subseteq DOMAIN lines
            /\ (\E i \in SamplesOf(label) : rows[i].value >= Limits[r]) =>
                 r \in analyzeBottlenecks(lines)
            /\ r \in analyzeBottlenecks(lines) /\ Clean(label) =>
                 \E i \in SamplesOf(label) : rows[i].value + Grain \div 2 >= Limits[r]
<1> DEFINE lines == parseBenchmarkResults(seen)
<1> DEFINE high == HighestOf(lines, label)
<1>1. LinesSeen(lines)
  BY Accepted
<1>2. Limits[r] \in Nat \ {0} /\ Limits[r] % Grain = 0
  BY Parameters
<1>3. ASSUME NEW i \in 1 .. seen.count, rows[i].label = label
      PROVE  /\ rows[i].value \in Int /\ LineOf(seen, i).label = label
             /\ i \in DOMAIN lines <=> ~(i = seen.count /\ seen.tail = "value")
             /\ i \in DOMAIN lines => lines[i].value = Printed(rows[i].value)
  <2>0. rows[i] \in Collected /\ rows[i].label \notin DOMAIN Split
    BY <1>3, LineFacts, Parameters
  <2>1. /\ LineOf(seen, i).label = rows[i].label
        /\ Numeric(LineOf(seen, i)) <=> rows[i].value # NotANumber
        /\ HasFourFields(LineOf(seen, i)) <=>
             rows[i].units # NoUnits /\ ~(i = seen.count /\ seen.tail = "value")
        /\ HasFourFields(LineOf(seen, i)) => LineOf(seen, i).value = Printed(rows[i].value)
    BY <2>0, PlainLine
  <2>2. rows[i].value \in Int /\ rows[i].units # NoUnits
    BY <1>3, <2>0, Parameters
  <2>3. rows[i].value # NotANumber
    BY <2>2, NoNumber
  <2>4. i \in DOMAIN lines <=> HasFourFields(LineOf(seen, i)) /\ Numeric(LineOf(seen, i))
    BY Accepted
  <2> HIDE DEF lines
  <2> QED
    BY <1>1, <1>3, <2>1, <2>2, <2>3, <2>4 DEF LinesSeen
<1>4. ASSUME NEW i \in SamplesOf(label)
      PROVE  /\ i \in With(lines, {label}) /\ i \in DOMAIN lines
             /\ rows[i].value \in Int /\ lines[i].value = Printed(rows[i].value)
  <2>1. /\ i \in 1 .. seen.count /\ rows[i].label = label
        /\ ~(i = seen.count /\ seen.tail = "value")
    <3>1. seen.count \in Nat
      BY Counts
    <3> QED
      BY <3>1 DEF SamplesOf
  <2> HIDE DEF lines
  <2> QED
    BY <1>1, <1>3, <2>1 DEF With, LinesSeen
<1>5. ASSUME Clean(label), NEW i \in With(lines, {label}) PROVE i \in SamplesOf(label)
  <2>1. i \in 1 .. seen.count /\ i \in DOMAIN lines /\ LineOf(seen, i).label = label
    BY <1>1 DEF With, LinesSeen
  <2>2. rows[i].label = label
    <3>1. rows[i].label \notin DOMAIN Split
      BY <1>5, <2>1, CommaLine DEF Clean
    <3> QED
      BY <2>1, <3>1, PlainLine
  <2>3. ~(i = seen.count /\ seen.tail = "value")
    BY <1>3, <2>1, <2>2
  <2>4. seen.count \in Nat
    BY Counts
  <2> HIDE DEF lines
  <2> QED
    BY <2>1, <2>2, <2>3, <2>4 DEF SamplesOf
<1>6. \A i \in With(lines, {label}) : lines[i].value \in Int
  <2> SUFFICES ASSUME NEW i \in With(lines, {label}) PROVE lines[i].value \in Int
    OBVIOUS
  <2>1. i \in 1 .. seen.count /\ i \in DOMAIN lines /\ lines[i] = LineOf(seen, i)
    BY <1>1 DEF With, LinesSeen
  <2>2. Numeric(LineOf(seen, i)) /\ LineOf(seen, i).value \in Number
    BY <2>1, Accepted, LineFacts
  <2> QED
    BY <2>1, <2>2 DEF Number, Numeric
<1> HIDE DEF lines
<1>7. /\ high \in Nat
      /\ \A i \in With(lines, {label}) : lines[i].value <= high
      /\ high # 0 => \E i \in With(lines, {label}) : high = lines[i].value
  BY <1>1, <1>6, HighestSample
<1>8. r \in analyzeBottlenecks(lines) <=> high >= Limits[r]
  <2>1. Usage(lines)[r] = high
    BY DEF lines
  <2>2. r \in Resources /\ r # "storage"
    BY DEF Resources
  <2> QED
    BY <2>1, <2>2 DEF analyzeBottlenecks
<1>9. SamplesOf(label) \subseteq DOMAIN lines
  BY <1>4
<1>10. ASSUME NEW i \in SamplesOf(label), rows[i].value >= Limits[r] PROVE high >= Limits[r]
  <2>1. /\ rows[i].value \in Int /\ lines[i].value = Printed(rows[i].value)
        /\ lines[i].value <= high /\ lines[i].value \in Int
    BY <1>4, <1>6, <1>7
  <2>2. Limits[r] <= Printed(rows[i].value)
    BY <1>2, <1>10, <2>1, PrintedValue
  <2> QED
    BY <1>2, <1>7, <2>1, <2>2
<1>11. ASSUME high >= Limits[r], Clean(label)
       PROVE  \E i \in SamplesOf(label) : rows[i].value + Grain \div 2 >= Limits[r]
  <2>1. high # 0
    BY <1>2, <1>7, <1>11
  <2>2. PICK i \in With(lines, {label}) : high = lines[i].value
    BY <1>7, <2>1
  <2>3. /\ i \in SamplesOf(label)
        /\ rows[i].value \in Int /\ lines[i].value = Printed(rows[i].value)
        /\ lines[i].value \in Int
    BY <1>4, <1>5, <1>6, <1>11
  <2>4. Printed(rows[i].value) <= rows[i].value + Grain \div 2
    BY <2>3, PrintedValue
  <2>5. Grain \div 2 \in Nat
    BY Naturals
  <2>6. rows[i].value + Grain \div 2 >= Limits[r]
    BY <1>2, <1>11, <2>2, <2>3, <2>4, <2>5
  <2> QED
    BY <2>3, <2>6
<1> QED
  BY <1>8, <1>9, <1>10, <1>11 DEF lines

\* Every CPU and memory bottleneck of which the file has a sample is found,
\* and no other unless a label with a comma looks like one.
THEOREM FindsBottlenecks == Spec => []BottlenecksFound
<1>1. IInv => BottlenecksFound
  <2> SUFFICES ASSUME IInv, tool = "analysis",
                      NEW b \in {<<"cpu", CPUUsage>>, <<"memory", MemoryUsage>>}
               PROVE  /\ (\E i \in SamplesOf(b[2]) : rows[i].value >= Limits[b[1]]) => b[1] \in bottlenecks
                      /\ b[1] \in bottlenecks /\ Clean(b[2]) =>
                           \E i \in SamplesOf(b[2]) : rows[i].value + Grain \div 2 >= Limits[b[1]]
    BY DEF BottlenecksFound
  <2> DEFINE lines == parseBenchmarkResults(seen)
  <2>0. b = <<"cpu", CPUUsage>> \/ b = <<"memory", MemoryUsage>>
    OBVIOUS
  <2>1. b[1] \in {"cpu", "memory"} /\ b[2] \in {CPUUsage, MemoryUsage}
    BY <2>0
  <2>2. Usage(lines)[b[1]] = HighestOf(lines, b[2])
    <3>1. /\ Usage(lines)["cpu"] = HighestOf(lines, CPUUsage)
          /\ Usage(lines)["memory"] = HighestOf(lines, MemoryUsage)
      BY DEF Usage
    <3> QED
      BY <2>0, <3>1
  <2>3. /\ SamplesOf(b[2]) \subseteq DOMAIN lines
        /\ (\E i \in SamplesOf(b[2]) : rows[i].value >= Limits[b[1]]) =>
             b[1] \in analyzeBottlenecks(lines)
        /\ b[1] \in analyzeBottlenecks(lines) /\ Clean(b[2]) =>
             \E i \in SamplesOf(b[2]) : rows[i].value + Grain \div 2 >= Limits[b[1]]
    BY <2>1, <2>2, FoundIfSampled DEF IInv
  <2>4. \/ DOMAIN lines = {} /\ bottlenecks = {}
        \/ bottlenecks = analyzeBottlenecks(lines)
    BY DEF IInv, AnalysisInv
  <2> HIDE DEF lines
  <2> QED
    BY <2>3, <2>4
<1> QED
  BY <1>1, Invariance, PTL

\* The two parsers make the same metrics of a file, markers and progress apart.
LEMMA SameMetrics ==
  ASSUME FileInv
  PROVE  LET theirs == calculateMetrics(parseBenchmarkResults(seen))
             ours == Grouped(dataLines(seen))
         IN /\ Without(ours, Hidden) = theirs
            /\ \A l \in DOMAIN ours \ Hidden : l \in DOMAIN theirs /\ theirs[l] = ours[l]
<1> DEFINE a == parseBenchmarkResults(seen)
<1> DEFINE v == dataLines(seen)
<1> DEFINE others == {"Progress", "Benchmark Start", "Benchmark End"}
<1>1. LinesSeen(a) /\ LinesSeen(v)
  BY Accepted
<1>2. \A i \in 1 .. seen.count :
        i \in DOMAIN v <=> i \in DOMAIN a /\ LineOf(seen, i).label \notin Markers
  BY Accepted
<1>3. calculateMetrics(a) = Without(Grouped(a), others)
  BY DEF calculateMetrics
<1>4. others = Hidden \cup Markers
  BY DEF Hidden, Markers
<1> HIDE DEF a, v, others
<1>5. DOMAIN v \subseteq DOMAIN a /\ \A i \in DOMAIN v : v[i] = a[i] /\ a[i].label \notin Markers
  BY <1>1, <1>2 DEF LinesSeen
<1>6. \A i \in DOMAIN a : a[i].label \notin Markers => i \in DOMAIN v
  BY <1>1, <1>2 DEF LinesSeen
<1>7. DOMAIN Grouped(v) = DOMAIN Grouped(a) \ Markers
  <2>1. /\ DOMAIN Grouped(v) = {v[i].label : i \in DOMAIN v}
        /\ DOMAIN Grouped(a) = {a[i].label : i \in DOMAIN a}
    BY DEF Grouped
  <2>2. \A l \in DOMAIN Grouped(v) : l \in DOMAIN Grouped(a) /\ l \notin Markers
    BY <1>5, <2>1
  <2>3. \A l \in DOMAIN Grouped(a) : l \notin Markers => l \in DOMAIN Grouped(v)
    BY <1>5, <1>6, <2>1
  <2> QED
    BY <2>2, <2>3
<1>8. ASSUME NEW l \in DOMAIN Grouped(v) PROVE Grouped(v)[l] = Grouped(a)[l]
  <2>1. l \notin Markers /\ l \in DOMAIN Grouped(a)
    BY <1>7
  <2>2. With(v, {l}) = With(a, {l})
    BY <1>5, <1>6, <2>1 DEF With
  <2>3. \A i \in With(v, {l}) : v[i].value = a[i].value
    BY <1>5 DEF With
  <2>4. ValuesOf(v, {l}) = ValuesOf(a, {l})
    BY <2>2, <2>3 DEF ValuesOf
  <2> QED
    BY <2>1, <2>4 DEF Grouped
<1>9. Without(Grouped(v), Hidden) = Without(Grouped(a), others)
  BY <1>4, <1>7, <1>8 DEF Without
<1>10. \A l \in DOMAIN Grouped(v) \ Hidden :
         /\ l \in DOMAIN Without(Grouped(a), others)
         /\ Without(Grouped(a), others)[l] = Grouped(v)[l]
  BY <1>4, <1>7, <1>8 DEF Without
<1> QED
  BY <1>3, <1>9, <1>10 DEF a, v

\* nvmeof_visualizer exports and shows what nvmeof_analysis finds in the same
\* part of a file.
THEOREM ParsersAgree == Spec => []ToolsAgree
<1>1. IInv => ToolsAgree
  <2> SUFFICES ASSUME IInv, tool = "visualizer" PROVE ToolsAgree
    BY DEF ToolsAgree
  <2> DEFINE found == calculateMetrics(parseBenchmarkResults(seen))
  <2> DEFINE ours == Grouped(dataLines(seen))
  <2>1. /\ Without(ours, Hidden) = found
        /\ \A l \in DOMAIN ours \ Hidden : l \in DOMAIN found /\ found[l] = ours[l]
    BY SameMetrics DEF IInv
  <2>2. \/ summary = Nothing /\ exported = Nothing
        \/ /\ metrics = ours
           /\ DOMAIN summary \subseteq DOMAIN ours
           /\ \A l \in DOMAIN summary : summary[l] = <<Lowest(ours[l]), Highest(ours[l])>>
           /\ exported \in {Nothing, MinMax(Without(ours, Hidden))}
    BY DEF IInv, VisualizerInv
  <2> HIDE DEF found, ours
  <2>3. exported # Nothing => exported = MinMax(found)
    BY <2>1, <2>2
  <2>4. ASSUME NEW l \in DOMAIN summary \ {"Progress"}
        PROVE  l \in DOMAIN MinMax(found) /\ summary[l] = MinMax(found)[l]
    <3>1. /\ l \in DOMAIN ours /\ l \notin Hidden
          /\ summary[l] = <<Lowest(ours[l]), Highest(ours[l])>>
      BY <2>2, NothingEmpty DEF Hidden
    <3>2. l \in DOMAIN found /\ found[l] = ours[l]
      BY <2>1, <3>1
    <3> QED
      BY <3>1, <3>2 DEF MinMax
  <2> QED
    BY <2>3, <2>4 DEF ToolsAgree, found
<1> QED
  BY <1>1, Invariance, PTL

------------------------------------------------------------------------------
(* Charts: quotients, least and greatest.                                  *)

\* A greater numerator gives no smaller quotient.
LEMMA QuotientGrows ==
  ASSUME NEW a \in Nat, NEW c \in Nat, NEW b \in Nat \ {0}, a <= c
  PROVE  a \div b <= c \div b
<1> DEFINE q == c \div b
<1>1. q \in Nat /\ c < b * q + b
  BY Division
<1> HIDE DEF q
<1>2. b * q + b = b * (q + 1) /\ a < b * q + b
  BY <1>1, SMT
<1>3. a \div b < q + 1
  BY <1>1, <1>2, QuotientBelow
<1>4. a \div b \in Nat
  BY Division
<1> QED
  BY <1>1, <1>3, <1>4 DEF q

\* A bounded set of natural numbers has a greatest element.
LEMMA GreatestOf ==
  ASSUME NEW T \in SUBSET Nat, T # {}, NEW c \in Nat, \A k \in T : k <= c
  PROVE  Max(T) \in T /\ \A k \in T : k <= Max(T)
<1> DEFINE less == {c - k : k \in T}
<1>1. less # {} /\ less \in SUBSET Nat
  <2>1. \A k \in T : k \in Nat /\ k <= c
    OBVIOUS
  <2>2. \A k \in T : c - k \in Nat
    BY <2>1
  <2> QED
    BY <2>2
<1>2. PICK d \in less : \A k \in less : d <= k
  <2> HIDE DEF less
  <2> QED
    BY <1>1, Least
<1>3. PICK m \in T : d = c - m
  BY <1>2
<1>4. \A k \in T : k \in Nat /\ c - k \in less
  OBVIOUS
<1> HIDE DEF less
<1>5. \A k \in T : m >= k
  BY <1>2, <1>3, <1>4
<1>6. Max(T) \in T /\ \A k \in T : Max(T) >= k
  BY <1>5 DEF Max
<1> QED
  BY <1>6

\* The smaller and the greater of two numbers.
LEMMA OfTwo ==
  ASSUME NEW x \in Int, NEW y \in Int
  PROVE  /\ Min({x, y}) = IF x <= y THEN x ELSE y
         /\ Max({x, y}) = IF x >= y THEN x ELSE y
BY DEF Min, Max

\* A number, or zero if it is negative.
LEMMA OrZero ==
  ASSUME NEW x \in Int
  PROVE  Max({0, x}) = IF 0 >= x THEN 0 ELSE x
BY OfTwo

\* A number, or the end of the range it lies behind.
LEMMA Clamped ==
  ASSUME NEW x \in Int, NEW top \in Nat
  PROVE  Clamp(0, x, top) = IF x <= 0 THEN 0 ELSE IF x <= top THEN x ELSE top
<1> DEFINE m == Min({x, top})
<1>1. m = IF x <= top THEN x ELSE top
  BY OfTwo
<1>2. m \in Int
  BY <1>1
<1>3. Clamp(0, x, top) = Max({0, m})
  BY DEF Clamp
<1> HIDE DEF m
<1>4. Max({0, m}) = IF 0 >= m THEN 0 ELSE m
  BY <1>2, OrZero
<1> QED
  BY <1>1, <1>3, <1>4

\* A rounded quotient of natural numbers grows with its numerator.
LEMMA RoundedGrows ==
  ASSUME NEW a \in Nat, NEW c \in Nat, NEW b \in Nat, a <= c
  PROVE  Rounded(a, b) \in Nat /\ Rounded(a, b) <= Rounded(c, b)
<1>1. 2 * a + b \in Nat /\ 2 * c + b \in Nat /\ 2 * a + b <= 2 * c + b /\ 2 * b \in Nat
  BY SMT
<1>2. CASE b = 0
  BY <1>2 DEF Rounded, Quotient
<1>3. CASE b # 0
  <2>1. 2 * b \in Nat \ {0}
    BY <1>3
  <2>2. /\ Rounded(a, b) = (2 * a + b) \div (2 * b)
        /\ Rounded(c, b) = (2 * c + b) \div (2 * b)
    BY <2>1 DEF Rounded, Quotient
  <2>3. (2 * a + b) \div (2 * b) <= (2 * c + b) \div (2 * b)
    BY <1>1, <2>1, QuotientGrows
  <2>4. (2 * a + b) \div (2 * b) \in Nat
    BY <1>1, <2>1, Division
  <2> QED
    BY <2>2, <2>3, <2>4
<1> QED
  BY <1>2, <1>3

\* Every value but the last has one of the columns.
LEMMA OthersInside ==
  ASSUME NEW n \in Nat, NEW i \in 1 .. n - 1, NEW width \in Nat \ {0}
  PROVE  Column(i, n, width) \in 0 .. width - 1
<1>1. n - 1 \in Nat \ {0} /\ i - 1 \in Nat /\ i - 1 < n - 1
  OBVIOUS
<1>2. (i - 1) * width \in Nat
  BY <1>1, SMT
<1>3. (i - 1) * width < (n - 1) * width
  BY <1>1, SMT
<1>4. ((i - 1) * width) \div (n - 1) < width
  BY <1>1, <1>2, <1>3, QuotientBelow
<1>5. ((i - 1) * width) \div (n - 1) \in Nat
  BY <1>1, <1>2, Division
<1> QED
  BY <1>1, <1>4, <1>5 DEF Column, Quotient

\* The last value has none: its column is the one behind the last.
THEOREM LastOutside ==
  ASSUME NEW n \in Nat, n > 1, NEW width \in Nat
  PROVE  Column(n, n, width) = width
<1> DEFINE b == n - 1
<1>1. b \in Nat \ {0}
  OBVIOUS
<1> DEFINE q == (b * width) \div b
<1>2. b * width \in Nat
  BY <1>1, SMT
<1>3. q \in Nat /\ b * q <= b * width /\ b * width < b * q + b
  BY <1>1, <1>2, Division
<1> HIDE DEF b, q
<1>4. q <= width
  BY <1>1, <1>3, SMT
<1>5. width < q + 1
  <2>1. b * q + b = b * (q + 1)
    BY <1>1, <1>3, SMT
  <2> QED
    BY <1>1, <1>3, <2>1, SMT
<1>6. q = width
  BY <1>3, <1>4, <1>5, SMT
<1>7. width * b = b * width
  BY <1>1, SMT
<1> QED
  BY <1>1, <1>6, <1>7 DEF Column, Quotient, b, q

\* Later values are never drawn to the left of earlier ones.
THEOREM LeftToRight ==
  ASSUME NEW n \in Nat, n > 1, NEW i \in 1 .. n, NEW j \in i .. n, NEW width \in Nat
  PROVE  Column(i, n, width) <= Column(j, n, width)
<1> DEFINE b == n - 1
<1> DEFINE x == (i - 1) * width
<1> DEFINE y == (j - 1) * width
<1>1. b \in Nat \ {0} /\ i - 1 \in Nat /\ j - 1 \in Nat /\ i - 1 <= j - 1
  OBVIOUS
<1>2. x \in Nat /\ y \in Nat
  BY <1>1, SMT
<1>3. x <= y
  BY <1>1, SMT
<1> HIDE DEF b, x, y
<1>4. y \div b \in Nat /\ y < b * (y \div b) + b
  BY <1>1, <1>2, Division
<1>5. b * (y \div b) + b = b * (y \div b + 1)
  BY <1>1, <1>4, SMT
<1>6. x < b * (y \div b + 1)
  BY <1>1, <1>2, <1>3, <1>4, <1>5, SMT
<1>7. x \div b < y \div b + 1
  BY <1>1, <1>2, <1>4, <1>6, QuotientBelow
<1>8. x \div b \in Nat
  BY <1>1, <1>2, Division
<1> QED
  BY <1>1, <1>4, <1>7, <1>8 DEF Column, Quotient, b, x, y

------------------------------------------------------------------------------
(* Charts: rows of a line chart.                                           *)

\* Every row is one of the chart, and larger values are not below.
LEMMA RowsInOrder ==
  ASSUME NEW vs \in Seq(Int), vs # <<>>, NEW height \in Nat \ {0},
         NEW i \in 1 .. Len(vs), NEW j \in 1 .. Len(vs), vs[i] <= vs[j]
  PROVE  /\ Row(vs, i, height) \in 0 .. height - 1
         /\ Row(vs, j, height) <= Row(vs, i, height)
<1> DEFINE up(k) == IF Spread(vs) # 0 THEN 20 * (Highest(vs) - vs[k]) + Spread(vs)
                    ELSE IF vs[k] = 0 THEN 0 ELSE 1
<1> DEFINE all(k) == IF Spread(vs) # 0 THEN 22 * Spread(vs)
                     ELSE 2 * (IF vs[k] = 0 THEN 0 ELSE 1)
<1> DEFINE top == height - 1
<1> DEFINE at(k) == Rounded(up(k) * top, all(k))
<1>1. /\ vs[i] \in Int /\ vs[j] \in Int /\ Lowest(vs) \in Int /\ Highest(vs) \in Int
      /\ Lowest(vs) <= vs[i] /\ vs[j] <= Highest(vs) /\ vs[i] <= Highest(vs)
      /\ Lowest(vs) <= vs[j]
  BY SummaryOrder
<1>2. Spread(vs) \in Nat /\ (Spread(vs) = 0 => vs[i] = vs[j])
  BY <1>1 DEF Spread
<1>3. /\ up(i) \in Nat /\ up(j) \in Nat /\ up(j) <= up(i)
      /\ all(i) \in Nat /\ all(j) = all(i)
  <2> DEFINE x == vs[i]
  <2> DEFINE y == vs[j]
  <2> DEFINE h == Highest(vs)
  <2> DEFINE d == Spread(vs)
  <2>1. /\ x \in Int /\ y \in Int /\ h \in Int /\ d \in Nat
        /\ x <= y /\ y <= h /\ (d = 0 => x = y)
    BY <1>1, <1>2
  <2>2. /\ up(i) = IF d # 0 THEN 20 * (h - x) + d ELSE IF x = 0 THEN 0 ELSE 1
        /\ up(j) = IF d # 0 THEN 20 * (h - y) + d ELSE IF y = 0 THEN 0 ELSE 1
        /\ all(i) = IF d # 0 THEN 22 * d ELSE 2 * (IF x = 0 THEN 0 ELSE 1)
        /\ all(j) = IF d # 0 THEN 22 * d ELSE 2 * (IF y = 0 THEN 0 ELSE 1)
    OBVIOUS
  <2> HIDE DEF x, y, h, d, up, all
  <2>3. CASE d = 0
    BY <2>1, <2>2, <2>3
  <2>4. CASE d # 0
    BY <2>1, <2>2, <2>4
  <2> QED
    BY <2>3, <2>4
<1>4. top \in Nat
  OBVIOUS
<1>5. /\ Row(vs, i, height) = Clamp(0, at(i), top)
      /\ Row(vs, j, height) = Clamp(0, at(j), top)
  BY DEF Row
<1> HIDE DEF up, all, top
<1>6. up(i) * top \in Nat /\ up(j) * top \in Nat /\ up(j) * top <= up(i) * top
  BY <1>3, <1>4, SMT
<1> DEFINE a == up(i) * top
<1> DEFINE c == up(j) * top
<1> DEFINE b == all(i)
<1>7. at(i) \in Nat /\ at(j) \in Nat /\ at(j) <= at(i)
  <2>1. at(i) = Rounded(a, b) /\ at(j) = Rounded(c, b)
    BY <1>3
  <2>2. a \in Nat /\ b \in Nat /\ c \in Nat /\ c <= a /\ a <= a
    BY <1>3, <1>6
  <2> HIDE DEF a, b, c, at
  <2> QED
    BY <2>1, <2>2, RoundedGrows
<1> HIDE DEF at
<1>8. /\ Clamp(0, at(i), top) = IF at(i) <= 0 THEN 0 ELSE IF at(i) <= top THEN at(i) ELSE top
      /\ Clamp(0, at(j), top) = IF at(j) <= 0 THEN 0 ELSE IF at(j) <= top THEN at(j) ELSE top
  BY <1>4, <1>7, Clamped
<1> QED
  BY <1>4, <1>5, <1>7, <1>8 DEF top

------------------------------------------------------------------------------
(* Charts: finite sets and sums.                                           *)

\* Induction on the subsets of a finite set.
LEMMA SubsetInduction ==
  ASSUME NEW S, IsFiniteSet(S), NEW T, {} \in T,
         \A s \in SUBSET S : s # {} => \E x \in s : s \ {x} \in T => s \in T
  PROVE  SUBSET S \subseteq T
<1> DEFINE n == Cardinality(S)
<1> DEFINE C == {k \in 0 .. n : \A s \in SUBSET S : Cardinality(s) = k => s \in T}
<1>1. n \in Nat /\ \A s \in SUBSET S : IsFiniteSet(s) /\ Cardinality(s) \in 0 .. n
  <2>1. n \in Nat
    BY FS_CardinalityType
  <2>2. ASSUME NEW s \in SUBSET S PROVE IsFiniteSet(s) /\ Cardinality(s) \in 0 .. n
    <3>1. IsFiniteSet(s) /\ Cardinality(s) <= n
      BY FS_Subset
    <3>2. Cardinality(s) \in Nat
      BY <3>1, FS_CardinalityType
    <3> QED
      BY <2>1, <3>1, <3>2
  <2> QED
    BY <2>1, <2>2
<1> HIDE DEF n
<1>2. 0 \in C
  <2>1. \A s \in SUBSET S : Cardinality(s) = 0 => s = {}
    BY <1>1, FS_EmptySet
  <2>2. \A s \in SUBSET S : Cardinality(s) = 0 => s \in T
    BY <2>1
  <2>3. 0 \in 0 .. n
    BY <1>1
  <2> QED
    BY <2>2, <2>3
<1>3. ASSUME NEW k \in 0 .. n - 1, k \in C PROVE k + 1 \in C
  <2>1. ASSUME NEW s \in SUBSET S, Cardinality(s) = k + 1 PROVE s \in T
    <3>1. s # {}
      <4>1. k + 1 # 0
        BY <1>1
      <4> QED
        BY <2>1, <4>1, FS_EmptySet
    <3>2. PICK x \in s : s \ {x} \in T => s \in T
      BY <3>1
    <3>3. IsFiniteSet(s)
      BY <1>1
    <3>4. Cardinality(s \ {x}) = Cardinality(s) - 1
      BY <3>3, FS_RemoveElement
    <3>5. Cardinality(s \ {x}) = k
      BY <2>1, <3>4
    <3>6. s \ {x} \in SUBSET S
      OBVIOUS
    <3> QED
      BY <1>3, <3>2, <3>5, <3>6
  <2> QED
    BY <1>1, <2>1
<1> HIDE DEF C
<1>4. 0 .. n \subseteq C
  BY <1>1, <1>2, <1>3, Induction
<1> QED
  <2>1. ASSUME NEW s \in SUBSET S PROVE s \in T
    <3>1. Cardinality(s) \in C
      BY <1>1, <1>4
    <3> QED
      BY <3>1 DEF C
  <2> QED
    BY <2>1

\* Comparing quotients by cross products is transitive.
LEMMA CrossProducts ==
  ASSUME NEW a1 \in Int, NEW a2 \in Int, NEW a3 \in Int,
         NEW b1 \in Nat, NEW b2 \in Nat \ {0}, NEW b3 \in Nat,
         a1 * b2 <= a2 * b1, a2 * b3 <= a3 * b2
  PROVE  a1 * b3 <= a3 * b1
<1> DEFINE p == a1 * b3
<1> DEFINE q == a3 * b1
<1>1. (a1 * b2) * b3 <= (a2 * b1) * b3
  BY SMT
<1>2. (a2 * b3) * b1 <= (a3 * b2) * b1
  BY SMT
<1>3. (a2 * b1) * b3 = (a2 * b3) * b1
  BY SMT
<1>4. (a1 * b2) * b3 = b2 * p /\ (a3 * b2) * b1 = b2 * q
  BY SMT
<1>5. p \in Int /\ q \in Int
  BY SMT
<1> HIDE DEF p, q
<1>6. b2 * p <= b2 * q
  <2> DEFINE u == (a2 * b1) * b3
  <2>1. u \in Int
    BY SMT
  <2>2. b2 * p <= u /\ u <= b2 * q
    BY <1>1, <1>2, <1>3, <1>4
  <2>3. b2 * p \in Int /\ b2 * q \in Int
    BY <1>5, SMT
  <2> HIDE DEF u
  <2> QED
    BY <2>1, <2>2, <2>3
<1>7. SUFFICES ASSUME q < p PROVE FALSE
  BY <1>5 DEF p, q
<1>8. b2 * (q + 1) <= b2 * p /\ b2 * (q + 1) = b2 * q + b2
  BY <1>5, <1>7, SMT
<1> QED
  BY <1>5, <1>6, <1>8, SMT

\* Of finitely many quotients one is the greatest.
LEMMA GreatestQuotient ==
  ASSUME NEW S, IsFiniteSet(S), S # {}, NEW a \in [S -> Int], NEW b \in [S -> Nat \ {0}]
  PROVE  \E k \in S : \A m \in S : a[m] * b[k] <= a[k] * b[m]
<1> DEFINE Best(s, k) == k \in s /\ \A m \in s : a[m] * b[k] <= a[k] * b[m]
<1> DEFINE T == {s \in SUBSET S : s # {} => \E k \in s : Best(s, k)}
<1>1. {} \in T
  OBVIOUS
<1>2. ASSUME NEW s \in SUBSET S, s # {} PROVE \E x \in s : s \ {x} \in T => s \in T
  <2>1. PICK x \in s : TRUE
    BY <1>2
  <2>2. ASSUME s \ {x} \in T PROVE \E k \in s : Best(s, k)
    <3>1. CASE s \ {x} = {}
      <4>1. s = {x}
        BY <3>1
      <4>2. a[x] * b[x] <= a[x] * b[x]
        <5>1. a[x] \in Int /\ b[x] \in Nat
          OBVIOUS
        <5> QED
          BY <5>1, SMT
      <4> QED
        BY <4>1, <4>2
    <3>2. CASE s \ {x} # {}
      <4>1. PICK k \in s \ {x} : Best(s \ {x}, k)
        BY <2>2, <3>2
      <4>2. /\ a[x] \in Int /\ b[x] \in Nat \ {0} /\ a[k] \in Int /\ b[k] \in Nat \ {0}
            /\ \A m \in s : a[m] \in Int /\ b[m] \in Nat \ {0}
        OBVIOUS
      <4>3. CASE a[x] * b[k] <= a[k] * b[x]
        <5>1. Best(s, k)
          BY <4>1, <4>3
        <5> QED
          BY <5>1
      <4>4. CASE a[k] * b[x] <= a[x] * b[k]
        <5>1. ASSUME NEW m \in s PROVE a[m] * b[x] <= a[x] * b[m]
          <6>1. CASE m = x
            <7>1. a[x] * b[x] \in Int
              BY <4>2, SMT
            <7> QED
              BY <6>1, <7>1
          <6>2. CASE m # x
            <7>1. a[m] * b[k] <= a[k] * b[m]
              BY <4>1, <6>2
            <7> QED
              BY <4>2, <4>4, <7>1, CrossProducts
          <6> QED
            BY <6>1, <6>2
        <5>2. Best(s, x)
          BY <5>1
        <5> QED
          BY <5>2
      <4> QED
        <5>1. a[x] * b[k] \in Int /\ a[k] * b[x] \in Int
          BY <4>2, SMT
        <5>2. a[x] * b[k] <= a[k] * b[x] \/ a[k] * b[x] <= a[x] * b[k]
          BY <5>1
        <5> QED
          BY <4>3, <4>4, <5>2
    <3> QED
      BY <3>1, <3>2
  <2> QED
    BY <2>2
<1> HIDE DEF T
<1>3. SUBSET S \subseteq T
  BY <1>1, <1>2, SubsetInduction
<1>4. S \in T
  BY <1>3
<1> QED
  BY <1>4 DEF T

\* What a fold adds up, one element of the set after the other.
IsFold(sum, val, pick, S) ==
  sum = [s \in SUBSET S |->
           IF s = {} THEN 0 ELSE val[pick[s]] + sum[s \ {pick[s]}]]

\* A function that says which element comes next.
IsPick(pick, S) == \A s \in SUBSET S : s # {} => pick[s] \in s

\* Its recursion, taken apart.
IsSum(sum, val, pick, S) ==
  /\ IsPick(pick, S)
  /\ sum[{}] = 0
  /\ \A s \in SUBSET S : s # {} => sum[s] = val[pick[s]] + sum[s \ {pick[s]}]

\* A fold is what its recursion says.
LEMMA SumStep ==
  ASSUME NEW sum, NEW val, NEW pick, NEW S, IsFold(sum, val, pick, S)
  PROVE  /\ sum[{}] = 0
         /\ \A s \in SUBSET S : s # {} => sum[s] = val[pick[s]] + sum[s \ {pick[s]}]
<1> DEFINE at(s) == IF s = {} THEN 0 ELSE val[pick[s]] + sum[s \ {pick[s]}]
<1>1. sum = [s \in SUBSET S |-> at(s)]
  BY DEF IsFold
<1> HIDE DEF at
<1>2. \A s \in SUBSET S : sum[s] = at(s)
  BY <1>1
<1> QED
  BY <1>2 DEF at

\* The recursion of a fold on a finite set has a solution.
LEMMA SumExists ==
  ASSUME NEW S, IsFiniteSet(S), NEW val, NEW pick, IsPick(pick, S)
  PROVE  \E sum : IsFold(sum, val, pick, S)
<1> DEFINE n == Cardinality(S)
<1> DEFINE after(g, s) == IF s = {} THEN 0 ELSE val[pick[s]] + g[s \ {pick[s]}]
<1> DEFINE C == {k \in 0 .. n :
                   \E g : \A s \in SUBSET S : Cardinality(s) <= k => g[s] = after(g, s)}
<1>1. n \in Nat /\ \A s \in SUBSET S : IsFiniteSet(s) /\ Cardinality(s) \in 0 .. n
  <2>1. n \in Nat
    BY FS_CardinalityType
  <2>2. ASSUME NEW s \in SUBSET S PROVE IsFiniteSet(s) /\ Cardinality(s) \in 0 .. n
    <3>1. IsFiniteSet(s) /\ Cardinality(s) <= n
      BY FS_Subset
    <3>2. Cardinality(s) \in Nat
      BY <3>1, FS_CardinalityType
    <3> QED
      BY <2>1, <3>1, <3>2
  <2> QED
    BY <2>1, <2>2
<1> HIDE DEF n
<1>2. 0 \in C
  <2> DEFINE g == [s \in SUBSET S |-> 0]
  <2>1. ASSUME NEW s \in SUBSET S, Cardinality(s) <= 0 PROVE g[s] = after(g, s)
    <3>1. Cardinality(s) = 0
      BY <1>1, <2>1
    <3>2. s = {}
      BY <1>1, <3>1, FS_EmptySet
    <3> QED
      BY <3>2
  <2>2. 0 \in 0 .. n
    BY <1>1
  <2> HIDE DEF g, after
  <2> QED
    BY <2>1, <2>2
<1>3. ASSUME NEW k \in 0 .. n - 1, k \in C PROVE k + 1 \in C
  <2>1. PICK g : \A s \in SUBSET S : Cardinality(s) <= k => g[s] = after(g, s)
    BY <1>3
  <2> DEFINE h == [s \in SUBSET S |-> after(g, s)]
  <2>2. ASSUME NEW s \in SUBSET S, Cardinality(s) <= k + 1 PROVE h[s] = after(h, s)
    <3>1. CASE s = {}
      BY <3>1
    <3>2. CASE s # {}
      <4> DEFINE r == s \ {pick[s]}
      <4>1. pick[s] \in s /\ IsFiniteSet(s) /\ r \in SUBSET S
        BY <1>1, <3>2 DEF IsPick
      <4>2. Cardinality(r) = Cardinality(s) - 1
        BY <4>1, FS_RemoveElement
      <4>3. Cardinality(r) <= k
        BY <1>1, <2>2, <4>2
      <4>4. g[r] = after(g, r)
        BY <2>1, <4>1, <4>3
      <4>5. h[r] = after(g, r) /\ h[s] = after(g, s)
        BY <4>1
      <4>6. after(g, s) = val[pick[s]] + g[r] /\ after(h, s) = val[pick[s]] + h[r]
        BY <3>2
      <4> HIDE DEF r, h, after
      <4> QED
        BY <4>4, <4>5, <4>6
    <3> QED
      BY <3>1, <3>2
  <2>3. k + 1 \in 0 .. n
    BY <1>1
  <2> HIDE DEF h, after
  <2> QED
    BY <2>2, <2>3
<1> HIDE DEF C
<1>4. 0 .. n \subseteq C
  BY <1>1, <1>2, <1>3, Induction
<1>5. n \in C
  BY <1>1, <1>4
<1>6. PICK g : \A s \in SUBSET S : Cardinality(s) <= n => g[s] = after(g, s)
  BY <1>5 DEF C
<1>7. \A s \in SUBSET S : g[s] = after(g, s)
  BY <1>1, <1>6
<1> DEFINE sum == [s \in SUBSET S |-> g[s]]
<1>8. ASSUME NEW s \in SUBSET S PROVE sum[s] = after(sum, s)
  <2>1. CASE s = {}
    BY <1>7, <2>1
  <2>2. CASE s # {}
    <3> DEFINE r == s \ {pick[s]}
    <3>1. sum[s] = g[s] /\ sum[r] = g[r]
      OBVIOUS
    <3>2. g[s] = val[pick[s]] + g[r]
      BY <1>7, <2>2
    <3>3. after(sum, s) = val[pick[s]] + sum[r]
      BY <2>2
    <3> HIDE DEF r, sum, after
    <3> QED
      BY <3>1, <3>2, <3>3
  <2> QED
    BY <2>1, <2>2
<1>9. sum = [s \in SUBSET S |-> sum[s]]
  OBVIOUS
<1>10. [s \in SUBSET S |-> sum[s]] = [s \in SUBSET S |-> after(sum, s)]
  BY <1>8
<1> HIDE DEF sum
<1>11. IsFold(sum, val, pick, S)
  BY <1>9, <1>10 DEF IsFold
<1> QED
  BY <1>11

\* A sum of integers is one, whichever way round it is taken.
LEMMA SumInteger ==
  ASSUME NEW S, IsFiniteSet(S), NEW val, \A x \in S : val[x] \in Int,
         NEW pick, IsPick(pick, S), NEW sum, sum[{}] = 0,
         \A s \in SUBSET S : s # {} =>
           sum[s] \in {val[pick[s]] + sum[s \ {pick[s]}], sum[s \ {pick[s]}] + val[pick[s]]}
  PROVE  \A s \in SUBSET S : sum[s] \in Int
<1> DEFINE T == {s \in SUBSET S : sum[s] \in Int}
<1>1. {} \in T
  OBVIOUS
<1>2. ASSUME NEW s \in SUBSET S, s # {} PROVE \E x \in s : s \ {x} \in T => s \in T
  <2>1. pick[s] \in s
    BY <1>2 DEF IsPick
  <2>2. sum[s] \in {val[pick[s]] + sum[s \ {pick[s]}], sum[s \ {pick[s]}] + val[pick[s]]}
    BY <1>2
  <2>3. val[pick[s]] \in Int
    BY <2>1
  <2>4. s \ {pick[s]} \in T => s \in T
    BY <2>2, <2>3
  <2> HIDE DEF T
  <2> QED
    BY <2>1, <2>4
<1> HIDE DEF T
<1>3. SUBSET S \subseteq T
  BY <1>1, <1>2, SubsetInduction
<1> QED
  BY <1>3 DEF T

\* SumFunction is such a sum.
LEMMA SumFunctionSums ==
  ASSUME NEW f, NEW S, IsFiniteSet(S), DOMAIN f = S
  PROVE  \E pick, sum : IsSum(sum, f, pick, S) /\ SumFunction(f) = sum[S]
<1> DEFINE pick == [s \in SUBSET S |-> CHOOSE x \in s : TRUE]
<1> DEFINE Is(iter) == iter = [s \in SUBSET S |->
                                IF s = {} THEN 0
                                ELSE f[CHOOSE x \in s : TRUE] + iter[s \ {CHOOSE x \in s : TRUE}]]
<1> DEFINE it == CHOOSE iter : Is(iter)
<1>1. SumFunction(f) = it[S]
  BY DEF SumFunction, SumFunctionOnSet, FoldFunctionOnSet, MapThenFoldSet
<1>2. IsPick(pick, S)
  BY DEF IsPick
<1>3. PICK sum : IsFold(sum, f, pick, S)
  BY <1>2, SumExists
<1>4. \A iter : Is(iter) <=> IsFold(iter, f, pick, S)
  <2> SUFFICES ASSUME NEW iter PROVE Is(iter) <=> IsFold(iter, f, pick, S)
    OBVIOUS
  <2>1. \A s \in SUBSET S : pick[s] = CHOOSE x \in s : TRUE
    OBVIOUS
  <2> HIDE DEF pick
  <2> QED
    BY <2>1 DEF IsFold
<1>5. Is(it)
  <2> HIDE DEF Is
  <2> QED
    BY <1>3, <1>4
<1>6. IsFold(it, f, pick, S)
  BY <1>4, <1>5
<1> HIDE DEF it, pick
<1>7. /\ it[{}] = 0
      /\ \A s \in SUBSET S : s # {} => it[s] = f[pick[s]] + it[s \ {pick[s]}]
  BY <1>6, SumStep
<1>8. IsSum(it, f, pick, S)
  BY <1>2, <1>7 DEF IsSum
<1> QED
  BY <1>1, <1>8

\* The total of integers is one.
LEMMA TotalInteger ==
  ASSUME NEW vs \in Seq(Int)
  PROVE  Total(vs) \in Int
<1> DEFINE S == DOMAIN vs
<1> DEFINE pick == [s \in SUBSET S |-> Max(s)]
<1> DEFINE Is(iter) == iter = [s \in SUBSET S |->
                                IF s = {} THEN 0 ELSE iter[s \ {Max(s)}] + vs[Max(s)]]
<1> DEFINE it == CHOOSE iter : Is(iter)
<1>1. Total(vs) = it[S]
  BY DEF Total, FoldLeft, MapThenFoldSet
<1>2. IsFiniteSet(S) /\ S = 1 .. Len(vs) /\ \A i \in S : vs[i] \in Int
  BY FS_Interval
<1>3. IsPick(pick, S)
  <2> SUFFICES ASSUME NEW s \in SUBSET S, s # {} PROVE Max(s) \in s
    BY DEF IsPick
  <2>1. s \in SUBSET Nat /\ Len(vs) \in Nat /\ \A k \in s : k <= Len(vs)
    BY <1>2
  <2> QED
    BY <2>1, GreatestOf
<1>4. \A iter : Is(iter) <=> iter = [s \in SUBSET S |->
                                       IF s = {} THEN 0 ELSE iter[s \ {pick[s]}] + vs[pick[s]]]
  <2> SUFFICES ASSUME NEW iter
               PROVE  [s \in SUBSET S |-> IF s = {} THEN 0 ELSE iter[s \ {Max(s)}] + vs[Max(s)]]
                      = [s \in SUBSET S |-> IF s = {} THEN 0 ELSE iter[s \ {pick[s]}] + vs[pick[s]]]
    OBVIOUS
  <2>1. \A s \in SUBSET S : pick[s] = Max(s)
    OBVIOUS
  <2> HIDE DEF pick
  <2> QED
    BY <2>1
<1>5. PICK sum : IsFold(sum, vs, pick, S)
  <2> HIDE DEF pick, S
  <2> QED
    BY <1>2, <1>3, SumExists
<1> HIDE DEF pick
<1>6. /\ sum[{}] = 0
      /\ \A s \in SUBSET S : s # {} => sum[s] = vs[pick[s]] + sum[s \ {pick[s]}]
  <2> HIDE DEF S
  <2>1. IsFold(sum, vs, pick, S)
    BY <1>5, Zenon
  <2> QED
    BY <2>1, SumStep
<1>7. \A s \in SUBSET S : sum[s] \in Int
  <2> HIDE DEF S
  <2>1. \A s \in SUBSET S : s # {} =>
          sum[s] \in {vs[pick[s]] + sum[s \ {pick[s]}], sum[s \ {pick[s]}] + vs[pick[s]]}
    BY <1>6
  <2> QED
    BY <1>2, <1>3, <1>6, <2>1, SumInteger
<1>8. Is(sum)
  <2> DEFINE at(s) == IF s = {} THEN 0 ELSE vs[pick[s]] + sum[s \ {pick[s]}]
  <2> DEFINE as(s) == IF s = {} THEN 0 ELSE sum[s \ {pick[s]}] + vs[pick[s]]
  <2>1. sum = [s \in SUBSET S |-> at(s)]
    BY <1>5 DEF IsFold
  <2>2. ASSUME NEW s \in SUBSET S PROVE at(s) = as(s)
    <3>1. CASE s = {}
      BY <3>1
    <3>2. CASE s # {}
      <4>1. pick[s] \in S /\ s \ {pick[s]} \in SUBSET S
        BY <1>3, <3>2 DEF IsPick
      <4>2. vs[pick[s]] \in Int /\ sum[s \ {pick[s]}] \in Int
        BY <1>2, <1>7, <4>1
      <4> QED
        BY <3>2, <4>2
    <3> QED
      BY <3>1, <3>2
  <2> HIDE DEF at
  <2>3. sum = [s \in SUBSET S |-> as(s)]
    <3> HIDE DEF as
    <3> QED
      BY <2>1, <2>2
  <2> HIDE DEF Is
  <2> QED
    BY <1>4, <2>3
<1>9. Is(it)
  <2> HIDE DEF Is
  <2> QED
    BY <1>8
<1>10. it = [s \in SUBSET S |-> IF s = {} THEN 0 ELSE it[s \ {pick[s]}] + vs[pick[s]]]
  <2> HIDE DEF Is, it
  <2> QED
    BY <1>4, <1>9
<1> HIDE DEF Is, it
<1>11. /\ it[{}] = 0
       /\ \A s \in SUBSET S : s # {} => it[s] = it[s \ {pick[s]}] + vs[pick[s]]
  <2> DEFINE as(s) == IF s = {} THEN 0 ELSE it[s \ {pick[s]}] + vs[pick[s]]
  <2>1. it = [s \in SUBSET S |-> as(s)]
    BY <1>10
  <2> HIDE DEF as
  <2>2. \A s \in SUBSET S : it[s] = as(s)
    BY <2>1
  <2> QED
    BY <2>2 DEF as
<1>12. \A s \in SUBSET S : it[s] \in Int
  <2> HIDE DEF S
  <2>1. \A s \in SUBSET S : s # {} =>
          it[s] \in {vs[pick[s]] + it[s \ {pick[s]}], it[s \ {pick[s]}] + vs[pick[s]]}
    BY <1>11
  <2> QED
    BY <1>2, <1>3, <1>11, <2>1, SumInteger
<1> QED
  BY <1>1, <1>12

\* No bar is longer than the space for bars.
THEOREM BarsFit ==
  ASSUME NEW groups, IsFiniteSet(DOMAIN groups),
         \A m \in DOMAIN groups : groups[m] \in Seq(Int) /\ groups[m] # <<>>,
         NEW terminal, terminal.width \in Nat, terminal.width >= 20, NEW l \in DOMAIN groups
  PROVE  BarChart(groups, terminal)[l] <= terminal.width - 20
<1> DEFINE D == DOMAIN groups
<1> DEFINE a == [m \in D |-> Total(groups[m])]
<1> DEFINE b == [m \in D |-> Len(groups[m])]
<1> DEFINE Best(k) == \A m \in D : Total(groups[m]) * Len(groups[k])
                                    <= Total(groups[k]) * Len(groups[m])
<1> DEFINE highest == CHOOSE k \in D : Best(k)
<1> DEFINE most == Max({0, Total(groups[highest])})
<1> DEFINE space == terminal.width - 20
<1> DEFINE x == Total(groups[l]) * Len(groups[highest])
<1> DEFINE y == most * Len(groups[l])
<1> DEFINE num == 10 * space * Total(groups[l]) * Len(groups[highest])
<1> DEFINE den == 11 * most * Len(groups[l])
<1> DEFINE length == Quotient(num, den)
<1>1. \A m \in D : Total(groups[m]) \in Int /\ Len(groups[m]) \in Nat \ {0}
  <2> SUFFICES ASSUME NEW m \in D PROVE Total(groups[m]) \in Int /\ Len(groups[m]) \in Nat \ {0}
    OBVIOUS
  <2>1. groups[m] \in Seq(Int) /\ groups[m] # <<>>
    OBVIOUS
  <2>2. Len(groups[m]) \in Nat \ {0}
    BY <2>1
  <2> QED
    BY <2>1, <2>2, TotalInteger
<1>2. BarChart(groups, terminal)[l] = Max({0, length})
  BY DEF BarChart
<1>3. space \in Nat
  OBVIOUS
<1> HIDE DEF D
<1>4. \E k \in D : Best(k)
  <2>1. a \in [D -> Int] /\ b \in [D -> Nat \ {0}]
    BY <1>1
  <2>2. D # {} /\ IsFiniteSet(D)
    BY DEF D
  <2>3. \A m \in D : a[m] = Total(groups[m]) /\ b[m] = Len(groups[m])
    OBVIOUS
  <2> HIDE DEF a, b
  <2>4. PICK k \in D : \A m \in D : a[m] * b[k] <= a[k] * b[m]
    BY <2>1, <2>2, GreatestQuotient
  <2> QED
    BY <2>3, <2>4
<1>5. highest \in D /\ Best(highest)
  <2> HIDE DEF Best
  <2> QED
    BY <1>4
<1> HIDE DEF highest, space
<1>6. l \in D
  BY DEF D
<1>7. /\ Total(groups[l]) \in Int /\ Total(groups[highest]) \in Int
      /\ Len(groups[l]) \in Nat \ {0} /\ Len(groups[highest]) \in Nat \ {0}
  BY <1>1, <1>5, <1>6
<1>8. most = IF 0 >= Total(groups[highest]) THEN 0 ELSE Total(groups[highest])
  BY <1>7, OrZero
<1>9. x <= Total(groups[highest]) * Len(groups[l])
  BY <1>5, <1>6
<1> DEFINE tl == Total(groups[l])
<1> DEFINE th == Total(groups[highest])
<1> DEFINE nl == Len(groups[l])
<1> DEFINE nh == Len(groups[highest])
<1>10. /\ tl \in Int /\ th \in Int /\ nl \in Nat \ {0} /\ nh \in Nat \ {0}
       /\ x = tl * nh /\ y = most * nl /\ x <= th * nl
       /\ num = 10 * space * tl * nh /\ den = 11 * most * nl
       /\ most = IF 0 >= th THEN 0 ELSE th
  BY <1>7, <1>8, <1>9
<1> HIDE DEF tl, th, nl, nh, x, y, num, den, most
<1>11. most \in Nat /\ x \in Int /\ y \in Nat
  <2>1. most \in Nat
    BY <1>10
  <2> QED
    BY <1>10, <2>1, SMT
<1>12. x <= y
  <2>1. CASE 0 >= th
    <3>1. th * nl <= 0 /\ th * nl \in Int /\ y = 0
      BY <1>10, <2>1, SMT
    <3> DEFINE z == th * nl
    <3>2. z <= 0 /\ z \in Int /\ y = 0 /\ x <= z
      BY <1>10, <3>1
    <3> HIDE DEF z
    <3> QED
      BY <1>11, <3>2
  <2>2. CASE ~(0 >= th)
    BY <1>10, <2>2
  <2> QED
    BY <2>1, <2>2
<1>13. num = 10 * (space * x) /\ den = 11 * y
  BY <1>3, <1>10, <1>11, SMT
<1>14. length \in Int /\ length <= space
  <2>1. CASE y = 0
    BY <1>3, <1>13, <2>1 DEF Quotient
  <2>2. CASE y # 0
    <3> DEFINE u == space * x
    <3> DEFINE v == space * y
    <3>1. u <= v /\ u \in Int /\ v \in Nat
      BY <1>3, <1>11, <1>12, SMT
    <3>2. den * (space + 1) = 11 * v + 11 * y
      BY <1>3, <1>11, <1>13, SMT
    <3>3. num = 10 * u /\ den \in Nat \ {0} /\ den = 11 * y
      BY <1>11, <1>13, <2>2
    <3> HIDE DEF u, v
    <3>4. num \in Int /\ num < den * (space + 1)
      BY <1>11, <2>2, <3>1, <3>2, <3>3
    <3> DEFINE q == num \div den
    <3>5. q \in Int /\ den * q <= num
      BY <3>3, <3>4, FloorDivision
    <3>6. length = q
      BY <3>3 DEF Quotient
    <3> HIDE DEF q
    <3>7. SUFFICES ASSUME space + 1 <= q PROVE FALSE
      BY <1>3, <3>5, <3>6
    <3>8. den * (space + 1) <= den * q
      BY <1>3, <3>3, <3>5, <3>7, SMT
    <3>9. den * (space + 1) \in Int /\ den * q \in Int
      BY <1>3, <3>3, <3>5, SMT
    <3> QED
      BY <3>4, <3>5, <3>8, <3>9
  <2> QED
    BY <2>1, <2>2
<1> HIDE DEF length
<1>15. Max({0, length}) = IF 0 >= length THEN 0 ELSE length
  BY <1>14, OrZero
<1> DEFINE bar == Max({0, length})
<1>16. bar = IF 0 >= length THEN 0 ELSE length
  BY <1>15
<1>17. BarChart(groups, terminal)[l] = bar
  BY <1>2
<1> HIDE DEF bar
<1>18. bar <= space
  BY <1>3, <1>14, <1>16
<1> QED
  BY <1>17, <1>18 DEF space

\* A histogram counts every element once, whatever puts it in its bin.
LEMMA CountedOnce ==
  ASSUME NEW D, IsFiniteSet(D), NEW S, IsFiniteSet(S), NEW bin \in [D -> S],
         NEW f
  PROVE  DOMAIN f = S /\ (\A b \in S : f[b] = Cardinality({i \in D : bin[i] = b}))
           => SumFunction(f) = Cardinality(D)
<1>1. SUFFICES ASSUME DOMAIN f = S, \A b \in S : f[b] = Cardinality({i \in D : bin[i] = b})
               PROVE  SumFunction(f) = Cardinality(D)
  OBVIOUS
<1> DEFINE part(s) == {i \in D : bin[i] \in s}
<1>2. PICK pick, sum : IsSum(sum, f, pick, S) /\ SumFunction(f) = sum[S]
  BY <1>1, SumFunctionSums
<1>3. /\ sum[{}] = 0 /\ IsPick(pick, S)
      /\ \A s \in SUBSET S : s # {} => sum[s] = f[pick[s]] + sum[s \ {pick[s]}]
  BY <1>2 DEF IsSum
<1> DEFINE T == {s \in SUBSET S : sum[s] = Cardinality(part(s))}
<1>4. {} \in T
  <2>1. part({}) = {}
    OBVIOUS
  <2>2. Cardinality(part({})) = 0
    BY <2>1, FS_EmptySet
  <2> HIDE DEF part
  <2> QED
    BY <1>3, <2>2
<1>5. ASSUME NEW s \in SUBSET S, s # {} PROVE \E x \in s : s \ {x} \in T => s \in T
  <2> DEFINE b == pick[s]
  <2> DEFINE one == {i \in D : bin[i] = b}
  <2> DEFINE rest == part(s \ {b})
  <2>1. b \in s /\ b \in S
    BY <1>3, <1>5 DEF IsPick
  <2>2. sum[s] = f[b] + sum[s \ {b}] /\ f[b] = Cardinality(one)
    BY <1>1, <1>3, <1>5, <2>1
  <2>3. part(s) = one \cup rest /\ one \cap rest = {}
    BY <2>1
  <2>4. one \in SUBSET D /\ rest \in SUBSET D
    OBVIOUS
  <2> HIDE DEF one, rest, b
  <2>5. IsFiniteSet(one) /\ IsFiniteSet(rest)
    BY <2>4, FS_Subset
  <2>6. /\ Cardinality(one \cup rest)
           = Cardinality(one) + Cardinality(rest) - Cardinality(one \cap rest)
        /\ Cardinality(one) \in Nat /\ Cardinality(rest) \in Nat
    BY <2>5, FS_Union, FS_CardinalityType
  <2>7. Cardinality(part(s)) = Cardinality(one) + Cardinality(rest)
    <3>1. Cardinality(one \cap rest) = 0
      BY <2>3, FS_EmptySet
    <3>2. Cardinality(part(s)) = Cardinality(one \cup rest)
      BY <2>3, Zenon
    <3> QED
      BY <2>6, <3>1, <3>2
  <2>8. s \ {b} \in T => s \in T
    <3> SUFFICES ASSUME sum[s \ {b}] = Cardinality(rest) PROVE sum[s] = Cardinality(part(s))
      BY DEF rest
    <3> QED
      BY <2>2, <2>7
  <2> HIDE DEF T
  <2> QED
    BY <2>1, <2>8
<1> HIDE DEF T
<1>6. SUBSET S \subseteq T
  <2>1. {} \in T /\ \A s \in SUBSET S : s # {} => \E x \in s : s \ {x} \in T => s \in T
    BY <1>4, <1>5, Zenon
  <2> QED
    BY <2>1, SubsetInduction
<1>7. sum[S] = Cardinality(part(S))
  <2>1. S \in T
    BY <1>6
  <2> QED
    BY <2>1 DEF T
<1>8. part(S) = D
  OBVIOUS
<1> QED
  BY <1>2, <1>7, <1>8

\* The bins of a histogram count every value once.
THEOREM EachCountedOnce ==
  ASSUME NEW vs \in Seq(Int), vs # <<>>
  PROVE  SumFunction(Histogram(vs)) = Len(vs)
<1> DEFINE D == DOMAIN vs
<1> DEFINE bin == [i \in D |-> Bin(vs, vs[i])]
<1>1. IsFiniteSet(D) /\ Cardinality(D) = Len(vs) /\ D = 1 .. Len(vs)
  <2>1. D = 1 .. Len(vs) /\ Len(vs) \in Nat /\ Len(vs) # 0
    OBVIOUS
  <2>2. IsFiniteSet(1 .. Len(vs)) /\ Cardinality(1 .. Len(vs)) = Len(vs)
    BY <2>1, FS_Interval
  <2> QED
    BY <2>1, <2>2
<1>2. IsFiniteSet(0 .. 9)
  <2>1. 0 \in Int /\ 9 \in Int
    OBVIOUS
  <2> QED
    BY <2>1, FS_Interval, Zenon
<1>3. ASSUME NEW i \in D PROVE Bin(vs, vs[i]) \in 0 .. 9
  <2> DEFINE up == (vs[i] - Lowest(vs)) * 10
  <2> DEFINE q == Quotient(up, Spread(vs))
  <2>2. /\ vs[i] \in Int /\ Lowest(vs) \in Int /\ Highest(vs) \in Int
        /\ Lowest(vs) <= vs[i] /\ Lowest(vs) <= Highest(vs)
    BY <1>1, SummaryOrder
  <2>3. up \in Nat /\ Spread(vs) \in Nat
    BY <2>2 DEF Spread
  <2>4. Bin(vs, vs[i]) = Min({9, q})
    BY DEF Bin, NumBins
  <2> HIDE DEF up
  <2>5. q \in Nat
    <3>1. CASE Spread(vs) = 0
      BY <3>1 DEF Quotient
    <3>2. CASE Spread(vs) # 0
      <4>1. up \div Spread(vs) \in Nat
        BY <2>3, <3>2, Division
      <4> QED
        BY <3>2, <4>1 DEF Quotient
    <3> QED
      BY <3>1, <3>2
  <2> HIDE DEF q
  <2> DEFINE m == Min({9, q})
  <2>6. m = IF 9 <= q THEN 9 ELSE q
    BY <2>5, OfTwo
  <2>7. Bin(vs, vs[i]) = m
    BY <2>4
  <2> HIDE DEF m
  <2>8. m \in 0 .. 9
    BY <2>5, <2>6
  <2> QED
    BY <2>7, <2>8
<1>4. bin \in [D -> 0 .. 9] /\ \A i \in D : bin[i] = Bin(vs, vs[i])
  BY <1>3
<1>5. Histogram(vs) = [b \in 0 .. 9 |-> Cardinality({i \in D : bin[i] = b})]
  <2> DEFINE mine(b) == Cardinality({i \in D : bin[i] = b})
  <2> DEFINE its(b) == Cardinality({i \in D : Bin(vs, vs[i]) = b})
  <2>1. Histogram(vs) = [b \in 0 .. 9 |-> its(b)]
    BY DEF Histogram, NumBins
  <2>2. \A b : {i \in D : bin[i] = b} = {i \in D : Bin(vs, vs[i]) = b}
    BY <1>4
  <2>3. \A b : mine(b) = its(b)
    BY <2>2, Zenon
  <2> HIDE DEF mine, its
  <2>4. Histogram(vs) = [b \in 0 .. 9 |-> mine(b)]
    BY <2>1, <2>3
  <2> QED
    BY <2>4 DEF mine
<1> DEFINE f == Histogram(vs)
<1> DEFINE S == 0 .. 9
<1>6. /\ IsFiniteSet(D) /\ IsFiniteSet(S) /\ bin \in [D -> S]
      /\ DOMAIN f = S /\ \A b \in S : f[b] = Cardinality({i \in D : bin[i] = b})
  BY <1>1, <1>2, <1>4, <1>5
<1> HIDE DEF D, bin, f, S
<1>7. SumFunction(f) = Cardinality(D)
  BY <1>6, CountedOnce
<1> QED
  BY <1>1, <1>7 DEF f

\* The values of finitely many metrics have a least and a greatest.
LEMMA ScaleOfAll ==
  ASSUME NEW groups, IsFiniteSet(DOMAIN groups), DOMAIN groups # {},
         \A m \in DOMAIN groups : groups[m] \in Seq(Int) /\ groups[m] # <<>>
  PROVE  LET values == AllValues(groups)
         IN /\ Min(values) \in Int /\ Max(values) \in Int
            /\ \A v \in values : v \in Int /\ Min(values) <= v /\ v <= Max(values)
<1> DEFINE D == DOMAIN groups
<1> DEFINE high == [m \in D |-> Highest(groups[m])]
<1> DEFINE low == [m \in D |-> -Lowest(groups[m])]
<1> DEFINE one == [m \in D |-> 1]
<1> DEFINE values == AllValues(groups)
<1>1. ASSUME NEW m \in D
      PROVE  /\ Highest(groups[m]) \in Range(groups[m]) /\ Lowest(groups[m]) \in Range(groups[m])
             /\ \A v \in Range(groups[m]) :
                  v \in Int /\ Lowest(groups[m]) <= v /\ v <= Highest(groups[m])
  <2> DEFINE vs == groups[m]
  <2>1. vs \in Seq(Int) /\ vs # <<>>
    OBVIOUS
  <2> HIDE DEF vs
  <2>2. DOMAIN vs = 1 .. Len(vs)
    BY <2>1
  <2>3. /\ Highest(vs) \in Range(vs) /\ Lowest(vs) \in Range(vs)
        /\ \A i \in 1 .. Len(vs) : vs[i] \in Int /\ Lowest(vs) <= vs[i] /\ vs[i] <= Highest(vs)
    BY <2>1, <2>2, SummaryOrder
  <2>4. Range(vs) = {vs[i] : i \in 1 .. Len(vs)}
    BY <2>2 DEF Range
  <2> QED
    BY <2>3, <2>4 DEF vs
<1>2. \A m \in D : Highest(groups[m]) \in Int /\ Lowest(groups[m]) \in Int
  BY <1>1
<1>3. /\ high \in [D -> Int] /\ low \in [D -> Int] /\ one \in [D -> Nat \ {0}]
      /\ \A m \in D : high[m] = Highest(groups[m]) /\ low[m] = -Lowest(groups[m]) /\ one[m] = 1
  BY <1>2
<1>4. D # {} /\ IsFiniteSet(D)
  OBVIOUS
<1>5. values = UNION {Range(groups[m]) : m \in D}
  BY DEF AllValues
<1> HIDE DEF D, high, low, one
<1>6. PICK k \in D : \A m \in D : high[m] * one[k] <= high[k] * one[m]
  BY <1>3, <1>4, GreatestQuotient
<1>7. PICK j \in D : \A m \in D : low[m] * one[j] <= low[j] * one[m]
  BY <1>3, <1>4, GreatestQuotient
<1>8. \A m \in D : Highest(groups[m]) <= Highest(groups[k])
  BY <1>2, <1>3, <1>6
<1>9. \A m \in D : Lowest(groups[j]) <= Lowest(groups[m])
  BY <1>2, <1>3, <1>7
<1>10. ASSUME NEW v \in values
       PROVE  v \in Int /\ Lowest(groups[j]) <= v /\ v <= Highest(groups[k])
  <2>1. PICK m \in D : v \in Range(groups[m])
    BY <1>5
  <2>2. v \in Int /\ Lowest(groups[m]) <= v /\ v <= Highest(groups[m])
    BY <1>1, <2>1
  <2>3. /\ Lowest(groups[j]) <= Lowest(groups[m]) /\ Highest(groups[m]) <= Highest(groups[k])
        /\ Lowest(groups[j]) \in Int /\ Lowest(groups[m]) \in Int
        /\ Highest(groups[m]) \in Int /\ Highest(groups[k]) \in Int
    BY <1>2, <1>8, <1>9
  <2> QED
    BY <2>2, <2>3
<1>11. Highest(groups[k]) \in values /\ Lowest(groups[j]) \in values
  BY <1>1, <1>5
<1> HIDE DEF values
<1>12. Min(values) \in values /\ \A v \in values : Min(values) <= v
  BY <1>10, <1>11 DEF Min
<1>13. Max(values) \in values /\ \A v \in values : v <= Max(values)
  <2>1. \A v \in values : Highest(groups[k]) >= v
    BY <1>10, <1>11
  <2>2. Max(values) \in values /\ \A v \in values : Max(values) >= v
    BY <1>11, <2>1 DEF Max
  <2> QED
    BY <1>10, <2>2
<1> QED
  BY <1>10, <1>12, <1>13 DEF values

\* Steps of a stride stay inside what is strode through.
LEMMA Strides ==
  ASSUME NEW n \in Nat \ {0}, NEW stride \in Nat \ {0},
         NEW i \in 1 .. (n + stride - 1) \div stride
  PROVE  (i - 1) * stride + 1 \in 1 .. n
<1> DEFINE q == (n + stride - 1) \div stride
<1> DEFINE p == i - 1
<1> DEFINE r == q - 1
<1>1. q \in Nat /\ stride * q <= n + stride - 1
  <2>1. n + stride - 1 \in Nat
    OBVIOUS
  <2> QED
    BY <2>1, Division
<1>2. p \in Nat /\ r \in Nat /\ p <= r /\ q = r + 1
  <2> HIDE DEF q
  <2>1. i \in 1 .. q
    BY DEF q
  <2> QED
    BY <1>1, <2>1
<1> HIDE DEF p, q, r
<1>3. stride * q = stride * r + stride
  BY <1>2, SMT
<1>4. p * stride <= stride * r /\ p * stride \in Nat /\ stride * r \in Nat
  BY <1>2, SMT
<1> DEFINE u == p * stride
<1> DEFINE w == stride * r
<1>5. u \in Nat /\ w \in Nat /\ u <= w /\ w + stride <= n + stride - 1
  BY <1>1, <1>3, <1>4
<1>6. (i - 1) * stride = u
  BY DEF p
<1> HIDE DEF u, w
<1> QED
  BY <1>5, <1>6

\* Every colour of a heatmap is one of the scale.
THEOREM ColoursOfTheScale ==
  ASSUME NEW groups, IsFiniteSet(DOMAIN groups),
         \A m \in DOMAIN groups : groups[m] \in Seq(Int) /\ groups[m] # <<>>,
         NEW first \in DOMAIN groups, NEW l \in DOMAIN groups,
         NEW terminal, terminal.width \in Nat, NEW labelWidth \in Nat
  PROVE  Range(Heatmap(groups, groups[first], terminal, labelWidth)[l]) \subseteq 0 .. NumColors - 1
<1> DEFINE values == AllValues(groups)
<1> DEFINE least == Min(values)
<1> DEFINE most == Max(values)
<1> DEFINE stride == HeatStep(groups[first], terminal, labelWidth)
<1> DEFINE n == Len(groups[l])
<1> DEFINE cells == Heatmap(groups, groups[first], terminal, labelWidth)[l]
<1>1. /\ least \in Int /\ most \in Int
      /\ \A v \in values : v \in Int /\ least <= v /\ v <= most
  BY ScaleOfAll
<1>2. ASSUME NEW v \in values PROVE Color(values, v) \in 0 .. NumColors - 1
  <2> DEFINE q == ((v - least) * NumColors) \div (most - least)
  <2>1. Color(values, v) = IF most = least THEN IF v = 0 THEN 0 ELSE NumColors \div 2
                           ELSE Min({q, NumColors - 1})
    BY DEF Color
  <2>2. v \in Int /\ least <= v /\ v <= most
    BY <1>1
  <2> HIDE DEF values, least, most
  <2>3. CASE most = least
    BY <2>1, <2>3 DEF NumColors
  <2>4. CASE most # least
    <3>1. (v - least) * 9 \in Nat /\ most - least \in Nat \ {0}
      BY <1>1, <2>2, <2>4
    <3>2. q \in Nat
      BY <3>1, Division DEF NumColors
    <3> DEFINE m == Min({q, 8})
    <3> HIDE DEF q
    <3>3. m = IF q <= 8 THEN q ELSE 8
      BY <3>2, OfTwo
    <3>4. Color(values, v) = m
      BY <2>1, <2>4 DEF NumColors
    <3> HIDE DEF m
    <3>5. m \in 0 .. 8
      BY <3>2, <3>3
    <3> QED
      BY <3>4, <3>5 DEF NumColors
  <2> QED
    BY <2>3, <2>4
<1>3. stride \in Nat \ {0}
  <2> DEFINE points == TimePoints(terminal, labelWidth)
  <2> DEFINE q == Len(groups[first]) \div points
  <2>1. stride = IF points <= 0 THEN 1 ELSE Max({1, q})
    BY DEF HeatStep
  <2>2. points \in Int
    BY DEF TimePoints
  <2>3. Len(groups[first]) \in Nat
    OBVIOUS
  <2> HIDE DEF points, stride
  <2>4. CASE points <= 0
    BY <2>1, <2>4
  <2>5. CASE points > 0
    <3>1. q \in Nat
      <4>1. points \in Nat \ {0}
        BY <2>2, <2>5
      <4> QED
        BY <2>3, <4>1, Division
    <3> HIDE DEF q
    <3> DEFINE m == Max({1, q})
    <3>2. m = IF 1 >= q THEN 1 ELSE q
      <4>1. 1 \in Int /\ q \in Int
        BY <3>1
      <4> QED
        BY <4>1, OfTwo, Zenon
    <3>3. stride = m
      BY <2>1, <2>2, <2>5
    <3> HIDE DEF m
    <3> QED
      BY <3>1, <3>2, <3>3
  <2> QED
    BY <2>2, <2>4, <2>5
<1>4. n \in Nat \ {0} /\ groups[l] \in Seq(Int)
  <2>1. groups[l] \in Seq(Int) /\ groups[l] # <<>>
    OBVIOUS
  <2> QED
    BY <2>1
<1>5. cells = [i \in 1 .. (n + stride - 1) \div stride |-> Color(values, groups[l][(i - 1) * stride + 1])]
  BY DEF Heatmap
<1> HIDE DEF values, least, most, stride, n, cells
<1>6. ASSUME NEW i \in 1 .. (n + stride - 1) \div stride
      PROVE  groups[l][(i - 1) * stride + 1] \in values
  <2> DEFINE at == (i - 1) * stride + 1
  <2>1. at \in 1 .. n
    BY <1>3, <1>4, Strides
  <2> HIDE DEF at
  <2>2. at \in DOMAIN groups[l]
    BY <1>4, <2>1 DEF n
  <2>3. groups[l][at] \in Range(groups[l])
    BY <2>2 DEF Range
  <2>4. groups[l][at] \in values
    BY <2>3 DEF values, AllValues
  <2> QED
    BY <2>4 DEF at
<1>7. \A i \in DOMAIN cells : cells[i] \in 0 .. NumColors - 1
  BY <1>2, <1>5, <1>6
<1>8. Range(cells) \subseteq 0 .. NumColors - 1
  BY <1>7 DEF Range
<1> QED
  BY <1>8 DEF cells

------------------------------------------------------------------------------
(* Charts: what a chart shows.                                             *)

\* A terminal a line chart fits in.
Fits(t) == t.width \in Nat /\ t.height \in Nat /\ ~LineRefused(t) /\ ~LineFatal(t)

\* The cells of a line chart, one by one.
LEMMA LineCells ==
  ASSUME NEW vs \in Seq(Int), vs # <<>>, NEW t, Fits(t)
  PROVE  LET n == Len(vs)
             width == LineWidth(t)
             height == LineHeight(t)
             cells == LineChart(vs, t)
         IN /\ n \in Nat \ {0} /\ width \in Nat /\ height \in Nat
            /\ width # 0 => height # 0
            /\ DOMAIN vs = 1 .. n
            /\ DOMAIN cells = {i \in 1 .. n : i <= width}
            /\ \A i \in DOMAIN cells : cells[i] = <<Column(i, n, width), Row(vs, i, height)>>
<1> DEFINE n == Len(vs)
<1> DEFINE width == LineWidth(t)
<1> DEFINE height == LineHeight(t)
<1> DEFINE cells == LineChart(vs, t)
<1> DEFINE m == Min({n, width})
<1>1. n \in Nat \ {0} /\ DOMAIN vs = 1 .. n
  OBVIOUS
<1>2. width \in Nat /\ height \in Nat /\ (width # 0 => height # 0)
  <2>1. width \in Int /\ height \in Int
    BY DEF LineWidth, LineHeight, Fits
  <2>2. ~(width < 0) /\ ~(height < 0) /\ ~(width > 0 /\ height = 0)
    BY DEF Fits, LineRefused, LineFatal
  <2> HIDE DEF width, height
  <2> QED
    BY <2>1, <2>2
<1>3. cells = [i \in 1 .. m |-> <<Column(i, n, width), Row(vs, i, height)>>]
  BY DEF LineChart
<1> HIDE DEF cells, width, height
<1>4. m = IF n <= width THEN n ELSE width
  BY <1>1, <1>2, OfTwo
<1> HIDE DEF m, n
<1>5. 1 .. m = {i \in 1 .. n : i <= width}
  BY <1>1, <1>2, <1>4
<1> QED
  BY <1>1, <1>2, <1>3, <1>5 DEF cells, n, width, height

\* A line chart shows the values in order.
LEMMA LineInOrder ==
  ASSUME NEW vs \in Seq(Int), vs # <<>>, NEW t, Fits(t)
  PROVE  InOrder(vs, LineChart(vs, t))
<1> DEFINE n == Len(vs)
<1> DEFINE width == LineWidth(t)
<1> DEFINE height == LineHeight(t)
<1> DEFINE cells == LineChart(vs, t)
<1>1. /\ n \in Nat \ {0} /\ width \in Nat /\ height \in Nat
      /\ width # 0 => height # 0
      /\ DOMAIN cells = {i \in 1 .. n : i <= width}
      /\ \A i \in DOMAIN cells : cells[i] = <<Column(i, n, width), Row(vs, i, height)>>
  BY LineCells
<1> HIDE DEF n, width, height, cells
<1>2. SUFFICES ASSUME NEW i \in DOMAIN cells, NEW j \in DOMAIN cells
               PROVE  /\ i < j => cells[i][1] <= cells[j][1]
                      /\ vs[i] <= vs[j] => cells[i][2] >= cells[j][2]
  BY DEF InOrder, cells
<1>3. /\ i \in 1 .. n /\ j \in 1 .. n /\ height \in Nat \ {0}
      /\ cells[i][1] = Column(i, n, width) /\ cells[i][2] = Row(vs, i, height)
      /\ cells[j][1] = Column(j, n, width) /\ cells[j][2] = Row(vs, j, height)
  BY <1>1, <1>2
<1>4. ASSUME i < j PROVE cells[i][1] <= cells[j][1]
  <2>1. i \in 1 .. n /\ j \in i .. n /\ n > 1
    BY <1>1, <1>3, <1>4
  <2>2. Column(i, n, width) <= Column(j, n, width)
    BY <1>1, <2>1, LeftToRight
  <2> QED
    BY <1>3, <2>2
<1>5. ASSUME vs[i] <= vs[j] PROVE cells[i][2] >= cells[j][2]
  <2>1. Row(vs, j, height) <= Row(vs, i, height) /\ Row(vs, i, height) \in 0 .. height - 1
    BY <1>3, <1>5, RowsInOrder DEF n
  <2>2. Row(vs, j, height) \in 0 .. height - 1
    <3>1. vs[j] <= vs[j]
      <4>1. vs[j] \in Int
        BY <1>3 DEF n
      <4> QED
        BY <4>1
    <3> QED
      BY <1>3, <3>1, RowsInOrder DEF n
  <2> QED
    BY <1>3, <2>1, <2>2
<1> QED
  BY <1>4, <1>5

\* The marks inside a line chart are those of as many values as it has
\* columns, without the last one; values beyond the width have none.
THEOREM DrawnValues ==
  ASSUME NEW vs \in Seq(Int), Len(vs) > 1, NEW t, Fits(t)
  PROVE  Visible(LineChart(vs, t), t) = {i \in DOMAIN vs : i < Len(vs) /\ i <= LineWidth(t)}
<1> DEFINE n == Len(vs)
<1> DEFINE width == LineWidth(t)
<1> DEFINE height == LineHeight(t)
<1> DEFINE cells == LineChart(vs, t)
<1> DEFINE inside == (0 .. width - 1) \X (0 .. height - 1)
<1>0. vs # <<>>
  OBVIOUS
<1>1. /\ n \in Nat \ {0} /\ width \in Nat /\ height \in Nat
      /\ width # 0 => height # 0
      /\ DOMAIN vs = 1 .. n
      /\ DOMAIN cells = {i \in 1 .. n : i <= width}
      /\ \A i \in DOMAIN cells : cells[i] = <<Column(i, n, width), Row(vs, i, height)>>
  BY <1>0, LineCells
<1>2. Visible(cells, t) = {i \in DOMAIN cells : cells[i] \in inside}
  BY DEF Visible
<1>3. n > 1
  OBVIOUS
<1> HIDE DEF n, width, height, cells
<1>4. ASSUME NEW i \in DOMAIN cells PROVE cells[i] \in inside <=> i < n
  <2>1. /\ i \in 1 .. n /\ width \in Nat \ {0} /\ height \in Nat \ {0}
        /\ cells[i] = <<Column(i, n, width), Row(vs, i, height)>>
    BY <1>1, <1>4
  <2>2. CASE i < n
    <3>1. Column(i, n, width) \in 0 .. width - 1
      <4>1. i \in 1 .. n - 1
        BY <1>1, <2>1, <2>2
      <4> QED
        BY <1>1, <2>1, <4>1, OthersInside
    <3>2. Row(vs, i, height) \in 0 .. height - 1
      <4>1. vs[i] <= vs[i]
        <5>1. vs[i] \in Int
          BY <2>1 DEF n
        <5> QED
          BY <5>1
      <4> QED
        BY <1>0, <2>1, <4>1, RowsInOrder DEF n
    <3> QED
      BY <2>1, <2>2, <3>1, <3>2
  <2>3. CASE i = n
    <3>1. Column(i, n, width) = width
      BY <1>1, <1>3, <2>3, LastOutside
    <3>2. width \notin 0 .. width - 1
      BY <1>1
    <3> QED
      BY <1>1, <2>1, <2>3, <3>1, <3>2
  <2> QED
    BY <1>1, <2>1, <2>2, <2>3
<1>5. Visible(cells, t) = {i \in 1 .. n : i < n /\ i <= width}
  <2> HIDE DEF inside
  <2> QED
    BY <1>1, <1>2, <1>4
<1> QED
  BY <1>1, <1>5 DEF cells, n, width

\* There are finitely many metrics.
LEMMA FewMetrics ==
  ASSUME FileInv, NEW lines, LinesSeen(lines)
  PROVE  IsFiniteSet(DOMAIN Grouped(lines))
<1> DEFINE D == DOMAIN lines
<1> DEFINE L == {lines[i].label : i \in D}
<1> DEFINE f == [i \in D |-> lines[i].label]
<1>1. seen.count \in Nat
  BY Counts
<1>2. D \in SUBSET (1 .. seen.count)
  BY DEF LinesSeen
<1>3. IsFiniteSet(1 .. seen.count)
  BY <1>1, FS_Interval
<1>4. IsFiniteSet(D)
  BY <1>2, <1>3, FS_Subset
<1>5. f \in Surjection(D, L)
  BY DEF Surjection
<1>6. DOMAIN Grouped(lines) = L
  BY DEF Grouped
<1> HIDE DEF D, L, f
<1>7. IsFiniteSet(L)
  BY <1>4, <1>5, FS_Surjection
<1> QED
  BY <1>6, <1>7

\* What was drawn, if anything, was drawn from finitely many metrics, each
\* with numbers for values, for a terminal it fits in.
ChartInv ==
  picture.kind # "none" =>
    /\ picture.terminal \in Terminals
    /\ ~Refused(picture.kind, picture.terminal) /\ ~Fatal(picture.kind, picture.terminal)
    /\ \E first \in DOMAIN picture.of :
         picture = Drawn(picture.kind, picture.of, picture.terminal, first)
    /\ IsFiniteSet(DOMAIN picture.of)
    /\ \A l \in DOMAIN picture.of : picture.of[l] \in Seq(Int) /\ picture.of[l] # <<>>

\* Only visualizeBenchmarkData draws, from metrics that are never empty.
LEMMA ChartStep ==
  ASSUME IInv, ChartInv, [Next]_vars
  PROVE  ChartInv'
<1>1. CASE picture' = picture
  BY <1>1 DEF ChartInv
<1>2. CASE visualizeBenchmarkData
  <2>1. tool = "visualizer" /\ step = "draw"
    BY <1>2 DEF visualizeBenchmarkData
  <2>2. PICK selected \in SUBSET DOMAIN metrics, kind \in ChartTypes, terminal \in Terminals :
          LET chosen == [l \in selected |-> metrics[l]]
          IN \/ picture' = picture
             \/ /\ ~Refused(kind, terminal) /\ ~Fatal(kind, terminal)
                /\ \E first \in selected : picture' = Drawn(kind, chosen, terminal, first)
    BY <1>2 DEF visualizeBenchmarkData, Selections
  <2> DEFINE chosen == [l \in selected |-> metrics[l]]
  <2>3. SUFFICES ASSUME NEW first \in selected, ~Refused(kind, terminal), ~Fatal(kind, terminal),
                        picture' = Drawn(kind, chosen, terminal, first)
                 PROVE  ChartInv'
    BY <1>1, <2>2
  <2>4. FileInv /\ LinesSeen(dataLines(seen)) /\ metrics = Grouped(dataLines(seen))
    BY <2>1, Accepted DEF IInv, VisualizerInv
  <2>5. IsFiniteSet(selected)
    <3>1. IsFiniteSet(DOMAIN metrics)
      BY <2>4, FewMetrics
    <3> QED
      BY <3>1, FS_Subset
  <2>6. \A l \in selected : chosen[l] \in Seq(Int) /\ chosen[l] # <<>>
    <3> SUFFICES ASSUME NEW l \in selected PROVE metrics[l] \in Seq(Int) /\ metrics[l] # <<>>
      OBVIOUS
    <3>1. tool # "printer" /\ l \in DOMAIN metrics
      BY <2>1
    <3> QED
      BY <3>1, MetricsFacts
  <2>7. DOMAIN chosen = selected
    OBVIOUS
  <2> HIDE DEF chosen
  <2>8. picture'.kind = kind /\ picture'.of = chosen /\ picture'.terminal = terminal
    BY <2>3 DEF Drawn
  <2> QED
    BY <2>3, <2>5, <2>6, <2>7, <2>8 DEF ChartInv
<1> QED
  BY <1>1, <1>2 DEF vars, Next, Write, Analyze, Recommend, parseBenchmarkData,
                    exportVisualization, Visualize

\* A chart that is drawn shows the values, for every file, every selection of
\* metrics and every size of the terminal.
THEOREM ChartsShow == Spec => []ChartsShowValues
<1>1. Init => ChartInv
  BY DEF Init, ChartInv
<1>2. IInv /\ ChartInv /\ [Next]_vars => ChartInv'
  BY ChartStep
<1>3. ChartInv => ChartsShowValues
  <2> SUFFICES ASSUME ChartInv PROVE ChartsShowValues
    OBVIOUS
  <2>1. CASE picture.kind = "none"
    BY <2>1 DEF ChartsShowValues
  <2>2. CASE picture.kind # "none"
    <3> DEFINE t == picture.terminal
    <3> DEFINE of == picture.of
    <3>1. /\ t.width \in Nat /\ t.height \in Nat
          /\ picture.kind = "line" => Fits(t)
          /\ IsFiniteSet(DOMAIN of)
          /\ \A l \in DOMAIN of : of[l] \in Seq(Int) /\ of[l] # <<>>
          /\ LabelWidth \in Nat
      BY <2>2, ResultsAssumption DEF ChartInv, Fits, Refused, Fatal
    <3>2. PICK first \in DOMAIN of : picture = Drawn(picture.kind, of, t, first)
      BY <2>2 DEF ChartInv
    <3>3. picture.cells =
            IF picture.kind = "line" THEN [l \in DOMAIN of |-> LineChart(of[l], t)]
            ELSE IF picture.kind = "histogram" THEN [l \in DOMAIN of |-> Histogram(of[l])]
            ELSE IF picture.kind = "heatmap" THEN Heatmap(of, of[first], t, LabelWidth)
            ELSE BarChart(of, t)
      BY <3>2 DEF Drawn
    <3> HIDE DEF t, of
    <3>4. ASSUME picture.kind = "line", NEW l \in DOMAIN of
          PROVE  /\ InOrder(of[l], picture.cells[l])
                 /\ Len(of[l]) > 1 => Visible(picture.cells[l], t) =
                      {i \in DOMAIN of[l] : i < Len(of[l]) /\ i <= LineWidth(t)}
      <4>1. picture.cells[l] = LineChart(of[l], t)
        BY <3>3, <3>4
      <4>2. of[l] \in Seq(Int) /\ of[l] # <<>> /\ Fits(t)
        BY <3>1, <3>4
      <4> QED
        BY <4>1, <4>2, LineInOrder, DrawnValues
    <3>5. ASSUME picture.kind = "histogram", NEW l \in DOMAIN of
          PROVE  SumFunction(picture.cells[l]) = Len(of[l])
      <4>1. picture.cells[l] = Histogram(of[l])
        BY <3>3, <3>5
      <4>2. of[l] \in Seq(Int) /\ of[l] # <<>>
        BY <3>1
      <4> QED
        BY <4>1, <4>2, EachCountedOnce
    <3>6. ASSUME picture.kind = "heatmap", NEW l \in DOMAIN of
          PROVE  Range(picture.cells[l]) \subseteq 0 .. NumColors - 1
      <4>1. picture.cells = Heatmap(of, of[first], t, LabelWidth)
        BY <3>3, <3>6
      <4> QED
        BY <3>1, <4>1, ColoursOfTheScale
    <3>7. ASSUME picture.kind = "bar", t.width >= 20, NEW l \in DOMAIN of
          PROVE  picture.cells[l] <= t.width - 20
      <4>1. picture.cells = BarChart(of, t)
        BY <3>3, <3>7
      <4> QED
        BY <3>1, <3>7, <4>1, BarsFit
    <3> QED
      BY <3>4, <3>5, <3>6, <3>7 DEF ChartsShowValues, t, of
  <2> QED
    BY <2>1, <2>2
<1> QED
  BY <1>1, <1>2, <1>3, Invariance, PTL DEF Spec

==============================================================================
