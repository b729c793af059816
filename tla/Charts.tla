-------------------------------- MODULE Charts --------------------------------
(***************************************************************************)
(* What the drawing functions of nvmeof_visualizer (src/visualizer.cpp)    *)
(* compute from the values of a metric: which cell, bin, colour or bar     *)
(* stands for a value.  A double is an integer here and a quotient is      *)
(* exact.  Indexes of cells, bins and colours count from 0, as in the      *)
(* code; values are numbered from 1.                                       *)
(***************************************************************************)
EXTENDS Integers, SequencesExt

NumBins == 10
NumColors == 9

Lowest(vs) == Min(Range(vs))
Highest(vs) == Max(Range(vs))
Spread(vs) == Highest(vs) - Lowest(vs)

\* A quotient rounded down; 0 is what a build that does not trap makes of a
\* division by zero, and of the conversion of NaN to int.
Quotient(a, b) == IF b = 0 THEN 0 ELSE a \div b

\* std::round of a quotient.
Rounded(a, b) == Quotient(2 * a + b, 2 * b)

Clamp(lo, x, hi) == Max({lo, Min({x, hi})})

------------------------------------------------------------------------------
(* drawAsciiLineChart: ten columns and four rows go to labels.             *)

Column(i, n, width) == Quotient((i - 1) * width, n - 1)

\* The axis reaches 5% of the spread beyond the values.  Values that are all
\* the same get a spread of 20% of their own and are in its middle.
Row(vs, i, height) ==
  LET flat == IF vs[i] = 0 THEN 0 ELSE 1
      up == IF Spread(vs) # 0 THEN 20 * (Highest(vs) - vs[i]) + Spread(vs) ELSE flat
      all == IF Spread(vs) # 0 THEN 22 * Spread(vs) ELSE 2 * flat
  IN Clamp(0, Rounded(up * (height - 1), all), height - 1)

LineWidth(terminal) == terminal.width - 10
LineHeight(terminal) == terminal.height - 4

\* The cells marked, one per value, for as many values as there are columns.
LineChart(vs, terminal) ==
  [i \in 1 .. Min({Len(vs), LineWidth(terminal)}) |->
     <<Column(i, Len(vs), LineWidth(terminal)), Row(vs, i, LineHeight(terminal))>>]

\* The terminal may be too small: a size of the chart is negative, or there
\* is no row to draw the grid in.
LineRefused(terminal) == LineWidth(terminal) < 0 \/ LineHeight(terminal) < 0
LineFatal(terminal) == LineWidth(terminal) > 0 /\ LineHeight(terminal) = 0

LineUndefined(vs, terminal) == Len(vs) = 1 /\ LineWidth(terminal) > 0

------------------------------------------------------------------------------
(* drawAsciiHistogram.                                                     *)

\* Mutant: the largest value falls in a bin of its own.
UncappedBin(vs, v) == Quotient((v - Lowest(vs)) * NumBins, Spread(vs))

Bin(vs, v) == Min({NumBins - 1, Quotient((v - Lowest(vs)) * NumBins, Spread(vs))})

Histogram(vs) ==
  [b \in 0 .. NumBins - 1 |-> Cardinality({i \in DOMAIN vs : Bin(vs, vs[i]) = b})]

HistogramUndefined(vs) == Spread(vs) = 0

------------------------------------------------------------------------------
(* drawAsciiHeatmap: one scale for all metrics.                            *)

AllValues(metrics) == UNION {Range(metrics[m]) : m \in DOMAIN metrics}

Color(values, v) ==
  IF Max(values) = Min(values)
  THEN IF v = 0 THEN 0 ELSE NumColors \div 2
  ELSE Min({((v - Min(values)) * NumColors) \div (Max(values) - Min(values)), NumColors - 1})

\* Cells for time points: what the labels and a separator leave.
TimePoints(terminal, labelWidth) == terminal.width - labelWidth - 3

\* Too many values are thinned out, all metrics by the step of the first.
HeatStep(first, terminal, labelWidth) ==
  IF TimePoints(terminal, labelWidth) <= 0 THEN 1
  ELSE Max({1, Len(first) \div TimePoints(terminal, labelWidth)})

Heatmap(metrics, first, terminal, labelWidth) ==
  LET step == HeatStep(first, terminal, labelWidth)
  IN [m \in DOMAIN metrics |->
        [i \in 1 .. (Len(metrics[m]) + step - 1) \div step |->
           Color(AllValues(metrics), metrics[m][(i - 1) * step + 1])]]

HeatmapUndefined(metrics, terminal, labelWidth) ==
  \/ AllValues(metrics) = {0}
  \/ TimePoints(terminal, labelWidth) = 0

------------------------------------------------------------------------------
(* drawAsciiBarChart: the average of each metric, twenty columns to labels.*)

Total(vs) == FoldLeft(+, 0, vs)

\* The longest bar fills 1 / 1.1 of the width.  There is none when no average
\* is above 0: the quotients are NaN then, or negative and infinite.
BarChart(metrics, terminal) ==
  LET highest == CHOOSE k \in DOMAIN metrics : \A m \in DOMAIN metrics :
                   Total(metrics[m]) * Len(metrics[k]) <= Total(metrics[k]) * Len(metrics[m])
      most == Max({0, Total(metrics[highest])})
  IN [m \in DOMAIN metrics |->
        Max({0, Quotient(10 * (terminal.width - 20) * Total(metrics[m]) * Len(metrics[highest]),
                         11 * most * Len(metrics[m]))})]

==============================================================================
