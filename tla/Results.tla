------------------------------- MODULE Results -------------------------------
(***************************************************************************)
(* The results file and the programs that read it: nvmeof_analysis         *)
(* (src/analysis.cpp), nvmeof_visualizer (src/visualizer.cpp) and the      *)
(* ResultVisualizer of the library.  A tool may run while the benchmark    *)
(* still writes, or after it was killed: the last row may be cut off.      *)
(*                                                                         *)
(* The file only grows, so that reading it line by line finds what it held *)
(* when the reader met its end: reading is one step.  A row is its label,  *)
(* value and units; time stamps are left out.  The value of a row is       *)
(* printed with six digits, that is rounded to a multiple of Grain.        *)
(***************************************************************************)
EXTENDS Charts

CONSTANTS
  Collected,      \* rows that may be collected
  Split,          \* for labels with a comma: the label and the value a reader
                  \* finds before and behind the first comma
  MaxRows,        \* bound: rows of a file
  Grain,          \* distance of two values that are printed differently
  NotANumber,     \* what std::stod refuses
  NetworkLabels,  \* labels that contain "Network RX" or "Network TX"
  StorageLabels,  \* labels that contain "Disk" or "Storage"
  Limits,         \* thresholds of the detector nvmeof_analysis builds
  Base,           \* the configuration of each resource, "" if it has none
  ChartTypes,     \* values of --chart-type
  Terminals,      \* their widths and heights
  LabelWidth      \* columns the labels of a heatmap take

Resources == {"cpu", "memory", "network", "storage"}
CPUUsage == "CPU Usage"
MemoryUsage == "Memory Usage"
NoUnits == ""

Number == Int \cup {NotANumber}

ASSUME ResultsAssumption ==
  /\ MaxRows \in Nat /\ LabelWidth \in 0 .. 15
  /\ Grain \in Nat /\ Grain % 2 = 1
  /\ NotANumber \notin Int
  /\ Collected \subseteq [label : STRING, value : Number, units : STRING]
  /\ \A r \in Collected : r.label \in {CPUUsage, MemoryUsage} =>
       r.value \in Int /\ r.units # NoUnits
  /\ {CPUUsage, MemoryUsage} \cap DOMAIN Split = {}
  /\ \A l \in DOMAIN Split : /\ Split[l].label \in STRING \ DOMAIN Split
                             /\ Split[l].value \in Number
  /\ DOMAIN Limits = Resources /\ DOMAIN Base = Resources
  /\ \A r \in Resources : Limits[r] \in Nat \ {0}
  /\ \A r \in {"cpu", "memory"} : Limits[r] % Grain = 0
  /\ ChartTypes \subseteq {"line", "bar", "histogram", "heatmap"}
  /\ \A t \in Terminals : t.width \in Nat /\ t.height \in Nat

VARIABLES
  rows,        \* rows of which the file holds at least the label
  tail,        \* how far the last of them goes
  tool,        \* the tool that was run
  step,        \* what it does next
  seen,        \* the rows it found, and the tail at that time
  metrics,     \* the values of each label
  units,       \* nvmeof_visualizer: the unit of each label
  summary,     \* least and greatest value of each metric, as shown
  exported,    \* nvmeof_visualizer: the same in the exported file
  bottlenecks, \* nvmeof_analysis: what the detector found
  advice,      \* nvmeof_analysis: the recommendations
  picture,     \* nvmeof_visualizer: the chart
  exit         \* how the tool ended

vars == <<rows, tail, tool, step, seen, metrics, units, summary, exported,
          bottlenecks, advice, picture, exit>>

Nothing == <<>>

Init ==
  /\ rows = <<>> /\ tail = "whole"
  /\ tool = "none" /\ step = "none" /\ exit = "none"
  /\ seen = [count |-> 0, tail |-> "whole"]
  /\ metrics = Nothing /\ units = Nothing /\ summary = Nothing /\ exported = Nothing
  /\ bottlenecks = {}
  /\ advice = Nothing
  /\ picture = [kind |-> "none"]

------------------------------------------------------------------------------
(* The file.                                                               *)

Tails == {"value", "units", "whole"}  \* cut off within the value, the units, or not

\* More of the buffer of the DataCollector reaches the file.
Write ==
  /\ \/ /\ tail = "whole" /\ Len(rows) < MaxRows
        /\ \E r \in Collected : rows' = Append(rows, r)
        /\ tail' \in Tails
     \/ /\ tail # "whole"
        /\ tail' \in Tails \ {tail, "value"}
        /\ UNCHANGED rows
  /\ UNCHANGED <<tool, step, seen, metrics, units, summary, exported, bottlenecks,
                 advice, picture, exit>>

\* operator<<(double).
Printed(v) == IF v = NotANumber THEN v ELSE ((v + Grain \div 2) \div Grain) * Grain

\* A value without its last digit, a unit of which only a part is there, and
\* what is behind the third comma of a row with more than three.
CutOff(v) == IF v = NotANumber THEN v ELSE v \div 10
Fragment == "fragment"
Leftover == "leftover"

Now == [count |-> Len(rows), tail |-> tail]

\* The i-th line of a file as std::getline splits it at the commas.  fields
\* counts the fields found: there is no fourth when the line ends before it.
\* Labels are not quoted: one with a comma takes the fields of the value, too,
\* and what was the value is in the fourth.
LineOf(file, i) ==
  LET r == rows[i]
      end == IF i < file.count THEN "whole" ELSE file.tail
  IN IF r.label \in DOMAIN Split
     THEN [label |-> Split[r.label].label, value |-> Split[r.label].value,
           units |-> Leftover, fields |-> 4]
     ELSE [label |-> r.label,
           value |-> IF end = "value" THEN CutOff(Printed(r.value)) ELSE Printed(r.value),
           units |-> IF end = "whole" \/ r.units = NoUnits THEN r.units ELSE Fragment,
           fields |-> IF end = "value" \/ r.units = NoUnits THEN 3 ELSE 4]

\* Mutant: a row without units will do.
ThreeFieldsWillDo(line) == TRUE

HasFourFields(line) == line.fields = 4

Numeric(line) == line.value # NotANumber

\* By their numbers in the file.  The lines a reader accepts are some of these.
Lines(file) == [i \in 1 .. file.count |-> LineOf(file, i)]

\* What f, a function on numbers of lines, has for each, in the order of the file.
Listed(f) ==
  LET list[n \in 0 .. MaxRows] ==
        IF n = 0 THEN <<>>
        ELSE IF n \in DOMAIN f THEN Append(list[n - 1], f[n]) ELSE list[n - 1]
  IN list[MaxRows]

With(lines, labels) == {i \in DOMAIN lines : lines[i].label \in labels}

ValuesOf(lines, labels) == Listed([i \in With(lines, labels) |-> lines[i].value])

\* std::map of vectors: the values of each label.
Grouped(lines) ==
  [l \in {lines[i].label : i \in DOMAIN lines} |-> ValuesOf(lines, {l})]

Without(groups, labels) == [l \in DOMAIN groups \ labels |-> groups[l]]

\* Mutant: the two swapped.
SwappedMinMax(groups) == [l \in DOMAIN groups |-> <<Highest(groups[l]), Lowest(groups[l])>>]

MinMax(groups) == [l \in DOMAIN groups |-> <<Lowest(groups[l]), Highest(groups[l])>>]

Begin(t) ==
  /\ tool = "none"
  /\ tool' = t
  /\ seen' = Now

Exits(code) == step' = "exited" /\ exit' = code

------------------------------------------------------------------------------
(* nvmeof_analysis.                                                        *)

parseBenchmarkResults(file) ==
  LET all == Lines(file)
  IN Restrict(all, {i \in DOMAIN all : HasFourFields(all[i]) /\ Numeric(all[i])})

calculateMetrics(lines) ==
  Without(Grouped(lines), {"Progress", "Benchmark Start", "Benchmark End"})

\* Mutant: the last sample instead of the highest.
LastOf(lines, label) ==
  LET samples == With(lines, {label})
  IN IF samples = {} THEN 0 ELSE lines[Max(samples)].value

HighestOf(lines, label) == Max({0} \cup {lines[i].value : i \in With(lines, {label})})

\* The counters of all interfaces and samples are added up.
Usage(lines) ==
  [cpu |-> HighestOf(lines, CPUUsage),
   memory |-> HighestOf(lines, MemoryUsage),
   network |-> Total(ValuesOf(lines, NetworkLabels)),
   storage |-> Total(ValuesOf(lines, StorageLabels))]

analyzeBottlenecks(lines) ==
  {r \in Resources : /\ Usage(lines)[r] >= Limits[r]
                     /\ r = "storage" => Usage(lines)[r] > 0}

Analyze ==
  /\ Begin("analysis")
  /\ LET lines == parseBenchmarkResults(Now)
     IN IF DOMAIN lines = {}
        THEN Exits("failure") /\ UNCHANGED <<metrics, summary, bottlenecks>>
        ELSE /\ metrics' = calculateMetrics(lines)
             /\ summary' = MinMax(metrics')
             /\ bottlenecks' = analyzeBottlenecks(lines)
             /\ step' = "report" /\ UNCHANGED exit
  /\ UNCHANGED <<rows, tail, units, exported, advice, picture>>

\* generateReport, if asked for, and recommendOptimizations, if asked for; the
\* configuration file may be missing, and either output may fail to open,
\* which does not fail the program.
Recommend ==
  /\ tool = "analysis" /\ step = "report"
  /\ advice' \in { Nothing, [r \in bottlenecks |-> ""], [r \in bottlenecks |-> Base[r]] }
  /\ Exits("success")
  /\ UNCHANGED <<rows, tail, tool, seen, metrics, units, summary, exported,
                 bottlenecks, picture>>

------------------------------------------------------------------------------
(* nvmeof_visualizer.                                                      *)

Markers == {"Benchmark Start", "Benchmark End"}

dataLines(file) ==
  LET all == Lines(file)
  IN Restrict(all, {i \in DOMAIN all : /\ HasFourFields(all[i]) /\ Numeric(all[i])
                                      /\ all[i].label \notin Markers})

\* Mutant: each row overwrites the unit.
LastUnit(lines, l) == lines[Max(With(lines, {l}))].units

UnitOf(lines, l) == lines[Min(With(lines, {l}))].units

parseBenchmarkData ==
  /\ Begin("visualizer")
  /\ LET lines == dataLines(Now)
     IN IF DOMAIN lines = {}
        THEN Exits("failure") /\ UNCHANGED <<metrics, units>>
        ELSE /\ metrics' = Grouped(lines)
             /\ units' = [l \in DOMAIN metrics' |-> UnitOf(lines, l)]
             /\ step' = "draw" /\ UNCHANGED exit
  /\ UNCHANGED <<rows, tail, summary, exported, bottlenecks, advice, picture>>

\* Without --metrics everything but the progress is drawn; a list may name
\* any of the metrics, or none that exists.
Selections == SUBSET DOMAIN metrics

\* What the chart shows, if nothing undefined happens or the build survives it.
\* first: the metric that comes first in the alphabet, whichever that is.
Drawn(kind, chosen, terminal, first) ==
  [kind |-> kind, terminal |-> terminal, of |-> chosen,
   cells |->
     IF kind = "line" THEN [l \in DOMAIN chosen |-> LineChart(chosen[l], terminal)]
     ELSE IF kind = "histogram" THEN [l \in DOMAIN chosen |-> Histogram(chosen[l])]
     ELSE IF kind = "heatmap" THEN Heatmap(chosen, chosen[first], terminal, LabelWidth)
     ELSE BarChart(chosen, terminal)]

\* std::string or std::vector of a negative size, which main catches.
Refused(kind, terminal) == kind = "line" /\ LineRefused(terminal)

\* An element of an empty vector is written: no build survives that.
Fatal(kind, terminal) == kind = "line" /\ LineFatal(terminal)

\* An integer division by zero, or an index made from NaN.
Undefined(kind, chosen, terminal) ==
  \/ kind = "line" /\ \E l \in DOMAIN chosen : LineUndefined(chosen[l], terminal)
  \/ kind = "histogram" /\ \E l \in DOMAIN chosen : HistogramUndefined(chosen[l])
  \/ kind = "heatmap" /\ HeatmapUndefined(chosen, terminal, LabelWidth)

\* With nothing selected there is a message only, and the program goes on.
visualizeBenchmarkData ==
  /\ tool = "visualizer" /\ step = "draw"
  /\ \E selected \in Selections, kind \in ChartTypes, terminal \in Terminals :
       LET chosen == [l \in selected |-> metrics[l]]
       IN \/ /\ selected = {}
             /\ step' = "export" /\ UNCHANGED <<summary, picture, exit>>
          \/ /\ selected # {} /\ ~Refused(kind, terminal) /\ ~Fatal(kind, terminal)
             /\ \E first \in selected : picture' = Drawn(kind, chosen, terminal, first)
             /\ summary' = MinMax(chosen)
             /\ step' = "export" /\ UNCHANGED exit
          \/ /\ selected # {} /\ ~Refused(kind, terminal)
             /\ Fatal(kind, terminal) \/ Undefined(kind, chosen, terminal)
             /\ Exits("crash") /\ UNCHANGED <<summary, picture>>
          \/ /\ selected # {} /\ Refused(kind, terminal)
             /\ Exits("failure") /\ UNCHANGED <<summary, picture>>
  /\ UNCHANGED <<rows, tail, tool, seen, metrics, units, exported, bottlenecks, advice>>

\* Mutant: the progress is exported, too.
NotExported == {}

Hidden == {"Progress"}

\* The export, if asked for and if its file opens.
exportVisualization ==
  /\ tool = "visualizer" /\ step = "export"
  /\ exported' \in {Nothing, MinMax(Without(metrics, Hidden))}
  /\ Exits("success")
  /\ UNCHANGED <<rows, tail, tool, seen, metrics, units, summary, bottlenecks, advice,
                 picture>>

------------------------------------------------------------------------------
(* ResultVisualizer::Visualize: it prints the fields as they are.          *)

\* Every line with all of its fields.
printedLines(file) ==
  LET all == Lines(file)
  IN Restrict(all, {i \in DOMAIN all : HasFourFields(all[i])})

Visualize ==
  /\ Begin("printer")
  /\ metrics' = Grouped(printedLines(Now))
  /\ Exits("success")
  /\ UNCHANGED <<rows, tail, units, summary, exported, bottlenecks, advice, picture>>

Next ==
  \/ Write
  \/ Analyze \/ Recommend
  \/ parseBenchmarkData \/ visualizeBenchmarkData \/ exportVisualization
  \/ Visualize

Spec == Init /\ [][Next]_vars

------------------------------------------------------------------------------
(* Properties.                                                             *)

\* The labels a reader may find.
Labels == {r.label : r \in Collected} \cup {Split[l].label : l \in DOMAIN Split}

TypeOK ==
  /\ rows \in Seq(Collected) /\ Len(rows) <= MaxRows
  /\ tail \in Tails
  /\ tool \in {"none", "analysis", "visualizer", "printer"}
  /\ step \in {"none", "report", "draw", "export", "exited"}
  /\ seen.count \in 0 .. Len(rows) /\ seen.tail \in Tails
  /\ DOMAIN metrics \subseteq Labels
  /\ \A l \in DOMAIN metrics : metrics[l] # <<>> /\ metrics[l] \in Seq(Number)
  /\ DOMAIN units \subseteq DOMAIN metrics
  /\ DOMAIN summary \subseteq DOMAIN metrics /\ DOMAIN exported \subseteq DOMAIN metrics
  /\ \A l \in DOMAIN summary : summary[l][1] <= summary[l][2]
  /\ bottlenecks \subseteq Resources
  /\ DOMAIN advice \subseteq bottlenecks
  /\ picture.kind \in {"none"} \cup ChartTypes
  /\ exit \in {"none", "success", "failure", "crash"}
  /\ step = "exited" <=> exit # "none"

\* What was collected under a label, as far as rows have units and a reader
\* can make a number of their values: in order, each value as printed.
Known(l) ==
  LET readable == {i \in 1 .. seen.count :
                     /\ rows[i].label = l /\ rows[i].units # NoUnits
                     /\ tool = "printer" \/ rows[i].value # NotANumber}
  IN Listed([i \in readable |-> Printed(rows[i].value)])

\* No label that was collected has a comma behind l.
Clean(l) ==
  \A i \in 1 .. seen.count : rows[i].label \in DOMAIN Split => Split[rows[i].label].label # l

RightUnit(l) ==
  [label |-> l, units |-> units[l]] \in {[label |-> r.label, units |-> r.units] : r \in Collected}

\* A reader shows what was collected and nothing else, although the benchmark
\* may be writing a row just then: no value that is cut off, no value twice or
\* out of order, and none missing except the last of a file whose last row is
\* cut off; and each metric in its own unit, of which only that of a single
\* value at the cut-off end may be a part.  Under a label that also begins a
\* label with a comma it shows the text behind that comma, too, which nobody
\* collected as a value: nothing is claimed of such a label.
OnlyCollected ==
  /\ \A l \in DOMAIN metrics : Clean(l) =>
       /\ IsPrefix(metrics[l], Known(l))
       /\ Len(metrics[l]) >= Len(Known(l)) - (IF seen.tail = "whole" THEN 0 ELSE 1)
  /\ \A l \in DOMAIN units : Clean(l) =>
       RightUnit(l) \/ (Len(metrics[l]) = 1 /\ seen.tail = "units")

SamplesOf(label) ==
  {i \in 1 .. seen.count : rows[i].label = label /\ (i < seen.count \/ seen.tail # "value")}

\* nvmeof_analysis finds every CPU and memory bottleneck of which the running
\* program had a sample, wherever in the file it is; and it finds none whose
\* samples are all below the threshold, except by the rounding of a value or
\* by a label with a comma.
BottlenecksFound ==
  tool = "analysis" =>
    \A b \in {<<"cpu", CPUUsage>>, <<"memory", MemoryUsage>>} :
      /\ (\E i \in SamplesOf(b[2]) : rows[i].value >= Limits[b[1]]) => b[1] \in bottlenecks
      /\ b[1] \in bottlenecks /\ Clean(b[2]) =>
           \E i \in SamplesOf(b[2]) : rows[i].value + Grain \div 2 >= Limits[b[1]]

\* The two programs, with parsers and summaries of their own, agree on what
\* is in a file: the exported table has the metrics nvmeof_analysis finds in
\* the same file, with the same extremes, and the terminal shows no others.
ToolsAgree ==
  tool = "visualizer" =>
    LET theirs == MinMax(calculateMetrics(parseBenchmarkResults(seen)))
    IN /\ exported # Nothing => exported = theirs
       /\ \A l \in DOMAIN summary \ {"Progress"} :
            l \in DOMAIN theirs /\ summary[l] = theirs[l]

InOrder(vs, cells) ==
  \A i, j \in DOMAIN cells :
    /\ i < j => cells[i][1] <= cells[j][1]
    /\ vs[i] <= vs[j] => cells[i][2] >= cells[j][2]

\* The marks inside the chart.
Visible(cells, terminal) ==
  {i \in DOMAIN cells :
     cells[i] \in (0 .. LineWidth(terminal) - 1) \X (0 .. LineHeight(terminal) - 1)}

\* A chart that is drawn shows the values.  In a line chart later values are
\* not to the left and larger ones not below; and the marks inside the chart
\* are those of as many values as it has columns, without the last one: that
\* and the values beyond the width have none.  The bins of a histogram count
\* each value once; every colour is one of the scale; no bar is longer than
\* the space for bars, if there is any.
ChartsShowValues ==
  LET t == picture.terminal
      metric == DOMAIN picture.of
  IN /\ picture.kind = "line" => \A l \in metric :
          LET vs == picture.of[l]
          IN /\ InOrder(vs, picture.cells[l])
             /\ Len(vs) > 1 => Visible(picture.cells[l], t) =
                  {i \in DOMAIN vs : i < Len(vs) /\ i <= LineWidth(t)}
     /\ picture.kind = "histogram" => \A l \in metric :
          SumFunction(picture.cells[l]) = Len(picture.of[l])
     /\ picture.kind = "heatmap" => \A l \in metric :
          Range(picture.cells[l]) \subseteq 0 .. NumColors - 1
     /\ picture.kind = "bar" /\ t.width >= 20 => \A l \in metric :
          picture.cells[l] <= t.width - 20

\* A results file with data is drawn, with any chart type.
NeverCrashes == exit # "crash"

==============================================================================
