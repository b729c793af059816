------------------------------ MODULE MCResults ------------------------------
(***************************************************************************)
(* Rows and terminals for checking Results.                                *)
(***************************************************************************)
EXTENDS Results

RowOf(label, value, unit) == [label |-> label, value |-> value, units |-> unit]

\* Printed values are multiples of 3: a usage of 29 is printed as 30, the
\* threshold, one of 28 as 27.  The last two were collected by CollectData:
\* the label is the whole text.
MCCollected ==
  { RowOf("Benchmark Start", 0, ""), RowOf("Progress", 15, "%"),
    RowOf("CPU Usage", -4, "%"), RowOf("CPU Usage", 28, "%"), RowOf("CPU Usage", 29, "%"),
    RowOf("CPU Usage", 60, "%"),
    RowOf("Memory Usage", 30, "%"), RowOf("Network RX: eth0", 0, "bytes"),
    RowOf("CPU Usage,95", 0, ""), RowOf("Legacy, point", 0, "") }

MCSplit ==
  [l \in {"CPU Usage,95", "Legacy, point"} |->
     IF l = "CPU Usage,95" THEN [label |-> "CPU Usage", value |-> 95]
     ELSE [label |-> "Legacy", value |-> NotANumber]]

MCNetwork == {"Network RX: eth0", "Network TX: eth0"}
MCStorage == {"Disk"}

MCLimits == [cpu |-> 30, memory |-> 30, network |-> 30, storage |-> 30]
MCBase == [cpu |-> "cpu_governor=performance", memory |-> "hugepages=1024",
           network |-> "", storage |-> ""]

\* One and two columns for a line chart, room for all values, no row, and a
\* terminal too small for a chart.
MCTerminals ==
  {[width |-> 11, height |-> 6], [width |-> 12, height |-> 6], [width |-> 80, height |-> 20],
   [width |-> 80, height |-> 4], [width |-> 0, height |-> 0]}

MCSmall == {[width |-> 80, height |-> 20]}
MCThroughput == {RowOf("Benchmark Start", 0, ""), RowOf("Throughput", 30, "MB/s")}
==============================================================================
