--------------------------- MODULE NetworkCounters ---------------------------
(***************************************************************************)
(* The network part of a sample of ResourceMonitor                         *)
(* (src/bottleneck_analysis/resource_monitor.cpp, Linux): the names in     *)
(* /proc/net/dev are listed, then four functions are called for each.      *)
(* Every one of these calls opens the file again, so that traffic passes   *)
(* and interfaces come and go in between.                                  *)
(*                                                                         *)
(* A line of the file is a name and a row of numbers; of these the model   *)
(* has the ones that matter, under the position they have in the row.      *)
(***************************************************************************)
EXTENDS Naturals, Sequences, SequencesExt

CONSTANTS
  Interfaces,   \* names an interface can have
  PacketSize,   \* bytes of one packet
  MaxPackets    \* bound: packets an interface counts in one direction

\* The vectors of ResourceUsage, in the order in which they are filled.
Counters == <<"rx_bytes", "tx_bytes", "rx_packets", "tx_packets">>

Names == {"rx_bytes", "tx_bytes", "rx_packets", "tx_packets"}

\* Where /proc/net/dev has these counters.
Position == [rx_bytes |-> 1, rx_packets |-> 2, tx_bytes |-> 9, tx_packets |-> 10]

Positions == {1, 2, 9, 10}

\* The number each of the four functions returns: the last one it extracts.
Extracted == [rx_bytes |-> 1, tx_bytes |-> 2, rx_packets |-> 2, tx_packets |-> 10]

VARIABLES
  listed,       \* the interfaces that are in the file
  row,          \* the numbers of each interface
  sampling,     \* the loop over the interfaces is in progress
  interfaces,   \* latest_usage_.interfaces
  vectors,      \* latest_usage_.rx_bytes, tx_bytes, rx_packets and tx_packets
  since,        \* history: the numbers when the names were listed
  absent        \* history: interfaces a call in this sample may not have found

vars == <<listed, row, sampling, interfaces, vectors, since, absent>>

Empty == [c \in Names |-> <<>>]

NewRow == [p \in Positions |-> 0]

\* A row as traffic leaves it: r packets received, t transmitted.
RowOf(r, t) ==
  [p \in Positions |-> (IF p <= 2 THEN r ELSE t) * (IF p \in {1, 9} THEN PacketSize ELSE 1)]

Init ==
  /\ listed \in SUBSET Interfaces
  /\ row \in [Interfaces -> {RowOf(r, t) : r, t \in 0 .. 1}]
  /\ sampling = FALSE
  /\ interfaces = <<>>
  /\ vectors = Empty
  /\ since = row
  /\ absent = Interfaces \ listed

------------------------------------------------------------------------------
(* The machine.                                                            *)

Traffic(i, packets, bytes) ==
  /\ i \in listed /\ row[i][packets] < MaxPackets
  /\ row' = [row EXCEPT ![i][packets] = @ + 1, ![i][bytes] = @ + PacketSize]
  /\ UNCHANGED <<listed, sampling, interfaces, vectors, since, absent>>

Unplug(i) ==
  /\ i \in listed
  /\ listed' = listed \ {i}
  /\ absent' = absent \cup {i}
  /\ UNCHANGED <<row, sampling, interfaces, vectors, since>>

\* An interface that comes back counts from zero.
Plug(i) ==
  /\ i \notin listed
  /\ listed' = listed \cup {i}
  /\ row' = [row EXCEPT ![i] = NewRow]
  /\ UNCHANGED <<sampling, interfaces, vectors, since, absent>>

------------------------------------------------------------------------------
(* The sample.                                                             *)

\* GetNetworkInterfaces, which finds nothing when the file does not open, and
\* the calls of clear().
ListInterfaces ==
  /\ ~sampling
  /\ interfaces' \in SetToSeqs(listed) \cup {<<>>}
  /\ vectors' = Empty
  /\ sampling' = (interfaces' # <<>>)
  /\ since' = row
  /\ absent' = Interfaces \ listed
  /\ UNCHANGED <<listed, row>>

\* The interface and the counter whose turn it is.
Done == Len(vectors["tx_packets"])
CurrentInterface == interfaces[Done + 1]
Turn(c) == \E k \in 1 .. 4 : /\ Counters[k] = c
                             /\ \A j \in 1 .. 4 : Len(vectors[Counters[j]])
                                                    = IF j < k THEN Done + 1 ELSE Done

LastCounter(c) == c = "tx_packets" /\ Done + 1 = Len(interfaces)

\* GetNetworkBytesReceived, GetNetworkBytesSent, GetNetworkPacketsReceived and
\* GetNetworkPacketsSent: the first line with the name counts.
ReadCounter(c) ==
  /\ sampling /\ Turn(c)
  /\ CurrentInterface \in listed
  /\ vectors' = [vectors EXCEPT ![c] = Append(@, row[CurrentInterface][Extracted[c]])]
  /\ sampling' = ~LastCounter(c)
  /\ UNCHANGED <<listed, row, interfaces, since, absent>>

\* The file does not open, or it no longer has the interface: 0.
FindsNothing(c) ==
  /\ sampling /\ Turn(c)
  /\ vectors' = [vectors EXCEPT ![c] = Append(@, 0)]
  /\ sampling' = ~LastCounter(c)
  /\ absent' = absent \cup {CurrentInterface}
  /\ UNCHANGED <<listed, row, interfaces, since>>

------------------------------------------------------------------------------
Next ==
  \/ \E i \in Interfaces : Traffic(i, 2, 1) \/ Traffic(i, 10, 9) \/ Unplug(i) \/ Plug(i)
  \/ ListInterfaces
  \/ \E c \in Names : ReadCounter(c) \/ FindsNothing(c)

Spec == Init /\ [][Next]_vars

------------------------------------------------------------------------------
(* Properties.                                                             *)

\* What a sample has for a counter is a value the counter had while the sample
\* was taken, for every interface that was there all the time.
Within(c, position) ==
  \A k \in 1 .. Len(vectors[c]) :
    interfaces[k] \notin absent =>
      /\ since[interfaces[k]][position] <= vectors[c][k]
      /\ vectors[c][k] <= row[interfaces[k]][position]

Reported(c) == Within(c, Position[c])

\* Received bytes and packets and transmitted packets are what they are named
\* for, and belong to the interface at the same place of the list.
OthersReported == \A c \in {"rx_bytes", "rx_packets", "tx_packets"} : Reported(c)

\* tx_bytes are the transmitted bytes per interface.
TransmittedReported == Reported("tx_bytes")

==============================================================================
