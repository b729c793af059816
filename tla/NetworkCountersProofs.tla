------------------------ MODULE NetworkCountersProofs ------------------------
(***************************************************************************)
(* Proofs about NetworkCounters for any finite set of interfaces, packets  *)
(* of any size and any number of packets.                                  *)
(***************************************************************************)
EXTENDS NetworkCounters, FiniteSetTheorems, SequenceTheorems, TLAPS

Rows == [Interfaces -> [Positions -> Nat]]

NetworkTypeOK ==
  /\ listed \in SUBSET Interfaces /\ absent \in SUBSET Interfaces
  /\ row \in Rows /\ since \in Rows
  /\ sampling \in BOOLEAN
  /\ interfaces \in Seq(Interfaces)
  /\ vectors \in [Names -> Seq(Nat)]

\* An interface that was there all the time has only counted up.
Steady ==
  \A i \in Interfaces \ absent :
    i \in listed /\ \A p \in Positions : since[i][p] <= row[i][p]

\* The vectors are never longer than the list of names, and a sample in
\* progress has still an interface to finish.
Aligned ==
  /\ \A c \in Names : Len(vectors[c]) <= Len(interfaces)
  /\ sampling => Done < Len(interfaces)

IInv ==
  NetworkTypeOK /\ Steady /\ Aligned /\ \A c \in Names : Within(c, Extracted[c])

\* Nothing is listed at first.
LEMMA InitIInv ==
  ASSUME PacketSize \in Nat
  PROVE  Init => IInv
<1> SUFFICES ASSUME Init PROVE IInv
  OBVIOUS
<1>1. \A r, t \in 0 .. 1 : RowOf(r, t) \in [Positions -> Nat]
  BY DEF RowOf, Positions
<1>2. row \in Rows /\ since \in Rows
  <2>1. {RowOf(r, t) : r, t \in 0 .. 1} \subseteq [Positions -> Nat]
    BY <1>1
  <2>2. row \in [Interfaces -> {RowOf(r, t) : r, t \in 0 .. 1}] /\ since = row
    BY DEF Init
  <2>3. QED
    BY <2>1, <2>2 DEF Rows
<1>3. NetworkTypeOK
  <2>1. interfaces \in Seq(Interfaces) /\ <<>> \in Seq(Nat)
    BY DEF Init
  <2>2. vectors \in [Names -> Seq(Nat)]
    BY <2>1 DEF Init, Empty
  <2>3. listed \in SUBSET Interfaces /\ absent = Interfaces \ listed /\ sampling = FALSE
    BY DEF Init
  <2>4. listed \in SUBSET Interfaces /\ absent \in SUBSET Interfaces /\ sampling \in BOOLEAN
    BY <2>3
  <2>5. QED
    BY <1>2, <2>1, <2>2, <2>4 DEF NetworkTypeOK
<1>4. Steady
  BY <1>2 DEF Init, Steady, Rows
<1>5. \A c \in Names : Len(vectors[c]) = 0
  BY DEF Init, Empty
<1>6. Aligned
  BY <1>3, <1>5 DEF Init, Aligned, NetworkTypeOK
<1>7. QED
  BY <1>3, <1>4, <1>5, <1>6 DEF IInv, Within

\* Counters only grow, so what was read stays within its bounds.
LEMMA TrafficStep ==
  ASSUME PacketSize \in Nat, IInv, NEW i \in Interfaces,
         Traffic(i, 2, 1) \/ Traffic(i, 10, 9)
  PROVE  IInv'
<1>1. /\ row' \in Rows /\ \A j \in Interfaces, p \in Positions : row[j][p] <= row'[j][p]
      /\ UNCHANGED <<listed, sampling, interfaces, vectors, since, absent>>
  <2>1. \A j \in Interfaces, p \in Positions : row[j][p] \in Nat
    BY DEF IInv, NetworkTypeOK, Rows
  <2>2. ASSUME NEW p \in Positions, NEW b \in Positions, p # b, Traffic(i, p, b)
        PROVE  /\ row' \in Rows /\ \A j \in Interfaces, q \in Positions : row[j][q] <= row'[j][q]
    <3>1. row[i] \in [Positions -> Nat] /\ row \in Rows
      BY DEF IInv, NetworkTypeOK, Rows
    <3>2. row' = [row EXCEPT ![i] = [[row[i] EXCEPT ![p] = @ + 1] EXCEPT ![b] = @ + PacketSize]]
      BY <2>2, <3>1 DEF Traffic, Rows
    <3>3. row'[i] = [[row[i] EXCEPT ![p] = @ + 1] EXCEPT ![b] = @ + PacketSize]
      BY <3>1, <3>2 DEF Rows
    <3>4. row'[i] \in [Positions -> Nat] /\ \A q \in Positions : row[i][q] <= row'[i][q]
      BY <3>1, <3>3
    <3>5. \A j \in Interfaces : j # i => row'[j] = row[j]
      BY <3>1, <3>2 DEF Rows
    <3>6. row' \in Rows
      BY <3>1, <3>2, <3>4 DEF Rows
    <3>7. QED
      BY <2>1, <3>4, <3>5, <3>6
  <2>3. UNCHANGED <<listed, sampling, interfaces, vectors, since, absent>>
    BY DEF Traffic
  <2>4. QED
    BY <2>2, <2>3 DEF Positions
<1>2. NetworkTypeOK' /\ Aligned'
  BY <1>1 DEF IInv, NetworkTypeOK, Aligned, Done
<1>3. \A j \in Interfaces, p \in Positions :
        row[j][p] \in Nat /\ row'[j][p] \in Nat /\ since[j][p] \in Nat
  BY <1>1 DEF IInv, NetworkTypeOK, Rows
<1>4. Steady'
  BY <1>1, <1>3 DEF IInv, Steady
<1>5. ASSUME NEW c \in Names PROVE Within(c, Extracted[c])'
  <2>1. Extracted[c] \in Positions
    BY DEF Names, Extracted, Positions
  <2>2. ASSUME NEW k \in 1 .. Len(vectors[c]), interfaces[k] \notin absent
        PROVE  /\ since[interfaces[k]][Extracted[c]] <= vectors[c][k]
               /\ vectors[c][k] <= row'[interfaces[k]][Extracted[c]]
    <3>1. interfaces[k] \in Interfaces /\ vectors[c][k] \in Nat
      BY <2>2 DEF IInv, NetworkTypeOK, Aligned
    <3>2. /\ since[interfaces[k]][Extracted[c]] <= vectors[c][k]
          /\ vectors[c][k] <= row[interfaces[k]][Extracted[c]]
      BY <2>2 DEF IInv, Within
    <3>3. row[interfaces[k]][Extracted[c]] <= row'[interfaces[k]][Extracted[c]]
      BY <1>1, <2>1, <3>1
    <3>4. QED
      BY <1>3, <2>1, <3>1, <3>2, <3>3
  <2>3. QED
    BY <1>1, <2>2 DEF Within
<1>6. QED
  BY <1>2, <1>4, <1>5 DEF IInv

\* An interface that goes, or comes back with other numbers, is absent.
LEMMA PlugStep ==
  ASSUME IInv, NEW i \in Interfaces, Unplug(i) \/ Plug(i)
  PROVE  IInv'
<1>1. /\ UNCHANGED <<sampling, interfaces, vectors, since>>
      /\ absent \subseteq absent' /\ absent' \subseteq Interfaces /\ i \in absent'
      /\ listed' \subseteq Interfaces /\ listed \ {i} \subseteq listed'
      /\ row' \in Rows /\ \A j \in Interfaces : j # i => row'[j] = row[j]
  <2>1. row \in Rows /\ listed \subseteq Interfaces /\ absent \subseteq Interfaces
    BY DEF IInv, NetworkTypeOK
  <2>2. CASE Unplug(i)
    BY <2>1, <2>2 DEF Unplug
  <2>3. CASE Plug(i)
    <3>1. NewRow \in [Positions -> Nat]
      BY DEF NewRow
    <3>2. row' \in Rows /\ \A j \in Interfaces : j # i => row'[j] = row[j]
      BY <2>1, <2>3, <3>1 DEF Plug, Rows
    <3>3. i \in absent
      BY <2>3 DEF Plug, IInv, Steady
    <3>4. QED
      BY <2>1, <2>3, <3>2, <3>3 DEF Plug
  <2>4. QED
    BY <2>2, <2>3
<1>2. NetworkTypeOK' /\ Aligned'
  BY <1>1 DEF IInv, NetworkTypeOK, Aligned, Done
<1>3. Steady'
  BY <1>1 DEF IInv, Steady
<1>4. ASSUME NEW c \in Names PROVE Within(c, Extracted[c])'
  <2>1. \A k \in 1 .. Len(vectors[c]) : interfaces[k] \in Interfaces
    BY DEF IInv, NetworkTypeOK, Aligned
  <2>2. QED
    BY <1>1, <2>1 DEF IInv, Within
<1>5. QED
  BY <1>2, <1>3, <1>4 DEF IInv

\* A new sample starts with empty vectors.
LEMMA ListStep ==
  ASSUME IsFiniteSet(Interfaces), IInv, ListInterfaces
  PROVE  IInv'
<1>1. interfaces' \in Seq(Interfaces)
  <2>1. listed \subseteq Interfaces /\ Cardinality(listed) \in Nat
    BY FS_Subset, FS_CardinalityType DEF IInv, NetworkTypeOK
  <2>2. CASE interfaces' \in SetToSeqs(listed)
    <3>1. interfaces' \in [1 .. Cardinality(listed) -> Interfaces]
      BY <2>1, <2>2 DEF SetToSeqs
    <3>2. QED
      BY <2>1, <3>1
  <2>3. CASE interfaces' = <<>>
    BY <2>3
  <2>4. QED
    BY <2>2, <2>3 DEF ListInterfaces
<1>2. \A c \in Names : vectors'[c] = <<>>
  BY DEF ListInterfaces, Empty
<1>3. NetworkTypeOK'
  BY <1>1 DEF ListInterfaces, IInv, NetworkTypeOK, Empty
<1>4. Steady'
  BY DEF ListInterfaces, IInv, NetworkTypeOK, Steady, Rows
<1>5. Aligned'
  <2>1. sampling' => 0 < Len(interfaces')
    <3>1. sampling' => interfaces' # <<>>
      BY DEF ListInterfaces
    <3>2. QED
      BY <1>1, <3>1, EmptySeq, LenProperties
  <2>2. QED
    BY <1>1, <1>2, <2>1 DEF Aligned, Done, Names
<1>6. \A c \in Names : Within(c, Extracted[c])'
  BY <1>2 DEF Within
<1>7. QED
  BY <1>3, <1>4, <1>5, <1>6 DEF IInv

\* What both ways of reading a counter do to the vectors.
LEMMA AppendStep ==
  ASSUME IInv, sampling, NEW c \in Names, Turn(c), NEW v \in Nat,
         vectors' = [vectors EXCEPT ![c] = Append(@, v)], sampling' = ~LastCounter(c),
         interfaces' = interfaces
  PROVE  /\ Aligned' /\ vectors' \in [Names -> Seq(Nat)]
         /\ Len(vectors[c]) = Done /\ Len(vectors'[c]) = Done + 1 /\ vectors'[c][Done + 1] = v
         /\ \A k \in 1 .. Done : vectors'[c][k] = vectors[c][k]
         /\ \A d \in Names : d # c => vectors'[d] = vectors[d]
         /\ CurrentInterface \in Interfaces /\ Done \in Nat
<1>1. Done \in Nat /\ Done < Len(interfaces) /\ interfaces \in Seq(Interfaces)
  BY DEF IInv, NetworkTypeOK, Aligned, Done, Names
<1>2. Len(vectors[c]) = Done
  BY DEF Turn, Counters
<1>3. CurrentInterface \in Interfaces
  BY <1>1 DEF CurrentInterface
<1>4. vectors[c] \in Seq(Nat) /\ vectors'[c] = Append(vectors[c], v)
  BY DEF IInv, NetworkTypeOK
<1>5. /\ Len(vectors'[c]) = Done + 1 /\ vectors'[c][Done + 1] = v
      /\ \A k \in 1 .. Done : vectors'[c][k] = vectors[c][k]
  BY <1>1, <1>2, <1>4
<1>6. vectors' \in [Names -> Seq(Nat)] /\ \A d \in Names : d # c => vectors'[d] = vectors[d]
  BY <1>4 DEF IInv, NetworkTypeOK
<1>7. \A d \in Names : Len(vectors'[d]) <= Len(interfaces)
  BY <1>1, <1>5, <1>6 DEF IInv, Aligned
<1>8. sampling' => Done' < Len(interfaces)
  <2>1. CASE c = "tx_packets"
    <3>1. sampling' => Done + 1 # Len(interfaces)
      BY <2>1 DEF LastCounter
    <3>2. Done' = Done + 1
      BY <1>5, <2>1 DEF Done
    <3>3. QED
      BY <1>1, <3>1, <3>2, LenProperties
  <2>2. CASE c # "tx_packets"
    BY <1>1, <1>6, <2>2 DEF Done, Names
  <2>3. QED
    BY <2>1, <2>2
<1>9. Aligned'
  BY <1>7, <1>8 DEF Aligned
<1>10. QED
  BY <1>1, <1>2, <1>3, <1>5, <1>6, <1>9

\* The number that is read is the present one.
LEMMA ReadStep ==
  ASSUME IInv, NEW c \in Names, ReadCounter(c)
  PROVE  IInv'
<1> DEFINE i == CurrentInterface
           v == row[i][Extracted[c]]
<1>1. Extracted[c] \in Positions
  BY DEF Names, Extracted, Positions
<1>2. i \in Interfaces
  BY DEF ReadCounter, IInv, NetworkTypeOK
<1>3. v \in Nat
  BY <1>1, <1>2 DEF IInv, NetworkTypeOK, Rows
<1>4. /\ Aligned' /\ vectors' \in [Names -> Seq(Nat)]
      /\ Len(vectors'[c]) = Done + 1 /\ vectors'[c][Done + 1] = v
      /\ Len(vectors[c]) = Done /\ Done \in Nat
      /\ \A k \in 1 .. Done : vectors'[c][k] = vectors[c][k]
      /\ \A d \in Names : d # c => vectors'[d] = vectors[d]
  BY <1>3, AppendStep DEF ReadCounter
<1>5. NetworkTypeOK' /\ Steady'
  BY <1>4 DEF ReadCounter, IInv, NetworkTypeOK, Steady
<1>6. Within(c, Extracted[c])'
  <2> SUFFICES ASSUME NEW k \in 1 .. (Done + 1), interfaces[k] \notin absent
               PROVE  /\ since[interfaces[k]][Extracted[c]] <= vectors'[c][k]
                      /\ vectors'[c][k] <= row[interfaces[k]][Extracted[c]]
    BY <1>4 DEF ReadCounter, Within
  <2>1. CASE k = Done + 1
    <3>1. interfaces[k] = i /\ vectors'[c][k] = v
      BY <1>4, <2>1 DEF CurrentInterface
    <3>2. since[i][Extracted[c]] <= v
      BY <1>1, <1>2, <3>1 DEF IInv, Steady
    <3>3. QED
      BY <1>3, <3>1, <3>2
  <2>2. CASE k # Done + 1
    <3>1. k \in 1 .. Len(vectors[c]) /\ vectors'[c][k] = vectors[c][k]
      BY <1>4, <2>2
    <3>2. QED
      BY <3>1 DEF IInv, Within
  <2>3. QED
    BY <2>1, <2>2
<1>7. \A d \in Names : d # c => Within(d, Extracted[d])'
  BY <1>4 DEF ReadCounter, IInv, Within
<1>8. QED
  BY <1>4, <1>5, <1>6, <1>7 DEF IInv

\* The 0 of a call that finds nothing belongs to an interface that was absent.
LEMMA NothingStep ==
  ASSUME IInv, NEW c \in Names, FindsNothing(c)
  PROVE  IInv'
<1>1. /\ Aligned' /\ vectors' \in [Names -> Seq(Nat)]
      /\ Len(vectors'[c]) = Done + 1
      /\ Len(vectors[c]) = Done /\ Done \in Nat
      /\ \A k \in 1 .. Done : vectors'[c][k] = vectors[c][k]
      /\ \A d \in Names : d # c => vectors'[d] = vectors[d]
      /\ CurrentInterface \in Interfaces
  BY AppendStep DEF FindsNothing
<1>2. NetworkTypeOK' /\ Steady'
  BY <1>1 DEF FindsNothing, IInv, NetworkTypeOK, Steady
<1>3. Within(c, Extracted[c])'
  <2> SUFFICES ASSUME NEW k \in 1 .. (Done + 1), interfaces[k] \notin absent'
               PROVE  /\ since[interfaces[k]][Extracted[c]] <= vectors'[c][k]
                      /\ vectors'[c][k] <= row[interfaces[k]][Extracted[c]]
    BY <1>1 DEF FindsNothing, Within
  <2>1. k # Done + 1 /\ interfaces[k] \notin absent
    BY DEF FindsNothing, CurrentInterface
  <2>2. k \in 1 .. Len(vectors[c]) /\ vectors'[c][k] = vectors[c][k]
    BY <1>1, <2>1
  <2>3. QED
    BY <2>1, <2>2 DEF IInv, Within
<1>4. \A d \in Names : d # c => Within(d, Extracted[d])'
  BY <1>1 DEF FindsNothing, IInv, Within
<1>5. QED
  BY <1>1, <1>2, <1>3, <1>4 DEF IInv

\* What each function returns lies between the values its number had when the
\* names were listed and now.
THEOREM Invariance ==
  ASSUME PacketSize \in Nat, IsFiniteSet(Interfaces)
  PROVE  Spec => []IInv
<1>1. IInv /\ [Next]_vars => IInv'
  <2> SUFFICES ASSUME IInv, [Next]_vars PROVE IInv'
    OBVIOUS
  <2>1. CASE UNCHANGED vars
    BY <2>1 DEF vars, IInv, NetworkTypeOK, Steady, Aligned, Done, Within
  <2>2. CASE Next
    BY <2>2, TrafficStep, PlugStep, ListStep, ReadStep, NothingStep DEF Next
  <2>3. QED
    BY <2>1, <2>2
<1>2. QED
  BY InitIInv, <1>1, PTL DEF Spec

\* Received bytes and packets and transmitted packets are reported truly and
\* at the place of their interface, although every call opens the file again.
THEOREM OthersCorrect ==
  ASSUME PacketSize \in Nat, IsFiniteSet(Interfaces)
  PROVE  Spec => []OthersReported
<1>1. IInv => OthersReported
  BY DEF IInv, OthersReported, Reported, Names, Extracted, Position
<1>2. QED
  BY Invariance, <1>1, PTL

\* What GetNetworkBytesSent returns are the received packets of the interface.
THEOREM SentAreReceivedPackets ==
  ASSUME PacketSize \in Nat, IsFiniteSet(Interfaces)
  PROVE  Spec => []Within("tx_bytes", Position["rx_packets"])
<1>1. IInv => Within("tx_bytes", Position["rx_packets"])
  BY DEF IInv, Names, Extracted, Position
<1>2. QED
  BY Invariance, <1>1, PTL

==============================================================================
