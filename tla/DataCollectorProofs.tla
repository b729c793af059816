------------------------- MODULE DataCollectorProofs -------------------------
(***************************************************************************)
(* Proofs about DataCollector for any threads, any number of points, every *)
(* format, and writes and allocations that may fail at any time.           *)
(***************************************************************************)
EXTENDS DataCollector, SequenceTheorems, TLAPS

IsOpen(i) == stream[i].kind = "open"
IsClose(i) == stream[i].kind = "close"

\* A writer is between storing its point and the end of its row.
Writing(w) == pc[w] \in {"open", "close"}

\* Who is in a call, and what that call still has room for.
HolderInv ==
  /\ \A w \in Writers : pc[w] = "push" => count[w] < MaxPoints
  /\ closed => mutex = NoWriter

\* No point is collected twice.
PointsInv ==
  /\ \A k \in 1 .. Len(points) : points[k][2] <= count[points[k][1]]
  /\ \A j, k \in 1 .. Len(points) : points[j] = points[k] => j = k

\* Every row belongs to a point, every row that ends is whole and has been
\* acknowledged, and rows come in the order of their points.
RowInv ==
  /\ \A i \in 1 .. Len(stream) :
       /\ IsOpen(i) \/ IsClose(i) => \E k \in 1 .. Len(points) : points[k] = stream[i].point
       /\ IsClose(i) => Whole(i) /\ stream[i].point \in acked
  /\ \A i, j \in 1 .. Len(stream), a, b \in 1 .. Len(points) :
       (/\ i < j /\ IsClose(i) /\ IsClose(j)
        /\ points[a] = stream[i].point /\ points[b] = stream[j].point) => a < b

\* Each point is acknowledged, skipped or the one being written; unless the
\* stream has gone bad, the acknowledged ones have their rows.
AckInv ==
  /\ \A p \in acked : \E k \in 1 .. Len(points) : points[k] = p
  /\ \A k \in 1 .. Len(points) :
       points[k] \in acked \cup skipped \/ (k = Len(points) /\ \E w \in Writers : Writing(w))
  /\ \A w \in Writers : Writing(w) => Len(points) > 0 /\ Current \notin acked
  /\ ~bad => \A p \in acked : \E i \in 1 .. Len(stream) : IsClose(i) /\ stream[i].point = p

\* A row that was begun is the last thing in the stream, and is begun once.
PendingInv ==
  \A w \in Writers :
    /\ pc[w] = "close" /\ ~bad =>
         Len(stream) > 0 /\ IsOpen(Len(stream)) /\ stream[Len(stream)].point = Current
    /\ \A i \in 1 .. Len(stream) : IsOpen(i) /\ stream[i].point = Current =>
         pc[w] # "open" /\ (pc[w] = "close" => i = Len(stream))

\* The first piece tells whether the constructor wrote the whole header; a
\* footer comes with the end.
EndsInv ==
  /\ Len(stream) > 0
  /\ stream[1] = HeaderPiece => headed
  /\ ~closed => \A i \in 1 .. Len(stream) : ~IsFooter(i)

IInv ==
  /\ TypeOK /\ HolderInv /\ PointsInv /\ RowInv /\ AckInv /\ PendingInv /\ EndsInv
  /\ FlushTruthful /\ ClosedFileComplete

------------------------------------------------------------------------------
(* Lemmas.                                                                 *)

\* At most one writer is in a call.
LEMMA OneHolder ==
  ASSUME TypeOK, NEW w \in Writers, pc[w] # "idle"
  PROVE  /\ mutex = w /\ mutex # NoWriter
         /\ \A v \in Writers : v # w => pc[v] = "idle"
BY CollectorAssumption DEF CollectorAssumption, TypeOK

\* What the pieces are.
LEMMA PieceTypes ==
  /\ HeaderPiece \in Pieces /\ HeaderPiece.kind = "header"
  /\ TitlePiece \in Pieces /\ TitlePiece.kind = "title" /\ TitlePiece # HeaderPiece
  /\ \A p \in Points, c \in BOOLEAN :
       OpenPiece(p, c) \in Pieces /\ OpenPiece(p, c).kind = "open" /\ OpenPiece(p, c).point = p
  /\ \A p \in Points :
       ClosePiece(p) \in Pieces /\ ClosePiece(p).kind = "close" /\ ClosePiece(p).point = p
  /\ \A n \in Nat : FooterPiece(n) \in Pieces /\ FooterPiece(n).kind = "footer"
BY DEF Pieces, HeaderPiece, TitlePiece, OpenPiece, ClosePiece, FooterPiece

\* An operator<< leaves what is in the stream, and adds the piece to a good one.
LEMMA PutEffect ==
  ASSUME TypeOK, NEW piece \in Pieces, Put(piece)
  PROVE  /\ stream' \in Seq(Pieces) /\ bad' \in BOOLEAN
         /\ flushed' \in Nat /\ flushed <= flushed' /\ flushed' <= Len(stream')
         /\ \A i \in 1 .. Len(stream) : stream'[i] = stream[i]
         /\ \/ bad /\ bad' /\ stream' = stream /\ flushed' = flushed
            \/ /\ ~bad /\ Len(stream') = Len(stream) + 1
               /\ stream'[Len(stream) + 1] = piece
<1>1. stream \in Seq(Pieces) /\ flushed \in 0 .. Len(stream) /\ bad \in BOOLEAN
  BY DEF TypeOK
<1>2. Len(stream) \in Nat
  BY <1>1, LenProperties
<1>3. CASE bad /\ UNCHANGED <<stream, flushed, bad>>
  BY <1>1, <1>2, <1>3
<1>4. CASE ~bad /\ stream' = Append(stream, piece) /\ flushed' \in flushed .. Len(stream') /\ UNCHANGED bad
  BY <1>1, <1>2, <1>4, AppendProperties
<1>5. CASE ~bad /\ stream' = Append(stream, piece) /\ flushed' \in flushed .. Len(stream) /\ bad' = TRUE
  BY <1>1, <1>2, <1>5, AppendProperties
<1>6. QED
  BY <1>3, <1>4, <1>5 DEF Put

\* A sequence with one more element.
LEMMA AppendEffect ==
  ASSUME NEW S, NEW s \in Seq(S), NEW e \in S, NEW t, t = Append(s, e)
  PROVE  /\ t \in Seq(S) /\ Len(t) = Len(s) + 1 /\ Len(s) \in Nat
         /\ t[Len(s) + 1] = e /\ \A k \in 1 .. Len(s) : t[k] = s[k]
BY AppendProperties, LenProperties

\* What is in the file stays there.
LEMMA FileGrows ==
  ASSUME TypeOK, flushed' \in Nat, flushed <= flushed',
         \A i \in 1 .. flushed : stream'[i] = stream[i], NEW p, InFile(p)
  PROVE  InFile(p)'
BY DEF TypeOK, InFile

\* What a successful Flush left in the file does not go away.
LEMMA TruthfulStays ==
  ASSUME TypeOK, FlushTruthful, synced' = synced, skipped \subseteq skipped',
         \A k \in 1 .. Len(points) : points'[k] = points[k],
         flushed' \in Nat, flushed <= flushed', \A i \in 1 .. flushed : stream'[i] = stream[i]
  PROVE  FlushTruthful'
<1> SUFFICES ASSUME NEW k \in 1 .. synced', points'[k] \notin skipped'
             PROVE  InFile(points[k])'
  BY DEF FlushTruthful
<1>1. k \in 1 .. synced /\ k \in 1 .. Len(points) /\ points'[k] = points[k]
  <2>1. synced \in 0 .. Len(points) /\ Len(points) \in Nat
    BY LenProperties DEF TypeOK
  <2>2. QED
    BY <2>1
<1>2. InFile(points[k])
  BY <1>1 DEF FlushTruthful
<1>3. QED
  BY <1>1, <1>2 DEF TypeOK, InFile

\* Pieces that are added change nothing about those before them.
LEMMA PrefixStays ==
  ASSUME TypeOK, Len(stream') \in Nat, Len(stream) <= Len(stream'),
         \A i \in 1 .. Len(stream) : stream'[i] = stream[i]
  PROVE  /\ 1 .. Len(stream) \subseteq 1 .. Len(stream')
         /\ \A i \in 1 .. Len(stream) :
              /\ IsOpen(i)' <=> IsOpen(i)
              /\ IsClose(i)' <=> IsClose(i)
              /\ stream'[i].point = stream[i].point
              /\ Whole(i) => Whole(i)'
<1>1. Len(stream) \in Nat
  BY LenProperties DEF TypeOK
<1>2. \A i \in 1 .. Len(stream) : i > 1 => i - 1 \in 1 .. Len(stream)
  BY <1>1
<1>3. QED
  BY <1>1, <1>2 DEF IsOpen, IsClose, Whole

\* The rows stay as they are when no end of a row is added.
LEMMA RowsStay ==
  ASSUME TypeOK, RowInv, points' = points, acked' = acked,
         Len(stream') \in Nat, Len(stream) <= Len(stream'),
         \A i \in 1 .. Len(stream) : stream'[i] = stream[i],
         \A i \in 1 .. Len(stream') : i \notin 1 .. Len(stream) =>
           /\ ~IsClose(i)'
           /\ IsOpen(i)' => \E k \in 1 .. Len(points) : points[k] = stream'[i].point
  PROVE  RowInv'
<1>1. \A i \in 1 .. Len(stream') :
        /\ (IsOpen(i) \/ IsClose(i))' => \E k \in 1 .. Len(points') : points'[k] = stream'[i].point
        /\ IsClose(i)' => i \in 1 .. Len(stream) /\ IsClose(i) /\ Whole(i)' /\ stream'[i].point \in acked'
  BY PrefixStays DEF RowInv
<1>2. ASSUME NEW i \in 1 .. Len(stream'), NEW j \in 1 .. Len(stream'),
             NEW a \in 1 .. Len(points'), NEW b \in 1 .. Len(points'),
             i < j, IsClose(i)', IsClose(j)',
             points'[a] = stream'[i].point, points'[b] = stream'[j].point
      PROVE  a < b
  <2>1. /\ i \in 1 .. Len(stream) /\ IsClose(i)
        /\ j \in 1 .. Len(stream) /\ IsClose(j)
    BY <1>1, <1>2
  <2>2. /\ a \in 1 .. Len(points) /\ points[a] = stream[i].point
        /\ b \in 1 .. Len(points) /\ points[b] = stream[j].point
    BY <2>1, <1>2
  <2>3. QED
    BY <2>1, <2>2, <1>2 DEF RowInv
<1>3. \A i, j \in 1 .. Len(stream'), a, b \in 1 .. Len(points') :
        (/\ i < j /\ IsClose(i)' /\ IsClose(j)'
         /\ points'[a] = stream'[i].point /\ points'[b] = stream'[j].point) => a < b
  BY <1>2
<1>4. QED
  BY <1>1, <1>3 DEF RowInv

\* The rows of the acknowledged points stay in a good stream.
LEMMA AckedRowsStay ==
  ASSUME TypeOK, AckInv, ~bad, Len(stream') \in Nat, Len(stream) <= Len(stream'),
         \A i \in 1 .. Len(stream) : stream'[i] = stream[i]
  PROVE  \A p \in acked : \E i \in 1 .. Len(stream') : IsClose(i)' /\ stream'[i].point = p
BY PrefixStays DEF AckInv

\* The ends of the stream stay as they are when no footer is added.
LEMMA EndsStay ==
  ASSUME TypeOK, EndsInv, headed => headed', closed' = closed,
         Len(stream') \in Nat, Len(stream) <= Len(stream'),
         \A i \in 1 .. Len(stream) : stream'[i] = stream[i],
         \A i \in 1 .. Len(stream') : i \notin 1 .. Len(stream) => stream'[i].kind # "footer"
  PROVE  EndsInv'
<1>1. Len(stream) \in Nat /\ 1 \in 1 .. Len(stream)
  BY LenProperties DEF TypeOK, EndsInv
<1>2. stream'[1] = stream[1] /\ Len(stream') > 0
  BY <1>1
<1>3. ~closed => \A i \in 1 .. Len(stream') : stream'[i].kind # "footer"
  BY DEF EndsInv, IsFooter
<1>4. QED
  BY <1>2, <1>3 DEF EndsInv, IsFooter

------------------------------------------------------------------------------
(* The steps.                                                              *)

\* Only the header is there at first.
LEMMA InitIInv == Init => IInv
<1> SUFFICES ASSUME Init PROVE IInv
  OBVIOUS
<1> USE DEF Init
<1>1. /\ stream \in Seq(Pieces) /\ Len(stream) = 1
      /\ stream[1].kind \in {"header", "title"} /\ (stream[1] = HeaderPiece => headed)
      /\ headed \in BOOLEAN /\ Len(points) = 0 /\ points \in Seq(Points)
  <2>1. headed \in BOOLEAN
    OBVIOUS
  <2>2. CASE headed
    BY <2>2, PieceTypes
  <2>3. CASE ~headed
    <3>1. stream = <<TitlePiece>>
      BY <2>3
    <3>2. stream \in Seq(Pieces) /\ Len(stream) = 1 /\ stream[1] = TitlePiece
      BY <3>1, PieceTypes
    <3>3. QED
      BY <2>1, <3>2, PieceTypes
  <2>4. QED
    BY <2>1, <2>2, <2>3
<1>2. TypeOK
  <2>1. count \in [Writers -> 0 .. MaxPoints]
    BY CollectorAssumption DEF CollectorAssumption
  <2>2. \A w \in Writers : pc[w] # "idle" <=> mutex = w
    BY CollectorAssumption DEF CollectorAssumption
  <2>3. /\ flushed \in 0 .. Len(stream) /\ synced \in 0 .. Len(points)
        /\ acked \subseteq Points /\ skipped \subseteq Points
    BY <1>1
  <2>4. QED
    BY <1>1, <2>1, <2>2, <2>3 DEF TypeOK
<1>3. HolderInv /\ PointsInv
  BY <1>1 DEF HolderInv, PointsInv
<1>4. RowInv
  BY <1>1 DEF RowInv, IsOpen, IsClose
<1>5. AckInv /\ PendingInv /\ EndsInv
  BY <1>1 DEF AckInv, PendingInv, EndsInv, Writing, IsOpen, IsFooter
<1>6. FlushTruthful /\ ClosedFileComplete
  BY DEF FlushTruthful, ClosedFileComplete
<1>7. QED
  BY <1>2, <1>3, <1>4, <1>5, <1>6 DEF IInv

\* Taking the lock begins a call and changes no data.
LEMMA LockStep ==
  ASSUME IInv, NEW w \in Writers, CollectLock(w)
  PROVE  IInv'
<1> USE DEF CollectLock, CanLock
<1>1. \A v \in Writers : pc[v] = "idle"
  BY CollectorAssumption DEF CollectorAssumption, IInv, TypeOK
<1>2. pc' = [pc EXCEPT ![w] = "push"] /\ pc \in [Writers -> {"idle", "push", "open", "close"}]
  BY DEF IInv, TypeOK
<1>3. TypeOK'
  BY <1>1, <1>2, CollectorAssumption DEF CollectorAssumption, IInv, TypeOK
<1>4. HolderInv'
  BY <1>1, <1>2 DEF HolderInv
<1>5. \A v \in Writers : ~Writing(v) /\ ~Writing(v)'
  BY <1>1, <1>2 DEF Writing
<1>6. AckInv' /\ PendingInv' /\ EndsInv'
  BY <1>1, <1>2, <1>5 DEF IInv, AckInv, PendingInv, EndsInv, IsOpen, IsClose, IsFooter
<1>7. PointsInv' /\ RowInv' /\ FlushTruthful' /\ ClosedFileComplete'
  BY DEF IInv, PointsInv, RowInv, IsOpen, IsClose, Whole, FlushTruthful, ClosedFileComplete,
         InFile, IsFooter, RuleMayThrow
<1>8. QED
  BY <1>3, <1>4, <1>6, <1>7 DEF IInv

\* The new point is a point that was not there, as its number shows.
LEMMA PushEffect ==
  ASSUME IInv, NEW w \in Writers, CollectPush(w)
  PROVE  /\ <<w, count[w] + 1>> \in Points
         /\ points' = Append(points, <<w, count[w] + 1>>) /\ points' \in Seq(Points)
         /\ Len(points') = Len(points) + 1 /\ Len(points) \in Nat
         /\ points'[Len(points) + 1] = <<w, count[w] + 1>>
         /\ \A k \in 1 .. Len(points) : points'[k] = points[k]
         /\ \A k \in 1 .. Len(points) : points[k] # <<w, count[w] + 1>>
<1> USE DEF CollectPush
<1>1. count[w] \in 0 .. MaxPoints /\ count[w] < MaxPoints /\ count' = [count EXCEPT ![w] = count[w] + 1]
  BY DEF IInv, TypeOK, HolderInv
<1>2. <<w, count[w] + 1>> \in Points /\ count'[w] = count[w] + 1
  BY <1>1, CollectorAssumption DEF CollectorAssumption, Points, IInv, TypeOK
<1>3. points \in Seq(Points) /\ points' = Append(points, <<w, count[w] + 1>>)
  BY <1>2 DEF IInv, TypeOK
<1>4. \A k \in 1 .. Len(points) : points[k] # <<w, count[w] + 1>>
  <2> SUFFICES ASSUME NEW k \in 1 .. Len(points), points[k] = <<w, count[w] + 1>>
               PROVE  FALSE
    OBVIOUS
  <2>1. count[w] + 1 <= count[w]
    BY DEF IInv, PointsInv
  <2>2. QED
    BY <1>1, <2>1
<1>5. /\ points' \in Seq(Points) /\ Len(points') = Len(points) + 1 /\ Len(points) \in Nat
      /\ points'[Len(points) + 1] = <<w, count[w] + 1>>
      /\ \A k \in 1 .. Len(points) : points'[k] = points[k]
  <2>1. PICK e \in Points : e = <<w, count[w] + 1>>
    BY <1>2
  <2>2. points' = Append(points, e) /\ points \in Seq(Points)
    BY <1>3, <2>1
  <2> HIDE DEF CollectPush
  <2>3. /\ points' \in Seq(Points) /\ Len(points') = Len(points) + 1 /\ Len(points) \in Nat
        /\ points'[Len(points) + 1] = e /\ \A k \in 1 .. Len(points) : points'[k] = points[k]
    BY <2>2, AppendEffect
  <2>4. QED
    BY <2>1, <2>3
<1>6. QED
  BY <1>2, <1>3, <1>4, <1>5

\* A stored point disturbs no row: none of them is its own.
LEMMA PushStep ==
  ASSUME IInv, NEW w \in Writers, CollectPush(w)
  PROVE  IInv'
<1> DEFINE p == <<w, count[w] + 1>>
           n == Len(points)
<1>0. /\ pc[w] = "push" /\ count' = [count EXCEPT ![w] = count[w] + 1]
      /\ pc' = [pc EXCEPT ![w] = "open"]
      /\ UNCHANGED <<format, headed, stream, flushed, bad, mutex, closed, acked, skipped, synced>>
  BY DEF CollectPush
<1>1. /\ p \in Points /\ points' \in Seq(Points) /\ Len(points') = n + 1 /\ n \in Nat
      /\ points'[n + 1] = p
      /\ \A k \in 1 .. n : points'[k] = points[k] /\ points[k] # p
  BY PushEffect
<1> HIDE DEF p, n
<1>2. /\ pc \in [Writers -> {"idle", "push", "open", "close"}]
      /\ mutex = w /\ \A v \in Writers : v # w => pc[v] = "idle"
  BY <1>0, OneHolder DEF IInv, TypeOK
<1>3. pc' = [pc EXCEPT ![w] = "open"] /\ pc'[w] = "open" /\ \A v \in Writers : v # w => pc'[v] = "idle"
  BY <1>0, <1>2
<1>4. /\ count' \in [Writers -> 0 .. MaxPoints] /\ count'[w] = count[w] + 1
      /\ \A v \in Writers : v # w => count'[v] = count[v]
      /\ \A v \in Writers : count[v] \in Nat
  BY <1>0, CollectorAssumption DEF CollectorAssumption, IInv, TypeOK, HolderInv
<1>5. TypeOK'
  BY <1>0, <1>1, <1>2, <1>3, <1>4 DEF IInv, TypeOK, n
<1>6. HolderInv'
  BY <1>0, <1>2, <1>3, CollectorAssumption DEF CollectorAssumption, IInv, HolderInv
<1>7. PointsInv'
  <2>1. \A k \in 1 .. n : points[k] \in Points /\ points[k][1] \in Writers
    <3>1. points \in Seq(Points)
      BY DEF IInv, TypeOK
    <3>2. \A k \in 1 .. n : points[k] \in Points
      BY <3>1, ElementOfSeq DEF n
    <3>3. QED
      BY <3>2 DEF Points
  <2>2. \A k \in 1 .. n : points[k][2] \in Nat /\ points[k][2] <= count'[points[k][1]]
    BY <1>4, <2>1, CollectorAssumption DEF CollectorAssumption, IInv, PointsInv, Points, n
  <2>3. \A k \in 1 .. Len(points') : points'[k][2] <= count'[points'[k][1]]
    BY <1>1, <1>4, <2>2 DEF p
  <2>4. \A j, k \in 1 .. Len(points') : points'[j] = points'[k] => j = k
    BY <1>1 DEF IInv, PointsInv, n
  <2>5. QED
    BY <2>3, <2>4 DEF PointsInv
<1>8. RowInv'
  <2>1. ASSUME NEW i \in 1 .. Len(stream), NEW a \in 1 .. (n + 1), IsClose(i) \/ IsOpen(i),
               points'[a] = stream[i].point
        PROVE  a \in 1 .. n /\ points[a] = stream[i].point
    <3>1. PICK k \in 1 .. n : points[k] = stream[i].point
      BY <2>1 DEF IInv, RowInv, n
    <3>2. a # n + 1
      BY <1>1, <2>1, <3>1
    <3>3. QED
      BY <1>1, <2>1, <3>2
  <2>2. \A i \in 1 .. Len(stream) :
          /\ IsOpen(i) \/ IsClose(i) => \E k \in 1 .. (n + 1) : points'[k] = stream[i].point
          /\ IsClose(i) => Whole(i) /\ stream[i].point \in acked
    BY <1>1 DEF IInv, RowInv, n
  <2>3. \A i, j \in 1 .. Len(stream), a, b \in 1 .. (n + 1) :
          (/\ i < j /\ IsClose(i) /\ IsClose(j)
           /\ points'[a] = stream[i].point /\ points'[b] = stream[j].point) => a < b
    BY <2>1 DEF IInv, RowInv, n
  <2>4. stream' = stream /\ acked' = acked /\ Len(points') = n + 1
    BY <1>0, <1>1
  <2>5. \A i : (IsOpen(i)' <=> IsOpen(i)) /\ (IsClose(i)' <=> IsClose(i)) /\ (Whole(i)' <=> Whole(i))
    BY <2>4 DEF IsOpen, IsClose, Whole
  <2>6. \A i \in 1 .. Len(stream') :
          /\ IsOpen(i)' \/ IsClose(i)' => \E k \in 1 .. Len(points') : points'[k] = stream'[i].point
          /\ IsClose(i)' => Whole(i)' /\ stream'[i].point \in acked'
    BY <2>2, <2>4, <2>5
  <2>7. \A i, j \in 1 .. Len(stream'), a, b \in 1 .. Len(points') :
          (/\ i < j /\ IsClose(i)' /\ IsClose(j)'
           /\ points'[a] = stream'[i].point /\ points'[b] = stream'[j].point) => a < b
    BY <2>3, <2>4, <2>5
  <2>8. QED
    BY <2>6, <2>7 DEF RowInv
<1>9. AckInv'
  <2>1. \A q \in acked : \E k \in 1 .. (n + 1) : points'[k] = q
    BY <1>1 DEF IInv, AckInv, n
  <2>2. ASSUME NEW k \in 1 .. (n + 1)
        PROVE  points'[k] \in acked \cup skipped \/ (k = n + 1 /\ \E v \in Writers : Writing(v)')
    <3>1. Writing(w)'
      BY <1>3 DEF Writing
    <3>2. CASE k = n + 1
      BY <3>1, <3>2
    <3>3. CASE k # n + 1
      <4>1. \A v \in Writers : ~Writing(v)
        BY <1>0, <1>2 DEF Writing
      <4>2. k \in 1 .. n /\ points[k] \in acked \cup skipped
        BY <1>1, <3>3, <4>1 DEF IInv, AckInv, n
      <4>3. QED
        BY <1>1, <4>2
    <3>4. QED
      BY <3>2, <3>3
  <2>3. points'[Len(points')] \notin acked
    BY <1>1 DEF IInv, AckInv, n
  <2>4. ~bad => \A q \in acked : \E i \in 1 .. Len(stream) : IsClose(i) /\ stream[i].point = q
    BY DEF IInv, AckInv
  <2>5. /\ stream' = stream /\ acked' = acked /\ skipped' = skipped /\ bad' = bad
        /\ Len(points') = n + 1 /\ n + 1 > 0
    BY <1>0, <1>1
  <2>6. QED
    <3>1. \A q \in acked' : \E k \in 1 .. Len(points') : points'[k] = q
      BY <2>1, <2>5
    <3>2. \A k \in 1 .. Len(points') :
            points'[k] \in acked' \cup skipped'
            \/ (k = Len(points') /\ \E v \in Writers : Writing(v)')
      BY <2>2, <2>5
    <3>3. Len(points') > 0 /\ Current' \notin acked'
      BY <2>3, <2>5 DEF Current
    <3>4. ~bad' => \A q \in acked' : \E i \in 1 .. Len(stream') :
                     stream'[i].kind = "close" /\ stream'[i].point = q
      BY <2>4, <2>5 DEF IsClose
    <3>5. QED
      BY <3>1, <3>2, <3>3, <3>4 DEF AckInv, IsClose
<1>10. PendingInv' /\ EndsInv'
  <2>1. ASSUME NEW i \in 1 .. Len(stream), IsOpen(i) PROVE stream[i].point # p
    BY <1>1, <2>1 DEF IInv, RowInv, n
  <2>2. Current' = p
    BY <1>1 DEF Current
  <2>3. PendingInv'
    BY <1>0, <1>3, <2>1, <2>2 DEF PendingInv, IsOpen
  <2>4. QED
    BY <1>0, <2>3 DEF IInv, EndsInv, IsFooter
<1>11. FlushTruthful'
  <2>1. TypeOK /\ FlushTruthful /\ flushed' = flushed /\ flushed \in Nat
    BY <1>0 DEF IInv, TypeOK
  <2>2. \A k \in 1 .. Len(points) : points'[k] = points[k]
    BY <1>1 DEF n
  <2>3. QED
    BY <1>0, <2>1, <2>2, TruthfulStays
<1>12. ClosedFileComplete'
  BY <1>0, <1>2, CollectorAssumption DEF CollectorAssumption, IInv, HolderInv, ClosedFileComplete
<1>13. QED
  BY <1>5, <1>6, <1>7, <1>8, <1>9, <1>10, <1>11, <1>12 DEF IInv

\* The point of a writer that is between storing it and the end of its row.
LEMMA CurrentPoint ==
  ASSUME IInv, NEW w \in Writers, Writing(w)
  PROVE  /\ Len(points) \in Nat /\ Len(points) > 0 /\ Current \in Points /\ Current \notin acked
         /\ \A k \in 1 .. Len(points) : points[k] = Current => k = Len(points)
         /\ mutex = w /\ ~closed /\ \A v \in Writers : v # w => pc[v] = "idle"
<1>1. points \in Seq(Points) /\ Len(points) \in Nat /\ Len(points) > 0 /\ Current \notin acked
  BY LenProperties DEF IInv, TypeOK, AckInv
<1>2. Len(points) \in 1 .. Len(points)
  BY <1>1
<1>3. Current \in Points
  BY <1>1, <1>2, ElementOfSeq DEF Current
<1>4. \A k \in 1 .. Len(points) : points[k] = Current => k = Len(points)
  BY <1>2 DEF IInv, PointsInv, Current
<1>5. pc[w] # "idle"
  BY DEF Writing
<1>6. mutex = w /\ ~closed /\ \A v \in Writers : v # w => pc[v] = "idle"
  BY <1>5, OneHolder DEF IInv, HolderInv
<1>7. QED
  BY <1>1, <1>3, <1>4, <1>6

\* The first piece of a row, if it is written, is the row's begin.
LEMMA OpenStep ==
  ASSUME IInv, NEW w \in Writers, WriteOpen(w)
  PROVE  IInv'
<1>0. /\ pc[w] = "open" /\ pc' = [pc EXCEPT ![w] = "close"]
      /\ Put(OpenPiece(Current, NeedsComma))
      /\ UNCHANGED <<format, headed, points, mutex, count, closed, acked, skipped, synced>>
      /\ Writing(w)
  BY DEF WriteOpen, Writing
<1>1. /\ Len(points) \in Nat /\ Len(points) > 0 /\ Current \in Points /\ Current \notin acked
      /\ mutex = w /\ ~closed /\ \A v \in Writers : v # w => pc[v] = "idle"
  BY <1>0, CurrentPoint
<1> DEFINE piece == OpenPiece(Current, NeedsComma)
<1>2. piece \in Pieces /\ piece.kind = "open" /\ piece.point = Current
  BY <1>1, PieceTypes DEF NeedsComma
<1> HIDE DEF piece
<1>3. TypeOK /\ Put(piece) /\ Len(stream) \in Nat
  BY <1>0, LenProperties DEF IInv, TypeOK, piece
<1>4. /\ stream' \in Seq(Pieces) /\ bad' \in BOOLEAN
      /\ flushed' \in Nat /\ flushed <= flushed' /\ flushed' <= Len(stream')
      /\ \A i \in 1 .. Len(stream) : stream'[i] = stream[i]
      /\ \/ bad /\ bad' /\ stream' = stream /\ flushed' = flushed
         \/ /\ ~bad /\ Len(stream') = Len(stream) + 1
            /\ stream'[Len(stream) + 1] = piece
  BY <1>2, <1>3, PutEffect
<1>5. Len(stream') \in Nat /\ Len(stream) <= Len(stream') /\ flushed' \in 0 .. Len(stream')
  BY <1>3, <1>4, LenProperties
<1>6. pc \in [Writers -> {"idle", "push", "open", "close"}] /\ pc'[w] = "close"
      /\ \A v \in Writers : v # w => pc'[v] = "idle"
  BY <1>0, <1>1 DEF IInv, TypeOK
<1>7. TypeOK'
  BY <1>0, <1>1, <1>4, <1>5, <1>6 DEF IInv, TypeOK
<1>8. HolderInv' /\ PointsInv'
  BY <1>0, <1>1, <1>6 DEF IInv, HolderInv, PointsInv
<1>9. RowInv'
  <2>1. ASSUME NEW i \in 1 .. Len(stream'), i \notin 1 .. Len(stream)
        PROVE  ~IsClose(i)' /\ \E k \in 1 .. Len(points) : points[k] = stream'[i].point
    <3>1. i = Len(stream) + 1 /\ stream'[i] = piece
      BY <1>3, <1>4, <2>1
    <3>2. QED
      BY <1>1, <1>2, <3>1 DEF IsClose, Current
  <2>2. QED
    BY <1>0, <1>3, <1>4, <1>5, <2>1, RowsStay DEF IInv
<1>10. AckInv'
  <2>1. ~bad' => \A p \in acked : \E i \in 1 .. Len(stream') : IsClose(i)' /\ stream'[i].point = p
    BY <1>3, <1>4, <1>5, AckedRowsStay DEF IInv
  <2>2. \A v \in Writers : Writing(v)' <=> Writing(v)
    BY <1>0, <1>1, <1>6 DEF Writing
  <2>3. QED
    BY <1>0, <2>1, <2>2 DEF IInv, AckInv, Current
<1>11. PendingInv' /\ EndsInv'
  <2>1. Current' = Current
    BY <1>0 DEF Current
  <2>2. ~bad' => Len(stream') > 0 /\ stream'[Len(stream')] = piece
    BY <1>3, <1>4
  <2>3. ASSUME NEW i \in 1 .. Len(stream'), stream'[i].kind = "open", stream'[i].point = Current
        PROVE  i = Len(stream')
    <3>1. i \notin 1 .. Len(stream)
      BY <1>0, <1>4, <2>3 DEF IInv, PendingInv, IsOpen
    <3>2. QED
      BY <1>3, <1>4, <3>1
  <2>4. PendingInv'
    BY <1>2, <1>6, <2>1, <2>2, <2>3 DEF PendingInv, IsOpen
  <2>5. \A i \in 1 .. Len(stream') : i \notin 1 .. Len(stream) => stream'[i].kind # "footer"
    BY <1>2, <1>3, <1>4
  <2>6. QED
    BY <1>0, <1>3, <1>4, <1>5, <2>4, <2>5, EndsStay DEF IInv
<1>12. FlushTruthful'
  <2>1. \A i \in 1 .. flushed : stream'[i] = stream[i]
    BY <1>3, <1>4 DEF TypeOK
  <2>2. QED
    BY <1>0, <1>3, <1>4, <2>1, TruthfulStays DEF IInv
<1>13. ClosedFileComplete'
  BY <1>0, <1>1 DEF ClosedFileComplete
<1>14. QED
  BY <1>7, <1>8, <1>9, <1>10, <1>11, <1>12, <1>13 DEF IInv

\* A header that is tried again is no row.
LEMMA HeaderStep ==
  ASSUME IInv, NEW w \in Writers, WriteHeader(w)
  PROVE  IInv'
<1>0. /\ pc[w] = "open" /\ pc' = pc /\ Put(HeaderPiece) /\ headed' = TRUE /\ Writing(w)
      /\ UNCHANGED <<format, points, mutex, count, closed, acked, skipped, synced>>
  BY DEF WriteHeader, Writing
<1>1. /\ Len(points) \in Nat /\ Len(points) > 0 /\ Current \in Points
      /\ mutex = w /\ ~closed /\ \A v \in Writers : v # w => pc[v] = "idle"
  BY <1>0, CurrentPoint
<1>2. TypeOK /\ Len(stream) \in Nat /\ flushed \in 0 .. Len(stream)
  BY LenProperties DEF IInv, TypeOK
<1>3. /\ stream' \in Seq(Pieces) /\ bad' \in BOOLEAN
      /\ flushed' \in Nat /\ flushed <= flushed' /\ flushed' <= Len(stream')
      /\ \A i \in 1 .. Len(stream) : stream'[i] = stream[i]
      /\ \/ bad /\ bad' /\ stream' = stream /\ flushed' = flushed
         \/ /\ ~bad /\ Len(stream') = Len(stream) + 1
            /\ stream'[Len(stream) + 1] = HeaderPiece
  BY <1>0, <1>2, PieceTypes, PutEffect
<1>4. Len(stream') \in Nat /\ Len(stream) <= Len(stream') /\ flushed' \in 0 .. Len(stream')
  BY <1>2, <1>3
<1>5. \A i \in 1 .. Len(stream') : i \notin 1 .. Len(stream) => stream'[i].kind = "header"
  BY <1>2, <1>3, PieceTypes
<1>6. TypeOK'
  BY <1>0, <1>2, <1>3, <1>4 DEF TypeOK
<1>7. HolderInv' /\ PointsInv'
  BY <1>0 DEF IInv, HolderInv, PointsInv
<1>8. RowInv'
  BY <1>0, <1>2, <1>3, <1>4, <1>5, RowsStay DEF IInv, IsOpen, IsClose
<1>9. AckInv'
  <2>1. ~bad' => \A p \in acked : \E i \in 1 .. Len(stream') : IsClose(i)' /\ stream'[i].point = p
    BY <1>2, <1>3, <1>4, AckedRowsStay DEF IInv
  <2>2. QED
    BY <1>0, <2>1 DEF IInv, AckInv, Current, Writing
<1>10. PendingInv' /\ EndsInv'
  <2>1. \A i \in 1 .. Len(stream') : ~(stream'[i].kind = "open" /\ stream'[i].point = Current)
    BY <1>0, <1>3, <1>5 DEF IInv, PendingInv, IsOpen
  <2>2. PendingInv'
    BY <1>0, <1>1, <2>1 DEF PendingInv, IsOpen, Current
  <2>3. QED
    BY <1>0, <1>2, <1>3, <1>4, <1>5, <2>2, EndsStay DEF IInv
<1>11. FlushTruthful'
  <2>1. \A i \in 1 .. flushed : stream'[i] = stream[i]
    BY <1>2, <1>3
  <2>2. QED
    BY <1>0, <1>2, <1>3, <2>1, TruthfulStays DEF IInv
<1>12. ClosedFileComplete'
  BY <1>0, <1>1 DEF ClosedFileComplete
<1>13. QED
  BY <1>6, <1>7, <1>8, <1>9, <1>10, <1>11, <1>12 DEF IInv

\* A point that could not be stored changes no data.
LEMMA StoreThrowsStep ==
  ASSUME IInv, NEW w \in Writers, StoreThrows(w)
  PROVE  IInv'
<1>0. /\ pc[w] = "push" /\ pc' = [pc EXCEPT ![w] = "idle"] /\ mutex' = NoWriter
      /\ count' = [count EXCEPT ![w] = count[w] + 1]
      /\ UNCHANGED <<format, headed, points, stream, flushed, bad, closed, acked, skipped, synced>>
  BY DEF StoreThrows
<1>1. /\ TypeOK /\ mutex = w /\ ~closed
      /\ \A v \in Writers : v # w => pc[v] = "idle"
  BY <1>0, OneHolder, CollectorAssumption DEF CollectorAssumption, IInv, HolderInv
<1>2. /\ pc' \in [Writers -> {"idle", "push", "open", "close"}]
      /\ \A v \in Writers : pc'[v] = "idle" /\ ~Writing(v)
  BY <1>0, <1>1 DEF TypeOK, Writing
<1>3. /\ count' \in [Writers -> 0 .. MaxPoints]
      /\ \A v \in Writers : count[v] \in Nat /\ count'[v] \in Nat /\ count[v] <= count'[v]
  BY <1>0, CollectorAssumption DEF CollectorAssumption, IInv, TypeOK, HolderInv
<1>4. TypeOK'
  BY <1>0, <1>1, <1>2, <1>3, CollectorAssumption DEF CollectorAssumption, TypeOK
<1>5. PointsInv'
  <2>1. \A k \in 1 .. Len(points) : points[k][1] \in Writers /\ points[k][2] \in Nat
    <3>1. \A k \in 1 .. Len(points) : points[k] \in Points
      BY <1>1, ElementOfSeq DEF TypeOK
    <3>2. QED
      BY <3>1, CollectorAssumption DEF CollectorAssumption, Points
  <2>2. \A k \in 1 .. Len(points) : points[k][2] <= count'[points[k][1]]
    BY <1>3, <2>1 DEF IInv, PointsInv
  <2>3. QED
    BY <1>0, <2>2 DEF IInv, PointsInv
<1>6. HolderInv' /\ RowInv' /\ AckInv' /\ PendingInv' /\ EndsInv'
  <2>1. HolderInv'
    BY <1>0, <1>2 DEF IInv, HolderInv
  <2>2. RowInv'
    BY <1>0, SMTT(30) DEF IInv, RowInv, IsOpen, IsClose, Whole
  <2>3. \A v \in Writers : ~Writing(v)'
    BY <1>2 DEF Writing
  <2>4. AckInv' /\ PendingInv'
    BY <1>0, <1>2, <2>3 DEF IInv, AckInv, PendingInv, IsClose
  <2>5. EndsInv'
    BY <1>0 DEF IInv, EndsInv, IsFooter
  <2>6. QED
    BY <2>1, <2>2, <2>4, <2>5
<1>7. FlushTruthful' /\ ClosedFileComplete'
  BY <1>0, <1>1 DEF IInv, FlushTruthful, ClosedFileComplete, InFile
<1>8. QED
  BY <1>4, <1>5, <1>6, <1>7 DEF IInv

\* A call that gives up adds no row, and skips its point.
LEMMA ThrowStep ==
  ASSUME IInv, NEW w \in Writers, HeaderThrows(w) \/ FormatThrows(w)
  PROVE  IInv'
<1>0. /\ Writing(w) /\ pc' = [pc EXCEPT ![w] = "idle"] /\ mutex' = NoWriter
      /\ skipped' = skipped \cup {Current}
      /\ UNCHANGED <<format, headed, points, count, closed, acked, synced>>
      /\ Put(TitlePiece) \/ UNCHANGED <<stream, flushed, bad>>
  BY DEF HeaderThrows, FormatThrows, TimestampAt, GiveUp, Writing
<1>1. /\ Len(points) \in Nat /\ Len(points) > 0 /\ Current \in Points /\ Current \notin acked
      /\ mutex = w /\ ~closed /\ \A v \in Writers : v # w => pc[v] = "idle"
  BY <1>0, CurrentPoint
<1>2. TypeOK /\ Len(stream) \in Nat /\ flushed \in 0 .. Len(stream)
  BY LenProperties DEF IInv, TypeOK
<1>3. /\ stream' \in Seq(Pieces) /\ bad' \in BOOLEAN /\ (bad => bad')
      /\ flushed' \in Nat /\ flushed <= flushed' /\ flushed' <= Len(stream')
      /\ \A i \in 1 .. Len(stream) : stream'[i] = stream[i]
      /\ \/ stream' = stream
         \/ Len(stream') = Len(stream) + 1 /\ stream'[Len(stream) + 1] = TitlePiece
  <2>1. CASE Put(TitlePiece)
    BY <1>2, <2>1, PieceTypes, PutEffect
  <2>2. CASE UNCHANGED <<stream, flushed, bad>>
    BY <1>2, <2>2 DEF TypeOK
  <2>3. QED
    BY <1>0, <2>1, <2>2
<1>4. Len(stream') \in Nat /\ Len(stream) <= Len(stream') /\ flushed' \in 0 .. Len(stream')
  BY <1>2, <1>3
<1>5. \A i \in 1 .. Len(stream') : i \notin 1 .. Len(stream) => stream'[i].kind = "title"
  BY <1>2, <1>3, PieceTypes
<1>6. /\ pc' \in [Writers -> {"idle", "push", "open", "close"}]
      /\ \A v \in Writers : pc'[v] = "idle"
  BY <1>0, <1>1 DEF IInv, TypeOK
<1>7. TypeOK'
  BY <1>0, <1>1, <1>3, <1>4, <1>6, CollectorAssumption DEF CollectorAssumption, IInv, TypeOK
<1>8. HolderInv' /\ PointsInv' /\ PendingInv'
  BY <1>0, <1>1, <1>6 DEF IInv, HolderInv, PointsInv, PendingInv
<1>9. RowInv' /\ EndsInv'
  <2>1. RowInv'
    BY <1>0, <1>2, <1>3, <1>4, <1>5, RowsStay DEF IInv, IsOpen, IsClose
  <2>2. QED
    BY <1>0, <1>2, <1>3, <1>4, <1>5, <2>1, EndsStay DEF IInv
<1>10. AckInv'
  <2>1. \A v \in Writers : ~Writing(v)'
    BY <1>6 DEF Writing
  <2>2. \A k \in 1 .. Len(points) : points[k] \in acked \cup skipped'
    BY <1>0 DEF IInv, AckInv, Current
  <2>3. ~bad' => \A p \in acked : \E i \in 1 .. Len(stream') : IsClose(i)' /\ stream'[i].point = p
    BY <1>2, <1>3, <1>4, AckedRowsStay DEF IInv
  <2>4. QED
    BY <1>0, <2>1, <2>2, <2>3 DEF IInv, AckInv
<1>11. FlushTruthful'
  <2>1. \A i \in 1 .. flushed : stream'[i] = stream[i]
    BY <1>2, <1>3
  <2>2. QED
    BY <1>0, <1>2, <1>3, <2>1, TruthfulStays DEF IInv
<1>12. ClosedFileComplete'
  BY <1>0, <1>1 DEF ClosedFileComplete
<1>13. QED
  BY <1>7, <1>8, <1>9, <1>10, <1>11, <1>12 DEF IInv

\* The last piece makes the row whole, behind the rows of earlier points.
LEMMA CloseStep ==
  ASSUME IInv, NEW w \in Writers, WriteClose(w)
  PROVE  IInv'
<1>0. /\ pc[w] = "close" /\ pc' = [pc EXCEPT ![w] = "idle"] /\ mutex' = NoWriter
      /\ Put(ClosePiece(Current)) /\ acked' = acked \cup {Current}
      /\ UNCHANGED <<format, headed, points, count, closed, skipped, synced>>
      /\ Writing(w)
  BY DEF WriteClose, Unlocked, Writing
<1>1. /\ Len(points) \in Nat /\ Len(points) > 0 /\ Current \in Points /\ Current \notin acked
      /\ \A k \in 1 .. Len(points) : points[k] = Current => k = Len(points)
      /\ mutex = w /\ ~closed /\ \A v \in Writers : v # w => pc[v] = "idle"
  BY <1>0, CurrentPoint
<1> DEFINE piece == ClosePiece(Current)
           n == Len(stream)
<1>2. piece \in Pieces /\ piece.kind = "close" /\ piece.point = Current
  BY <1>1, PieceTypes
<1> HIDE DEF piece
<1>3. TypeOK /\ Put(piece) /\ n \in Nat
  BY <1>0, LenProperties DEF IInv, TypeOK, piece
<1>4. /\ stream' \in Seq(Pieces) /\ bad' \in BOOLEAN
      /\ flushed' \in Nat /\ flushed <= flushed' /\ flushed' <= Len(stream')
      /\ \A i \in 1 .. n : stream'[i] = stream[i]
      /\ \/ bad /\ bad' /\ stream' = stream /\ flushed' = flushed
         \/ ~bad /\ Len(stream') = n + 1 /\ stream'[n + 1] = piece
  BY <1>2, <1>3, PutEffect
<1>5. Len(stream') \in Nat /\ n <= Len(stream') /\ flushed' \in 0 .. Len(stream')
  BY <1>3, <1>4, LenProperties
<1>6. /\ pc' \in [Writers -> {"idle", "push", "open", "close"}]
      /\ \A v \in Writers : pc'[v] = "idle"
  BY <1>0, <1>1 DEF IInv, TypeOK
<1>7. /\ 1 .. n \subseteq 1 .. Len(stream')
      /\ \A i \in 1 .. n :
           /\ IsOpen(i)' <=> IsOpen(i)
           /\ IsClose(i)' <=> IsClose(i)
           /\ stream'[i].point = stream[i].point
           /\ Whole(i) => Whole(i)'
  BY <1>3, <1>4, <1>5, PrefixStays
<1>8. ASSUME ~bad
      PROVE  /\ Len(stream') = n + 1 /\ n + 1 \in 1 .. Len(stream')
             /\ \A i \in 1 .. Len(stream') : i = n + 1 =>
                  IsClose(i)' /\ ~IsOpen(i)' /\ stream'[i].point = Current /\ Whole(i)'
  <2>1. n > 0 /\ stream[n].kind = "open" /\ stream[n].point = Current
    BY <1>0, <1>8 DEF IInv, PendingInv, IsOpen
  <2>2. Len(stream') = n + 1 /\ stream'[n + 1] = piece
    BY <1>4, <1>8
  <2>3. stream'[n] = stream[n] /\ (n + 1) - 1 = n /\ n + 1 > 1
    BY <1>3, <1>4, <2>1
  <2>4. QED
    BY <1>2, <1>3, <2>1, <2>2, <2>3 DEF IsClose, IsOpen, Whole
<1> HIDE DEF n
<1>9. TypeOK'
  BY <1>0, <1>1, <1>4, <1>5, <1>6, CollectorAssumption DEF CollectorAssumption, IInv, TypeOK
<1>10. HolderInv' /\ PointsInv' /\ PendingInv' /\ EndsInv'
  <2>1. HolderInv' /\ PointsInv'
    BY <1>0, <1>1, <1>6 DEF IInv, HolderInv, PointsInv
  <2>2. PendingInv'
    BY <1>6 DEF PendingInv
  <2>3. \A i \in 1 .. Len(stream') : i \notin 1 .. Len(stream) => stream'[i].kind # "footer"
    BY <1>2, <1>3, <1>4 DEF n
  <2>4. EndsInv'
    BY <1>0, <1>3, <1>4, <1>5, <2>3, EndsStay DEF IInv, n
  <2>5. QED
    BY <2>1, <2>2, <2>4
<1>11. \A i \in 1 .. Len(stream') : i \in 1 .. n \/ (i = n + 1 /\ ~bad)
  BY <1>3, <1>4 DEF n
<1>12. RowInv'
  <2>1. \A i \in 1 .. n :
          /\ (IsOpen(i) \/ IsClose(i)) => \E k \in 1 .. Len(points) : points[k] = stream[i].point
          /\ IsClose(i) => Whole(i) /\ stream[i].point \in acked
    BY DEF IInv, RowInv, n
  <2>2. \A i \in 1 .. Len(stream') :
          /\ (IsOpen(i) \/ IsClose(i))' => \E k \in 1 .. Len(points') : points'[k] = stream'[i].point
          /\ IsClose(i)' => Whole(i)' /\ stream'[i].point \in acked'
    <3> SUFFICES ASSUME NEW i \in 1 .. Len(stream')
                 PROVE  /\ (IsOpen(i) \/ IsClose(i))' =>
                             \E k \in 1 .. Len(points) : points[k] = stream'[i].point
                        /\ IsClose(i)' => Whole(i)' /\ stream'[i].point \in acked'
      BY <1>0
    <3>1. CASE i \in 1 .. n
      BY <1>0, <1>7, <2>1, <3>1
    <3>2. CASE i = n + 1 /\ ~bad
      <4>1. Len(points) \in 1 .. Len(points) /\ points[Len(points)] = Current
        BY <1>1 DEF Current
      <4>2. QED
        BY <1>0, <1>8, <3>2, <4>1
    <3>3. QED
      BY <1>11, <3>1, <3>2
  <2>3. ASSUME NEW i \in 1 .. Len(stream'), NEW j \in 1 .. Len(stream'),
               NEW a \in 1 .. Len(points), NEW b \in 1 .. Len(points),
               i < j, IsClose(i)', IsClose(j)',
               points[a] = stream'[i].point, points[b] = stream'[j].point
        PROVE  a < b
    <3>1. i \in 1 .. n
      BY <1>3, <1>11, <2>3
    <3>2. IsClose(i) /\ points[a] = stream[i].point /\ points[a] \in acked
      BY <1>7, <2>1, <2>3, <3>1
    <3>3. CASE j \in 1 .. n
      BY <1>7, <2>3, <3>1, <3>2, <3>3 DEF IInv, RowInv, n
    <3>4. CASE j = n + 1 /\ ~bad
      <4>1. b = Len(points) /\ a # Len(points)
        BY <1>1, <1>8, <2>3, <3>2, <3>4 DEF Current
      <4>2. QED
        BY <1>1, <4>1
    <3>5. QED
      BY <1>11, <3>3, <3>4
  <2>4. QED
    BY <1>0, <2>2, <2>3 DEF RowInv
<1>13. AckInv'
  <2>1. \A v \in Writers : ~Writing(v)'
    BY <1>6 DEF Writing
  <2>2. Len(points) \in 1 .. Len(points) /\ points[Len(points)] = Current
    BY <1>1 DEF Current
  <2>3. \A p \in acked' : \E k \in 1 .. Len(points') : points'[k] = p
    BY <1>0, <2>2 DEF IInv, AckInv
  <2>4. \A k \in 1 .. Len(points') : points'[k] \in acked' \cup skipped'
    BY <1>0, <2>2 DEF IInv, AckInv
  <2>5. ~bad' => \A p \in acked' : \E i \in 1 .. Len(stream') : IsClose(i)' /\ stream'[i].point = p
    <3>1. ~bad' => ~bad
      BY <1>4
    <3>2. ~bad => \A p \in acked : \E i \in 1 .. Len(stream') : IsClose(i)' /\ stream'[i].point = p
      BY <1>3, <1>4, <1>5, AckedRowsStay DEF IInv, n
    <3>3. QED
      BY <1>0, <1>8, <3>1, <3>2
  <2>6. QED
    BY <2>1, <2>3, <2>4, <2>5 DEF AckInv
<1>14. FlushTruthful'
  <2>1. \A i \in 1 .. flushed : stream'[i] = stream[i]
    BY <1>3, <1>4 DEF TypeOK, n
  <2>2. QED
    BY <1>0, <1>3, <1>4, <2>1, TruthfulStays DEF IInv
<1>15. ClosedFileComplete'
  BY <1>0, <1>1 DEF ClosedFileComplete
<1>16. QED
  BY <1>9, <1>10, <1>12, <1>13, <1>14, <1>15 DEF IInv

\* A flush that succeeds has drained the rows of every point not skipped.
LEMMA FlushStep ==
  ASSUME IInv, NEW w \in Writers, Flush(w)
  PROVE  IInv'
<1>0. /\ mutex = NoWriter /\ ~closed
      /\ \/ bad /\ UNCHANGED <<flushed, bad>>
         \/ ~bad /\ flushed' = Len(stream) /\ UNCHANGED bad
         \/ ~bad /\ flushed' \in flushed .. Len(stream) /\ bad' = TRUE
      /\ synced' = IF ~bad' THEN Len(points) ELSE synced
      /\ UNCHANGED <<format, headed, points, stream, mutex, pc, count, closed, acked, skipped>>
  BY DEF Flush, FlushResult, CanLock
<1>1. TypeOK /\ Len(stream) \in Nat /\ Len(points) \in Nat
  BY LenProperties DEF IInv, TypeOK
<1>2. flushed' \in 0 .. Len(stream) /\ flushed <= flushed' /\ bad' \in BOOLEAN /\ (bad => bad')
  <2>1. flushed' = flushed \/ flushed' = Len(stream) \/ flushed' \in flushed .. Len(stream)
    BY <1>0
  <2>2. flushed \in 0 .. Len(stream)
    BY <1>1 DEF TypeOK
  <2>3. flushed' \in 0 .. Len(stream) /\ flushed <= flushed'
    BY <1>1, <2>1, <2>2
  <2>4. bad' \in BOOLEAN /\ (bad => bad')
    BY <1>0, <1>1 DEF TypeOK
  <2>5. QED
    BY <2>3, <2>4
<1>3. TypeOK'
  BY <1>0, <1>1, <1>2 DEF TypeOK
<1>4. HolderInv' /\ PointsInv' /\ RowInv' /\ AckInv' /\ PendingInv' /\ EndsInv'
  BY <1>0, <1>2 DEF IInv, HolderInv, PointsInv, RowInv, AckInv, PendingInv, EndsInv,
                    IsOpen, IsClose, IsFooter, Whole, Writing, Current
<1>5. FlushTruthful'
  <2>1. CASE bad'
    <3>1. synced' = synced /\ \A i \in 1 .. flushed : stream'[i] = stream[i]
      BY <1>0, <2>1
    <3>2. QED
      BY <1>0, <1>1, <1>2, <3>1, TruthfulStays DEF IInv
  <2>2. CASE ~bad'
    <3>1. ~bad /\ flushed' = Len(stream) /\ synced' = Len(points)
      BY <1>0, <1>2, <2>2
    <3>2. \A v \in Writers : ~Writing(v)
      BY <1>0, <1>1, CollectorAssumption DEF CollectorAssumption, TypeOK, Writing
    <3>3. \A k \in 1 .. Len(points) : points[k] \notin skipped => points[k] \in acked
      BY <3>2 DEF IInv, AckInv
    <3>4. QED
      BY <1>0, <3>1, <3>3 DEF IInv, AckInv, IsClose, FlushTruthful, InFile
  <2>3. QED
    BY <2>1, <2>2
<1>6. ClosedFileComplete'
  BY <1>0 DEF ClosedFileComplete
<1>7. QED
  BY <1>3, <1>4, <1>5, <1>6 DEF IInv

\* The end adds at most the footer, and drains a stream that met no error.
LEMMA DestroyStep ==
  ASSUME IInv, Destroy
  PROVE  IInv'
<1>1. /\ ~closed /\ closed' /\ closed' \in BOOLEAN
      /\ \A w \in Writers : pc[w] = "idle"
      /\ \/ stream' = IF bad \/ format = "CSV" THEN stream
                      ELSE Append(stream, FooterPiece(Len(points)))
         \/ RuleMayThrow /\ stream' = stream
      /\ \/ flushed' = Len(stream') /\ bad' = bad
         \/ flushed' \in flushed .. Len(stream') /\ bad' = TRUE
      /\ UNCHANGED <<format, headed, points, mutex, pc, count, acked, skipped, synced>>
  BY DEF Destroy, WriteFooter, FooterThrows, FooterTotal
<1>2. TypeOK /\ Len(stream) \in Nat /\ Len(points) \in Nat /\ stream \in Seq(Pieces)
  BY LenProperties DEF IInv, TypeOK
<1> DEFINE piece == FooterPiece(Len(points))
           n == Len(stream)
<1>3. piece \in Pieces /\ piece.kind = "footer"
  BY <1>2, PieceTypes
<1>4. stream' = stream \/ stream' = Append(stream, piece)
  BY <1>1
<1>5. ~bad /\ format # "CSV" /\ ~RuleMayThrow => stream' = Append(stream, piece)
  BY <1>1
<1> HIDE DEF piece
<1>6. /\ stream' \in Seq(Pieces) /\ \A i \in 1 .. n : stream'[i] = stream[i]
      /\ \/ stream' = stream
         \/ Len(stream') = n + 1 /\ stream'[n + 1] = piece
      /\ ~bad /\ format # "CSV" /\ ~RuleMayThrow => stream'[Len(stream')] = piece
  BY <1>2, <1>3, <1>4, <1>5, AppendEffect
<1> HIDE DEF n
<1>7. Len(stream') \in Nat /\ n \in Nat /\ n <= Len(stream')
  BY <1>2, <1>6 DEF n
<1>8. flushed' \in 0 .. Len(stream') /\ flushed <= flushed' /\ flushed \in 0 .. n
  <2>1. flushed \in 0 .. n
    BY <1>2 DEF TypeOK, n
  <2>2. flushed' = Len(stream') \/ flushed' \in flushed .. Len(stream')
    BY <1>1
  <2>3. QED
    BY <1>7, <2>1, <2>2
<1>9. bad' \in BOOLEAN /\ (bad => bad')
  BY <1>1, <1>2 DEF TypeOK
<1>10. TypeOK'
  BY <1>1, <1>2, <1>6, <1>8, <1>9 DEF TypeOK
<1>11. HolderInv' /\ PointsInv' /\ PendingInv'
  <2>1. mutex = NoWriter
    BY <1>1, <1>2 DEF TypeOK
  <2>2. QED
    BY <1>1, <2>1 DEF IInv, HolderInv, PointsInv, PendingInv
<1>12. \A i \in 1 .. Len(stream') : i \notin 1 .. n => stream'[i] = piece
  BY <1>6, <1>7 DEF n
<1>13. RowInv'
  <2>1. \A i \in 1 .. Len(stream') : i \notin 1 .. n => ~IsClose(i)' /\ ~IsOpen(i)'
    BY <1>3, <1>12 DEF IsClose, IsOpen
  <2>2. QED
    BY <1>1, <1>2, <1>6, <1>7, <2>1, RowsStay DEF IInv, n
<1>14. AckInv'
  <2>1. ~bad' => \A p \in acked : \E i \in 1 .. Len(stream') : IsClose(i)' /\ stream'[i].point = p
    BY <1>2, <1>6, <1>7, <1>9, AckedRowsStay DEF IInv, n
  <2>2. \A v \in Writers : ~Writing(v) /\ ~Writing(v)'
    BY <1>1 DEF Writing
  <2>3. QED
    BY <1>1, <2>1, <2>2 DEF IInv, AckInv
<1>15. FlushTruthful'
  <2>1. \A i \in 1 .. flushed : stream'[i] = stream[i]
    BY <1>6, <1>7, <1>8
  <2>2. QED
    BY <1>1, <1>2, <1>8, <2>1, TruthfulStays DEF IInv
<1>16. EndsInv'
  <2>1. 1 \in 1 .. n /\ Len(stream') > 0
    BY <1>7 DEF IInv, EndsInv, n
  <2>2. stream'[1] = stream[1]
    BY <1>6, <2>1
  <2>3. QED
    BY <1>1, <2>1, <2>2 DEF IInv, EndsInv
<1>17. ClosedFileComplete'
  <2> SUFFICES ASSUME ~bad'
               PROVE  /\ flushed' = Len(stream')
                      /\ acked' = {p \in Points : InFile(p)'}
                      /\ \A i \in 1 .. Len(stream') : stream'[i].kind = "footer" =>
                           i = Len(stream') /\ stream'[i] = FooterPiece(Len(points'))
                      /\ (format' # "CSV" /\ ~RuleMayThrow')
                           => stream'[Len(stream')].kind = "footer"
    BY DEF ClosedFileComplete, IsFooter
  <2>1. flushed' = Len(stream') /\ ~bad
    BY <1>1, <1>9
  <2>2. \A p \in acked' : p \in Points /\ InFile(p)'
    BY <1>10, <1>14, <2>1 DEF TypeOK, AckInv, InFile, IsClose
  <2>3. \A p \in Points : InFile(p)' => p \in acked'
    BY <1>13, <2>1 DEF RowInv, InFile, IsClose
  <2>4. (format' # "CSV" /\ ~RuleMayThrow') => stream'[Len(stream')].kind = "footer"
    BY <1>1, <1>3, <1>6, <2>1 DEF RuleMayThrow
  <2>5. ASSUME NEW i \in 1 .. Len(stream'), stream'[i].kind = "footer"
        PROVE  i = Len(stream') /\ stream'[i] = FooterPiece(Len(points'))
    <3>1. i \notin 1 .. n
      BY <1>1, <1>6, <2>5 DEF IInv, EndsInv, IsFooter, n
    <3>2. i = Len(stream') /\ stream'[i] = piece
      BY <1>6, <1>7, <1>12, <3>1 DEF n
    <3>3. QED
      BY <1>1, <3>2 DEF piece
  <2>6. QED
    BY <2>1, <2>2, <2>3, <2>4, <2>5
<1>18. QED
  BY <1>10, <1>11, <1>13, <1>14, <1>15, <1>17, <1>16 DEF IInv

\* The invariant holds whatever the threads, the disk and the allocator do.
THEOREM Invariance == Spec => []IInv
<1>1. IInv /\ [Next]_vars => IInv'
  <2> SUFFICES ASSUME IInv, [Next]_vars
               PROVE  IInv'
    OBVIOUS
  <2>1. ASSUME NEW w \in Writers, CollectLock(w) PROVE IInv'
    BY <2>1, LockStep
  <2>2. ASSUME NEW w \in Writers, CollectPush(w) PROVE IInv'
    BY <2>2, PushStep
  <2>3. ASSUME NEW w \in Writers, WriteOpen(w) PROVE IInv'
    BY <2>3, OpenStep
  <2>4. ASSUME NEW w \in Writers, StoreThrows(w) PROVE IInv'
    BY <2>4, StoreThrowsStep
  <2>5. ASSUME NEW w \in Writers, WriteHeader(w) PROVE IInv'
    BY <2>5, HeaderStep
  <2>6. ASSUME NEW w \in Writers, HeaderThrows(w) \/ FormatThrows(w) PROVE IInv'
    BY <2>6, ThrowStep
  <2>7. ASSUME NEW w \in Writers, WriteClose(w) PROVE IInv'
    BY <2>7, CloseStep
  <2>8. ASSUME NEW w \in Writers, Flush(w) PROVE IInv'
    BY <2>8, FlushStep
  <2>9. CASE Destroy
    BY <2>9, DestroyStep
  <2>10. CASE UNCHANGED vars
    <3> USE DEF vars
    <3>1. TypeOK' /\ HolderInv' /\ PointsInv'
      BY <2>10 DEF IInv, TypeOK, HolderInv, PointsInv
    <3>2. RowInv' /\ AckInv'
      BY <2>10, SMTT(30) DEF IInv, RowInv, AckInv, IsOpen, IsClose, Whole, Writing, Current
    <3>3. PendingInv' /\ EndsInv'
      BY <2>10 DEF IInv, PendingInv, EndsInv, IsOpen, IsFooter, Current
    <3>4. FlushTruthful' /\ ClosedFileComplete'
      BY <2>10 DEF IInv, FlushTruthful, ClosedFileComplete, InFile, IsFooter, RuleMayThrow
    <3>5. QED
      BY <3>1, <3>2, <3>3, <3>4 DEF IInv
  <2>11. QED
    BY <2>1, <2>2, <2>3, <2>4, <2>7, <2>8, <2>9, <2>10, <2>5, <2>6 DEF Next, CollectStep
<1>2. QED
  BY InitIInv, <1>1, PTL DEF Spec

------------------------------------------------------------------------------
(* The theorems.                                                           *)

\* The state of a collector is well formed: the owner of mutex_ is the one
\* thread that is inside a call.
THEOREM TypeCorrect == Spec => []TypeOK
BY Invariance, PTL DEF IInv

\* No loss hides behind a Flush that returned true.
THEOREM FlushCorrect == Spec => []FlushTruthful
BY Invariance, PTL DEF IInv

\* A file closed without an error has a row for exactly the acknowledged
\* points, and a footer that counts all of them.
THEOREM CloseCorrect == Spec => []ClosedFileComplete
BY Invariance, PTL DEF IInv

------------------------------------------------------------------------------
(* The collector implements CollectorLog.                                  *)

\* The rows in the stream, and in the file: the invariant rules out torn ones.
RowsTo(n) ==
  {r \in (1 .. n) \X (1 .. Len(points)) : IsClose(r[1]) /\ points[r[2]] = stream[r[1]].point}

\* RowsUpTo at the two places the refinement uses it.
LEMMA RowsAre ==
  IInv => RowsUpTo(Len(stream)) = RowsTo(Len(stream)) /\ RowsUpTo(flushed) = RowsTo(flushed)
<1> SUFFICES ASSUME IInv, NEW n \in 0 .. Len(stream) PROVE RowsUpTo(n) = RowsTo(n)
  BY LenProperties DEF IInv, TypeOK
<1>1. Len(points) \in Nat /\ Len(stream) \in Nat
  BY LenProperties DEF IInv, TypeOK
<1>2. ASSUME NEW i \in 1 .. n, IsClose(i) PROVE Whole(i)
  BY <1>1, <1>2 DEF IInv, RowInv
<1>3. \A i \in 1 .. n : IsClose(i) <=> stream[i].kind = "close"
  BY DEF IsClose
<1>4. \A k \in 0 .. Len(points) : k # 0 <=> k \in 1 .. Len(points)
  BY <1>1
<1>5. ASSUME NEW r \in RowsUpTo(n) PROVE r \in RowsTo(n)
  BY <1>2, <1>3, <1>4, <1>5 DEF RowsUpTo, RowsTo
<1>6. ASSUME NEW r \in RowsTo(n) PROVE r \in RowsUpTo(n)
  <2>1. r \in (1 .. n) \X (1 .. Len(points))
        /\ IsClose(r[1]) /\ points[r[2]] = stream[r[1]].point
    BY <1>6 DEF RowsTo
  <2>2. r \in (1 .. n) \X (0 .. Len(points)) /\ r[2] # 0 /\ r[1] \in 1 .. n
    BY <1>1, <2>1
  <2>3. QED
    BY <1>2, <1>3, <2>1, <2>2 DEF RowsUpTo
<1>7. QED
  BY <1>5, <1>6

\* A collector that has collected nothing is an empty log.
LEMMA LogInit == Init => Log!Init
<1> SUFFICES ASSUME Init PROVE Log!Init
  OBVIOUS
<1>1. IInv
  BY InitIInv
<1>2. Len(points) = 0 /\ points = <<>>
  BY DEF Init
<1>3. RowsTo(Len(stream)) = {} /\ RowsTo(flushed) = {} /\ Torn = {}
  BY <1>2 DEF RowsTo, Torn
<1>4. QED
  BY <1>1, <1>2, <1>3, RowsAre DEF Init, Log!Init

\* The two sets of rows, in this state and in the next.
LEMMA RowsBoth ==
  ASSUME IInv, IInv'
  PROVE  /\ RowsUpTo(Len(stream)) = RowsTo(Len(stream)) /\ RowsUpTo(flushed) = RowsTo(flushed)
         /\ RowsUpTo(Len(stream))' = RowsTo(Len(stream))' /\ RowsUpTo(flushed)' = RowsTo(flushed)'
<1>1. RowsUpTo(Len(stream)) = RowsTo(Len(stream)) /\ RowsUpTo(flushed) = RowsTo(flushed)
  BY RowsAre
<1>2. (RowsUpTo(Len(stream)) = RowsTo(Len(stream)) /\ RowsUpTo(flushed) = RowsTo(flushed))'
  BY RowsAre, PTL
<1>3. QED
  BY <1>1, <1>2

\* Rows reach the file in their order.
LEMMA SavedGrows ==
  ASSUME IInv, IInv', points' = points, flushed <= flushed',
         \A i \in 1 .. flushed : stream'[i] = stream[i]
  PROVE  Log!MoreSaved
<1>1. /\ flushed \in Nat /\ flushed' \in Nat /\ flushed' <= Len(stream') /\ Len(stream') \in Nat
  BY LenProperties DEF IInv, TypeOK
<1>2. RowsTo(flushed) \subseteq RowsTo(flushed)'
  <2> SUFFICES ASSUME NEW r \in RowsTo(flushed) PROVE r \in RowsTo(flushed)'
    OBVIOUS
  <2>1. r \in (1 .. flushed) \X (1 .. Len(points)) /\ IsClose(r[1]) /\ points[r[2]] = stream[r[1]].point
    BY DEF RowsTo
  <2>2. r \in (1 .. flushed') \X (1 .. Len(points)) /\ stream'[r[1]] = stream[r[1]]
    BY <1>1, <2>1
  <2>3. QED
    BY <2>1, <2>2 DEF RowsTo, IsClose
<1>3. RowsTo(flushed)' \subseteq RowsTo(Len(stream))'
  <2> SUFFICES ASSUME NEW r \in RowsTo(flushed)' PROVE r \in RowsTo(Len(stream))'
    OBVIOUS
  <2>1. r \in (1 .. flushed') \X (1 .. Len(points'))
        /\ stream'[r[1]].kind = "close" /\ points'[r[2]] = stream'[r[1]].point
    BY DEF RowsTo, IsClose
  <2>2. r \in (1 .. Len(stream')) \X (1 .. Len(points'))
    BY <1>1, <2>1
  <2>3. QED
    BY <2>1, <2>2 DEF RowsTo, IsClose
<1>4. ASSUME NEW r \in RowsTo(Len(stream))', NEW s \in RowsTo(flushed)', r[1] < s[1]
      PROVE  r \in RowsTo(flushed)'
  <2>1. r \in (1 .. Len(stream')) \X (1 .. Len(points'))
        /\ stream'[r[1]].kind = "close" /\ points'[r[2]] = stream'[r[1]].point
    BY DEF RowsTo, IsClose
  <2>2. s \in (1 .. flushed') \X (1 .. Len(points'))
    BY DEF RowsTo
  <2>3. r \in (1 .. flushed') \X (1 .. Len(points'))
    BY <1>1, <1>4, <2>1, <2>2
  <2>4. QED
    BY <2>1, <2>3 DEF RowsTo, IsClose
<1>5. QED
  BY <1>2, <1>3, <1>4, RowsBoth DEF Log!MoreSaved

\* The rows are the same when the stream gets no new end of a row.
LEMMA SameRows ==
  ASSUME IInv, IInv', points' = points, Len(stream) <= Len(stream'),
         \A i \in 1 .. Len(stream) : stream'[i] = stream[i],
         \A i \in 1 .. Len(stream') : i \notin 1 .. Len(stream) => stream'[i].kind # "close"
  PROVE  RowsUpTo(Len(stream))' = RowsUpTo(Len(stream))
<1>1. Len(stream) \in Nat /\ Len(stream') \in Nat
  BY LenProperties DEF IInv, TypeOK
<1>2. ASSUME NEW r \in RowsTo(Len(stream)) PROVE r \in RowsTo(Len(stream))'
  <2>1. r \in (1 .. Len(stream)) \X (1 .. Len(points)) /\ IsClose(r[1]) /\ points[r[2]] = stream[r[1]].point
    BY <1>2 DEF RowsTo
  <2>2. r \in (1 .. Len(stream')) \X (1 .. Len(points)) /\ stream'[r[1]] = stream[r[1]]
    BY <1>1, <2>1
  <2>3. QED
    BY <2>1, <2>2 DEF RowsTo, IsClose
<1>3. ASSUME NEW r \in RowsTo(Len(stream))' PROVE r \in RowsTo(Len(stream))
  <2>1. r \in (1 .. Len(stream')) \X (1 .. Len(points'))
        /\ stream'[r[1]].kind = "close" /\ points'[r[2]] = stream'[r[1]].point
    BY <1>3 DEF RowsTo, IsClose
  <2>2. r \in (1 .. Len(stream)) \X (1 .. Len(points)) /\ stream'[r[1]] = stream[r[1]]
    BY <2>1
  <2>3. QED
    BY <2>1, <2>2 DEF RowsTo, IsClose
<1>4. RowsTo(Len(stream))' = RowsTo(Len(stream))
  BY <1>2, <1>3
<1>5. QED
  BY <1>4, RowsBoth

\* No row is torn by what is written when no row is being written.
LEMMA TornStays ==
  ASSUME TypeOK, points' = points, \A v \in Writers : pc'[v] = "close" <=> pc[v] = "close",
         Len(stream') \in Nat, Len(stream) <= Len(stream'),
         \A i \in 1 .. Len(stream) : stream'[i] = stream[i],
         \A i \in 1 .. Len(stream') : i \notin 1 .. Len(stream) =>
           stream'[i].kind \in {"header", "title", "footer"}
  PROVE  Torn' = Torn
<1>1. Len(stream) \in Nat
  BY LenProperties DEF TypeOK
<1>2. ASSUME NEW i \in 1 .. Len(stream) PROVE Unended(i)' <=> Unended(i)
  <2>1. i \in 1 .. Len(stream') /\ stream'[i] = stream[i]
    BY <1>1
  <2>2. CASE i < Len(stream)
    <3>1. i < Len(stream') /\ stream'[i + 1] = stream[i + 1]
      BY <1>1, <2>2
    <3>2. QED
      BY <2>1, <2>2, <3>1 DEF Unended, ClosePiece
  <2>3. CASE i = Len(stream)
    <3>1. i < Len(stream') => stream'[i + 1].kind # "close"
      <4>1. i < Len(stream') => i + 1 \in 1 .. Len(stream') /\ i + 1 \notin 1 .. Len(stream)
        BY <1>1, <2>3
      <4>2. QED
        BY <4>1
    <3>2. ClosePiece(stream[i].point).kind = "close"
      BY DEF ClosePiece
    <3>3. QED
      BY <1>1, <2>1, <2>3, <3>1, <3>2 DEF Unended, ClosePiece
  <2>4. QED
    BY <1>1, <2>2, <2>3
<1>3. \A i \in 1 .. Len(stream') : Unended(i)' => i \in 1 .. Len(stream)
  BY DEF Unended
<1>4. 1 .. Len(stream) \subseteq 1 .. Len(stream')
  BY <1>1
<1>5. \A k : (\E i \in 1 .. Len(stream') : Unended(i)' /\ stream'[i].point = points[k])
              <=> (\E i \in 1 .. Len(stream) : Unended(i) /\ stream[i].point = points[k])
  BY <1>2, <1>3, <1>4
<1>6. \A k : CallOver(k)' <=> CallOver(k)
  BY DEF CallOver
<1>7. QED
  BY <1>5, <1>6 DEF Torn

\* The call of every torn row but the newest is over.
LEMMA TornBefore ==
  ASSUME TypeOK
  PROVE  /\ \A k \in 1 .. Len(points) : k # Len(points) => CallOver(k)
         /\ \A w \in Writers : pc[w] = "close" => Len(points) \notin Torn
<1>1. Len(points) \in Nat
  BY LenProperties DEF TypeOK
<1>2. \A k \in 1 .. Len(points) : k # Len(points) => CallOver(k)
  BY <1>1 DEF CallOver
<1>3. ASSUME NEW w \in Writers, pc[w] = "close" PROVE ~CallOver(Len(points))
  BY <1>1, <1>3 DEF CallOver
<1>4. QED
  BY <1>2, <1>3 DEF Torn

\* The begin of a row tears none: its own is being written.
LEMMA OpenTearsNothing ==
  ASSUME IInv, NEW w \in Writers, WriteOpen(w)
  PROVE  Torn' = Torn
<1> DEFINE piece == OpenPiece(Current, NeedsComma)
           n == Len(points)
<1>1. /\ Put(piece) /\ Writing(w) /\ UNCHANGED points
      /\ pc[w] = "open" /\ pc' = [pc EXCEPT ![w] = "close"]
  BY DEF WriteOpen, Writing
<1>2. /\ n \in Nat /\ n > 0 /\ Current \in Points /\ \A k \in 1 .. n : points[k] = Current => k = n
      /\ \A v \in Writers : v # w => pc[v] = "idle"
  BY <1>1, CurrentPoint
<1>3. piece \in Pieces /\ piece.kind = "open" /\ piece.point = Current
  BY <1>2, PieceTypes DEF NeedsComma
<1> HIDE DEF piece, n
<1>4. /\ \A i \in 1 .. Len(stream) : stream'[i] = stream[i]
      /\ \/ stream' = stream
         \/ Len(stream') = Len(stream) + 1 /\ stream'[Len(stream) + 1] = piece
  BY <1>1, <1>3, PutEffect DEF IInv
<1>5. TypeOK /\ Len(stream) \in Nat /\ pc'[w] = "close" /\ \A v \in Writers : pc[v] # "close"
  BY <1>1, <1>2, LenProperties DEF IInv, TypeOK
<1>6. \A k \in 1 .. n : CallOver(k) /\ (CallOver(k)' <=> k # n)
  BY <1>1, <1>2, <1>5 DEF CallOver, n
<1>7. \A i \in 1 .. Len(stream) : Unended(i) => stream[i].point # Current
  BY <1>1 DEF IInv, PendingInv, Unended, IsOpen
<1>8. ASSUME NEW i \in 1 .. Len(stream) PROVE Unended(i)' <=> Unended(i)
  <2>1. stream'[i] = stream[i] /\ (i < Len(stream) => stream'[i + 1] = stream[i + 1])
    BY <1>4, <1>5
  <2>2. CASE i < Len(stream)
    <3>1. i < Len(stream')
      BY <1>4, <1>5, <2>2
    <3>2. QED
      BY <2>1, <2>2, <3>1 DEF Unended, ClosePiece
  <2>3. CASE i = Len(stream)
    <3>1. i < Len(stream') => stream'[i + 1] = piece
      BY <1>4, <1>5, <2>3
    <3>2. ClosePiece(stream[i].point).kind = "close"
      BY DEF ClosePiece
    <3>3. QED
      BY <1>3, <1>5, <2>1, <2>3, <3>1, <3>2 DEF Unended, ClosePiece
  <2>4. QED
    BY <1>5, <2>2, <2>3
<1>9. ASSUME NEW k \in 1 .. n, k # n
      PROVE  (\E i \in 1 .. Len(stream') : Unended(i)' /\ stream'[i].point = points[k])
              <=> (\E i \in 1 .. Len(stream) : Unended(i) /\ stream[i].point = points[k])
  <2>1. points[k] # Current
    BY <1>2, <1>9
  <2>2. ASSUME NEW i \in 1 .. Len(stream'), stream'[i].point = points[k] PROVE i \in 1 .. Len(stream)
    BY <1>3, <1>4, <1>5, <2>1, <2>2
  <2>3. 1 .. Len(stream) \subseteq 1 .. Len(stream')
    BY <1>4, <1>5
  <2>4. QED
    BY <1>4, <1>8, <2>2, <2>3
<1>10. \A k \in 1 .. n : points[k] = Current => k \notin Torn
  BY <1>7 DEF Torn
<1>11. points[n] = Current /\ 1 .. Len(points') = 1 .. n
  BY <1>1 DEF Current, n
<1>12. \A k \in 1 .. n : k \in Torn' <=> k \in Torn
  <2>1. ASSUME NEW k \in 1 .. n, k = n PROVE k \notin Torn' /\ k \notin Torn
    BY <1>6, <1>10, <1>11, <2>1 DEF Torn
  <2>2. ASSUME NEW k \in 1 .. n, k # n PROVE k \in Torn' <=> k \in Torn
    BY <1>1, <1>6, <1>9, <1>11, <2>2 DEF Torn, n
  <2>3. QED
    BY <2>1, <2>2
<1>13. Torn \subseteq 1 .. n /\ Torn' \subseteq 1 .. n
  BY <1>11 DEF Torn, n
<1>14. QED
  BY <1>12, <1>13

\* The end of a row follows its begin: the row is not torn.
LEMMA CloseTearsNothing ==
  ASSUME IInv, NEW w \in Writers, WriteClose(w), ~bad
  PROVE  Len(points) \notin Torn /\ Torn' = Torn
<1> DEFINE piece == ClosePiece(Current)
           n == Len(points)
           m == Len(stream)
<1>1. /\ Put(piece) /\ Writing(w) /\ UNCHANGED points
      /\ pc[w] = "close" /\ pc' = [pc EXCEPT ![w] = "idle"]
  BY DEF WriteClose, Writing
<1>2. /\ n \in Nat /\ n > 0 /\ Current \in Points /\ \A k \in 1 .. n : points[k] = Current => k = n
      /\ \A v \in Writers : v # w => pc[v] = "idle"
  BY <1>1, CurrentPoint
<1>3. piece \in Pieces /\ piece.kind = "close" /\ piece.point = Current
  BY <1>2, PieceTypes
<1>4. /\ \A i \in 1 .. m : stream'[i] = stream[i]
      /\ Len(stream') = m + 1 /\ stream'[m + 1] = piece
  BY <1>1, <1>3, PutEffect DEF IInv
<1>5. /\ TypeOK /\ m \in Nat /\ m > 0 /\ stream[m].kind = "open" /\ stream[m].point = Current
      /\ \A v \in Writers : pc'[v] = "idle"
  BY <1>1, <1>2, LenProperties DEF IInv, TypeOK, PendingInv, IsOpen
<1>6. n \notin Torn
  BY <1>1, <1>5, TornBefore
<1>7. \A i \in 1 .. Len(stream') : i = m => ~Unended(i)'
  BY <1>4, <1>5 DEF Unended, ClosePiece
<1> HIDE DEF piece
<1>8. ASSUME NEW i \in 1 .. m, i # m PROVE Unended(i)' <=> Unended(i)
  <2>1. i < m /\ i < Len(stream') /\ stream'[i] = stream[i] /\ stream'[i + 1] = stream[i + 1]
    BY <1>4, <1>5, <1>8
  <2>2. QED
    BY <2>1 DEF Unended, ClosePiece
<1>9. \A i \in 1 .. Len(stream') : i = m + 1 => ~Unended(i)'
  BY <1>3, <1>4 DEF Unended
<1>10. \A i \in 1 .. Len(stream') : i \in 1 .. m \/ i = m + 1
  BY <1>4, <1>5
<1>11. \A i \in 1 .. m : Unended(i) /\ stream[i].point = Current => i = m
  BY <1>1 DEF IInv, PendingInv, Unended, IsOpen
<1> HIDE DEF n, m
<1>12. points[n] = Current /\ 1 .. Len(points') = 1 .. n
  BY <1>1 DEF Current, n
<1>13. \A k \in 1 .. n : CallOver(k)' /\ (k # n => CallOver(k))
  BY <1>1, <1>5, TornBefore DEF CallOver, n
<1>14. ASSUME NEW k \in 1 .. n, k # n
       PROVE  k \in Torn' <=> k \in Torn
  <2>1. points[k] # Current
    BY <1>2, <1>14
  <2>2. (\E i \in 1 .. Len(stream') : Unended(i)' /\ stream'[i].point = points[k])
         <=> (\E i \in 1 .. m : Unended(i) /\ stream[i].point = points[k])
    <3>1. ASSUME NEW i \in 1 .. Len(stream'), Unended(i)', stream'[i].point = points[k]
          PROVE  i \in 1 .. m /\ Unended(i) /\ stream[i].point = points[k]
      BY <1>4, <1>7, <1>8, <1>9, <1>10, <3>1
    <3>2. ASSUME NEW i \in 1 .. m, Unended(i), stream[i].point = points[k]
          PROVE  i \in 1 .. Len(stream') /\ Unended(i)' /\ stream'[i].point = points[k]
      <4>1. i # m
        BY <1>5, <2>1, <3>2
      <4>2. QED
        BY <1>4, <1>5, <1>8, <3>2, <4>1
    <3>3. QED
      BY <3>1, <3>2
  <2>3. QED
    BY <1>1, <1>12, <1>13, <1>14, <2>2 DEF Torn, n, m
<1>15. n \notin Torn'
  <2>1. ASSUME NEW i \in 1 .. Len(stream'), Unended(i)' PROVE stream'[i].point # Current
    BY <1>4, <1>7, <1>8, <1>9, <1>10, <1>11, <2>1
  <2>2. QED
    BY <1>1, <1>12, <2>1 DEF Torn, Current, n
<1>16. Torn \subseteq 1 .. n /\ Torn' \subseteq 1 .. n
  BY <1>12 DEF Torn, n
<1>17. \A k : k \in Torn' <=> k \in Torn
  <2>1. n \notin Torn
    BY <1>6 DEF n
  <2>2. QED
    BY <1>14, <1>15, <1>16, <2>1
<1>18. QED
  BY <1>6, <1>17

\* A call that leaves with its row unended tears the row, if it was begun.
LEMMA LeaveIsTear ==
  ASSUME IInv, IInv', NEW w \in Writers, pc[w] \in {"open", "close"}, pc' = [pc EXCEPT ![w] = "idle"],
         UNCHANGED <<points, stream, flushed, bad, synced, closed>>
  PROVE  Log!Tear \/ UNCHANGED Log!vars
<1> DEFINE n == Len(points)
<1>1. /\ n \in Nat /\ n > 0 /\ Current \notin acked /\ ~closed
      /\ \A v \in Writers : v # w => pc[v] = "idle"
  BY CurrentPoint DEF Writing
<1>2. \A v \in Writers : pc'[v] = "idle"
  BY <1>1 DEF IInv, TypeOK
<1>3. RowsUpTo(Len(stream))' = RowsUpTo(Len(stream)) /\ RowsUpTo(flushed)' = RowsUpTo(flushed)
  BY DEF RowsUpTo, Whole
<1>4. CASE pc[w] = "open"
  <2>1. \A v \in Writers : pc'[v] = "close" <=> pc[v] = "close"
    BY <1>1, <1>2, <1>4
  <2>2. Torn' = Torn
    BY <2>1 DEF Torn, CallOver, Unended
  <2>3. QED
    BY <1>3, <2>2 DEF Log!vars
<1>5. CASE pc[w] = "close"
  <2>1. n \notin Torn
    BY <1>5, TornBefore DEF IInv
  <2>2. Torn' = Torn \/ Torn' = Torn \cup {n}
    <3>1. \A k \in 1 .. n : k # n => (CallOver(k) /\ CallOver(k)')
      BY <1>2, TornBefore DEF IInv, CallOver
    <3>2. \A k \in 1 .. n : k # n => (k \in Torn' <=> k \in Torn)
      BY <3>1 DEF Torn, Unended
    <3>3. Torn \subseteq 1 .. n /\ Torn' \subseteq 1 .. n
      BY DEF Torn
    <3>4. \A k : k # n => (k \in Torn' <=> k \in Torn)
      BY <3>2, <3>3
    <3>5. CASE n \in Torn'
      <4>1. \A k : k \in Torn' <=> k \in Torn \cup {n}
        BY <3>4, <3>5
      <4>2. QED
        BY <4>1
    <3>6. CASE n \notin Torn'
      <4>1. \A k : k \in Torn' <=> k \in Torn
        BY <2>1, <3>4, <3>6
      <4>2. QED
        BY <4>1
    <3>7. QED
      BY <3>5, <3>6
  <2>3. \A r \in RowsUpTo(Len(stream)) : r[2] # n
    <3> SUFFICES ASSUME NEW r \in RowsTo(Len(stream)), r[2] = n PROVE FALSE
      BY RowsAre
    <3>1. r[1] \in 1 .. Len(stream) /\ IsClose(r[1]) /\ stream[r[1]].point = Current
      BY DEF RowsTo, Current
    <3>2. QED
      BY <1>1, <3>1 DEF IInv, RowInv
  <2>4. points # <<>>
    BY <1>1
  <2>5. QED
    BY <1>1, <1>3, <2>1, <2>2, <2>3, <2>4 DEF Log!Tear, Log!RowDue, Log!vars
<1>6. QED
  BY <1>4, <1>5

\* A stored point has no row yet.
LEMMA CollectIsCollect ==
  ASSUME IInv, IInv', NEW w \in Writers, CollectPush(w)
  PROVE  Log!Collect
<1> DEFINE n == Len(points)
<1>1. PICK p \in Points : /\ points' = Append(points, p)
                          /\ Len(points') = n + 1 /\ n \in Nat /\ points'[n + 1] = p
                          /\ \A k \in 1 .. n : points'[k] = points[k] /\ points[k] # p
  BY PushEffect
<1>2. ~closed /\ UNCHANGED <<stream, flushed, bad, closed, synced>>
  <2>1. pc[w] # "idle"
    BY DEF CollectPush
  <2>2. QED
    BY <2>1, OneHolder DEF IInv, HolderInv, CollectPush
<1> HIDE DEF n
<1>3. ASSUME NEW m \in 0 .. Len(stream)
      PROVE  /\ \A r \in (1 .. m) \X (1 .. n) : r \in (1 .. m) \X (1 .. n + 1) /\ points'[r[2]] = points[r[2]]
             /\ \A r \in (1 .. m) \X (1 .. n + 1) :
                  IsClose(r[1]) /\ points'[r[2]] = stream[r[1]].point => r \in (1 .. m) \X (1 .. n)
  <2>1. \A r \in (1 .. m) \X (1 .. n) : r \in (1 .. m) \X (1 .. n + 1) /\ points'[r[2]] = points[r[2]]
    BY <1>1
  <2>2. ASSUME NEW r \in (1 .. m) \X (1 .. n + 1), IsClose(r[1]), points'[r[2]] = stream[r[1]].point
        PROVE  r \in (1 .. m) \X (1 .. n)
    <3>1. r[1] \in 1 .. Len(stream)
      BY LenProperties DEF IInv, TypeOK
    <3>2. PICK k \in 1 .. n : points[k] = stream[r[1]].point
      BY <2>2, <3>1 DEF IInv, RowInv, n
    <3>3. r[2] # n + 1
      BY <1>1, <2>2, <3>2
    <3>4. r[2] \in 1 .. n
      BY <1>1, <3>3
    <3>5. QED
      BY <3>4
  <2>3. QED
    BY <2>1, <2>2
<1>4. ASSUME NEW m \in 0 .. Len(stream)
      PROVE  {r \in (1 .. m) \X (1 .. n + 1) : IsClose(r[1]) /\ points'[r[2]] = stream[r[1]].point}
             = {r \in (1 .. m) \X (1 .. n) : IsClose(r[1]) /\ points[r[2]] = stream[r[1]].point}
  BY <1>3
<1>5. flushed \in 0 .. Len(stream) /\ Len(stream) \in 0 .. Len(stream)
  BY LenProperties DEF IInv, TypeOK
<1>6. /\ RowsTo(Len(stream))' = RowsTo(Len(stream))
      /\ RowsTo(flushed)' = RowsTo(flushed)
  BY <1>1, <1>2, <1>4, <1>5 DEF RowsTo, IsClose, n
<1>7. Torn' = Torn
  <2>1. \A v \in Writers : pc[v] # "close" /\ pc'[v] # "close"
    <3>1. pc[w] = "push" /\ pc' = [pc EXCEPT ![w] = "open"]
      BY DEF CollectPush
    <3>2. \A v \in Writers : v # w => pc[v] = "idle"
      BY <3>1, OneHolder DEF IInv
    <3>3. QED
      BY <3>1, <3>2 DEF IInv, TypeOK
  <2>2. Torn = {k \in 1 .. n : \E i \in 1 .. Len(stream) : Unended(i) /\ stream[i].point = points[k]}
    BY <2>1 DEF Torn, CallOver, n
  <2>3. Torn' = {k \in 1 .. n + 1 :
                  \E i \in 1 .. Len(stream) : Unended(i) /\ stream[i].point = points'[k]}
    BY <1>1, <1>2, <2>1 DEF Torn, CallOver, Unended
  <2>4. ASSUME NEW i \in 1 .. Len(stream), Unended(i) PROVE stream[i].point # p
    BY <1>1, <2>4 DEF IInv, RowInv, Unended, IsOpen, n
  <2>5. \A k \in 1 .. n + 1 : k \in 1 .. n \/ k = n + 1
    BY <1>1
  <2>6. 1 .. n \subseteq 1 .. n + 1
    BY <1>1
  <2>7. QED
    BY <1>1, <2>2, <2>3, <2>4, <2>5, <2>6
<1>8. QED
  BY <1>1, <1>2, <1>6, <1>7, RowsBoth DEF Log!Collect, n

\* The last piece of a row in a good stream writes the row of the last point.
LEMMA CloseIsWriteRow ==
  ASSUME IInv, IInv', NEW w \in Writers, WriteClose(w), ~bad
  PROVE  Log!WriteRow
<1> DEFINE n == Len(stream)
           last == Len(points)
           piece == ClosePiece(Current)
<1>1. /\ Put(piece) /\ Writing(w)
      /\ UNCHANGED <<points, closed, synced>> /\ acked' = acked \cup {Current}
  BY DEF WriteClose, Writing
<1>2. /\ last \in Nat /\ last > 0 /\ Current \in Points /\ Current \notin acked /\ ~closed
      /\ \A k \in 1 .. last : points[k] = Current => k = last
  BY <1>1, CurrentPoint
<1>3. piece \in Pieces /\ piece.kind = "close" /\ piece.point = Current
  BY <1>2, PieceTypes
<1> HIDE DEF piece
<1>4. /\ flushed' \in Nat /\ flushed <= flushed' /\ bad' \in BOOLEAN
      /\ \A i \in 1 .. n : stream'[i] = stream[i]
      /\ Len(stream') = n + 1 /\ stream'[n + 1] = piece
  BY <1>1, <1>3, PutEffect DEF IInv
<1>5. n \in Nat /\ flushed \in 0 .. n /\ points[last] = Current
  BY LenProperties DEF IInv, TypeOK, Current
<1>6. Log!MoreSaved
  <2>1. \A i \in 1 .. flushed : stream'[i] = stream[i]
    BY <1>4, <1>5
  <2>2. QED
    BY <1>1, <1>4, <2>1, SavedGrows
<1> HIDE DEF n, last
<1>7. <<n + 1, last>> \in RowsTo(Len(stream))'
  BY <1>1, <1>2, <1>3, <1>4, <1>5 DEF RowsTo, IsClose, last
<1>8. \A r \in RowsTo(Len(stream)) : r \in (1 .. n) \X (1 .. last) /\ r[2] # last /\ r[1] < n + 1
  <2> SUFFICES ASSUME NEW r \in RowsTo(Len(stream))
               PROVE  r \in (1 .. n) \X (1 .. last) /\ r[2] # last /\ r[1] < n + 1
    OBVIOUS
  <2>1. r \in (1 .. n) \X (1 .. last) /\ IsClose(r[1]) /\ points[r[2]] = stream[r[1]].point
    BY DEF RowsTo, n, last
  <2>2. points[r[2]] \in acked
    BY <2>1 DEF IInv, RowInv, n
  <2>3. QED
    BY <1>2, <1>5, <2>1, <2>2
<1>9. RowsTo(Len(stream))' = RowsTo(Len(stream)) \cup {<<n + 1, last>>}
  <2>1. ASSUME NEW r \in RowsTo(Len(stream)) PROVE r \in RowsTo(Len(stream))'
    <3>1. r \in (1 .. n) \X (1 .. last) /\ IsClose(r[1]) /\ points[r[2]] = stream[r[1]].point
      BY <2>1 DEF RowsTo, n, last
    <3>2. r \in (1 .. n + 1) \X (1 .. last) /\ stream'[r[1]] = stream[r[1]]
      BY <1>4, <1>5, <3>1
    <3>3. QED
      BY <1>1, <1>4, <3>1, <3>2 DEF RowsTo, IsClose, last
  <2>2. ASSUME NEW r \in RowsTo(Len(stream))', r # <<n + 1, last>>
        PROVE  r \in RowsTo(Len(stream))
    <3>1. r \in (1 .. n + 1) \X (1 .. last)
          /\ stream'[r[1]].kind = "close" /\ points[r[2]] = stream'[r[1]].point
      BY <1>1, <1>4, <2>2 DEF RowsTo, IsClose, last
    <3>2. r[1] # n + 1
      BY <1>2, <1>3, <1>4, <2>2, <3>1
    <3>3. r \in (1 .. n) \X (1 .. last) /\ stream'[r[1]] = stream[r[1]]
      BY <1>4, <1>5, <3>1, <3>2
    <3>4. QED
      BY <3>1, <3>3 DEF RowsTo, IsClose, n, last
  <2>3. QED
    BY <1>7, <2>1, <2>2
<1>10. points # <<>>
  BY <1>2 DEF last
<1>11. last \notin Torn /\ Torn' = Torn
  BY CloseTearsNothing DEF last
<1>12. QED
  BY <1>1, <1>2, <1>4, <1>6, <1>7, <1>8, <1>9, <1>10, <1>11, RowsBoth
     DEF Log!WriteRow, Log!RowDue, last

\* A flush that succeeds is a Sync; one that fails drains at most; one on a bad
\* stream does nothing.
LEMMA FlushIsSync ==
  ASSUME IInv, IInv', NEW w \in Writers, Flush(w)
  PROVE  Log!Sync \/ Log!Drain \/ UNCHANGED Log!vars
<1>1. /\ ~closed
      /\ \/ bad /\ UNCHANGED <<flushed, bad>>
         \/ ~bad /\ flushed' = Len(stream) /\ UNCHANGED bad
         \/ ~bad /\ flushed' \in flushed .. Len(stream) /\ bad' = TRUE
      /\ synced' = IF ~bad' THEN Len(points) ELSE synced
      /\ UNCHANGED <<points, stream, pc, closed>>
  BY DEF Flush, FlushResult
<1>2. RowsUpTo(Len(stream))' = RowsUpTo(Len(stream)) /\ Torn' = Torn
  BY <1>1 DEF RowsUpTo, Whole, Torn, CallOver, Unended
<1>3. CASE bad /\ UNCHANGED <<flushed, bad>>
  <2>1. RowsUpTo(flushed)' = RowsUpTo(flushed)
    BY <1>1, <1>3 DEF RowsUpTo, Whole
  <2>2. QED
    BY <1>1, <1>2, <1>3, <2>1 DEF Log!vars
<1>4. CASE ~bad /\ flushed' = Len(stream) /\ UNCHANGED bad
  <2>1. RowsUpTo(flushed)' = RowsUpTo(Len(stream))
    BY <1>1, <1>4 DEF RowsUpTo, Whole
  <2>2. QED
    BY <1>1, <1>2, <1>4, <2>1 DEF Log!Sync
<1>5. CASE ~bad /\ flushed' \in flushed .. Len(stream) /\ bad' = TRUE
  <2>1. flushed <= flushed' /\ \A i \in 1 .. flushed : stream'[i] = stream[i]
    BY <1>1, <1>5 DEF IInv, TypeOK
  <2>2. Log!MoreSaved
    BY <1>1, <2>1, SavedGrows
  <2>3. QED
    BY <1>1, <1>2, <1>5, <2>2 DEF Log!Drain, Log!MayBreak
<1>6. QED
  BY <1>1, <1>3, <1>4, <1>5

\* The begin of a row drains at most.
LEMMA OpenIsDrain ==
  ASSUME IInv, IInv', NEW w \in Writers, WriteOpen(w)
  PROVE  Log!Drain
<1> DEFINE piece == OpenPiece(Current, NeedsComma)
<1>1. Put(piece) /\ Writing(w) /\ UNCHANGED <<points, closed, synced>>
  BY DEF WriteOpen, Writing
<1>2. Current \in Points /\ ~closed
  BY <1>1, CurrentPoint
<1>3. piece \in Pieces /\ piece.kind = "open"
  BY <1>2, PieceTypes DEF NeedsComma
<1> HIDE DEF piece
<1>4. /\ flushed' \in Nat /\ flushed <= flushed'
      /\ \A i \in 1 .. Len(stream) : stream'[i] = stream[i]
      /\ \/ bad /\ bad' /\ stream' = stream
         \/ ~bad /\ Len(stream') = Len(stream) + 1 /\ stream'[Len(stream) + 1] = piece
  BY <1>1, <1>3, PutEffect DEF IInv
<1>5. Len(stream) \in Nat /\ flushed \in 0 .. Len(stream) /\ bad' \in BOOLEAN /\ (bad => bad')
  BY <1>4, LenProperties DEF IInv, TypeOK
<1>6. RowsUpTo(Len(stream))' = RowsUpTo(Len(stream))
  <2>1. Len(stream) <= Len(stream')
    BY <1>4, <1>5
  <2>2. \A i \in 1 .. Len(stream') : i \notin 1 .. Len(stream) => stream'[i].kind # "close"
    BY <1>3, <1>4, <1>5
  <2>3. QED
    BY <1>1, <1>4, <2>1, <2>2, SameRows
<1>7. Log!MoreSaved
  <2>1. \A i \in 1 .. flushed : stream'[i] = stream[i]
    BY <1>4, <1>5
  <2>2. QED
    BY <1>1, <1>4, <2>1, SavedGrows
<1>8. QED
  BY <1>1, <1>2, <1>5, <1>6, <1>7, OpenTearsNothing DEF Log!Drain, Log!MayBreak

\* A header, whole or not, drains at most.
LEMMA HeaderIsDrain ==
  ASSUME IInv, IInv', NEW w \in Writers, WriteHeader(w) \/ HeaderThrows(w)
  PROVE  Log!Drain
<1>1. PICK piece \in {HeaderPiece, TitlePiece} : Put(piece)
  BY DEF WriteHeader, HeaderThrows
<1>2. /\ UNCHANGED <<points, closed, synced>> /\ Writing(w)
      /\ pc[w] = "open" /\ (pc' = pc \/ pc' = [pc EXCEPT ![w] = "idle"])
  BY DEF WriteHeader, HeaderThrows, GiveUp, Writing
<1>3. ~closed /\ \A v \in Writers : pc'[v] = "close" <=> pc[v] = "close"
  BY <1>2, CurrentPoint DEF IInv, TypeOK
<1>4. piece \in Pieces /\ piece.kind \in {"header", "title"}
  BY PieceTypes
<1>5. /\ flushed' \in Nat /\ flushed <= flushed'
      /\ \A i \in 1 .. Len(stream) : stream'[i] = stream[i]
      /\ \/ bad /\ bad' /\ stream' = stream
         \/ ~bad /\ Len(stream') = Len(stream) + 1 /\ stream'[Len(stream) + 1] = piece
  BY <1>1, <1>4, PutEffect DEF IInv
<1>6. Len(stream) \in Nat /\ flushed \in 0 .. Len(stream) /\ bad' \in BOOLEAN /\ (bad => bad')
  BY <1>5, LenProperties DEF IInv, TypeOK
<1>7. /\ Len(stream') \in Nat /\ Len(stream) <= Len(stream')
      /\ \A i \in 1 .. Len(stream') : i \notin 1 .. Len(stream) => stream'[i] = piece
  BY <1>5, <1>6
<1>8. RowsUpTo(Len(stream))' = RowsUpTo(Len(stream))
  BY <1>2, <1>4, <1>5, <1>7, SameRows
<1>9. Torn' = Torn
  BY <1>2, <1>3, <1>4, <1>5, <1>7, TornStays DEF IInv
<1>10. Log!MoreSaved
  <2>1. \A i \in 1 .. flushed : stream'[i] = stream[i]
    BY <1>5, <1>6
  <2>2. QED
    BY <1>2, <1>5, <2>1, SavedGrows
<1>11. QED
  BY <1>2, <1>3, <1>6, <1>8, <1>9, <1>10 DEF Log!Drain, Log!MayBreak

\* The destructor closes the log.
LEMMA DestroyIsClose ==
  ASSUME IInv, IInv', Destroy
  PROVE  Log!Close
<1> DEFINE piece == FooterPiece(Len(points))
<1>1. /\ ~closed /\ closed' = TRUE /\ UNCHANGED <<points, pc, synced>>
      /\ stream' = stream \/ stream' = Append(stream, piece)
      /\ \/ flushed' = Len(stream') /\ bad' = bad
         \/ flushed' \in flushed .. Len(stream') /\ bad' = TRUE
  BY DEF Destroy, WriteFooter, FooterThrows, FooterTotal
<1>2. stream \in Seq(Pieces) /\ Len(stream) \in Nat /\ flushed \in 0 .. Len(stream) /\ Len(points) \in Nat
  BY LenProperties DEF IInv, TypeOK
<1>3. piece \in Pieces /\ piece.kind = "footer"
  BY <1>2, PieceTypes
<1> HIDE DEF piece
<1>4. /\ \A i \in 1 .. Len(stream) : stream'[i] = stream[i]
      /\ stream' = stream \/ (Len(stream') = Len(stream) + 1 /\ stream'[Len(stream) + 1] = piece)
  BY <1>1, <1>2, <1>3, AppendEffect
<1>5. Len(stream) <= Len(stream') /\ flushed <= flushed'
  <2>1. Len(stream) <= Len(stream') /\ Len(stream') \in Nat
    BY <1>2, <1>4
  <2>2. flushed' = Len(stream') \/ flushed' \in flushed .. Len(stream')
    BY <1>1
  <2>3. QED
    BY <1>2, <2>1, <2>2
<1>6. RowsUpTo(Len(stream))' = RowsUpTo(Len(stream))
  <2>1. \A i \in 1 .. Len(stream') : i \notin 1 .. Len(stream) => stream'[i].kind # "close"
    BY <1>2, <1>3, <1>4
  <2>2. QED
    BY <1>1, <1>4, <1>5, <2>1, SameRows
<1>7. Log!MoreSaved
  <2>1. \A i \in 1 .. flushed : stream'[i] = stream[i]
    BY <1>2, <1>4
  <2>2. QED
    BY <1>1, <1>5, <2>1, SavedGrows
<1>8. ~bad' => RowsUpTo(flushed)' = RowsUpTo(Len(stream))'
  BY <1>1 DEF RowsUpTo, Whole
<1>9. bad => bad'
  BY <1>1
<1>10. Torn' = Torn
  <2>1. \A i \in 1 .. Len(stream') : i \notin 1 .. Len(stream) => stream'[i].kind = "footer"
    BY <1>2, <1>3, <1>4
  <2>2. Len(stream') \in Nat
    BY <1>2, <1>4
  <2>3. QED
    BY <1>1, <1>2, <1>4, <1>5, <2>1, <2>2, TornStays DEF IInv
<1>11. QED
  BY <1>1, <1>6, <1>7, <1>8, <1>9, <1>10 DEF Log!Close, Log!MayBreak

\* DataCollector keeps the promise of CollectorLog: each point's row is written
\* at most once, whole and in the order of the points, or torn by a call that
\* gave up and then left so; rows reach the file in that order, none is written
\* after an error, and a successful Flush or close leaves none behind.
THEOREM Implements == Spec => ImplementsLog
<1>1. IInv /\ IInv' /\ [Next]_vars => [Log!Next]_(Log!vars)
  <2> SUFFICES ASSUME IInv, IInv', [Next]_vars
               PROVE  Log!Next \/ UNCHANGED Log!vars
    OBVIOUS
  <2>1. ASSUME NEW w \in Writers, CollectLock(w) \/ StoreThrows(w) PROVE UNCHANGED Log!vars
    <3>1. /\ UNCHANGED <<points, stream, flushed, bad, synced, closed>>
          /\ \A v \in Writers : pc'[v] = "close" <=> pc[v] = "close"
      BY <2>1 DEF CollectLock, StoreThrows, IInv, TypeOK
    <3>2. QED
      BY <3>1 DEF Log!vars, RowsUpTo, Whole, Torn, CallOver, Unended
  <2>2. ASSUME NEW w \in Writers, CollectPush(w) PROVE Log!Next
    BY <2>2, CollectIsCollect DEF Log!Next
  <2>3. ASSUME NEW w \in Writers, WriteOpen(w) PROVE Log!Next
    BY <2>3, OpenIsDrain DEF Log!Next
  <2>4. ASSUME NEW w \in Writers, WriteClose(w) PROVE Log!Next \/ UNCHANGED Log!vars
    <3>1. CASE bad
      <4>1. /\ UNCHANGED <<points, stream, flushed, bad, synced, closed>>
            /\ pc[w] = "close" /\ pc' = [pc EXCEPT ![w] = "idle"]
        BY <2>4, <3>1 DEF WriteClose, Put
      <4>2. QED
        BY <4>1, LeaveIsTear DEF Log!Next
    <3>2. CASE ~bad
      BY <2>4, <3>2, CloseIsWriteRow DEF Log!Next
    <3>3. QED
      BY <3>1, <3>2
  <2>5. ASSUME NEW w \in Writers, FormatThrows(w) PROVE Log!Next \/ UNCHANGED Log!vars
    <3>1. /\ UNCHANGED <<points, stream, flushed, bad, synced, closed>>
          /\ pc[w] \in {"open", "close"} /\ pc' = [pc EXCEPT ![w] = "idle"]
      BY <2>5 DEF FormatThrows, GiveUp, TimestampAt
    <3>2. QED
      BY <3>1, LeaveIsTear DEF Log!Next
  <2>6. ASSUME NEW w \in Writers, WriteHeader(w) \/ HeaderThrows(w) PROVE Log!Next
    BY <2>6, HeaderIsDrain DEF Log!Next
  <2>7. ASSUME NEW w \in Writers, Flush(w) PROVE Log!Next \/ UNCHANGED Log!vars
    BY <2>7, FlushIsSync DEF Log!Next
  <2>8. CASE Destroy
    BY <2>8, DestroyIsClose DEF Log!Next
  <2>9. CASE UNCHANGED vars
    <3>1. UNCHANGED <<points, stream, flushed, bad, synced, closed, pc>>
      BY <2>9 DEF vars
    <3>2. QED
      BY <3>1 DEF Log!vars, RowsUpTo, Whole, Torn, CallOver, Unended
  <2>10. QED
    BY <2>1, <2>2, <2>3, <2>4, <2>5, <2>6, <2>7, <2>8, <2>9 DEF Next, CollectStep
<1>2. QED
  BY LogInit, Invariance, <1>1, PTL DEF Spec, ImplementsLog, Log!Spec

------------------------------------------------------------------------------
(* The output, piece by piece.                                             *)

\* Piece i of the rendering of the points collected so far.
PieceAt(i) ==
  IF i = 1 THEN HeaderPiece
  ELSE IF i % 2 = 0 THEN OpenPiece(points[i \div 2], format = "JSON" /\ i > 2)
  ELSE ClosePiece(points[i \div 2])

\* How many pieces the rows and the header take, with the row being written.
RowPieces(n) ==
  \/ (\E w \in Writers : pc[w] = "open") /\ n = 2 * Len(points) - 1
  \/ (\E w \in Writers : pc[w] = "close") /\ n = 2 * Len(points)
  \/ (\A w \in Writers : ~Writing(w)) /\ n = 2 * Len(points) + 1

\* Without a fault the stream is what it should be so far.
LayoutInv ==
  Faultless =>
    /\ ~closed \/ format = "CSV" => RowPieces(Len(stream))
    /\ closed /\ format # "CSV" =>
         \/ /\ Len(stream) = 2 * Len(points) + 2
            /\ stream[Len(stream)] = FooterPiece(Len(points))
         \/ RuleMayThrow /\ Len(stream) = 2 * Len(points) + 1
    /\ \A i \in 1 .. Len(stream) : i <= 2 * Len(points) + 1 => stream[i] = PieceAt(i)

\* The halves of a piece's number.
LEMMA EvenHalf ==
  ASSUME NEW n \in Nat
  PROVE  (2 * n) \div 2 = n /\ (2 * n) % 2 = 0
OBVIOUS

\* The halves of the number of a row's last piece.
LEMMA OddHalf ==
  ASSUME NEW n \in Nat
  PROVE  (2 * n + 1) \div 2 = n /\ (2 * n + 1) % 2 = 1
OBVIOUS

\* The pieces of the points that are there do not change when one is added.
LEMMA PiecesStay ==
  ASSUME TypeOK, format' = format, \A k \in 1 .. Len(points) : points'[k] = points[k]
  PROVE  \A i \in 1 .. 2 * Len(points) + 1 : PieceAt(i)' = PieceAt(i)
<1> SUFFICES ASSUME NEW i \in 1 .. 2 * Len(points) + 1 PROVE PieceAt(i)' = PieceAt(i)
  OBVIOUS
<1>1. Len(points) \in Nat
  BY LenProperties DEF TypeOK
<1>2. i = 1 \/ i \div 2 \in 1 .. Len(points)
  BY <1>1
<1>3. QED
  BY <1>2 DEF PieceAt

\* A fault is never undone.
LEMMA FaultsStay ==
  ASSUME IInv, bad => bad', skipped \subseteq skipped',
         \A i \in 1 .. Len(stream) : stream'[i] = stream[i], Faultless'
  PROVE  Faultless /\ headed
<1>1. 1 \in 1 .. Len(stream)
  BY LenProperties DEF IInv, TypeOK, EndsInv
<1>2. HeaderPiece' = HeaderPiece
  BY DEF HeaderPiece
<1>3. QED
  BY <1>1, <1>2 DEF Faultless, IInv, EndsInv

\* The invariant is inductive relative to IInv.
LEMMA LayoutPush ==
  ASSUME IInv, LayoutInv, NEW w \in Writers, CollectPush(w)
  PROVE  LayoutInv'
<1> SUFFICES ASSUME Faultless' PROVE LayoutInv'
  BY DEF LayoutInv
<1>1. /\ pc[w] = "push" /\ pc' = [pc EXCEPT ![w] = "open"]
      /\ UNCHANGED <<format, headed, stream, bad, closed, skipped>>
  BY DEF CollectPush
<1>2. /\ Len(points') = Len(points) + 1 /\ Len(points) \in Nat
      /\ \A k \in 1 .. Len(points) : points'[k] = points[k]
  BY PushEffect
<1>3. ~closed /\ (\A v \in Writers : v # w => pc[v] = "idle") /\ pc \in [Writers -> {"idle", "push", "open", "close"}]
  BY <1>1, OneHolder DEF IInv, HolderInv, TypeOK
<1>4. \A v \in Writers : ~Writing(v)
  BY <1>1, <1>3 DEF Writing
<1>5. Faultless
  BY <1>1 DEF Faultless
<1>6. Len(stream) = 2 * Len(points) + 1
  BY <1>3, <1>4, <1>5 DEF LayoutInv, RowPieces, Writing
<1>7. RowPieces(Len(stream))'
  <2>1. pc'[w] = "open"
    BY <1>1, <1>3
  <2>2. Len(stream') = 2 * Len(points') - 1
    BY <1>1, <1>2, <1>6
  <2>3. QED
    BY <2>1, <2>2 DEF RowPieces
<1>8. \A i \in 1 .. Len(stream') : stream'[i] = PieceAt(i)'
  <2>1. \A i \in 1 .. Len(stream) : stream[i] = PieceAt(i)
    BY <1>2, <1>5, <1>6 DEF LayoutInv
  <2>2. QED
    BY <1>1, <1>2, <1>6, <2>1, PiecesStay DEF IInv
<1>9. QED
  BY <1>1, <1>3, <1>7, <1>8 DEF LayoutInv

\* The begin of row k is piece 2k.
LEMMA LayoutOpen ==
  ASSUME IInv, LayoutInv, NEW w \in Writers, WriteOpen(w)
  PROVE  LayoutInv'
<1> SUFFICES ASSUME Faultless' PROVE LayoutInv'
  BY DEF LayoutInv
<1> DEFINE n == Len(points)
           piece == OpenPiece(Current, NeedsComma)
<1>1. /\ pc[w] = "open" /\ pc' = [pc EXCEPT ![w] = "close"] /\ Put(piece) /\ Writing(w)
      /\ UNCHANGED <<format, headed, points, closed, skipped>>
  BY DEF WriteOpen, Writing
<1>2. /\ n \in Nat /\ n > 0 /\ ~closed /\ Current \in Points
      /\ \A v \in Writers : v # w => pc[v] = "idle"
  BY <1>1, CurrentPoint
<1>3. piece \in Pieces
  BY <1>2, PieceTypes DEF NeedsComma
<1> HIDE DEF piece
<1>4. /\ Faultless /\ \A i \in 1 .. Len(stream) : stream'[i] = stream[i]
      /\ Len(stream') = Len(stream) + 1 /\ stream'[Len(stream) + 1] = piece
  BY <1>1, <1>3, PutEffect, FaultsStay DEF IInv, Faultless
<1>5. Len(stream) = 2 * n - 1
  <2>1. /\ \A v \in Writers : pc[v] # "close"
        /\ ~(\A v \in Writers : ~Writing(v))
    BY <1>1, <1>2
  <2>2. RowPieces(Len(stream))
    BY <1>2, <1>4 DEF LayoutInv
  <2>3. QED
    BY <2>1, <2>2 DEF RowPieces
<1>6. RowPieces(Len(stream))'
  <2>1. pc'[w] = "close"
    BY <1>1 DEF IInv, TypeOK
  <2>2. Len(stream') = 2 * Len(points')
    BY <1>1, <1>2, <1>4, <1>5
  <2>3. QED
    BY <2>1, <2>2 DEF RowPieces
<1>7. PieceAt(2 * n) = piece
  <2>1. (2 * n) \div 2 = n /\ (2 * n) % 2 = 0
    BY <1>2, EvenHalf
  <2>2. 2 * n # 1 /\ (2 * n > 2 <=> n > 1)
    BY <1>2
  <2>3. QED
    BY <2>1, <2>2 DEF PieceAt, piece, Current, NeedsComma
<1>8. \A i \in 1 .. Len(stream') : stream'[i] = PieceAt(i)
  <2>1. \A i \in 1 .. Len(stream) : stream'[i] = PieceAt(i)
    BY <1>2, <1>4, <1>5 DEF LayoutInv
  <2>2. Len(stream') = 2 * n /\ stream'[2 * n] = PieceAt(2 * n)
    BY <1>2, <1>4, <1>5, <1>7
  <2>3. QED
    BY <1>2, <1>5, <2>1, <2>2
<1>9. QED
  BY <1>1, <1>2, <1>6, <1>8 DEF LayoutInv, PieceAt

\* The end of row k is piece 2k + 1.
LEMMA LayoutClose ==
  ASSUME IInv, LayoutInv, NEW w \in Writers, WriteClose(w)
  PROVE  LayoutInv'
<1> SUFFICES ASSUME Faultless' PROVE LayoutInv'
  BY DEF LayoutInv
<1> DEFINE n == Len(points)
           piece == ClosePiece(Current)
<1>1. /\ pc[w] = "close" /\ pc' = [pc EXCEPT ![w] = "idle"] /\ Put(piece) /\ Writing(w)
      /\ UNCHANGED <<format, headed, points, closed, skipped>>
  BY DEF WriteClose, Writing
<1>2. /\ n \in Nat /\ n > 0 /\ ~closed /\ Current \in Points
      /\ \A v \in Writers : v # w => pc[v] = "idle"
  BY <1>1, CurrentPoint
<1>3. piece \in Pieces
  BY <1>2, PieceTypes
<1> HIDE DEF piece
<1>4. /\ Faultless /\ \A i \in 1 .. Len(stream) : stream'[i] = stream[i]
      /\ Len(stream') = Len(stream) + 1 /\ stream'[Len(stream) + 1] = piece
  BY <1>1, <1>3, PutEffect, FaultsStay DEF IInv, Faultless
<1>5. Len(stream) = 2 * n
  <2>1. /\ \A v \in Writers : pc[v] # "open"
        /\ ~(\A v \in Writers : ~Writing(v))
    BY <1>1, <1>2
  <2>2. RowPieces(Len(stream))
    BY <1>2, <1>4 DEF LayoutInv
  <2>3. QED
    BY <2>1, <2>2 DEF RowPieces
<1>6. RowPieces(Len(stream))'
  <2>1. \A v \in Writers : pc'[v] = "idle"
    BY <1>1, <1>2 DEF IInv, TypeOK
  <2>2. Len(stream') = 2 * Len(points') + 1
    BY <1>1, <1>2, <1>4, <1>5
  <2>3. QED
    BY <2>1, <2>2 DEF RowPieces, Writing
<1>7. PieceAt(2 * n + 1) = piece
  <2>1. (2 * n + 1) \div 2 = n /\ (2 * n + 1) % 2 = 1
    BY <1>2, OddHalf
  <2>2. 2 * n + 1 # 1
    BY <1>2
  <2>3. QED
    BY <2>1, <2>2 DEF PieceAt, piece, Current
<1>8. \A i \in 1 .. Len(stream') : stream'[i] = PieceAt(i)
  <2>1. \A i \in 1 .. Len(stream) : stream'[i] = PieceAt(i)
    BY <1>2, <1>4, <1>5 DEF LayoutInv
  <2>2. Len(stream') = 2 * n + 1 /\ stream'[2 * n + 1] = PieceAt(2 * n + 1)
    BY <1>2, <1>4, <1>5, <1>7
  <2>3. QED
    BY <1>2, <1>5, <2>1, <2>2
<1>9. QED
  BY <1>1, <1>2, <1>6, <1>8 DEF LayoutInv, PieceAt

\* The footer comes behind all rows.
LEMMA LayoutDestroy ==
  ASSUME IInv, LayoutInv, Destroy
  PROVE  LayoutInv'
<1> SUFFICES ASSUME Faultless' PROVE LayoutInv'
  BY DEF LayoutInv
<1> DEFINE n == Len(points)
           piece == FooterPiece(n)
<1>1. /\ ~closed /\ closed' /\ (\A w \in Writers : pc[w] = "idle")
      /\ ~bad /\ ~bad' /\ skipped = {} /\ UNCHANGED <<format, headed, points, pc, skipped>>
      /\ \/ stream' = IF format = "CSV" THEN stream ELSE Append(stream, piece)
         \/ RuleMayThrow /\ stream' = stream
  BY DEF Destroy, WriteFooter, FooterThrows, FooterTotal, Faultless
<1>2. n \in Nat /\ stream \in Seq(Pieces)
  BY LenProperties DEF IInv, TypeOK
<1>3. piece \in Pieces
  BY <1>2, PieceTypes
<1> HIDE DEF piece
<1>4. Faultless
  <2>1. stream' = stream \/ stream' = Append(stream, piece)
    BY <1>1
  <2>2. \A i \in 1 .. Len(stream) : stream'[i] = stream[i]
    BY <1>2, <1>3, <2>1, AppendEffect
  <2>3. QED
    BY <1>1, <2>2, FaultsStay
<1>5. /\ \A w \in Writers : ~Writing(w)
      /\ Len(stream) = 2 * n + 1
      /\ \A i \in 1 .. Len(stream) : stream[i] = PieceAt(i)
  BY <1>1, <1>2, <1>4 DEF LayoutInv, RowPieces, Writing
<1>6. CASE format = "CSV"
  <2>1. stream' = stream
    BY <1>1, <1>6
  <2>2. QED
    BY <1>1, <1>5, <1>6, <2>1 DEF LayoutInv, RowPieces, Writing, PieceAt
<1>7. CASE format # "CSV" /\ RuleMayThrow /\ stream' = stream
  BY <1>1, <1>5, <1>7 DEF LayoutInv, RuleMayThrow, PieceAt
<1>8. CASE format # "CSV" /\ stream' = Append(stream, piece)
  <2>1. stream' = Append(stream, piece)
    BY <1>8
  <2>2. /\ Len(stream') = Len(stream) + 1 /\ stream'[Len(stream) + 1] = piece
        /\ \A i \in 1 .. Len(stream) : stream'[i] = stream[i]
    BY <1>2, <1>3, <2>1, AppendEffect
  <2>3. Len(stream') = 2 * n + 2 /\ stream'[2 * n + 2] = piece
    BY <1>2, <1>5, <2>2
  <2>4. \A i \in 1 .. Len(stream') : i <= 2 * n + 1 => stream'[i] = PieceAt(i)
    BY <1>2, <1>5, <2>2, <2>3
  <2>5. QED
    BY <1>1, <1>8, <2>3, <2>4 DEF LayoutInv, PieceAt, piece
<1>9. QED
  BY <1>1, <1>6, <1>8, <1>7

\* The layout holds throughout.
LEMMA LayoutInvariance == Spec => []LayoutInv
<1>1. Init => LayoutInv
  <2> SUFFICES ASSUME Init PROVE LayoutInv
    OBVIOUS
  <2>1. Len(stream) = 1 /\ Len(points) = 0 /\ \A w \in Writers : ~Writing(w)
    BY DEF Init, Writing
  <2>2. Faultless => \A i \in 1 .. 1 : stream[i] = PieceAt(i)
    BY DEF Faultless, PieceAt
  <2>3. QED
    BY <2>1, <2>2 DEF Init, LayoutInv, RowPieces
<1>2. IInv /\ LayoutInv /\ [Next]_vars => LayoutInv'
  <2> SUFFICES ASSUME IInv, LayoutInv, [Next]_vars PROVE LayoutInv'
    OBVIOUS
  <2>1. ASSUME NEW w \in Writers, CollectLock(w) PROVE LayoutInv'
    <3>1. /\ \A v \in Writers : Writing(v)' <=> Writing(v)
          /\ \A v \in Writers, s \in {"open", "close"} : pc'[v] = s <=> pc[v] = s
      BY <2>1 DEF CollectLock, IInv, TypeOK, Writing
    <3>2. QED
      BY <2>1, <3>1 DEF CollectLock, LayoutInv, Faultless, RowPieces, RuleMayThrow, PieceAt
  <2>2. ASSUME NEW w \in Writers, CollectPush(w) PROVE LayoutInv'
    BY <2>2, LayoutPush
  <2>3. ASSUME NEW w \in Writers, WriteOpen(w) PROVE LayoutInv'
    BY <2>3, LayoutOpen
  <2>4. ASSUME NEW w \in Writers, FormatThrows(w) \/ HeaderThrows(w) PROVE LayoutInv'
    BY <2>4 DEF FormatThrows, HeaderThrows, GiveUp, LayoutInv, Faultless
  <2>5. ASSUME NEW w \in Writers, StoreThrows(w) PROVE LayoutInv'
    <3>1. \A v \in Writers, t \in {"open", "close"} : pc'[v] = t <=> pc[v] = t
      BY <2>5 DEF StoreThrows, IInv, TypeOK
    <3>2. \A v \in Writers : Writing(v)' <=> Writing(v)
      BY <3>1 DEF Writing
    <3>3. QED
      BY <2>5, <3>1, <3>2 DEF StoreThrows, LayoutInv, Faultless, RowPieces, RuleMayThrow, PieceAt
  <2>6. ASSUME NEW w \in Writers, WriteHeader(w) PROVE LayoutInv'
    <3> SUFFICES ASSUME Faultless' PROVE FALSE
      BY DEF LayoutInv
    <3>1. ~headed /\ Put(HeaderPiece) /\ skipped' = skipped
      BY <2>6 DEF WriteHeader
    <3>2. \A i \in 1 .. Len(stream) : stream'[i] = stream[i] /\ (bad => bad')
      BY <3>1, PieceTypes, PutEffect DEF IInv
    <3>3. bad => bad'
      BY <3>1, PieceTypes, PutEffect DEF IInv
    <3>4. QED
      BY <3>1, <3>2, <3>3, FaultsStay
  <2>7. ASSUME NEW w \in Writers, WriteClose(w) PROVE LayoutInv'
    BY <2>7, LayoutClose
  <2>8. ASSUME NEW w \in Writers, Flush(w) PROVE LayoutInv'
    <3>1. bad => bad'
      BY <2>8 DEF Flush
    <3>2. QED
      BY <2>8, <3>1 DEF Flush, LayoutInv, Faultless, RowPieces, RuleMayThrow, Writing, PieceAt
  <2>9. CASE Destroy
    BY <2>9, LayoutDestroy
  <2>10. CASE UNCHANGED vars
    BY <2>10 DEF vars, LayoutInv, Faultless, RowPieces, RuleMayThrow, Writing, PieceAt
  <2>11. QED
    BY <2>1, <2>2, <2>3, <2>4, <2>7, <2>8, <2>9, <2>10, <2>5, <2>6 DEF Next, CollectStep
<1>3. QED
  BY Invariance, <1>1, <1>2, PTL DEF Spec

\* However the threads interleave, whenever no call is in progress the output
\* of a collector that met no fault is the rendering of the collected points:
\* whole rows, in order, with separators only between them, and the footer, if
\* no allocation failed.
THEOREM OutputCorrect == Spec => []OutputMatchesPoints
<1>1. IInv /\ LayoutInv => OutputMatchesPoints
  <2> SUFFICES ASSUME IInv, LayoutInv, Faultless, mutex = NoWriter
               PROVE  \/ stream = Rendering(points) \o (IF closed THEN Footer ELSE <<>>)
                      \/ closed /\ RuleMayThrow /\ stream = Rendering(points)
    BY DEF OutputMatchesPoints
  <2> DEFINE n == Len(points)
             R == Rendering(points)
             tail == IF closed THEN Footer ELSE <<>>
  <2>1. /\ stream \in Seq(Pieces) /\ points \in Seq(Points) /\ n \in Nat /\ closed \in BOOLEAN
        /\ \A w \in Writers : ~Writing(w)
    BY LenProperties, CollectorAssumption DEF CollectorAssumption, IInv, TypeOK, Writing
  <2>2. R = [i \in 1 .. 2 * n + 1 |-> PieceAt(i)]
    BY DEF Rendering, PieceAt
  <2>3. \A i \in 1 .. 2 * n + 1 : PieceAt(i) \in Pieces
    <3> SUFFICES ASSUME NEW i \in 1 .. 2 * n + 1 PROVE PieceAt(i) \in Pieces
      OBVIOUS
    <3>1. i = 1 \/ i \div 2 \in 1 .. n
      BY <2>1
    <3>2. i # 1 => points[i \div 2] \in Points
      BY <2>1, <3>1, ElementOfSeq
    <3>3. (format = "JSON" /\ i > 2) \in BOOLEAN
      OBVIOUS
    <3>4. QED
      BY <3>2, <3>3, PieceTypes DEF PieceAt
  <2> HIDE DEF R
  <2>4. R \in Seq(Pieces) /\ Len(R) = 2 * n + 1 /\ \A i \in 1 .. 2 * n + 1 : R[i] = PieceAt(i)
    BY <2>1, <2>2, <2>3
  <2>5. CASE ~closed \/ format = "CSV"
    <3>1. tail = <<>>
      BY <2>5 DEF Footer
    <3>2. RowPieces(Len(stream)) /\ \A i \in 1 .. Len(stream) : i <= 2 * n + 1 => stream[i] = PieceAt(i)
      BY <2>5 DEF LayoutInv
    <3>3. Len(stream) = 2 * n + 1
      BY <2>1, <3>2 DEF RowPieces, Writing
    <3>4. \A i \in 1 .. Len(stream) : stream[i] = R[i]
      BY <2>1, <2>4, <3>2, <3>3
    <3>5. stream = R
      BY <2>1, <2>4, <3>3, <3>4, SeqEqual
    <3>6. QED
      BY <2>4, <3>1, <3>5, ConcatEmptySeq DEF R
  <2>6. CASE closed /\ RuleMayThrow /\ Len(stream) = 2 * n + 1
    <3>1. \A i \in 1 .. Len(stream) : stream[i] = R[i]
      BY <2>1, <2>4, <2>6 DEF LayoutInv
    <3>2. stream = R
      BY <2>1, <2>4, <2>6, <3>1, SeqEqual
    <3>3. QED
      BY <2>6, <3>2 DEF R
  <2>7. CASE closed /\ format # "CSV" /\ Len(stream) = 2 * n + 2
    <3> DEFINE f == <<FooterPiece(n)>>
    <3>1. tail = f
      BY <2>7 DEF Footer
    <3>2. f \in Seq(Pieces) /\ Len(f) = 1 /\ f[1] = FooterPiece(n)
      BY <2>1, PieceTypes
    <3> HIDE DEF f
    <3>3. /\ R \o f \in Seq(Pieces) /\ Len(R \o f) = 2 * n + 2
          /\ \A i \in 1 .. 2 * n + 2 : (R \o f)[i] = IF i <= 2 * n + 1 THEN R[i] ELSE f[i - (2 * n + 1)]
      <4>1. /\ R \o f \in Seq(Pieces) /\ Len(R \o f) = Len(R) + Len(f)
            /\ \A i \in 1 .. Len(R) + Len(f) :
                 (R \o f)[i] = IF i <= Len(R) THEN R[i] ELSE f[i - Len(R)]
        BY <2>4, <3>2, ConcatProperties
      <4>2. Len(R) + Len(f) = 2 * n + 2 /\ Len(R) = 2 * n + 1
        BY <2>1, <2>4, <3>2
      <4>3. QED
        BY <4>1, <4>2
    <3>4. /\ Len(stream) = 2 * n + 2 /\ stream[2 * n + 2] = FooterPiece(n)
          /\ \A i \in 1 .. 2 * n + 1 : stream[i] = R[i]
      BY <2>1, <2>4, <2>7 DEF LayoutInv
    <3>5. \A i \in 1 .. Len(stream) : stream[i] = (R \o f)[i]
      <4> SUFFICES ASSUME NEW i \in 1 .. 2 * n + 2 PROVE stream[i] = (R \o f)[i]
        BY <3>4
      <4>1. CASE i <= 2 * n + 1
        BY <2>1, <3>3, <3>4, <4>1
      <4>2. CASE i = 2 * n + 2
        <5>1. i - (2 * n + 1) = 1 /\ ~(i <= 2 * n + 1)
          BY <2>1, <4>2
        <5>2. (R \o f)[i] = f[1]
          BY <3>3, <5>1
        <5>3. QED
          BY <3>2, <3>4, <4>2, <5>2
      <4>3. i <= 2 * n + 1 \/ i = 2 * n + 2
        BY <2>1
      <4>4. QED
        BY <4>1, <4>2, <4>3
    <3>6. stream = R \o f
      BY <2>1, <3>3, <3>4, <3>5, SeqEqual
    <3>7. QED
      BY <3>1, <3>6 DEF R
  <2>8. closed /\ format # "CSV" => Len(stream) = 2 * n + 2 \/ (RuleMayThrow /\ Len(stream) = 2 * n + 1)
    BY DEF LayoutInv
  <2>9. QED
    BY <2>1, <2>5, <2>7, <2>8, <2>6
<1>2. QED
  BY Invariance, LayoutInvariance, <1>1, PTL

=============================================================================
