---------------------------- MODULE DataCollector ----------------------------
(***************************************************************************)
(* DataCollector (src/benchmarking/data_collector.cpp): threads append     *)
(* points to data_points_ and to a buffered std::ofstream, both under      *)
(* mutex_; Flush drains the buffer; the destructor writes the footer and   *)
(* closes the file.                                                        *)
(*                                                                         *)
(* A row is several operator<< calls: it is modelled as two pieces, so     *)
(* that both another thread and the end of the buffer may fall inside it.  *)
(* stream is what the ofstream accepted, its first `flushed` pieces are in *)
(* the file, the rest is in the buffer.  An ofstream that failed to write  *)
(* stays bad and ignores every later operator<<; it never throws.  What    *)
(* may throw (std::bad_alloc) is storing a point and building the strings  *)
(* that are written: what the stream took before then stays in it.         *)
(***************************************************************************)
EXTENDS Naturals, Sequences

CONSTANTS
  Writers,      \* threads that collect and flush
  NoWriter,     \* the owner of a free lock
  Formats,      \* formats the collector may be built with
  MaxPoints,    \* bound: points each writer collects
  DiskMayFail,  \* whether a write to the file can fail
  AllocMayFail  \* whether an allocation can fail (std::bad_alloc)

ASSUME CollectorAssumption ==
  /\ Formats \subseteq {"CSV", "JSON", "PLAINTEXT"}
  /\ MaxPoints \in Nat
  /\ DiskMayFail \in BOOLEAN /\ AllocMayFail \in BOOLEAN
  /\ NoWriter \notin Writers

Points == Writers \X (1 .. MaxPoints)

VARIABLES
  format,   \* format_
  headed,   \* header_written_
  points,   \* data_points_
  stream,   \* pieces file_stream_ has accepted
  flushed,  \* how many of them are in the file
  bad,      \* file_stream_.fail()
  mutex,    \* mutex_: its owner
  pc,       \* step of each writer
  count,    \* calls of CollectDataPoint each writer has made
  closed,   \* the destructor has run
  acked,    \* points whose CollectDataPoint returned true
  skipped,  \* points that are stored, but whose row is not written or not whole:
            \* the call returned false
  synced    \* Len(data_points_) when Flush last returned true

vars == <<format, headed, points, stream, flushed, bad, mutex, pc, count, closed,
          acked, skipped, synced>>

HeaderPiece == [kind |-> "header"]
TitlePiece == [kind |-> "title"]   \* a header that ends before its rule of dashes
OpenPiece(p, comma) == [kind |-> "open", point |-> p, comma |-> comma]
ClosePiece(p) == [kind |-> "close", point |-> p]
FooterPiece(n) == [kind |-> "footer", total |-> n]

Pieces ==
  [kind : {"header", "title"}] \cup [kind : {"open"}, point : Points, comma : BOOLEAN]
  \cup [kind : {"close"}, point : Points] \cup [kind : {"footer"}, total : Nat]

\* The point the holder of the lock is collecting.
Current == points[Len(points)]

\* operator<< of a piece: ignored on a bad stream; otherwise it is buffered,
\* and a full buffer is written out, with or without the piece.  The write may
\* fail and leave part of the buffer unwritten.
Put(piece) ==
  \/ bad /\ UNCHANGED <<stream, flushed, bad>>
  \/ /\ ~bad
     /\ stream' = Append(stream, piece)
     /\ flushed' \in flushed .. Len(stream')
     /\ UNCHANGED bad
  \/ /\ ~bad /\ DiskMayFail
     /\ stream' = Append(stream, piece)
     /\ flushed' \in flushed .. Len(stream)
     /\ bad' = TRUE

\* The plain-text header ends, and its footer begins, with a rule of dashes: a
\* std::string, built when the lines above it have been written.
RuleMayThrow == format = "PLAINTEXT" /\ AllocMayFail

\* The constructor ignores the result of WriteHeader.
Init ==
  /\ format \in Formats
  /\ headed \in (IF RuleMayThrow THEN BOOLEAN ELSE {TRUE})
  /\ points = <<>>
  /\ stream = IF headed THEN <<HeaderPiece>> ELSE <<TitlePiece>>
  /\ flushed = 0
  /\ bad = FALSE
  /\ mutex = NoWriter
  /\ pc = [w \in Writers |-> "idle"]
  /\ count = [w \in Writers |-> 0]
  /\ closed = FALSE
  /\ acked = {}
  /\ skipped = {}
  /\ synced = 0

------------------------------------------------------------------------------
(* CollectDataPoint and CollectData: they differ in the label only.        *)

\* Mutant: no lock_guard.
NoLockGuard == TRUE

CanLock == mutex = NoWriter

CollectLock(w) ==
  /\ pc[w] = "idle" /\ ~closed /\ CanLock
  /\ count[w] < MaxPoints
  /\ mutex' = w
  /\ pc' = [pc EXCEPT ![w] = "push"]
  /\ UNCHANGED <<format, headed, points, stream, flushed, bad, count, closed, acked,
                 skipped, synced>>

CollectPush(w) ==
  /\ pc[w] = "push"
  /\ count' = [count EXCEPT ![w] = @ + 1]
  /\ points' = Append(points, <<w, count'[w]>>)
  /\ pc' = [pc EXCEPT ![w] = "open"]
  /\ UNCHANGED <<format, headed, stream, flushed, bad, mutex, closed, acked, skipped, synced>>

\* Storing the point throws: nothing is stored, and false is returned.
StoreThrows(w) ==
  /\ AllocMayFail
  /\ pc[w] = "push"
  /\ count' = [count EXCEPT ![w] = @ + 1]
  /\ mutex' = NoWriter
  /\ pc' = [pc EXCEPT ![w] = "idle"]
  /\ UNCHANGED <<format, headed, points, stream, flushed, bad, closed, acked,
                 skipped, synced>>

\* The header failed before: WriteDataPoint tries it again, from its start.
WriteHeader(w) ==
  /\ pc[w] = "open" /\ ~headed
  /\ Put(HeaderPiece)
  /\ headed' = TRUE
  /\ UNCHANGED <<format, points, mutex, pc, count, closed, acked, skipped, synced>>

\* false is returned, and the point stays in data_points_.
GiveUp(w) ==
  /\ skipped' = skipped \cup {Current}
  /\ mutex' = NoWriter
  /\ pc' = [pc EXCEPT ![w] = "idle"]
  /\ UNCHANGED <<format, headed, points, count, closed, acked, synced>>

HeaderThrows(w) ==
  /\ RuleMayThrow
  /\ pc[w] = "open" /\ ~headed
  /\ Put(TitlePiece)
  /\ GiveUp(w)

\* Mutant: a comma before every row, the first included.
AlwaysComma == format = "JSON"

NeedsComma == format = "JSON" /\ Len(points) > 1

WriteOpen(w) ==
  /\ pc[w] = "open" /\ headed
  /\ Put(OpenPiece(Current, NeedsComma))
  /\ pc' = [pc EXCEPT ![w] = "close"]
  /\ UNCHANGED <<format, headed, points, mutex, count, closed, acked, skipped, synced>>

\* The step of a row before which the text of the timestamp is built: a JSON
\* row begins with the comma and the key, which are in the stream by then.
TimestampAt == IF format = "JSON" THEN "close" ELSE "open"

FormatThrows(w) ==
  /\ AllocMayFail
  /\ pc[w] = TimestampAt /\ headed
  /\ GiveUp(w)
  /\ UNCHANGED <<stream, flushed, bad>>

\* Mutant: an early return keeps the lock.
KeepLock == mutex

Unlocked == NoWriter

\* WriteDataPoint returns true, whatever became of the stream.
WriteClose(w) ==
  /\ pc[w] = "close"
  /\ Put(ClosePiece(Current))
  /\ acked' = acked \cup {Current}
  /\ mutex' = Unlocked
  /\ pc' = [pc EXCEPT ![w] = "idle"]
  /\ UNCHANGED <<format, headed, points, count, closed, skipped, synced>>

------------------------------------------------------------------------------
(* Flush, and the destructor.                                              *)

\* Mutant: Flush reports success without looking at the stream.
FlushSaysTrue == TRUE

FlushResult == ~bad'

Flush(w) ==
  /\ pc[w] = "idle" /\ ~closed /\ CanLock
  /\ \/ bad /\ UNCHANGED <<flushed, bad>>
     \/ ~bad /\ flushed' = Len(stream) /\ UNCHANGED bad
     \/ ~bad /\ DiskMayFail /\ flushed' \in flushed .. Len(stream) /\ bad' = TRUE
  /\ synced' = IF FlushResult THEN Len(points) ELSE synced
  /\ UNCHANGED <<format, headed, points, stream, mutex, pc, count, closed, acked, skipped>>

\* Mutant: the footer is counted before the last point.
FooterTotalOffByOne == IF points = <<>> THEN 0 ELSE Len(points) - 1

FooterTotal == Len(points)

\* CSV has no footer, and a stream that is bad takes none.
WriteFooter ==
  stream' = IF bad \/ format = "CSV" THEN stream
            ELSE Append(stream, FooterPiece(FooterTotal))

\* The exception is caught in WriteFooter: the file is closed all the same.
FooterThrows == RuleMayThrow /\ UNCHANGED stream

\* close() drains the buffer, of a bad stream too, and its failure is not
\* looked at.  No call may be in progress.
Destroy ==
  /\ ~closed
  /\ \A w \in Writers : pc[w] = "idle"
  /\ WriteFooter \/ FooterThrows
  /\ \/ flushed' = Len(stream') /\ UNCHANGED bad
     \/ DiskMayFail /\ flushed' \in flushed .. Len(stream') /\ bad' = TRUE
  /\ closed' = TRUE
  /\ UNCHANGED <<format, headed, points, mutex, pc, count, acked, skipped, synced>>

------------------------------------------------------------------------------
CollectStep(w) ==
  \/ CollectPush(w) \/ StoreThrows(w)
  \/ WriteHeader(w) \/ HeaderThrows(w)
  \/ WriteOpen(w) \/ FormatThrows(w) \/ WriteClose(w)

Next ==
  \/ \E w \in Writers : CollectLock(w) \/ CollectStep(w) \/ Flush(w)
  \/ Destroy

\* A call that holds the lock runs on.
Fairness == \A w \in Writers : WF_vars(CollectStep(w))

Spec == Init /\ [][Next]_vars

FairSpec == Spec /\ Fairness

------------------------------------------------------------------------------
(* Properties.                                                             *)

TypeOK ==
  /\ format \in Formats
  /\ headed \in BOOLEAN
  /\ points \in Seq(Points)
  /\ stream \in Seq(Pieces)
  /\ flushed \in 0 .. Len(stream)
  /\ bad \in BOOLEAN
  /\ mutex \in Writers \cup {NoWriter}
  /\ pc \in [Writers -> {"idle", "push", "open", "close"}]
  /\ \A w \in Writers : pc[w] # "idle" <=> mutex = w
  /\ count \in [Writers -> 0 .. MaxPoints]
  /\ closed \in BOOLEAN
  /\ acked \subseteq Points
  /\ skipped \subseteq Points
  /\ synced \in 0 .. Len(points)

\* What the file should be for these points: row k is pieces 2k and 2k + 1.
Rendering(pts) ==
  [i \in 1 .. 2 * Len(pts) + 1 |->
     IF i = 1 THEN HeaderPiece
     ELSE IF i % 2 = 0 THEN OpenPiece(pts[i \div 2], format = "JSON" /\ i > 2)
     ELSE ClosePiece(pts[i \div 2])]

Footer == IF format = "CSV" THEN <<>> ELSE <<FooterPiece(Len(points))>>

\* No error on the file, no row given up, and the header whole at once.
Faultless == ~bad /\ skipped = {} /\ stream[1] = HeaderPiece

\* Whenever no call is in progress the output is the header and one whole row
\* per stored point, in order, with JSON separators only between rows: rows of
\* different threads never mix.  After a failed allocation the footer alone may
\* be missing.
OutputMatchesPoints ==
  (Faultless /\ mutex = NoWriter)
    => \/ stream = Rendering(points) \o (IF closed THEN Footer ELSE <<>>)
       \/ closed /\ RuleMayThrow /\ stream = Rendering(points)

InFile(p) == \E i \in 1 .. flushed : stream[i].kind = "close" /\ stream[i].point = p

\* When Flush returned true, every point collected before it is in the file,
\* unless its own CollectDataPoint returned false: although CollectDataPoint
\* does not notice a failed write, no loss hides behind a successful Flush.
FlushTruthful ==
  \A k \in 1 .. synced : points[k] \notin skipped => InFile(points[k])

IsFooter(i) == stream[i].kind = "footer"

\* After the destructor a file that met no write error holds all that was
\* written, with a whole row for exactly the points whose collection returned
\* true.  Its footer comes last and counts the stored points, the torn and the
\* skipped ones included; only the plain-text footer can be missing, after an
\* allocation that failed.
ClosedFileComplete ==
  (closed /\ ~bad) =>
    /\ flushed = Len(stream)
    /\ acked = {p \in Points : InFile(p)}
    /\ \A i \in 1 .. Len(stream) :
         IsFooter(i) => i = Len(stream) /\ stream[i] = FooterPiece(Len(points))
    /\ (format # "CSV" /\ ~RuleMayThrow) => IsFooter(Len(stream))

\* Every call returns and gives the lock back, also when formatting throws.
CallsReturn ==
  \A w \in Writers : mutex = w ~> (mutex = NoWriter /\ pc[w] = "idle")

------------------------------------------------------------------------------
(* The collector implements CollectorLog: a row is written once its last   *)
(* piece is in the stream, and saved once that piece is in the file.  A    *)
(* row whose call is over without its last piece is torn.                  *)

Whole(i) == i > 1 /\ stream[i - 1].kind = "open" /\ stream[i - 1].point = stream[i].point

\* The rows that end in the first n pieces.  Index 0 is an end without its row.
RowsUpTo(n) ==
  {r \in (1 .. n) \X (0 .. Len(points)) :
     /\ stream[r[1]].kind = "close"
     /\ IF Whole(r[1]) THEN r[2] # 0 /\ points[r[2]] = stream[r[1]].point ELSE r[2] = 0}

\* Piece i begins a row that the next piece does not end.
Unended(i) ==
  /\ stream[i].kind = "open"
  /\ i < Len(stream) => stream[i + 1] # ClosePiece(stream[i].point)

CallOver(k) == k < Len(points) \/ \A w \in Writers : pc[w] # "close"

Torn ==
  {k \in 1 .. Len(points) :
     CallOver(k) /\ \E i \in 1 .. Len(stream) : Unended(i) /\ stream[i].point = points[k]}

Log == INSTANCE CollectorLog
  WITH log <- points, rows <- RowsUpTo(Len(stream)), saved <- RowsUpTo(flushed),
       torn <- Torn, broken <- bad, ended <- closed

\* A point has at most one row, whole or torn, and a torn one is left as it is;
\* rows come in the order of their points, reach the file in that order, and
\* none is written after an error; whatever a successful Flush or an
\* undisturbed close leaves behind is in the file.
ImplementsLog == Log!Spec

------------------------------------------------------------------------------
\* WriteDataPoint's contract: true only if the point was written.
TrueMeansWritten ==
  \A p \in acked : \E i \in 1 .. Len(stream) :
    stream[i].kind = "close" /\ stream[i].point = p

==============================================================================
