---------------------------- MODULE CollectorLog ----------------------------
(***************************************************************************)
(* What a DataCollector promises: it keeps a log of the points it was      *)
(* given.  The row of a point is written at most once, as a whole, behind  *)
(* the rows before it and before the next point is taken; or else it is    *)
(* begun and given up, and then it stays torn; rows reach the file in that *)
(* order; after an error on the file no further row is written; a          *)
(* successful flush leaves nothing written behind; and closing ends        *)
(* everything.                                                             *)
(***************************************************************************)
EXTENDS Naturals, Sequences

CONSTANT Points

VARIABLES
  log,      \* the points collected
  rows,     \* the rows written: <<place in the output, index of the point>>
  saved,    \* those of them that are in the file
  torn,     \* the indexes of the points whose row was begun and given up
  broken,   \* the file has met an error
  synced,   \* the length of the log at the last successful flush
  ended     \* the collector is closed

vars == <<log, rows, saved, torn, broken, synced, ended>>

Init ==
  /\ log = <<>>
  /\ rows = {} /\ saved = {} /\ torn = {}
  /\ broken = FALSE
  /\ synced = 0
  /\ ended = FALSE

\* Written rows may reach the file at any time, the earlier ones first.
MoreSaved ==
  /\ saved \subseteq saved' /\ saved' \subseteq rows'
  /\ \A r \in rows', s \in saved' : r[1] < s[1] => r \in saved'

MayBreak == broken => broken'

Collect ==
  /\ ~ended
  /\ \E p \in Points : /\ \A k \in 1 .. Len(log) : log[k] # p
                       /\ log' = Append(log, p)
  /\ UNCHANGED <<rows, saved, torn, broken, synced, ended>>

\* The newest point has no row, and none was begun.
RowDue ==
  /\ ~ended
  /\ log # <<>> /\ Len(log) \notin torn /\ \A r \in rows : r[2] # Len(log)

WriteRow ==
  /\ RowDue /\ ~broken
  /\ \E r \in rows' : /\ r[2] = Len(log)
                      /\ \A q \in rows : q[1] < r[1]
                      /\ rows' = rows \cup {r}
  /\ MoreSaved
  /\ broken' \in BOOLEAN
  /\ UNCHANGED <<log, torn, synced, ended>>

Tear ==
  /\ RowDue
  /\ torn' = torn \cup {Len(log)}
  /\ UNCHANGED <<log, rows, saved, broken, synced, ended>>

Drain ==
  /\ ~ended
  /\ MoreSaved
  /\ MayBreak
  /\ UNCHANGED <<log, rows, torn, synced, ended>>

Sync ==
  /\ ~ended /\ ~broken
  /\ saved' = rows
  /\ synced' = Len(log)
  /\ UNCHANGED <<log, rows, torn, broken, ended>>

Close ==
  /\ ~ended /\ ended' = TRUE
  /\ MoreSaved
  /\ MayBreak
  /\ ~broken' => saved' = rows
  /\ UNCHANGED <<log, rows, torn, synced>>

Next == Collect \/ WriteRow \/ Tear \/ Drain \/ Sync \/ Close

Spec == Init /\ [][Next]_vars

==============================================================================
