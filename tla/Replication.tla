------------------------------ MODULE Replication ------------------------------
(***************************************************************************)
(* What replication promises, without client, server, batches or state     *)
(* file: the tracked tables of every source stand in the target as they    *)
(* were at the source after one of its transactions, they only move        *)
(* forward, and the position from which replication would be resumed is    *)
(* never ahead of them.                                                    *)
(***************************************************************************)
EXTENDS CdcTypes

VARIABLES
    log,        \* the effective changes of tracked tables
    end,        \* number of transactions of each source
    rows,       \* the target's copy of the tracked tables
    cursor      \* where replication of each source would be resumed

vars == <<log, end, rows, cursor>>

Rows == Tracked \X Keys

\* A row of source s as it was after its l-th transaction.
RowAt(row, l) ==
    LET w == Written({c \in log : c.lsn <= l}, row)
    IN  IF w = {} THEN NoVersion ELSE VersionOf(LastChange(w))

RowsOf(s) == {row \in Rows : SourceOf[row[1]] = s}

\* The copy of source s is not older than the source was after l transactions.
UpToDate(s, l) == \A row \in RowsOf(s) : Before(RowAt(row, l), rows[row])

Init ==
    /\ log = {}
    /\ end \in [Sources -> Nat]
    /\ rows = [row \in Rows |-> NoVersion]
    /\ cursor = end

\* The source commits its next transaction.
Commit(s) ==
    /\ end' = [end EXCEPT ![s] = @ + 1]
    /\ log \subseteq log'
    /\ \A c \in log' \ log : SourceOf[c.tab] = s /\ c.lsn = end[s] + 1
    /\ UNCHANGED <<rows, cursor>>

\* The copy of one source moves forward to a later state of that source.
Deliver(s) ==
    /\ \E l \in 0..end[s] :
          rows' = [row \in Rows |-> IF row \in RowsOf(s) THEN RowAt(row, l) ELSE rows[row]]
    /\ \A row \in Rows : Before(rows[row], rows'[row])
    /\ UNCHANGED <<log, end, cursor>>

\* Positions move forward, over transactions that have been delivered.
Confirm ==
    /\ \A s \in Sources : cursor[s] <= cursor'[s] /\ UpToDate(s, cursor'[s])
    /\ UNCHANGED <<log, end, rows>>

Next == Confirm \/ \E s \in Sources : Commit(s) \/ Deliver(s)

Spec == Init /\ [][Next]_vars
===============================================================================
