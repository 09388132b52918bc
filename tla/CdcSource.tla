------------------------------- MODULE CdcSource -------------------------------
(***************************************************************************)
(* External: the source SQL Server as its CDC functions show it.           *)
(*                                                                         *)
(* The capture job appends committed transactions to the change tables,    *)
(* each with one LSN, so that fn_cdc_get_max_lsn and the rows returned by  *)
(* fn_cdc_get_all_changes grow together.  The cleanup job raises a capture *)
(* instance's fn_cdc_get_min_lsn and deletes the rows below it.            *)
(***************************************************************************)
EXTENDS CdcTypes

CONSTANTS
    Transactions,   \* the transactions applications may commit
    MaxLsn          \* bound on the number of transactions of a source

VARIABLES
    captured,       \* every change ever captured, of all sources
    maxLsn,         \* fn_cdc_get_max_lsn() of each source
    minLsn          \* fn_cdc_get_min_lsn(table)

sourceVars == <<captured, maxLsn, minLsn>>

Statement == [tab : Tables, key : Keys, seq : 1..MaxSeq,
              kind : {"insert", "update", "delete"}]

\* A transaction writes tables of one database and each row at most once.
\* The empty one stands for activity on tables without a capture instance.
ASSUME SourceAssumption ==
    /\ MaxLsn \in Nat \ {0}
    /\ \A tx \in Transactions :
          /\ tx \subseteq Statement
          /\ \A x, y \in tx : SourceOf[x.tab] = SourceOf[y.tab]
          /\ \A x, y \in tx : x.tab = y.tab /\ x.key = y.key => x = y

\* Change-table rows of a statement ('all update old': both images).
Images(kind) ==
    CASE kind = "insert" -> {"INSERT"}
      [] kind = "delete" -> {"DELETE"}
      [] kind = "update" -> {"UPDATE_OLD", "UPDATE_NEW"}

ChangesOf(tx, l) ==
    UNION {{[tab |-> x.tab, key |-> x.key, lsn |-> l, seq |-> x.seq, op |-> o] :
              o \in Images(x.kind)} : x \in tx}

\* The source's own state of a row.
SourceRow(row) ==
    LET w == Written(captured, row)
    IN  IF w = {} THEN NoVersion ELSE VersionOf(LastChange(w))

\* The database inserts only absent rows, updates and deletes only present ones.
Legal(x) == x.kind = "insert" <=> SourceRow(<<x.tab, x.key>>).op = "DELETE"

CommitTransaction(s) ==
    /\ maxLsn[s] < MaxLsn
    /\ \E tx \in Transactions :
          /\ \A x \in tx : SourceOf[x.tab] = s /\ Legal(x)
          /\ captured' = captured \union ChangesOf(tx, maxLsn[s] + 1)
    /\ maxLsn' = [maxLsn EXCEPT ![s] = @ + 1]
    /\ UNCHANGED minLsn

CleanupChangeTable(t) ==
    /\ \E l \in (minLsn[t] + 1)..maxLsn[SourceOf[t]] :
          minLsn' = [minLsn EXCEPT ![t] = l]
    /\ UNCHANGED <<captured, maxLsn>>
===============================================================================
