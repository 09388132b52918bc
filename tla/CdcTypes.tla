------------------------------- MODULE CdcTypes -------------------------------
(***************************************************************************)
(* The data that client, server and databases exchange.                    *)
(*                                                                         *)
(* A log sequence number (10 bytes in the code, compared byte by byte) is  *)
(* a natural number; NoLsn is the nil slice.  A change of a row is named   *)
(* by the place it has in the log: its transaction's LSN and its __$seqval *)
(* in the transaction.  Column values are not modelled: the contents a row *)
(* has after a change is identified by that change.                        *)
(***************************************************************************)
EXTENDS Integers, FiniteSets, Sequences

CONSTANTS
    Sources,    \* names of the configured source databases
    Tables,     \* the source tables that have a CDC capture instance
    Keys,       \* primary key values
    SourceOf,   \* the source database of each table
    Tracked,    \* the tables listed in the client's tracked_tables
    MaxSeq      \* bound on the __$seqval of a change in its transaction

ASSUME TypesAssumption ==
    /\ SourceOf \in [Tables -> Sources]
    /\ \A s \in Sources : \E t \in Tables : SourceOf[t] = s
    /\ Tracked \subseteq Tables
    /\ MaxSeq \in Nat \ {0}

NoLsn == 0
Lsn == Nat \ {NoLsn}

\* Operation types of cdc_sync.proto that the capture process produces.
Operations == {"DELETE", "INSERT", "UPDATE_OLD", "UPDATE_NEW"}

Change == [tab : Tables, key : Keys, lsn : Lsn, seq : 1..MaxSeq, op : Operations]

\* Order of the log.  The two images of an update have one __$seqval.
Before(a, b) == a.lsn < b.lsn \/ (a.lsn = b.lsn /\ a.seq <= b.seq)

\* A last change of a non-empty set of changes.
LastChange(S) == CHOOSE c \in S : \A d \in S : Before(d, c)

\* The state of one row: the change that wrote it last.  It exists unless that
\* was a deletion; NoVersion is a row that was never written.
Version == [lsn : Nat, seq : 0..MaxSeq, op : Operations]
NoVersion == [lsn |-> NoLsn, seq |-> 0, op |-> "DELETE"]
VersionOf(c) == [lsn |-> c.lsn, seq |-> c.seq, op |-> c.op]

\* The before image of an update says nothing about the row's new state.
Effective(c) == c.op # "UPDATE_OLD"

\* The effect of a set of changes on a table's rows: each row is left as its
\* last effective change in the set left it.
Written(S, row) ==
    {c \in S : c.tab = row[1] /\ c.key = row[2] /\ Effective(c)}

\* CdcCursorState of one source.  TableName, UpdatedAt and the counts and
\* times of pending batches take no part in any decision.
Cursor == [processed : Nat, acked : Nat, pending : SUBSET [id : Nat, lsn : Nat]]

\* A source without an entry in the state map (real entries have an LSN).
NoCursor == [processed |-> NoLsn, acked |-> NoLsn, pending |-> {}]

\* Of the tables read in a poll each has one capture instance, and so one query;
\* SchemaDrift has a table with two.
TablesOf(s) == {t \in Tables : SourceOf[t] = s}
===============================================================================
