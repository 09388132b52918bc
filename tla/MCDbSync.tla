------------------------------- MODULE MCDbSync -------------------------------
(***************************************************************************)
(* Small instances of DbSync for TLC.                                      *)
(***************************************************************************)
EXTENDS DbSyncProperties

CONSTANTS s1, s2, t1, t2, t3, k1, k2

Change1(t, k, kind) == [tab |-> t, key |-> k, seq |-> 1, kind |-> kind]
Change2(t, k, kind) == [tab |-> t, key |-> k, seq |-> 2, kind |-> kind]

\* One source.
OneSource == <<s1>>
TwoSources == <<s1, s2>>
AllInS1 == [t \in Tables |-> s1]
\* Two tables in the first source, one in the second.
TwoAndOne == [t \in Tables |-> IF t = t2 THEN s2 ELSE s1]

\* Transactions with one change row each: inserts and deletes of two rows.
OneChange == {{Change1(t1, k, kind)} : k \in {k1, k2}, kind \in {"insert", "delete"}}

\* The same for the first row of two tables.
OneChangePerTable ==
    {{Change1(t, k1, kind)} : t \in {t1, t2}, kind \in {"insert", "delete"}}

\* Rows of two tables of a source together or alone, and of the other source.
ThreeInTwoSources ==
    { {Change1(t1, k1, "insert"), Change2(t3, k1, "insert")},
      {Change1(t3, k1, "delete")},
      {Change1(t2, k1, "insert")} }

\* Transactions on two tables of a source, and on the second one alone.
TwoTables ==
    { {Change1(t1, k1, "insert"), Change2(t2, k1, "insert")},
      {Change1(t1, k1, "update")},
      {Change1(t2, k1, "delete")},
      {Change1(t1, k1, "delete"), Change2(t2, k1, "update")} }

\* The same with an untracked table t3 and empty transactions.
ThreeTables ==
    { {Change1(t1, k1, "insert"), Change2(t2, k1, "insert")},
      {Change1(t1, k1, "update"), Change2(t3, k1, "insert")},
      {Change1(t2, k1, "delete")},
      {Change1(t3, k1, "insert")},
      {} }

\* Transactions with two change rows: two rows inserted, one updated.
TwoChanges ==
    { {Change1(t1, k1, "insert"), Change2(t1, k2, "insert")},
      {Change1(t1, k1, "update")} }
===============================================================================
