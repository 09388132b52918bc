----------------------------- MODULE TargetWriter -----------------------------
(***************************************************************************)
(* PostgreSQLWriter with idempotent writes: one transaction per batch.     *)
(*                                                                         *)
(* A table mapping sends different tracked tables to different target      *)
(* tables, so that a target row is named by its source table and key.      *)
(***************************************************************************)
EXTENDS CdcTypes

VARIABLE target     \* the last change written to each row of the target

TargetRows == Tables \X Keys

\* The rows after the statements for the changes S have run in batch order.
\* An upsert writes all columns and a delete of an absent row does nothing, so
\* what a row held before does not matter.
ApplyTo(tgt, S) ==
    [row \in TargetRows |->
        LET w == Written(S, row)
        IN  IF w = {} THEN tgt[row] ELSE VersionOf(LastChange(w))]

\* Defect: a transaction per table; one of them fails.
ApplyChanges_perTable(S) ==
    \/ target' = ApplyTo(target, S)
    \/ \E t \in Tables : target' = ApplyTo(target, {c \in S : c.tab = t})

\* ApplyChanges when its transaction commits.
ApplyChanges(S) == target' = ApplyTo(target, S)

EmptyTarget == [row \in TargetRows |-> NoVersion]
===============================================================================
