------------------------------ MODULE SchemaDrift ------------------------------
(***************************************************************************)
(* A table changes its columns or its primary key while it is replicated.  *)
(*                                                                         *)
(* What a change looks like is kept in four places: the source table, its  *)
(* capture instances (the columns a table had when the instance was made), *)
(* the table's entry in the schema cache of the client's reader and the    *)
(* primary key in the cache of the server's writer.  The caches are filled *)
(* at the first use and live as long as their processes.                   *)
(*                                                                         *)
(* One table is modelled.  A poll, its batch and the answer are one step:  *)
(* DbSync has their interleavings.  A poll without new rows is a cycle too, *)
(* and fills the reader's cache like any other.                            *)
(***************************************************************************)
EXTENDS Integers, FiniteSets, Sequences

CONSTANTS
    Columns,        \* names of columns
    Original,       \* the table as it was when replication was set up
    PrimaryKeys,    \* primary keys the table may be given
    MaxRetries,     \* RetryConfig.MaxRetries
    MaxCommits,     \* bound on the changes
    MaxAlterations, \* bound on the alterations of the source table
    Disciplines     \* whether operators alter a table only while nobody writes it

Definition == [cols : SUBSET Columns, pk : SUBSET Columns]

ASSUME DriftAssumption ==
    /\ Original \in Definition
    /\ PrimaryKeys \subseteq SUBSET Columns
    /\ {MaxRetries, MaxCommits} \subseteq Nat \ {0}
    /\ MaxAlterations \in Nat
    /\ Disciplines \subseteq BOOLEAN

VARIABLES
    quiesced,       \* the operators' discipline
    table,          \* the source table
    instances,      \* its capture instances: columns, and first change of each
    log,            \* the columns of the table when each change was committed
    targetTable,    \* the table in PostgreSQL
    delivered,      \* the columns of each change that the target was given
    cursor,         \* number of the last change that will not be read again
    running,        \* the client process runs
    errs,           \* consecutiveErrors
    schemaCache,    \* the reader's entry for the table
    pkCache,        \* the writer's entry for the table
    outdated,       \* history: the client has run since before the last alteration
    alterations     \* history: number of alterations

operatorVars == <<quiesced, table, instances, targetTable, alterations>>
vars == <<operatorVars, outdated, log, delivered, cursor, running, errs, schemaCache, pkCache>>

NotCached == [cols |-> {}, pk |-> {}]

Init ==
    /\ quiesced \in Disciplines
    /\ table = Original /\ targetTable = Original
    /\ instances = {[cols |-> Original.cols, from |-> 1]}
    /\ log = <<>> /\ delivered = <<>> /\ cursor = 0
    /\ running = TRUE /\ errs = 0
    /\ schemaCache = NotCached /\ pkCache = {}
    /\ outdated = FALSE /\ alterations = 0

Drained == cursor = Len(log)

-------------------------------------------------------------------------------
(* A cycle of the client                                                   *)

\* getColumnMetadata, unless the table is in the cache.
Schema == IF schemaCache = NotCached THEN table ELSE schemaCache

\* fn_cdc_get_all_changes fails if the instance lacks a column it is asked for,
\* which readTableChanges takes for a table without changes.
Rows ==
    {l \in (cursor + 1)..Len(log) :
        \E i \in instances : i.from <= l /\ Schema.cols \subseteq i.cols}

\* No query had rows: the cursor moves to max_lsn.
PollNothing ==
    /\ Rows = {}
    /\ cursor' = Len(log)
    /\ errs' = 0
    /\ UNCHANGED <<delivered, running, pkCache>>

\* getPrimaryKeyColumns: of the first change, or else of the target.
ConflictKey ==
    IF pkCache # {} THEN pkCache
    ELSE IF Schema.pk # {} THEN Schema.pk ELSE targetTable.pk

\* Defect: columns that the target does not have are left out.
UpsertColumns_common == Schema.cols \intersect targetTable.cols

UpsertColumns == Schema.cols

\* INSERT ... ON CONFLICT needs its columns, and a key that is one.
Accepted == UpsertColumns \subseteq targetTable.cols /\ ConflictKey = targetTable.pk

\* A later instance repeats rows of an earlier one; both lead to the last row.
BatchAccepted ==
    /\ Rows # {} /\ Accepted
    /\ delivered' = [l \in 1..Len(log) |-> IF l \in Rows THEN UpsertColumns ELSE delivered[l]]
    /\ cursor' = Len(log)
    /\ errs' = 0
    /\ pkCache' = ConflictKey
    /\ UNCHANGED running

\* Defect: the batch is tried again for ever by the same process.
BatchRefused_noExit ==
    /\ Rows # {} /\ ~Accepted
    /\ pkCache' = ConflictKey
    /\ UNCHANGED <<delivered, cursor, errs, running>>

\* The answer is FAILED or SCHEMA_MISMATCH; too many of them end the process.
BatchRefused ==
    /\ Rows # {} /\ ~Accepted
    /\ errs' = errs + 1
    /\ running' = (errs + 1 < MaxRetries)
    /\ pkCache' = ConflictKey
    /\ UNCHANGED <<delivered, cursor>>

\* Every poll reads every capture instance, and so looks the table up.
syncCycle ==
    /\ running
    /\ schemaCache' = Schema
    /\ PollNothing \/ BatchAccepted \/ BatchRefused
    /\ UNCHANGED <<operatorVars, outdated, log>>

\* The client's process ends; a careful operator waits until all is read.
StopClient ==
    /\ running
    /\ quiesced => Drained
    /\ running' = FALSE
    /\ UNCHANGED <<operatorVars, outdated, log, delivered, cursor, errs, schemaCache, pkCache>>

StartClient ==
    /\ ~running
    /\ running' = TRUE
    /\ errs' = 0
    /\ schemaCache' = NotCached
    /\ outdated' = FALSE
    /\ UNCHANGED <<operatorVars, log, delivered, cursor, pkCache>>

RestartServer ==
    /\ pkCache # {}
    /\ pkCache' = {}
    /\ UNCHANGED <<operatorVars, outdated, log, delivered, cursor, running, errs, schemaCache>>

-------------------------------------------------------------------------------
(* The operators of the databases                                          *)

\* An instance has the columns, and the client was started after the alteration.
\* Whether it has polled since, or while it was idle before, no operator knows.
Settled == ~outdated /\ \E i \in instances : table.cols \subseteq i.cols

Commit ==
    /\ Len(log) < MaxCommits
    /\ quiesced => Settled
    /\ log' = Append(log, table.cols)
    /\ delivered' = Append(delivered, {})
    /\ UNCHANGED <<operatorVars, outdated, cursor, running, errs, schemaCache, pkCache>>

Unchanged == UNCHANGED <<log, delivered, cursor, running, errs, schemaCache, pkCache>>

AlterTable(definition) ==
    /\ alterations < MaxAlterations
    /\ quiesced => Drained
    /\ definition # table
    /\ table' = definition
    /\ outdated' = (running \/ outdated)
    /\ alterations' = alterations + 1
    /\ UNCHANGED <<quiesced, instances, targetTable>>
    /\ Unchanged

AddColumn == \E c \in Columns : AlterTable([table EXCEPT !.cols = @ \union {c}])
DropColumn == \E c \in table.cols \ table.pk : AlterTable([table EXCEPT !.cols = @ \ {c}])
ChangeKey ==
    \E pk \in PrimaryKeys : pk \subseteq table.cols /\ AlterTable([table EXCEPT !.pk = pk])

\* A table has two capture instances at most.
CreateInstance ==
    /\ Cardinality(instances) < 2
    /\ \A i \in instances : i.cols # table.cols
    /\ instances' = instances \union {[cols |-> table.cols, from |-> Len(log) + 1]}
    /\ UNCHANGED <<quiesced, table, targetTable, outdated, alterations>>
    /\ Unchanged

\* The older one goes.
DropInstance ==
    /\ Cardinality(instances) = 2
    /\ quiesced => Drained
    /\ \E i \in instances :
          /\ \A j \in instances : i.from <= j.from
          /\ i.cols # table.cols
          /\ instances' = instances \ {i}
    /\ UNCHANGED <<quiesced, table, targetTable, outdated, alterations>>
    /\ Unchanged

MigrateTarget ==
    /\ targetTable # table
    /\ targetTable' = table
    /\ UNCHANGED <<quiesced, table, instances, outdated, alterations>>
    /\ Unchanged

Next ==
    \/ syncCycle \/ StopClient \/ StartClient \/ RestartServer \/ Commit
    \/ AddColumn \/ DropColumn \/ ChangeKey
    \/ CreateInstance \/ DropInstance \/ MigrateTarget

Spec == Init /\ [][Next]_vars

\* The client is started again, and not killed for ever before it polls; the
\* target is migrated, and the server restarted when it was.  Nobody restarts a
\* client that runs.
FairSpec ==
    /\ Spec
    /\ SF_vars(syncCycle) /\ WF_vars(StartClient)
    /\ WF_vars(MigrateTarget)
    /\ WF_vars(RestartServer /\ pkCache # targetTable.pk)

-------------------------------------------------------------------------------
\* A cursor is moved past a change only when the target has its row.
NothingPassedUnread == \A l \in 1..cursor : delivered[l] # {}

\* Operators who stop writing to a table, let the client catch up, alter the
\* table, make a new capture instance and restart the client lose nothing:
\* every change behind the cursor was delivered with the columns it had when it
\* was committed.  Neither the two caches, of which the reader's is filled while
\* nothing is written, nor an instance of older columns, nor a target that is
\* migrated late, early or never may break this.
PassedComplete == quiesced => \A l \in 1..cursor : delivered[l] = log[l]

\* Drift never stops replication for good, careful or not: a refused batch is
\* delivered once the target is migrated, because a client that is refused
\* exits and comes back with fresh metadata, and because the server is
\* restarted after a change of the key.
Resumes == ~Drained ~> Drained
===============================================================================
