-------------------------------- MODULE PgWriter --------------------------------
(***************************************************************************)
(* PostgreSQLWriter statement by statement: the transactions that several  *)
(* StreamChanges handlers run at once over one connection pool.            *)
(*                                                                         *)
(* PostgreSQL runs them at READ COMMITTED.  A statement sees its own       *)
(* transaction's rows and the committed ones; a written row is locked      *)
(* until its transaction ends; deleting a row that cannot be seen locks    *)
(* nothing.  TargetWriter has the same writer with one step per batch.     *)
(***************************************************************************)
EXTENDS TargetWriter

CONSTANTS
    Handlers,   \* the StreamChanges calls, each served by a goroutine
    PoolSize,   \* connections of the pool
    Keyless     \* tables without a primary key at the source, but one in the target

ASSUME WriterAssumption ==
    /\ IsFiniteSet(Handlers)
    /\ PoolSize \in Nat \ {0}
    /\ Keyless \subseteq Tables

VARIABLES
    pool,       \* "open" or "closed"
    open,       \* the handlers with a transaction, each on a connection
    written,    \* the rows each transaction has written, and locked
    pkCache     \* the Keyless tables whose target's key is known

writerVars == <<target, pool, open, written, pkCache>>

NoRows == [row \in {} |-> NoVersion]

RowOf(c) == <<c.tab, c.key>>
Present(version) == version.op # "DELETE"

Visible(h, row) == IF row \in DOMAIN written[h] THEN written[h][row] ELSE target[row]

Locked(h, row) == \E g \in Handlers \ {h} : row \in DOMAIN written[g]

FreeConnection == Cardinality(open) < PoolSize

Begin(h) ==
    /\ pool = "open" /\ FreeConnection
    /\ open' = open \union {h}
    /\ UNCHANGED <<target, pool, written, pkCache>>

EndTransaction(h) ==
    /\ open' = open \ {h}
    /\ written' = [written EXCEPT ![h] = NoRows]
    /\ UNCHANGED <<pool, pkCache>>

Commit(h) ==
    /\ EndTransaction(h)
    /\ target' = [row \in TargetRows |-> Visible(h, row)]

\* Defect: what was written before an error is kept.
Rollback_commits(h) ==
    /\ EndTransaction(h)
    /\ target' = [row \in TargetRows |-> Visible(h, row)]

\* The deferred Rollback; without a transaction it does nothing.
Rollback(h) ==
    /\ EndTransaction(h)
    /\ UNCHANGED target

Write(h, c) ==
    /\ ~Locked(h, RowOf(c))
    /\ written' = [written EXCEPT ![h] =
                      [row \in DOMAIN @ \union {RowOf(c)} |->
                          IF row = RowOf(c) THEN VersionOf(c) ELSE @[row]]]
    /\ UNCHANGED <<target, pool, open, pkCache>>

\* Without a key in the changes the target is asked for its own, once.
KeyKnown(c) == c.tab \in Keyless => c.tab \in pkCache

\* getPrimaryKeyColumns: the query takes a second connection from the pool.
LookUpKey(c) ==
    /\ ~KeyKnown(c)
    /\ pool = "open" /\ FreeConnection
    /\ pkCache' = pkCache \union {c.tab}
    /\ UNCHANGED <<target, pool, open, written>>

upsert(h, c) == KeyKnown(c) /\ Write(h, c)

\* Defect: a duplicate key is taken for success.
insert_onConflict(h, c) == Write(h, c)

insert(h, c) == ~Present(Visible(h, RowOf(c))) /\ Write(h, c)

\* A delete that names no key, or of a row that cannot be seen.
DeletesNothing(h, c) == c.tab \in Keyless \/ ~Present(Visible(h, RowOf(c)))

delete(h, c) ==
    \/ ~DeletesNothing(h, c) /\ Write(h, c)
    \/ DeletesNothing(h, c) /\ UNCHANGED writerVars

\* One round of the loop over the changes of a batch.
ApplyChange(h, c, idempotent) ==
    CASE c.op = "UPDATE_OLD" -> UNCHANGED writerVars
      [] c.op = "DELETE" -> delete(h, c)
      [] OTHER -> IF idempotent THEN upsert(h, c) ELSE insert(h, c)

\* A plain insert meets its row.
DuplicateKey(h, c, idempotent) ==
    /\ ~idempotent /\ c.op \in {"INSERT", "UPDATE_NEW"}
    /\ Present(Visible(h, RowOf(c))) /\ ~Locked(h, RowOf(c))
===============================================================================
