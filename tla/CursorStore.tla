------------------------------ MODULE CursorStore ------------------------------
(***************************************************************************)
(* StateManager: the cursors of all sources, in memory and in the state    *)
(* file.  The file is replaced as a whole by a rename, so a save writes    *)
(* the cursors of every source or none.                                    *)
(***************************************************************************)
EXTENDS CdcTypes

VARIABLES
    mem,        \* sm.state
    disk        \* contents of the state file

storeVars == <<mem, disk>>

\* Where a poll of a source with this cursor starts from (syncCycle).
Position(c) == IF c.acked # NoLsn THEN c.acked ELSE c.processed

\* Defect: the acknowledged batch stays in the list.
Acknowledged_keepsPending(c, id, l) ==
    [processed |-> l, acked |-> l, pending |-> c.pending]

Acknowledged(c, id, l) ==
    [processed |-> l, acked |-> l, pending |-> {b \in c.pending : b.id # id}]

\* The first batch of a source without an entry also sets its LastProcessedLsn.
Pending(c, id, l) ==
    [c EXCEPT !.processed = IF c = NoCursor THEN l ELSE @,
              !.pending   = @ \union {[id |-> id, lsn |-> l]}]

\* Defect: one cursor for all sources.
UpdateCursor_ofAllSources(s, id, l) ==
    mem' = [x \in Sources |-> Acknowledged(mem[x], id, l)]

UpdateCursor(s, id, l) == mem' = [mem EXCEPT ![s] = Acknowledged(@, id, l)]

RecordPendingBatch(s, id, l) == mem' = [mem EXCEPT ![s] = Pending(@, id, l)]

\* Outcomes of persistState: write and rename, or an error before the rename.
Persisted == disk' = mem'
PersistError == disk' = disk

\* NewStateManager.
LoadState == mem' = disk /\ UNCHANGED disk

Fresh == [s \in Sources |-> NoCursor]
===============================================================================
