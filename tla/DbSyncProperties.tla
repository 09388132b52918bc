--------------------------- MODULE DbSyncProperties ---------------------------
(***************************************************************************)
(* What the pipeline promises, and the conditions under which it does.     *)
(***************************************************************************)
EXTENDS DbSync

\* Every variable has its type: cursors, poll, streams and control state of
\* the client have the form the code gives them.
TypeOK ==
    /\ captured \subseteq Change
    /\ maxLsn \in [Sources -> Nat]
    /\ minLsn \in [Tables -> Lsn]
    /\ mem \in [Sources -> Cursor]
    /\ disk \in [Sources -> Cursor]
    /\ poll \in Poll
    /\ pc \in ClientStates
    /\ cur \in 1..Len(SourceSeq)
    /\ errs \in 0..MaxRetries
    /\ batchId \in Nat
    /\ streams \subseteq Stream
    /\ target \in [TargetRows -> Version]
    /\ missed \subseteq Change
    /\ budget \in Nat

\* The target row of change c is at c or at a later change.
Covered(c) == Before(c, target[<<c.tab, c.key>>])

\* The changes of tracked tables that a cursor with this position has behind it.
BehindCursor(s, l) ==
    {c \in captured : Relevant(c) /\ SourceOf[c.tab] = s /\ c.lsn <= l}

\* A cursor in memory or on disk never passes a change that was sent and not
\* applied: what is behind it is in the target, or was never read (missed).
\* RecordPendingBatch, UpdateCursor, the order of send, apply, acknowledgement
\* and save, retries and restarts may not break this.
CoveredOrMissed ==
    \A s \in Sources : \A cursor \in {mem[s], disk[s]} :
        \A c \in BehindCursor(s, Position(cursor)) : Covered(c) \/ c \in missed

\* The client advances its cursor only after the server confirmed the write:
\* everything behind the cursor in the state file is in the target.
CursorBehindApplied ==
    \A s \in Sources : \A c \in BehindCursor(s, Position(disk[s])) : Covered(c)

\* A poll starts after changes that are all in the target: a batch that was
\* recorded as pending but not acknowledged is read again.
ResumesAfterApplied ==
    pc = "read" => \A c \in BehindCursor(src, poll.start - 1) : Covered(c)

\* The cursor that a restart would load never goes back, whatever breaks and
\* however late an acknowledgement comes: the state file is replaced as a
\* whole and batches of one source are acknowledged in order.
CursorNeverRegresses ==
    [][\A s \in Sources : Position(disk[s]) <= Position(disk'[s])]_vars

\* Replays are safe: a row of the target never goes back to an older version,
\* although batches are sent again after failures and cursors lag behind.
TargetNeverRegresses ==
    [][\A row \in TargetRows : Before(target[row], target'[row])]_vars

\* The changes of one source transaction reach the target together.
TransactionsWhole ==
    \A c, d \in captured :
        /\ Relevant(c) /\ Relevant(d)
        /\ c.lsn = d.lsn /\ SourceOf[c.tab] = SourceOf[d.tab]
        => (Covered(c) <=> Covered(d))

\* Replication as its users see it: the tracked rows of the target, and the
\* cursors that a restart would load.
R == INSTANCE Replication WITH
        log    <- {c \in captured : Relevant(c)},
        end    <- maxLsn,
        rows   <- [row \in Tracked \X Keys |-> target[row]],
        cursor <- [s \in Sources |-> Position(disk[s])]

\* As long as polls read whole transactions, the pipeline of polls, batches,
\* acknowledgements, retries and restarts implements Replication: what a reader
\* of the target sees is a state the source had, and then a later one.
Replicates == R!Spec

\* Entries of failed attempts are never removed from PendingBatches, but an
\* attempt leaves one only if something went wrong during it: the state file
\* grows with the failures, not with the batches.
PendingBoundedByFailures ==
    Cardinality(UNION {{<<s, b>> : b \in disk[s].pending} : s \in Sources})
        <= MaxFaults - budget + 1

\* At most one batch is in the hands of the server's live handlers: an
\* acknowledgement on its way is that of the batch the client waits for, and
\* the pending entry of that batch is in the state file.
AckMatchesPending ==
    \A st \in streams :
        st.phase # "sent" =>
            /\ Connected(st)
            /\ \E b \in disk[src].pending : b.id = st.id

\* All rows of tracked tables are as the sources have them.
InSync ==
    \A row \in Tracked \X Keys : target[row] = SourceRow(row)

\* Once faults and commits have stopped, which the bounds of a run enforce,
\* the target comes to equal the source and stays so.
Converges == <>[]InSync

\* A source that can never be polled again ends every cycle and, each time
\* there were MaxRetries of them, the process.  The sources in front of it in
\* the configuration are replicated all the same: a row of theirs of which no
\* change was missed comes to equal the source's.
FrontSourcesConverge ==
    \A i \in 1..Len(SourceSeq) :
        (\A j \in 1..i : SourceSeq[j] \notin Broken)
            => <>[](\A row \in (Tracked \intersect TablesOf(SourceSeq[i])) \X Keys :
                      target[row] = SourceRow(row) \/ Written(missed, row) # {})
===============================================================================
