-------------------------- MODULE CdcServerProperties --------------------------
(***************************************************************************)
(* What the server promises the clients, however their calls interleave.   *)
(***************************************************************************)
EXTENDS CdcServer

\* Where a batch begins in the messages m, and how many begin up to message i.
Starts(m) == {i \in 1..Len(m) : i = 1 \/ m[i].batch # m[i - 1].batch}
Begun(m, i) == {s \in Starts(m) : s <= i}
Count(m, i) == Cardinality(Begun(m, i))

EndsAt(m, i) == i = Len(m) \/ i + 1 \in Starts(m)

\* A batch begins with message s, and none between it and message e.
OneBatch(m, s, e) ==
    /\ s \in Starts(m) /\ e \in s..Len(m)
    /\ \A k \in s..(e - 1) : k + 1 \notin Starts(m)

BatchAt(m, s, e) ==
    [id |-> m[s].batch, lsn |-> m[e].change.lsn, changes |-> {m[k].change : k \in s..e}]

StartOf(m, n) == CHOOSE s \in Starts(m) : Count(m, s) = n
EndOf(m, s) == CHOOSE e \in s..Len(m) : OneBatch(m, s, e) /\ EndsAt(m, e)

\* The batches of a stream: the runs of messages with one ID.
BatchesOf(h) ==
    LET m == sent[h]
    IN  [n \in 1..Cardinality(Starts(m)) |->
            BatchAt(m, StartOf(m, n), EndOf(m, StartOf(m, n)))]

\* Every batch of a stream has one answer, in their order, with its own ID and
\* the LSN of its own last change: the receive loop closes a batch only when
\* it has the first change of the next, or the end of the stream.
AnswersMatchBatches ==
    \A h \in Handlers :
        /\ Len(acks[h]) <= Len(BatchesOf(h))
        /\ \A n \in 1..Len(acks[h]) :
              acks[h][n].id = BatchesOf(h)[n].id /\ acks[h][n].lsn = BatchesOf(h)[n].lsn

\* Batches are committed whole: no part of one whose stream broke while it was
\* sent, or whose statements failed, or that the process had no time for.  And
\* what is answered with OK is committed.
OKMeansCommitted ==
    /\ \A i \in 1..Len(commits) :
          \E n \in 1..Len(BatchesOf(commits[i].stream)) :
              LET b == BatchesOf(commits[i].stream)[n]
              IN  b.id = commits[i].id /\ b.changes = commits[i].changes
    /\ \A h \in Handlers : \A n \in 1..Len(BatchesOf(h)) :
          n <= Len(acks[h]) /\ acks[h][n].status = "OK"
              => \E i \in 1..Len(commits) :
                    /\ commits[i].stream = h
                    /\ commits[i].id = BatchesOf(h)[n].id
                    /\ commits[i].changes = BatchesOf(h)[n].changes

\* The target is what TargetWriter makes of the committed batches one after
\* the other, although their statements interleave and transactions fail, wait
\* and deadlock.  The exception: a delete that found no row does not keep
\* another transaction from committing that row first, and a delete without a
\* key is left out.
TargetIsSerial ==
    \A row \in TargetRows :
        \/ target[row] = serial[row]
        \/ ~Present(target[row]) /\ ~Present(serial[row])
        \/ row \in overlooked

\* With plain inserts a change is not applied a second time while the row it
\* wrote is there: the retry of a batch that was committed never succeeds,
\* unless it begins by deleting its rows.
AppliedOnce ==
    ~idempotent =>
        \A i, j \in 1..Len(commits) :
            \A c \in commits[i].changes \intersect commits[j].changes :
                i < j /\ c.op \in {"INSERT", "UPDATE_NEW"}
                    => \E k \in i..j : \E d \in commits[k].changes :
                           RowOf(d) = RowOf(c) /\ d.op = "DELETE"

\* Every call returns, also those that wait for each other's rows or for the
\* last connections of the pool: at the latest when their clients give up.
CallsReturn == \A h \in Handlers : <>(call[h].pc = "done")
===============================================================================
