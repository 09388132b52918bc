---------------------------- MODULE WholePollProofs ----------------------------
(***************************************************************************)
(* When every poll reads whole transactions, the pipeline implements       *)
(* Replication.                                                            *)
(*                                                                         *)
(* A poll reads less than what the log holds in four cases: a source       *)
(* commits between two of its queries, a query fails, the retention job    *)
(* removed rows, or the batch is full.  WholePolls excludes the first      *)
(* three; SmallBacklog, a condition on the behaviour and not on the        *)
(* constants, excludes the last.  Everything else that may go wrong may    *)
(* go wrong: failed polls and saves, broken streams, lost answers, failed  *)
(* or unconfirmed transactions, restarts of server and client.             *)
(***************************************************************************)
EXTENDS CoverageProofs, FiniteSetTheorems

\* No change is kept from a poll's queries.
WholePolls == {"midpoll", "read", "cleanup"} \intersect Faults = {}

\* What a source captured after its cursor in memory.
Backlog(s) == {c \in captured : SourceOf[c.tab] = s /\ Position(mem[s]) < c.lsn}

\* It never fills a batch.
SmallBacklog ==
    \A s \in Sources : IsFiniteSet(Backlog(s)) /\ Cardinality(Backlog(s)) < BatchSize

Polling == pc \in {"read", "send", "wait"}

NoCleanup == \A t \in Tables : minLsn[t] = 1

\* The batch holds all that the tables already read captured in the poll's range.
BatchWhole ==
    Polling =>
        /\ poll.batch = {c \in captured : /\ SourceOf[c.tab] = src /\ c.tab \notin poll.todo
                                          /\ poll.start <= c.lsn /\ c.lsn <= poll.max}
        /\ pc = "read" => poll.max = maxLsn[src]
        /\ pc # "read" => PollComplete

NothingMissed == missed = {}

WInv == CInv /\ NoCleanup /\ BatchWhole /\ NothingMissed

-------------------------------------------------------------------------------
\* The types that the proofs below use of a state in which the invariant holds.
LEMMA WholeTypes ==
    ASSUME CInv
    PROVE  /\ src \in Sources /\ poll \in Poll /\ captured \subseteq Change
           /\ \A s \in Sources : /\ Position(mem[s]) \in Nat /\ maxLsn[s] \in Nat
                                 /\ Position(mem[s]) <= maxLsn[s]
                                 /\ Position(disk[s]) \in Nat
                                 /\ Position(disk[s]) <= Position(mem[s])
           /\ \A c \in captured : /\ c.tab \in Tables /\ c.key \in Keys
                                  /\ SourceOf[c.tab] \in Sources
                                  /\ c.lsn \in Nat \ {0} /\ c.lsn <= maxLsn[SourceOf[c.tab]]
<1> USE DEF CInv, TInv
<1>1. src \in Sources /\ poll \in Poll /\ captured \subseteq Change
  BY SrcType DEF PollOK, LogOK
<1>2. \A s \in Sources : /\ Position(mem[s]) \in Nat /\ maxLsn[s] \in Nat
                         /\ Position(mem[s]) <= maxLsn[s]
                         /\ Position(disk[s]) \in Nat
                         /\ Position(disk[s]) <= Position(mem[s])
  BY PositionType DEF StoreOK, LogOK, CursorsOK
<1>3. \A c \in captured : /\ c.tab \in Tables /\ c.key \in Keys
                          /\ SourceOf[c.tab] \in Sources
                          /\ c.lsn \in Nat \ {0} /\ c.lsn <= maxLsn[SourceOf[c.tab]]
  BY TypesAssumption DEF TypesAssumption, LogOK, Change, Lsn, NoLsn
<1> QED
  BY <1>1, <1>2, <1>3

\* A query that is not cut by the batch size returns its whole window, and the
\* loop goes on with the other tables.
LEMMA ReadsWindow ==
    ASSUME WInv, SmallBacklog, pc = "read", NEW t \in poll.todo,
           NEW T \in TopRows(Window(t, poll.start), BatchSize), CollectTable(t, T)
    PROVE  /\ T = {c \in captured : c.tab = t /\ poll.start <= c.lsn}
           /\ poll'.batch = poll.batch \union T /\ poll'.todo = poll.todo \ {t}
           /\ poll'.start = poll.start /\ poll'.max = poll.max
<1> USE DEF WInv
<1> DEFINE W == Window(t, poll.start)
           B == Backlog(src)
<1>1. /\ src \in Sources /\ poll \in Poll /\ captured \subseteq Change
      /\ Position(mem[src]) \in Nat /\ poll.start = Position(mem[src]) + 1
      /\ t \in Tables /\ SourceOf[t] = src
      /\ \A c \in captured : c.lsn \in Nat
  BY WholeTypes DEF CInv, PolledOK, TablesOf
<1>2. W = {c \in captured : c.tab = t /\ poll.start <= c.lsn}
  <2>1. EffectiveLsn(t, poll.start) = poll.start
    BY <1>1 DEF EffectiveLsn, NoCleanup
  <2> QED
    BY <1>1, <2>1 DEF Window
<1>3. W \subseteq B /\ poll.batch \subseteq B
  BY <1>1, <1>2 DEF Backlog, BatchWhole, Polling
<1>4. IsFiniteSet(B) /\ Cardinality(B) < BatchSize /\ BatchSize \in Nat
  BY <1>1, ReaderAssumption DEF SmallBacklog, ReaderAssumption
<1>5. \A S \in SUBSET B : IsFiniteSet(S) /\ Cardinality(S) \in Nat /\ Cardinality(S) < BatchSize
  <2> TAKE S \in SUBSET B
  <2>1. IsFiniteSet(S) /\ Cardinality(S) <= Cardinality(B)
    BY <1>4, FS_Subset
  <2>2. Cardinality(S) \in Nat /\ Cardinality(B) \in Nat
    BY <1>4, <2>1, FS_CardinalityType
  <2> HIDE DEF B
  <2> QED
    BY <1>4, <2>1, <2>2
<1>6. T = W
  <2>1. T \subseteq W /\ Cardinality(T) = Cardinality(W)
    BY <1>3, <1>5 DEF TopRows
  <2>2. IsFiniteSet(W)
    BY <1>3, <1>5
  <2> QED
    BY <2>1, <2>2, FS_Subset
<1>7. TablesAfter(t, T) = poll.todo \ {t}
  <2>1. poll.batch \union T \in SUBSET B
    BY <1>3, <1>6
  <2>2. Cardinality(poll.batch \union T) \in Nat /\ Cardinality(poll.batch \union T) < BatchSize
    BY <1>5, <2>1
  <2> QED
    BY <1>4, <2>2 DEF TablesAfter
<1>8. /\ poll'.batch = poll.batch \union T /\ poll'.todo = TablesAfter(t, T)
      /\ poll'.start = poll.start /\ poll'.max = poll.max
  BY <1>1 DEF CollectTable, Poll
<1> QED
  BY <1>2, <1>6, <1>7, <1>8

\* So the batch stays whole from table to table.
LEMMA ReadTableWhole ==
    ASSUME WholePolls, WInv, SmallBacklog, ReadTable
    PROVE  BatchWhole'
<1> USE DEF WInv
<1>1. /\ pc = "read" /\ UNCHANGED <<captured, maxLsn, pc, src>>
  BY DEF ReadTable, sourceVars, clientVars, src
<1>2. PICK t \in poll.todo :
        \E T \in TopRows(Window(t, poll.start), BatchSize) : CollectTable(t, T)
  BY DEF ReadTable, readTableChanges, readTableChangesFails, Disturb, WholePolls
<1>t. PICK T \in TopRows(Window(t, poll.start), BatchSize) : CollectTable(t, T)
  BY <1>2
<1>3. /\ T = {c \in captured : c.tab = t /\ poll.start <= c.lsn}
      /\ poll'.batch = poll.batch \union T /\ poll'.todo = poll.todo \ {t}
      /\ poll'.start = poll.start /\ poll'.max = poll.max
  BY <1>1, <1>t, ReadsWindow
<1>4. /\ SourceOf[t] = src /\ poll.max = maxLsn[src]
      /\ \A c \in captured : c.lsn <= maxLsn[SourceOf[c.tab]]
  BY <1>1, WholeTypes DEF CInv, PolledOK, TablesOf, BatchWhole, Polling
<1>5. poll.batch = {c \in captured : /\ SourceOf[c.tab] = src /\ c.tab \notin poll.todo
                                     /\ poll.start <= c.lsn /\ c.lsn <= poll.max}
  BY <1>1 DEF BatchWhole, Polling
<1>6. poll'.batch = {c \in captured : /\ SourceOf[c.tab] = src /\ c.tab \notin poll.todo \ {t}
                                      /\ poll.start <= c.lsn /\ c.lsn <= poll.max}
  BY <1>2, <1>3, <1>4, <1>5
<1> QED
  BY <1>1, <1>3, <1>4, <1>6 DEF BatchWhole, Polling

\* Wherever the cursor is moved, it moves over changes that are in the batch.
LEMMA AdvancesInBatch ==
    ASSUME WInv, NoChanges \/ LocalSkip \/ \E st \in streams : RecvAckOK(st)
    PROVE  /\ NothingMissed'
           /\ Polling /\ PollComplete
           /\ \A c \in poll.batch : Relevant(c) => Covered(c)
           /\ \E l \in Nat :
                /\ mem' = [mem EXCEPT ![src] = mem'[src]] /\ Position(mem'[src]) = l
                /\ Position(mem[src]) <= l /\ l <= poll.max
           /\ UNCHANGED <<sourceVars, target>>
           /\ NextSource \/ CycleFails
<1> USE DEF WInv
<1>1. PICK id \in Nat, l \in Nat :
              /\ AdvanceCursor(id, l)
              /\ Position(mem[src]) <= l /\ l <= maxLsn[src]
              /\ l = poll.max \/ \E c \in poll.batch : c.lsn = l
              /\ pc = "wait" \/ Polled
              /\ \A c \in poll.batch : Relevant(c) => Covered(c)
              /\ UNCHANGED <<sourceVars, target>>
  BY CursorMoves
<1>2. Polling /\ PollComplete
  BY <1>1 DEF Polled, Polling, BatchWhole
<1>3. l <= poll.max /\ poll.max \in Nat
  BY <1>1, <1>2, WholeTypes DEF BatchWhole, Poll
<1>4. poll.start = Position(mem[src]) + 1 /\ Position(mem[src]) \in Nat /\ src \in Sources
  BY <1>2, WholeTypes DEF CInv, PolledOK, Polling
<1>5. SteppedOver(src, l) = {}
  <2> SUFFICES ASSUME NEW c \in captured, SourceOf[c.tab] = src,
                      Position(mem[src]) < c.lsn, c.lsn <= l
               PROVE  c \in poll.batch
    BY DEF SteppedOver
  <2>1. c.lsn \in Nat
    BY WholeTypes
  <2> QED
    BY <1>2, <1>3, <1>4, <2>1 DEF BatchWhole, PollComplete
<1>6. /\ mem' = [mem EXCEPT ![src] = Acknowledged(mem[src], id, l)]
      /\ missed' = missed \union SteppedOver(src, l)
      /\ NextSource \/ CycleFails
  <2>1. mem \in [Sources -> Cursor]
    BY DEF CInv, TInv, StoreOK
  <2> QED
    BY <1>1, <1>4, <2>1 DEF AdvanceCursor, UpdateCursor
<1>7. mem'[src] = Acknowledged(mem[src], id, l) /\ Position(mem'[src]) = l
  <2>1. mem \in [Sources -> Cursor]
    BY DEF CInv, TInv, StoreOK
  <2> QED
    BY <1>4, <1>6, <2>1, PositionType
<1> QED
  BY <1>1, <1>2, <1>3, <1>5, <1>6, <1>7 DEF NothingMissed

-------------------------------------------------------------------------------
\* Initially nothing is captured and no poll is in progress.
LEMMA WInvInit == Ordinary /\ Init => WInv
  BY CInvInit DEF Init, WInv, NoCleanup, BatchWhole, Polling, NothingMissed

\* A batch that a step leaves alone stays whole: what the sources commit comes
\* after the end of the poll, or belongs to another source.
LEMMA BatchKept ==
    ASSUME WholePolls, CInv, BatchWhole, UNCHANGED <<poll, src>>,
           \/ UNCHANGED sourceVars /\ pc' = pc
           \/ UNCHANGED <<captured, maxLsn>> /\ PollComplete /\ pc = "read" /\ pc' = "send"
           \/ UNCHANGED <<captured, maxLsn>> /\ pc = "send" /\ pc' = "wait"
           \/ SourceStep
    PROVE  BatchWhole'
<1>1. CASE UNCHANGED <<captured, maxLsn>>
  BY <1>1 DEF BatchWhole, Polling, PollComplete, SourceStep, clientVars, sourceVars
<1>2. CASE SourceStep /\ ~ UNCHANGED <<captured, maxLsn>>
  <2>1. PICK s \in Sources : CommitTransaction(s) /\ (pc # "read" \/ s # src)
    BY <1>2 DEF SourceStep, CleanupChangeTable, WholePolls
  <2>2. pc' = pc
    BY <1>2 DEF SourceStep, clientVars
  <2>3. /\ captured \subseteq captured'
        /\ \A c \in captured' \ captured : SourceOf[c.tab] = s /\ maxLsn[s] < c.lsn
        /\ s # src => maxLsn'[src] = maxLsn[src]
    <3>1. PICK tx \in Transactions :
            /\ captured' = captured \union ChangesOf(tx, maxLsn[s] + 1)
            /\ \A x \in tx : SourceOf[x.tab] = s
      BY <2>1 DEF CommitTransaction
    <3>2. \A c \in ChangesOf(tx, maxLsn[s] + 1) : c.lsn = maxLsn[s] + 1 /\ SourceOf[c.tab] = s
      BY <3>1 DEF ChangesOf
    <3>3. maxLsn' = [maxLsn EXCEPT ![s] = @ + 1] /\ maxLsn \in [Sources -> Nat]
      BY <2>1 DEF CommitTransaction, CInv, TInv, LogOK
    <3>4. maxLsn'[src] = maxLsn[src] \/ s = src
      BY <3>3, WholeTypes
    <3> QED
      BY <3>1, <3>2, <3>3, <3>4
  <2> SUFFICES ASSUME Polling PROVE BatchWhole'
    BY <2>2 DEF BatchWhole, Polling
  <2>4. poll.max \in Nat /\ maxLsn[src] \in Nat /\ poll.max <= maxLsn[src]
    BY WholeTypes DEF CInv, PolledOK, Polling, Poll
  <2>5. \A c \in captured' \ captured : SourceOf[c.tab] = src => ~(c.lsn <= poll.max)
    <3>1. \A c \in captured' : c.lsn \in Nat
      <4>1. LogOK'
        BY <2>1, CommitType DEF CInv, TInv
      <4> QED
        BY <4>1 DEF LogOK, Change, Lsn
    <3> QED
      BY <2>3, <2>4, <3>1
  <2>6. poll.batch = {c \in captured' : /\ SourceOf[c.tab] = src /\ c.tab \notin poll.todo
                                        /\ poll.start <= c.lsn /\ c.lsn <= poll.max}
    BY <2>3, <2>5 DEF BatchWhole
  <2> QED
    BY <2>1, <2>2, <2>3, <2>6 DEF BatchWhole, Polling, PollComplete
<1> QED
  BY <1>1, <1>2 DEF sourceVars

\* Every step keeps the invariant, as long as the backlog is small.
LEMMA WInvNext ==
    Ordinary /\ WholePolls /\ WInv /\ SmallBacklog /\ [Next]_vars => WInv'
<1> SUFFICES ASSUME Ordinary, WholePolls, WInv, SmallBacklog, [Next]_vars PROVE WInv'
  OBVIOUS
<1> USE DEF WInv
<1>c. CInv'
  BY CInvNext
<1>n. ASSUME UNCHANGED <<minLsn, missed>> PROVE NoCleanup' /\ NothingMissed'
  BY <1>n DEF NoCleanup, NothingMissed
<1>f. NextSource \/ CycleEnds \/ CycleFails => ~Polling'
  BY DEF NextSource, CycleEnds, CycleFails, Polling
<1>q. ~Polling' => BatchWhole'
  BY DEF BatchWhole
<1>1. CASE HealthCheckOK \/ Reconnect \/ Restart
  BY <1>1, <1>c, <1>n, <1>q DEF HealthCheckOK, Reconnect, Restart, Polling, sourceVars
<1>2. CASE PollFails \/ StreamBatchFails
  BY <1>2, <1>c, <1>f, <1>n, <1>q DEF PollFails, StreamBatchFails, sourceVars
<1>3. CASE Crash \/ PowerLoss
  BY <1>3, <1>c, <1>n, <1>q DEF Crash, PowerLoss, ClientDies, Polling, sourceVars
<1>4. CASE PollStart
  <2>1. NoCleanup' /\ NothingMissed'
    BY <1>4, <1>n DEF PollStart, sourceVars
  <2>2. CASE maxLsn[src] = NoLsn
    BY <1>4, <1>c, <1>f, <1>q, <2>1, <2>2 DEF PollStart
  <2>3. CASE maxLsn[src] # NoLsn
    <3>1. BeginPoll(src, Position(mem[src])) /\ UNCHANGED <<cur, sourceVars>> /\ pc' = "read"
      BY <1>4, <2>3 DEF PollStart
    <3>2. /\ poll'.todo = TablesOf(src) /\ poll'.batch = {} /\ poll'.max = maxLsn[src]
      BY <3>1 DEF BeginPoll, NoPoll
    <3>3. \A c \in captured : SourceOf[c.tab] = src => c.tab \in TablesOf(src)
      BY WholeTypes DEF TablesOf
    <3>4. src' = src
      BY <3>1 DEF src
    <3>5. poll'.batch = {c \in captured' : /\ SourceOf[c.tab] = src' /\ c.tab \notin poll'.todo
                                           /\ poll'.start <= c.lsn /\ c.lsn <= poll'.max}
      BY <3>1, <3>2, <3>3, <3>4 DEF sourceVars
    <3> QED
      BY <1>c, <2>1, <3>1, <3>2, <3>4, <3>5 DEF BatchWhole, sourceVars
  <2> QED
    BY <2>2, <2>3
<1>5. CASE ReadTable
  BY <1>5, <1>c, <1>n, ReadTableWhole DEF ReadTable, sourceVars
<1>6. CASE NoChanges \/ LocalSkip \/ RecvAck
  <2>1. CASE NoChanges \/ LocalSkip \/ \E st \in streams : RecvAckOK(st)
    <3>1. NothingMissed' /\ UNCHANGED sourceVars /\ ~Polling'
      BY <2>1, <1>f, AdvancesInBatch
    <3> QED
      BY <3>1, <1>c, <1>q DEF NoCleanup, sourceVars
  <2>2. CASE \E st \in streams : RecvAckRetry(st) \/ RecvAckError(st)
    BY <2>2, <1>c, <1>f, <1>n, <1>q DEF RecvAckRetry, RecvAckError, sourceVars
  <2> QED
    BY <1>6, <2>1, <2>2 DEF RecvAck
<1>7. CASE RecordBatch
  <2>1. NoCleanup' /\ NothingMissed'
    BY <1>7, <1>n DEF RecordBatch, sourceVars
  <2>2. CASE CycleFails
    BY <1>c, <1>f, <1>q, <2>1, <2>2
  <2>3. CASE ~CycleFails
    <3>1. /\ UNCHANGED <<captured, maxLsn, poll, src>> /\ PollComplete
          /\ pc = "read" /\ pc' = "send"
      BY <1>7, <2>3 DEF RecordBatch, Polled, sourceVars, src
    <3> QED
      BY <1>c, <2>1, <3>1, BatchKept
  <2> QED
    BY <2>2, <2>3
<1>8. CASE SendBatch
  <2>1. UNCHANGED <<captured, maxLsn, poll, src, minLsn, missed>> /\ pc = "send" /\ pc' = "wait"
    BY <1>8 DEF SendBatch, sourceVars, src
  <2> QED
    BY <1>c, <1>n, <2>1, BatchKept
<1>9. CASE ServerStep \/ ServerRestart \/ UNCHANGED vars
  <2>1. UNCHANGED <<sourceVars, poll, src, missed, pc>>
    BY <1>9 DEF ServerStep, ServerRestart, serverUnchanged, vars, clientVars, src
  <2> QED
    BY <1>c, <1>n, <2>1, BatchKept DEF sourceVars
<1>10. CASE SourceStep
  <2>1. UNCHANGED <<poll, src, missed>>
    BY <1>10 DEF SourceStep, clientVars, src
  <2>2. UNCHANGED minLsn
    BY <1>10 DEF SourceStep, CommitTransaction, Disturb, WholePolls
  <2> QED
    BY <1>10, <1>c, <1>n, <2>1, <2>2, BatchKept
<1> QED
  BY <1>1, <1>2, <1>3, <1>4, <1>5, <1>6, <1>7, <1>8, <1>9, <1>10 DEF Next, ClientStep

\* The client advances its cursor only after the server confirmed the write:
\* what is behind the cursor in the state file is in the target.
THEOREM BehindCursorApplied ==
    Ordinary /\ WholePolls => (Spec /\ []SmallBacklog => []CursorBehindApplied)
<1> SUFFICES ASSUME Ordinary, WholePolls
             PROVE  Spec /\ []SmallBacklog => []CursorBehindApplied
  OBVIOUS
<1>1. Init => WInv
  BY WInvInit
<1>2. WInv /\ SmallBacklog /\ [Next]_vars => WInv'
  BY WInvNext
<1>3. WInv => CursorBehindApplied
  BY DEF WInv, CInv, NothingMissed, CoveredOrMissed, CursorBehindApplied
<1> QED
  BY <1>1, <1>2, <1>3, PTL DEF Spec

\* A poll starts after changes that are all in the target: whatever was recorded
\* as pending and not acknowledged is read again.
THEOREM PollsResumeAfterApplied ==
    Ordinary /\ WholePolls => (Spec /\ []SmallBacklog => []ResumesAfterApplied)
<1> SUFFICES ASSUME Ordinary, WholePolls
             PROVE  Spec /\ []SmallBacklog => []ResumesAfterApplied
  OBVIOUS
<1>1. Init => WInv
  BY WInvInit
<1>2. WInv /\ SmallBacklog /\ [Next]_vars => WInv'
  BY WInvNext
<1>3. WInv => ResumesAfterApplied
  <2> SUFFICES ASSUME WInv, pc = "read", NEW c \in BehindCursor(src, poll.start - 1)
               PROVE  Covered(c)
    BY DEF ResumesAfterApplied
  <2>1. src \in Sources /\ poll.start - 1 = Position(mem[src])
    BY WholeTypes DEF WInv, CInv, PolledOK
  <2> QED
    BY <2>1 DEF WInv, CInv, NothingMissed, CoveredOrMissed
<1> QED
  BY <1>1, <1>2, <1>3, PTL DEF Spec

-------------------------------------------------------------------------------
(* The target holds the sources' states.  WInv does not say so: a row must be *)
(* as the source had it, not merely new enough, and all rows of one source as *)
(* they were at the same time.                                                *)

\* A row as its source had it after the transaction with LSN l.
RowAt(row, l) ==
    LET w == Written({c \in captured : c.lsn <= l}, row)
    IN  IF w = {} THEN NoVersion ELSE VersionOf(LastChange(w))

SourceRows(s) == {row \in Tracked \X Keys : SourceOf[row[1]] = s}

SnapshotAt(s, l) == \A row \in SourceRows(s) : target[row] = RowAt(row, l)

\* A transaction leaves one effective change of a row, so that the last change
\* of a set of changes is the same one wherever it is sought.
OneImage ==
    \A c, d \in captured :
        c.tab = d.tab /\ c.key = d.key /\ c.lsn = d.lsn /\ Effective(c) /\ Effective(d)
            => c = d

\* Each source stands in the target as it was after some transaction, not before
\* the cursor and not beyond the poll in progress.
Snapshots ==
    \A s \in Sources :
        \E l \in Position(mem[s])..maxLsn[s] :
            SnapshotAt(s, l) /\ (Polling /\ s = src => l <= poll.max)

SInv == WInv /\ OneImage /\ Snapshots

\* The versions of a row at two times are in the order of these times.
LEMMA RowAtMoves ==
    ASSUME CInv, NEW row, NEW l \in Nat, NEW m \in Nat, l <= m
    PROVE  /\ RowAt(row, l) \in Version /\ RowAt(row, l).lsn <= l
           /\ Before(RowAt(row, l), RowAt(row, m))
<1> USE DEF CInv, TInv
<1> DEFINE W(n) == Written({c \in captured : c.lsn <= n}, row)
<1>1. ASSUME NEW n \in Nat
      PROVE  /\ W(n) = {} => RowAt(row, n) = NoVersion
             /\ W(n) # {} => /\ LastChange(W(n)) \in W(n)
                             /\ \A d \in W(n) : Before(d, LastChange(W(n)))
                             /\ RowAt(row, n) = VersionOf(LastChange(W(n)))
             /\ RowAt(row, n) \in Version /\ RowAt(row, n).lsn <= n
  <2>1. CASE W(n) = {}
    <3>1. RowAt(row, n) = NoVersion
      BY <2>1 DEF RowAt
    <3> QED
      BY <2>1, <3>1, TypesAssumption DEF TypesAssumption, NoVersion, Version, Operations, NoLsn
  <2>2. CASE W(n) # {}
    <3>1. W(n) \subseteq captured /\ \A c \in W(n) : c.lsn <= n
      BY DEF Written
    <3>2. LastChange(W(n)) \in W(n) /\ \A d \in W(n) : Before(d, LastChange(W(n)))
      BY <2>2, <3>1, LastCaptured
    <3>3. RowAt(row, n) = VersionOf(LastChange(W(n)))
      BY <2>2 DEF RowAt
    <3>4. LastChange(W(n)) \in Change /\ LastChange(W(n)).lsn <= n
      BY <3>1, <3>2, WholeTypes
    <3>5. VersionOf(LastChange(W(n))) \in Version /\ VersionOf(LastChange(W(n))).lsn <= n
      BY <3>4, TypesAssumption DEF TypesAssumption, Change, Version, VersionOf, Lsn, NoLsn
    <3> QED
      BY <2>2, <3>2, <3>3, <3>5
  <2> QED
    BY <2>1, <2>2
<1>2. W(l) \subseteq W(m)
  BY WholeTypes DEF Written
<1>3. CASE W(l) = {}
  <2>1. RowAt(row, l) = NoVersion /\ RowAt(row, m) \in Version
    BY <1>1, <1>3
  <2>2. \A v \in Version : Before(NoVersion, v)
    BY TypesAssumption DEF TypesAssumption, Before, NoVersion, NoLsn, Version
  <2> QED
    BY <1>1, <2>1, <2>2
<1>4. CASE W(l) # {}
  <2>1. LastChange(W(l)) \in W(m) /\ W(m) # {}
    BY <1>1, <1>2, <1>4
  <2>2. Before(LastChange(W(l)), LastChange(W(m)))
    BY <1>1, <2>1
  <2> QED
    BY <1>1, <1>4, <2>1, <2>2 DEF Before, VersionOf
<1> QED
  BY <1>1, <1>3, <1>4

\* A row stays as it is while its source does not change it.
LEMMA RowAtStays ==
    ASSUME CInv, NEW row, NEW l \in Nat, NEW m \in Nat, l <= m,
           \A c \in Written(captured, row) : ~(l < c.lsn /\ c.lsn <= m)
    PROVE  RowAt(row, m) = RowAt(row, l)
<1>1. Written({c \in captured : c.lsn <= m}, row) = Written({c \in captured : c.lsn <= l}, row)
  BY WholeTypes DEF Written
<1> QED
  BY <1>1 DEF RowAt

\* A committed batch moves the rows of its source to where the poll ended.
LEMMA ApplyMovesSnapshot ==
    ASSUME SInv, NEW st \in streams, ApplyChanges(st.rows),
           NEW l \in Nat, SnapshotAt(src, l), Position(mem[src]) <= l, l <= poll.max
    PROVE  /\ \A row \in SourceRows(src) : target'[row] = RowAt(row, poll.max)
           /\ \A row \in TargetRows \ SourceRows(src) : target'[row] = target[row]
<1> USE DEF SInv, WInv
<1>1. /\ pc = "wait" /\ st.rows = ValidChanges /\ ValidChanges \subseteq captured
      /\ poll.max \in Nat /\ PollComplete /\ poll.start = Position(mem[src]) + 1
      /\ Position(mem[src]) \in Nat /\ src \in Sources
  BY WholeTypes DEF CInv, StreamsOK, PolledOK, BatchWhole, Polling, ValidChanges, Poll, TInv, PollOK
<1>2. ValidChanges = {c \in captured : /\ SourceOf[c.tab] = src /\ c.tab \in Tracked
                                       /\ poll.start <= c.lsn /\ c.lsn <= poll.max}
  BY <1>1 DEF BatchWhole, Polling, PollComplete, ValidChanges
<1>3. ASSUME NEW row \in SourceRows(src) PROVE target'[row] = RowAt(row, poll.max)
  <2> DEFINE w == Written(ValidChanges, row)
             W == Written({c \in captured : c.lsn <= poll.max}, row)
  <2>1. row \in TargetRows /\ row[1] \in Tracked /\ SourceOf[row[1]] = src
    BY TypesAssumption DEF SourceRows, TargetRows, TypesAssumption
  <2>2. target'[row] = IF w = {} THEN target[row] ELSE VersionOf(LastChange(w))
    BY <1>1, <2>1 DEF ApplyChanges, ApplyTo
  <2>3. w = {c \in W : poll.start <= c.lsn}
    BY <1>2, <2>1 DEF Written
  <2>4. CASE w = {}
    <3>1. \A c \in Written(captured, row) : ~(l < c.lsn /\ c.lsn <= poll.max)
      <4> SUFFICES ASSUME NEW c \in Written(captured, row), l < c.lsn, c.lsn <= poll.max
                   PROVE  FALSE
        OBVIOUS
      <4>1. c \in captured /\ c.lsn \in Nat /\ c \in W
        BY WholeTypes DEF Written
      <4> QED
        BY <1>1, <2>3, <2>4, <4>1
    <3>2. RowAt(row, poll.max) = RowAt(row, l)
      BY <1>1, <3>1, RowAtStays
    <3> QED
      BY <2>2, <2>4, <3>2 DEF SnapshotAt
  <2>5. CASE w # {}
    <3>1. w \subseteq captured /\ W \subseteq captured /\ w \subseteq W
      BY <2>3 DEF Written
    <3>2. /\ LastChange(w) \in w /\ \A d \in w : Before(d, LastChange(w))
          /\ LastChange(W) \in W /\ \A d \in W : Before(d, LastChange(W))
      BY <2>5, <3>1, LastCaptured DEF CInv, TInv
    <3>3. /\ LastChange(w).lsn \in Nat /\ LastChange(W).lsn \in Nat
          /\ poll.start <= LastChange(w).lsn
      BY <2>3, <3>1, <3>2, WholeTypes
    <3>4. LastChange(W) \in w
      BY <1>1, <2>3, <3>1, <3>2, <3>3 DEF Before
    <3>5. LastChange(w).lsn = LastChange(W).lsn
      BY <3>1, <3>2, <3>3, <3>4 DEF Before
    <3>6. LastChange(w) = LastChange(W)
      BY <3>1, <3>2, <3>5 DEF OneImage, Written
    <3> QED
      BY <2>2, <2>5, <3>1, <3>6 DEF RowAt
  <2> QED
    BY <2>4, <2>5
<1>4. ASSUME NEW row \in TargetRows \ SourceRows(src) PROVE target'[row] = target[row]
  <2>1. Written(ValidChanges, row) = {}
    BY <1>2, WholeTypes, <1>4 DEF Written, SourceRows, TargetRows
  <2> QED
    BY <1>1, <2>1 DEF ApplyChanges, ApplyTo
<1> QED
  BY <1>3, <1>4

\* When the cursor moves, the rows of its source are as they were at the end of
\* the poll: the changes it passes are in the target, and there are no others.
LEMMA AdvancesToSnapshot ==
    ASSUME SInv, NoChanges \/ LocalSkip \/ \E st \in streams : RecvAckOK(st)
    PROVE  SnapshotAt(src, poll.max)
<1> USE DEF SInv, WInv
<1>1. /\ Polling /\ PollComplete
      /\ \A c \in poll.batch : Relevant(c) => Covered(c)
  BY AdvancesInBatch
<1>2. /\ src \in Sources /\ poll.max \in Nat /\ Position(mem[src]) \in Nat
      /\ poll.start = Position(mem[src]) + 1 /\ maxLsn[src] \in Nat
  BY <1>1, WholeTypes DEF CInv, PolledOK, Polling, Poll
<1>3. PICK l \in Position(mem[src])..maxLsn[src] : SnapshotAt(src, l) /\ l <= poll.max
  BY <1>1, <1>2 DEF Snapshots
<1>4. l \in Nat /\ Position(mem[src]) <= l
  BY <1>2
<1>5. ASSUME NEW row \in SourceRows(src) PROVE target[row] = RowAt(row, poll.max)
  <2>1. ASSUME NEW c \in Written(captured, row), l < c.lsn, c.lsn <= poll.max PROVE FALSE
    <3>1. /\ c \in captured /\ c.tab = row[1] /\ c.key = row[2] /\ Relevant(c)
          /\ SourceOf[c.tab] = src /\ c.lsn \in Nat
      BY WholeTypes DEF Written, Relevant, SourceRows
    <3>2. c \in poll.batch
      BY <1>1, <1>2, <1>4, <2>1, <3>1 DEF BatchWhole, PollComplete
    <3>3. <<c.tab, c.key>> = row
      BY <3>1 DEF SourceRows
    <3>4. Before(c, RowAt(row, l))
      BY <1>1, <1>3, <3>1, <3>2, <3>3 DEF SnapshotAt, Covered
    <3>5. RowAt(row, l).lsn <= l /\ RowAt(row, l).lsn \in Nat
      BY <1>4, RowAtMoves DEF Version
    <3> QED
      BY <1>4, <2>1, <3>1, <3>4, <3>5 DEF Before
  <2>2. RowAt(row, poll.max) = RowAt(row, l)
    BY <1>2, <1>3, <1>4, <2>1, RowAtStays
  <2> QED
    BY <1>3, <2>2 DEF SnapshotAt
<1> QED
  BY <1>5 DEF SnapshotAt

\* A step that writes neither log nor target and starts no poll keeps the
\* snapshots: a cursor in memory only goes back, to the one on disk.
LEMMA SnapshotsKept ==
    ASSUME CInv, Snapshots, UNCHANGED <<captured, target, maxLsn>>,
           \A s \in Sources : Position(mem'[s]) \in {Position(mem[s]), Position(disk[s])},
           Polling' => Polling /\ poll'.max = poll.max /\ src' = src
    PROVE  Snapshots'
<1> SUFFICES ASSUME NEW s \in Sources
             PROVE  \E l \in Position(mem'[s])..maxLsn'[s] :
                      /\ SnapshotAt(s, l)'
                      /\ Polling' /\ s = src' => l <= poll'.max
  BY DEF Snapshots
<1>1. PICK l \in Position(mem[s])..maxLsn[s] :
        SnapshotAt(s, l) /\ (Polling /\ s = src => l <= poll.max)
  BY DEF Snapshots
<1>2. l \in Position(mem'[s])..maxLsn'[s]
  BY <1>1, WholeTypes
<1>3. SnapshotAt(s, l)'
  BY <1>1 DEF SnapshotAt, RowAt
<1> QED
  BY <1>1, <1>2, <1>3

\* A poll begins with what its source captured last.
LEMMA SnapshotsAtPollStart ==
    ASSUME SInv, PollStart, Polling'
    PROVE  Snapshots'
<1> USE DEF SInv, WInv
<1>1. /\ UNCHANGED <<captured, target, maxLsn, mem, src>> /\ poll'.max = maxLsn[src]
  BY DEF PollStart, NextSource, BeginPoll, NoPoll, Polling, sourceVars, storeVars, src
<1> SUFFICES ASSUME NEW s \in Sources
             PROVE  \E l \in Position(mem'[s])..maxLsn'[s] :
                      /\ SnapshotAt(s, l)'
                      /\ Polling' /\ s = src' => l <= poll'.max
  BY DEF Snapshots
<1>2. PICK l \in Position(mem[s])..maxLsn[s] : SnapshotAt(s, l)
  BY DEF Snapshots
<1>3. l <= maxLsn[s]
  BY <1>2, WholeTypes
<1>4. SnapshotAt(s, l)'
  BY <1>1, <1>2 DEF SnapshotAt, RowAt
<1> QED
  BY <1>1, <1>2, <1>3, <1>4

\* The cursor moves within the poll, to whose end the rows have come.
LEMMA SnapshotsAtAdvance ==
    ASSUME SInv, NoChanges \/ LocalSkip \/ \E st \in streams : RecvAckOK(st)
    PROVE  Snapshots'
<1> USE DEF SInv, WInv
<1>1. PICK m \in Nat :
        /\ mem' = [mem EXCEPT ![src] = mem'[src]] /\ Position(mem'[src]) = m
        /\ Position(mem[src]) <= m /\ m <= poll.max
  BY AdvancesInBatch
<1>2. /\ UNCHANGED <<captured, target, maxLsn>> /\ ~Polling' /\ Polling
  BY AdvancesInBatch DEF NextSource, CycleFails, Polling, sourceVars
<1>3. /\ poll.max \in Nat /\ poll.max <= maxLsn[src] /\ src \in Sources
  BY <1>2, WholeTypes DEF CInv, PolledOK, Polling, Poll
<1> SUFFICES ASSUME NEW s \in Sources
             PROVE  \E l \in Position(mem'[s])..maxLsn'[s] : SnapshotAt(s, l)'
  BY <1>2 DEF Snapshots
<1>4. CASE s = src
  <2>1. PICK n \in Nat : n = poll.max
    BY <1>3
  <2>2. SnapshotAt(s, n)
    BY <1>4, <2>1, AdvancesToSnapshot
  <2>3. SnapshotAt(s, n)'
    BY <1>2, <2>2 DEF SnapshotAt, RowAt
  <2>4. n \in Position(mem'[s])..maxLsn'[s]
    BY <1>1, <1>2, <1>3, <1>4, <2>1, WholeTypes
  <2> QED
    BY <2>3, <2>4
<1>5. CASE s # src
  <2>1. PICK l \in Position(mem[s])..maxLsn[s] : SnapshotAt(s, l)
    BY DEF Snapshots
  <2>2. SnapshotAt(s, l)'
    BY <1>2, <2>1 DEF SnapshotAt, RowAt
  <2>3. mem'[s] = mem[s]
    BY <1>1, <1>5 DEF CInv, TInv, StoreOK
  <2> QED
    BY <1>2, <2>1, <2>2, <2>3
<1> QED
  BY <1>4, <1>5

\* A committed batch moves one source to the end of the poll.
LEMMA SnapshotsAtApply ==
    ASSUME SInv, NEW st \in streams, ApplyChanges(st.rows),
           UNCHANGED <<captured, maxLsn, mem, pc, src, poll>>
    PROVE  Snapshots'
<1> USE DEF SInv, WInv
<1>1. pc = "wait" /\ Polling
  BY DEF CInv, StreamsOK, Polling
<1>2. /\ poll.max \in Nat /\ Position(mem[src]) <= poll.max /\ poll.max <= maxLsn[src]
      /\ src \in Sources
  BY <1>1, WholeTypes DEF CInv, PolledOK, Poll
<1>3. PICK k \in Position(mem[src])..maxLsn[src] : SnapshotAt(src, k) /\ k <= poll.max
  BY <1>1, <1>2 DEF Snapshots
<1>4. k \in Nat /\ Position(mem[src]) <= k
  BY <1>2, <1>3, WholeTypes
<1>5. /\ \A row \in SourceRows(src) : target'[row] = RowAt(row, poll.max)
      /\ \A row \in TargetRows \ SourceRows(src) : target'[row] = target[row]
  BY <1>3, <1>4, ApplyMovesSnapshot
<1> SUFFICES ASSUME NEW s \in Sources
             PROVE  \E l \in Position(mem[s])..maxLsn[s] :
                      SnapshotAt(s, l)' /\ (s = src => l <= poll.max)
  BY DEF Snapshots
<1>6. CASE s = src
  <2>1. SnapshotAt(src, poll.max)'
    BY <1>5 DEF SnapshotAt, RowAt, SourceRows
  <2>2. poll.max \in Position(mem[s])..maxLsn[s]
    BY <1>2, <1>6, WholeTypes
  <2> QED
    BY <1>2, <1>6, <2>1, <2>2
<1>7. CASE s # src
  <2>1. PICK l \in Position(mem[s])..maxLsn[s] : SnapshotAt(s, l)
    BY DEF Snapshots
  <2>2. \A row \in SourceRows(s) : row \in TargetRows \ SourceRows(src)
    BY <1>7, TypesAssumption DEF TypesAssumption, SourceRows, TargetRows
  <2>3. SnapshotAt(s, l)'
    BY <1>5, <2>1, <2>2 DEF SnapshotAt, RowAt, SourceRows
  <2> QED
    BY <1>7, <2>1, <2>3
<1> QED
  BY <1>6, <1>7

\* What a source commits is later than any version in the target.
LEMMA CommitKeepsRows ==
    ASSUME CInv, NEW s \in Sources, CommitTransaction(s)
    PROVE  /\ captured \subseteq captured'
           /\ \A c \in captured' \ captured : SourceOf[c.tab] = s /\ c.lsn = maxLsn[s] + 1
           /\ maxLsn' = [maxLsn EXCEPT ![s] = maxLsn[s] + 1]
           /\ \A r \in Sources : \A row \in SourceRows(r), l \in 0..maxLsn[r] :
                RowAt(row, l)' = RowAt(row, l)
<1>1. PICK tx \in Transactions :
        /\ captured' = captured \union ChangesOf(tx, maxLsn[s] + 1)
        /\ \A x \in tx : SourceOf[x.tab] = s
  BY DEF CommitTransaction
<1>2. \A c \in ChangesOf(tx, maxLsn[s] + 1) : c.lsn = maxLsn[s] + 1 /\ SourceOf[c.tab] = s
  BY <1>1 DEF ChangesOf
<1>3. maxLsn' = [maxLsn EXCEPT ![s] = maxLsn[s] + 1]
  BY DEF CommitTransaction
<1>4. ASSUME NEW r \in Sources, NEW row \in SourceRows(r), NEW l \in 0..maxLsn[r]
      PROVE  RowAt(row, l)' = RowAt(row, l)
  <2>1. \A c \in captured' \ captured : c.tab = row[1] => ~(c.lsn <= l)
    BY <1>1, <1>2, WholeTypes DEF SourceRows
  <2>2. Written({c \in captured' : c.lsn <= l}, row) = Written({c \in captured : c.lsn <= l}, row)
    BY <1>1, <2>1 DEF Written
  <2> QED
    BY <2>2 DEF RowAt, Written, Effective
<1> QED
  BY <1>1, <1>2, <1>3, <1>4

LEMMA SnapshotsAtCommit ==
    ASSUME CInv, Snapshots, NEW s \in Sources, CommitTransaction(s),
           UNCHANGED <<mem, poll, pc, src, target>>
    PROVE  Snapshots'
<1>1. /\ maxLsn' = [maxLsn EXCEPT ![s] = maxLsn[s] + 1]
      /\ \A r \in Sources : \A row \in SourceRows(r), l \in 0..maxLsn[r] :
           RowAt(row, l)' = RowAt(row, l)
  BY CommitKeepsRows
<1>2. maxLsn \in [Sources -> Nat]
  BY DEF CInv, TInv, LogOK
<1> SUFFICES ASSUME NEW r \in Sources
             PROVE  \E l \in Position(mem[r])..maxLsn'[r] :
                      SnapshotAt(r, l)' /\ (Polling /\ r = src => l <= poll.max)
  BY DEF Snapshots, Polling
<1>3. PICK l \in Position(mem[r])..maxLsn[r] :
        SnapshotAt(r, l) /\ (Polling /\ r = src => l <= poll.max)
  BY DEF Snapshots
<1>4. l \in 0..maxLsn[r] /\ l \in Position(mem[r])..maxLsn'[r]
  BY <1>1, <1>2, <1>3, WholeTypes
<1>5. \A row \in SourceRows(r) : target'[row] = RowAt(row, l)'
  BY <1>1, <1>3, <1>4 DEF SnapshotAt
<1>6. SnapshotAt(r, l)'
  BY <1>5 DEF SnapshotAt, SourceRows
<1> QED
  BY <1>3, <1>4, <1>6

\* A transaction writes each row at most once.
LEMMA OneImageAtCommit ==
    ASSUME CInv, OneImage, NEW s \in Sources, CommitTransaction(s)
    PROVE  OneImage'
<1>1. PICK tx \in Transactions : /\ captured' = captured \union ChangesOf(tx, maxLsn[s] + 1)
                                 /\ \A x \in tx : SourceOf[x.tab] = s
  BY DEF CommitTransaction
<1>2. /\ tx \subseteq Statement
      /\ \A x, y \in tx : x.tab = y.tab /\ x.key = y.key => x = y
  BY SourceAssumption DEF SourceAssumption
<1>3. ASSUME NEW c \in ChangesOf(tx, maxLsn[s] + 1), NEW d \in ChangesOf(tx, maxLsn[s] + 1),
             c.tab = d.tab, c.key = d.key, Effective(c), Effective(d)
      PROVE  c = d
  <2>1. PICK x \in tx : \E o \in Images(x.kind) :
          c = [tab |-> x.tab, key |-> x.key, lsn |-> maxLsn[s] + 1, seq |-> x.seq, op |-> o]
    BY DEF ChangesOf
  <2>2. PICK y \in tx : \E o \in Images(y.kind) :
          d = [tab |-> y.tab, key |-> y.key, lsn |-> maxLsn[s] + 1, seq |-> y.seq, op |-> o]
    BY DEF ChangesOf
  <2>3. x = y
    BY <1>2, <1>3, <2>1, <2>2
  <2>4. PICK o \in Images(x.kind) :
          c = [tab |-> x.tab, key |-> x.key, lsn |-> maxLsn[s] + 1, seq |-> x.seq, op |-> o]
    BY <2>1
  <2>5. PICK q \in Images(x.kind) :
          d = [tab |-> x.tab, key |-> x.key, lsn |-> maxLsn[s] + 1, seq |-> x.seq, op |-> q]
    BY <2>2, <2>3
  <2>6. o # "UPDATE_OLD" /\ q # "UPDATE_OLD"
    BY <1>3, <2>4, <2>5 DEF Effective
  <2>7. x.kind \in {"insert", "update", "delete"}
    BY <1>2 DEF Statement
  <2>8. o = q
    BY <2>4, <2>5, <2>6, <2>7 DEF Images
  <2> QED
    BY <2>4, <2>5, <2>8
<1>4. \A c \in ChangesOf(tx, maxLsn[s] + 1) : c.lsn = maxLsn[s] + 1 /\ SourceOf[c.tab] = s
  BY <1>1 DEF ChangesOf
<1>5. \A c \in captured : SourceOf[c.tab] = s => c.lsn < maxLsn[s] + 1 /\ c.lsn \in Nat
  BY WholeTypes
<1>6. maxLsn[s] + 1 \in Nat
  BY WholeTypes
<1> QED
  BY <1>1, <1>3, <1>4, <1>5, <1>6 DEF OneImage, Effective

\* Initially no row was written.
LEMMA SInvInit == Ordinary /\ Init => SInv
<1> SUFFICES ASSUME Ordinary, Init PROVE SInv
  OBVIOUS
<1>1. WInv /\ OneImage
  BY WInvInit DEF Init, OneImage
<1>2. \A s \in Sources : /\ Position(mem[s]) \in Nat /\ maxLsn[s] \in Nat
                         /\ Position(mem[s]) <= maxLsn[s]
  BY <1>1, WholeTypes DEF WInv
<1>3. \A s \in Sources : SnapshotAt(s, maxLsn[s]) /\ ~Polling
  <2>1. \A row \in Tracked \X Keys : row \in TargetRows
    BY TypesAssumption DEF TypesAssumption, TargetRows
  <2>2. \A row, l : Written({c \in captured : c.lsn <= l}, row) = {}
    BY DEF Init, Written
  <2>3. \A row, l : RowAt(row, l) = NoVersion
    BY <2>2 DEF RowAt
  <2> QED
    BY <2>1, <2>3 DEF Init, EmptyTarget, SnapshotAt, SourceRows, Polling
<1>4. Snapshots
  BY <1>2, <1>3 DEF Snapshots
<1> QED
  BY <1>1, <1>4 DEF SInv

\* Every step keeps the invariant, as long as the backlog is small.
LEMMA SInvNext ==
    Ordinary /\ WholePolls /\ SInv /\ SmallBacklog /\ [Next]_vars => SInv'
<1> SUFFICES ASSUME Ordinary, WholePolls, SInv, SmallBacklog, [Next]_vars PROVE SInv'
  OBVIOUS
<1> USE DEF SInv, WInv
<1>w. WInv'
  BY WInvNext
<1>o. UNCHANGED captured => OneImage'
  BY DEF OneImage
<1>f. NextSource \/ CycleEnds \/ CycleFails => ~Polling'
  BY DEF NextSource, CycleEnds, CycleFails, Polling
<1>k. ASSUME UNCHANGED <<sourceVars, target>>,
             \A s \in Sources : Position(mem'[s]) \in {Position(mem[s]), Position(disk[s])},
             Polling' => Polling /\ poll'.max = poll.max /\ src' = src
      PROVE  OneImage' /\ Snapshots'
  BY <1>k, <1>o, SnapshotsKept DEF sourceVars
<1>1. CASE HealthCheckOK \/ Reconnect
  BY <1>1, <1>w, <1>k DEF HealthCheckOK, Reconnect, Polling, storeVars
<1>2. CASE PollFails \/ StreamBatchFails
  BY <1>2, <1>w, <1>f, <1>k DEF PollFails, StreamBatchFails, storeVars
<1>3. CASE Crash \/ PowerLoss
  BY <1>3, <1>w, <1>k DEF Crash, PowerLoss, ClientDies, Polling
<1>4. CASE Restart
  BY <1>4, <1>w, <1>k DEF Restart, LoadState, Polling
<1>5. CASE PollStart
  <2>1. CASE Polling'
    BY <1>5, <1>w, <1>o, <2>1, SnapshotsAtPollStart DEF PollStart, sourceVars
  <2>2. CASE ~Polling'
    BY <1>5, <1>w, <1>k, <2>2 DEF PollStart, storeVars
  <2> QED
    BY <2>1, <2>2
<1>6. CASE ReadTable
  <2>1. poll'.max = poll.max
    BY <1>6, WholeTypes DEF ReadTable, readTableChanges, readTableChangesFails, CollectTable, Poll
  <2> QED
    BY <1>6, <1>w, <1>k, <2>1 DEF ReadTable, storeVars, clientVars, src, Polling
<1>7. CASE NoChanges \/ LocalSkip \/ RecvAck
  <2>1. CASE NoChanges \/ LocalSkip \/ \E st \in streams : RecvAckOK(st)
    BY <1>w, <1>o, <2>1, AdvancesInBatch, SnapshotsAtAdvance DEF sourceVars
  <2>2. CASE \E st \in streams : RecvAckRetry(st) \/ RecvAckError(st)
    BY <1>w, <1>f, <1>k, <2>2 DEF RecvAckRetry, RecvAckError, storeVars
  <2> QED
    BY <1>7, <2>1, <2>2 DEF RecvAck
<1>8. CASE RecordBatch
  <2>1. \A s \in Sources : Position(mem'[s]) = Position(mem[s])
    <3>1. /\ mem \in [Sources -> Cursor] /\ src \in Sources /\ mem[src].acked # NoLsn
          /\ batchId + 1 \in Nat /\ poll.last \in Nat
      BY WholeTypes DEF CInv, CursorsOK, TInv, StoreOK, ServerOK, Poll
    <3>2. mem' = [mem EXCEPT ![src] = Pending(mem[src], batchId + 1, poll.last)]
      BY <1>8, <3>1 DEF RecordBatch, RecordPendingBatch
    <3> QED
      BY <3>1, <3>2, PositionType
  <2>2. Polling' => Polling /\ poll'.max = poll.max /\ src' = src
    BY <1>8, <1>f DEF RecordBatch, Polled, Polling, src
  <2> QED
    BY <1>8, <1>w, <1>k, <2>1, <2>2 DEF RecordBatch
<1>9. CASE SendBatch
  BY <1>9, <1>w, <1>k DEF SendBatch, Polling, storeVars, src
<1>10. CASE ServerStep
  <2>1. UNCHANGED <<sourceVars, storeVars, poll, pc, src>>
    BY <1>10 DEF ServerStep, serverUnchanged, clientVars, src
  <2>2. PICK st \in streams :
          ProcessBatch(st) \/ ProcessBatchFails(st) \/ CommitUnknown(st) \/ HandlerCancelled(st)
    BY <1>10 DEF ServerStep
  <2>3. CASE ProcessBatch(st) \/ CommitUnknown(st)
    BY <1>w, <1>o, <2>1, <2>3, SnapshotsAtApply
    DEF ProcessBatch, CommitUnknown, sourceVars, storeVars
  <2>4. CASE ProcessBatchFails(st) \/ HandlerCancelled(st)
    BY <1>w, <1>k, <2>1, <2>4 DEF ProcessBatchFails, HandlerCancelled, storeVars, Polling
  <2> QED
    BY <2>2, <2>3, <2>4
<1>11. CASE ServerRestart \/ UNCHANGED vars
  <2>1. UNCHANGED <<sourceVars, storeVars, poll, pc, src, target>>
    BY <1>11 DEF ServerRestart, serverUnchanged, vars, clientVars, src
  <2> QED
    BY <1>w, <1>k, <2>1 DEF storeVars, Polling
<1>12. CASE SourceStep
  <2>1. UNCHANGED <<storeVars, poll, pc, src, target>>
    BY <1>12 DEF SourceStep, clientVars, src
  <2>2. PICK s \in Sources : CommitTransaction(s)
    BY <1>12 DEF SourceStep, Disturb, WholePolls
  <2> QED
    BY <1>w, <2>1, <2>2, SnapshotsAtCommit, OneImageAtCommit DEF storeVars
<1> QED
  BY <1>1, <1>2, <1>3, <1>4, <1>5, <1>6, <1>7, <1>8, <1>9, <1>10, <1>11, <1>12
  DEF Next, ClientStep

\* What the target has of a source are its changes up to some transaction.
LEMMA AppliedUpTo ==
    ASSUME SInv, NEW s \in Sources
    PROVE  \E l \in Nat : \A c \in captured :
              Relevant(c) /\ SourceOf[c.tab] = s => (Covered(c) <=> c.lsn <= l)
<1> USE DEF SInv, WInv
<1>1. PICK l \in Position(mem[s])..maxLsn[s] : SnapshotAt(s, l)
  BY DEF Snapshots
<1>2. l \in Nat
  BY <1>1, WholeTypes
<1>3. ASSUME NEW c \in captured, Relevant(c), SourceOf[c.tab] = s
      PROVE  Covered(c) <=> c.lsn <= l
  <2> DEFINE row == <<c.tab, c.key>>
             W == Written({d \in captured : d.lsn <= l}, row)
  <2>1. row \in SourceRows(s) /\ c.lsn \in Nat
    BY <1>3, WholeTypes DEF SourceRows, Relevant
  <2>2. target[row] = RowAt(row, l)
    BY <1>1, <2>1 DEF SnapshotAt
  <2>3. RowAt(row, l).lsn <= l /\ RowAt(row, l).lsn \in Nat
    BY <1>2, RowAtMoves DEF Version
  <2>4. ASSUME c.lsn <= l PROVE Covered(c)
    <3>1. c \in W /\ W \subseteq captured
      BY <1>3, <2>4 DEF Written, Relevant
    <3>2. Before(c, LastChange(W))
      BY <3>1, LastCaptured DEF CInv, TInv
    <3> QED
      BY <2>2, <3>1, <3>2 DEF RowAt, Covered, Before, VersionOf
  <2>5. ASSUME Covered(c) PROVE c.lsn <= l
    BY <1>2, <2>1, <2>2, <2>3, <2>5 DEF Covered, Before
  <2> QED
    BY <2>4, <2>5
<1> QED
  BY <1>2, <1>3

\* The changes of one source transaction reach the target together.
THEOREM TransactionsTogether ==
    Ordinary /\ WholePolls => (Spec /\ []SmallBacklog => []TransactionsWhole)
<1> SUFFICES ASSUME Ordinary, WholePolls
             PROVE  Spec /\ []SmallBacklog => []TransactionsWhole
  OBVIOUS
<1>1. Init => SInv
  BY SInvInit
<1>2. SInv /\ SmallBacklog /\ [Next]_vars => SInv'
  BY SInvNext
<1>3. SInv => TransactionsWhole
  <2> SUFFICES ASSUME SInv PROVE TransactionsWhole
    OBVIOUS
  <2>1. \A c \in captured : SourceOf[c.tab] \in Sources
    BY WholeTypes DEF SInv, WInv
  <2> QED
    BY <2>1, AppliedUpTo DEF TransactionsWhole
<1> QED
  BY <1>1, <1>2, <1>3, PTL DEF Spec

\* Steps other than the commit of a batch leave the target alone; that one moves
\* the rows of one source forward, to the end of the poll.
LEMMA TargetMoves ==
    ASSUME SInv, Next, ~ UNCHANGED target
    PROVE  /\ UNCHANGED <<sourceVars, storeVars>>
           /\ src \in Sources /\ poll.max \in 0..maxLsn[src]
           /\ \A row \in SourceRows(src) : /\ target'[row] = RowAt(row, poll.max)
                                           /\ Before(target[row], target'[row])
           /\ \A row \in TargetRows \ SourceRows(src) : target'[row] = target[row]
<1> USE DEF SInv, WInv
<1>1. ServerStep
  BY DEF Next, ClientStep, HealthCheckOK, PollStart, PollFails, ReadTable, NoChanges,
     LocalSkip, RecordBatch, SendBatch, StreamBatchFails, RecvAck, RecvAckOK, RecvAckRetry,
     RecvAckError, Reconnect, Crash, PowerLoss, ClientDies, Restart, ServerRestart, SourceStep
<1>2. UNCHANGED <<sourceVars, storeVars>>
  BY <1>1 DEF ServerStep, serverUnchanged
<1>3. PICK st \in streams : ApplyChanges(st.rows)
  BY <1>1 DEF ServerStep, ProcessBatch, ProcessBatchFails, CommitUnknown, HandlerCancelled
<1>4. Polling /\ src \in Sources /\ poll.max \in 0..maxLsn[src] /\ poll.max \in Nat
  BY WholeTypes DEF CInv, StreamsOK, PolledOK, Polling, Poll
<1>5. PICK l \in Position(mem[src])..maxLsn[src] : SnapshotAt(src, l) /\ l <= poll.max
  BY <1>4 DEF Snapshots
<1>6. l \in Nat /\ Position(mem[src]) <= l
  BY <1>4, <1>5, WholeTypes
<1>7. /\ \A row \in SourceRows(src) : target'[row] = RowAt(row, poll.max)
      /\ \A row \in TargetRows \ SourceRows(src) : target'[row] = target[row]
  BY <1>3, <1>5, <1>6, ApplyMovesSnapshot
<1>8. \A row \in SourceRows(src) : Before(target[row], target'[row])
  BY <1>4, <1>5, <1>6, <1>7, RowAtMoves DEF SnapshotAt
<1> QED
  BY <1>2, <1>4, <1>7, <1>8

\* Replays are safe: no step takes a row of the target back to an older version,
\* although batches are sent again after failures and cursors lag behind.
THEOREM RowsMoveForward ==
    Ordinary /\ WholePolls => (Spec /\ []SmallBacklog => TargetNeverRegresses)
<1> SUFFICES ASSUME Ordinary, WholePolls
             PROVE  Spec /\ []SmallBacklog => TargetNeverRegresses
  OBVIOUS
<1>1. Init => SInv
  BY SInvInit
<1>2. SInv /\ SmallBacklog /\ [Next]_vars => SInv'
  BY SInvNext
<1>3. SInv /\ [Next]_vars => [\A row \in TargetRows : Before(target[row], target'[row])]_vars
  <2> SUFFICES ASSUME SInv, Next, NEW row \in TargetRows PROVE Before(target[row], target'[row])
    OBVIOUS
  <2>1. Before(target[row], target[row])
    BY TypesAssumption
    DEF SInv, WInv, CInv, TInv, ServerOK, TypesAssumption, Version, Before
  <2> QED
    BY <2>1, TargetMoves
<1> QED
  BY <1>1, <1>2, <1>3, PTL DEF Spec, TargetNeverRegresses

-------------------------------------------------------------------------------
(* The pipeline implements Replication: commits of sources are its commits, *)
(* the commit of a batch is a delivery, and every other step confirms       *)
(* positions or stutters.                                                   *)

Log == {c \in captured : Relevant(c)}
Rows == [row \in Tracked \X Keys |-> target[row]]
Resume == [s \in Sources |-> Position(disk[s])]

\* Replication's rows of a source at an LSN are the source's.
LEMMA AbstractRow ==
    ASSUME NEW row \in Tracked \X Keys, NEW l
    PROVE  R!RowAt(row, l) = RowAt(row, l)
<1>1. R!Written({c \in Log : c.lsn <= l}, row) = Written({c \in captured : c.lsn <= l}, row)
  BY DEF R!Written, R!Effective, Written, Log, Relevant, Effective
<1>2. \A S : R!LastChange(S) = LastChange(S)
  BY DEF R!LastChange, LastChange, R!Before, Before
<1> QED
  BY <1>1, <1>2 DEF R!RowAt, RowAt, R!NoVersion, NoVersion, R!NoLsn, NoLsn, R!VersionOf,
     VersionOf, Log

LEMMA ImplementsInit == Ordinary /\ Init => R!Init
<1> SUFFICES ASSUME Ordinary, Init PROVE R!Init
  OBVIOUS
<1>1. Log = {} /\ maxLsn = [s \in Sources |-> 1]
  BY DEF Init, Ordinary, CursorsKept, Log
<1>2. Rows = [row \in Tracked \X Keys |-> NoVersion]
  BY TypesAssumption DEF Init, Rows, EmptyTarget, TargetRows, TypesAssumption
<1>3. Resume = maxLsn
  BY <1>1 DEF Init, Ordinary, CursorsKept, Resume, Position, NoLsn
<1> QED
  BY <1>1, <1>2, <1>3 DEF R!Init, R!Rows, R!NoVersion, NoVersion, R!NoLsn, NoLsn,
     Log, Rows, Resume

\* A source's commit is one.
LEMMA ImplementsCommit ==
    ASSUME SInv, NEW s \in Sources, CommitTransaction(s), UNCHANGED <<storeVars, target>>
    PROVE  R!Commit(s)
<1>1. /\ captured \subseteq captured'
      /\ \A c \in captured' \ captured : SourceOf[c.tab] = s /\ c.lsn = maxLsn[s] + 1
      /\ maxLsn' = [maxLsn EXCEPT ![s] = maxLsn[s] + 1]
  BY CommitKeepsRows DEF SInv, WInv
<1>2. Log \subseteq Log' /\ Log' \ Log \subseteq captured' \ captured
  BY <1>1 DEF Log, Relevant, Effective
<1>3. Rows' = Rows /\ Resume' = Resume
  BY DEF Rows, Resume, storeVars, Position
<1> QED
  BY <1>1, <1>2, <1>3 DEF R!Commit, Log, Rows, Resume

\* The commit of a batch delivers a later state of its source.
LEMMA ImplementsDeliver ==
    ASSUME SInv, Next, ~ UNCHANGED target
    PROVE  \E s \in Sources : R!Deliver(s)
<1>1. /\ UNCHANGED <<sourceVars, storeVars>>
      /\ src \in Sources /\ poll.max \in 0..maxLsn[src]
      /\ \A row \in SourceRows(src) : /\ target'[row] = RowAt(row, poll.max)
                                      /\ Before(target[row], target'[row])
      /\ \A row \in TargetRows \ SourceRows(src) : target'[row] = target[row]
  BY TargetMoves
<1>2. UNCHANGED <<Log, maxLsn, Resume>>
  BY <1>1 DEF Log, Resume, sourceVars, storeVars, Relevant, Effective, Position
<1>3. R!RowsOf(src) = SourceRows(src)
  BY DEF R!RowsOf, R!Rows, SourceRows
<1>4. \A row \in Tracked \X Keys :
        /\ row \in SourceRows(src) => Rows'[row] = R!RowAt(row, poll.max)
        /\ row \notin SourceRows(src) => Rows'[row] = Rows[row]
        /\ Before(Rows[row], Rows'[row])
  <2> SUFFICES ASSUME NEW row \in Tracked \X Keys
               PROVE  /\ row \in SourceRows(src) => Rows'[row] = R!RowAt(row, poll.max)
                      /\ row \notin SourceRows(src) => Rows'[row] = Rows[row]
                      /\ Before(Rows[row], Rows'[row])
    OBVIOUS
  <2>1. row \in TargetRows /\ Rows[row] = target[row] /\ Rows'[row] = target'[row]
    BY TypesAssumption DEF TypesAssumption, TargetRows, Rows
  <2>2. Before(target[row], target[row])
    BY <2>1, TypesAssumption
    DEF SInv, WInv, CInv, TInv, ServerOK, TypesAssumption, Version, Before
  <2> QED
    BY <1>1, <2>1, <2>2, AbstractRow
<1>5. Rows' = [row \in Tracked \X Keys |->
                 IF row \in SourceRows(src) THEN R!RowAt(row, poll.max) ELSE Rows[row]]
  BY <1>4 DEF Rows
<1>6. PICK s \in Sources : s = src
  BY <1>1
<1>7. R!Deliver(s)
  BY <1>1, <1>2, <1>3, <1>4, <1>5, <1>6
  DEF R!Deliver, R!Rows, R!Before, Before, Log, Rows, Resume
<1> QED
  BY <1>7

\* Every other step confirms what has been delivered, or nothing new.
LEMMA ImplementsConfirm ==
    ASSUME SInv, SInv', UNCHANGED <<captured, maxLsn, target>>,
           \A s \in Sources : Position(disk[s]) <= Position(disk'[s])
    PROVE  R!Confirm
<1> USE DEF SInv, WInv
<1>1. UNCHANGED <<Log, maxLsn, Rows>>
  BY DEF Log, Rows, Relevant, Effective
<1>2. ASSUME NEW s \in Sources
      PROVE  Resume[s] <= Resume'[s] /\ R!UpToDate(s, Resume'[s])
  <2>1. Resume[s] = Position(disk[s]) /\ Resume'[s] = Position(disk'[s])
    BY DEF Resume
  <2>2. PICK l \in Position(mem'[s])..maxLsn'[s] : SnapshotAt(s, l)'
    BY DEF Snapshots
  <2>3. /\ Position(disk'[s]) \in Nat /\ Position(mem'[s]) \in Nat /\ maxLsn'[s] \in Nat
        /\ Position(disk'[s]) <= Position(mem'[s])
    <3>1. CInv'
      OBVIOUS
    <3> QED
      BY <3>1, PositionType DEF CInv, TInv, StoreOK, CursorsOK, LogOK
  <2>4. l \in Nat /\ Position(disk'[s]) <= l
    BY <2>2, <2>3
  <2>5. \A row \in SourceRows(s) : target[row] = RowAt(row, l)
    BY <2>2 DEF SnapshotAt, RowAt, SourceRows
  <2>6. \A row \in SourceRows(s) : Before(RowAt(row, Position(disk'[s])), target[row])
    BY <2>3, <2>4, <2>5, RowAtMoves
  <2>7. \A row \in SourceRows(s) : Before(R!RowAt(row, Position(disk'[s])), Rows[row])
    BY <2>6, AbstractRow DEF SourceRows, Rows
  <2> QED
    BY <2>1, <2>7 DEF R!UpToDate, R!RowsOf, R!Rows, SourceRows, R!Before, Before, Rows
<1> QED
  BY <1>1, <1>2 DEF R!Confirm, Log, Rows, Resume

\* Every step maps to a step or a stutter.
LEMMA ImplementsNext ==
    Ordinary /\ WholePolls /\ SInv /\ SInv' /\ [Next]_vars => [R!Next]_(R!vars)
<1> SUFFICES ASSUME Ordinary, WholePolls, SInv, SInv', [Next]_vars PROVE [R!Next]_(R!vars)
  OBVIOUS
<1>1. CASE UNCHANGED vars
  BY <1>1 DEF vars, sourceVars, storeVars, R!vars, Relevant, Effective, Position
<1>2. CASE Next /\ ~ UNCHANGED target
  BY <1>2, ImplementsDeliver DEF R!Next
<1>3. CASE Next /\ UNCHANGED target
  <2>1. CASE \E s \in Sources : CommitTransaction(s) /\ SourceStep
    BY <2>1, <1>3, ImplementsCommit DEF R!Next, SourceStep
  <2>2. CASE UNCHANGED <<captured, maxLsn>>
    <3>1. \A s \in Sources : Position(disk[s]) <= Position(disk'[s])
      BY <1>3, CoveredAwaits, StateFileForward DEF SInv, WInv, Ordinary
    <3> QED
      BY <1>3, <2>2, <3>1, ImplementsConfirm DEF R!Next
  <2>3. UNCHANGED sourceVars \/ SourceStep
    BY <1>3 DEF Next, ClientStep, HealthCheckOK, PollStart, PollFails, ReadTable, NoChanges,
       LocalSkip, RecordBatch, SendBatch, StreamBatchFails, RecvAck, RecvAckOK, RecvAckRetry,
       RecvAckError, Reconnect, Crash, PowerLoss, ClientDies, Restart, ServerStep,
       ServerRestart, serverUnchanged
  <2>4. SourceStep => \/ \E s \in Sources : CommitTransaction(s)
                      \/ UNCHANGED <<captured, maxLsn>>
    BY DEF SourceStep, CleanupChangeTable
  <2> QED
    BY <2>1, <2>2, <2>3, <2>4 DEF sourceVars
<1> QED
  BY <1>1, <1>2, <1>3

\* The pipeline of polls, batches, acknowledgements, retries and restarts
\* implements Replication, for every number of sources, tables, transactions,
\* retries and faults: what a reader of the target sees is a state the source
\* had, and then a later one.
THEOREM PipelineReplicates ==
    Ordinary /\ WholePolls => (Spec /\ []SmallBacklog => Replicates)
<1> SUFFICES ASSUME Ordinary, WholePolls PROVE Spec /\ []SmallBacklog => Replicates
  OBVIOUS
<1>1. Init => SInv
  BY SInvInit
<1>2. SInv /\ SmallBacklog /\ [Next]_vars => SInv'
  BY SInvNext
<1>3. Init => R!Init
  BY ImplementsInit
<1>4. SInv /\ SInv' /\ [Next]_vars => [R!Next]_(R!vars)
  BY ImplementsNext
<1> QED
  BY <1>1, <1>2, <1>3, <1>4, PTL DEF Spec, Replicates, R!Spec
===============================================================================
