---------------------------- MODULE CoverageProofs ----------------------------
(***************************************************************************)
(* The cursor never passes a change that was sent and not applied.         *)
(*                                                                         *)
(* CoveredOrMissed is not inductive: what an acknowledgement lets the      *)
(* cursor pass is known from the batch the client holds in memory, the     *)
(* stream that carries it and the answer on its way back.  CInv relates    *)
(* the three to the cursor.  Its part KInv knows the LSNs alone: it holds  *)
(* with late handlers too, and with it no cursor goes back.                *)
(***************************************************************************)
EXTENDS DbSyncProofs

\* A cursor that was acknowledged once stays so, and the state file is never
\* ahead of the memory, nor the memory of the source.
CursorsOK ==
    \A s \in Sources :
        /\ mem[s].acked # NoLsn /\ disk[s].acked # NoLsn
        /\ Position(disk[s]) <= Position(mem[s])
        /\ Position(mem[s]) <= maxLsn[s]

\* A poll in progress lies between the cursor and the end of the log.
PolledOK ==
    pc \in {"read", "send", "wait"} =>
        /\ poll.start = Position(mem[src]) + 1
        /\ Position(mem[src]) <= poll.max /\ poll.max <= maxLsn[src]
        /\ poll.todo \subseteq TablesOf(src)
        /\ \A c \in poll.batch : SourceOf[c.tab] = src /\ poll.start <= c.lsn
        /\ poll.batch # {} => \E c \in poll.batch : c.lsn = poll.last
        /\ ValidChanges # {} => \E c \in ValidChanges : c.lsn = poll.lastValid
        /\ pc # "read" => ValidChanges # {}

\* There is at most one stream; it carries the batch the client waits for, and
\* an answer OK means that the batch is applied.
StreamsOK ==
    /\ \A st \in streams :
          /\ pc = "wait" /\ st.id = batchId
          /\ st.rows = ValidChanges /\ st.lsn = poll.lastValid
          /\ st.phase = "OK" => \A c \in st.rows : Effective(c) => Covered(c)
    /\ \A x, y \in streams : x = y

CInv == TInv /\ CursorsOK /\ PolledOK /\ StreamsOK /\ CoveredOrMissed

\* Batch IDs are not used twice, and the stream the client waits for carries the
\* LSN of its poll.  Other handlers may still be at work.
AwaitedOK ==
    \A st \in streams :
        /\ st.id <= batchId
        /\ pc = "send" => st.id # batchId
        /\ Connected(st) => st.lsn = poll.lastValid

\* What the position of a cursor rests on, whatever is in the target.
KInv == TInv /\ CursorsOK /\ PolledOK /\ AwaitedOK

\* The first start finds a state file, and none is lost.
CursorsKept == "powerloss" \notin Faults /\ ~FreshStart

\* Moreover a handler whose client gave up stops.
Ordinary == CursorsKept /\ "zombie" \notin Faults

-------------------------------------------------------------------------------
\* A committed batch covers its effective changes.
LEMMA ApplyCovers ==
    ASSUME TInv, NEW S, S \subseteq captured, ApplyChanges(S),
           NEW c \in S, Effective(c)
    PROVE  Covered(c)'
<1> DEFINE row == <<c.tab, c.key>>
           W == Written(S, row)
<1>1. c \in Change
  BY DEF TInv, LogOK
<1>2. row \in TargetRows
  BY <1>1 DEF Change, TargetRows
<1>3. c \in W /\ W \subseteq captured
  BY DEF Written
<1>4. Before(c, LastChange(W))
  BY <1>3, LastCaptured DEF TInv
<1>5. target'[row] = VersionOf(LastChange(W))
  BY <1>2, <1>3 DEF ApplyChanges, ApplyTo
<1> QED
  BY <1>4, <1>5 DEF Covered, Before, VersionOf

\* It uncovers no change that is older than all of its changes of the table.
LEMMA ApplyKeeps ==
    ASSUME TInv, NEW S, S \subseteq captured, ApplyChanges(S),
           NEW c \in captured, Covered(c), \A d \in S : d.tab = c.tab => c.lsn < d.lsn
    PROVE  Covered(c)'
<1> DEFINE row == <<c.tab, c.key>>
           W == Written(S, row)
<1>1. row \in TargetRows
  BY DEF Change, TargetRows, TInv, LogOK
<1>2. CASE W = {}
  <2>1. target'[row] = target[row]
    BY <1>1, <1>2 DEF ApplyChanges, ApplyTo
  <2> QED
    BY <2>1 DEF Covered
<1>3. CASE W # {}
  <2>1. W \subseteq captured
    BY DEF Written
  <2>2. LastChange(W) \in W
    BY <1>3, <2>1, LastCaptured DEF TInv
  <2>3. c.lsn < LastChange(W).lsn
    BY <2>2 DEF Written
  <2>4. target'[row] = VersionOf(LastChange(W))
    BY <1>1, <1>3 DEF ApplyChanges, ApplyTo
  <2> QED
    BY <2>3, <2>4 DEF Covered, Before, VersionOf
<1> QED
  BY <1>2, <1>3

\* Steps that write neither log nor target and take each cursor's position from
\* memory or disk keep CoveredOrMissed.
LEMMA CoverageKept ==
    ASSUME CoveredOrMissed, UNCHANGED <<captured, target>>, missed \subseteq missed',
           \A s \in Sources :
              /\ Position(mem'[s]) \in {Position(mem[s]), Position(disk[s])}
              /\ Position(disk'[s]) \in {Position(mem[s]), Position(disk[s])}
    PROVE  CoveredOrMissed'
<1> SUFFICES ASSUME NEW s \in Sources, NEW cursor \in {mem'[s], disk'[s]},
                    NEW c \in BehindCursor(s, Position(cursor))'
             PROVE  Covered(c)' \/ c \in missed'
  BY DEF CoveredOrMissed
<1>1. PICK old \in {mem[s], disk[s]} : Position(cursor) = Position(old)
  OBVIOUS
<1>2. c \in BehindCursor(s, Position(old))
  BY <1>1 DEF BehindCursor
<1>3. Covered(c) \/ c \in missed
  BY <1>2 DEF CoveredOrMissed
<1> QED
  BY <1>3 DEF Covered

\* Positions are LSNs or NoLsn.
LEMMA PositionType ==
    ASSUME NEW c \in Cursor
    PROVE  /\ Position(c) \in Nat
           /\ \A id, l \in Nat : Position(Acknowledged(c, id, l)) = l
           /\ \A id, l \in Nat : c.acked # NoLsn =>
                /\ Position(Pending(c, id, l)) = Position(c)
                /\ Pending(c, id, l).acked = c.acked
<1>1. Position(c) \in Nat /\ \A id, l \in Nat : Position(Acknowledged(c, id, l)) = l
  BY DEF Cursor, Position, Acknowledged, NoLsn
<1>2. ASSUME NEW id \in Nat, NEW l \in Nat, c.acked # NoLsn
      PROVE  Position(Pending(c, id, l)) = Position(c) /\ Pending(c, id, l).acked = c.acked
  <2>1. c # NoCursor
    BY <1>2 DEF NoCursor
  <2>2. Pending(c, id, l).acked = c.acked
    BY DEF Pending, Cursor
  <2> QED
    BY <1>2, <2>2 DEF Position
<1> QED
  BY <1>1, <1>2

\* Without a batch in flight the client has no stream.
LEMMA NoStreams == ASSUME CInv, pc # "wait" PROVE streams = {}
  BY DEF CInv, StreamsOK

\* Steps that leave streams empty and the client out of a poll.
LEMMA Quiescent ==
    ASSUME streams' = {}, pc' \notin {"read", "send", "wait"}
    PROVE  PolledOK' /\ StreamsOK'
  BY DEF PolledOK, StreamsOK

LEMMA CoveredAwaits == CInv => KInv
  BY DEF CInv, KInv, StreamsOK, AwaitedOK, TInv, ServerOK

\* Where the cursor moves forward, to an LSN in the source's log, the file follows.
LEMMA AdvanceCursorForward ==
    ASSUME KInv, NEW id \in Nat, NEW l \in Nat, AdvanceCursor(id, l),
           Position(mem[src]) <= l, l <= maxLsn[src], UNCHANGED sourceVars
    PROVE  /\ CursorsOK'
           /\ \A s \in Sources : Position(disk[s]) <= Position(disk'[s])
           /\ Position(mem'[src]) = l /\ \A s \in Sources : s # src => mem'[s] = mem[s]
<1> USE SrcType DEF KInv, TInv
<1>1. src \in Sources /\ mem \in [Sources -> Cursor] /\ disk \in [Sources -> Cursor]
  BY DEF StoreOK
<1>2. /\ mem' = [mem EXCEPT ![src] = Acknowledged(mem[src], id, l)]
      /\ disk' = mem' \/ disk' = disk
  BY <1>1 DEF AdvanceCursor, UpdateCursor, Persisted, PersistError
<1>3. Position(mem'[src]) = l /\ mem'[src].acked = l
  BY <1>1, <1>2, PositionType DEF Acknowledged
<1>4. \A s \in Sources : s # src => mem'[s] = mem[s]
  BY <1>1, <1>2
<1>5. l # NoLsn
  <2>1. Position(mem[src]) = mem[src].acked /\ mem[src].acked \in Nat \ {NoLsn}
    BY <1>1 DEF CursorsOK, Position, Cursor
  <2> QED
    BY <2>1 DEF NoLsn
<1>6. \A s \in Sources : /\ Position(disk[s]) \in Nat
                        /\ Position(mem[s]) \in Nat
                        /\ Position(mem'[s]) \in Nat
  BY <1>1, <1>3, <1>4, PositionType
<1>7. ASSUME NEW s \in Sources
      PROVE  /\ mem'[s].acked # NoLsn /\ disk'[s].acked # NoLsn
             /\ Position(disk'[s]) <= Position(mem'[s])
             /\ Position(mem'[s]) <= maxLsn'[s]
             /\ Position(disk[s]) <= Position(disk'[s])
  <2>1. /\ mem[s].acked # NoLsn /\ disk[s].acked # NoLsn
        /\ Position(disk[s]) <= Position(mem[s])
        /\ Position(mem[s]) <= maxLsn[s] /\ maxLsn[s] \in Nat /\ maxLsn' = maxLsn
    BY DEF CursorsOK, LogOK, sourceVars
  <2>2. /\ mem'[s].acked # NoLsn
        /\ Position(mem[s]) <= Position(mem'[s])
        /\ Position(mem'[s]) <= maxLsn'[s]
    <3>1. CASE s = src
      BY <1>3, <1>5, <2>1, <3>1
    <3>2. CASE s # src
      BY <1>4, <1>6, <2>1, <3>2
    <3> QED
      BY <3>1, <3>2
  <2>3. CASE disk' = mem'
    BY <1>6, <2>1, <2>2, <2>3
  <2>4. CASE disk' = disk
    BY <1>6, <2>1, <2>2, <2>4
  <2> QED
    BY <1>2, <2>2, <2>3, <2>4
<1> QED
  BY <1>3, <1>4, <1>7 DEF CursorsOK

\* It may do so if the effective changes of tracked tables in the batch are applied.
LEMMA AdvanceCursorCovers ==
    ASSUME CInv, NEW id \in Nat, NEW l \in Nat, AdvanceCursor(id, l),
           Position(mem[src]) <= l, l <= maxLsn[src],
           \A c \in poll.batch : Relevant(c) => Covered(c),
           UNCHANGED <<sourceVars, target>>
    PROVE  CoveredOrMissed'
<1> USE SrcType DEF CInv, TInv
<1>1. src \in Sources /\ mem \in [Sources -> Cursor]
  BY DEF StoreOK
<1>2. missed' = missed \union SteppedOver(src, l) /\ (disk' = mem' \/ disk' = disk)
  BY DEF AdvanceCursor, Persisted, PersistError
<1>3. Position(mem'[src]) = l /\ \A s \in Sources : s # src => mem'[s] = mem[s]
  BY CoveredAwaits, AdvanceCursorForward
<1>4. \A s \in Sources : Position(mem[s]) \in Nat
  BY <1>1, PositionType
<1>5. ASSUME NEW s \in Sources, NEW c \in captured, Relevant(c), SourceOf[c.tab] = s,
             c.lsn <= Position(mem'[s])
      PROVE  Covered(c) \/ c \in missed'
  <2>1. c.lsn \in Nat
    BY DEF LogOK, Change, Lsn
  <2>2. CASE c.lsn <= Position(mem[s])
    BY <1>2, <1>5, <2>2 DEF CoveredOrMissed, BehindCursor
  <2>3. CASE ~(c.lsn <= Position(mem[s]))
    <3>1. s = src /\ c.lsn <= l /\ Position(mem[src]) < c.lsn
      BY <1>3, <1>4, <1>5, <2>1, <2>3
    <3>2. CASE c \in poll.batch
      BY <1>5, <3>2
    <3>3. CASE c \notin poll.batch
      BY <1>2, <1>5, <3>1, <3>3 DEF SteppedOver
    <3> QED
      BY <3>2, <3>3
  <2> QED
    BY <2>2, <2>3
<1>6. CoveredOrMissed'
  <2> SUFFICES ASSUME NEW s \in Sources, NEW cursor \in {mem'[s], disk'[s]},
                      NEW c \in BehindCursor(s, Position(cursor))'
               PROVE  Covered(c) \/ c \in missed'
    BY DEF CoveredOrMissed, Covered
  <2>1. c \in captured /\ Relevant(c) /\ SourceOf[c.tab] = s /\ c.lsn <= Position(cursor)
    BY DEF BehindCursor, sourceVars, Relevant, Effective
  <2>2. CASE cursor = mem'[s]
    BY <1>5, <2>1, <2>2
  <2>3. CASE cursor = disk[s]
    <3>1. Covered(c) \/ c \in missed
      BY <2>1, <2>3 DEF CoveredOrMissed, BehindCursor
    <3> QED
      BY <3>1, <1>2
  <2> QED
    BY <1>2, <2>2, <2>3
<1> QED
  BY <1>6

\* The poll's range and its batch lie between the cursor and the end of the log.
LEMMA PollBounds ==
    ASSUME KInv, pc \in {"read", "wait"}
    PROVE  /\ poll.max \in Nat /\ Position(mem[src]) <= poll.max /\ poll.max <= maxLsn[src]
           /\ \A c \in poll.batch : /\ c.lsn \in Nat /\ Position(mem[src]) <= c.lsn
                                    /\ c.lsn <= maxLsn[src]
<1> USE DEF KInv
<1>1. /\ poll \in Poll /\ maxLsn[src] \in Nat /\ Position(mem[src]) \in Nat
  BY SrcType, PositionType DEF TInv, StoreOK, PollOK, LogOK
<1>2. ASSUME NEW c \in poll.batch
      PROVE  c.lsn \in Nat /\ Position(mem[src]) <= c.lsn /\ c.lsn <= maxLsn[src]
  <2>1. SourceOf[c.tab] = src /\ Position(mem[src]) + 1 <= c.lsn
    BY DEF PolledOK
  <2>2. c.lsn <= maxLsn[SourceOf[c.tab]] /\ c.lsn \in Nat
    BY DEF TInv, PollOK, LogOK, Change, Lsn
  <2> QED
    BY <1>1, <2>1, <2>2
<1> QED
  BY <1>1, <1>2 DEF PolledOK, Poll

\* With late handlers too the client moves its cursor forward only.
LEMMA CursorMovesForward ==
    ASSUME KInv, NoChanges \/ LocalSkip \/ \E st \in streams : Connected(st) /\ RecvAckOK(st)
    PROVE  /\ CursorsOK'
           /\ \A s \in Sources : Position(disk[s]) <= Position(disk'[s])
           /\ NextSource \/ CycleFails
<1> USE DEF KInv
<1>1. PICK id \in Nat, l \in Nat : /\ AdvanceCursor(id, l) /\ UNCHANGED sourceVars
                                 /\ Position(mem[src]) <= l /\ l <= maxLsn[src]
  <2>1. CASE NoChanges
    BY <2>1, PollBounds DEF NoChanges, Polled
  <2>2. CASE LocalSkip
    <3>1. pc = "read" /\ AdvanceCursor(0, poll.last) /\ UNCHANGED sourceVars
      BY <2>2 DEF LocalSkip, Polled
    <3>2. PICK c \in poll.batch : c.lsn = poll.last
      BY <2>2, <3>1 DEF LocalSkip, PolledOK
    <3> QED
      BY <3>1, <3>2, PollBounds
  <2>3. CASE \E st \in streams : Connected(st) /\ RecvAckOK(st)
    <3>1. PICK st \in streams : Connected(st) /\ RecvAckOK(st)
      BY <2>3
    <3>2. /\ pc = "wait" /\ AdvanceCursor(batchId, poll.lastValid) /\ UNCHANGED sourceVars
      BY <3>1 DEF RecvAckOK, AwaitedOK, Connected
    <3>3. PICK c \in poll.batch : c.lsn = poll.lastValid
      BY <3>2 DEF PolledOK, ValidChanges
    <3>4. batchId \in Nat
      BY DEF TInv, ServerOK
    <3> QED
      BY <3>2, <3>3, <3>4, PollBounds
  <2> QED
    BY <2>1, <2>2, <2>3
<1> QED
  BY <1>1, AdvanceCursorForward DEF AdvanceCursor

\* Wherever the client moves its cursor, it moves forward, not beyond the log,
\* to the end of the poll or to one of its changes, and over a batch whose
\* changes are applied.
LEMMA CursorMoves ==
    ASSUME CInv, NoChanges \/ LocalSkip \/ \E st \in streams : RecvAckOK(st)
    PROVE  \E id, l \in Nat :
              /\ AdvanceCursor(id, l)
              /\ Position(mem[src]) <= l /\ l <= maxLsn[src]
              /\ l = poll.max \/ \E c \in poll.batch : c.lsn = l
              /\ pc = "wait" \/ Polled
              /\ \A c \in poll.batch : Relevant(c) => Covered(c)
              /\ UNCHANGED <<sourceVars, target>>
<1> USE DEF CInv
<1>1. pc \in {"read", "wait"}
  BY DEF NoChanges, LocalSkip, Polled, StreamsOK
<1>2. /\ poll.max \in Nat /\ Position(mem[src]) <= poll.max /\ poll.max <= maxLsn[src]
      /\ \A c \in poll.batch : /\ c.lsn \in Nat /\ Position(mem[src]) <= c.lsn
                               /\ c.lsn <= maxLsn[src]
  BY <1>1, CoveredAwaits, PollBounds
<1>3. CASE NoChanges
  <2>1. pc = "read" /\ poll.batch = {} /\ AdvanceCursor(0, poll.max)
    BY <1>3 DEF NoChanges, Polled
  <2> QED
    BY <1>2, <1>3, <2>1 DEF NoChanges
<1>4. CASE LocalSkip
  <2>1. /\ pc = "read" /\ poll.batch # {} /\ ValidChanges = {}
        /\ AdvanceCursor(0, poll.last)
    BY <1>4 DEF LocalSkip, Polled
  <2>2. PICK c \in poll.batch : c.lsn = poll.last
    BY <2>1 DEF PolledOK
  <2>3. \A d \in poll.batch : ~Relevant(d)
    BY <2>1 DEF ValidChanges, Relevant
  <2>4. Polled /\ UNCHANGED <<sourceVars, target>>
    BY <1>4 DEF LocalSkip
  <2> QED
    BY <1>2, <2>1, <2>2, <2>3, <2>4
<1>5. CASE \E st \in streams : RecvAckOK(st)
  <2>1. PICK st \in streams : RecvAckOK(st)
    BY <1>5
  <2>2. /\ st.phase = "OK" /\ AdvanceCursor(batchId, st.lsn)
        /\ UNCHANGED <<sourceVars, target>>
    BY <2>1 DEF RecvAckOK
  <2>3. /\ pc = "wait" /\ st.rows = ValidChanges /\ st.lsn = poll.lastValid
        /\ \A c \in ValidChanges : Effective(c) => Covered(c)
    BY <2>2 DEF StreamsOK
  <2>4. PICK c \in ValidChanges : c.lsn = st.lsn
    BY <2>3 DEF PolledOK
  <2>5. c \in poll.batch /\ batchId \in Nat
    BY DEF ValidChanges, TInv, ServerOK
  <2>6. \A d \in poll.batch : Relevant(d) => Covered(d)
    BY <2>3 DEF ValidChanges, Relevant
  <2> QED
    BY <1>2, <2>2, <2>3, <2>4, <2>5, <2>6
<1> QED
  BY <1>3, <1>4, <1>5

\* So what it passes is covered.
LEMMA CursorMovesCovers ==
    ASSUME CInv, NoChanges \/ LocalSkip \/ \E st \in streams : RecvAckOK(st)
    PROVE  /\ CoveredOrMissed'
           /\ NextSource \/ CycleFails
<1>1. PICK id \in Nat, l \in Nat :
              /\ AdvanceCursor(id, l)
              /\ Position(mem[src]) <= l /\ l <= maxLsn[src]
              /\ \A c \in poll.batch : Relevant(c) => Covered(c)
              /\ UNCHANGED <<sourceVars, target>>
  BY CursorMoves
<1> QED
  BY <1>1, AdvanceCursorCovers DEF AdvanceCursor

\* A committed batch keeps what is behind the cursors covered: its changes come
\* after the cursor of their source, and other sources have other tables.
LEMMA ApplyKeepsCoverage ==
    ASSUME CInv, NEW st \in streams, ApplyChanges(st.rows),
           UNCHANGED <<captured, mem, disk, missed>>
    PROVE  /\ CoveredOrMissed'
           /\ \A c \in st.rows : Effective(c) => Covered(c)'
<1> USE SrcType DEF CInv, TInv
<1>1. /\ pc = "wait" /\ st.rows = ValidChanges /\ st.rows \subseteq poll.batch
      /\ st.rows \subseteq captured
  BY DEF StreamsOK, ServerOK, ValidChanges
<1>2. \A s \in Sources : /\ Position(disk[s]) \in Nat /\ Position(mem[s]) \in Nat
                        /\ Position(disk[s]) <= Position(mem[s])
  BY PositionType DEF StoreOK, CursorsOK
<1>3. \A d \in st.rows : SourceOf[d.tab] = src /\ Position(mem[src]) + 1 <= d.lsn
  BY <1>1 DEF PolledOK
<1>4. ASSUME NEW s \in Sources, NEW cursor \in {mem[s], disk[s]},
             NEW c \in BehindCursor(s, Position(cursor)), Covered(c)
      PROVE  Covered(c)'
  <2>1. c \in captured /\ SourceOf[c.tab] = s /\ c.lsn <= Position(cursor)
    BY DEF BehindCursor
  <2>2. c.lsn \in Nat /\ c.lsn <= Position(mem[s])
    BY <2>1, <1>2 DEF LogOK, Change, Lsn
  <2>3. ASSUME NEW d \in st.rows, d.tab = c.tab PROVE c.lsn < d.lsn
    <3>1. d.lsn \in Nat
      BY <1>1 DEF LogOK, Change, Lsn
    <3> QED
      BY <1>2, <1>3, <2>1, <2>2, <2>3, <3>1
  <2> QED
    BY <1>1, <1>4, <2>1, <2>3, ApplyKeeps
<1>5. CoveredOrMissed'
  <2> SUFFICES ASSUME NEW s \in Sources, NEW cursor \in {mem[s], disk[s]},
                      NEW c \in BehindCursor(s, Position(cursor))
               PROVE  Covered(c)' \/ c \in missed
    BY DEF CoveredOrMissed, BehindCursor
  <2> QED
    BY <1>4 DEF CoveredOrMissed
<1>6. \A c \in st.rows : Effective(c) => Covered(c)'
  BY <1>1, ApplyCovers
<1> QED
  BY <1>5, <1>6

\* Reading a table keeps the poll between the cursor and the end of the log.
LEMMA ReadTablePolled ==
    ASSUME KInv, pc = "read", NEW t \in poll.todo,
           NEW T, T \subseteq Window(t, poll.start), CollectTable(t, T),
           UNCHANGED <<sourceVars, storeVars, clientVars>>
    PROVE  PolledOK'
<1> USE DEF KInv, TInv
<1>1. poll \in Poll /\ src \in Sources
  BY SrcType DEF PollOK
<1>2. /\ poll.start = Position(mem[src]) + 1
      /\ Position(mem[src]) <= poll.max /\ poll.max <= maxLsn[src]
      /\ poll.todo \subseteq TablesOf(src)
      /\ \A c \in poll.batch : SourceOf[c.tab] = src /\ poll.start <= c.lsn
      /\ poll.batch # {} => \E c \in poll.batch : c.lsn = poll.last
      /\ ValidChanges # {} => \E c \in ValidChanges : c.lsn = poll.lastValid
  BY DEF PolledOK
<1>3. T \subseteq captured /\ \A c \in T : c.tab = t
  BY DEF Window
<1>4. \A c \in T : SourceOf[c.tab] = src /\ poll.start <= c.lsn
  <2> SUFFICES ASSUME NEW c \in T PROVE SourceOf[c.tab] = src /\ poll.start <= c.lsn
    OBVIOUS
  <2>1. SourceOf[t] = src /\ t \in Tables
    BY <1>2 DEF TablesOf
  <2>2. c.lsn \in Nat /\ minLsn[t] \in Nat /\ poll.start \in Nat
    BY <1>1, <1>3, <2>1 DEF LogOK, Change, Lsn, Poll
  <2>3. c.lsn >= EffectiveLsn(t, poll.start)
    BY DEF Window
  <2> QED
    BY <1>3, <2>1, <2>2, <2>3 DEF EffectiveLsn
<1>5. T # {} => \E c \in T : c.lsn = GreatestLsn(T)
  BY <1>3, LastCaptured DEF GreatestLsn
<1>6. /\ poll'.start = poll.start /\ poll'.max = poll.max
      /\ poll'.batch = poll.batch \union T
      /\ poll'.todo \subseteq poll.todo
      /\ poll'.last = IF T = {} THEN poll.last ELSE GreatestLsn(T)
      /\ poll'.lastValid = IF T = {} \/ t \notin Tracked THEN poll.lastValid
                          ELSE GreatestLsn(T)
  BY <1>1 DEF CollectTable, Poll, TablesAfter
<1>7. UNCHANGED <<src, mem, maxLsn, pc>>
  BY DEF sourceVars, storeVars, clientVars, src
<1>8. TablesOf(src)' = TablesOf(src)
  BY <1>7 DEF TablesOf
<1>9. poll'.batch # {} => \E c \in poll'.batch : c.lsn = poll'.last
  BY <1>2, <1>5, <1>6
<1>10. ValidChanges' # {} => \E c \in ValidChanges' : c.lsn = poll'.lastValid
  <2>1. ValidChanges' = ValidChanges \union {c \in T : c.tab \in Tracked}
    BY <1>6 DEF ValidChanges
  <2>2. CASE T # {} /\ t \in Tracked
    BY <1>3, <1>5, <1>6, <2>1, <2>2
  <2>3. CASE T = {} \/ t \notin Tracked
    <3>1. ValidChanges' = ValidChanges
      BY <1>3, <2>1, <2>3
    <3> QED
      BY <1>2, <1>6, <2>3, <3>1
  <2> QED
    BY <2>2, <2>3
<1> QED
  BY <1>2, <1>4, <1>6, <1>7, <1>8, <1>9, <1>10 DEF PolledOK

\* A commit only adds changes newer than its source's log.
LEMMA CommitExtends ==
    ASSUME LogOK, NEW s \in Sources, CommitTransaction(s)
    PROVE  /\ \A r \in Sources : maxLsn[r] <= maxLsn'[r]
           /\ \A c \in captured' \ captured : maxLsn[SourceOf[c.tab]] < c.lsn
<1>1. PICK tx \in Transactions :
        /\ \A x \in tx : SourceOf[x.tab] = s
        /\ captured' = captured \union ChangesOf(tx, maxLsn[s] + 1)
  BY DEF CommitTransaction
<1>2. maxLsn' = [maxLsn EXCEPT ![s] = maxLsn[s] + 1] /\ maxLsn \in [Sources -> Nat]
  BY DEF CommitTransaction, LogOK
<1>3. \A c \in ChangesOf(tx, maxLsn[s] + 1) : c.lsn = maxLsn[s] + 1 /\ SourceOf[c.tab] = s
  BY <1>1 DEF ChangesOf
<1> QED
  BY <1>1, <1>2, <1>3

\* Initially nothing is captured and the cursors are at the end of the log.
LEMMA KInvInit == CursorsKept /\ Init => KInv
<1> SUFFICES ASSUME CursorsKept, Init PROVE KInv
  OBVIOUS
<1>1. TInv
  BY TInvInit
<1>2. \A s \in Sources : /\ mem[s] = [processed |-> 1, acked |-> 1, pending |-> {}]
                        /\ disk[s] = mem[s] /\ maxLsn[s] = 1
  BY DEF Init, CursorsKept
<1>3. CursorsOK
  BY <1>2 DEF CursorsOK, Position, NoLsn
<1>4. PolledOK /\ AwaitedOK
  BY DEF Init, PolledOK, AwaitedOK
<1> QED
  BY <1>1, <1>3, <1>4 DEF KInv

LEMMA CInvInit == Ordinary /\ Init => CInv
<1> SUFFICES ASSUME Ordinary, Init PROVE CInv
  OBVIOUS
<1>1. KInv
  BY KInvInit DEF Ordinary
<1>2. StreamsOK /\ CoveredOrMissed
  BY DEF Init, StreamsOK, CoveredOrMissed, BehindCursor
<1> QED
  BY <1>1, <1>2 DEF CInv, KInv

\* Between two attempts it does not matter which streams are left.
LEMMA AttemptOver ==
    ASSUME AwaitedOK, streams' \subseteq streams, UNCHANGED batchId,
           pc' \notin {"send", "wait"}
    PROVE  AwaitedOK' /\ (pc' # "read" => PolledOK')
  BY DEF AwaitedOK, PolledOK, Connected

\* Recording a batch moves no cursor that was acknowledged before.
LEMMA PendingMovesNothing ==
    ASSUME KInv, RecordBatch
    PROVE  /\ \A s \in Sources : /\ Position(mem'[s]) = Position(mem[s])
                                 /\ mem'[s].acked = mem[s].acked
                                 /\ Position(disk'[s]) \in {Position(mem[s]), Position(disk[s])}
                                 /\ disk'[s].acked \in {mem[s].acked, disk[s].acked}
           /\ CursorsOK'
<1> USE SrcType DEF KInv
<1>1. /\ mem' = [mem EXCEPT ![src] = Pending(mem[src], batchId + 1, poll.last)]
      /\ disk' = mem' \/ disk' = disk
      /\ UNCHANGED sourceVars
  BY DEF RecordBatch, RecordPendingBatch, Persisted, PersistError
<1>2. /\ batchId + 1 \in Nat /\ poll.last \in Nat /\ src \in Sources
      /\ mem \in [Sources -> Cursor] /\ disk \in [Sources -> Cursor]
  BY DEF TInv, ServerOK, StoreOK, PollOK, Poll
<1>3. /\ Position(Pending(mem[src], batchId + 1, poll.last)) = Position(mem[src])
      /\ Pending(mem[src], batchId + 1, poll.last).acked = mem[src].acked
  BY <1>2, PositionType DEF CursorsOK
<1>4. \A s \in Sources : /\ Position(mem'[s]) = Position(mem[s])
                        /\ mem'[s].acked = mem[s].acked
  BY <1>1, <1>2, <1>3
<1>5. \A s \in Sources : /\ Position(disk'[s]) \in {Position(mem[s]), Position(disk[s])}
                        /\ disk'[s].acked \in {mem[s].acked, disk[s].acked}
  BY <1>1, <1>4
<1>6. \A s \in Sources : Position(mem[s]) \in Nat /\ Position(disk[s]) \in Nat
  BY <1>2, PositionType
<1>7. CursorsOK'
  BY <1>1, <1>4, <1>5, <1>6 DEF CursorsOK, sourceVars
<1> QED
  BY <1>4, <1>5, <1>7

\* Every step keeps what is known of the cursors, with late handlers as well.
LEMMA KInvNext == CursorsKept /\ KInv /\ [Next]_vars => KInv'
<1> SUFFICES ASSUME CursorsKept, KInv, [Next]_vars PROVE KInv'
  OBVIOUS
<1> USE DEF KInv
<1>t. TInv'
  BY TInvNext
<1>s. /\ src \in Sources /\ poll \in Poll /\ batchId \in Nat
      /\ mem \in [Sources -> Cursor] /\ disk \in [Sources -> Cursor]
      /\ Position(mem[src]) \in Nat /\ maxLsn[src] \in Nat
      /\ \A st \in streams : st \in Stream /\ st.id \in Nat
  BY SrcType, PositionType DEF TInv, StoreOK, PollOK, LogOK, ServerOK, Stream
<1>k. ASSUME UNCHANGED <<maxLsn, storeVars>> PROVE CursorsOK'
  BY <1>k DEF CursorsOK, storeVars
<1>f. NextSource \/ CycleEnds \/ CycleFails => pc' \notin {"read", "send", "wait"}
  BY DEF NextSource, CycleEnds, CycleFails
<1>1. CASE HealthCheckOK \/ PollFails \/ Reconnect
  <2>1. /\ UNCHANGED <<sourceVars, storeVars, batchId, streams>>
        /\ pc' \notin {"read", "send", "wait"}
    BY <1>1, <1>f DEF HealthCheckOK, PollFails, Reconnect
  <2> QED
    BY <1>t, <1>k, <2>1, AttemptOver DEF sourceVars
<1>2. CASE PollStart
  <2>1. UNCHANGED <<sourceVars, maxLsn, storeVars, mem, batchId, streams>>
    BY <1>2 DEF PollStart, sourceVars, storeVars
  <2>2. CASE maxLsn[src] = NoLsn
    <3>1. pc' \notin {"read", "send", "wait"}
      BY <1>2, <1>f, <2>2 DEF PollStart
    <3> QED
      BY <1>t, <1>k, <2>1, <3>1, AttemptOver
  <2>3. CASE maxLsn[src] # NoLsn
    <3>1. BeginPoll(src, Position(mem[src])) /\ pc' = "read" /\ UNCHANGED cur
      BY <1>2, <2>3 DEF PollStart
    <3>2. Position(mem[src]) # NoLsn /\ Position(mem[src]) <= maxLsn[src]
      BY <1>s DEF CursorsOK, Position
    <3>3. /\ poll'.start = Position(mem[src]) + 1 /\ poll'.max = maxLsn[src]
          /\ poll'.todo = TablesOf(src) /\ poll'.batch = {}
      BY <3>1, <3>2 DEF BeginPoll, StartLsn, NextLsn, NoPoll
    <3>4. PolledOK'
      BY <1>s, <2>1, <3>1, <3>2, <3>3 DEF PolledOK, ValidChanges, src, TablesOf
    <3> QED
      BY <1>t, <1>k, <2>1, <3>1, <3>4, AttemptOver
  <2> QED
    BY <2>2, <2>3
<1>3. CASE ReadTable
  <2>1. PICK t \in poll.todo : \E T \in SUBSET Window(t, poll.start) : CollectTable(t, T)
    BY <1>3 DEF ReadTable, readTableChanges, readTableChangesFails, TopRows
  <2>2. pc = "read" /\ UNCHANGED <<sourceVars, storeVars, clientVars, streams>>
    BY <1>3 DEF ReadTable
  <2>3. PolledOK'
    BY <2>1, <2>2, ReadTablePolled
  <2>4. AwaitedOK'
    BY <2>2, AttemptOver DEF clientVars
  <2> QED
    BY <1>t, <1>k, <2>2, <2>3, <2>4 DEF sourceVars
<1>4. CASE NoChanges \/ LocalSkip
  <2>1. CursorsOK' /\ pc' \notin {"read", "send", "wait"} /\ UNCHANGED <<streams, batchId>>
    BY <1>4, <1>f, CursorMovesForward DEF NoChanges, LocalSkip
  <2> QED
    BY <1>t, <2>1, AttemptOver
<1>5. CASE RecordBatch
  <2>1. /\ pc = "read" /\ ValidChanges # {} /\ batchId' = batchId + 1
        /\ UNCHANGED <<sourceVars, streams>>
    BY <1>5 DEF RecordBatch, Polled
  <2>2. CursorsOK' /\ \A s \in Sources : Position(mem'[s]) = Position(mem[s])
    BY <1>5, PendingMovesNothing
  <2>3. \A st \in streams' : st.id <= batchId' /\ st.id # batchId'
    BY <1>s, <2>1 DEF AwaitedOK
  <2>4. CASE pc' = "send" /\ UNCHANGED <<poll, cur>>
    <3>1. UNCHANGED <<src, maxLsn>> /\ ValidChanges' = ValidChanges
      BY <2>1, <2>4 DEF src, sourceVars, ValidChanges
    <3>2. PolledOK'
      BY <1>s, <2>1, <2>2, <2>4, <3>1 DEF PolledOK, TablesOf
    <3>3. AwaitedOK'
      BY <2>3, <2>4 DEF AwaitedOK, Connected
    <3> QED
      BY <1>t, <2>2, <3>2, <3>3
  <2>5. CASE CycleFails
    <3>1. PolledOK' /\ AwaitedOK'
      BY <1>f, <2>3, <2>5 DEF PolledOK, AwaitedOK, Connected
    <3> QED
      BY <1>t, <2>2, <3>1
  <2> QED
    BY <1>5, <2>4, <2>5 DEF RecordBatch
<1>6. CASE SendBatch
  <2> DEFINE new == [id |-> batchId, rows |-> ValidChanges,
                     lsn |-> poll.lastValid, phase |-> "sent"]
  <2>1. /\ pc = "send" /\ pc' = "wait" /\ streams' = streams \union {new}
        /\ UNCHANGED <<sourceVars, storeVars, poll, cur, batchId>>
    BY <1>6 DEF SendBatch
  <2>2. new.id = batchId /\ new.lsn = poll.lastValid
    OBVIOUS
  <2> HIDE DEF new
  <2>3. UNCHANGED <<src, maxLsn, mem>> /\ ValidChanges' = ValidChanges
    BY <2>1 DEF src, sourceVars, storeVars, ValidChanges
  <2>4. PolledOK'
    BY <2>1, <2>3 DEF PolledOK, TablesOf
  <2>5. AwaitedOK'
    BY <1>s, <2>1, <2>2 DEF AwaitedOK, Connected
  <2> QED
    BY <1>t, <1>k, <2>1, <2>3, <2>4, <2>5
<1>7. CASE StreamBatchFails \/ Crash
  <2>1. /\ pc' \notin {"read", "send", "wait"} /\ streams' \subseteq streams
        /\ UNCHANGED <<sourceVars, storeVars, batchId>>
    BY <1>7, <1>f DEF StreamBatchFails, Crash, ClientDies, Abandon, storeVars
  <2> QED
    BY <1>t, <1>k, <2>1, AttemptOver DEF sourceVars
<1>8. CASE RecvAck
  <2>1. PICK st \in streams :
          /\ Connected(st) /\ streams' = streams \ {st}
          /\ RecvAckOK(st) \/ RecvAckRetry(st) \/ RecvAckError(st)
    BY <1>8 DEF RecvAck
  <2>2. CASE RecvAckOK(st)
    <3>1. CursorsOK' /\ pc' \notin {"read", "send", "wait"} /\ UNCHANGED batchId
      BY <1>f, <2>1, <2>2, CursorMovesForward DEF RecvAckOK
    <3> QED
      BY <1>t, <2>1, <3>1, AttemptOver
  <2>3. CASE RecvAckRetry(st) \/ RecvAckError(st)
    <3>1. /\ UNCHANGED <<sourceVars, storeVars, batchId>> /\ pc' \notin {"read", "send", "wait"}
      BY <1>f, <2>3 DEF RecvAckRetry, RecvAckError
    <3> QED
      BY <1>t, <1>k, <2>1, <3>1, AttemptOver DEF sourceVars
  <2> QED
    BY <2>1, <2>2, <2>3
<1>9. CASE PowerLoss
  BY <1>9 DEF PowerLoss, Disturb, CursorsKept
<1>10. CASE Restart
  <2>1. /\ pc' = "startup" /\ mem' = disk /\ disk' = disk
        /\ UNCHANGED <<sourceVars, streams, batchId>>
    BY <1>10 DEF Restart, LoadState
  <2>2. \A s \in Sources : Position(mem[s]) \in Nat /\ Position(disk[s]) \in Nat
    BY <1>s, PositionType
  <2>3. CursorsOK'
    BY <2>1, <2>2 DEF CursorsOK, sourceVars, TInv, LogOK
  <2> QED
    BY <1>t, <2>1, <2>3, AttemptOver
<1>11. CASE ServerStep \/ ServerRestart
  <2>1. UNCHANGED <<sourceVars, storeVars, poll, clientVars, maxLsn, mem, pc, cur, batchId, src>>
    BY <1>11 DEF ServerStep, ServerRestart, serverUnchanged, sourceVars, storeVars, clientVars, src
  <2>2. CursorsOK' /\ PolledOK'
    BY <1>k, <2>1 DEF PolledOK, TablesOf, ValidChanges
  <2>3. \A x \in streams' : \E st \in streams : x.id = st.id /\ x.lsn = st.lsn
    <3>1. CASE ServerRestart
      BY <3>1 DEF ServerRestart
    <3>2. CASE ServerStep
      <4>1. PICK st \in streams :
              \/ \E status \in {"OK", "RETRY", "FAILED"} \union ErrorAcks : Answer(st, status)
              \/ streams' = streams \ {st}
        BY <3>2 DEF ServerStep, ProcessBatch, ProcessBatchFails, CommitUnknown, HandlerCancelled
      <4>2. \A status : /\ [st EXCEPT !.phase = status].id = st.id
                        /\ [st EXCEPT !.phase = status].lsn = st.lsn
        BY <1>s DEF Stream
      <4> QED
        BY <4>1, <4>2 DEF Answer
    <3> QED
      BY <1>11, <3>1, <3>2
  <2>4. AwaitedOK'
    BY <2>1, <2>3 DEF AwaitedOK, Connected
  <2> QED
    BY <1>t, <2>2, <2>4
<1>12. CASE SourceStep
  <2>1. UNCHANGED <<storeVars, poll, clientVars, streams, mem, disk, pc, cur, batchId, src>>
    BY <1>12 DEF SourceStep, storeVars, clientVars, src
  <2>2. \A s \in Sources : maxLsn[s] <= maxLsn'[s]
    BY <1>12, CommitExtends DEF SourceStep, TInv, CleanupChangeTable, LogOK
  <2>3. \A s \in Sources : /\ Position(mem[s]) \in Nat
                          /\ maxLsn[s] \in Nat /\ maxLsn'[s] \in Nat
    BY <1>s, <1>t, PositionType DEF TInv, LogOK
  <2>4. CursorsOK'
    BY <2>1, <2>2, <2>3 DEF CursorsOK
  <2>5. PolledOK'
    BY <1>s, <2>1, <2>2, <2>3 DEF PolledOK, TablesOf, ValidChanges, Poll
  <2>6. AwaitedOK'
    BY <2>1 DEF AwaitedOK, Connected
  <2> QED
    BY <1>t, <2>4, <2>5, <2>6
<1>13. CASE UNCHANGED vars
  BY <1>13, <1>t, <1>k DEF vars, sourceVars, storeVars, clientVars, PolledOK, AwaitedOK,
     Connected, ValidChanges, src, TablesOf
<1> QED
  BY <1>1, <1>2, <1>3, <1>4, <1>5, <1>6, <1>7, <1>8, <1>9, <1>10, <1>11, <1>12, <1>13
     DEF Next, ClientStep

\* Every step keeps the invariant: KInv gives the cursors and the poll, the rest
\* is the stream, its answer and what is covered.
LEMMA CInvNext == Ordinary /\ CInv /\ [Next]_vars => CInv'
<1> SUFFICES ASSUME Ordinary, CInv, [Next]_vars PROVE CInv'
  OBVIOUS
<1> SUFFICES StreamsOK' /\ CoveredOrMissed'
  BY CoveredAwaits, KInvNext DEF CInv, KInv, Ordinary
<1> USE DEF CInv
<1>k. KInv /\ KInv'
  BY CoveredAwaits, KInvNext DEF Ordinary
<1>s. /\ src \in Sources /\ mem \in [Sources -> Cursor] /\ disk \in [Sources -> Cursor]
  BY SrcType DEF TInv, StoreOK
<1>c. ASSUME UNCHANGED <<sourceVars, storeVars, target, missed>> PROVE CoveredOrMissed'
  BY <1>c, CoverageKept DEF sourceVars, storeVars
<1>a. Abandon => streams' = {}
  BY DEF Abandon, Ordinary
<1>e. streams' = {} => StreamsOK'
  BY DEF StreamsOK
<1>1. CASE HealthCheckOK \/ PollStart \/ PollFails \/ ReadTable \/ Reconnect
  <2>1. /\ pc # "wait" /\ UNCHANGED <<sourceVars, storeVars, target, missed, streams>>
    BY <1>1 DEF HealthCheckOK, PollStart, PollFails, ReadTable, Reconnect
  <2> QED
    BY <1>c, <1>e, <2>1, NoStreams
<1>2. CASE NoChanges \/ LocalSkip
  <2>1. streams' = {}
    BY <1>2, NoStreams DEF NoChanges, LocalSkip, Polled
  <2> QED
    BY <1>2, <1>e, <2>1, CursorMovesCovers
<1>3. CASE RecordBatch
  <2>1. pc = "read" /\ UNCHANGED <<sourceVars, streams, target, missed>>
    BY <1>3 DEF RecordBatch, Polled
  <2>2. CoveredOrMissed'
    BY <1>3, <1>k, <2>1, PendingMovesNothing, CoverageKept DEF sourceVars
  <2> QED
    BY <1>e, <2>1, <2>2, NoStreams
<1>4. CASE SendBatch
  <2>1. /\ pc = "send" /\ pc' = "wait"
        /\ UNCHANGED <<sourceVars, storeVars, poll, cur, batchId, target, missed>>
    BY <1>4 DEF SendBatch
  <2>2. streams' = {[id |-> batchId, rows |-> ValidChanges,
                     lsn |-> poll.lastValid, phase |-> "sent"]}
    BY <1>4, <2>1, NoStreams DEF SendBatch
  <2>3. ValidChanges' = ValidChanges
    BY <2>1 DEF ValidChanges
  <2>4. StreamsOK'
    BY <2>1, <2>2, <2>3 DEF StreamsOK
  <2> QED
    BY <1>c, <2>1, <2>4
<1>5. CASE StreamBatchFails
  BY <1>5, <1>a, <1>c, <1>e DEF StreamBatchFails
<1>6. CASE RecvAck
  <2>1. PICK st \in streams :
          /\ streams' = streams \ {st}
          /\ RecvAckOK(st) \/ RecvAckRetry(st) \/ RecvAckError(st)
    BY <1>6 DEF RecvAck
  <2>2. StreamsOK'
    BY <1>e, <2>1 DEF StreamsOK
  <2>3. CASE RecvAckOK(st)
    BY <2>2, <2>3, CursorMovesCovers
  <2>4. CASE RecvAckRetry(st) \/ RecvAckError(st)
    BY <1>c, <2>2, <2>4 DEF RecvAckRetry, RecvAckError
  <2> QED
    BY <2>1, <2>3, <2>4
<1>7. CASE Crash
  <2>1. streams' = {} /\ UNCHANGED <<sourceVars, storeVars, target, missed>>
    BY <1>7, <1>a DEF Crash, ClientDies, storeVars
  <2> QED
    BY <1>c, <1>e, <2>1
<1>8. CASE PowerLoss
  BY <1>8 DEF PowerLoss, Disturb, Ordinary, CursorsKept
<1>9. CASE Restart
  <2>1. /\ pc = "down" /\ mem' = disk /\ disk' = disk
        /\ UNCHANGED <<sourceVars, streams, target, missed>>
    BY <1>9 DEF Restart, LoadState
  <2>2. CoveredOrMissed'
    BY <2>1, CoverageKept DEF sourceVars
  <2> QED
    BY <1>e, <2>1, <2>2, NoStreams
<1>10. CASE ServerStep
  <2>1. PICK st \in streams :
          ProcessBatch(st) \/ ProcessBatchFails(st) \/ CommitUnknown(st) \/ HandlerCancelled(st)
    BY <1>10 DEF ServerStep
  <2>2. /\ UNCHANGED <<sourceVars, storeVars, poll, clientVars, missed>>
        /\ UNCHANGED <<captured, mem, disk, pc, cur, batchId>>
        /\ ValidChanges' = ValidChanges
    BY <1>10 DEF ServerStep, serverUnchanged, sourceVars, storeVars, clientVars, ValidChanges
  <2>3. /\ Connected(st) /\ streams = {st} /\ st.rows = ValidChanges /\ st.lsn = poll.lastValid
        /\ st \in Stream
    BY DEF StreamsOK, Connected, TInv, ServerOK
  <2>4. CASE ProcessBatch(st) \/ CommitUnknown(st)
    <3>1. CoveredOrMissed' /\ \A c \in st.rows : Effective(c) => Covered(c)'
      BY <2>2, <2>4, ApplyKeepsCoverage DEF ProcessBatch, CommitUnknown
    <3>2. PICK status \in {"OK", "RETRY"} \union ErrorAcks : Answer(st, status)
      BY <2>4 DEF ProcessBatch, CommitUnknown, ErrorAcks
    <3>3. streams' = {[st EXCEPT !.phase = status]}
      BY <2>3, <3>2 DEF Answer
    <3>4. StreamsOK'
      BY <2>2, <2>3, <3>1, <3>3 DEF StreamsOK, Connected, Stream, Effective
    <3> QED
      BY <3>1, <3>4
  <2>5. CASE ProcessBatchFails(st)
    <3>1. PICK status \in {"RETRY"} \union ErrorAcks :
            streams' = {[st EXCEPT !.phase = status]}
      BY <2>3, <2>5 DEF ProcessBatchFails, Answer
    <3>2. status # "OK"
      BY DEF ErrorAcks
    <3>3. StreamsOK'
      BY <2>2, <2>3, <3>1, <3>2 DEF StreamsOK, Connected, Stream
    <3> QED
      BY <1>c, <2>2, <2>5, <3>3 DEF ProcessBatchFails
  <2>6. CASE HandlerCancelled(st)
    BY <2>3, <2>6 DEF HandlerCancelled
  <2> QED
    BY <2>1, <2>4, <2>5, <2>6
<1>11. CASE ServerRestart
  BY <1>11, <1>c, <1>e DEF ServerRestart, serverUnchanged
<1>12. CASE SourceStep
  <2>1. /\ UNCHANGED <<storeVars, poll, clientVars, streams, target, missed>>
        /\ UNCHANGED <<mem, disk, pc, batchId>> /\ ValidChanges' = ValidChanges
    BY <1>12 DEF SourceStep, storeVars, clientVars, ValidChanges
  <2>2. \A c \in captured' \ captured : maxLsn[SourceOf[c.tab]] < c.lsn
    BY <1>12, CommitExtends DEF SourceStep, TInv, CleanupChangeTable, LogOK
  <2>3. \A s \in Sources : /\ Position(mem[s]) \in Nat /\ Position(disk[s]) \in Nat
                          /\ maxLsn[s] \in Nat
    BY <1>s, PositionType DEF TInv, LogOK
  <2>4. StreamsOK'
    BY <2>1 DEF StreamsOK, Covered
  <2>5. CoveredOrMissed'
    <3> SUFFICES ASSUME NEW s \in Sources, NEW cursor \in {mem[s], disk[s]},
                        NEW c \in BehindCursor(s, Position(cursor))'
                 PROVE  Covered(c) \/ c \in missed
      BY <2>1 DEF CoveredOrMissed, Covered
    <3>1. /\ c \in captured' /\ Relevant(c) /\ SourceOf[c.tab] = s
          /\ c.lsn <= Position(cursor)
      BY <2>1 DEF BehindCursor, Relevant, Effective
    <3>2. c.lsn \in Nat
      BY <1>k, <3>1 DEF KInv, TInv, LogOK, Change, Lsn
    <3>3. c \in captured
      BY <2>2, <2>3, <3>1, <3>2 DEF CursorsOK
    <3> QED
      BY <3>1, <3>3 DEF CoveredOrMissed, BehindCursor
  <2> QED
    BY <2>4, <2>5
<1>13. CASE UNCHANGED vars
  BY <1>13, <1>c DEF vars, sourceVars, storeVars, clientVars, StreamsOK, ValidChanges, Covered
<1> QED
  BY <1>1, <1>2, <1>3, <1>4, <1>5, <1>6, <1>7, <1>8, <1>9, <1>10, <1>11, <1>12, <1>13
     DEF Next, ClientStep

\* The cursor never passes a change that was sent and not applied, for every
\* number of sources, tables, transactions, batch sizes and faults, if cancelled
\* handlers stop, the state file survives and the client starts with a cursor.
THEOREM CoverageCorrect == Ordinary => (Spec => []CoveredOrMissed)
<1> SUFFICES ASSUME Ordinary PROVE Spec => []CoveredOrMissed
  OBVIOUS
<1>1. Init => CInv
  BY CInvInit
<1>2. CInv /\ [Next]_vars => CInv'
  BY CInvNext
<1>3. CInv => CoveredOrMissed
  BY DEF CInv
<1> QED
  BY <1>1, <1>2, <1>3, PTL DEF Spec

\* The step that moves the state file keeps its cursors or moves them forward.
LEMMA StateFileForward ==
    ASSUME CursorsKept, KInv, Next
    PROVE  \A s \in Sources : Position(disk[s]) <= Position(disk'[s])
<1> USE DEF KInv
<1>1. \A s \in Sources : /\ Position(disk[s]) \in Nat /\ Position(mem[s]) \in Nat
                        /\ Position(disk[s]) <= Position(mem[s])
  BY PositionType DEF TInv, StoreOK, CursorsOK
<1>2. CASE disk' = disk
  BY <1>1, <1>2
<1>3. CASE NoChanges \/ LocalSkip \/ RecvAck
  BY <1>2, <1>3, CursorMovesForward DEF RecvAck, RecvAckRetry, RecvAckError, storeVars
<1>4. CASE RecordBatch
  BY <1>1, <1>4, PendingMovesNothing
<1>5. CASE PowerLoss
  BY <1>5 DEF PowerLoss, Disturb, CursorsKept
<1>6. CASE \/ HealthCheckOK \/ PollStart \/ PollFails \/ ReadTable \/ SendBatch
           \/ StreamBatchFails \/ Reconnect \/ Crash \/ Restart
           \/ ServerStep \/ ServerRestart \/ SourceStep
  <2>1. disk' = disk
    BY <1>6 DEF HealthCheckOK, PollStart, PollFails, ReadTable, SendBatch,
       StreamBatchFails, Reconnect, Crash, ClientDies, Restart, LoadState,
       ServerStep, ServerRestart, serverUnchanged, SourceStep, storeVars
  <2> QED
    BY <1>2, <2>1
<1> QED
  BY <1>3, <1>4, <1>5, <1>6 DEF Next, ClientStep

\* The cursor a restart would load never goes back, unless the state file is lost
\* or there was none: saves, failed saves, crashes, late answers and late
\* handlers in any order.
THEOREM CursorForward == CursorsKept => (Spec => CursorNeverRegresses)
<1> SUFFICES ASSUME CursorsKept PROVE Spec => CursorNeverRegresses
  OBVIOUS
<1>1. Init => KInv
  BY KInvInit
<1>2. KInv /\ [Next]_vars => KInv'
  BY KInvNext
<1>3. KInv /\ [Next]_vars
        => [\A s \in Sources : Position(disk[s]) <= Position(disk'[s])]_vars
  BY StateFileForward
<1> QED
  BY <1>1, <1>2, <1>3, PTL DEF Spec, CursorNeverRegresses
===============================================================================
