----------------------------- MODULE DbSyncProofs -----------------------------
(***************************************************************************)
(* Theorems about DbSync, for every value of its constants.                *)
(***************************************************************************)
EXTENDS DbSyncProperties, TLAPS, WellFoundedInduction

-------------------------------------------------------------------------------
(* Last changes                                                            *)

\* Every set of natural numbers with an element has a least one.
LEMMA LeastNatural ==
    ASSUME NEW T, T \subseteq Nat, T # {}
    PROVE  \E m \in T : \A k \in T : m <= k
<1>1. PICK m \in T : \A k \in T : ~ (<<k, m>> \in OpToRel(<, Nat))
  BY NatLessThanWellFounded, WFMin
<1>2. OpToRel(<, Nat) = {ss \in Nat \X Nat : ss[1] < ss[2]}
  BY DEF OpToRel
<1>3. \A k \in T : m <= k
  <2> SUFFICES ASSUME NEW k \in T, k < m
               PROVE  FALSE
    OBVIOUS
  <2>1. <<k, m>> \in {ss \in Nat \X Nat : ss[1] < ss[2]}
    OBVIOUS
  <2> QED
    BY <2>1, <1>1, <1>2
<1> QED
  BY <1>3

\* A non-empty set of changes of a bounded log has a last change, so that
\* GreatestLsn and the version a batch leaves in a row are defined.
LEMMA LastChangeExists ==
    ASSUME NEW S \in SUBSET Change, S # {}, NEW n \in Nat, \A c \in S : c.lsn <= n
    PROVE  /\ LastChange(S) \in S
           /\ \A d \in S : Before(d, LastChange(S))
<1> USE TypesAssumption DEF TypesAssumption, Change, Lsn, NoLsn
<1>1. PICK m \in {n - c.lsn : c \in S} : \A k \in {n - c.lsn : c \in S} : m <= k
  <2>1. {n - c.lsn : c \in S} \subseteq Nat
    OBVIOUS
  <2>2. {n - c.lsn : c \in S} # {}
    OBVIOUS
  <2> QED
    BY <2>1, <2>2, LeastNatural
<1> DEFINE Newest == {c \in S : n - c.lsn = m}
<1>2. \A d \in S : \A c \in Newest : d.lsn <= c.lsn
  <2> SUFFICES ASSUME NEW d \in S, NEW c \in Newest PROVE d.lsn <= c.lsn
    OBVIOUS
  <2>1. m <= n - d.lsn /\ m = n - c.lsn /\ c \in S
    BY <1>1
  <2>2. c.lsn \in Int /\ d.lsn \in Int /\ n \in Int
    BY <2>1
  <2> QED
    BY <2>1, <2>2
<1>3. PICK q \in {MaxSeq - c.seq : c \in Newest} :
          \A k \in {MaxSeq - c.seq : c \in Newest} : q <= k
  <2>1. {MaxSeq - c.seq : c \in Newest} \subseteq Nat
    OBVIOUS
  <2>2. {MaxSeq - c.seq : c \in Newest} # {}
    OBVIOUS
  <2> HIDE DEF Newest
  <2> QED
    BY <2>1, <2>2, LeastNatural
<1>4. PICK c \in Newest : MaxSeq - c.seq = q
  BY <1>3
<1>5. \A d \in S : Before(d, c)
  <2> TAKE d \in S
  <2>1. d.lsn <= c.lsn
    BY <1>2
  <2>2. d.lsn = c.lsn => d \in Newest
    OBVIOUS
  <2>3. ASSUME d \in Newest
        PROVE  d.seq <= c.seq
    <3>1. MaxSeq - d.seq \in {MaxSeq - e.seq : e \in Newest}
      BY <2>3
    <3>2. MaxSeq - c.seq <= MaxSeq - d.seq
      BY <3>1, <1>3, <1>4
    <3> QED
      BY <3>2
  <2> QED
    BY <2>1, <2>2, <2>3 DEF Before
<1> QED
  BY <1>5 DEF LastChange

-------------------------------------------------------------------------------
(* Type correctness.  Its invariant must also say where rows come from:    *)
(* that a set of them has a last change needs a bounded log.               *)

LogOK ==
    /\ captured \subseteq Change
    /\ maxLsn \in [Sources -> Nat]
    /\ minLsn \in [Tables -> Lsn]
    /\ \A s \in Sources : maxLsn[s] <= MaxLsn
    /\ \A c \in captured : c.lsn <= maxLsn[SourceOf[c.tab]]

StoreOK == mem \in [Sources -> Cursor] /\ disk \in [Sources -> Cursor]

PollOK ==
    /\ poll \in Poll
    /\ poll.batch \subseteq captured

ControlOK ==
    /\ pc \in ClientStates
    /\ cur \in 1..Len(SourceSeq)
    /\ errs \in 0..MaxRetries
    /\ pc # "down" => errs < MaxRetries

ServerOK ==
    /\ batchId \in Nat
    /\ streams \subseteq Stream
    /\ \A st \in streams : st.rows \subseteq captured
    /\ target \in [TargetRows -> Version]

GhostOK == missed \subseteq Change /\ budget \in Nat

TInv == LogOK /\ StoreOK /\ PollOK /\ ControlOK /\ ServerOK /\ GhostOK

\* The parts of the invariant say what TypeOK says.
LEMMA TInvTypes == TInv => TypeOK
  BY DEF TInv, TypeOK, LogOK, StoreOK, PollOK, ControlOK, ServerOK, GhostOK

\* The current source is one of the sources.
LEMMA SrcType == ASSUME ControlOK PROVE src \in Sources
  BY SyncAssumption DEF SyncAssumption, ControlOK, src

\* A non-empty set of captured changes has a last one.
LEMMA LastCaptured ==
    ASSUME LogOK, NEW S, S \subseteq captured, S # {}
    PROVE  /\ LastChange(S) \in S
           /\ \A d \in S : Before(d, LastChange(S))
<1>1. MaxLsn \in Nat
  BY SourceAssumption DEF SourceAssumption
<1>2. \A c \in S : c.lsn <= MaxLsn
  BY <1>1, TypesAssumption DEF LogOK, Change, TypesAssumption, Lsn, NoLsn
<1>3. S \in SUBSET Change
  BY DEF LogOK
<1> QED
  BY <1>1, <1>2, <1>3, LastChangeExists

\* Every way a cycle goes on or ends leaves the control state well formed.
LEMMA CycleOutcome ==
    ASSUME ControlOK, pc # "down", NextSource \/ CycleEnds \/ CycleFails
    PROVE  ControlOK' /\ poll' = NoPoll
<1>1. Len(SourceSeq) \in Nat \ {0} /\ MaxRetries \in Nat \ {0}
  BY SyncAssumption DEF SyncAssumption
<1> USE <1>1 DEF ControlOK, ClientStates
<1>2. CASE NextSource
  <2>1. CASE cur < Len(SourceSeq)
    BY <1>2, <2>1 DEF NextSource
  <2>2. CASE ~(cur < Len(SourceSeq))
    BY <1>2, <2>2 DEF NextSource
  <2> QED
    BY <2>1, <2>2
<1>3. CASE CycleEnds
  BY <1>3 DEF CycleEnds
<1>4. CASE CycleFails
  BY <1>4 DEF CycleFails
<1> QED
  BY <1>2, <1>3, <1>4

\* The poll that has gone out of scope.
LEMMA NoPollType == NoPoll \in Poll /\ NoPoll.batch = {}
  BY DEF NoPoll, Poll, NoLsn

\* Cursors keep their form when a batch is acknowledged or recorded.
LEMMA UpdateCursorType ==
    ASSUME StoreOK, NEW s \in Sources, NEW id \in Nat, NEW l \in Nat,
           UpdateCursor(s, id, l) \/ RecordPendingBatch(s, id, l)
    PROVE  mem' \in [Sources -> Cursor]
<1>1. Acknowledged(mem[s], id, l) \in Cursor
  BY DEF StoreOK, Acknowledged, Cursor
<1>2. Pending(mem[s], id, l) \in Cursor
  <2>1. mem[s] \in Cursor
    BY DEF StoreOK
  <2>2. mem[s].pending \union {[id |-> id, lsn |-> l]} \in SUBSET [id : Nat, lsn : Nat]
    BY <2>1 DEF Cursor
  <2>3. \A n \in Nat, P \in SUBSET [id : Nat, lsn : Nat] :
          [mem[s] EXCEPT !.processed = n, !.pending = P] \in Cursor
    BY <2>1 DEF Cursor
  <2> QED
    BY <2>1, <2>2, <2>3 DEF Pending, Cursor
<1> QED
  BY <1>1, <1>2 DEF StoreOK, UpdateCursor, RecordPendingBatch

\* Reading a table keeps the poll well formed.
LEMMA CollectTableType ==
    ASSUME TInv, NEW t \in poll.todo, NEW T, T \subseteq captured,
           CollectTable(t, T), UNCHANGED captured
    PROVE  PollOK'
<1>1. poll \in Poll /\ poll.batch \subseteq captured /\ captured \subseteq Change
  BY DEF TInv, PollOK, LogOK
<1>2. T # {} => GreatestLsn(T) \in Nat
  BY <1>1, LastCaptured DEF TInv, GreatestLsn, Change, Lsn
<1>3. TablesAfter(t, T) \in SUBSET Tables
  BY <1>1 DEF TablesAfter, Poll
<1>4. \A B \in SUBSET Change, D \in SUBSET Tables, m, n \in Nat :
        [poll EXCEPT !.batch = B, !.todo = D, !.last = m, !.lastValid = n] \in Poll
  BY <1>1 DEF Poll
<1>5. /\ poll.batch \union T \in SUBSET Change
      /\ poll.last \in Nat /\ poll.lastValid \in Nat
  BY <1>1 DEF Poll
<1> DEFINE m == IF T = {} THEN poll.last ELSE GreatestLsn(T)
           n == IF T = {} \/ t \notin Tracked THEN poll.lastValid ELSE GreatestLsn(T)
<1>6. m \in Nat /\ n \in Nat
  BY <1>2, <1>5
<1>7. poll' = [poll EXCEPT !.batch = poll.batch \union T, !.todo = TablesAfter(t, T),
                           !.last = m, !.lastValid = n]
  BY <1>1 DEF CollectTable, Poll
<1> HIDE DEF m, n
<1>8. poll' \in Poll
  BY <1>3, <1>4, <1>5, <1>6, <1>7
<1>9. poll'.batch = poll.batch \union T
  BY <1>1, <1>7 DEF Poll
<1> QED
  BY <1>1, <1>8, <1>9 DEF PollOK

\* A committed batch leaves every row of the target at a version.
LEMMA ApplyType ==
    ASSUME TInv, NEW S, S \subseteq captured, ApplyChanges(S)
    PROVE  target' \in [TargetRows -> Version]
<1>1. \A row \in TargetRows : Written(S, row) # {} =>
        VersionOf(LastChange(Written(S, row))) \in Version
  <2> SUFFICES ASSUME NEW row \in TargetRows, Written(S, row) # {}
               PROVE  VersionOf(LastChange(Written(S, row))) \in Version
    OBVIOUS
  <2>1. Written(S, row) \subseteq captured
    BY DEF Written
  <2>2. LastChange(Written(S, row)) \in Change
    BY <2>1, LastCaptured DEF TInv, LogOK
  <2> QED
    BY <2>2, TypesAssumption DEF TypesAssumption, Change, Version, VersionOf, Lsn
<1>2. target \in [TargetRows -> Version]
  BY DEF TInv, ServerOK
<1> QED
  BY <1>1, <1>2 DEF ApplyChanges, ApplyTo

\* The outcome of an update of the cursor.
LEMMA AdvanceCursorType ==
    ASSUME TInv, pc # "down", NEW id \in Nat, NEW l \in Nat, AdvanceCursor(id, l)
    PROVE  StoreOK' /\ ControlOK' /\ poll' = NoPoll /\ GhostOK'
<1>1. src \in Sources
  BY SrcType DEF TInv
<1>2. StoreOK'
  BY <1>1, UpdateCursorType DEF TInv, StoreOK, AdvanceCursor, Persisted, PersistError
<1>3. ControlOK' /\ poll' = NoPoll
  BY CycleOutcome DEF TInv, AdvanceCursor
<1>4. missed' \subseteq Change
  BY DEF TInv, GhostOK, LogOK, AdvanceCursor, SteppedOver
<1>5. budget' \in Nat
  BY DEF TInv, GhostOK, AdvanceCursor, Disturb
<1> QED
  BY <1>2, <1>3, <1>4, <1>5 DEF GhostOK

\* An answer is the stream with another phase.
LEMMA AnswerType ==
    ASSUME TInv, NEW st \in streams, NEW status \in {"OK", "RETRY"} \union ErrorAcks,
           Answer(st, status), UNCHANGED captured
    PROVE  streams' \subseteq Stream /\ \A x \in streams' : x.rows \subseteq captured'
<1>1. streams \subseteq Stream /\ \A x \in streams : x.rows \subseteq captured
  BY DEF TInv, ServerOK
<1>2. LET a == [st EXCEPT !.phase = status]
      IN  a \in Stream /\ a.rows = st.rows
  BY <1>1 DEF Stream
<1> QED
  BY <1>1, <1>2 DEF Answer

\* A commit extends the log at its end.
LEMMA CommitType ==
    ASSUME LogOK, NEW s \in Sources, CommitTransaction(s)
    PROVE  LogOK' /\ captured \subseteq captured'
<1>1. PICK tx \in Transactions :
        /\ \A x \in tx : SourceOf[x.tab] = s /\ Legal(x)
        /\ captured' = captured \union ChangesOf(tx, maxLsn[s] + 1)
  BY DEF CommitTransaction
<1>2. /\ maxLsn[s] < MaxLsn /\ UNCHANGED minLsn
      /\ maxLsn' = [maxLsn EXCEPT ![s] = maxLsn[s] + 1]
  BY DEF CommitTransaction, LogOK
<1>3. tx \subseteq Statement /\ MaxLsn \in Nat
  BY SourceAssumption DEF SourceAssumption
<1>4. \A c \in ChangesOf(tx, maxLsn[s] + 1) :
        c \in Change /\ c.lsn = maxLsn[s] + 1 /\ SourceOf[c.tab] = s
  <2> SUFFICES ASSUME NEW x \in tx, NEW o \in Images(x.kind)
               PROVE  LET c == [tab |-> x.tab, key |-> x.key, lsn |-> maxLsn[s] + 1,
                                seq |-> x.seq, op |-> o]
                      IN  c \in Change /\ c.lsn = maxLsn[s] + 1 /\ SourceOf[c.tab] = s
    BY DEF ChangesOf
  <2>1. x \in Statement /\ SourceOf[x.tab] = s
    BY <1>1, <1>3
  <2>2. o \in Operations
    BY <2>1 DEF Images, Statement, Operations
  <2>3. maxLsn[s] + 1 \in Lsn
    BY DEF LogOK, Lsn, NoLsn
  <2> QED
    BY <2>1, <2>2, <2>3 DEF Statement, Change
<1>5. \A r \in Sources : maxLsn[r] <= maxLsn'[r] /\ maxLsn'[r] <= MaxLsn
  BY <1>2, <1>3 DEF LogOK
<1>6. \A c \in captured' : c.lsn <= maxLsn'[SourceOf[c.tab]]
  <2> SUFFICES ASSUME NEW c \in captured' PROVE c.lsn <= maxLsn'[SourceOf[c.tab]]
    OBVIOUS
  <2>1. CASE c \in captured
    <3>1. SourceOf[c.tab] \in Sources /\ c.lsn \in Nat
      BY <2>1, TypesAssumption DEF LogOK, Change, TypesAssumption, Lsn
    <3> QED
      BY <2>1, <3>1, <1>2, <1>5 DEF LogOK
  <2>2. CASE c \in ChangesOf(tx, maxLsn[s] + 1)
    BY <2>2, <1>2, <1>4 DEF LogOK
  <2> QED
    BY <1>1, <2>1, <2>2
<1> QED
  BY <1>1, <1>2, <1>4, <1>5, <1>6 DEF LogOK

\* Initially the invariant holds.
LEMMA TInvInit == Init => TInv
<1> SUFFICES ASSUME Init PROVE TInv
  OBVIOUS
<1> USE TypesAssumption, SourceAssumption, SyncAssumption
    DEF Init, TypesAssumption, SourceAssumption, SyncAssumption, NoLsn
<1>1. LogOK
  BY DEF LogOK, Lsn
<1>2. StoreOK
  BY DEF StoreOK, Fresh, NoCursor, Cursor
<1>3. PollOK
  BY NoPollType DEF PollOK
<1>4. ControlOK
  BY DEF ControlOK, ClientStates
<1>5. ServerOK
  BY DEF ServerOK, EmptyTarget, NoVersion, Version, Operations, TargetRows
<1>6. GhostOK
  BY DEF GhostOK
<1> QED
  BY <1>1, <1>2, <1>3, <1>4, <1>5, <1>6 DEF TInv

\* Every step keeps the invariant.
LEMMA TInvNext == TInv /\ [Next]_vars => TInv'
<1> SUFFICES ASSUME TInv, [Next]_vars PROVE TInv'
  OBVIOUS
<1> USE DEF TInv
<1>s. src \in Sources
  BY SrcType
<1>u. UNCHANGED sourceVars => LogOK'
  BY DEF LogOK, sourceVars
<1>v. UNCHANGED storeVars => StoreOK'
  BY DEF StoreOK, storeVars
<1>w. UNCHANGED <<captured, poll>> => PollOK'
  BY DEF PollOK
<1>x. poll' = NoPoll => PollOK'
  BY NoPollType DEF PollOK
<1>y. ASSUME UNCHANGED <<captured, batchId, target>>, streams' \subseteq streams
      PROVE  ServerOK'
  BY <1>y DEF ServerOK
<1>z. UNCHANGED <<missed, budget>> => GhostOK'
  BY DEF GhostOK
<1>d. ASSUME NEW kind, Disturb(kind), UNCHANGED missed PROVE GhostOK'
  BY <1>d DEF GhostOK, Disturb
<1>a. Abandon => streams' \subseteq streams
  BY DEF Abandon
<1>1. CASE HealthCheckOK
  <2>1. ControlOK'
    BY <1>1 DEF HealthCheckOK, ControlOK, ClientStates
  <2> QED
    BY <1>1, <2>1, <1>u, <1>v, <1>w, <1>y, <1>z DEF HealthCheckOK, sourceVars
<1>2. CASE PollStart
  <2>1. CASE maxLsn[src] = NoLsn
    <3>1. ControlOK' /\ poll' = NoPoll
      BY <1>2, <2>1, CycleOutcome DEF PollStart
    <3> QED
      BY <1>2, <3>1, <1>u, <1>v, <1>x, <1>y, <1>z DEF PollStart, sourceVars
  <2>2. CASE maxLsn[src] # NoLsn
    <3>1. ControlOK'
      BY <1>2, <2>2 DEF PollStart, ControlOK, ClientStates
    <3>2. Position(mem[src]) \in Nat
      BY <1>s DEF StoreOK, Cursor, Position
    <3>3. SourceMinLsn(src) \in Nat
      <4> DEFINE mins == {minLsn[t] : t \in TablesOf(src)}
      <4>1. mins \subseteq Nat
        BY DEF LogOK, Lsn, TablesOf
      <4>2. mins # {}
        BY <1>s, TypesAssumption DEF TypesAssumption, TablesOf
      <4>3. PICK l \in mins : \A m \in mins : l <= m
        BY <4>1, <4>2, LeastNatural
      <4> QED
        BY <4>1, <4>3 DEF SourceMinLsn
    <3>4. StartLsn(src, Position(mem[src])) \in Nat
      BY <3>2, <3>3 DEF StartLsn, NextLsn
    <3>5. maxLsn[src] \in Nat /\ TablesOf(src) \subseteq Tables
      BY <1>s DEF LogOK, TablesOf
    <3>6. PollOK'
      BY <1>2, <2>2, <3>4, <3>5, NoPollType DEF PollStart, BeginPoll, PollOK, Poll, NoPoll
    <3> QED
      BY <1>2, <2>2, <3>1, <3>6, <1>u, <1>v, <1>y, <1>z DEF PollStart, sourceVars
  <2> QED
    BY <2>1, <2>2
<1>3. CASE PollFails
  <2>1. ControlOK' /\ poll' = NoPoll
    BY <1>3, CycleOutcome DEF PollFails
  <2>2. GhostOK'
    BY <1>3, <1>z, <1>d DEF PollFails
  <2> QED
    BY <1>3, <2>1, <2>2, <1>u, <1>v, <1>x, <1>y DEF PollFails, sourceVars
<1>4. CASE ReadTable
  <2>1. PICK t \in poll.todo :
          \/ readTableChanges(t) /\ UNCHANGED budget
          \/ readTableChangesFails(t) /\ Disturb("read")
    BY <1>4 DEF ReadTable
  <2>2. UNCHANGED captured
    BY <1>4 DEF ReadTable, sourceVars
  <2>3. PollOK'
    <3>1. CASE readTableChanges(t)
      <4>1. PICK T \in TopRows(Window(t, poll.start), BatchSize) : CollectTable(t, T)
        BY <3>1 DEF readTableChanges
      <4>2. T \subseteq captured
        BY DEF TopRows, Window
      <4> QED
        BY <2>2, <4>1, <4>2, CollectTableType
    <3>2. CASE readTableChangesFails(t)
      BY <2>2, <3>2, CollectTableType DEF readTableChangesFails
    <3> QED
      BY <2>1, <3>1, <3>2
  <2>4. GhostOK'
    BY <1>4, <2>1, <1>z, <1>d DEF ReadTable
  <2>5. ControlOK'
    BY <1>4 DEF ReadTable, clientVars, ControlOK
  <2> QED
    BY <1>4, <2>3, <2>4, <2>5, <1>u, <1>v, <1>y DEF ReadTable, sourceVars, clientVars
<1>5. CASE NoChanges
  <2>1. poll.max \in Nat
    BY DEF PollOK, Poll
  <2>2. StoreOK' /\ ControlOK' /\ poll' = NoPoll /\ GhostOK'
    BY <1>5, <2>1, AdvanceCursorType DEF NoChanges, Polled
  <2> QED
    BY <1>5, <2>2, <1>u, <1>x, <1>y DEF NoChanges, sourceVars
<1>6. CASE LocalSkip
  <2>1. poll.last \in Nat
    BY DEF PollOK, Poll
  <2>2. StoreOK' /\ ControlOK' /\ poll' = NoPoll /\ GhostOK'
    BY <1>6, <2>1, AdvanceCursorType DEF LocalSkip, Polled
  <2> QED
    BY <1>6, <2>2, <1>u, <1>x, <1>y DEF LocalSkip, sourceVars
<1>7. CASE RecordBatch
  <2>1. StoreOK'
    <3>1. poll.last \in Nat /\ batchId + 1 \in Nat
      BY DEF PollOK, Poll, ServerOK
    <3>2. mem' \in [Sources -> Cursor]
      BY <1>7, <1>s, <3>1, UpdateCursorType DEF RecordBatch
    <3> QED
      BY <1>7, <3>2 DEF RecordBatch, StoreOK, Persisted, PersistError
  <2>2. ServerOK'
    BY <1>7 DEF RecordBatch, ServerOK, sourceVars
  <2>3. UNCHANGED sourceVars
    BY <1>7 DEF RecordBatch
  <2>4. CASE Persisted /\ pc' = "send" /\ UNCHANGED <<poll, cur, errs, budget>>
    <3>1. ControlOK'
      BY <1>7, <2>4 DEF RecordBatch, Polled, ControlOK, ClientStates
    <3> QED
      BY <1>7, <2>1, <2>2, <2>3, <2>4, <3>1, <1>u, <1>w, <1>z DEF RecordBatch, sourceVars
  <2>5. CASE PersistError /\ CycleFails /\ Disturb("persist")
    <3>1. ControlOK' /\ poll' = NoPoll
      BY <1>7, <2>5, CycleOutcome DEF RecordBatch, Polled
    <3> QED
      BY <1>7, <2>1, <2>2, <2>3, <2>5, <3>1, <1>u, <1>x, <1>d DEF RecordBatch
  <2> QED
    BY <1>7, <2>4, <2>5 DEF RecordBatch
<1>8. CASE SendBatch
  <2>1. ControlOK'
    BY <1>8 DEF SendBatch, ControlOK, ClientStates
  <2>2. [id |-> batchId, rows |-> ValidChanges, lsn |-> poll.lastValid,
         phase |-> "sent"] \in Stream
    BY DEF ServerOK, PollOK, Poll, Stream, ValidChanges
  <2>3. ValidChanges \subseteq captured
    BY DEF ValidChanges, PollOK
  <2>4. ServerOK'
    BY <1>8, <2>2, <2>3 DEF SendBatch, ServerOK, sourceVars
  <2> QED
    BY <1>8, <2>1, <2>4, <1>u, <1>v, <1>w, <1>z DEF SendBatch, sourceVars
<1>9. CASE StreamBatchFails
  <2>1. ControlOK' /\ poll' = NoPoll
    BY <1>9, CycleOutcome DEF StreamBatchFails
  <2>2. GhostOK'
    BY <1>9, <1>z, <1>d DEF StreamBatchFails
  <2> QED
    BY <1>9, <2>1, <2>2, <1>a, <1>u, <1>v, <1>x, <1>y DEF StreamBatchFails, sourceVars
<1>10. CASE RecvAck
  <2>1. PICK st \in streams :
          /\ Connected(st)
          /\ streams' = streams \ {st}
          /\ RecvAckOK(st) \/ RecvAckRetry(st) \/ RecvAckError(st)
    BY <1>10 DEF RecvAck
  <2>2. pc # "down" /\ st.lsn \in Nat /\ batchId \in Nat
    BY <2>1 DEF Connected, ServerOK, Stream
  <2>3. CASE RecvAckOK(st)
    <3>1. StoreOK' /\ ControlOK' /\ poll' = NoPoll /\ GhostOK'
      BY <2>2, <2>3, AdvanceCursorType DEF RecvAckOK
    <3> QED
      BY <2>1, <2>3, <3>1, <1>u, <1>x, <1>y DEF RecvAckOK, sourceVars
  <2>4. CASE RecvAckRetry(st) \/ RecvAckError(st)
    <3>1. ControlOK' /\ poll' = NoPoll
      BY <2>2, <2>4, CycleOutcome DEF RecvAckRetry, RecvAckError
    <3> QED
      BY <2>1, <2>4, <3>1, <1>u, <1>v, <1>x, <1>y, <1>z
      DEF RecvAckRetry, RecvAckError, sourceVars
  <2> QED
    BY <2>1, <2>3, <2>4
<1>11. CASE Reconnect
  <2>1. ControlOK'
    BY <1>11 DEF Reconnect, ControlOK, ClientStates
  <2> QED
    BY <1>11, <2>1, <1>u, <1>v, <1>w, <1>y, <1>z DEF Reconnect, sourceVars
<1>12. ASSUME NEW f \in [Sources -> Cursor], NEW kind, Disturb(kind), ClientDies(f)
       PROVE  TInv'
  <2>1. ControlOK'
    BY <1>12, SyncAssumption DEF ClientDies, ControlOK, ClientStates, SyncAssumption
  <2>2. StoreOK'
    BY <1>12 DEF ClientDies, StoreOK
  <2> QED
    BY <1>12, <2>1, <2>2, <1>a, <1>u, <1>x, <1>y, <1>d DEF ClientDies, sourceVars
<1>13. CASE Crash
  BY <1>13, <1>12 DEF Crash, StoreOK
<1>14. CASE PowerLoss
  <2>1. Fresh \in [Sources -> Cursor]
    BY DEF Fresh, NoCursor, Cursor, NoLsn
  <2> QED
    BY <1>14, <2>1, <1>12 DEF PowerLoss
<1>15. CASE Restart
  <2>1. ControlOK'
    BY <1>15, SyncAssumption DEF Restart, ControlOK, ClientStates, SyncAssumption
  <2>2. StoreOK'
    BY <1>15 DEF Restart, LoadState, StoreOK
  <2> QED
    BY <1>15, <2>1, <2>2, <1>u, <1>w, <1>y, <1>z DEF Restart, sourceVars
<1>16. CASE ServerStep
  <2>1. PICK st \in streams :
          ProcessBatch(st) \/ ProcessBatchFails(st) \/ CommitUnknown(st) \/ HandlerCancelled(st)
    BY <1>16 DEF ServerStep
  <2>2. UNCHANGED <<sourceVars, storeVars, poll, clientVars, missed>>
    BY <1>16 DEF ServerStep, serverUnchanged
  <2>3. UNCHANGED captured /\ st.rows \subseteq captured
    BY <2>2 DEF sourceVars, ServerOK
  <2>4. GhostOK'
    <3>1. UNCHANGED budget \/ Disturb("apply")
      BY <2>1 DEF ProcessBatch, ProcessBatchFails, CommitUnknown, HandlerCancelled
    <3> QED
      BY <2>2, <3>1, <1>z, <1>d
  <2>5. target' \in [TargetRows -> Version]
    <3>1. ApplyChanges(st.rows) \/ UNCHANGED target
      BY <2>1 DEF ProcessBatch, ProcessBatchFails, CommitUnknown, HandlerCancelled
    <3> QED
      BY <2>3, <3>1, ApplyType DEF ServerOK
  <2>6. streams' \subseteq Stream /\ \A x \in streams' : x.rows \subseteq captured'
    <3>1. CASE HandlerCancelled(st)
      BY <2>3, <3>1 DEF HandlerCancelled, ServerOK
    <3>2. CASE \E status \in {"OK", "RETRY"} \union ErrorAcks : Answer(st, status)
      BY <2>3, <3>2, AnswerType
    <3> QED
      BY <2>1, <3>1, <3>2
      DEF ProcessBatch, ProcessBatchFails, CommitUnknown, ErrorAcks
  <2>7. ControlOK' /\ UNCHANGED batchId
    BY <2>2 DEF clientVars, ControlOK
  <2>8. ServerOK'
    BY <2>5, <2>6, <2>7 DEF ServerOK
  <2> QED
    BY <2>2, <2>3, <2>4, <2>7, <2>8, <1>u, <1>v, <1>w
<1>17. CASE ServerRestart
  <2>1. UNCHANGED <<sourceVars, storeVars, poll, clientVars, missed, target>>
        /\ streams' = {} /\ Disturb("server")
    BY <1>17 DEF ServerRestart, serverUnchanged
  <2>2. ControlOK'
    BY <2>1 DEF clientVars, ControlOK
  <2> QED
    BY <2>1, <2>2, <1>u, <1>v, <1>w, <1>y, <1>d DEF sourceVars, clientVars
<1>18. CASE SourceStep
  <2>1. UNCHANGED <<storeVars, poll, clientVars, streams, target, missed>>
    BY <1>18 DEF SourceStep
  <2>2. LogOK' /\ captured \subseteq captured' /\ GhostOK'
    <3>1. ASSUME NEW s \in Sources, CommitTransaction(s), UNCHANGED budget
          PROVE  LogOK' /\ captured \subseteq captured' /\ GhostOK'
      BY <2>1, <3>1, CommitType, <1>z
    <3>2. ASSUME NEW t \in Tables, CleanupChangeTable(t), Disturb("cleanup")
          PROVE  LogOK' /\ captured \subseteq captured' /\ GhostOK'
      <4>1. LogOK'
        BY <3>2, TypesAssumption DEF CleanupChangeTable, LogOK, Lsn, NoLsn, TypesAssumption
      <4> QED
        BY <2>1, <3>2, <4>1, <1>d DEF CleanupChangeTable
    <3> QED
      BY <1>18, <3>1, <3>2 DEF SourceStep
  <2>3. PollOK'
    BY <2>1, <2>2 DEF PollOK
  <2>4. ControlOK'
    BY <2>1 DEF clientVars, ControlOK
  <2>5. ServerOK'
    BY <2>1, <2>2 DEF clientVars, ServerOK
  <2> QED
    BY <2>1, <2>2, <2>3, <2>4, <2>5, <1>v
<1>19. CASE UNCHANGED vars
  BY <1>19 DEF vars, sourceVars, storeVars, clientVars, LogOK, StoreOK, PollOK, ControlOK,
               ServerOK, GhostOK
<1> QED
  BY <1>1, <1>2, <1>3, <1>4, <1>5, <1>6, <1>7, <1>8, <1>9, <1>10, <1>11, <1>13, <1>14,
     <1>15, <1>16, <1>17, <1>18, <1>19 DEF Next, ClientStep

\* TypeOK holds in every reachable state, whatever the constants.
THEOREM TypeCorrect == Spec => []TypeOK
<1>1. Init => TInv
  BY TInvInit
<1>2. TInv /\ [Next]_vars => TInv'
  BY TInvNext
<1>3. TInv => TypeOK
  BY TInvTypes
<1> QED
  BY <1>1, <1>2, <1>3, PTL DEF Spec
===============================================================================
