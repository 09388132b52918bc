----------------------------- MODULE PendingProofs -----------------------------
(***************************************************************************)
(* Attempts and their pending entries: answers reach the attempt they      *)
(* belong to, and every entry that stays behind was paid for with a fault. *)
(* Both hold in all deployments, with handlers that outlive their streams. *)
(***************************************************************************)
EXTENDS DbSyncProofs, FiniteSetTheorems

\* The batch in hand is recorded in the state file before its stream exists,
\* batch IDs are not used twice, and only the awaited stream has an answer.
AttemptOK ==
    /\ pc \in {"send", "wait"} => \E b \in disk[src].pending : b.id = batchId
    /\ \A st \in streams : st.id <= batchId /\ (pc = "send" => st.id # batchId)
    /\ \A x, y \in streams : x.id = y.id => x = y
    /\ \A st \in streams : st.phase # "sent" => Connected(st)

Entries(m) == UNION {{<<s, b>> : b \in m[s].pending} : s \in Sources}

AllEntries == Entries(mem) \union Entries(disk)

\* The batch in hand may still be acknowledged without another fault.
InProgress ==
    \/ pc = "send"
    \/ \E st \in streams : Connected(st) /\ st.phase \in {"sent", "OK"}

\* Every entry but that of the batch in progress stands for a fault.
EntriesPaid ==
    /\ IsFiniteSet(AllEntries)
    /\ Cardinality(AllEntries) <= MaxFaults - budget + (IF InProgress THEN 1 ELSE 0)

QInv == TInv /\ AttemptOK /\ EntriesPaid

-------------------------------------------------------------------------------
LEMMA BudgetType == ASSUME TInv PROVE MaxFaults \in Nat /\ budget \in Nat
  BY SyncAssumption DEF SyncAssumption, TInv, GhostOK

\* Outside of an attempt there are only streams that clients gave up.
LEMMA AttemptEnds ==
    ASSUME QInv, pc' \notin {"send", "wait"}, UNCHANGED batchId, streams' \subseteq streams,
           pc = "wait" => \A st \in streams' : st.phase = "sent"
    PROVE  AttemptOK' /\ ~InProgress'
<1>1. \A st \in streams' : st.phase = "sent"
  BY DEF QInv, AttemptOK, Connected
<1>2. QED
  BY <1>1 DEF QInv, AttemptOK, InProgress, Connected

\* A client that stops waiting leaves no answered stream behind.
LEMMA Abandoned ==
    ASSUME Abandon PROVE streams' \subseteq streams /\ \A st \in streams' : st.phase = "sent"
  BY DEF Abandon

\* No entry is added, and the batch in progress stays so or costs a fault.
LEMMA PaidStill ==
    ASSUME QInv, AllEntries' \subseteq AllEntries,
           \/ budget' = budget - 1
           \/ budget' = budget /\ (InProgress => InProgress')
    PROVE  EntriesPaid'
<1>1. IsFiniteSet(AllEntries') /\ Cardinality(AllEntries') <= Cardinality(AllEntries)
  BY FS_Subset DEF QInv, EntriesPaid
<1>2. Cardinality(AllEntries) \in Nat /\ Cardinality(AllEntries') \in Nat
  BY <1>1, FS_CardinalityType DEF QInv, EntriesPaid
<1>3. MaxFaults \in Nat /\ budget \in Nat
  BY BudgetType DEF QInv
<1>4. QED
  BY <1>1, <1>2, <1>3 DEF QInv, EntriesPaid

\* An entry belongs to one source.
LEMMA EntryOf ==
    ASSUME NEW m, NEW e
    PROVE  e \in UNION {{<<s, b>> : b \in m[s].pending} : s \in Sources}
              <=> \E s \in Sources : \E b \in m[s].pending : e = <<s, b>>
  OBVIOUS

\* It is an entry of the memory or of the file.
LEMMA EntriesIn ==
    ASSUME NEW e
    PROVE  e \in AllEntries
              <=> \E s \in Sources :
                     \E b \in mem[s].pending \union disk[s].pending : e = <<s, b>>
<1> DEFINE E(m) == UNION {{<<s, b>> : b \in m[s].pending} : s \in Sources}
<1>1. AllEntries = E(mem) \union E(disk)
  BY DEF AllEntries, Entries
<1>2. /\ e \in E(mem) <=> \E s \in Sources : \E b \in mem[s].pending : e = <<s, b>>
      /\ e \in E(disk) <=> \E s \in Sources : \E b \in disk[s].pending : e = <<s, b>>
  BY EntryOf
<1> HIDE DEF E
<1>3. QED
  BY <1>1, <1>2

LEMMA EntriesInNext ==
    ASSUME NEW e
    PROVE  e \in AllEntries'
              <=> \E s \in Sources :
                     \E b \in mem'[s].pending \union disk'[s].pending : e = <<s, b>>
<1> DEFINE E(m) == UNION {{<<s, b>> : b \in m[s].pending} : s \in Sources}
<1>1. AllEntries' = E(mem') \union E(disk')
  BY DEF AllEntries, Entries
<1>2. /\ e \in E(mem') <=> \E s \in Sources : \E b \in mem'[s].pending : e = <<s, b>>
      /\ e \in E(disk') <=> \E s \in Sources : \E b \in disk'[s].pending : e = <<s, b>>
  BY EntryOf
<1> HIDE DEF E
<1>3. QED
  BY <1>1, <1>2

\* Entries are compared source by source.
LEMMA EntriesKept ==
    ASSUME \A s \in Sources :
              /\ mem'[s].pending \subseteq mem[s].pending \union disk[s].pending
              /\ disk'[s].pending \subseteq mem[s].pending \union disk[s].pending
    PROVE  AllEntries' \subseteq AllEntries
<1> SUFFICES ASSUME NEW e \in AllEntries' PROVE e \in AllEntries
  OBVIOUS
<1>1. PICK s \in Sources : \E b \in mem'[s].pending \union disk'[s].pending : e = <<s, b>>
  BY EntriesInNext
<1>2. QED
  BY <1>1, EntriesIn

LEMMA SameEntries == ASSUME UNCHANGED storeVars PROVE AllEntries' = AllEntries
  BY DEF AllEntries, Entries, storeVars

\* An acknowledgement takes its own entry away and adds none.
LEMMA AdvanceEntries ==
    ASSUME TInv, NEW id, NEW l, AdvanceCursor(id, l)
    PROVE  /\ mem' = [mem EXCEPT ![src] = Acknowledged(mem[src], id, l)]
           /\ AllEntries' \subseteq AllEntries
           /\ \/ disk' = mem' /\ UNCHANGED budget
              \/ disk' = disk /\ budget' = budget - 1
           /\ pc' \notin {"send", "wait"}
<1>1. mem' = [mem EXCEPT ![src] = Acknowledged(mem[src], id, l)]
  BY DEF AdvanceCursor, UpdateCursor
<1>2. \/ disk' = mem' /\ UNCHANGED budget
      \/ disk' = disk /\ budget' = budget - 1
  BY DEF AdvanceCursor, Persisted, PersistError, Disturb
<1>3. src \in Sources /\ mem \in [Sources -> Cursor]
  BY SrcType DEF TInv, StoreOK
<1>4. \A s \in Sources : mem'[s].pending \subseteq mem[s].pending
  BY <1>1, <1>3 DEF Acknowledged
<1>5. AllEntries' \subseteq AllEntries
  BY <1>2, <1>4, EntriesKept
<1>6. pc' \notin {"send", "wait"}
  BY DEF AdvanceCursor, NextSource, CycleFails
<1>7. QED
  BY <1>1, <1>2, <1>5, <1>6

-------------------------------------------------------------------------------
(* Steps                                                                   *)

LEMMA QInit == Init => QInv
<1> SUFFICES ASSUME Init PROVE QInv
  OBVIOUS
<1>1. AttemptOK /\ ~InProgress
  BY DEF Init, AttemptOK, InProgress
<1>2. \A s \in Sources : mem[s].pending = {} /\ disk[s].pending = {}
  BY DEF Init, Fresh, NoCursor
<1>3. AllEntries = {}
  BY <1>2, EntriesIn
<1>4. EntriesPaid
  BY <1>1, <1>3, FS_EmptySet, SyncAssumption DEF Init, EntriesPaid, SyncAssumption
<1>5. QED
  BY <1>1, <1>4, TInvInit DEF QInv

\* The client works on no batch, before or after.
LEMMA QuietStep ==
    ASSUME QInv, TInv', pc \notin {"send", "wait"}, pc' \notin {"send", "wait"},
           UNCHANGED <<batchId, streams>>, AllEntries' \subseteq AllEntries,
           budget' \in {budget, budget - 1}
    PROVE  QInv'
<1>1. AttemptOK' /\ ~InProgress
  BY AttemptEnds DEF InProgress, Connected
<1>2. EntriesPaid'
  BY <1>1, PaidStill
<1>3. QED
  BY <1>1, <1>2 DEF QInv

\* The attempt at a batch ends with the state file as it was.
LEMMA AttemptFails ==
    ASSUME QInv, TInv', UNCHANGED <<storeVars, batchId>>, pc' \notin {"send", "wait"},
           streams' \subseteq streams, pc = "wait" => \A st \in streams' : st.phase = "sent",
           \/ budget' = budget - 1
           \/ budget' = budget /\ ~InProgress
    PROVE  QInv'
<1>1. AttemptOK'
  BY AttemptEnds
<1>2. EntriesPaid'
  BY PaidStill, SameEntries
<1>3. QED
  BY <1>1, <1>2 DEF QInv

LEMMA QRecordBatch == ASSUME QInv, TInv', RecordBatch PROVE QInv'
<1>1. /\ pc = "read" /\ streams' = streams
      /\ batchId' = batchId + 1
      /\ mem' = [mem EXCEPT ![src] = Pending(mem[src], batchId + 1, poll.last)]
  BY DEF RecordBatch, Polled, RecordPendingBatch
<1>2. src \in Sources /\ mem \in [Sources -> Cursor] /\ batchId \in Nat
  BY SrcType DEF QInv, TInv, StoreOK, ServerOK
<1> DEFINE b == [id |-> batchId + 1, lsn |-> poll.last]
<1>3. /\ \A s \in Sources : s # src => mem'[s] = mem[s]
      /\ mem'[src].pending = mem[src].pending \union {b}
  <2>1. mem[src] \in Cursor
    BY <1>2
  <2>2. Pending(mem[src], batchId + 1, poll.last).pending = mem[src].pending \union {b}
    BY <2>1 DEF Pending, Cursor
  <2>3. QED
    BY <1>1, <1>2, <2>2
<1> HIDE DEF b
<1>4. disk' = mem' \/ disk' = disk
  BY DEF RecordBatch, Persisted, PersistError
<1>5. AllEntries' \subseteq AllEntries \union {<<src, b>>}
  <2> SUFFICES ASSUME NEW e \in AllEntries' PROVE e \in AllEntries \union {<<src, b>>}
    OBVIOUS
  <2>1. PICK s \in Sources : \E x \in mem'[s].pending \union disk'[s].pending : e = <<s, x>>
    BY EntriesInNext
  <2>2. PICK x \in mem'[s].pending \union disk'[s].pending : e = <<s, x>>
    BY <2>1
  <2>3. x \in mem[s].pending \union disk[s].pending \/ (s = src /\ x = b)
    BY <2>2, <1>3, <1>4
  <2>4. QED
    BY <2>2, <2>3, EntriesIn
<1>6. /\ IsFiniteSet(AllEntries')
      /\ Cardinality(AllEntries') <= Cardinality(AllEntries) + 1
      /\ Cardinality(AllEntries) \in Nat /\ Cardinality(AllEntries') \in Nat
  <2>1. IsFiniteSet(AllEntries) /\ Cardinality(AllEntries) \in Nat
    BY FS_CardinalityType DEF QInv, EntriesPaid
  <2>2. /\ IsFiniteSet(AllEntries \union {<<src, b>>})
        /\ Cardinality(AllEntries \union {<<src, b>>}) <= Cardinality(AllEntries) + 1
        /\ Cardinality(AllEntries \union {<<src, b>>}) \in Nat
    <3>1. /\ IsFiniteSet(AllEntries \union {<<src, b>>})
          /\ \/ Cardinality(AllEntries \union {<<src, b>>}) = Cardinality(AllEntries)
             \/ Cardinality(AllEntries \union {<<src, b>>}) = Cardinality(AllEntries) + 1
      BY <2>1, FS_AddElement
    <3>2. QED
      BY <2>1, <3>1
  <2>3. QED
    BY <2>1, <2>2, <1>5, FS_Subset, FS_CardinalityType
<1>7. ~InProgress /\ \A st \in streams : st.phase = "sent" /\ st.id <= batchId
  BY <1>1 DEF QInv, AttemptOK, InProgress, Connected
<1>8. MaxFaults \in Nat /\ budget \in Nat
  BY BudgetType DEF QInv
<1>9. Cardinality(AllEntries) <= MaxFaults - budget
  BY <1>7, <1>8, <1>6 DEF QInv, EntriesPaid
<1>10. CASE Persisted /\ pc' = "send" /\ UNCHANGED <<poll, cur, errs, budget>>
  <2>1. InProgress'
    BY <1>10 DEF InProgress
  <2>2. EntriesPaid'
    BY <1>6, <1>8, <1>9, <1>10, <2>1 DEF EntriesPaid
  <2>3. b \in disk'[src].pending /\ b.id = batchId' /\ src' = src
    <3>1. b \in disk'[src].pending
      BY <1>3, <1>10 DEF Persisted
    <3>2. b.id = batchId'
      BY <1>1 DEF b
    <3>3. src' = src
      BY <1>10 DEF src
    <3>4. QED
      BY <3>1, <3>2, <3>3
  <2>4. \A st \in streams : st.id \in Nat
    BY DEF QInv, TInv, ServerOK, Stream
  <2>5. AttemptOK'
    <3>1. \A x, y \in streams' : x.id = y.id => x = y
      BY <1>1 DEF QInv, AttemptOK
    <3>2. \A st \in streams' : st.id <= batchId' /\ st.id # batchId'
      BY <1>1, <1>2, <1>7, <2>4
    <3>3. QED
      BY <3>1, <3>2, <2>3, <1>1, <1>7 DEF AttemptOK
  <2>6. QED
    BY <2>2, <2>5 DEF QInv
<1>11. CASE PersistError /\ CycleFails /\ Disturb("persist")
  <2>1. budget' = budget - 1 /\ pc' \notin {"send", "wait"}
    BY <1>11 DEF Disturb, CycleFails
  <2>2. EntriesPaid'
    BY <1>6, <1>8, <1>9, <2>1 DEF EntriesPaid
  <2>3. \A st \in streams : st.id \in Nat
    BY DEF QInv, TInv, ServerOK, Stream
  <2>4. AttemptOK'
    <3>1. \A x, y \in streams' : x.id = y.id => x = y
      BY <1>1 DEF QInv, AttemptOK
    <3>2. \A st \in streams' : st.id <= batchId' /\ st.phase = "sent"
      BY <1>1, <1>2, <1>7, <2>3
    <3>3. QED
      BY <3>1, <3>2, <2>1 DEF AttemptOK
  <2>5. QED
    BY <2>2, <2>4 DEF QInv
<1>12. QED
  BY <1>10, <1>11 DEF RecordBatch

LEMMA QSendBatch == ASSUME QInv, TInv', SendBatch PROVE QInv'
<1> DEFINE st == [id |-> batchId, rows |-> ValidChanges,
                  lsn |-> poll.lastValid, phase |-> "sent"]
<1>1. /\ pc = "send" /\ pc' = "wait" /\ streams' = streams \union {st}
      /\ UNCHANGED <<storeVars, cur, batchId, budget>>
  BY DEF SendBatch
<1>2. st.id = batchId /\ st.phase = "sent" /\ st \in streams'
  BY <1>1
<1> HIDE DEF st
<1>3. batchId \in Nat
  BY DEF QInv, TInv, ServerOK
<1>4. AttemptOK'
  <2>1. \E b \in disk'[src'].pending : b.id = batchId'
    BY <1>1 DEF QInv, AttemptOK, storeVars, src
  <2>2. \A x \in streams' : x.id <= batchId'
    BY <1>1, <1>2, <1>3 DEF QInv, AttemptOK
  <2>3. \A x, y \in streams' : x.id = y.id => x = y
    BY <1>1, <1>2 DEF QInv, AttemptOK
  <2>4. \A x \in streams' : x.phase = "sent"
    BY <1>1, <1>2 DEF QInv, AttemptOK, Connected
  <2>5. QED
    BY <2>1, <2>2, <2>3, <2>4, <1>1 DEF AttemptOK
<1>5. InProgress'
  BY <1>1, <1>2 DEF InProgress, Connected
<1>6. EntriesPaid'
  BY <1>1, <1>5, PaidStill, SameEntries
<1>7. QED
  BY <1>4, <1>6 DEF QInv

LEMMA QStreamBatchFails == ASSUME QInv, TInv', StreamBatchFails PROVE QInv'
<1>1. /\ UNCHANGED <<storeVars, batchId>> /\ pc \in {"send", "wait"}
      /\ pc' \notin {"send", "wait"}
      /\ streams' \subseteq streams /\ \A st \in streams' : st.phase = "sent"
  BY Abandoned DEF StreamBatchFails, CycleFails
<1>2. \/ budget' = budget - 1
      \/ budget' = budget /\ ~InProgress
  BY DEF StreamBatchFails, Disturb, InProgress
<1>3. QED
  BY <1>1, <1>2, AttemptFails

\* An answer ends the attempt of its batch: no other stream is connected.
LEMMA AnswerTaken ==
    ASSUME QInv, NEW st \in streams, Connected(st), streams' = streams \ {st}
    PROVE  /\ pc = "wait" /\ st.id = batchId
           /\ \A x \in streams' : ~Connected(x) /\ x.phase = "sent"
  BY DEF QInv, AttemptOK, Connected

LEMMA QRecvAck == ASSUME QInv, TInv', RecvAck PROVE QInv'
<1>1. PICK st \in streams :
        /\ Connected(st) /\ streams' = streams \ {st}
        /\ RecvAckOK(st) \/ RecvAckRetry(st) \/ RecvAckError(st)
  BY DEF RecvAck
<1>2. /\ pc = "wait" /\ st.id = batchId
      /\ \A x \in streams' : ~Connected(x) /\ x.phase = "sent"
  BY <1>1, AnswerTaken
<1>3. CASE RecvAckRetry(st) \/ RecvAckError(st)
  <2>1. /\ UNCHANGED <<storeVars, batchId, budget>> /\ pc' \notin {"send", "wait"}
        /\ st.phase \notin {"sent", "OK"}
    BY <1>3 DEF RecvAckRetry, RecvAckError, CycleEnds, CycleFails, ErrorAcks
  <2>2. ~InProgress
    BY <1>1, <1>2, <2>1 DEF InProgress
  <2>3. QED
    BY <1>1, <1>2, <2>1, <2>2, AttemptFails
<1>4. CASE RecvAckOK(st)
  <2>1. AdvanceCursor(batchId, st.lsn) /\ UNCHANGED batchId
    BY <1>4 DEF RecvAckOK
  <2>2. /\ mem' = [mem EXCEPT ![src] = Acknowledged(mem[src], batchId, st.lsn)]
        /\ AllEntries' \subseteq AllEntries
        /\ \/ disk' = mem' /\ UNCHANGED budget
           \/ disk' = disk /\ budget' = budget - 1
        /\ pc' \notin {"send", "wait"}
    BY <2>1, AdvanceEntries DEF QInv
  <2>3. AttemptOK' /\ ~InProgress'
    BY <1>1, <1>2, <2>1, <2>2, AttemptEnds
  <2>4. CASE disk' = mem' /\ UNCHANGED budget
    <3>1. PICK b \in disk[src].pending : b.id = batchId
      BY <1>2 DEF QInv, AttemptOK
    <3>2. <<src, b>> \in AllEntries
      BY <3>1, EntriesIn, SrcType DEF QInv, TInv
    <3>3. <<src, b>> \notin AllEntries'
      <4>1. src \in Sources /\ mem \in [Sources -> Cursor]
        BY SrcType DEF QInv, TInv, StoreOK
      <4>2. \A x \in mem'[src].pending \union disk'[src].pending : x.id # batchId
        BY <2>2, <2>4, <4>1 DEF Acknowledged
      <4>3. SUFFICES ASSUME <<src, b>> \in AllEntries' PROVE FALSE
        OBVIOUS
      <4>4. PICK s \in Sources :
              \E x \in mem'[s].pending \union disk'[s].pending : <<src, b>> = <<s, x>>
        BY <4>3, EntriesInNext
      <4>5. QED
        BY <3>1, <4>2, <4>4
    <3>4. /\ IsFiniteSet(AllEntries) /\ Cardinality(AllEntries) \in Nat
          /\ IsFiniteSet(AllEntries \ {<<src, b>>})
          /\ Cardinality(AllEntries \ {<<src, b>>}) = Cardinality(AllEntries) - 1
      BY <3>2, FS_RemoveElement, FS_CardinalityType DEF QInv, EntriesPaid
    <3>5. AllEntries' \subseteq AllEntries \ {<<src, b>>}
      BY <2>2, <3>3
    <3>6. /\ IsFiniteSet(AllEntries') /\ Cardinality(AllEntries') \in Nat
          /\ Cardinality(AllEntries') <= Cardinality(AllEntries) - 1
      BY <3>4, <3>5, FS_Subset, FS_CardinalityType
    <3>7. MaxFaults \in Nat /\ budget \in Nat
      BY BudgetType DEF QInv
    <3>8. EntriesPaid'
      BY <2>3, <2>4, <3>4, <3>6, <3>7 DEF QInv, EntriesPaid
    <3>9. QED
      BY <2>3, <3>8 DEF QInv
  <2>5. CASE disk' = disk /\ budget' = budget - 1
    <3>1. EntriesPaid'
      BY <2>2, <2>5, PaidStill
    <3>2. QED
      BY <2>3, <3>1 DEF QInv
  <2>6. QED
    BY <2>2, <2>4, <2>5
<1>5. QED
  BY <1>1, <1>3, <1>4

\* The server answers or forgets a stream.  An answer that is not "OK" costs
\* a fault, and so does every failure.
LEMMA QServerStep == ASSUME QInv, TInv', ServerStep PROVE QInv'
<1>1. UNCHANGED <<storeVars, batchId, pc, cur>>
  BY DEF ServerStep, serverUnchanged, clientVars
<1>2. PICK st \in streams :
        /\ st.phase = "sent"
        /\ \/ ProcessBatch(st) \/ ProcessBatchFails(st)
           \/ CommitUnknown(st) \/ HandlerCancelled(st)
  BY DEF ServerStep
<1>3. \/ Answer(st, "OK") /\ budget' = budget
      \/ /\ \E status \in {"RETRY"} \union ErrorAcks : Answer(st, status)
         /\ budget' = budget - 1
      \/ ~Connected(st) /\ streams' = streams \ {st} /\ budget' = budget
  BY <1>2 DEF ProcessBatch, ProcessBatchFails, CommitUnknown, HandlerCancelled, Disturb, ErrorAcks
<1>4. \A x \in streams : Connected(x)' <=> Connected(x)
  BY <1>1 DEF Connected
<1>5. ASSUME NEW status, Answer(st, status)
      PROVE  AttemptOK'
  <2> DEFINE a == [st EXCEPT !.phase = status]
  <2>1. /\ a.id = st.id
        /\ streams' \subseteq (streams \ {st}) \union {a}
        /\ a \in streams' => Connected(st) \/ a \in streams
    BY <1>5 DEF Answer, QInv, TInv, ServerOK, Stream
  <2> HIDE DEF a
  <2>2. \A x, y \in streams' : x.id = y.id => x = y
    BY <2>1 DEF QInv, AttemptOK
  <2>3. \A x \in streams' : x.id <= batchId' /\ (pc' = "send" => x.id # batchId')
    BY <1>1, <2>1 DEF QInv, AttemptOK
  <2>4. \A x \in streams' : x.phase # "sent" => pc' = "wait" /\ x.id = batchId'
    BY <1>1, <2>1 DEF QInv, AttemptOK, Connected
  <2>5. pc' \in {"send", "wait"} => \E b \in disk'[src'].pending : b.id = batchId'
    BY <1>1 DEF QInv, AttemptOK, storeVars, src
  <2>6. QED
    BY <2>2, <2>3, <2>4, <2>5 DEF AttemptOK, Connected
<1>6. AllEntries' = AllEntries
  BY <1>1, SameEntries
<1>7. CASE Answer(st, "OK") /\ budget' = budget
  <2> DEFINE a == [st EXCEPT !.phase = "OK"]
  <2>1. a.id = st.id /\ a.phase = "OK"
    BY DEF QInv, TInv, ServerOK, Stream
  <2>2. streams' = (streams \ {st}) \union (IF Connected(st) THEN {a} ELSE {})
    BY <1>7 DEF Answer
  <2> HIDE DEF a
  <2>3. InProgress => InProgress'
    <3>1. SUFFICES ASSUME InProgress, pc # "send" PROVE InProgress'
      BY <1>1 DEF InProgress
    <3>2. PICK x \in streams : Connected(x) /\ x.phase \in {"sent", "OK"}
      BY <3>1 DEF InProgress
    <3>3. CASE x = st
      BY <1>1, <2>1, <2>2, <3>2, <3>3 DEF InProgress, Connected
    <3>4. CASE x # st
      BY <1>1, <2>2, <3>2, <3>4 DEF InProgress, Connected
    <3>5. QED
      BY <3>3, <3>4
  <2>4. QED
    BY <1>5, <1>6, <1>7, <2>3, PaidStill DEF QInv
<1>8. CASE /\ \E status \in {"RETRY"} \union ErrorAcks : Answer(st, status)
           /\ budget' = budget - 1
  BY <1>5, <1>6, <1>8, PaidStill DEF QInv
<1>9. CASE ~Connected(st) /\ streams' = streams \ {st} /\ budget' = budget
  <2>1. AttemptOK'
    BY <1>1, <1>9 DEF QInv, AttemptOK, Connected, storeVars, src
  <2>2. InProgress => InProgress'
    BY <1>1, <1>9 DEF InProgress, Connected
  <2>3. QED
    BY <1>6, <1>9, <2>1, <2>2, PaidStill DEF QInv
<1>10. QED
  BY <1>3, <1>7, <1>8, <1>9

LEMMA QNext == QInv /\ [Next]_vars => QInv'
<1> SUFFICES ASSUME QInv, [Next]_vars PROVE QInv'
  OBVIOUS
<1>t. TInv /\ TInv'
  BY TInvNext DEF QInv
<1>b. MaxFaults \in Nat /\ budget \in Nat
  BY BudgetType DEF QInv
<1>1. CASE HealthCheckOK \/ PollStart \/ PollFails \/ ReadTable \/ Reconnect
  <2>1. /\ pc \notin {"send", "wait"} /\ pc' \notin {"send", "wait"}
        /\ UNCHANGED <<storeVars, batchId, streams>> /\ budget' \in {budget, budget - 1}
    BY <1>1 DEF HealthCheckOK, PollStart, NextSource, PollFails, CycleFails, ReadTable, Reconnect,
                Disturb, clientVars
  <2>2. QED
    BY <1>t, <2>1, QuietStep, SameEntries
<1>2. CASE NoChanges \/ LocalSkip
  <2>1. /\ pc = "read" /\ UNCHANGED <<batchId, streams>>
        /\ \E l : AdvanceCursor(0, l)
    BY <1>2 DEF NoChanges, LocalSkip, Polled
  <2>2. /\ AllEntries' \subseteq AllEntries /\ pc' \notin {"send", "wait"}
        /\ budget' \in {budget, budget - 1}
    BY <1>t, <2>1, AdvanceEntries
  <2>3. QED
    BY <1>t, <2>1, <2>2, QuietStep
<1>3. CASE RecordBatch
  BY <1>t, <1>3, QRecordBatch
<1>4. CASE SendBatch
  BY <1>t, <1>4, QSendBatch
<1>5. CASE StreamBatchFails
  BY <1>t, <1>5, QStreamBatchFails
<1>6. CASE RecvAck
  BY <1>t, <1>6, QRecvAck
<1>7. CASE Crash \/ PowerLoss
  <2>1. /\ budget' = budget - 1 /\ pc' = "down" /\ UNCHANGED <<mem, batchId>>
        /\ streams' \subseteq streams /\ \A st \in streams' : st.phase = "sent"
        /\ disk' \in {disk, Fresh}
    BY <1>7, Abandoned DEF Crash, PowerLoss, ClientDies, Disturb
  <2>2. AttemptOK'
    BY <2>1, AttemptEnds
  <2>3. \A s \in Sources :
          /\ mem'[s].pending \subseteq mem[s].pending \union disk[s].pending
          /\ disk'[s].pending \subseteq mem[s].pending \union disk[s].pending
    BY <2>1 DEF Fresh, NoCursor
  <2>4. QED
    BY <1>t, <2>1, <2>2, <2>3, EntriesKept, PaidStill DEF QInv
<1>8. CASE Restart
  <2>1. /\ pc = "down" /\ pc' = "startup" /\ UNCHANGED <<batchId, streams, budget>>
        /\ mem' = disk /\ disk' = disk
    BY <1>8 DEF Restart, LoadState
  <2>2. AllEntries' \subseteq AllEntries
    BY <2>1, EntriesKept
  <2>3. QED
    BY <1>t, <2>1, <2>2, QuietStep
<1>9. CASE ServerStep
  BY <1>t, <1>9, QServerStep
<1>10. CASE ServerRestart
  <2>1. streams' = {} /\ budget' = budget - 1 /\ UNCHANGED <<storeVars, pc, cur, batchId>>
    BY <1>10 DEF ServerRestart, serverUnchanged, clientVars, Disturb
  <2>2. AttemptOK'
    BY <2>1 DEF QInv, AttemptOK, storeVars, src
  <2>3. QED
    BY <1>t, <2>1, <2>2, PaidStill, SameEntries DEF QInv
<1>11. CASE SourceStep \/ UNCHANGED vars
  <2>1. UNCHANGED <<storeVars, pc, cur, batchId, streams>> /\ budget' \in {budget, budget - 1}
    BY <1>11 DEF SourceStep, Disturb, vars, clientVars
  <2>2. AttemptOK' /\ (InProgress' <=> InProgress)
    BY <2>1 DEF QInv, AttemptOK, InProgress, Connected, storeVars, src
  <2>3. QED
    BY <1>t, <2>1, <2>2, PaidStill, SameEntries DEF QInv
<1>12. QED
  BY <1>1, <1>2, <1>3, <1>4, <1>5, <1>6, <1>7, <1>8, <1>9, <1>10, <1>11 DEF Next, ClientStep

-------------------------------------------------------------------------------
\* An answer on its way is that of the batch the client waits for, and that
\* batch is in the state file, however many handlers outlive their streams.
THEOREM AnswersMatch == Spec => []AckMatchesPending
<1>1. QInv => AckMatchesPending
  BY DEF QInv, AttemptOK, AckMatchesPending, Connected
<1>2. QED
  BY <1>1, QInit, QNext, PTL DEF Spec

\* The state file holds at most one entry more than there were faults.
THEOREM PendingBounded == Spec => []PendingBoundedByFailures
<1>1. ASSUME QInv PROVE PendingBoundedByFailures
  <2> DEFINE D == UNION {{<<s, b>> : b \in disk[s].pending} : s \in Sources}
  <2>1. D \subseteq AllEntries
    BY DEF AllEntries, Entries
  <2> HIDE DEF D
  <2>2. /\ IsFiniteSet(AllEntries) /\ Cardinality(AllEntries) \in Nat
        /\ Cardinality(D) <= Cardinality(AllEntries) /\ Cardinality(D) \in Nat
    BY <1>1, <2>1, FS_Subset, FS_CardinalityType DEF QInv, EntriesPaid
  <2>3. MaxFaults \in Nat /\ budget \in Nat
    BY <1>1, BudgetType DEF QInv
  <2>4. Cardinality(AllEntries) <= MaxFaults - budget + 1
    BY <1>1, <2>2, <2>3 DEF QInv, EntriesPaid
  <2>5. Cardinality(D) <= MaxFaults - budget + 1
    BY <2>2, <2>3, <2>4
  <2>6. QED
    BY <2>5 DEF PendingBoundedByFailures, D
<1>2. QED
  BY <1>1, QInit, QNext, PTL DEF Spec
===============================================================================
