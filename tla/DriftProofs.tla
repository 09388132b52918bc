------------------------------ MODULE DriftProofs ------------------------------
(***************************************************************************)
(* Operators who stop the writes before they alter a table lose no column  *)
(* of it, for every table, every alteration and every order of restarts.   *)
(***************************************************************************)
EXTENDS SchemaDrift, TLAPS

\* The lists of changes and what is known of each have the same length.
DTypeOK ==
    /\ log \in Seq(SUBSET Columns)
    /\ delivered \in Seq(SUBSET Columns)
    /\ Len(delivered) = Len(log)
    /\ cursor \in 0..Len(log)
    /\ \A i \in instances : i.from \in Nat /\ i.from <= Len(log) + 1
    /\ table \in Definition /\ schemaCache.cols \subseteq Columns

Waiting == (cursor + 1)..Len(log)

\* A client that was started after the last alteration knows the table as it is,
\* if it knows it at all.
CacheOK == running /\ ~outdated => schemaCache \in {NotCached, table}

\* While changes wait no client of before the last alteration is there, and the
\* table and an instance are as they were when the first of them was committed.
Agreed ==
    Waiting # {} =>
        /\ ~outdated
        /\ \A l \in Waiting :
              /\ log[l] = table.cols
              /\ \E i \in instances : table.cols \subseteq i.cols /\ i.from <= l

DInv == DTypeOK /\ CacheOK /\ (quiesced => Agreed /\ PassedComplete)

LEMMA DriftInit == Init => DInv
<1> SUFFICES ASSUME Init PROVE DInv
  OBVIOUS
<1>1. Original \in Definition
  BY DriftAssumption
<1>2. log = <<>> /\ delivered = <<>> /\ cursor = 0 /\ table = Original
  BY DEF Init
<1>3. log \in Seq(SUBSET Columns) /\ delivered \in Seq(SUBSET Columns)
  BY <1>2
<1>4. Len(log) = 0 /\ Len(delivered) = 0
  BY <1>2
<1>5. schemaCache.cols = {} /\ instances = {[cols |-> Original.cols, from |-> 1]}
  BY DEF Init, NotCached
<1>6. DTypeOK
  BY <1>1, <1>2, <1>3, <1>4, <1>5 DEF DTypeOK
<1>7. Agreed /\ PassedComplete
  BY <1>2, <1>4 DEF Agreed, PassedComplete, Waiting
<1>8. CacheOK
  BY DEF Init, CacheOK
<1>9. QED
  BY <1>6, <1>7, <1>8 DEF DInv

\* Without waiting changes nothing has to agree.
LEMMA NothingWaits ==
    ASSUME DTypeOK PROVE Drained <=> Waiting = {}
<1>1. Len(log) \in Nat /\ cursor \in 0..Len(log)
  BY DEF DTypeOK
<1>2. CASE Drained
  BY <1>1, <1>2 DEF Drained, Waiting
<1>3. CASE ~Drained
  <2>1. Len(log) \in Waiting
    BY <1>1, <1>3 DEF Drained, Waiting
  <2>2. QED
    BY <1>3, <2>1
<1>4. QED
  BY <1>2, <1>3

\* A cycle finds the rows of all changes that wait, with all their columns.
LEMMA RowsComplete ==
    ASSUME DTypeOK, CacheOK, Agreed, running, ~Drained
    PROVE  Schema = table /\ Rows = Waiting
<1>1. Waiting # {}
  BY NothingWaits
<1>2. Schema = table
  BY <1>1 DEF Agreed, CacheOK, Schema
<1>3. QED
  BY <1>1, <1>2 DEF Agreed, Rows, Waiting

\* A cycle looks the table up as it is, or keeps what it knows of it.
LEMMA CycleKeepsCache == ASSUME CacheOK, syncCycle PROVE CacheOK'
<1>1. running /\ schemaCache' = Schema /\ UNCHANGED <<table, outdated>>
  BY DEF syncCycle, operatorVars
<1>2. QED
  BY <1>1 DEF CacheOK, Schema

\* A cycle delivers all that waits or leaves it as it is.
LEMMA CycleKeeps == DInv /\ syncCycle => DInv'
<1> SUFFICES ASSUME DInv, syncCycle PROVE DInv'
  OBVIOUS
<1>1. /\ DTypeOK /\ CacheOK /\ CacheOK' /\ running
      /\ UNCHANGED <<quiesced, table, instances, outdated, log>>
  BY CycleKeepsCache DEF DInv, syncCycle, operatorVars
<1>2. Schema.cols \subseteq Columns /\ schemaCache' = Schema
  BY <1>1 DEF DTypeOK, Definition, Schema, syncCycle
<1>3. Len(log) \in Nat
  BY <1>1 DEF DTypeOK
<1>4. CASE PollNothing
  <2>1. UNCHANGED delivered /\ cursor' = Len(log) /\ Rows = {}
    BY <1>4 DEF PollNothing
  <2>2. DTypeOK'
    BY <1>1, <1>2, <1>3, <2>1 DEF DTypeOK
  <2>3. Waiting' = {}
    BY <1>1, <1>3, <2>1 DEF Waiting
  <2>4. quiesced => Drained
    BY <1>1, <2>1, RowsComplete, NothingWaits DEF DInv
  <2>5. quiesced => PassedComplete'
    BY <1>1, <2>1, <2>4 DEF DInv, Drained, PassedComplete
  <2>6. QED
    BY <1>1, <2>2, <2>3, <2>5 DEF DInv, Agreed
<1>5. CASE BatchAccepted
  <2> DEFINE columns(l) == IF l \in Rows THEN Schema.cols ELSE delivered[l]
  <2>1. /\ delivered' = [l \in 1..Len(log) |-> columns(l)] /\ cursor' = Len(log)
        /\ Rows # {}
    BY <1>5 DEF BatchAccepted, UpsertColumns
  <2>2. \A l \in 1..Len(log) : columns(l) \in SUBSET Columns
    BY <1>1, <1>2 DEF DTypeOK
  <2>3. delivered' \in Seq(SUBSET Columns) /\ Len(delivered') = Len(log)
    BY <1>3, <2>1, <2>2
  <2>4. DTypeOK'
    BY <1>1, <1>2, <1>3, <2>1, <2>3 DEF DTypeOK
  <2>5. Waiting' = {}
    BY <1>1, <1>3, <2>1 DEF Waiting
  <2>6. ~Drained
    BY <1>3, <2>1 DEF Rows, Drained
  <2>7. ASSUME quiesced, NEW l \in 1..Len(log)
        PROVE  delivered'[l] = log[l]
    <3>1. Schema = table /\ Rows = Waiting
      BY <1>1, <2>6, <2>7, RowsComplete DEF DInv
    <3>2. CASE l \in Waiting
      <4>1. log[l] = table.cols
        BY <2>7, <3>2 DEF DInv, Agreed
      <4>2. delivered'[l] = table.cols
        BY <2>1, <3>1, <3>2
      <4>3. QED
        BY <4>1, <4>2
    <3>3. CASE l \notin Waiting
      <4>1. l \in 1..cursor /\ delivered'[l] = delivered[l]
        BY <1>1, <2>1, <3>1, <3>3 DEF Waiting, DTypeOK
      <4>2. QED
        BY <2>7, <4>1 DEF DInv, PassedComplete
    <3>4. QED
      BY <3>2, <3>3
  <2>8. QED
    BY <1>1, <2>1, <2>4, <2>5, <2>7 DEF DInv, Agreed, PassedComplete
<1>6. CASE BatchRefused
  <2>1. UNCHANGED <<delivered, cursor>>
    BY <1>6 DEF BatchRefused
  <2>2. DTypeOK'
    BY <1>1, <1>2, <2>1 DEF DTypeOK
  <2>3. quiesced => Agreed' /\ PassedComplete'
    BY <1>1, <2>1 DEF DInv, Agreed, PassedComplete, Waiting
  <2>4. QED
    BY <1>1, <2>2, <2>3 DEF DInv
<1>7. QED
  BY <1>4, <1>5, <1>6 DEF syncCycle

\* A careful operator lets the table be written again when all agree with it.
LEMMA CommitKeeps == DInv /\ Commit => DInv'
<1> SUFFICES ASSUME DInv, Commit PROVE DInv'
  OBVIOUS
<1>1. /\ DTypeOK /\ CacheOK
      /\ log' = Append(log, table.cols) /\ delivered' = Append(delivered, {})
      /\ UNCHANGED <<quiesced, table, instances, outdated, running, cursor, schemaCache>>
      /\ quiesced => Settled /\ Agreed /\ PassedComplete
  BY DEF DInv, Commit, operatorVars
<1> table.cols \in SUBSET Columns
  BY <1>1 DEF DTypeOK, Definition
<1>2. /\ log' \in Seq(SUBSET Columns) /\ Len(log') = Len(log) + 1
      /\ log'[Len(log) + 1] = table.cols
      /\ \A l \in 1..Len(log) : log'[l] = log[l]
  BY <1>1 DEF DTypeOK
<1>3. /\ delivered' \in Seq(SUBSET Columns) /\ Len(delivered') = Len(log) + 1
      /\ \A l \in 1..Len(log) : delivered'[l] = delivered[l]
  BY <1>1 DEF DTypeOK
<1>4. Len(log) \in Nat /\ cursor \in 0..Len(log)
  BY <1>1 DEF DTypeOK
<1>5. DTypeOK'
  <2>1. \A i \in instances' : i.from \in Nat /\ i.from <= Len(log') + 1
    BY <1>1, <1>2, <1>4 DEF DTypeOK
  <2>2. QED
    BY <1>1, <1>2, <1>3, <1>4, <2>1 DEF DTypeOK
<1>6. ASSUME quiesced, NEW l \in Waiting'
      PROVE  /\ log'[l] = table.cols
             /\ \E i \in instances : table.cols \subseteq i.cols /\ i.from <= l
  <2>1. CASE l = Len(log) + 1
    BY <1>1, <1>2, <1>6, <2>1 DEF Settled, DTypeOK
  <2>2. CASE l # Len(log) + 1
    <3>1. l \in Waiting /\ l \in 1..Len(log)
      BY <1>1, <1>2, <1>4, <2>2 DEF Waiting
    <3>2. QED
      BY <1>1, <1>2, <1>6, <3>1 DEF Agreed
  <2>3. QED
    BY <2>1, <2>2
<1>7. quiesced => Agreed'
  BY <1>1, <1>6 DEF Agreed, Settled
<1>8. quiesced => PassedComplete'
  BY <1>1, <1>2, <1>3, <1>4 DEF PassedComplete
<1>9. QED
  BY <1>1, <1>5, <1>7, <1>8 DEF DInv, CacheOK

\* An alteration finds no change waiting if it is a careful operator's.
LEMMA AlterKeeps ==
    ASSUME NEW definition \in Definition, DInv, AlterTable(definition)
    PROVE  DInv'
<1>1. /\ DTypeOK /\ table' = definition /\ outdated' = (running \/ outdated)
      /\ UNCHANGED <<quiesced, instances, log, delivered, cursor, running, schemaCache>>
      /\ quiesced => Drained /\ PassedComplete
  BY DEF DInv, AlterTable, Unchanged
<1>2. DTypeOK'
  BY <1>1 DEF DTypeOK
<1>3. quiesced => Waiting' = {}
  BY <1>1, NothingWaits DEF Waiting
<1>4. quiesced => PassedComplete'
  BY <1>1 DEF PassedComplete
<1>5. CacheOK'
  BY <1>1 DEF CacheOK
<1>6. QED
  BY <1>1, <1>2, <1>3, <1>4, <1>5 DEF DInv, Agreed

LEMMA DriftStep == DInv /\ [Next]_vars => DInv'
<1> SUFFICES ASSUME DInv, [Next]_vars PROVE DInv'
  OBVIOUS
<1>1. CASE syncCycle
  BY <1>1, CycleKeeps
<1>2. CASE Commit
  BY <1>2, CommitKeeps
<1>3. CASE AddColumn
  <2>1. PICK c \in Columns : AlterTable([table EXCEPT !.cols = @ \union {c}])
    BY <1>3 DEF AddColumn
  <2>2. [table EXCEPT !.cols = @ \union {c}] \in Definition
    BY DEF DInv, DTypeOK, Definition
  <2>3. QED
    BY <2>1, <2>2, AlterKeeps
<1>4. CASE DropColumn
  <2>1. PICK c \in table.cols \ table.pk : AlterTable([table EXCEPT !.cols = @ \ {c}])
    BY <1>4 DEF DropColumn
  <2>2. [table EXCEPT !.cols = @ \ {c}] \in Definition
    BY DEF DInv, DTypeOK, Definition
  <2>3. QED
    BY <2>1, <2>2, AlterKeeps
<1>5. CASE ChangeKey
  <2>1. PICK pk \in PrimaryKeys : AlterTable([table EXCEPT !.pk = pk])
    BY <1>5 DEF ChangeKey
  <2>2. [table EXCEPT !.pk = pk] \in Definition
    BY DriftAssumption DEF DInv, DTypeOK, Definition
  <2>3. QED
    BY <2>1, <2>2, AlterKeeps
<1>6. CASE CreateInstance
  <2>1. /\ instances' = instances \union {[cols |-> table.cols, from |-> Len(log) + 1]}
        /\ UNCHANGED <<quiesced, table, outdated, log, delivered, cursor, running, schemaCache>>
    BY <1>6 DEF CreateInstance, Unchanged
  <2>2. DTypeOK'
    BY <2>1 DEF DInv, DTypeOK
  <2>3. quiesced => Agreed' /\ PassedComplete'
    BY <2>1 DEF DInv, Agreed, PassedComplete, Waiting
  <2>4. QED
    BY <2>1, <2>2, <2>3 DEF DInv, CacheOK
<1>7. CASE DropInstance
  <2>1. /\ instances' \subseteq instances
        /\ quiesced => Drained
        /\ UNCHANGED <<quiesced, table, outdated, log, delivered, cursor, running, schemaCache>>
    BY <1>7 DEF DropInstance, Unchanged
  <2>2. DTypeOK'
    BY <2>1 DEF DInv, DTypeOK
  <2>3. quiesced => Waiting' = {}
    BY <2>1, NothingWaits DEF DInv, Waiting
  <2>4. quiesced => PassedComplete'
    BY <2>1 DEF DInv, PassedComplete
  <2>5. QED
    BY <2>1, <2>2, <2>3, <2>4 DEF DInv, Agreed, CacheOK
<1>8. CASE StartClient
  <2>1. /\ schemaCache' = NotCached /\ outdated' = FALSE
        /\ UNCHANGED <<quiesced, table, instances, log, delivered, cursor>>
    BY <1>8 DEF StartClient, operatorVars
  <2>2. DTypeOK' /\ CacheOK'
    BY <2>1 DEF DInv, DTypeOK, CacheOK, NotCached
  <2>3. QED
    BY <2>1, <2>2 DEF DInv, Agreed, PassedComplete, Waiting
<1>9. CASE StopClient \/ RestartServer \/ MigrateTarget \/ UNCHANGED vars
  <2>1. /\ UNCHANGED <<quiesced, table, instances, outdated, log, delivered, cursor, schemaCache>>
        /\ running' => running
    BY <1>9 DEF StopClient, RestartServer, MigrateTarget, Unchanged, operatorVars, vars
  <2>2. QED
    BY <2>1 DEF DInv, DTypeOK, CacheOK, Agreed, PassedComplete, Waiting
<1>10. QED
  BY <1>1, <1>2, <1>3, <1>4, <1>5, <1>6, <1>7, <1>8, <1>9 DEF Next

\* Every change behind the cursor was delivered with the columns it had when it
\* was committed, if operators stop the writes, let the client catch up, alter
\* the table, make a capture instance and restart the client.
THEOREM QuiescedComplete == Spec => []PassedComplete
<1>1. DInv => PassedComplete
  BY DEF DInv, PassedComplete
<1>2. QED
  BY <1>1, DriftInit, DriftStep, PTL DEF Spec
===============================================================================
