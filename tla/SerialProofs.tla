------------------------------ MODULE SerialProofs ------------------------------
(***************************************************************************)
(* The transactions of the handlers leave the target as if they had run    *)
(* one after the other, and plain inserts apply no change twice.           *)
(***************************************************************************)
EXTENDS ServerProofs

-------------------------------------------------------------------------------
(* A row and the first n changes of a batch b                              *)

Touches(c, row) == RowOf(c) = row /\ Effective(c)

Untouched(b, n, row) == \A i \in 1..n : ~Touches(b[i], row)

LastAt(b, n, row, i) ==
    /\ i \in 1..n /\ Touches(b[i], row)
    /\ \A j \in (i + 1)..n : ~Touches(b[j], row)

FirstOf(b, n) == {b[i] : i \in 1..n}

RowOrdered(b) ==
    \A i, j \in 1..Len(b) :
        i < j /\ Effective(b[i]) /\ Effective(b[j]) /\ RowOf(b[i]) = RowOf(b[j])
            => ~Before(b[j], b[i])

LEMMA TouchesRow ==
    ASSUME NEW row \in TargetRows, NEW c \in Change
    PROVE  /\ RowOf(c) = row <=> c.tab = row[1] /\ c.key = row[2]
           /\ RowOf(c) \in TargetRows
  BY DEF TargetRows, RowOf, Change

LEMMA OfBatch ==
    ASSUME NEW b \in Seq(Change), NEW n \in 0..Len(b)
    PROVE  /\ Len(b) \in Nat /\ n \in Nat
           /\ \A i \in 1..n : i \in 1..Len(b) /\ b[i] \in Change
<1>1. Len(b) \in Nat
  BY LenProperties
<1>2. QED
  BY <1>1, ElementOfSeq

LEMMA NothingWritten ==
    ASSUME NEW b \in Seq(Change), NEW n \in 0..Len(b), NEW row \in TargetRows,
           Untouched(b, n, row)
    PROVE  Written(FirstOf(b, n), row) = {}
  BY OfBatch, TouchesRow DEF Untouched, Touches, Written, FirstOf

LEMMA Ordered ==
    ASSUME NEW c \in Change, NEW d \in Change
    PROVE  Before(c, c) /\ (Before(c, d) \/ Before(d, c))
  BY TypesAssumption DEF Before, Change, Lsn, TypesAssumption

\* In log order the last change is the one that comes last in the batch.
LEMMA LastChangeIs ==
    ASSUME NEW b \in Seq(Change), RowOrdered(b), NEW n \in 0..Len(b), NEW row \in TargetRows,
           NEW i, LastAt(b, n, row, i)
    PROVE  /\ Written(FirstOf(b, n), row) # {}
           /\ LastChange(Written(FirstOf(b, n), row)) = b[i]
<1> DEFINE w == Written(FirstOf(b, n), row)
<1>1. i \in 1..n /\ b[i] \in Change /\ n \in Nat /\ Touches(b[i], row)
  BY OfBatch DEF LastAt
<1>2. b[i] \in w
  BY <1>1, TouchesRow DEF Written, FirstOf, Touches
<1>3. ASSUME NEW c \in w PROVE \E k \in 1..n : c = b[k] /\ Touches(b[k], row) /\ k <= i
  <2>1. PICK k \in 1..n : c = b[k]
    BY DEF Written, FirstOf
  <2>2. b[k] \in Change
    BY OfBatch
  <2>3. Touches(b[k], row)
    BY <2>1, <2>2, TouchesRow DEF Written, Touches
  <2>4. k \notin (i + 1)..n
    BY <2>3 DEF LastAt
  <2>5. QED
    BY <1>1, <2>1, <2>3, <2>4
<1>4. ASSUME NEW c \in w PROVE Before(c, b[i]) /\ (Before(b[i], c) => c = b[i])
  <2>1. PICK k \in 1..n : c = b[k] /\ Touches(b[k], row) /\ k <= i
    BY <1>3
  <2>2. b[k] \in Change /\ k \in 1..Len(b) /\ i \in 1..Len(b)
    BY <1>1, OfBatch
  <2>3. k # i => ~Before(b[i], b[k])
    BY <1>1, <2>1, <2>2 DEF RowOrdered, Touches
  <2>4. QED
    BY <1>1, <2>1, <2>2, <2>3, Ordered
<1>5. LastChange(w) = b[i]
  BY <1>2, <1>4 DEF LastChange
<1>6. QED
  BY <1>2, <1>5

\* One more change.
LEMMA NextChange ==
    ASSUME NEW b, NEW n \in Nat, NEW row
    PROVE  /\ Touches(b[n + 1], row) => LastAt(b, n + 1, row, n + 1)
           /\ ~Touches(b[n + 1], row) =>
                 /\ Untouched(b, n, row) => Untouched(b, n + 1, row)
                 /\ \A i : LastAt(b, n, row, i) => LastAt(b, n + 1, row, i)
<1>1. \A i \in 1..(n + 1) : i \in 1..n \/ i = n + 1
  OBVIOUS
<1>2. (n + 1 + 1)..(n + 1) = {} /\ n + 1 \in 1..(n + 1)
  OBVIOUS
<1>3. \A i \in 1..n : \A j \in (i + 1)..(n + 1) : j \in (i + 1)..n \/ j = n + 1
  OBVIOUS
<1>4. 1..n \subseteq 1..(n + 1)
  OBVIOUS
<1>5. Touches(b[n + 1], row) => LastAt(b, n + 1, row, n + 1)
  BY <1>2 DEF LastAt
<1>6. ~Touches(b[n + 1], row) /\ Untouched(b, n, row) => Untouched(b, n + 1, row)
  BY <1>1 DEF Untouched
<1>7. ASSUME ~Touches(b[n + 1], row), NEW i, LastAt(b, n, row, i)
      PROVE  LastAt(b, n + 1, row, i)
  BY <1>3, <1>4, <1>7 DEF LastAt
<1>8. QED
  BY <1>5, <1>6, <1>7

-------------------------------------------------------------------------------
(* The invariant                                                           *)

\* What the transaction of h has done to a row.  A row that its statements
\* touched and that it has not written is one that deletes did not find.
RowOK(h, row) ==
    LET b == call[h].batch
        n == call[h].stmt
    IN  /\ Untouched(b, n, row) \/ \E i \in 1..n : LastAt(b, n, row, i)
        /\ row \in DOMAIN written[h] =>
              \E i \in 1..n :
                 /\ LastAt(b, n, row, i)
                 /\ \/ written[h][row] = VersionOf(b[i])
                    \/ b[i].op = "DELETE" /\ (~Present(written[h][row]) \/ row[1] \in Keyless)
        /\ row \notin DOMAIN written[h] =>
              \A i \in 1..n : Touches(b[i], row) =>
                 /\ b[i].op = "DELETE"
                 /\ row[1] \in Keyless \/ ~Present(target[row]) \/ row \in overlooked

Executing(h) ==
    /\ call[h].stmt <= Len(call[h].batch)
    /\ \A row \in TargetRows : RowOK(h, row)

HandlerTx(h) ==
    /\ h \in open <=> call[h].pc = "exec"
    /\ call[h].pc # "exec" => written[h] = NoRows
    /\ call[h].pc = "exec" => Executing(h)

TxInv ==
    /\ idempotent \in BOOLEAN /\ open \subseteq Handlers
    /\ written = [h \in Handlers |-> written[h]]
    /\ \A h \in Handlers : HandlerTx(h)
    /\ \A g, h \in Handlers : g # h => DOMAIN written[g] \intersect DOMAIN written[h] = {}
    /\ TargetIsSerial

BInv == StreamInv /\ TxInv

LEMMA BatchOrdered ==
    ASSUME StreamInv, NEW h \in Handlers, call[h].pc = "exec"
    PROVE  RowOrdered(call[h].batch) /\ call[h].batch \in Seq(Change)
<1> DEFINE m == sent[h]
           c == call[h]
<1>1. Typed /\ StreamOK(h) /\ InLogOrder(m) /\ c.batch \in Seq(Change)
  BY ServerAssumption, CallType DEF StreamInv, Typed, ServerAssumption
<1>2. PICK s \in Starts(m) : Holds(m, s, c)
  BY <1>1 DEF StreamOK
<1>3. /\ s \in Nat /\ s >= 1 /\ c.got \in s..Len(m) /\ Len(c.batch) = c.got - s + 1
      /\ Len(m) \in Nat
  BY <1>1, <1>2, SentType DEF Holds, OneBatch, Starts
<1>4. ASSUME NEW k \in 1..Len(c.batch)
      PROVE  /\ s + k - 1 \in 1..Len(m) /\ c.batch[k] = m[s + k - 1].change
             /\ m[s + k - 1].batch = c.id
  <2>1. s + k - 1 \in s..c.got /\ s + k - 1 \in 1..Len(m)
    BY <1>3
  <2>2. QED
    BY <1>2, <2>1 DEF Holds
<1>5. ASSUME NEW i \in 1..Len(c.batch), NEW j \in 1..Len(c.batch), i < j,
             Effective(c.batch[i]), Effective(c.batch[j]),
             RowOf(c.batch[i]) = RowOf(c.batch[j])
      PROVE  ~Before(c.batch[j], c.batch[i])
  <2>1. PICK x \in 1..Len(m), y \in 1..Len(m) :
           /\ x < y /\ m[x].batch = m[y].batch
           /\ m[x].change = c.batch[i] /\ m[y].change = c.batch[j]
    <3>1. s + i - 1 < s + j - 1
      BY <1>3, <1>5
    <3>2. QED
      BY <1>4, <3>1
  <2>2. QED
    BY <1>1, <1>5, <2>1 DEF InLogOrder
<1>6. QED
  BY <1>1, <1>5 DEF RowOrdered

-------------------------------------------------------------------------------
(* Steps that leave the rows alone                                         *)

SameRows == UNCHANGED <<target, serial, overlooked, idempotent>>

LEMMA SerialStays == ASSUME TargetIsSerial, SameRows PROVE TargetIsSerial'
  BY DEF TargetIsSerial, SameRows

\* The rest of HandlerTx depends on what h itself has written and executed.
LEMMA HandlerTxStays ==
    ASSUME NEW g \in Handlers, HandlerTx(g), UNCHANGED target,
           overlooked \subseteq overlooked', written'[g] = written[g],
           g \in open' <=> g \in open, call'[g].pc = "exec" <=> call[g].pc = "exec",
           call[g].pc = "exec" => /\ call'[g].batch = call[g].batch
                                  /\ call'[g].stmt = call[g].stmt
    PROVE  HandlerTx(g)'
  BY DEF HandlerTx, Executing, RowOK

LEMMA TxStays ==
    ASSUME TxInv, SameRows, UNCHANGED <<open, written>>,
           \A g \in Handlers :
              /\ call'[g].pc = "exec" <=> call[g].pc = "exec"
              /\ call[g].pc = "exec" => /\ call'[g].batch = call[g].batch
                                        /\ call'[g].stmt = call[g].stmt
    PROVE  TxInv'
<1>1. \A g \in Handlers : HandlerTx(g)'
  BY HandlerTxStays DEF TxInv, SameRows
<1>2. QED
  BY <1>1, SerialStays DEF TxInv, SameRows

\* A transaction that ends unwritten.
LEMMA RollbackKeeps ==
    ASSUME TxInv, NEW h \in Handlers, Rollback(h), SameRows,
           call'[h].pc = "answer", \A g \in Handlers \ {h} : call'[g] = call[g]
    PROVE  TxInv'
<1>1. /\ written' = [g \in Handlers |-> IF g = h THEN NoRows ELSE written[g]]
      /\ open' = open \ {h} /\ UNCHANGED target
  BY DEF Rollback, EndTransaction, TxInv
<1>2. HandlerTx(h)'
  BY <1>1 DEF HandlerTx
<1>3. \A g \in Handlers \ {h} : HandlerTx(g)'
  BY <1>1, HandlerTxStays DEF TxInv, SameRows
<1>4. DOMAIN NoRows = {}
  BY DEF NoRows
<1>5. \A f, g \in Handlers : f # g => DOMAIN written'[f] \intersect DOMAIN written'[g] = {}
  BY <1>1, <1>4 DEF TxInv
<1>6. QED
  BY <1>1, <1>2, <1>3, <1>5, SerialStays DEF TxInv, SameRows

LEMMA ProcessEndsTx ==
    ASSUME TxInv, Typed, ProcessEnds, UNCHANGED idempotent PROVE TxInv'
<1>1. /\ written' = [g \in Handlers |-> NoRows] /\ open' = {} /\ SameRows
      /\ DOMAIN NoRows = {}
  BY DEF ProcessEnds, SameRows, historyVars, NoRows
<1>2. \A h \in Handlers : call'[h].pc = "done"
  BY DEF ProcessEnds, Typed, Call
<1>3. \A h \in Handlers : HandlerTx(h)'
  BY <1>1, <1>2 DEF HandlerTx
<1>4. \A h \in Handlers : written'[h] = NoRows
  BY <1>1
<1>5. QED
  BY <1>1, <1>3, <1>4, SerialStays DEF TxInv, SameRows

-------------------------------------------------------------------------------
(* Steps of a transaction                                                  *)

LEMMA BeginKeeps ==
    ASSUME BInv, NEW h \in Handlers, BeginTransaction(h), UNCHANGED idempotent
    PROVE  TxInv'
<1>1. /\ Typed /\ TxInv /\ HandlerTx(h) /\ call[h].pc = "begin" /\ written[h] = NoRows
      /\ SameRows /\ UNCHANGED written /\ open' = open \union {h}
  BY DEF BInv, StreamInv, TxInv, HandlerTx, BeginTransaction, Begin, SameRows, historyVars
<1>2. /\ call'[h].pc = "exec" /\ call'[h].stmt = 0 /\ call'[h].batch \in Seq(Change)
      /\ \A g \in Handlers \ {h} : call'[g] = call[g]
  BY <1>1, SetExec, CallType DEF BeginTransaction, SameBatch, OnlyCall
<1>3. Executing(h)'
  <2>1. 0 <= Len(call'[h].batch)
    BY <1>2, LenProperties
  <2>2. DOMAIN NoRows = {}
    BY DEF NoRows
  <2>3. \A row \in TargetRows : RowOK(h, row)'
    BY <1>1, <1>2, <2>2 DEF RowOK, Untouched
  <2>4. QED
    BY <1>2, <2>1, <2>3 DEF Executing
<1>4. HandlerTx(h)'
  BY <1>1, <1>2, <1>3 DEF HandlerTx
<1>5. \A g \in Handlers \ {h} : HandlerTx(g)'
  BY <1>1, <1>2, HandlerTxStays DEF TxInv, SameRows
<1>6. QED
  BY <1>1, <1>4, <1>5, SerialStays DEF TxInv, SameRows

\* A statement writes its row, or it is a delete that finds nothing, or a
\* before image.
LEMMA StatementOutcome ==
    ASSUME TxInv, NEW h \in Handlers, NEW c \in Change, NEW mode \in BOOLEAN,
           ApplyChange(h, c, mode)
    PROVE  /\ UNCHANGED <<target, open>>
           /\ \/ /\ Effective(c) /\ ~Locked(h, RowOf(c))
                 /\ c.op # "DELETE" /\ ~mode => ~Present(Visible(h, RowOf(c)))
                 /\ written' = [g \in Handlers |->
                       IF g = h THEN [row \in DOMAIN written[h] \union {RowOf(c)} |->
                                        IF row = RowOf(c) THEN VersionOf(c) ELSE written[h][row]]
                       ELSE written[g]]
              \/ written' = written /\ c.op = "DELETE" /\ DeletesNothing(h, c)
              \/ written' = written /\ ~Effective(c)
<1>1. c.op \in {"DELETE", "INSERT", "UPDATE_OLD", "UPDATE_NEW"}
  BY DEF Change, Operations
<1>2. CASE c.op = "UPDATE_OLD"
  BY <1>2 DEF ApplyChange, Effective, writerVars
<1>3. CASE c.op = "DELETE" /\ DeletesNothing(h, c)
  BY <1>3 DEF ApplyChange, delete, writerVars
<1>4. ASSUME Effective(c), Write(h, c)
      PROVE  /\ UNCHANGED <<target, open>> /\ ~Locked(h, RowOf(c))
             /\ written' = [g \in Handlers |->
                    IF g = h THEN [row \in DOMAIN written[h] \union {RowOf(c)} |->
                                     IF row = RowOf(c) THEN VersionOf(c) ELSE written[h][row]]
                    ELSE written[g]]
  BY <1>4 DEF Write, TxInv
<1>5. CASE c.op = "DELETE" /\ ~DeletesNothing(h, c)
  BY <1>4, <1>5 DEF ApplyChange, delete, Effective
<1>6. CASE c.op \in {"INSERT", "UPDATE_NEW"}
  BY <1>4, <1>6 DEF ApplyChange, upsert, insert, Effective
<1>7. QED
  BY <1>1, <1>2, <1>3, <1>5, <1>6

LEMMA ExecuteKeeps ==
    ASSUME BInv, NEW h \in Handlers, Execute(h), UNCHANGED idempotent
    PROVE  TxInv'
<1> DEFINE b == call[h].batch
           n == call[h].stmt
           c == b[n + 1]
<1>1. /\ Typed /\ TxInv /\ HandlerTx(h) /\ call[h].pc = "exec" /\ Executing(h)
      /\ h \in open
  BY DEF BInv, StreamInv, TxInv, HandlerTx, Execute, InLoop
<1>2. /\ b \in Seq(Change) /\ n \in Nat /\ Len(b) \in Nat /\ n + 1 <= Len(b)
      /\ n + 1 \in 1..Len(b) /\ c \in Change
  <2>1. b \in Seq(Change) /\ n \in Nat /\ Len(b) \in Nat /\ n < Len(b)
    BY <1>1, CallType, LenProperties DEF Execute, InLoop
  <2>2. n + 1 \in 1..Len(b)
    BY <2>1
  <2>3. QED
    BY <2>1, <2>2, ElementOfSeq
<1>3. /\ call'[h].pc = "exec" /\ call'[h].stmt = n + 1 /\ call'[h].batch = b
      /\ \A g \in Handlers \ {h} : call'[g] = call[g]
  BY <1>1, SetStmt DEF Execute, SameBatch, OnlyCall
<1>4. ApplyChange(h, c, idempotent) /\ idempotent \in BOOLEAN
  BY <1>1 DEF Execute, Statement, TxInv
<1>5. /\ UNCHANGED <<target, open>>
      /\ \/ /\ Effective(c) /\ ~Locked(h, RowOf(c))
            /\ written' = [g \in Handlers |->
                  IF g = h THEN [row \in DOMAIN written[h] \union {RowOf(c)} |->
                                   IF row = RowOf(c) THEN VersionOf(c) ELSE written[h][row]]
                  ELSE written[g]]
         \/ written' = written /\ c.op = "DELETE" /\ DeletesNothing(h, c)
         \/ written' = written /\ ~Effective(c)
  BY <1>1, <1>2, <1>4, StatementOutcome
<1>6. SameRows
  BY <1>5 DEF Execute, SameRows, historyVars
<1>7. ASSUME NEW row \in TargetRows PROVE RowOK(h, row)'
  <2>1. RowOK(h, row)
    BY <1>1 DEF Executing
  <2>2. CASE Touches(c, row)
    <3>1. LastAt(b, n + 1, row, n + 1) /\ n + 1 \in 1..(n + 1)
      <4>1. Touches(b[n + 1], row) /\ n \in Nat
        BY <1>2, <2>2
      <4>2. LastAt(b, n + 1, row, n + 1)
        BY ONLY <4>1, NextChange
      <4>3. QED
        BY <4>1, <4>2
    <3>2. CASE row \in DOMAIN written'[h] /\ written'[h][row] = VersionOf(c)
      BY <1>3, <3>1, <3>2 DEF RowOK
    <3>3. CASE written' = written /\ c.op = "DELETE" /\ DeletesNothing(h, c)
      <4>1. row[1] = c.tab
        BY <1>2, <2>2, TouchesRow DEF Touches
      <4>2. row[1] \in Keyless \/ ~Present(Visible(h, row))
        BY <2>2, <3>3, <4>1 DEF DeletesNothing, Touches
      <4>3. CASE row \in DOMAIN written[h]
        BY <1>3, <3>1, <3>3, <4>2, <4>3 DEF RowOK, Visible
      <4>4. CASE row \notin DOMAIN written[h]
        <5>1. \A i \in 1..(n + 1) : i \in 1..n \/ i = n + 1
          BY <1>2
        <5>2. \A i \in 1..n : Touches(b[i], row) => b[i].op = "DELETE"
          BY <2>1, <4>4 DEF RowOK
        <5>3. row[1] \in Keyless \/ ~Present(target[row])
          BY <4>2, <4>4 DEF Visible
        <5>4. QED
          BY <1>3, <1>5, <3>1, <3>3, <4>4, <5>1, <5>2, <5>3 DEF RowOK
      <4>5. QED
        BY <4>3, <4>4
    <3>4. QED
      BY <1>1, <1>5, <2>2, <3>2, <3>3 DEF Touches
  <2>3. CASE ~Touches(c, row)
    <3>1. /\ row \in DOMAIN written'[h] <=> row \in DOMAIN written[h]
          /\ row \in DOMAIN written[h] => written'[h][row] = written[h][row]
      BY <1>1, <1>5, <2>3 DEF Touches
    <3>2. /\ Untouched(b, n, row) => Untouched(b, n + 1, row)
          /\ \A i : LastAt(b, n, row, i) => LastAt(b, n + 1, row, i)
      BY <1>2, <2>3, NextChange
    <3>3. /\ \A i \in 1..n : i \in 1..(n + 1)
          /\ \A i \in 1..(n + 1) : Touches(b[i], row) => i \in 1..n
      <4>1. \A i \in 1..(n + 1) : i \in 1..n \/ i = n + 1
        BY <1>2
      <4>2. \A i \in 1..n : i \in 1..(n + 1)
        BY <1>2
      <4>3. QED
        BY <2>3, <4>1, <4>2
    <3>4. QED
      BY <1>3, <1>5, <1>6, <2>1, <3>1, <3>2, <3>3 DEF RowOK, SameRows
  <2>4. QED
    BY <2>2, <2>3
<1>8. HandlerTx(h)'
  BY <1>1, <1>2, <1>3, <1>5, <1>7 DEF HandlerTx, Executing
<1>9. \A g \in Handlers \ {h} : written'[g] = written[g]
  BY <1>5
<1>10. \A g \in Handlers \ {h} : HandlerTx(g)'
  BY <1>1, <1>3, <1>5, <1>6, <1>9, HandlerTxStays DEF TxInv, SameRows
<1>11. \A g \in Handlers \ {h} : DOMAIN written'[g] \intersect DOMAIN written'[h] = {}
  <2>1. \A g \in Handlers \ {h} : DOMAIN written[g] \intersect DOMAIN written[h] = {}
    BY <1>1 DEF TxInv
  <2>2. CASE written' = written
    BY <2>1, <2>2
  <2>3. CASE ~Locked(h, RowOf(c)) /\ DOMAIN written'[h] = DOMAIN written[h] \union {RowOf(c)}
    BY <1>9, <2>1, <2>3 DEF Locked
  <2>4. QED
    BY <1>1, <1>5, <2>2, <2>3
<1>12. \A f, g \in Handlers : f # g => DOMAIN written'[f] \intersect DOMAIN written'[g] = {}
  BY <1>1, <1>9, <1>11 DEF TxInv
<1>13. QED
  BY <1>1, <1>5, <1>6, <1>8, <1>10, <1>12, SerialStays DEF TxInv, SameRows

\* The rows that a delete of g should have left deleted.
LEMMA DeletedRow ==
    ASSUME StreamInv, NEW g \in Handlers, call[g].pc = "exec", Executing(g),
           NEW row \in TargetRows, NEW i \in 1..call[g].stmt,
           LastAt(call[g].batch, call[g].stmt, row, i), call[g].batch[i].op = "DELETE"
    PROVE  row \in Deleted(g)
<1> DEFINE b == call[g].batch
           n == call[g].stmt
<1>1. RowOrdered(b) /\ b \in Seq(Change) /\ n \in 0..Len(b)
  <2>1. n \in Nat /\ Len(b) \in Nat
    BY BatchOrdered, CallType, LenProperties DEF StreamInv
  <2>2. QED
    BY <2>1, BatchOrdered DEF Executing
<1>2. /\ Written(FirstOf(b, n), row) # {}
      /\ LastChange(Written(FirstOf(b, n), row)) = b[i]
  BY <1>1, LastChangeIs
<1>3. QED
  BY <1>2 DEF Deleted, FirstOf

\* At the commit of h each row of the target becomes what it becomes in the
\* serial history, or it is one that a delete overlooked.
LEMMA CommitsSerially ==
    ASSUME BInv, NEW h \in Handlers, Done(h), Committed(h), NEW row \in TargetRows
    PROVE  \/ target'[row] = serial'[row]
           \/ ~Present(target'[row]) /\ ~Present(serial'[row])
           \/ row \in overlooked'
<1> DEFINE b == call[h].batch
           n == call[h].stmt
<1>1. /\ StreamInv /\ TxInv /\ Typed /\ call[h].pc = "exec" /\ Executing(h) /\ RowOK(h, row)
      /\ h \in open
  BY DEF BInv, StreamInv, TxInv, HandlerTx, Done, Executing
<1>2. n \in 0..Len(b) /\ n = Len(b) /\ RowOrdered(b) /\ b \in Seq(Change)
  <2>1. n \in Nat /\ Len(b) \in Nat /\ n <= Len(b) /\ ~(n < Len(b))
    BY <1>1, BatchOrdered, CallType, LenProperties DEF Executing, Done, InLoop
  <2>2. QED
    BY <1>1, <2>1, BatchOrdered
<1>3. ToSet(b) = FirstOf(b, n)
  BY <1>2, LenProperties DEF ToSet, FirstOf
<1>4. target'[row] = Visible(h, row)
  BY DEF Committed, Commit
<1>5. serial'[row] = IF Written(FirstOf(b, n), row) = {} THEN serial[row]
                     ELSE VersionOf(LastChange(Written(FirstOf(b, n), row)))
  BY <1>3 DEF Committed, ApplyTo
<1>6. /\ overlooked \subseteq overlooked'
      /\ row \in Deleted(h) /\ Present(Visible(h, row)) /\ row[1] \in Keyless
            => row \in overlooked'
  BY DEF Committed
<1>7. CASE Untouched(b, n, row)
  <2>1. serial'[row] = serial[row]
    BY <1>2, <1>5, <1>7, NothingWritten
  <2>2. row \notin DOMAIN written[h]
    BY <1>1, <1>7 DEF RowOK, Untouched, LastAt
  <2>3. target'[row] = target[row]
    BY <1>4, <2>2 DEF Visible
  <2>4. QED
    BY <1>1, <1>6, <2>1, <2>3 DEF TxInv, TargetIsSerial
<1>8. ASSUME NEW i \in 1..n, LastAt(b, n, row, i)
      PROVE  \/ target'[row] = serial'[row]
             \/ ~Present(target'[row]) /\ ~Present(serial'[row])
             \/ row \in overlooked'
  <2>1. serial'[row] = VersionOf(b[i])
    BY <1>2, <1>5, <1>8, LastChangeIs
  <2>2. b[i].op = "DELETE" => row \in Deleted(h) /\ ~Present(serial'[row])
    BY <1>1, <1>8, <2>1, DeletedRow DEF Present, VersionOf
  <2>3. CASE row \in DOMAIN written[h]
    <3>1. PICK j \in 1..n :
             /\ LastAt(b, n, row, j)
             /\ \/ written[h][row] = VersionOf(b[j])
                \/ b[j].op = "DELETE" /\ (~Present(written[h][row]) \/ row[1] \in Keyless)
      BY <1>1, <2>3 DEF RowOK
    <3>2. j = i
      <4>1. ~(i < j) /\ ~(j < i)
        BY <1>2, <1>8, <3>1 DEF LastAt
      <4>2. QED
        BY <1>2, <4>1
    <3>3. target'[row] = written[h][row] /\ Visible(h, row) = written[h][row]
      BY <1>4, <2>3 DEF Visible
    <3>4. QED
      BY <1>6, <2>1, <2>2, <3>1, <3>2, <3>3
  <2>4. CASE row \notin DOMAIN written[h]
    <3>1. /\ b[i].op = "DELETE"
          /\ row[1] \in Keyless \/ ~Present(target[row]) \/ row \in overlooked
      BY <1>1, <1>8, <2>4 DEF RowOK, LastAt
    <3>2. target'[row] = target[row] /\ Visible(h, row) = target[row]
      BY <1>4, <2>4 DEF Visible
    <3>3. QED
      BY <1>6, <2>2, <3>1, <3>2
  <2>5. QED
    BY <2>3, <2>4
<1>9. QED
  BY <1>1, <1>7, <1>8 DEF RowOK

\* A commit of h takes a row away from under a delete of g that found none.
LEMMA OthersAtCommit ==
    ASSUME BInv, NEW h \in Handlers, Committed(h), UNCHANGED idempotent,
           NEW g \in Handlers \ {h}, call'[g] = call[g]
    PROVE  HandlerTx(g)'
<1> DEFINE b == call[g].batch
           n == call[g].stmt
<1>1. /\ StreamInv /\ HandlerTx(g)
      /\ written' = [f \in Handlers |-> IF f = h THEN NoRows ELSE written[f]]
      /\ open' = open \ {h}
      /\ \A row \in TargetRows : target'[row] = Visible(h, row)
      /\ overlooked \subseteq overlooked'
      /\ \A row \in DOMAIN written[h] :
            (\E f \in open \ {h} : row \in Unguarded(f)) => row \in overlooked'
  BY DEF BInv, TxInv, Committed, Commit, EndTransaction
<1>2. written'[g] = written[g] /\ (g \in open' <=> g \in open)
  BY <1>1
<1>3. SUFFICES ASSUME call[g].pc = "exec" PROVE Executing(g)'
  BY <1>1, <1>2 DEF HandlerTx
<1>4. Executing(g) /\ g \in open \ {h}
  BY <1>1, <1>3 DEF HandlerTx
<1>5. ASSUME NEW row \in TargetRows PROVE RowOK(g, row)'
  <2>1. RowOK(g, row)
    BY <1>4 DEF Executing
  <2>2. ASSUME row \notin DOMAIN written[g], NEW i \in 1..n, Touches(b[i], row)
        PROVE  row[1] \in Keyless \/ ~Present(target'[row]) \/ row \in overlooked'
    <3>1. /\ \A j \in 1..n : Touches(b[j], row) => b[j].op = "DELETE"
          /\ row[1] \in Keyless \/ ~Present(target[row]) \/ row \in overlooked
      BY <2>1, <2>2 DEF RowOK
    <3>2. CASE row \notin DOMAIN written[h]
      BY <1>1, <3>1, <3>2 DEF Visible
    <3>3. CASE row \in DOMAIN written[h]
      <4>1. PICK k \in 1..n : LastAt(b, n, row, k)
        BY <2>1, <2>2 DEF RowOK, Untouched
      <4>2. b[k].op = "DELETE"
        BY <3>1, <4>1 DEF LastAt
      <4>3. row \in Deleted(g)
        BY <1>1, <1>3, <1>4, <4>1, <4>2, DeletedRow
      <4>4. row \in Unguarded(g)
        BY <2>2, <4>3 DEF Unguarded
      <4>5. QED
        BY <1>1, <1>4, <3>3, <4>4
    <3>4. QED
      BY <3>2, <3>3
  <2>3. QED
    BY <1>2, <2>1, <2>2 DEF RowOK
<1>6. QED
  BY <1>4, <1>5 DEF Executing

LEMMA CommitKeeps ==
    ASSUME BInv, NEW h \in Handlers, Done(h), Committed(h), UNCHANGED idempotent,
           call'[h].pc = "answer", \A g \in Handlers \ {h} : call'[g] = call[g]
    PROVE  TxInv'
<1>1. /\ TxInv /\ written' = [g \in Handlers |-> IF g = h THEN NoRows ELSE written[g]]
      /\ open' = open \ {h} /\ DOMAIN NoRows = {}
  BY DEF BInv, TxInv, Committed, Commit, EndTransaction, NoRows
<1>2. HandlerTx(h)'
  BY <1>1 DEF HandlerTx
<1>3. \A g \in Handlers \ {h} : HandlerTx(g)'
  BY OthersAtCommit
<1>4. \A f, g \in Handlers : f # g => DOMAIN written'[f] \intersect DOMAIN written'[g] = {}
  BY <1>1 DEF TxInv
<1>5. TargetIsSerial'
  BY CommitsSerially DEF TargetIsSerial
<1>6. QED
  BY <1>1, <1>2, <1>3, <1>4, <1>5 DEF TxInv

-------------------------------------------------------------------------------
(* The first theorem                                                       *)

\* Outside of a transaction a handler changes its own locals only.
LEMMA OutsideKeeps ==
    ASSUME BInv, NEW h \in Handlers, UNCHANGED idempotent,
           \/ Receive(h) \/ EndBatch(h) \/ EndOfStream(h) \/ ReceiveFails(h) \/ SendAck(h)
    PROVE  TxInv'
<1>1. Typed /\ TxInv
  BY DEF BInv, StreamInv
<1>2. SameRows /\ UNCHANGED <<open, written>>
  BY DEF Receive, EndBatch, EndOfStream, ReceiveFails, SendAck, writerVars, historyVars, SameRows
<1>3. call[h].pc # "exec" /\ call'[h].pc # "exec" /\ \A g \in Handlers \ {h} : call'[g] = call[g]
  <2>1. CASE Receive(h)
    BY <1>1, <2>1 DEF Receive, Typed, Call
  <2>2. CASE EndBatch(h) \/ EndOfStream(h) \/ ReceiveFails(h)
    BY <1>1, <2>2 DEF EndBatch, EndOfStream, ReceiveFails, Goto, Typed, Call
  <2>3. CASE SendAck(h)
    BY <1>1, <2>3 DEF SendAck, Goto, Typed, Call
  <2>4. QED
    BY <2>1, <2>2, <2>3
<1>4. QED
  BY <1>1, <1>2, <1>3, TxStays

LEMMA FailKeeps ==
    ASSUME BInv, NEW h \in Handlers, NEW cause, Fail(h, cause), UNCHANGED idempotent
    PROVE  TxInv'
<1>1. Typed /\ TxInv
  BY DEF BInv, StreamInv
<1>2. SameRows /\ Rollback(h)
  BY DEF Fail, Rollback, SameRows, historyVars
<1>3. call'[h].pc = "answer" /\ \A g \in Handlers \ {h} : call'[g] = call[g]
  BY <1>1 DEF Fail, Typed, Call
<1>4. QED
  BY <1>1, <1>2, <1>3, RollbackKeeps

LEMMA CommitEnds ==
    ASSUME BInv, NEW h \in Handlers, CommitTransaction(h) \/ CommitUnknown(h),
           UNCHANGED idempotent
    PROVE  TxInv'
<1>1. Typed /\ TxInv /\ Done(h)
  BY DEF BInv, StreamInv, CommitTransaction, CommitUnknown
<1>2. call'[h].pc = "answer" /\ \A g \in Handlers \ {h} : call'[g] = call[g]
  BY <1>1 DEF CommitTransaction, CommitUnknown, Typed, Call
<1>3. CASE Committed(h)
  BY <1>1, <1>2, <1>3, CommitKeeps
<1>4. CASE Rollback(h) /\ UNCHANGED historyVars
  <2>1. SameRows
    BY <1>4 DEF Rollback, SameRows, historyVars
  <2>2. QED
    BY <1>1, <1>2, <1>4, <2>1, RollbackKeeps
<1>5. QED
  BY <1>3, <1>4 DEF CommitTransaction, CommitUnknown

LEMMA TxInit == Init => TxInv
<1> SUFFICES ASSUME Init PROVE TxInv
  OBVIOUS
<1>1. DOMAIN NoRows = {}
  BY DEF NoRows
<1>2. \A h \in Handlers : HandlerTx(h)
  BY DEF Init, HandlerTx, NoCall
<1>3. TargetIsSerial
  BY DEF Init, TargetIsSerial
<1>4. idempotent \in BOOLEAN
  BY ServerAssumption DEF Init, ServerAssumption
<1>5. QED
  BY <1>1, <1>2, <1>3, <1>4 DEF Init, TxInv

LEMMA TxNext == BInv /\ [Next]_vars => TxInv'
<1> SUFFICES ASSUME BInv, [Next]_vars PROVE TxInv'
  OBVIOUS
<1>1. TxInv /\ Typed
  BY DEF BInv, StreamInv
<1>2. ASSUME NEW h \in Handlers, HandlerStep(h) PROVE TxInv'
  <2>1. UNCHANGED idempotent
    BY <1>2 DEF HandlerStep
  <2>2. CASE \/ Receive(h) \/ EndBatch(h) \/ EndOfStream(h) \/ ReceiveFails(h)
             \/ SendAck(h)
    BY <2>1, <2>2, OutsideKeeps
  <2>3. CASE BeginTransaction(h)
    BY <2>1, <2>3, BeginKeeps
  <2>4. CASE Execute(h)
    BY <2>1, <2>4, ExecuteKeeps
  <2>5. CASE FindKey(h)
    BY <1>1, <2>1, <2>5, TxStays DEF FindKey, LookUpKey, SameRows, historyVars
  <2>6. CASE ApplyChangesFails(h) \/ Cancelled(h)
    BY <2>1, <2>6, FailKeeps DEF ApplyChangesFails, Cancelled
  <2>7. CASE CommitTransaction(h) \/ CommitUnknown(h)
    BY <2>1, <2>7, CommitEnds
  <2>8. QED
    BY <1>2, <2>2, <2>3, <2>4, <2>5, <2>6, <2>7 DEF HandlerStep
<1>3. CASE UNCHANGED <<open, written, call>> /\ SameRows
  BY <1>1, <1>3, TxStays
<1>4. ASSUME NEW h \in Handlers, GiveUp(h) PROVE UNCHANGED <<open, written, call>> /\ SameRows
  BY <1>4 DEF GiveUp, writerVars, historyVars, SameRows
<1>5. Signal => UNCHANGED <<open, written, call>> /\ SameRows
  BY DEF Signal, historyVars, SameRows
<1>6. UNCHANGED vars => UNCHANGED <<open, written, call>> /\ SameRows
  BY DEF vars, writerVars, historyVars, SameRows
<1>7. CASE Exit \/ Crash
  BY <1>1, <1>7, ProcessEndsTx DEF Exit, Crash, ProcessEnds
<1>8. QED
  BY <1>2, <1>3, <1>4, <1>5, <1>6, <1>7 DEF Next

LEMMA BInvInit == Init => BInv
  BY StreamInit, TxInit DEF BInv

LEMMA BInvNext == BInv /\ [Next]_vars => BInv'
  BY StreamNext, TxNext DEF BInv

\* Each row of the target is what a serial execution of the committed batches,
\* in the order of their commits, makes of it: for any number of handlers that
\* write at once, of any tables, with upserts or plain inserts, through failed,
\* cancelled and unconfirmed transactions and a crash.  The exception are the
\* rows that a delete overlooked, which the history names.
THEOREM CommitsAreSerial == Spec => []TargetIsSerial
<1>1. BInv => TargetIsSerial
  BY DEF BInv, TxInv
<1>2. QED
  BY <1>1, BInvInit, BInvNext, PTL DEF Spec

-------------------------------------------------------------------------------
(* Plain inserts                                                           *)

Inserts(S, row) == \E c \in S : RowOf(c) = row /\ c.op \in {"INSERT", "UPDATE_NEW"}
Deletes(S, row) == \E c \in S : RowOf(c) = row /\ c.op = "DELETE"

\* Every commit that inserted the row was followed by its deletion, if only in
\* the same batch.
DeletedSince(row) ==
    \A i \in 1..Len(commits) :
        Inserts(commits[i].changes, row)
            => \E k \in i..Len(commits) : Deletes(commits[k].changes, row)

Executed(h) == FirstOf(call[h].batch, call[h].stmt)

InsertsGuarded(h) ==
    \A row \in TargetRows :
        Inserts(Executed(h), row) => Deletes(Executed(h), row) \/ DeletedSince(row)

OnceInv ==
    /\ \A row \in TargetRows : Present(target[row]) \/ DeletedSince(row)
    /\ ~idempotent => \A h \in open : InsertsGuarded(h)
    /\ AppliedOnce

LEMMA AbsentDeleted ==
    ASSUME NEW h \in Handlers, NEW row \in TargetRows, RowOK(h, row),
           row \in DOMAIN written[h], ~Present(written[h][row])
    PROVE  Deletes(Executed(h), row)
<1> DEFINE b == call[h].batch
           n == call[h].stmt
<1>1. PICK i \in 1..n :
         /\ LastAt(b, n, row, i)
         /\ \/ written[h][row] = VersionOf(b[i])
            \/ b[i].op = "DELETE" /\ (~Present(written[h][row]) \/ row[1] \in Keyless)
  BY DEF RowOK
<1>2. b[i].op = "DELETE" /\ RowOf(b[i]) = row
  BY <1>1 DEF Present, VersionOf, LastAt, Touches
<1>3. QED
  BY <1>2 DEF Deletes, Executed, FirstOf

LEMMA InsertedWritten ==
    ASSUME NEW h \in Handlers, NEW row \in TargetRows, RowOK(h, row), Inserts(Executed(h), row)
    PROVE  row \in DOMAIN written[h]
<1> DEFINE b == call[h].batch
           n == call[h].stmt
<1>1. PICK i \in 1..n : RowOf(b[i]) = row /\ b[i].op \in {"INSERT", "UPDATE_NEW"}
  BY DEF Inserts, Executed, FirstOf
<1>2. Touches(b[i], row) /\ b[i].op # "DELETE"
  BY <1>1 DEF Touches, Effective
<1>3. QED
  BY <1>2 DEF RowOK

LEMMA OnceStays ==
    ASSUME TxInv, OnceInv, UNCHANGED <<target, commits, idempotent>>, open' \subseteq open,
           \A g \in open' : call'[g].batch = call[g].batch /\ call'[g].stmt = call[g].stmt
    PROVE  OnceInv'
<1>1. \A row : DeletedSince(row)' <=> DeletedSince(row)
  BY DEF DeletedSince
<1>2. AppliedOnce'
  BY DEF OnceInv, AppliedOnce
<1>3. \A g \in open' : InsertsGuarded(g) => InsertsGuarded(g)'
  BY <1>1 DEF InsertsGuarded, Executed
<1>4. QED
  BY <1>1, <1>2, <1>3 DEF OnceInv

LEMMA OnceBegin ==
    ASSUME BInv, OnceInv, NEW h \in Handlers, BeginTransaction(h), UNCHANGED idempotent
    PROVE  OnceInv'
<1>1. /\ Typed /\ call[h].pc = "begin" /\ open' = open \union {h}
      /\ UNCHANGED <<target, commits>> /\ open \subseteq Handlers
  BY DEF BInv, StreamInv, TxInv, BeginTransaction, Begin, historyVars
<1>2. call'[h].stmt = 0 /\ \A g \in Handlers \ {h} : call'[g] = call[g]
  BY <1>1, SetExec DEF BeginTransaction, SameBatch, OnlyCall
<1>3. \A row : DeletedSince(row)' <=> DeletedSince(row)
  BY <1>1 DEF DeletedSince
<1>4. AppliedOnce'
  BY <1>1 DEF OnceInv, AppliedOnce
<1>5. InsertsGuarded(h)'
  <2>1. Executed(h)' = {}
    BY <1>2 DEF Executed, FirstOf
  <2>2. QED
    BY <2>1 DEF InsertsGuarded, Inserts
<1>6. \A g \in open \ {h} : InsertsGuarded(g) => InsertsGuarded(g)'
  BY <1>1, <1>2, <1>3 DEF InsertsGuarded, Executed
<1>7. QED
  BY <1>1, <1>3, <1>4, <1>5, <1>6 DEF OnceInv

LEMMA OnceExecute ==
    ASSUME BInv, OnceInv, NEW h \in Handlers, Execute(h), UNCHANGED idempotent
    PROVE  OnceInv'
<1> DEFINE b == call[h].batch
           n == call[h].stmt
           c == b[n + 1]
<1>1. /\ Typed /\ TxInv /\ HandlerTx(h) /\ call[h].pc = "exec" /\ Executing(h)
      /\ h \in open /\ open \subseteq Handlers /\ idempotent \in BOOLEAN
  BY DEF BInv, StreamInv, TxInv, HandlerTx, Execute, InLoop
<1>2. n \in Nat /\ c \in Change
  <2>1. b \in Seq(Change) /\ n \in Nat /\ Len(b) \in Nat /\ n < Len(b)
    BY <1>1, CallType, LenProperties DEF Execute, InLoop
  <2>2. n + 1 \in 1..Len(b)
    BY <2>1
  <2>3. QED
    BY <2>1, <2>2, ElementOfSeq
<1>3. /\ call'[h].stmt = n + 1 /\ call'[h].batch = b
      /\ \A g \in Handlers \ {h} : call'[g] = call[g]
  BY <1>1, SetStmt DEF Execute, SameBatch, OnlyCall
<1>4. ApplyChange(h, c, idempotent)
  BY DEF Execute, Statement
<1>5. /\ UNCHANGED <<target, open>>
      /\ c.op \in {"INSERT", "UPDATE_NEW"} /\ ~idempotent => ~Present(Visible(h, RowOf(c)))
  BY <1>1, <1>2, <1>4, StatementOutcome DEF Effective
<1>6. UNCHANGED commits
  BY DEF Execute, historyVars
<1>7. \A row : DeletedSince(row)' <=> DeletedSince(row)
  BY <1>6 DEF DeletedSince
<1>8. Executed(h)' = Executed(h) \union {c}
  <2>1. \A i \in 1..(n + 1) : i \in 1..n \/ i = n + 1
    BY <1>2
  <2>2. n + 1 \in 1..(n + 1) /\ 1..n \subseteq 1..(n + 1)
    BY <1>2
  <2>3. QED
    BY <1>3, <2>1, <2>2 DEF Executed, FirstOf
<1>9. ASSUME ~idempotent PROVE InsertsGuarded(h)'
  <2>1. SUFFICES ASSUME NEW row \in TargetRows, Inserts(Executed(h)', row)
                 PROVE  Deletes(Executed(h)', row) \/ DeletedSince(row)
    BY <1>7 DEF InsertsGuarded
  <2>2. Deletes(Executed(h), row) => Deletes(Executed(h)', row)
    BY <1>8 DEF Deletes
  <2>3. CASE Inserts(Executed(h), row)
    BY <1>1, <1>9, <2>2, <2>3 DEF OnceInv, InsertsGuarded
  <2>4. CASE RowOf(c) = row /\ c.op \in {"INSERT", "UPDATE_NEW"}
    <3>1. ~Present(Visible(h, row)) /\ RowOK(h, row)
      BY <1>1, <1>5, <1>9, <2>4 DEF Executing
    <3>2. CASE row \in DOMAIN written[h]
      BY <2>2, <3>1, <3>2, AbsentDeleted DEF Visible
    <3>3. CASE row \notin DOMAIN written[h]
      BY <3>1, <3>3 DEF Visible, OnceInv
    <3>4. QED
      BY <3>2, <3>3
  <2>5. QED
    BY <1>8, <2>1, <2>3, <2>4 DEF Inserts
<1>10. \A g \in open \ {h} : InsertsGuarded(g) => InsertsGuarded(g)'
  BY <1>1, <1>3, <1>7 DEF InsertsGuarded, Executed
<1>11. AppliedOnce'
  BY <1>6 DEF OnceInv, AppliedOnce
<1>12. QED
  BY <1>1, <1>5, <1>7, <1>9, <1>10, <1>11 DEF OnceInv

LEMMA OnceCommit ==
    ASSUME BInv, OnceInv, NEW h \in Handlers, Done(h), Committed(h), UNCHANGED idempotent,
           \A g \in Handlers \ {h} : call'[g] = call[g]
    PROVE  OnceInv'
<1> DEFINE S == ToSet(call[h].batch)
           N == Len(commits)
<1>1. /\ Typed /\ TxInv /\ call[h].pc = "exec" /\ Executing(h) /\ h \in open
      /\ open \subseteq Handlers /\ open' = open \ {h}
      /\ \A row \in TargetRows : target'[row] = Visible(h, row)
      /\ \A g \in open : Executing(g)
  BY DEF BInv, StreamInv, TxInv, HandlerTx, Done, Committed, Commit, EndTransaction
<1>2. S = Executed(h)
  <2>1. call[h].batch \in Seq(Change) /\ call[h].stmt = Len(call[h].batch)
    BY <1>1, CallType, LenProperties DEF Executing, Done, InLoop
  <2>2. QED
    BY <2>1, LenProperties DEF ToSet, Executed, FirstOf
<1>3. /\ N \in Nat /\ Len(commits') = N + 1 /\ commits'[N + 1].changes = S
      /\ \A i \in 1..N : commits'[i] = commits[i] /\ commits[i].changes \subseteq Change
  <2>1. commits \in Seq(CommitRec) /\ N \in Nat
    BY <1>1, LenProperties DEF Typed
  <2>2. PICK r : r = [stream |-> h, id |-> call[h].id, changes |-> S]
    OBVIOUS
  <2>3. r \in CommitRec
    <3>1. call[h] \in Call /\ call[h].batch \in Seq(Change)
      BY <1>1, CallType
    <3>2. S \subseteq Change
      BY <3>1, ElementOfSeq, LenProperties DEF ToSet
    <3>3. QED
      BY <2>2, <3>1, <3>2 DEF CommitRec, Call
  <2>4. commits' = Append(commits, r)
    BY <2>2 DEF Committed
  <2>5. /\ Len(commits') = N + 1 /\ commits'[N + 1] = r
        /\ \A i \in 1..N : commits'[i] = commits[i]
    BY <2>1, <2>3, <2>4, AppendProperties
  <2>6. \A i \in 1..N : commits[i] \in CommitRec
    BY <2>1, ElementOfSeq
  <2>7. QED
    BY <2>1, <2>2, <2>5, <2>6 DEF CommitRec
<1>4. \A i \in 1..(N + 1) : i \in 1..N \/ i = N + 1
  BY <1>3
<1>5. ASSUME NEW row, Deletes(S, row) PROVE DeletedSince(row)'
  <2>1. \A i \in 1..(N + 1) : N + 1 \in i..(N + 1)
    BY <1>3
  <2>2. QED
    BY <1>3, <1>5, <2>1 DEF DeletedSince
<1>6. ASSUME NEW row, DeletedSince(row), ~Inserts(S, row) PROVE DeletedSince(row)'
  <2>1. ASSUME NEW i \in 1..(N + 1), Inserts(commits'[i].changes, row)
        PROVE  \E k \in i..(N + 1) : Deletes(commits'[k].changes, row)
    <3>1. i \in 1..N /\ Inserts(commits[i].changes, row)
      BY <1>3, <1>4, <1>6, <2>1
    <3>2. PICK k \in i..N : Deletes(commits[k].changes, row)
      BY <1>6, <3>1 DEF DeletedSince
    <3>3. k \in 1..N /\ k \in i..(N + 1)
      BY <1>3, <3>1, <3>2
    <3>4. QED
      BY <1>3, <3>2, <3>3
  <2>2. QED
    BY <1>3, <2>1 DEF DeletedSince
<1>7. ASSUME NEW row \in TargetRows, ~Present(target'[row]) PROVE DeletedSince(row)'
  <2>1. RowOK(h, row) /\ target'[row] = Visible(h, row)
    BY <1>1 DEF Executing
  <2>2. CASE row \in DOMAIN written[h]
    BY <1>2, <1>5, <1>7, <2>1, <2>2, AbsentDeleted DEF Visible
  <2>3. CASE row \notin DOMAIN written[h]
    <3>1. ~Inserts(S, row)
      BY <1>2, <2>1, <2>3, InsertedWritten
    <3>2. DeletedSince(row)
      BY <1>7, <2>1, <2>3 DEF OnceInv, Visible
    <3>3. QED
      BY <1>6, <3>1, <3>2
  <2>4. QED
    BY <2>2, <2>3
<1>8. ASSUME ~idempotent, NEW g \in open \ {h} PROVE InsertsGuarded(g)'
  <2>1. Executed(g)' = Executed(g)
    BY <1>1 DEF Executed
  <2>2. ASSUME NEW row \in TargetRows, Inserts(Executed(g), row), DeletedSince(row)
        PROVE  DeletedSince(row)'
    <3>1. row \in DOMAIN written[g]
      BY <1>1, <2>2, InsertedWritten DEF Executing
    <3>2. row \notin DOMAIN written[h]
      BY <1>1, <3>1 DEF TxInv
    <3>3. ~Inserts(S, row)
      BY <1>1, <1>2, <3>2, InsertedWritten DEF Executing
    <3>4. QED
      BY <1>6, <2>2, <3>3
  <2>3. QED
    BY <1>8, <2>1, <2>2 DEF OnceInv, InsertsGuarded
<1>9. AppliedOnce'
  <2>1. SUFFICES ASSUME ~idempotent, NEW i \in 1..(N + 1), NEW j \in 1..(N + 1),
                        NEW c \in commits'[i].changes \intersect commits'[j].changes,
                        i < j, c.op \in {"INSERT", "UPDATE_NEW"}
                 PROVE  \E k \in i..j : \E d \in commits'[k].changes :
                           RowOf(d) = RowOf(c) /\ d.op = "DELETE"
    <3>1. Len(commits') = N + 1 /\ idempotent' = idempotent
      BY <1>3
    <3>2. QED
      BY <3>1 DEF AppliedOnce
  <2>2. i \in 1..N
    BY <1>3, <1>4, <2>1
  <2>3. CASE j \in 1..N
    <3>1. PICK k \in i..j : \E d \in commits[k].changes :
                               RowOf(d) = RowOf(c) /\ d.op = "DELETE"
      BY <1>3, <2>1, <2>2, <2>3 DEF OnceInv, AppliedOnce
    <3>2. k \in 1..N
      BY <1>3, <2>2, <2>3, <3>1
    <3>3. QED
      BY <1>3, <3>1, <3>2
  <2>4. CASE j = N + 1
    <3>1. PICK row \in TargetRows : row = RowOf(c)
      <4>1. c \in Change
        BY <1>3, <2>1, <2>2
      <4>2. QED
        BY <4>1 DEF TargetRows, RowOf, Change
    <3>2. Inserts(S, row) /\ Inserts(commits[i].changes, row)
      BY <1>3, <2>1, <2>2, <2>4, <3>1 DEF Inserts
    <3>3. Deletes(S, row) \/ DeletedSince(row)
      BY <1>1, <1>2, <2>1, <3>2 DEF OnceInv, InsertsGuarded
    <3>4. CASE Deletes(S, row)
      <4>1. j \in i..j
        BY <1>3, <2>1
      <4>2. QED
        BY <1>3, <2>4, <3>1, <3>4, <4>1 DEF Deletes
    <3>5. CASE DeletedSince(row)
      <4>1. PICK k \in i..N : Deletes(commits[k].changes, row)
        BY <2>2, <3>2, <3>5 DEF DeletedSince
      <4>2. k \in i..j /\ k \in 1..N
        BY <1>3, <2>2, <2>4, <4>1
      <4>3. QED
        BY <1>3, <3>1, <4>1, <4>2 DEF Deletes
    <3>6. QED
      BY <3>3, <3>4, <3>5
  <2>5. QED
    BY <1>4, <2>3, <2>4
<1>10. QED
  BY <1>1, <1>7, <1>8, <1>9 DEF OnceInv

LEMMA OnceInit == Init => OnceInv
<1> SUFFICES ASSUME Init PROVE OnceInv
  OBVIOUS
<1>1. Len(commits) = 0 /\ open = {}
  BY DEF Init
<1>2. QED
  BY <1>1 DEF OnceInv, DeletedSince, AppliedOnce

LEMMA OnceNext == BInv /\ OnceInv /\ [Next]_vars => OnceInv'
<1> SUFFICES ASSUME BInv, OnceInv, [Next]_vars PROVE OnceInv'
  OBVIOUS
<1>1. TxInv /\ Typed /\ open \subseteq Handlers /\ \A g \in Handlers : HandlerTx(g)
  BY DEF BInv, StreamInv, TxInv
<1>2. ASSUME UNCHANGED <<target, commits, idempotent>>, open' \subseteq open,
             \A g \in open' : call'[g] = call[g]
      PROVE  OnceInv'
  BY <1>1, <1>2, OnceStays
<1>3. ASSUME NEW h \in Handlers, NEW cause, Fail(h, cause), UNCHANGED idempotent
      PROVE  OnceInv'
  <2>1. /\ UNCHANGED <<target, commits>> /\ open' = open \ {h}
        /\ \A g \in Handlers \ {h} : call'[g] = call[g]
    BY <1>1, <1>3 DEF Fail, Rollback, EndTransaction, historyVars, Typed
  <2>2. QED
    BY <1>1, <1>2, <1>3, <2>1
<1>4. ASSUME NEW h \in Handlers, HandlerStep(h) PROVE OnceInv'
  <2>1. UNCHANGED idempotent
    BY <1>4 DEF HandlerStep
  <2>2. CASE \/ Receive(h) \/ EndBatch(h) \/ EndOfStream(h) \/ ReceiveFails(h)
             \/ SendAck(h)
    <3>1. UNCHANGED <<target, commits, open>> /\ call[h].pc # "exec"
      BY <2>2 DEF Receive, EndBatch, EndOfStream, ReceiveFails, SendAck, writerVars, historyVars
    <3>2. \A g \in Handlers \ {h} : call'[g] = call[g]
      BY <1>1, <2>2 DEF Receive, EndBatch, EndOfStream, ReceiveFails, SendAck, Goto, Typed
    <3>3. h \notin open
      BY <1>1, <3>1 DEF HandlerTx
    <3>4. QED
      BY <1>1, <1>2, <2>1, <3>1, <3>2, <3>3
  <2>3. CASE BeginTransaction(h)
    BY <2>1, <2>3, OnceBegin
  <2>4. CASE Execute(h)
    BY <2>1, <2>4, OnceExecute
  <2>5. CASE FindKey(h)
    BY <1>2, <2>1, <2>5 DEF FindKey, LookUpKey, historyVars
  <2>6. CASE ApplyChangesFails(h) \/ Cancelled(h)
    BY <1>3, <2>1, <2>6 DEF ApplyChangesFails, Cancelled
  <2>7. CASE CommitTransaction(h) \/ CommitUnknown(h)
    <3>1. Done(h) /\ \A g \in Handlers \ {h} : call'[g] = call[g]
      BY <1>1, <2>7 DEF CommitTransaction, CommitUnknown, Typed
    <3>2. CASE Committed(h)
      BY <2>1, <3>1, <3>2, OnceCommit
    <3>3. CASE Rollback(h) /\ UNCHANGED historyVars
      <4>1. UNCHANGED <<target, commits>> /\ open' = open \ {h}
        BY <3>3 DEF Rollback, EndTransaction, historyVars
      <4>2. QED
        BY <1>1, <1>2, <2>1, <3>1, <4>1
    <3>4. QED
      BY <2>7, <3>2, <3>3 DEF CommitTransaction, CommitUnknown
  <2>8. QED
    BY <1>4, <2>2, <2>3, <2>4, <2>5, <2>6, <2>7 DEF HandlerStep
<1>5. ASSUME NEW h \in Handlers, GiveUp(h) PROVE OnceInv'
  BY <1>2, <1>5 DEF GiveUp, writerVars, historyVars
<1>6. CASE Signal
  BY <1>2, <1>6 DEF Signal, historyVars
<1>7. CASE UNCHANGED vars
  BY <1>2, <1>7 DEF vars, writerVars, historyVars
<1>8. CASE Exit \/ Crash
  BY <1>2, <1>8 DEF Exit, Crash, ProcessEnds, historyVars
<1>9. QED
  BY <1>4, <1>5, <1>6, <1>7, <1>8 DEF Next

\* A plain insert or update that a commit contains is in a second commit only
\* if its row was deleted in between: the locks of the first transaction make
\* the second one wait, and what it then finds makes it fail.  This is what a
\* retry relies on after a commit whose answer was lost.
THEOREM InsertsOnce == Spec => []AppliedOnce
<1>1. OnceInv => AppliedOnce
  BY DEF OnceInv
<1>2. QED
  BY <1>1, BInvInit, BInvNext, OnceInit, OnceNext, PTL DEF Spec
===============================================================================
