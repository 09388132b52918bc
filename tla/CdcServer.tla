------------------------------- MODULE CdcServer -------------------------------
(***************************************************************************)
(* The server process: one handler per StreamChanges call, the writer they *)
(* share, the signal that ends the process, and clients that give up.      *)
(***************************************************************************)
EXTENDS PgWriter, SequencesExt

CONSTANTS
    Workloads,  \* the messages that clients may send: streams of all handlers
    Modes,      \* idempotent_writes
    MaxFaults   \* bound on database failures and crashes

Message == [batch : Nat, change : Change]

\* A batch has the changes of a row in the order of the log, as the change table
\* of its one capture instance was read.
InLogOrder(m) ==
    \A i, j \in 1..Len(m) :
        /\ i < j /\ m[i].batch = m[j].batch
        /\ RowOf(m[i].change) = RowOf(m[j].change)
        /\ Effective(m[i].change) /\ Effective(m[j].change)
        => ~Before(m[j].change, m[i].change)

ASSUME ServerAssumption ==
    /\ \A w \in Workloads : /\ w \in [Handlers -> Seq(Message)]
                            /\ \A h \in Handlers : InLogOrder(w[h])
    /\ Modes \subseteq BOOLEAN
    /\ MaxFaults \in Nat

VARIABLES
    sent,       \* the messages of each stream
    idempotent, \* config.IdempotentWrites
    call,       \* locals of each StreamChanges and of its ApplyChanges
    gone,       \* the streams that their clients have cancelled
    acks,       \* the answers sent on each stream
    commits,    \* history: the batches committed, in order
    serial,     \* history: the rows as TargetWriter leaves them, commit by commit
    overlooked, \* history: rows that a delete did not find although ...
    budget

historyVars == <<commits, serial, overlooked>>
vars == <<writerVars, sent, idempotent, call, gone, acks, historyVars, budget>>

\* pc: recv - in stream.Recv;  begin - before the transaction;  exec - in it;
\* answer - before stream.Send;  done - returned.   got: messages received;
\* batch: batchChanges;  id: currentBatchID;  lsn: lastLsn;  stmt: changes
\* executed;  status: that of the answer.
NoCall == [pc |-> "recv", got |-> 0, batch |-> <<>>, id |-> 0, lsn |-> NoLsn,
           stmt |-> 0, status |-> "OK"]

Init ==
    /\ target = EmptyTarget
    /\ pool = "open" /\ open = {} /\ pkCache = {}
    /\ written = [h \in Handlers |-> NoRows]
    /\ sent \in Workloads
    /\ idempotent \in Modes
    /\ call = [h \in Handlers |-> NoCall]
    /\ gone = {}
    /\ acks = [h \in Handlers |-> <<>>]
    /\ commits = <<>> /\ serial = EmptyTarget /\ overlooked = {}
    /\ budget = MaxFaults

Disturb == budget > 0 /\ budget' = budget - 1

Goto(h, pc) == call' = [call EXCEPT ![h].pc = pc]

-------------------------------------------------------------------------------
(* The loop of StreamChanges                                               *)

NextMessage(h) == sent[h][call[h].got + 1]

\* A change of another batch ends the current one, if that is not empty.
AtBoundary(h) == call[h].batch # <<>> /\ call[h].id # NextMessage(h).batch

Receive(h) ==
    /\ call[h].pc = "recv"
    /\ call[h].got < Len(sent[h])
    /\ ~AtBoundary(h)
    /\ call' = [call EXCEPT ![h].got   = @ + 1,
                            ![h].batch = Append(@, NextMessage(h).change),
                            ![h].id    = NextMessage(h).batch,
                            ![h].lsn   = NextMessage(h).change.lsn]
    /\ UNCHANGED <<writerVars, acks, historyVars, budget>>

\* Defect: the LSN of the next batch's first change is noted before the
\* boundary is looked for.
EndBatch_notesLsnFirst(h) ==
    /\ call[h].pc = "recv"
    /\ call[h].got < Len(sent[h]) /\ AtBoundary(h)
    /\ call' = [call EXCEPT ![h].pc = "begin", ![h].lsn = NextMessage(h).change.lsn]
    /\ UNCHANGED <<writerVars, acks, historyVars, budget>>

EndBatch(h) ==
    /\ call[h].pc = "recv"
    /\ call[h].got < Len(sent[h]) /\ AtBoundary(h)
    /\ Goto(h, "begin")
    /\ UNCHANGED <<writerVars, acks, historyVars, budget>>

EndOfStream(h) ==
    /\ call[h].pc = "recv"
    /\ call[h].got = Len(sent[h])
    /\ Goto(h, IF call[h].batch = <<>> THEN "done" ELSE "begin")
    /\ UNCHANGED <<writerVars, acks, historyVars, budget>>

\* Recv fails; a batch of which only a part has come is dropped.
ReceiveFails(h) ==
    /\ call[h].pc = "recv"
    /\ h \in gone
    /\ Goto(h, "done")
    /\ UNCHANGED <<writerVars, acks, historyVars, budget>>

SendAck(h) ==
    /\ call[h].pc = "answer"
    /\ IF h \in gone
       THEN Goto(h, "done") /\ UNCHANGED acks
       ELSE /\ acks' = [acks EXCEPT ![h] = Append(@,
                            [id |-> call[h].id, status |-> call[h].status,
                             lsn |-> call[h].lsn])]
            /\ call' = [call EXCEPT ![h].pc = "recv", ![h].batch = <<>>]
    /\ UNCHANGED <<writerVars, historyVars, budget>>

-------------------------------------------------------------------------------
(* processBatch and ApplyChanges                                           *)

\* By words in the text of the error; that of a key look-up has "columns".
categorizeError(cause) ==
    CASE cause = "connection" -> "RETRY"
      [] cause = "column" -> "SCHEMA_MISMATCH"
      [] OTHER -> "FAILED"

Fail(h, cause) ==
    /\ Rollback(h)
    /\ call' = [call EXCEPT ![h].pc = "answer", ![h].status = categorizeError(cause)]
    /\ UNCHANGED <<acks, historyVars>>

BeginTransaction(h) ==
    /\ call[h].pc = "begin"
    /\ Begin(h)
    /\ call' = [call EXCEPT ![h].pc = "exec", ![h].stmt = 0]
    /\ UNCHANGED <<acks, historyVars, budget>>

Statement(h) == call[h].batch[call[h].stmt + 1]

InLoop(h) == call[h].pc = "exec" /\ call[h].stmt < Len(call[h].batch)

Execute(h) ==
    /\ InLoop(h)
    /\ ApplyChange(h, Statement(h), idempotent)
    /\ call' = [call EXCEPT ![h].stmt = @ + 1]
    /\ UNCHANGED <<acks, historyVars, budget>>

NeedsKey(h) ==
    /\ InLoop(h) /\ idempotent
    /\ Statement(h).op \in {"INSERT", "UPDATE_NEW"}
    /\ ~KeyKnown(Statement(h))

FindKey(h) ==
    /\ NeedsKey(h)
    /\ LookUpKey(Statement(h))
    /\ UNCHANGED <<call, acks, historyVars, budget>>

\* Handler h waits for a row that g has written.
WaitsFor(h, g) ==
    /\ InLoop(h) /\ g # h
    /\ ~NeedsKey(h)
    /\ Statement(h).op # "UPDATE_OLD"
    /\ Statement(h).op = "DELETE" => ~DeletesNothing(h, Statement(h))
    /\ RowOf(Statement(h)) \in DOMAIN written[g]

\* PostgreSQL aborts one of the transactions that wait for each other.
Deadlocked(h) ==
    \E S \in SUBSET Handlers :
        /\ h \in S
        /\ \A x \in S : (\E y \in S : WaitsFor(x, y)) /\ (\E y \in S : WaitsFor(y, x))

ApplyChangesFails(h) ==
    \/ call[h].pc = "begin" /\ pool = "closed" /\ Fail(h, "closed pool") /\ UNCHANGED budget
    \/ NeedsKey(h) /\ pool = "closed" /\ Fail(h, "column") /\ UNCHANGED budget
    \/ /\ InLoop(h) /\ DuplicateKey(h, Statement(h), idempotent)
       /\ Fail(h, "duplicate key") /\ UNCHANGED budget
    \/ Deadlocked(h) /\ Fail(h, "deadlock") /\ UNCHANGED budget
    \/ call[h].pc \in {"begin", "exec"} /\ Fail(h, "connection") /\ Disturb

\* Defect: the writer waits for connections and rows with a context of its own.
Cancelled_ignored(h) == FALSE

\* The stream's context ends every wait for a connection, a row or an answer.
Cancelled(h) ==
    /\ h \in gone
    /\ call[h].pc \in {"begin", "exec"}
    /\ Fail(h, "canceled")
    /\ UNCHANGED budget

\* The rows that the statements of h should have left deleted.
Deleted(h) ==
    {row \in TargetRows :
        LET w == Written({call[h].batch[i] : i \in 1..call[h].stmt}, row)
        IN  w # {} /\ LastChange(w).op = "DELETE"}

\* Those whose deletion found nothing and so is protected by no lock.
Unguarded(h) == Deleted(h) \ DOMAIN written[h]

Committed(h) ==
    /\ Commit(h)
    /\ commits' = Append(commits, [stream |-> h, id |-> call[h].id,
                                   changes |-> ToSet(call[h].batch)])
    /\ serial' = ApplyTo(serial, ToSet(call[h].batch))
    /\ overlooked' = overlooked
           \union {row \in Deleted(h) : Present(Visible(h, row)) /\ row[1] \in Keyless}
           \union {row \in DOMAIN written[h] :
                      \E g \in open \ {h} : row \in Unguarded(g)}

Done(h) == call[h].pc = "exec" /\ ~InLoop(h)

CommitTransaction(h) ==
    /\ Done(h)
    /\ Committed(h)
    /\ call' = [call EXCEPT ![h].pc = "answer", ![h].status = "OK"]
    /\ UNCHANGED <<acks, budget>>

\* Defect: an error of Commit is only logged.
CommitAnswer_errorIgnored(h) == "OK"

\* The answer after the connection broke while Commit waited for its result.
CommitAnswer(h) == categorizeError("connection")

CommitUnknown(h) ==
    /\ Done(h)
    /\ Disturb
    /\ \/ Committed(h)
       \/ Rollback(h) /\ UNCHANGED historyVars
    /\ call' = [call EXCEPT ![h].pc = "answer", ![h].status = CommitAnswer(h)]
    /\ UNCHANGED acks

HandlerStep(h) ==
    /\ \/ Receive(h) \/ EndBatch(h) \/ EndOfStream(h) \/ ReceiveFails(h) \/ SendAck(h)
       \/ BeginTransaction(h) \/ Execute(h) \/ FindKey(h) \/ ApplyChangesFails(h)
       \/ Cancelled(h) \/ CommitTransaction(h) \/ CommitUnknown(h)
    /\ UNCHANGED <<sent, idempotent, gone>>

-------------------------------------------------------------------------------
(* The clients and the process                                             *)

\* The client cancels its stream: its acknowledgement timeout, or its death.
GiveUp(h) ==
    /\ h \notin gone /\ call[h].pc # "done"
    /\ gone' = gone \union {h}
    /\ UNCHANGED <<writerVars, sent, idempotent, call, acks, historyVars, budget>>

\* SIGTERM: runServer returns at once, and its deferred writer.Close closes the
\* pool, which waits for the open transactions.
Signal ==
    /\ pool = "open"
    /\ pool' = "closed"
    /\ UNCHANGED <<target, open, written, pkCache, sent, idempotent, call, gone, acks,
                   historyVars, budget>>

ProcessEnds ==
    /\ call' = [h \in Handlers |-> [call[h] EXCEPT !.pc = "done"]]
    /\ open' = {} /\ written' = [h \in Handlers |-> NoRows]
    /\ pool' = "closed"
    /\ UNCHANGED <<target, pkCache, sent, idempotent, gone, acks, historyVars>>

Serving == \E h \in Handlers : call[h].pc # "done"

\* main returns when the pool is closed, whatever the handlers still have to do.
Exit == Serving /\ pool = "closed" /\ open = {} /\ ProcessEnds /\ UNCHANGED budget

Crash == Serving /\ Disturb /\ ProcessEnds

Next ==
    \/ \E h \in Handlers : HandlerStep(h) \/ GiveUp(h)
    \/ Signal \/ Exit \/ Crash

Spec == Init /\ [][Next]_vars

\* Goroutines run, PostgreSQL finds deadlocks, and a client that gets no answer
\* gives up when its timeout ends.
FairSpec ==
    /\ Spec
    /\ \A h \in Handlers : WF_vars(HandlerStep(h)) /\ WF_vars(GiveUp(h))
===============================================================================
