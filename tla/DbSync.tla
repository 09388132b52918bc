-------------------------------- MODULE DbSync --------------------------------
(***************************************************************************)
(* The whole pipeline: SyncOrchestrator.Run and syncCycle on the client,   *)
(* one StreamChanges call per batch, CdcSyncService on the server.         *)
(*                                                                         *)
(* The client is one goroutine.  Between its steps the source databases    *)
(* commit, the server works on streams, connections break, the server      *)
(* restarts and the client process dies.  What may go wrong is chosen by   *)
(* Faults, and how often by MaxFaults.                                     *)
(***************************************************************************)
EXTENDS CdcReader, CursorStore, TargetWriter

CONSTANTS
    SourceSeq,      \* the sources in the order of the configuration file
    MaxRetries,     \* RetryConfig.MaxRetries
    Faults,         \* what may go wrong
    MaxFaults,      \* bound on how often, in one behaviour
    Broken,         \* sources that answer a ping, but whose polls may always fail
    FreshStart      \* no state file and an empty source, or a cursor at LSN 1

FaultKinds ==
    { "midpoll",    \* a source commits while one of its polls is reading tables
      "cleanup",    \* the CDC retention job removes changes
      "poll",       \* the LSN range or the list of tables cannot be read
      "read",       \* one change table cannot be read
      "persist",    \* the state file cannot be written
      "stream",     \* a stream breaks, or its acknowledgement is lost or late
      "zombie",     \* a handler outlives the stream of a client that gave up
      "apply",      \* the target's transaction fails, or only its answer is lost
      "server",     \* the server process restarts
      "crash",      \* the client process dies
      "powerloss" } \* and its state file, never synced to disk, is lost

ASSUME SyncAssumption ==
    /\ SourceSeq \in Seq(Sources)
    /\ Len(SourceSeq) > 0
    /\ {SourceSeq[i] : i \in 1..Len(SourceSeq)} = Sources
    /\ MaxRetries \in Nat \ {0}
    /\ Faults \subseteq FaultKinds
    /\ MaxFaults \in Nat
    /\ Broken \subseteq Sources
    /\ FreshStart \in BOOLEAN

VARIABLES
    pc,         \* where the client is
    cur,        \* index in SourceSeq of the source it works on
    errs,       \* consecutiveErrors
    batchId,    \* number of batch IDs generated so far; the last one
    streams,    \* the StreamChanges calls of which a request or answer exists
    missed,     \* history: changes that a cursor passed without their being sent
    budget      \* faults that may still happen

clientVars == <<pc, cur, errs, batchId>>
vars == <<sourceVars, storeVars, poll, clientVars, streams, target, missed, budget>>

\* startup: waiting for the first HealthCheck;  poll: before PollChanges;
\* read: in its table loop;  send: the batch is recorded as pending;
\* wait: in stream.Recv;  backoff: after an error;  down: no process.
ClientStates == {"startup", "poll", "read", "send", "wait", "backoff", "down"}

ErrorAcks == {"FAILED", "SCHEMA_MISMATCH"}
\* "sent": no answer yet;  otherwise the status of the answer.
Stream == [id : Nat, rows : SUBSET Change, lsn : Nat,
           phase : {"sent", "OK", "RETRY"} \union ErrorAcks]

src == SourceSeq[cur]

Init ==
    /\ captured = {}
    /\ maxLsn = [s \in Sources |-> IF FreshStart THEN 0 ELSE 1]
    /\ minLsn = [t \in Tables |-> 1]
    /\ mem = IF FreshStart THEN Fresh
             ELSE [s \in Sources |-> [processed |-> 1, acked |-> 1, pending |-> {}]]
    /\ disk = mem
    /\ poll = NoPoll
    /\ pc = "startup" /\ cur = 1 /\ errs = 0 /\ batchId = 0
    /\ streams = {}
    /\ target = EmptyTarget
    /\ missed = {}
    /\ budget = MaxFaults

Disturb(kind) == kind \in Faults /\ budget > 0 /\ budget' = budget - 1

\* Defect: an answer is taken for that of the current batch whatever its ID.
Connected_anyBatch(st) == pc = "wait"

\* The stream of the batch the client waits for.
Connected(st) == pc = "wait" /\ st.id = batchId

\* Defect: a stream that timed out is not cancelled.
Abandon_leavesStream == UNCHANGED streams

\* The client cancels its stream.  The cancellation stops the handler, unless
\* it comes too late ("zombie"): then the handler goes on by itself.
Abandon ==
    streams' = IF "zombie" \in Faults THEN {st \in streams : st.phase = "sent"} ELSE {}

-------------------------------------------------------------------------------
(* The control of Run and syncCycle                                        *)

\* The cycle goes on with the next source, or ends without an error.
NextSource ==
    /\ pc' = "poll"
    /\ poll' = NoPoll
    /\ IF cur < Len(SourceSeq) THEN cur' = cur + 1 /\ errs' = errs
                               ELSE cur' = 1 /\ errs' = 0

\* syncCycle returns nil before the last source.
CycleEnds == pc' = "poll" /\ poll' = NoPoll /\ cur' = 1 /\ errs' = 0

\* Defect: one error too many is tolerated.
CycleFails_lateExit ==
    /\ errs' = errs + 1
    /\ pc' = IF errs + 1 > MaxRetries THEN "down" ELSE "backoff"
    /\ poll' = NoPoll
    /\ cur' = 1

\* Defect: the next cycle begins with the source that failed.
CycleFails_keepsSource ==
    /\ errs' = errs + 1
    /\ pc' = IF errs + 1 >= MaxRetries THEN "down" ELSE "backoff"
    /\ poll' = NoPoll
    /\ cur' = cur

\* syncCycle returns an error: back off, or exit when there were too many.
CycleFails ==
    /\ errs' = errs + 1
    /\ pc' = IF errs + 1 >= MaxRetries THEN "down" ELSE "backoff"
    /\ poll' = NoPoll
    /\ cur' = 1

Relevant(c) == c.tab \in Tracked /\ Effective(c)

SteppedOver(s, l) ==
    {c \in captured : /\ Relevant(c) /\ SourceOf[c.tab] = s
                      /\ Position(mem[s]) < c.lsn /\ c.lsn <= l
                      /\ c \notin poll.batch}

\* stateManager.UpdateCursor and what the cycle makes of its result.
AdvanceCursor(id, l) ==
    /\ UpdateCursor(src, id, l)
    /\ missed' = missed \union SteppedOver(src, l)
    /\ \/ Persisted /\ NextSource /\ UNCHANGED budget
       \/ PersistError /\ CycleFails /\ Disturb("persist")

HealthCheckOK ==
    /\ pc = "startup"
    /\ pc' = "poll"
    /\ UNCHANGED <<sourceVars, storeVars, poll, cur, errs, batchId, streams, target,
                   missed, budget>>

PollStart ==
    /\ pc = "poll"
    /\ IF maxLsn[src] = NoLsn
       THEN NextSource
       ELSE /\ BeginPoll(src, Position(mem[src]))
            /\ pc' = "read"
            /\ UNCHANGED <<cur, errs>>
    /\ UNCHANGED <<sourceVars, storeVars, batchId, streams, target, missed, budget>>

PollFails ==
    /\ pc = "poll"
    /\ \/ src \in Broken /\ UNCHANGED budget
       \/ Disturb("poll")
    /\ CycleFails
    /\ UNCHANGED <<sourceVars, storeVars, batchId, streams, target, missed>>

ReadTable ==
    /\ pc = "read"
    /\ \E t \in poll.todo :
          \/ readTableChanges(t) /\ UNCHANGED budget
          \/ readTableChangesFails(t) /\ Disturb("read")
    /\ UNCHANGED <<sourceVars, storeVars, clientVars, streams, target, missed>>

Polled == pc = "read" /\ PollComplete

NoChanges ==
    /\ Polled /\ poll.batch = {}
    /\ AdvanceCursor(0, poll.max)
    /\ UNCHANGED <<sourceVars, batchId, streams, target>>

LocalSkip ==
    /\ Polled /\ poll.batch # {} /\ ValidChanges = {}
    /\ AdvanceCursor(0, poll.last)
    /\ UNCHANGED <<sourceVars, batchId, streams, target>>

RecordBatch ==
    /\ Polled /\ ValidChanges # {}
    /\ batchId' = batchId + 1
    /\ RecordPendingBatch(src, batchId + 1, poll.last)
    /\ \/ Persisted /\ pc' = "send" /\ UNCHANGED <<poll, cur, errs, budget>>
       \/ PersistError /\ CycleFails /\ Disturb("persist")
    /\ UNCHANGED <<sourceVars, streams, target, missed>>

\* The server keeps the LSN of the last change it received for the answer.
SendBatch ==
    /\ pc = "send"
    /\ pc' = "wait"
    /\ streams' = streams \union {[id |-> batchId, rows |-> ValidChanges,
                                   lsn |-> poll.lastValid, phase |-> "sent"]}
    /\ UNCHANGED <<sourceVars, storeVars, poll, cur, errs, batchId, target, missed, budget>>

\* Defect: no acknowledgement timeout, a broken stream goes unnoticed.
StreamBatchFails_noTimeout ==
    /\ pc = "send"
    /\ Disturb("stream")
    /\ CycleFails
    /\ Abandon
    /\ UNCHANGED <<sourceVars, storeVars, batchId, target, missed>>

\* Dial, Send, CloseSend or Recv fails, or the acknowledgement times out.
StreamBatchFails ==
    /\ pc \in {"send", "wait"}
    /\ IF pc = "wait" /\ \A st \in streams : ~Connected(st)
       THEN UNCHANGED budget
       ELSE Disturb("stream")
    /\ CycleFails
    /\ Abandon
    /\ UNCHANGED <<sourceVars, storeVars, batchId, target, missed>>

\* Defect: a failed batch is skipped.
RecvAckOK_anyStatus(st) ==
    /\ AdvanceCursor(batchId, st.lsn)
    /\ UNCHANGED <<sourceVars, batchId, target>>

RecvAckOK(st) ==
    /\ st.phase = "OK"
    /\ AdvanceCursor(batchId, st.lsn)
    /\ UNCHANGED <<sourceVars, batchId, target>>

RecvAckRetry(st) ==
    /\ st.phase = "RETRY"
    /\ CycleEnds
    /\ UNCHANGED <<sourceVars, storeVars, batchId, target, missed, budget>>

RecvAckError(st) ==
    /\ st.phase \in ErrorAcks
    /\ CycleFails
    /\ UNCHANGED <<sourceVars, storeVars, batchId, target, missed, budget>>

RecvAck ==
    \E st \in streams :
        /\ Connected(st)
        /\ streams' = streams \ {st}
        /\ RecvAckOK(st) \/ RecvAckRetry(st) \/ RecvAckError(st)

Reconnect ==
    /\ pc = "backoff"
    /\ pc' = "poll"
    /\ UNCHANGED <<sourceVars, storeVars, poll, cur, errs, batchId, streams, target,
                   missed, budget>>

ClientStep ==
    \/ HealthCheckOK \/ PollStart \/ PollFails \/ ReadTable \/ NoChanges \/ LocalSkip
    \/ RecordBatch \/ SendBatch \/ StreamBatchFails \/ RecvAck \/ Reconnect

-------------------------------------------------------------------------------
(* The client process dies and is started again                            *)

ClientDies(statefile) ==
    /\ pc # "down"
    /\ pc' = "down"
    /\ disk' = statefile
    /\ poll' = NoPoll /\ cur' = 1 /\ errs' = 0
    /\ Abandon
    /\ UNCHANGED <<sourceVars, mem, batchId, target, missed>>

Crash == Disturb("crash") /\ ClientDies(disk)
PowerLoss == Disturb("powerloss") /\ ClientDies(Fresh)

Restart ==
    /\ pc = "down"
    /\ pc' = "startup"
    /\ LoadState
    /\ errs' = 0
    /\ UNCHANGED <<sourceVars, poll, cur, batchId, streams, target, missed, budget>>

-------------------------------------------------------------------------------
(* The server                                                              *)

\* The answer is sent, which is in vain if the client has gone.
Answer(st, status) ==
    streams' = (streams \ {st})
               \union (IF Connected(st) THEN {[st EXCEPT !.phase = status]} ELSE {})

serverUnchanged == <<sourceVars, storeVars, poll, clientVars, missed>>

\* processBatch: the target's transaction commits.
ProcessBatch(st) ==
    /\ ApplyChanges(st.rows)
    /\ Answer(st, "OK")
    /\ UNCHANGED budget

\* It is rolled back; categorizeError picks the status.
ProcessBatchFails(st) ==
    /\ Disturb("apply")
    /\ \E status \in {"RETRY"} \union ErrorAcks : Answer(st, status)
    /\ UNCHANGED target

\* It commits, but the connection to the database breaks before it says so.
CommitUnknown(st) ==
    /\ Disturb("apply")
    /\ ApplyChanges(st.rows)
    /\ \E status \in {"RETRY", "FAILED"} : Answer(st, status)

\* The cancellation reaches a handler whose client gave up.
HandlerCancelled(st) ==
    /\ ~Connected(st)
    /\ streams' = streams \ {st}
    /\ UNCHANGED <<target, budget>>

ServerStep ==
    /\ \E st \in streams :
          /\ st.phase = "sent"
          /\ \/ ProcessBatch(st) \/ ProcessBatchFails(st)
             \/ CommitUnknown(st) \/ HandlerCancelled(st)
    /\ UNCHANGED serverUnchanged

ServerRestart ==
    /\ streams # {}
    /\ Disturb("server")
    /\ streams' = {}
    /\ UNCHANGED <<serverUnchanged, target>>

-------------------------------------------------------------------------------
SourceStep ==
    /\ \/ \E s \in Sources : /\ "midpoll" \in Faults \/ pc # "read" \/ s # src
                             /\ CommitTransaction(s)
                             /\ UNCHANGED budget
       \/ \E t \in Tables : CleanupChangeTable(t) /\ Disturb("cleanup")
    /\ UNCHANGED <<storeVars, poll, clientVars, streams, target, missed>>

Next ==
    \/ ClientStep \/ Crash \/ PowerLoss \/ Restart
    \/ ServerStep \/ ServerRestart \/ SourceStep

Spec == Init /\ [][Next]_vars

\* The client's goroutine and the server's handlers go on, and somebody starts
\* a dead client again.  Nothing is assumed about commits or faults.
FairSpec ==
    /\ Spec
    /\ WF_vars(ClientStep)
    /\ WF_vars(ServerStep)
    /\ WF_vars(Restart)
===============================================================================
