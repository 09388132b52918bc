------------------------------- MODULE CdcReader -------------------------------
(***************************************************************************)
(* MSSQLReader: one PollChanges call, table by table.                      *)
(*                                                                         *)
(* The call reads the LSN range once and then queries every change table   *)
(* in turn, so the source may commit between two queries, and each query   *)
(* asks the source for the newest LSN again.  The order of the tables is   *)
(* the one the database returns (no ORDER BY in getCdcTables).             *)
(***************************************************************************)
EXTENDS CdcSource

CONSTANT BatchSize      \* batch_size of the client configuration

\* The configuration is not validated: zero is possible.
ASSUME ReaderAssumption == BatchSize \in Nat

VARIABLE poll           \* locals of PollChanges and of the cycle that called it

\* start: startLsn;  max: maxLsn when the poll began;  todo: tables not read;
\* batch: allChanges;  last: LSN of the last change of allChanges;
\* lastValid: LSN of the last one that is in a tracked table.
Poll == [start : Nat, max : Nat, todo : SUBSET Tables, batch : SUBSET Change,
         last : Nat, lastValid : Nat]

NoPoll == [start |-> NoLsn, max |-> NoLsn, todo |-> {}, batch |-> {},
           last |-> NoLsn, lastValid |-> NoLsn]

\* sys.fn_cdc_increment_lsn
NextLsn(l) == l + 1

GreatestLsn(S) == LastChange(S).lsn

\* Lowest fn_cdc_get_min_lsn of the capture instances of source s.
SourceMinLsn(s) ==
    LET mins == {minLsn[t] : t \in TablesOf(s)}
    IN  CHOOSE l \in mins : \A m \in mins : l <= m

\* Defect: without a cursor only future changes are read.
StartLsn_atTheEnd(s, from) == NextLsn(IF from # NoLsn THEN from ELSE maxLsn[s])

StartLsn(s, from) == IF from # NoLsn THEN NextLsn(from) ELSE SourceMinLsn(s)

EffectiveLsn(t, start) == IF minLsn[t] > start THEN minLsn[t] ELSE start

\* Defect: the range excludes its first LSN.
Window_excludesStart(t, start) ==
    {c \in captured : c.tab = t /\ c.lsn > EffectiveLsn(t, start)}

\* Rows of fn_cdc_get_all_changes from start up to the newest LSN.
Window(t, start) == {c \in captured : c.tab = t /\ c.lsn >= EffectiveLsn(t, start)}

\* SELECT TOP (n) ... ORDER BY __$start_lsn, __$seqval.  The order leaves open
\* which image of an update comes first.
TopRows(S, n) ==
    {T \in SUBSET S :
        /\ Cardinality(T) = IF Cardinality(S) < n THEN Cardinality(S) ELSE n
        /\ \A c \in T, d \in S \ T : Before(c, d)}

\* PollChanges up to its table loop.
BeginPoll(s, from) ==
    poll' = [NoPoll EXCEPT !.start = StartLsn(s, from),
                           !.max   = maxLsn[s],
                           !.todo  = TablesOf(s)]

\* Defect: the loop stops at the first table with changes.
TablesAfter_firstWithChanges(t, T) == IF T # {} THEN {} ELSE poll.todo \ {t}

\* The loop stops once the batch has BatchSize changes.
TablesAfter(t, T) ==
    IF Cardinality(poll.batch \union T) >= BatchSize THEN {} ELSE poll.todo \ {t}

\* Defect: a table without changes resets the LSN that will be acknowledged.
CollectTable_resetsLsn(t, T) ==
    /\ t \in poll.todo
    /\ poll' = [poll EXCEPT
                  !.batch = @ \union T,
                  !.todo  = TablesAfter(t, T),
                  !.last  = IF T = {} THEN @ ELSE GreatestLsn(T),
                  !.lastValid = IF T = {} THEN NoLsn
                                ELSE IF t \in Tracked THEN GreatestLsn(T) ELSE @]

\* allChanges = append(allChanges, changes...) for rows T of table t.
CollectTable(t, T) ==
    /\ t \in poll.todo
    /\ poll' = [poll EXCEPT
                  !.batch = @ \union T,
                  !.todo  = TablesAfter(t, T),
                  !.last  = IF T = {} THEN @ ELSE GreatestLsn(T),
                  !.lastValid = IF T = {} \/ t \notin Tracked THEN @
                                ELSE GreatestLsn(T)]

readTableChanges(t) ==
    \E T \in TopRows(Window(t, poll.start), BatchSize) : CollectTable(t, T)

\* A failed query is logged and counts as a table without changes.
readTableChangesFails(t) == CollectTable(t, {})

PollComplete == poll.todo = {}

\* Changes of tables that have a mapping.
ValidChanges == {c \in poll.batch : c.tab \in Tracked}
===============================================================================
