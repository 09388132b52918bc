------------------------------ MODULE MCCdcServer ------------------------------
(***************************************************************************)
(* Two calls at once: a handler that outlived its client and the retry.    *)
(***************************************************************************)
EXTENDS CdcServerProperties

CONSTANTS s1, t1, t2, k1, h1, h2

AllInS1 == [t \in Tables |-> s1]

\* An inserted row, its update and its deletion; a row of another table.
Ins1 == [tab |-> t1, key |-> k1, lsn |-> 1, seq |-> 1, op |-> "INSERT"]
Old1 == [tab |-> t1, key |-> k1, lsn |-> 2, seq |-> 1, op |-> "UPDATE_OLD"]
New1 == [tab |-> t1, key |-> k1, lsn |-> 2, seq |-> 1, op |-> "UPDATE_NEW"]
Del1 == [tab |-> t1, key |-> k1, lsn |-> 3, seq |-> 1, op |-> "DELETE"]
Ins2 == [tab |-> t2, key |-> k1, lsn |-> 1, seq |-> 2, op |-> "INSERT"]
Del2 == [tab |-> t2, key |-> k1, lsn |-> 3, seq |-> 2, op |-> "DELETE"]
New2 == [tab |-> t2, key |-> k1, lsn |-> 4, seq |-> 1, op |-> "INSERT"]

InBatch(id, changes) == [i \in 1..Len(changes) |-> [batch |-> id, change |-> changes[i]]]

\* A batch and its retry, in which the tables come in the other order and a
\* later transaction follows.
RetryInOtherOrder ==
    h1 :> InBatch(1, <<Ins1, Ins2>>) @@ h2 :> InBatch(2, <<Ins2, Ins1, Old1, New1>>)

\* One batch, and two batches on one stream that undo it.
TwoBatches ==
    h1 :> InBatch(1, <<Ins1, Ins2>>)
    @@ h2 :> InBatch(2, <<Ins1, Old1, New1>>) \o InBatch(3, <<Del1, Del2>>)

\* Deletions and a new row meet the late handler of the insertions.
LateInsert ==
    h1 :> InBatch(1, <<Ins1, Ins2>>) @@ h2 :> InBatch(2, <<Del1, Del2, New2>>)

\* A late handler, and a batch with the whole life of two rows.
WholeLife ==
    h1 :> InBatch(1, <<Ins1, Ins2>>) @@ h2 :> InBatch(2, <<Ins1, Del1, Ins2, Del2>>)

Calls == {RetryInOtherOrder, TwoBatches, LateInsert, WholeLife}
===============================================================================
