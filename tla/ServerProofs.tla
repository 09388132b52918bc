------------------------------ MODULE ServerProofs ------------------------------
(***************************************************************************)
(* Answers and commits of the server belong to the batches of the streams, *)
(* for every set of messages and any number of handlers.                   *)
(***************************************************************************)
EXTENDS CdcServerProperties, SequenceTheorems, FiniteSetTheorems, TLAPS

-------------------------------------------------------------------------------
(* The batches of a stream                                                 *)

LEMMA BegunFinite ==
    ASSUME NEW m, Len(m) \in Nat, NEW i
    PROVE  /\ IsFiniteSet(Starts(m)) /\ IsFiniteSet(Begun(m, i))
           /\ Cardinality(Starts(m)) \in Nat /\ Count(m, i) \in Nat
           /\ Count(m, i) <= Cardinality(Starts(m))
<1>1. Starts(m) \subseteq 1..Len(m) /\ Begun(m, i) \subseteq Starts(m)
  BY DEF Starts, Begun
<1>2. IsFiniteSet(1..Len(m))
  BY FS_Interval
<1>3. IsFiniteSet(Starts(m))
  BY <1>1, <1>2, FS_Subset
<1>4. IsFiniteSet(Begun(m, i)) /\ Cardinality(Begun(m, i)) <= Cardinality(Starts(m))
  BY <1>1, <1>3, FS_Subset
<1>5. QED
  BY <1>3, <1>4, FS_CardinalityType DEF Count

\* Each start is counted once, ...
LEMMA CountGrows ==
    ASSUME NEW m, Len(m) \in Nat, NEW i \in Nat, NEW t \in Starts(m), i < t
    PROVE  Count(m, i) < Count(m, t)
<1>1. Begun(m, i) \subseteq Begun(m, t) /\ t \in Begun(m, t) /\ t \notin Begun(m, i)
  BY DEF Begun, Starts
<1>2. /\ Cardinality(Begun(m, i)) <= Cardinality(Begun(m, t))
      /\ Cardinality(Begun(m, i)) # Cardinality(Begun(m, t))
  BY <1>1, BegunFinite, FS_Subset
<1>3. QED
  BY <1>2, BegunFinite DEF Count

LEMMA CountsOne ==
    ASSUME NEW m, Len(m) \in Nat, NEW i \in Nat, i + 1 \in Starts(m)
    PROVE  Count(m, i + 1) = Count(m, i) + 1
<1>1. Begun(m, i + 1) = Begun(m, i) \union {i + 1} /\ i + 1 \notin Begun(m, i)
  BY DEF Begun, Starts
<1>2. QED
  BY <1>1, BegunFinite, FS_AddElement DEF Count

\* ... and nothing else is counted.
LEMMA CountStays ==
    ASSUME NEW m, Len(m) \in Nat, NEW s, NEW e, OneBatch(m, s, e)
    PROVE  Count(m, e) = Count(m, s)
<1>1. s \in Nat /\ e \in Nat /\ s <= e
  BY DEF OneBatch, Starts
<1>2. ASSUME NEW x \in Starts(m), x <= e PROVE x <= s
  <2>1. SUFFICES ASSUME s < x PROVE FALSE
    BY <1>1 DEF Starts
  <2>2. x - 1 \in s..(e - 1) /\ (x - 1) + 1 = x
    BY <1>1, <1>2, <2>1 DEF Starts
  <2>3. QED
    BY <1>2, <2>2 DEF OneBatch
<1>3. Begun(m, e) = Begun(m, s)
  BY <1>1, <1>2 DEF Begun, Starts
<1>4. QED
  BY <1>3 DEF Count

\* The n-th batch is the run of messages whose start is the n-th.
LEMMA BatchOfRun ==
    ASSUME NEW h \in Handlers, NEW m, m = sent[h], Len(m) \in Nat,
           NEW s, NEW e, OneBatch(m, s, e), EndsAt(m, e)
    PROVE  /\ Count(m, s) \in 1..Len(BatchesOf(h))
           /\ BatchesOf(h)[Count(m, s)] = BatchAt(m, s, e)
<1>1. s \in Nat /\ e \in Nat /\ s <= e /\ e <= Len(m) /\ s \in Starts(m)
  BY DEF OneBatch, Starts
<1>2. Count(m, s) \in 1..Cardinality(Starts(m))
  <2>1. s \in Begun(m, s)
    BY <1>1 DEF Begun
  <2>2. Count(m, s) # 0
    BY <2>1, BegunFinite, FS_EmptySet DEF Count
  <2>3. QED
    BY <2>2, BegunFinite
<1>3. BatchesOf(h) = [n \in 1..Cardinality(Starts(m)) |->
                         BatchAt(m, StartOf(m, n), EndOf(m, StartOf(m, n)))]
  BY DEF BatchesOf
<1>4. StartOf(m, Count(m, s)) = s
  <2>1. ASSUME NEW x \in Starts(m), Count(m, x) = Count(m, s) PROVE x = s
    <3>1. x \in Nat /\ Count(m, x) \in Nat /\ Count(m, s) \in Nat
      <4>1. x \in 1..Len(m)
        BY DEF Starts
      <4>2. QED
        BY <4>1, BegunFinite
    <3>2. ~(x < s) /\ ~(s < x)
      BY <1>1, <2>1, <3>1, CountGrows
    <3>3. QED
      BY <1>1, <3>1, <3>2
  <2>2. QED
    BY <1>1, <2>1 DEF StartOf
<1>5. EndOf(m, s) = e
  <2>1. ASSUME NEW j \in s..Len(m), OneBatch(m, s, j), EndsAt(m, j) PROVE j = e
    <3>1. ~(j < e)
      <4>1. SUFFICES ASSUME j < e PROVE FALSE
        OBVIOUS
      <4>2. j \in s..(e - 1) /\ j + 1 \in Starts(m)
        BY <1>1, <2>1, <4>1 DEF EndsAt
      <4>3. QED
        BY <4>2 DEF OneBatch
    <3>2. ~(e < j)
      <4>1. SUFFICES ASSUME e < j PROVE FALSE
        OBVIOUS
      <4>2. e \in s..(j - 1) /\ e + 1 \in Starts(m)
        BY <1>1, <2>1, <4>1 DEF EndsAt
      <4>3. QED
        BY <2>1, <4>2 DEF OneBatch
    <3>3. QED
      BY <1>1, <2>1, <3>1, <3>2
  <2>2. e \in s..Len(m)
    BY DEF OneBatch
  <2>3. QED
    BY <2>1, <2>2 DEF EndOf
<1>6. Len(BatchesOf(h)) = Cardinality(Starts(m))
  BY <1>3, BegunFinite
<1>7. QED
  BY <1>2, <1>3, <1>4, <1>5, <1>6

-------------------------------------------------------------------------------
(* The invariant                                                           *)

Statuses == {"OK", "RETRY", "SCHEMA_MISMATCH", "FAILED"}

Call == [pc : {"recv", "begin", "exec", "answer", "done"}, got : Nat,
         batch : Seq(Change), id : Nat, lsn : Nat, stmt : Nat, status : Statuses]

Answer == [id : Nat, status : Statuses, lsn : Nat]
CommitRec == [stream : Handlers, id : Nat, changes : SUBSET Change]

Typed ==
    /\ sent \in Workloads
    /\ call \in [Handlers -> Call]
    /\ acks \in [Handlers -> Seq(Answer)]
    /\ commits \in Seq(CommitRec)

CommittedAs(h, id, S) ==
    \E i \in 1..Len(commits) : /\ commits[i].stream = h
                               /\ commits[i].id = id
                               /\ commits[i].changes = S

\* The locals of a call are those of the messages since its batch began.
Holds(m, s, c) ==
    /\ OneBatch(m, s, c.got)
    /\ Len(c.batch) = c.got - s + 1
    /\ \A k \in 1..Len(c.batch) : c.batch[k] = m[s + k - 1].change
    /\ \A k \in s..c.got : m[k].batch = c.id
    /\ c.lsn = m[c.got].change.lsn

StreamOK(h) ==
    LET m == sent[h]
        c == call[h]
    IN  /\ c.got \in 0..Len(m)
        /\ c.pc \in {"begin", "exec", "answer"} => c.batch # <<>> /\ EndsAt(m, c.got)
        /\ c.pc # "done" =>
              IF c.batch = <<>>
              THEN EndsAt(m, c.got) /\ Len(acks[h]) = Count(m, c.got)
              ELSE \E s \in Starts(m) : Holds(m, s, c) /\ Len(acks[h]) + 1 = Count(m, s)
        /\ c.pc = "answer" /\ c.status = "OK" => CommittedAs(h, c.id, ToSet(c.batch))

AcksOK(h) ==
    /\ Len(acks[h]) <= Len(BatchesOf(h))
    /\ \A n \in 1..Len(acks[h]) :
          LET b == BatchesOf(h)[n]
          IN  /\ acks[h][n].id = b.id /\ acks[h][n].lsn = b.lsn
              /\ acks[h][n].status = "OK" => CommittedAs(h, b.id, b.changes)

CommitsOK ==
    \A i \in 1..Len(commits) :
        \E n \in 1..Len(BatchesOf(commits[i].stream)) :
            LET b == BatchesOf(commits[i].stream)[n]
            IN  b.id = commits[i].id /\ b.changes = commits[i].changes

StreamInv == Typed /\ CommitsOK /\ \A h \in Handlers : StreamOK(h) /\ AcksOK(h)

LEMMA SentType ==
    ASSUME Typed, NEW h \in Handlers
    PROVE  /\ sent[h] \in Seq(Message) /\ Len(sent[h]) \in Nat
           /\ \A i \in 1..Len(sent[h]) : /\ sent[h][i].batch \in Nat
                                         /\ sent[h][i].change \in Change
                                         /\ sent[h][i].change.lsn \in Nat
<1>1. sent[h] \in Seq(Message)
  BY ServerAssumption DEF Typed, ServerAssumption
<1>2. \A i \in 1..Len(sent[h]) : sent[h][i] \in Message
  BY <1>1, ElementOfSeq
<1>3. ASSUME NEW msg \in Message
      PROVE  msg.batch \in Nat /\ msg.change \in Change /\ msg.change.lsn \in Nat
  BY DEF Message, Change, Lsn
<1>4. Len(sent[h]) \in Nat
  BY <1>1, LenProperties
<1>5. QED
  BY <1>1, <1>2, <1>3, <1>4

\* The batch in hand, once complete, is a batch of the stream.
LEMMA BatchHeld ==
    ASSUME Typed, NEW h \in Handlers, NEW s \in Starts(sent[h]),
           Holds(sent[h], s, call[h]), EndsAt(sent[h], call[h].got)
    PROVE  /\ Count(sent[h], s) \in 1..Len(BatchesOf(h))
           /\ BatchesOf(h)[Count(sent[h], s)]
                = [id |-> call[h].id, lsn |-> call[h].lsn, changes |-> ToSet(call[h].batch)]
<1> DEFINE m == sent[h]
           c == call[h]
<1>1. /\ Count(m, s) \in 1..Len(BatchesOf(h))
      /\ BatchesOf(h)[Count(m, s)] = BatchAt(m, s, c.got)
  <2>1. OneBatch(m, s, c.got) /\ Len(m) \in Nat
    BY SentType DEF Holds
  <2>2. QED
    BY <2>1, BatchOfRun
<1>2. s \in Nat /\ c.got \in s..Len(m) /\ Len(m) \in Nat
  BY SentType DEF Holds, OneBatch, Starts
<1>3. m[s].batch = c.id /\ m[c.got].change.lsn = c.lsn
  <2>1. s \in s..c.got
    BY <1>2
  <2>2. QED
    BY <2>1 DEF Holds
<1>4. {m[k].change : k \in s..c.got} = ToSet(c.batch)
  <2>1. DOMAIN c.batch = 1..Len(c.batch) /\ Len(c.batch) = c.got - s + 1
    BY LenProperties DEF Typed, Call, Holds
  <2>2. ASSUME NEW k \in s..c.got PROVE m[k].change \in ToSet(c.batch)
    <3>1. k - s + 1 \in 1..Len(c.batch) /\ s + (k - s + 1) - 1 = k
      BY <1>2, <2>1
    <3>2. c.batch[k - s + 1] = m[k].change
      BY <3>1 DEF Holds
    <3>3. QED
      BY <2>1, <3>1, <3>2 DEF ToSet
  <2>3. ASSUME NEW k \in 1..Len(c.batch)
        PROVE  c.batch[k] \in {m[j].change : j \in s..c.got}
    <3>1. s + k - 1 \in s..c.got
      BY <1>2, <2>1
    <3>2. QED
      BY <3>1 DEF Holds
  <2>4. QED
    BY <2>1, <2>2, <2>3 DEF ToSet
<1>5. QED
  BY <1>1, <1>3, <1>4 DEF BatchAt

-------------------------------------------------------------------------------
(* What steps leave alone                                                  *)

CommitsGrow == commits' = commits \/ \E r \in CommitRec : commits' = Append(commits, r)

LEMMA Earlier ==
    ASSUME Typed, CommitsGrow
    PROVE  /\ Len(commits) \in Nat /\ Len(commits') \in Nat /\ Len(commits) <= Len(commits')
           /\ \A i \in 1..Len(commits) : commits'[i] = commits[i]
           /\ commits' \in Seq(CommitRec)
<1>1. commits \in Seq(CommitRec) /\ Len(commits) \in Nat
  BY LenProperties DEF Typed
<1>2. CASE commits' = commits
  BY <1>1, <1>2
<1>3. ASSUME NEW r \in CommitRec, commits' = Append(commits, r)
      PROVE  /\ Len(commits') = Len(commits) + 1 /\ commits' \in Seq(CommitRec)
             /\ \A i \in 1..Len(commits) : commits'[i] = commits[i]
  BY <1>1, <1>3, AppendProperties
<1>4. QED
  BY <1>1, <1>2, <1>3 DEF CommitsGrow

LEMMA CommittedStays ==
    ASSUME Typed, CommitsGrow, NEW h, NEW id, NEW S, CommittedAs(h, id, S)
    PROVE  CommittedAs(h, id, S)'
<1>1. PICK i \in 1..Len(commits) : /\ commits[i].stream = h /\ commits[i].id = id
                                   /\ commits[i].changes = S
  BY DEF CommittedAs
<1>2. i \in 1..Len(commits') /\ commits'[i] = commits[i]
  BY Earlier
<1>3. QED
  BY <1>1, <1>2 DEF CommittedAs

LEMMA SameBatches ==
    ASSUME UNCHANGED sent PROVE \A h \in Handlers : BatchesOf(h)' = BatchesOf(h)
  BY DEF BatchesOf

LEMMA AcksStay ==
    ASSUME StreamInv, UNCHANGED sent, CommitsGrow, NEW g \in Handlers, acks'[g] = acks[g]
    PROVE  AcksOK(g)'
<1>1. AcksOK(g) /\ Typed
  BY DEF StreamInv
<1>2. BatchesOf(g)' = BatchesOf(g)
  BY SameBatches
<1>3. ASSUME NEW n \in 1..Len(acks[g]), acks[g][n].status = "OK"
      PROVE  CommittedAs(g, BatchesOf(g)[n].id, BatchesOf(g)[n].changes)'
  <2>1. PICK b : b = BatchesOf(g)[n]
    OBVIOUS
  <2>2. CommittedAs(g, b.id, b.changes)
    BY <1>1, <1>3, <2>1 DEF AcksOK
  <2>3. CommittedAs(g, b.id, b.changes)'
    BY <1>1, <2>2, CommittedStays
  <2>4. QED
    BY <1>2, <2>1, <2>3
<1>4. QED
  BY <1>1, <1>2, <1>3 DEF AcksOK

LEMMA OtherCalls ==
    ASSUME StreamInv, UNCHANGED sent, CommitsGrow,
           NEW g \in Handlers, call'[g] = call[g], acks'[g] = acks[g]
    PROVE  StreamOK(g)' /\ AcksOK(g)'
<1>1. StreamOK(g) /\ Typed
  BY DEF StreamInv
<1>2. PICK c : c = call[g]
  OBVIOUS
<1>3. CommittedAs(g, c.id, ToSet(c.batch)) => CommittedAs(g, c.id, ToSet(c.batch))'
  BY <1>1, CommittedStays
<1>4. StreamOK(g)'
  BY <1>1, <1>2, <1>3 DEF StreamOK
<1>5. QED
  BY <1>4, AcksStay

LEMMA CommitsStay ==
    ASSUME StreamInv, UNCHANGED <<sent, commits>> PROVE CommitsOK'
<1>1. \A i \in 1..Len(commits) : commits[i].stream \in Handlers
  <2>1. \A i \in 1..Len(commits) : commits[i] \in CommitRec
    BY ElementOfSeq DEF StreamInv, Typed
  <2>2. QED
    BY <2>1 DEF CommitRec
<1>2. ASSUME NEW i \in 1..Len(commits)
      PROVE  BatchesOf(commits[i].stream)' = BatchesOf(commits[i].stream)
  BY <1>1, SameBatches
<1>3. CommitsOK
  BY DEF StreamInv
<1>4. ASSUME NEW i \in 1..Len(commits)
      PROVE  \E n \in 1..Len(BatchesOf(commits[i].stream)') :
                /\ BatchesOf(commits[i].stream)'[n].id = commits[i].id
                /\ BatchesOf(commits[i].stream)'[n].changes = commits[i].changes
  BY <1>2, <1>3 DEF CommitsOK
<1>5. QED
  BY <1>4 DEF CommitsOK

-------------------------------------------------------------------------------
(* The steps of a handler                                                  *)

OnlyCall(h) ==
    /\ call' \in [Handlers -> Call]
    /\ \A g \in Handlers \ {h} : call'[g] = call[g]

LEMMA OneCallChanges ==
    ASSUME StreamInv, NEW h \in Handlers, UNCHANGED <<sent, commits>>, OnlyCall(h),
           acks' \in [Handlers -> Seq(Answer)],
           \A g \in Handlers \ {h} : acks'[g] = acks[g],
           StreamOK(h)', AcksOK(h)'
    PROVE  StreamInv'
<1>1. Typed'
  BY DEF StreamInv, Typed, OnlyCall
<1>2. CommitsOK'
  BY CommitsStay
<1>3. \A g \in Handlers \ {h} : StreamOK(g)' /\ AcksOK(g)'
  BY OtherCalls DEF OnlyCall, CommitsGrow
<1>4. QED
  BY <1>1, <1>2, <1>3 DEF StreamInv

LEMMA CallType ==
    ASSUME Typed, NEW h \in Handlers
    PROVE  /\ call[h] \in Call /\ call[h].batch \in Seq(Change)
           /\ call[h].got \in Nat /\ call[h].stmt \in Nat /\ call[h].lsn \in Nat
           /\ acks[h] \in Seq(Answer) /\ Len(acks[h]) \in Nat
  BY LenProperties DEF Typed, Call

\* A message joins the batch in hand or begins one.
LEMMA ReceiveStep ==
    ASSUME StreamInv, NEW h \in Handlers, Receive(h), UNCHANGED sent
    PROVE  StreamInv'
<1> DEFINE m == sent[h]
           c == call[h]
           new == m[c.got + 1]
<1>1. Typed /\ StreamOK(h)
  BY DEF StreamInv
<1>2. /\ c.got \in Nat /\ Len(m) \in Nat /\ c.got + 1 \in 1..Len(m)
      /\ new.batch \in Nat /\ new.change \in Change /\ new.change.lsn \in Nat
      /\ c.batch \in Seq(Change) /\ c.pc = "recv"
  BY <1>1, SentType, CallType DEF Receive
<1>3. /\ call'[h].pc = "recv" /\ call'[h].got = c.got + 1 /\ call'[h].id = new.batch
      /\ call'[h].batch = Append(c.batch, new.change) /\ call'[h].lsn = new.change.lsn
  BY <1>1 DEF Receive, NextMessage, Typed, Call
<1>4. OnlyCall(h)
  <2>1. Append(c.batch, new.change) \in Seq(Change)
    BY <1>2, AppendProperties
  <2>2. call'[h] \in Call
    <3>1. call'[h] = [c EXCEPT !.got = @ + 1, !.batch = Append(@, new.change),
                               !.id = new.batch, !.lsn = new.change.lsn]
      BY <1>1 DEF Receive, NextMessage, Typed
    <3>2. c \in Call /\ c.got + 1 \in Nat
      BY <1>1, <1>2, CallType
    <3>3. QED
      BY <1>2, <2>1, <3>1, <3>2 DEF Call
  <2>3. QED
    BY <1>1, <2>2 DEF Receive, OnlyCall, Typed
<1>5. /\ Len(call'[h].batch) = Len(c.batch) + 1 /\ call'[h].batch # <<>>
      /\ Len(c.batch) \in Nat
      /\ \A k \in 1..Len(c.batch) : call'[h].batch[k] = c.batch[k]
      /\ call'[h].batch[Len(c.batch) + 1] = new.change
  <2>1. Len(c.batch) \in Nat
    BY <1>2, LenProperties
  <2>2. c.batch \in Seq(Change) /\ new.change \in Change
    BY <1>2
  <2> DEFINE d == Append(c.batch, new.change)
  <2>3. /\ Len(d) = Len(c.batch) + 1 /\ d[Len(c.batch) + 1] = new.change
        /\ \A k \in 1..Len(c.batch) : d[k] = c.batch[k]
    BY <2>2, AppendProperties
  <2>4. call'[h].batch = d
    BY <1>3
  <2> HIDE DEF d
  <2>5. d # <<>>
    BY <2>1, <2>3
  <2>6. QED
    BY <2>1, <2>3, <2>4, <2>5
<1>6. UNCHANGED <<sent, commits, acks>>
  BY DEF Receive, historyVars
<1>7. \E s \in Starts(m) : Holds(m, s, call'[h]) /\ Len(acks[h]) + 1 = Count(m, s)
  <2>1. CASE c.batch = <<>>
    <3>1. EndsAt(m, c.got) /\ Len(acks[h]) = Count(m, c.got)
      BY <1>1, <1>2, <2>1 DEF StreamOK
    <3>2. c.got + 1 \in Starts(m) /\ Count(m, c.got + 1) = Count(m, c.got) + 1
      BY <1>2, <3>1, CountsOne DEF EndsAt
    <3>3. Len(c.batch) = 0
      BY <2>1
    <3>4. Holds(m, c.got + 1, call'[h])
      <4>1. OneBatch(m, c.got + 1, c.got + 1)
        BY <1>2, <3>2 DEF OneBatch
      <4>2. \A k \in (c.got + 1)..(c.got + 1) : k = c.got + 1
        BY <1>2
      <4>3. /\ Len(call'[h].batch) = (c.got + 1) - (c.got + 1) + 1
            /\ \A k \in 1..Len(call'[h].batch) : k = 1 /\ (c.got + 1) + k - 1 = c.got + 1
        BY <1>2, <1>5, <3>3
      <4>4. call'[h].batch[1] = new.change
        BY <1>5, <3>3
      <4>5. QED
        BY <1>3, <4>1, <4>2, <4>3, <4>4 DEF Holds
    <3>5. QED
      BY <3>1, <3>2, <3>4
  <2>2. CASE c.batch # <<>>
    <3>1. PICK s \in Starts(m) : Holds(m, s, c) /\ Len(acks[h]) + 1 = Count(m, s)
      BY <1>1, <1>2, <2>2 DEF StreamOK
    <3>2. s \in Nat /\ c.got \in s..Len(m)
      BY <3>1 DEF Holds, OneBatch, Starts
    <3>3. m[c.got].batch = c.id /\ c.id = new.batch
      <4>1. c.got \in s..c.got
        BY <3>2
      <4>2. QED
        BY <1>2, <2>2, <3>1, <4>1 DEF Holds, Receive, AtBoundary, NextMessage
    <3>4. c.got + 1 \notin Starts(m)
      <4>1. c.got + 1 # 1 /\ (c.got + 1) - 1 = c.got
        BY <1>2, <3>2 DEF Starts
      <4>2. QED
        BY <3>3, <4>1 DEF Starts
    <3>5. OneBatch(m, s, c.got + 1)
      <4>1. \A k \in s..((c.got + 1) - 1) : k \in s..(c.got - 1) \/ k = c.got
        BY <1>2, <3>2
      <4>2. QED
        <5>1. OneBatch(m, s, c.got)
          BY <3>1 DEF Holds
        <5>2. c.got + 1 \in s..Len(m)
          BY <1>2, <3>2
        <5>3. QED
          BY <3>4, <4>1, <5>1, <5>2 DEF OneBatch
    <3>6. Len(call'[h].batch) = (c.got + 1) - s + 1
      BY <1>2, <1>5, <3>1, <3>2 DEF Holds
    <3>7. \A k \in 1..Len(call'[h].batch) : call'[h].batch[k] = m[s + k - 1].change
      <4>1. ASSUME NEW k \in 1..Len(call'[h].batch), k # Len(c.batch) + 1
            PROVE  call'[h].batch[k] = m[s + k - 1].change
        <5>1. k \in 1..Len(c.batch)
          BY <1>5, <4>1
        <5>2. QED
          BY <1>5, <3>1, <5>1 DEF Holds
      <4>2. s + (Len(c.batch) + 1) - 1 = c.got + 1
        BY <1>2, <3>1, <3>2 DEF Holds
      <4>3. QED
        BY <1>5, <4>1, <4>2
    <3>8. \A k \in s..(c.got + 1) : m[k].batch = new.batch
      <4>1. \A k \in s..(c.got + 1) : k \in s..c.got \/ k = c.got + 1
        BY <1>2, <3>2
      <4>2. QED
        BY <3>1, <3>3, <4>1 DEF Holds
    <3>9. Holds(m, s, call'[h])
      BY <1>3, <3>5, <3>6, <3>7, <3>8 DEF Holds
    <3>10. QED
      BY <3>1, <3>9
  <2>3. QED
    BY <2>1, <2>2
<1>8. StreamOK(h)'
  <2>1. call'[h].got \in 0..Len(m) /\ sent'[h] = m /\ acks'[h] = acks[h]
    BY <1>2, <1>3, <1>6
  <2>2. call'[h].pc = "recv" /\ call'[h].batch # <<>>
    BY <1>3, <1>5
  <2>3. QED
    BY <1>7, <2>1, <2>2 DEF StreamOK
<1>9. AcksOK(h)'
  BY <1>6, AcksStay DEF CommitsGrow
<1>10. acks' \in [Handlers -> Seq(Answer)] /\ \A g \in Handlers \ {h} : acks'[g] = acks[g]
  BY <1>1, <1>6 DEF Typed
<1>11. QED
  BY <1>4, <1>6, <1>8, <1>9, <1>10, OneCallChanges

LEMMA GoesTo ==
    ASSUME Typed, NEW h \in Handlers, NEW p \in {"begin", "done"}, Goto(h, p)
    PROVE  /\ OnlyCall(h)
           /\ call'[h].pc = p /\ call'[h].got = call[h].got /\ call'[h].batch = call[h].batch
           /\ call'[h].id = call[h].id /\ call'[h].lsn = call[h].lsn
<1>1. call[h] \in Call /\ call'[h] = [call[h] EXCEPT !.pc = p]
  BY DEF Goto, Typed
<1>2. call'[h] \in Call
  BY <1>1 DEF Call
<1>3. QED
  BY <1>1, <1>2 DEF Goto, OnlyCall, Typed, Call

\* A boundary or the end of the stream completes the batch in hand.
LEMMA BatchEnds ==
    ASSUME StreamInv, NEW h \in Handlers, EndBatch(h) \/ EndOfStream(h) \/ ReceiveFails(h),
           UNCHANGED sent
    PROVE  StreamInv'
<1> DEFINE m == sent[h]
           c == call[h]
<1>1. Typed /\ StreamOK(h) /\ c.got \in Nat /\ Len(m) \in Nat /\ c.got \in 0..Len(m)
  BY SentType, CallType DEF StreamInv, StreamOK
<1>2. /\ UNCHANGED <<sent, commits, acks>>
      /\ acks' \in [Handlers -> Seq(Answer)] /\ \A g \in Handlers \ {h} : acks'[g] = acks[g]
  BY <1>1 DEF EndBatch, EndOfStream, ReceiveFails, historyVars, Typed
<1>3. AcksOK(h)'
  BY <1>2, AcksStay DEF CommitsGrow
<1>4. CASE Goto(h, "done")
  <2>1. StreamOK(h)'
    BY <1>1, <1>2, <1>4, GoesTo DEF StreamOK
  <2>2. QED
    BY <1>1, <1>2, <1>3, <1>4, <2>1, GoesTo, OneCallChanges
<1>5. CASE /\ Goto(h, "begin") /\ c.pc = "recv" /\ c.batch # <<>>
           /\ c.got = Len(m) \/ (c.got < Len(m) /\ AtBoundary(h))
  <2>1. PICK s \in Starts(m) : Holds(m, s, c) /\ Len(acks[h]) + 1 = Count(m, s)
    BY <1>1, <1>5 DEF StreamOK
  <2>2. EndsAt(m, c.got)
    <3>1. CASE c.got = Len(m)
      BY <3>1 DEF EndsAt
    <3>2. CASE c.got < Len(m) /\ AtBoundary(h)
      <4>1. s \in Nat /\ c.got \in s..c.got /\ s >= 1 /\ c.got >= s
        BY <2>1 DEF Holds, OneBatch, Starts
      <4>2. m[c.got].batch # m[c.got + 1].batch
        BY <2>1, <3>2, <4>1 DEF Holds, AtBoundary, NextMessage
      <4>3. c.got + 1 \in 1..Len(m) /\ (c.got + 1) - 1 = c.got
        BY <1>1, <3>2
      <4>4. QED
        BY <4>2, <4>3 DEF EndsAt, Starts
    <3>3. QED
      BY <1>5, <3>1, <3>2
  <2>3. Holds(m, s, call'[h])
    BY <1>1, <1>5, <2>1, GoesTo DEF Holds
  <2>4. StreamOK(h)'
    BY <1>1, <1>2, <1>5, <2>1, <2>2, <2>3, GoesTo DEF StreamOK
  <2>5. QED
    BY <1>1, <1>2, <1>3, <1>5, <2>4, GoesTo, OneCallChanges
<1>6. QED
  BY <1>4, <1>5 DEF EndBatch, EndOfStream, ReceiveFails, AtBoundary

\* The answer is that of the batch in hand, the next one of the stream.
LEMMA SendAckStep ==
    ASSUME StreamInv, NEW h \in Handlers, SendAck(h), UNCHANGED sent
    PROVE  StreamInv'
<1> DEFINE m == sent[h]
           c == call[h]
<1>1. /\ Typed /\ StreamOK(h) /\ AcksOK(h) /\ c.got \in Nat /\ Len(m) \in Nat
      /\ c.got \in 0..Len(m) /\ c.pc = "answer" /\ UNCHANGED <<sent, commits>>
  BY SentType, CallType DEF StreamInv, StreamOK, SendAck, historyVars
<1>2. CASE h \in gone
  <2>1. Goto(h, "done") /\ acks' = acks
    BY <1>2 DEF SendAck
  <2>2. acks' \in [Handlers -> Seq(Answer)] /\ \A g \in Handlers \ {h} : acks'[g] = acks[g]
    BY <1>1, <2>1 DEF Typed
  <2>3. StreamOK(h)'
    BY <1>1, <2>1, GoesTo DEF StreamOK
  <2>4. AcksOK(h)'
    BY <1>1, <2>1, AcksStay DEF CommitsGrow
  <2>5. QED
    BY <1>1, <2>1, <2>2, <2>3, <2>4, GoesTo, OneCallChanges
<1>3. CASE h \notin gone
  <2> DEFINE a == [id |-> c.id, status |-> c.status, lsn |-> c.lsn]
  <2>1. /\ acks' = [acks EXCEPT ![h] = Append(@, a)]
        /\ call' = [call EXCEPT ![h].pc = "recv", ![h].batch = <<>>]
    BY <1>3 DEF SendAck
  <2>2. a \in Answer
    BY <1>1, CallType DEF Call, Answer
  <2>3. /\ acks'[h] = Append(acks[h], a) /\ acks'[h] \in Seq(Answer)
        /\ Len(acks'[h]) = Len(acks[h]) + 1 /\ Len(acks[h]) \in Nat
        /\ \A n \in 1..Len(acks[h]) : acks'[h][n] = acks[h][n]
        /\ acks'[h][Len(acks[h]) + 1] = a
    <3>1. acks'[h] = Append(acks[h], a)
      BY <1>1, <2>1 DEF Typed
    <3>2. PICK b \in Answer : b = a
      BY <2>2
    <3>3. acks[h] \in Seq(Answer)
      BY <1>1, CallType
    <3>4. QED
      BY <3>1, <3>2, <3>3, AppendProperties, LenProperties
  <2>4. acks' \in [Handlers -> Seq(Answer)] /\ \A g \in Handlers \ {h} : acks'[g] = acks[g]
    BY <1>1, <2>1, <2>3 DEF Typed
  <2>5. /\ call'[h] = [c EXCEPT !.pc = "recv", !.batch = <<>>]
        /\ \A g \in Handlers \ {h} : call'[g] = call[g]
    BY <1>1, <2>1 DEF Typed
  <2>6. /\ call'[h] \in Call /\ call'[h].pc = "recv" /\ call'[h].batch = <<>>
        /\ call'[h].got = c.got
    <3>1. <<>> \in Seq(Change) /\ c \in Call
      BY <1>1, CallType, EmptySeq
    <3>2. QED
      BY <2>5, <3>1 DEF Call
  <2>7. OnlyCall(h)
    BY <1>1, <2>1, <2>5, <2>6 DEF OnlyCall, Typed
  <2>8. PICK s \in Starts(m) : Holds(m, s, c) /\ Len(acks[h]) + 1 = Count(m, s)
    BY <1>1 DEF StreamOK
  <2>9. EndsAt(m, c.got) /\ Count(m, c.got) = Count(m, s)
    BY <1>1, <2>8, CountStays DEF StreamOK, Holds
  <2>10. StreamOK(h)'
    BY <1>1, <2>3, <2>6, <2>8, <2>9 DEF StreamOK
  <2>11. /\ Count(m, s) \in 1..Len(BatchesOf(h))
         /\ BatchesOf(h)[Count(m, s)]
               = [id |-> c.id, lsn |-> c.lsn, changes |-> ToSet(c.batch)]
    BY <1>1, <2>8, <2>9, BatchHeld
  <2>12. c.status = "OK" => CommittedAs(h, c.id, ToSet(c.batch))
    BY <1>1 DEF StreamOK
  <2>13. AcksOK(h)'
    <3>1. Len(acks'[h]) <= Len(BatchesOf(h))
      BY <2>3, <2>8, <2>11
    <3>2. ASSUME NEW n \in 1..Len(acks'[h])
          PROVE  /\ acks'[h][n].id = BatchesOf(h)[n].id
                 /\ acks'[h][n].lsn = BatchesOf(h)[n].lsn
                 /\ acks'[h][n].status = "OK"
                       => CommittedAs(h, BatchesOf(h)[n].id, BatchesOf(h)[n].changes)
      <4>1. CASE n \in 1..Len(acks[h])
        BY <1>1, <2>3, <4>1 DEF AcksOK
      <4>2. CASE n = Len(acks[h]) + 1
        BY <2>3, <2>8, <2>11, <2>12, <4>2
      <4>3. QED
        BY <2>3, <4>1, <4>2
    <3>3. BatchesOf(h)' = BatchesOf(h)
      BY <1>1, SameBatches
    <3>4. QED
      BY <1>1, <3>1, <3>2, <3>3 DEF AcksOK, CommittedAs
  <2>14. QED
    BY <1>1, <2>4, <2>7, <2>10, <2>13, OneCallChanges
<1>4. QED
  BY <1>2, <1>3

-------------------------------------------------------------------------------
(* processBatch                                                            *)

SameBatch(h) ==
    /\ OnlyCall(h)
    /\ call'[h].got = call[h].got /\ call'[h].batch = call[h].batch
    /\ call'[h].id = call[h].id /\ call'[h].lsn = call[h].lsn

\* The batch in hand stays what it is; OK is the answer to a commit.
Works(h) ==
    /\ call[h].pc \in {"begin", "exec"}
    /\ SameBatch(h)
    /\ call'[h].pc \in {"begin", "exec", "answer"}
    /\ acks' = acks
    /\ \/ commits' = commits /\ (call'[h].pc = "answer" => call'[h].status # "OK")
       \/ commits' = Append(commits, [stream |-> h, id |-> call[h].id,
                                      changes |-> ToSet(call[h].batch)])

LEMMA CallWith ==
    ASSUME NEW c \in Call
    PROVE  /\ [c EXCEPT !.pc = "exec", !.stmt = 0] \in Call
           /\ \A st \in Statuses : [c EXCEPT !.pc = "answer", !.status = st] \in Call
  BY DEF Call

LEMMA SetAnswer ==
    ASSUME Typed, NEW h \in Handlers, NEW st \in Statuses,
           call' = [call EXCEPT ![h].pc = "answer", ![h].status = st]
    PROVE  /\ SameBatch(h) /\ call'[h].pc = "answer"
           /\ call'[h].stmt = call[h].stmt /\ call'[h].status = st
<1>1. /\ call[h] \in Call
      /\ call'[h] = [call[h] EXCEPT !.pc = "answer", !.status = st]
      /\ \A g \in Handlers \ {h} : call'[g] = call[g]
  BY DEF Typed
<1>2. [call[h] EXCEPT !.pc = "answer", !.status = st] \in Call
  BY <1>1, CallWith
<1>3. call'[h] \in Call
  BY <1>1, <1>2
<1>4. QED
  BY <1>1, <1>3 DEF SameBatch, OnlyCall, Typed, Call

LEMMA SetExec ==
    ASSUME Typed, NEW h \in Handlers,
           call' = [call EXCEPT ![h].pc = "exec", ![h].stmt = 0]
    PROVE  /\ SameBatch(h) /\ call'[h].pc = "exec"
           /\ call'[h].stmt = 0 /\ call'[h].status = call[h].status
<1>1. /\ call[h] \in Call
      /\ call'[h] = [call[h] EXCEPT !.pc = "exec", !.stmt = 0]
      /\ \A g \in Handlers \ {h} : call'[g] = call[g]
  BY DEF Typed
<1>2. call'[h] \in Call
  BY <1>1, CallWith
<1>3. QED
  BY <1>1, <1>2 DEF SameBatch, OnlyCall, Typed, Call

LEMMA SetStmt ==
    ASSUME Typed, NEW h \in Handlers,
           call' = [call EXCEPT ![h].stmt = @ + 1]
    PROVE  /\ SameBatch(h) /\ call'[h].pc = call[h].pc
           /\ call'[h].stmt = call[h].stmt + 1 /\ call'[h].status = call[h].status
<1>1. /\ call[h] \in Call
      /\ call'[h] = [call[h] EXCEPT !.stmt = @ + 1]
      /\ \A g \in Handlers \ {h} : call'[g] = call[g]
  BY DEF Typed
<1>2. call'[h] \in Call
  BY <1>1 DEF Call
<1>3. QED
  BY <1>1, <1>2 DEF SameBatch, OnlyCall, Typed, Call

LEMMA FailWorks ==
    ASSUME Typed, NEW h \in Handlers, call[h].pc \in {"begin", "exec"}, NEW cause, Fail(h, cause)
    PROVE  Works(h)
<1>1. categorizeError(cause) \in Statuses \ {"OK"}
  BY DEF categorizeError, Statuses
<1>2. PICK st \in Statuses \ {"OK"} : st = categorizeError(cause)
  BY <1>1
<1>3. call' = [call EXCEPT ![h].pc = "answer", ![h].status = st]
  BY <1>2 DEF Fail
<1>4. SameBatch(h) /\ call'[h].pc = "answer" /\ call'[h].status = st
  BY <1>3, SetAnswer
<1>5. QED
  BY <1>2, <1>4 DEF Works, Fail, historyVars

LEMMA WaitsInLoop == ASSUME NEW h \in Handlers, Deadlocked(h) PROVE call[h].pc = "exec"
  BY DEF Deadlocked, WaitsFor, InLoop

LEMMA CommitWorks ==
    ASSUME Typed, NEW h \in Handlers, Done(h), NEW st \in Statuses,
           call' = [call EXCEPT ![h].pc = "answer", ![h].status = st],
           UNCHANGED acks,
           \/ Committed(h)
           \/ UNCHANGED commits /\ st # "OK"
    PROVE  Works(h)
<1>1. SameBatch(h) /\ call'[h].pc = "answer" /\ call'[h].status = st
  BY SetAnswer
<1>2. QED
  BY <1>1 DEF Works, Committed, Done

LEMMA ProcessBatch ==
    ASSUME Typed, NEW h \in Handlers,
           \/ BeginTransaction(h) \/ Execute(h) \/ FindKey(h) \/ ApplyChangesFails(h)
           \/ Cancelled(h) \/ CommitTransaction(h) \/ CommitUnknown(h)
    PROVE  Works(h)
<1>1. call[h] \in Call /\ call[h].stmt \in Nat /\ call[h].status \in Statuses
  BY CallType DEF Call
<1>2. CASE BeginTransaction(h)
  BY <1>2, SetExec DEF BeginTransaction, Works, historyVars
<1>3. CASE Execute(h)
  BY <1>3, SetStmt DEF Execute, InLoop, Works, historyVars
<1>4. CASE FindKey(h)
  BY <1>1, <1>4 DEF FindKey, NeedsKey, InLoop, Works, SameBatch, OnlyCall, historyVars, Typed
<1>5. CASE ApplyChangesFails(h)
  BY <1>5, FailWorks, WaitsInLoop DEF ApplyChangesFails, NeedsKey, InLoop
<1>6. CASE Cancelled(h)
  BY <1>6, FailWorks DEF Cancelled
<1>7. CASE CommitTransaction(h)
  BY <1>7, CommitWorks DEF CommitTransaction, Statuses
<1>8. CASE CommitUnknown(h)
  <2>1. CommitAnswer(h) = "RETRY"
    BY DEF CommitAnswer, categorizeError
  <2>2. QED
    BY <1>8, <2>1, CommitWorks DEF CommitUnknown, Statuses, historyVars
<1>9. QED
  BY <1>2, <1>3, <1>4, <1>5, <1>6, <1>7, <1>8

LEMMA WorkStep ==
    ASSUME StreamInv, NEW h \in Handlers, Works(h), UNCHANGED sent
    PROVE  StreamInv'
<1> DEFINE m == sent[h]
           c == call[h]
           r == [stream |-> h, id |-> c.id, changes |-> ToSet(c.batch)]
<1>1. /\ Typed /\ StreamOK(h) /\ CommitsOK /\ c \in Call /\ c.batch \in Seq(Change)
      /\ c.pc \in {"begin", "exec"} /\ OnlyCall(h) /\ acks' = acks
  BY CallType DEF StreamInv, Works, SameBatch
<1>2. r \in CommitRec
  <2>1. ToSet(c.batch) \subseteq Change
    BY <1>1, ElementOfSeq, LenProperties DEF ToSet
  <2>2. QED
    BY <1>1, <2>1 DEF CommitRec, Call
<1>3. CommitsGrow
  BY <1>2 DEF CommitsGrow, Works
<1>4. Typed'
  BY <1>1, <1>3, Earlier DEF Typed, OnlyCall
<1>5. \A g \in Handlers : acks'[g] = acks[g]
  BY <1>1
<1>6. \A g \in Handlers \ {h} : StreamOK(g)' /\ AcksOK(g)'
  BY <1>1, <1>3, <1>5, OtherCalls DEF OnlyCall
<1>7. AcksOK(h)'
  BY <1>3, <1>5, AcksStay
<1>8. PICK s \in Starts(m) : Holds(m, s, c) /\ Len(acks[h]) + 1 = Count(m, s)
  BY <1>1 DEF StreamOK
<1>9. Holds(m, s, call'[h])
  BY <1>8 DEF Works, SameBatch, Holds
<1>10. commits' = Append(commits, r) => CommittedAs(h, c.id, ToSet(c.batch))'
  <2>1. SUFFICES ASSUME commits' = Append(commits, r)
                 PROVE  CommittedAs(h, c.id, ToSet(c.batch))'
    OBVIOUS
  <2>2. PICK q \in CommitRec : q = r
    BY <1>2
  <2>3. Len(commits) \in Nat /\ Len(commits') = Len(commits) + 1 /\ commits'[Len(commits) + 1] = r
    BY <1>1, <2>1, <2>2, AppendProperties, LenProperties DEF Typed
  <2>4. QED
    <3>1. Len(commits) + 1 \in 1..Len(commits')
      BY <2>3
    <3>2. QED
      BY <2>3, <3>1 DEF CommittedAs, Works, SameBatch
<1>11. StreamOK(h)'
  BY <1>1, <1>8, <1>9, <1>10 DEF StreamOK, Works, SameBatch
<1>12. CommitsOK'
  <2>1. CASE commits' = commits
    BY <2>1, CommitsStay
  <2>2. CASE commits' = Append(commits, r)
    <3>1. PICK q \in CommitRec : q = r
      BY <1>2
    <3>2. /\ Len(commits) \in Nat /\ Len(commits') = Len(commits) + 1
          /\ commits'[Len(commits) + 1] = r
          /\ \A i \in 1..Len(commits) : /\ commits'[i] = commits[i]
                                        /\ commits[i].stream \in Handlers
      <4>1. commits \in Seq(CommitRec)
        BY <1>1 DEF Typed
      <4>2. \A i \in 1..Len(commits) : commits[i] \in CommitRec
        BY <4>1, ElementOfSeq
      <4>3. \A i \in 1..Len(commits) : commits[i].stream \in Handlers
        BY <4>2 DEF CommitRec
      <4>4. QED
        BY <2>2, <3>1, <4>1, <4>3, AppendProperties, LenProperties
    <3>3. EndsAt(m, c.got)
      BY <1>1 DEF StreamOK
    <3>4. PICK n \in 1..Len(BatchesOf(h)) :
             BatchesOf(h)[n] = [id |-> c.id, lsn |-> c.lsn, changes |-> ToSet(c.batch)]
      BY <1>1, <1>8, <3>3, BatchHeld
    <3>5. \A g \in Handlers : BatchesOf(g)' = BatchesOf(g)
      BY SameBatches
    <3>6. \A i \in 1..Len(commits') : i \in 1..Len(commits) \/ i = Len(commits) + 1
      BY <3>2
    <3>7. ASSUME NEW i \in 1..Len(commits)
          PROVE  \E g \in Handlers : g = commits'[i].stream /\ \E k \in 1..Len(BatchesOf(g)') :
                    /\ BatchesOf(g)'[k].id = commits'[i].id
                    /\ BatchesOf(g)'[k].changes = commits'[i].changes
      <4>1. PICK g \in Handlers : g = commits[i].stream /\ g = commits'[i].stream
        BY <3>2
      <4>2. PICK k \in 1..Len(BatchesOf(g)) : /\ BatchesOf(g)[k].id = commits[i].id
                                              /\ BatchesOf(g)[k].changes = commits[i].changes
        BY <1>1, <4>1 DEF CommitsOK
      <4>3. commits'[i] = commits[i] /\ BatchesOf(g)' = BatchesOf(g)
        BY <3>2, <3>5
      <4>4. QED
        BY <4>1, <4>2, <4>3
    <3>8. \E k \in 1..Len(BatchesOf(h)') :
             /\ BatchesOf(h)'[k].id = commits'[Len(commits) + 1].id
             /\ BatchesOf(h)'[k].changes = commits'[Len(commits) + 1].changes
      BY <3>2, <3>4, <3>5
    <3>9. commits'[Len(commits) + 1].stream = h
      BY <3>2
    <3>10. ASSUME NEW i \in 1..Len(commits')
           PROVE  \E g \in Handlers : g = commits'[i].stream /\ \E k \in 1..Len(BatchesOf(g)') :
                    /\ BatchesOf(g)'[k].id = commits'[i].id
                    /\ BatchesOf(g)'[k].changes = commits'[i].changes
      BY <3>6, <3>7, <3>8, <3>9
    <3>11. QED
      BY <3>10 DEF CommitsOK
  <2>3. QED
    BY <2>1, <2>2 DEF Works
<1>13. QED
  BY <1>4, <1>6, <1>7, <1>11, <1>12 DEF StreamInv

-------------------------------------------------------------------------------
(* The theorems                                                            *)

LEMMA StreamInit == Init => StreamInv
<1> SUFFICES ASSUME Init PROVE StreamInv
  OBVIOUS
<1>1. Typed
  <2>1. <<>> \in Seq(Change) /\ <<>> \in Seq(Answer) /\ <<>> \in Seq(CommitRec)
    BY EmptySeq
  <2>2. NoCall \in Call
    BY <2>1 DEF NoCall, Call, NoLsn, Statuses
  <2>3. QED
    BY <2>1, <2>2 DEF Init, Typed
<1>2. Len(commits) = 0 /\ \A h \in Handlers : Len(acks[h]) = 0
  BY DEF Init
<1>3. ASSUME NEW h \in Handlers PROVE StreamOK(h) /\ AcksOK(h)
  <2>1. Len(sent[h]) \in Nat
    BY <1>1, SentType
  <2>2. EndsAt(sent[h], 0)
    BY <2>1 DEF EndsAt, Starts
  <2>3. Count(sent[h], 0) = 0
    <3>1. Begun(sent[h], 0) = {}
      BY <2>1 DEF Begun, Starts
    <3>2. QED
      BY <3>1, FS_EmptySet DEF Count
  <2>4. StreamOK(h)
    BY <1>2, <2>1, <2>2, <2>3 DEF Init, NoCall, StreamOK
  <2>5. Len(BatchesOf(h)) \in Nat
    BY <2>1, BegunFinite DEF BatchesOf
  <2>6. AcksOK(h)
    BY <1>2, <2>5 DEF AcksOK
  <2>7. QED
    BY <2>4, <2>6
<1>4. CommitsOK
  BY <1>2 DEF CommitsOK
<1>5. QED
  BY <1>1, <1>3, <1>4 DEF StreamInv

LEMMA HandlerStepKeeps ==
    ASSUME StreamInv, NEW h \in Handlers, HandlerStep(h) PROVE StreamInv'
<1>1. UNCHANGED sent /\ Typed
  BY DEF HandlerStep, StreamInv
<1>2. CASE Receive(h)
  BY <1>1, <1>2, ReceiveStep
<1>3. CASE EndBatch(h) \/ EndOfStream(h) \/ ReceiveFails(h)
  BY <1>1, <1>3, BatchEnds
<1>4. CASE SendAck(h)
  BY <1>1, <1>4, SendAckStep
<1>5. CASE \/ BeginTransaction(h) \/ Execute(h) \/ FindKey(h) \/ ApplyChangesFails(h)
           \/ Cancelled(h) \/ CommitTransaction(h) \/ CommitUnknown(h)
  BY <1>1, <1>5, ProcessBatch, WorkStep
<1>6. QED
  BY <1>2, <1>3, <1>4, <1>5 DEF HandlerStep

\* A process that ends leaves its streams as they are.
LEMMA ProcessEndsKeeps == ASSUME StreamInv, ProcessEnds PROVE StreamInv'
<1>1. Typed /\ UNCHANGED <<sent, commits, acks>>
  BY DEF StreamInv, ProcessEnds, historyVars
<1>2. \A h \in Handlers : call'[h] = [call[h] EXCEPT !.pc = "done"] /\ call[h] \in Call
  BY <1>1 DEF ProcessEnds, Typed
<1>3. \A h \in Handlers : /\ call'[h] \in Call /\ call'[h].pc = "done"
                          /\ call'[h].got = call[h].got
  <2> SUFFICES ASSUME NEW h \in Handlers
               PROVE  /\ call'[h] \in Call /\ call'[h].pc = "done"
                      /\ call'[h].got = call[h].got
    OBVIOUS
  <2>1. call'[h] = [call[h] EXCEPT !.pc = "done"] /\ call[h] \in Call
    BY <1>2
  <2>2. call'[h].pc = "done" /\ call'[h].got = call[h].got
    BY <2>1 DEF Call
  <2>3. call'[h] \in Call
    BY <2>1 DEF Call
  <2>4. QED
    BY <2>2, <2>3
<1>4. Typed'
  BY <1>1, <1>3 DEF ProcessEnds, Typed
<1>5. \A h \in Handlers : StreamOK(h)'
  BY <1>1, <1>3 DEF StreamInv, StreamOK
<1>6. \A h \in Handlers : AcksOK(h)'
  BY <1>1, AcksStay DEF CommitsGrow
<1>7. QED
  BY <1>1, <1>4, <1>5, <1>6, CommitsStay DEF StreamInv

LEMMA StreamNext == StreamInv /\ [Next]_vars => StreamInv'
<1> SUFFICES ASSUME StreamInv, [Next]_vars PROVE StreamInv'
  OBVIOUS
<1>1. ASSUME NEW h \in Handlers, HandlerStep(h) PROVE StreamInv'
  BY <1>1, HandlerStepKeeps
<1>2. CASE UNCHANGED <<sent, call, acks, commits>>
  <2>1. \A h \in Handlers : StreamOK(h)' /\ AcksOK(h)'
    BY <1>2, OtherCalls DEF CommitsGrow
  <2>2. QED
    BY <1>2, <2>1, CommitsStay DEF StreamInv, Typed
<1>3. CASE Exit \/ Crash
  BY <1>3, ProcessEndsKeeps DEF Exit, Crash
<1>4. ASSUME NEW h \in Handlers, GiveUp(h) PROVE UNCHANGED <<sent, call, acks, commits>>
  BY <1>4 DEF GiveUp, historyVars
<1>5. Signal => UNCHANGED <<sent, call, acks, commits>>
  BY DEF Signal, historyVars
<1>6. UNCHANGED vars => UNCHANGED <<sent, call, acks, commits>>
  BY DEF vars, historyVars
<1>7. QED
  BY <1>1, <1>2, <1>3, <1>4, <1>5, <1>6 DEF Next

LEMMA StreamInvariant == Spec => []StreamInv
  BY StreamInit, StreamNext, PTL DEF Spec

\* Whatever a client sends and however handlers interleave, fail and are
\* cancelled, the n-th answer on a stream has the ID of the stream's n-th batch
\* and the LSN of that batch's last change: the first change of the next batch,
\* which is in hand by then, never gets into an answer.
THEOREM AnswersBelongToBatches == Spec => []AnswersMatchBatches
<1>1. StreamInv => AnswersMatchBatches
  BY DEF StreamInv, AcksOK, AnswersMatchBatches
<1>2. QED
  BY <1>1, StreamInvariant, PTL

\* Every commit is that of a whole batch, and every OK is for a batch that a
\* commit has: also when the connection broke in the middle of a batch, when
\* the outcome of the commit is unknown, and after the process is gone.
THEOREM OKIsCommitted == Spec => []OKMeansCommitted
<1>1. ASSUME StreamInv PROVE OKMeansCommitted
  <2>1. \A i \in 1..Len(commits) :
           \E n \in 1..Len(BatchesOf(commits[i].stream)) :
              LET b == BatchesOf(commits[i].stream)[n]
              IN  b.id = commits[i].id /\ b.changes = commits[i].changes
    BY <1>1 DEF StreamInv, CommitsOK
  <2>2. ASSUME NEW h \in Handlers, NEW n \in 1..Len(BatchesOf(h)),
               n <= Len(acks[h]), acks[h][n].status = "OK"
        PROVE  CommittedAs(h, BatchesOf(h)[n].id, BatchesOf(h)[n].changes)
    <3>1. n \in 1..Len(acks[h])
      BY <1>1, <2>2, CallType DEF StreamInv
    <3>2. QED
      BY <1>1, <2>2, <3>1 DEF StreamInv, AcksOK
  <2>3. QED
    BY <2>1, <2>2 DEF OKMeansCommitted, CommittedAs
<1>2. QED
  BY <1>1, StreamInvariant, PTL
===============================================================================
