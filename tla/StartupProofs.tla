------------------------------ MODULE StartupProofs ------------------------------
(***************************************************************************)
(* What cursors pass was confirmed, for every set of names, tables, logs    *)
(* and configurations and however often the client is restarted.           *)
(***************************************************************************)
EXTENDS StartupProperties, WellFoundedInduction, TLAPS

Numbers(cursors) == \A s \in DOMAIN cursors : cursors[s] \in Nat

\* No cursor of the first map is missing in the second or behind it there.
Behind(old, new) ==
    \A s \in DOMAIN old : s \in DOMAIN new /\ old[s] <= new[s]

\* A process holds at least what the file holds, since it began with the file
\* and writes whatever it changes.
SInv ==
    /\ losses \in Nat
    /\ Numbers(file.cursors)
    /\ Numbers(state)
    /\ file.form \notin {"map", "single"} => file.cursors = NoCursors
    /\ pc # "down" => Behind(file.cursors, state)

\* A file that is not understood holds no cursor that could be forgotten.
LEMMA LoadsAll == ASSUME SInv PROVE LoadState = file.cursors
  BY DEF SInv, LoadState

LEMMA StartupInit == Init => SInv
<1> SUFFICES ASSUME Init PROVE SInv
  OBVIOUS
<1>1. Numbers(NoCursors)
  BY DEF Numbers, NoCursors
<1>2. Numbers([s \in {default} |-> 1])
  BY DEF Numbers
<1>3. QED
  BY <1>1, <1>2 DEF Init, SInv

\* A cycle changes one cursor and moves it forward.
LEMMA UpdateMovesForward ==
    ASSUME SInv, NEW s, UpdateCursor(s)
    PROVE  /\ Numbers(state') /\ Behind(state, state')
           /\ file' = [form |-> "map", cursors |-> state']
<1> DEFINE moved == [x \in DOMAIN state \union {s} |-> IF x = s THEN Lsn(s) + 1 ELSE state[x]]
<1>1. state' = moved /\ file' = [form |-> "map", cursors |-> state']
  BY DEF UpdateCursor, persistState
<1>2. Lsn(s) \in Nat /\ (s \in DOMAIN state => Lsn(s) = state[s])
  BY DEF SInv, Numbers, Lsn
<1>3. \A x \in DOMAIN state : state[x] \in Nat
  BY DEF SInv, Numbers
<1>4. Numbers(moved)
  BY <1>2, <1>3 DEF Numbers
<1>5. Behind(state, moved)
  BY <1>2, <1>3 DEF Behind
<1>6. QED
  BY <1>1, <1>4, <1>5

\* A cycle of source s, whichever way its change goes.
Cycle(s) == CopyNext(s) \/ SkipNext(s)

LEMMA CycleUpdates ==
    ASSUME NEW s, Cycle(s)
    PROVE  /\ UpdateCursor(s) /\ pc = "running"
           /\ UNCHANGED <<environment, pc, sources, tracked, mappings, losses>>
  BY DEF Cycle, CopyNext, SkipNext, HasNext

LEMMA StartupStep == SInv /\ [Next]_vars => SInv'
<1> SUFFICES ASSUME SInv, [Next]_vars PROVE SInv'
  OBVIOUS
<1>1. CASE Start
  <2>1. state' = file.cursors /\ UNCHANGED <<file, losses>> /\ pc' = "waiting"
    BY <1>1, LoadsAll DEF Start
  <2>2. Behind(file.cursors, file.cursors)
    BY DEF SInv, Numbers, Behind
  <2>3. QED
    BY <2>1, <2>2 DEF SInv
<1>2. ASSUME NEW i \in 1..Len(sources), Cycle(sources[i]) PROVE SInv'
  <2>1. /\ Numbers(state')
        /\ file' = [form |-> "map", cursors |-> state']
        /\ losses' = losses
    BY <1>2, CycleUpdates, UpdateMovesForward
  <2>2. Behind(state', state')
    BY <2>1 DEF Numbers, Behind
  <2>3. QED
    BY <2>1, <2>2 DEF SInv
<1>3. CASE HealthCheckFails
  BY <1>3 DEF SInv, HealthCheckFails
<1>4. CASE HealthCheckOK
  BY <1>4 DEF SInv, HealthCheckOK, environment, Behind, Numbers
<1>5. CASE Stop
  BY <1>5 DEF SInv, Stop
<1>6. CASE LoseStateFile
  BY <1>6 DEF SInv, LoseStateFile, process, Numbers, Behind, NoCursors
<1>7. CASE EditConfig \/ DatabasesComeAndGo \/ ServerComesAndGoes
  BY <1>7 DEF SInv, EditConfig, DatabasesComeAndGo, ServerComesAndGoes, process
<1>8. CASE UNCHANGED vars
  BY <1>8 DEF SInv, vars, process
<1>9. QED
  BY <1>1, <1>2, <1>3, <1>4, <1>5, <1>6, <1>7, <1>8 DEF Next, Cycle

LEMMA StartupInvariant == Spec => []SInv
  BY StartupInit, StartupStep, PTL DEF Spec

\* Restarts and edits of the configuration forget no cursor and turn none
\* back: persistState writes the cursors of all sources it ever knew.
THEOREM CursorsSurvive == Spec => SavedCursorsSurvive
<1>1. SInv /\ SInv' /\ [Next]_vars
        => [losses' = losses => Behind(file.cursors, file'.cursors)]_vars
  <2> SUFFICES ASSUME SInv, SInv', [Next]_vars, losses' = losses
               PROVE  Behind(file.cursors, file'.cursors)
    OBVIOUS
  <2>1. Behind(file.cursors, file.cursors)
    BY DEF SInv, Numbers, Behind
  <2>2. ASSUME NEW i \in 1..Len(sources), Cycle(sources[i])
        PROVE  Behind(file.cursors, file'.cursors)
    <3>1. UpdateCursor(sources[i]) /\ pc = "running"
      BY <2>2, CycleUpdates
    <3>2. Behind(file.cursors, state)
      BY <3>1 DEF SInv
    <3>3. Behind(state, state') /\ file'.cursors = state'
      BY <3>1, UpdateMovesForward
    <3>4. Numbers(file.cursors) /\ Numbers(state) /\ Numbers(state')
      BY <3>3 DEF SInv
    <3>5. QED
      BY <3>2, <3>3, <3>4 DEF Behind, Numbers
  <2>3. ~LoseStateFile
    BY DEF SInv, LoseStateFile
  <2>4. CASE file' = file
    BY <2>1, <2>4
  <2>5. QED
    BY <2>2, <2>3, <2>4 DEF Next, Cycle, Start, HealthCheckFails, HealthCheckOK, Stop, EditConfig,
       DatabasesComeAndGo, ServerComesAndGoes, vars, process, environment
<1>2. QED
  BY <1>1, StartupInvariant, PTL DEF Spec, SavedCursorsSurvive, Behind

-------------------------------------------------------------------------------
(* What the cursors pass                                                   *)

\* A configuration names its sources in a sequence.
LEMMA SourcesOfConfig ==
    ASSUME NEW c \in Configs PROVE LoadConfig(c) \in Seq(Names)
  BY StartupAssumption DEF LoadConfig, Config

\* The process works from one of the configurations, maybe no longer that of
\* the file.
ConfigOK ==
    /\ config \in Configs
    /\ pc # "down" =>
          \E c \in Configs :
              /\ sources = LoadConfig(c) /\ tracked = c.tracked
              /\ mappings = Mappings(c)

\* What may be behind a cursor of source s.
MayPass(s, l) == Accounted(s, l) \/ Ambiguous(s, Log[s][l])

Covered(cursors) == \A s \in DOMAIN cursors : \A l \in 1..cursors[s] : MayPass(s, l)

\* The cursors in memory are those of the file or of a later save, so that both
\* are behind confirmed changes.
NInv ==
    /\ ConfigOK
    /\ Covered(file.cursors)
    /\ Covered(state)

LEMMA PassedInit == Init => NInv
<1> SUFFICES ASSUME Init PROVE NInv
  OBVIOUS
<1>1. ConfigOK
  BY DEF Init, ConfigOK
<1>2. Covered(NoCursors)
  BY DEF Covered, NoCursors
<1>3. CASE file = [form |-> "none", cursors |-> NoCursors]
  BY <1>1, <1>2, <1>3 DEF Init, NInv
<1>4. CASE /\ file = [form |-> "single", cursors |-> [s \in {default} |-> 1]]
           /\ confirmed = {<<default, 1>>}
  <2>1. Covered([s \in {default} |-> 1])
    BY <1>4 DEF Covered, MayPass, Accounted
  <2>2. QED
    BY <1>1, <1>2, <1>4, <2>1 DEF Init, NInv
<1>5. QED
  BY <1>3, <1>4 DEF Init

\* Whatever was confirmed or skipped remains so.
LEMMA CoveredStays ==
    ASSUME NEW cursors, Covered(cursors),
           confirmed \subseteq confirmed', unlisted \subseteq unlisted'
    PROVE  Covered(cursors)'
  BY DEF Covered, MayPass, Accounted

\* An entry that can mean a table of a source of the process does, unless it
\* does not name the source and the source is not default.
LEMMA ListedIsMapped ==
    ASSUME ConfigOK, pc # "down", NEW i \in 1..Len(sources), NEW t,
           Listed(sources[i], t), <<sources[i], t>> \notin mappings
    PROVE  Ambiguous(sources[i], t)
<1>1. PICK c \in Configs : sources = LoadConfig(c) /\ tracked = c.tracked /\ mappings = Mappings(c)
  BY DEF ConfigOK
<1> DEFINE s == sources[i]
<1>2. sources \in Seq(Names)
  BY <1>1, SourcesOfConfig
<1>3. s \in Names /\ s # NoName
  BY <1>2, StartupAssumption
<1>4. PICK e \in tracked : e.table = t /\ e.database \in {s, NoName}
  BY DEF Listed
<1>5. DatabaseName(e, sources) # s
  BY <1>1, <1>4 DEF Mappings
<1>6. e.database = NoName
  BY <1>3, <1>4, <1>5 DEF DatabaseName
<1>7. e \in TableEntry
  BY <1>1, <1>4, StartupAssumption DEF Config
<1>8. e = [database |-> NoName, table |-> t]
  BY <1>4, <1>6, <1>7 DEF TableEntry
<1>9. s # default
  <2> DEFINE n == Len(sources)
  <2>1. n \in Nat /\ i \in 1..n
    BY <1>2
  <2>2. n = 1 => i = 1
    BY <2>1
  <2>3. QED
    BY <1>5, <1>6, <2>2 DEF DatabaseName
<1>10. Len(sources) # 1
  BY <1>2, <1>5, <1>6 DEF DatabaseName
<1>11. sources = c.sources /\ Len(c.sources) > 1
  <2>1. c.sources \in Seq(Names)
    BY StartupAssumption DEF Config
  <2>2. Len(<<default>>) = 1
    OBVIOUS
  <2>3. sources = c.sources
    BY <1>1, <1>10, <2>2 DEF LoadConfig
  <2>4. PICK n \in Nat : n = Len(sources) /\ n # 0
    BY <1>2
  <2>5. n > 1
    BY <1>10, <2>4
  <2>6. QED
    BY <2>3, <2>4, <2>5
<1>12. s \in ToSet(c.sources)
  BY <1>11 DEF ToSet
<1>13. QED
  BY <1>1, <1>4, <1>8, <1>9, <1>11, <1>12 DEF Ambiguous

\* The change that a cycle passes is confirmed, or is one that may be passed.
LEMMA CycleAccounts ==
    ASSUME ConfigOK, NEW i \in 1..Len(sources), Cycle(sources[i]),
           NEW s, s = sources[i], NEW l, l = Lsn(s) + 1
    PROVE  /\ confirmed \subseteq confirmed' /\ unlisted \subseteq unlisted'
           /\ MayPass(s, l)'
<1>1. pc # "down"
  BY CycleUpdates
<1>2. CASE CopyNext(s)
  <2>1. confirmed' = confirmed \union {<<s, l>>} /\ unlisted' = unlisted
    BY <1>2 DEF CopyNext
  <2>2. QED
    BY <1>1, <2>1 DEF MayPass, Accounted
<1>3. CASE SkipNext(s)
  <2>1. /\ <<s, NextTable(s)>> \notin mappings /\ confirmed' = confirmed
        /\ unlisted' = IF Listed(s, NextTable(s)) THEN unlisted ELSE unlisted \union {<<s, l>>}
    BY <1>3 DEF SkipNext
  <2>2. CASE Listed(s, NextTable(s))
    <3>1. Ambiguous(s, Log[s][l])
      BY <1>1, <2>1, <2>2, ListedIsMapped DEF NextTable
    <3>2. QED
      BY <1>1, <2>1, <2>2, <3>1 DEF MayPass
  <2>3. CASE ~Listed(s, NextTable(s))
    BY <1>1, <2>1, <2>3 DEF MayPass, Accounted
  <2>4. QED
    BY <2>1, <2>2, <2>3
<1>4. QED
  BY <1>2, <1>3 DEF Cycle

LEMMA CycleCovers ==
    ASSUME SInv, NInv, NEW i \in 1..Len(sources), Cycle(sources[i])
    PROVE  NInv'
<1>1. PICK s : s = sources[i]
  OBVIOUS
<1>2. PICK l : l = Lsn(s) + 1
  OBVIOUS
<1>3. UpdateCursor(s) /\ UNCHANGED <<environment, pc, sources, tracked, mappings>>
  BY <1>1, CycleUpdates
<1>4. /\ confirmed \subseteq confirmed' /\ unlisted \subseteq unlisted'
      /\ MayPass(s, l)'
  BY <1>1, <1>2, CycleAccounts DEF NInv
<1>5. Covered(state)'
  <2>1. state' = [x \in DOMAIN state \union {s} |-> IF x = s THEN l ELSE state[x]]
    BY <1>2, <1>3 DEF UpdateCursor
  <2>2. Lsn(s) \in Nat /\ (s \in DOMAIN state => Lsn(s) = state[s])
                     /\ (s \notin DOMAIN state => Lsn(s) = 0)
    BY DEF SInv, Numbers, Lsn
  <2>3. ASSUME NEW x \in DOMAIN state \union {s}, NEW k \in 1..(state'[x])
        PROVE  MayPass(x, k)'
    <3>1. CASE x = s /\ k = l
      BY <1>4, <3>1
    <3>2. CASE ~(x = s /\ k = l)
      <4>1. x \in DOMAIN state /\ k \in 1..(state[x])
        BY <1>2, <2>1, <2>2, <3>2
      <4>2. MayPass(x, k)
        BY <4>1 DEF NInv, Covered
      <4>3. QED
        BY <1>4, <4>2 DEF MayPass, Accounted
    <3>3. QED
      BY <3>1, <3>2
  <2>4. QED
    BY <2>1, <2>3 DEF Covered
<1>6. file'.cursors = state'
  BY <1>3 DEF UpdateCursor, persistState
<1>7. ConfigOK'
  BY <1>3 DEF NInv, ConfigOK, environment
<1>8. Covered(file.cursors)'
  BY <1>5, <1>6 DEF Covered
<1>9. QED
  BY <1>5, <1>7, <1>8 DEF NInv

LEMMA PassedStep == SInv /\ NInv /\ [Next]_vars => NInv'
<1> SUFFICES ASSUME SInv, NInv, [Next]_vars PROVE NInv'
  OBVIOUS
<1>1. ASSUME NEW i \in 1..Len(sources), Cycle(sources[i]) PROVE NInv'
  BY <1>1, CycleCovers
<1>2. CASE Start
  <2>1. /\ state' = file.cursors /\ UNCHANGED <<config, file, confirmed, unlisted>>
        /\ sources' = LoadConfig(config) /\ tracked' = config.tracked
        /\ mappings' = Mappings(config)
    BY <1>2, LoadsAll DEF Start, environment, passed
  <2>2. ConfigOK'
    BY <2>1 DEF NInv, ConfigOK
  <2>3. QED
    BY <2>1, <2>2 DEF NInv, Covered, MayPass, Accounted
<1>3. CASE HealthCheckFails \/ HealthCheckOK \/ Stop
  <2>1. /\ UNCHANGED <<config, file, state, sources, tracked, mappings, confirmed, unlisted>>
        /\ pc = "down" => pc' = "down"
    BY <1>3 DEF HealthCheckFails, HealthCheckOK, Stop, environment, passed
  <2>2. QED
    BY <2>1 DEF NInv, ConfigOK, Covered, MayPass, Accounted
<1>4. CASE LoseStateFile
  <2>1. /\ file'.cursors = NoCursors
        /\ UNCHANGED <<environment, process, passed>>
    BY <1>4 DEF LoseStateFile
  <2>2. ConfigOK'
    BY <2>1 DEF NInv, ConfigOK, environment, process
  <2>3. Covered(NoCursors)'
    BY DEF Covered, NoCursors
  <2>4. QED
    BY <2>1, <2>2, <2>3 DEF NInv, Covered, MayPass, Accounted, process, passed, NoCursors
<1>5. CASE EditConfig \/ DatabasesComeAndGo \/ ServerComesAndGoes \/ UNCHANGED vars
  <2>1. config' \in Configs /\ UNCHANGED <<file, process, passed>>
    BY <1>5 DEF NInv, ConfigOK, EditConfig, DatabasesComeAndGo, ServerComesAndGoes, vars, environment
  <2>2. QED
    BY <2>1 DEF NInv, ConfigOK, Covered, MayPass, Accounted, process, passed
<1>6. QED
  BY <1>1, <1>2, <1>3, <1>4, <1>5 DEF Next, Cycle

\* Through restarts, edits of the configuration and both forms of the state file
\* no saved cursor passes an unconfirmed change of a listed table, unless the
\* entry leaves its database open and the source is not default.
THEOREM PassedAreConfirmed == Spec => []ListedConfirmed
<1>1. NInv => ListedConfirmed
  BY DEF NInv, Covered, MayPass, ListedConfirmed
<1>2. SInv /\ SInv' /\ NInv /\ [Next]_vars => NInv'
  BY PassedStep
<1>3. QED
  BY <1>1, <1>2, PassedInit, StartupInvariant, PTL DEF Spec

-------------------------------------------------------------------------------
(* The wait for the server                                                 *)

\* Every set of natural numbers with an element has a smallest one.
LEMMA SmallestIn ==
    ASSUME NEW S \in SUBSET Nat, S # {} PROVE \E m \in S : \A k \in S : m <= k
<1>1. PICK m \in S : \A k \in S : <<k, m>> \notin OpToRel(<, Nat)
  BY NatLessThanWellFounded, WFMin
<1>2. \A k \in S : ~(k < m)
  BY <1>1 DEF OpToRel
<1>3. QED
  BY <1>2

\* The delays up to the n-th, which exist for every n and are determined.
DelaysUpTo(n) ==
    {f \in [0..n -> Nat] : f[0] = InitialDelayMs /\ \A k \in 1..n : f[k] = 2 * f[k - 1]}

LEMMA DelaysExist == \A n \in Nat : DelaysUpTo(n) # {}
<1> DEFINE None == {n \in Nat : DelaysUpTo(n) = {}}
<1>1. SUFFICES ASSUME None # {} PROVE FALSE
  OBVIOUS
<1>2. PICK m \in None : \A k \in None : m <= k
  BY <1>1, SmallestIn
<1>3. CASE m = 0
  <2>1. [k \in 0..0 |-> InitialDelayMs] \in DelaysUpTo(0)
    BY StartupAssumption DEF DelaysUpTo
  <2>2. QED
    BY <1>3, <2>1
<1>4. CASE m # 0
  <2>1. m - 1 \in Nat /\ m \in Nat
    BY <1>4
  <2>2. PICK f : f \in DelaysUpTo(m - 1)
    BY <1>2, <2>1
  <2>3. /\ f \in [0..(m - 1) -> Nat] /\ f[0] = InitialDelayMs
        /\ \A k \in 1..(m - 1) : f[k] = 2 * f[k - 1]
    BY <2>2 DEF DelaysUpTo
  <2> DEFINE g == [k \in 0..m |-> IF k = m THEN 2 * f[m - 1] ELSE f[k]]
  <2>4. \A k \in 0..m : k = m \/ k \in 0..(m - 1)
    BY <2>1
  <2>5. m - 1 \in 0..(m - 1) /\ f[m - 1] \in Nat
    BY <2>1, <2>3
  <2>6. g \in [0..m -> Nat]
    BY <2>3, <2>4, <2>5
  <2>7. g[0] = InitialDelayMs
    BY <1>4, <2>1, <2>3
  <2>8. ASSUME NEW k \in 1..m PROVE g[k] = 2 * g[k - 1]
    <3>1. k - 1 \in 0..m /\ k \in 0..m /\ k - 1 # m
      BY <2>1
    <3>2. g[k - 1] = f[k - 1]
      BY <3>1
    <3>3. CASE k = m
      BY <2>1, <3>2, <3>3
    <3>4. CASE k # m
      <4>1. k \in 1..(m - 1)
        BY <2>1, <3>4
      <4>2. QED
        BY <2>3, <3>1, <3>2, <3>4, <4>1
    <3>5. QED
      BY <3>3, <3>4
  <2>9. g \in DelaysUpTo(m)
    BY <2>6, <2>7, <2>8 DEF DelaysUpTo
  <2>10. QED
    BY <2>9
<1>5. QED
  BY <1>3, <1>4

LEMMA DelaysAgree ==
    ASSUME NEW m \in Nat, NEW n \in Nat, NEW f \in DelaysUpTo(m), NEW g \in DelaysUpTo(n),
           NEW i \in Nat, i <= m, i <= n
    PROVE  f[i] = g[i]
<1> DEFINE Other == {k \in Nat : k <= m /\ k <= n /\ f[k] # g[k]}
<1>1. SUFFICES ASSUME Other # {} PROVE FALSE
  OBVIOUS
<1>2. PICK k \in Other : \A j \in Other : k <= j
  BY <1>1, SmallestIn
<1>3. k # 0
  BY <1>2 DEF DelaysUpTo
<1>4. k \in 1..m /\ k \in 1..n /\ k - 1 \in Nat /\ k - 1 <= m /\ k - 1 <= n /\ ~(k <= k - 1)
  BY <1>2, <1>3
<1>5. f[k - 1] = g[k - 1]
  BY <1>2, <1>4
<1>6. f[k] = 2 * f[k - 1] /\ g[k] = 2 * g[k - 1]
  BY <1>4 DEF DelaysUpTo
<1>7. QED
  BY <1>2, <1>5, <1>6

\* Delay is what its recursive definition says.
LEMMA DelayDoubles ==
    \A n \in Nat : Delay[n] = IF n = 0 THEN InitialDelayMs ELSE 2 * Delay[n - 1]
<1> DEFINE Of(n) == CHOOSE f : f \in DelaysUpTo(n)
           F == [n \in Nat |-> Of(n)[n]]
<1>1. \A n \in Nat : Of(n) \in DelaysUpTo(n)
  BY DelaysExist
<1> HIDE DEF Of
<1>2. ASSUME NEW n \in Nat PROVE F[n] = IF n = 0 THEN InitialDelayMs ELSE 2 * F[n - 1]
  <2>1. CASE n = 0
    BY <1>1, <2>1 DEF DelaysUpTo
  <2>2. CASE n # 0
    <3>1. n - 1 \in Nat /\ n - 1 <= n /\ n - 1 <= n - 1 /\ n \in 1..n
      BY <2>2
    <3>2. Of(n) \in DelaysUpTo(n) /\ Of(n - 1) \in DelaysUpTo(n - 1)
      BY <1>1, <3>1
    <3>3. Of(n)[n - 1] = Of(n - 1)[n - 1]
      BY <3>1, <3>2, DelaysAgree
    <3>4. Of(n)[n] = 2 * Of(n)[n - 1]
      BY <3>1, <3>2 DEF DelaysUpTo
    <3>5. QED
      BY <2>2, <3>1, <3>3, <3>4
  <2>3. QED
    BY <2>1, <2>2
<1> HIDE DEF F
<1>3. F = [n \in Nat |-> IF n = 0 THEN InitialDelayMs ELSE 2 * F[n - 1]]
  <2>1. F = [n \in Nat |-> F[n]]
    BY DEF F
  <2>2. QED
    BY <1>2, <2>1
<1>4. Delay = [n \in Nat |-> IF n = 0 THEN InitialDelayMs ELSE 2 * Delay[n - 1]]
  BY <1>3 DEF Delay
<1>5. QED
  BY <1>4

LEMMA DelayPositive == \A n \in Nat : Delay[n] \in Nat \ {0}
<1> DEFINE Bad == {n \in Nat : Delay[n] \notin Nat \ {0}}
<1>1. SUFFICES ASSUME Bad # {} PROVE FALSE
  OBVIOUS
<1>2. PICK m \in Bad : \A k \in Bad : m <= k
  BY <1>1, SmallestIn
<1>3. m # 0
  BY <1>2, DelayDoubles, StartupAssumption
<1>4. m \in Nat /\ m - 1 \in Nat /\ ~(m <= m - 1)
  BY <1>2, <1>3
<1>5. Delay[m - 1] \in Nat \ {0}
  BY <1>2, <1>4
<1>6. Delay[m] = 2 * Delay[m - 1]
  BY <1>3, <1>4, DelayDoubles
<1>7. QED
  BY <1>2, <1>5, <1>6

\* The process sleeps what its count of failed attempts says.
WaitOK == attempts \in Nat /\ delay = IF attempts = 0 THEN 0 ELSE DelayForAttempt(attempts)

LEMMA WaitStep == WaitOK /\ [Next]_vars => WaitOK'
<1> SUFFICES ASSUME WaitOK, [Next]_vars PROVE WaitOK'
  OBVIOUS
<1>1. CASE Start
  BY <1>1 DEF Start, WaitOK
<1>2. CASE HealthCheckFails
  <2>1. attempts' = attempts + 1 /\ delay' = DelayForAttempt(attempts')
    BY <1>2 DEF HealthCheckFails
  <2>2. attempts' \in Nat /\ attempts' # 0
    BY <2>1 DEF WaitOK
  <2>3. QED
    BY <2>1, <2>2 DEF WaitOK, DelayForAttempt
<1>3. CASE UNCHANGED <<attempts, delay>>
  BY <1>3 DEF WaitOK, DelayForAttempt
<1>4. QED
  BY <1>1, <1>2, <1>3 DEF Next, HealthCheckOK, CopyNext, SkipNext, Stop, EditConfig, LoseStateFile,
     DatabasesComeAndGo, ServerComesAndGoes, vars, process

\* The wait between two health checks grows until it is MaxDelayMs, whatever
\* the initial delay, the limit and the number of attempts are.
THEOREM WaitsGrow == Spec => DelaysGrow
<1>1. Init => WaitOK
  BY DEF Init, WaitOK
<1>2. WaitOK /\ [Next]_vars
        => [attempts' > attempts =>
              /\ delay <= delay' /\ delay' <= MaxDelayMs
              /\ delay = delay' => delay = MaxDelayMs]_vars
  <2> SUFFICES ASSUME WaitOK, [Next]_vars, attempts' > attempts
               PROVE  /\ delay <= delay' /\ delay' <= MaxDelayMs
                      /\ delay = delay' => delay = MaxDelayMs
    OBVIOUS
  <2>1. attempts \in Nat /\ ~Start /\ attempts' # attempts
    BY DEF WaitOK, Start
  <2>2. HealthCheckFails
    BY <2>1 DEF Next, HealthCheckOK, CopyNext, SkipNext, Stop, EditConfig, LoseStateFile,
       DatabasesComeAndGo, ServerComesAndGoes, vars, process
  <2>3. PICK n \in Nat : n = attempts
    BY <2>1
  <2>4. delay' = DelayForAttempt(n + 1)
    BY <2>2, <2>3 DEF HealthCheckFails
  <2>5. PICK d \in Nat \ {0} : d = Delay[n]
    BY DelayPositive
  <2>6. Delay[n + 1] = 2 * d
    <3>1. n + 1 \in Nat /\ n + 1 # 0 /\ (n + 1) - 1 = n
      OBVIOUS
    <3>2. QED
      BY <2>5, <3>1, DelayDoubles
  <2>7. MaxDelayMs \in Nat \ {0}
    BY StartupAssumption
  <2>8. delay = IF n = 0 THEN 0 ELSE IF d > MaxDelayMs THEN MaxDelayMs ELSE d
    BY <2>3, <2>5 DEF WaitOK, DelayForAttempt
  <2>9. delay' = IF 2 * d > MaxDelayMs THEN MaxDelayMs ELSE 2 * d
    BY <2>4, <2>6 DEF DelayForAttempt
  <2>10. QED
    BY <2>7, <2>8, <2>9
<1>3. QED
  BY <1>1, <1>2, WaitStep, PTL DEF Spec, DelaysGrow
===============================================================================
