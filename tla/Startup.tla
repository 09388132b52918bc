-------------------------------- MODULE Startup --------------------------------
(***************************************************************************)
(* From the start of the client process to its first poll, again and again *)
(* over the edits of its configuration: LoadConfig, NewStateManager, the   *)
(* readers and table mappings of NewSyncOrchestrator, and the wait for the *)
(* server in Run.                                                          *)
(*                                                                         *)
(* Once the process runs, a cycle takes the next change of a source: it is *)
(* sent and confirmed if its table has a mapping, else skipped, and the    *)
(* cursor moves.  DbSync has what may happen in between.                   *)
(***************************************************************************)
EXTENDS Integers, FiniteSets, SequencesExt

CONSTANTS
    Names,              \* names of sources
    default,            \* the name given to the source of a legacy configuration
    NoName,             \* the empty string
    Tables,             \* tables, of whatever database
    Configs,            \* the configurations an operator may write
    InitialDelayMs, MaxDelayMs,     \* DefaultRetryConfig
    Log,                \* the table of each change of each source, by LSN
    MaxAttempts,        \* bound on the health checks of one start
    MaxLosses           \* bound on the losses of the state file

TableEntry == [database : Names \union {NoName}, table : Tables]
Config == [sources : Seq(Names), connectionString : BOOLEAN, tracked : SUBSET TableEntry]

ASSUME StartupAssumption ==
    /\ default \in Names /\ NoName \notin Names
    /\ Configs \subseteq Config
    /\ \A c \in Configs : IsInjective(c.sources)
    /\ {InitialDelayMs, MaxDelayMs} \subseteq Nat \ {0}
    /\ Log \in [Names -> Seq(Tables)]
    /\ {MaxAttempts, MaxLosses} \subseteq Nat

VARIABLES
    config,     \* the configuration file and the environment
    file,       \* the state file: its form, and a cursor per source
    reachable,  \* the sources whose databases answer
    ready,      \* the server answers health checks with SERVING
    pc,         \* down, waiting (for the server) or running
    sources,    \* config.Sources of the process
    tracked,    \* config.TrackedTables of the process
    mappings,   \* its tableMappings: sources and their tables
    state,      \* the StateManager's state
    attempts,   \* consecutiveErrors of the wait
    delay,      \* how long it sleeps, in milliseconds
    confirmed,  \* history: the changes that the server has confirmed
    unlisted,   \* history: those skipped while no entry could mean their table
    losses      \* history: losses of the state file

environment == <<config, reachable, ready>>
process == <<pc, sources, tracked, mappings, state, attempts, delay>>
passed == <<confirmed, unlisted>>
vars == <<environment, file, process, passed, losses>>

NoCursors == [s \in {} |-> 0]

\* Before there were several sources the file held a single cursor, here one
\* behind the first change of default.
Init ==
    /\ config \in Configs
    /\ \/ /\ file = [form |-> "none", cursors |-> NoCursors]
          /\ confirmed = {}
       \/ /\ file = [form |-> "single", cursors |-> [s \in {default} |-> 1]]
          /\ confirmed = {<<default, 1>>}
    /\ unlisted = {}
    /\ reachable \in SUBSET Names
    /\ ready \in BOOLEAN
    /\ pc = "down" /\ sources = <<>> /\ tracked = {} /\ mappings = {}
    /\ state = NoCursors /\ attempts = 0 /\ delay = 0
    /\ losses = 0

-------------------------------------------------------------------------------
(* Loading                                                                 *)

\* Defect: a configuration without a list of sources is refused.
LoadConfig_noLegacy(c) == c.sources

\* config.Sources; empty if the configuration is refused.
LoadConfig(c) ==
    IF c.sources = <<>> /\ c.connectionString THEN <<default>> ELSE c.sources

\* NewStateManager: a map, or else a single cursor, or else nothing.
LoadState ==
    IF file.form \in {"map", "single"} THEN file.cursors ELSE NoCursors

\* Defect: the only source is not taken for a missing database.
DatabaseName_notGuessed(entry, srcs) ==
    IF entry.database # NoName THEN entry.database ELSE default

DatabaseName(entry, srcs) ==
    IF entry.database # NoName THEN entry.database
    ELSE IF Len(srcs) = 1 THEN srcs[1] ELSE default

Mappings(c) ==
    {<<DatabaseName(e, LoadConfig(c)), e.table>> : e \in c.tracked}

\* Every reader pings its database; one failure, and the process exits.
Start ==
    /\ pc = "down"
    /\ LoadConfig(config) # <<>>
    /\ ToSet(LoadConfig(config)) \subseteq reachable
    /\ pc' = "waiting"
    /\ sources' = LoadConfig(config)
    /\ tracked' = config.tracked
    /\ mappings' = Mappings(config)
    /\ state' = LoadState
    /\ attempts' = 0 /\ delay' = 0
    /\ UNCHANGED <<environment, file, passed, losses>>

-------------------------------------------------------------------------------
(* Waiting for the server                                                  *)

\* The delay grows by ExponentialBase = 2 for each attempt.
Delay[n \in Nat] == IF n = 0 THEN InitialDelayMs ELSE 2 * Delay[n - 1]

\* Defect: the delay is not limited.
DelayForAttempt_noLimit(n) == Delay[n]

DelayForAttempt(n) == IF Delay[n] > MaxDelayMs THEN MaxDelayMs ELSE Delay[n]

HealthCheckFails ==
    /\ pc = "waiting" /\ ~ready
    /\ attempts < MaxAttempts
    /\ attempts' = attempts + 1
    /\ delay' = DelayForAttempt(attempts + 1)
    /\ UNCHANGED <<environment, file, pc, sources, tracked, mappings, state, passed, losses>>

HealthCheckOK ==
    /\ pc = "waiting" /\ ready
    /\ pc' = "running"
    /\ UNCHANGED <<environment, file, sources, tracked, mappings, state, attempts, delay,
                   passed, losses>>

-------------------------------------------------------------------------------
(* Running                                                                 *)

\* Defect: only the cursors of configured sources are written.
persistState_configured(cursors) ==
    file' = [form |-> "map", cursors |-> [s \in DOMAIN cursors \intersect ToSet(sources)
                                                |-> cursors[s]]]

persistState(cursors) == file' = [form |-> "map", cursors |-> cursors]

Lsn(s) == IF s \in DOMAIN state THEN state[s] ELSE 0

\* The table of the change that source s has next.
NextTable(s) == Log[s][Lsn(s) + 1]

UpdateCursor(s) ==
    /\ state' = [x \in DOMAIN state \union {s} |-> IF x = s THEN Lsn(s) + 1 ELSE state[x]]
    /\ persistState(state')

HasNext(s) == pc = "running" /\ Lsn(s) < Len(Log[s])

\* The server has confirmed the change.
CopyNext(s) ==
    /\ HasNext(s)
    /\ <<s, NextTable(s)>> \in mappings
    /\ UpdateCursor(s)
    /\ confirmed' = confirmed \union {<<s, Lsn(s) + 1>>}
    /\ UNCHANGED <<environment, pc, sources, tracked, mappings, attempts, delay,
                   unlisted, losses>>

\* An entry of the process can mean table t of source s.
Listed(s, t) == \E e \in tracked : e.table = t /\ e.database \in {s, NoName}

\* The change has no mapping: the cursor moves without the server.
SkipNext(s) ==
    /\ HasNext(s)
    /\ <<s, NextTable(s)>> \notin mappings
    /\ UpdateCursor(s)
    /\ unlisted' = IF Listed(s, NextTable(s)) THEN unlisted
                   ELSE unlisted \union {<<s, Lsn(s) + 1>>}
    /\ UNCHANGED <<environment, pc, sources, tracked, mappings, attempts, delay,
                   confirmed, losses>>

\* The process is stopped, dies or gives up.
Stop ==
    /\ pc # "down"
    /\ pc' = "down"
    /\ UNCHANGED <<environment, file, sources, tracked, mappings, state, attempts, delay,
                   passed, losses>>

-------------------------------------------------------------------------------
(* The environment                                                         *)

EditConfig ==
    /\ config' \in Configs \ {config}
    /\ UNCHANGED <<file, reachable, ready, process, passed, losses>>

LoseStateFile ==
    /\ losses < MaxLosses
    /\ losses' = losses + 1
    /\ file' = [form |-> "corrupt", cursors |-> NoCursors]
    /\ UNCHANGED <<environment, process, passed>>

DatabasesComeAndGo ==
    /\ \E s \in Names : reachable' = (reachable \ {s}) \union ({s} \ reachable)
    /\ UNCHANGED <<config, ready, file, process, passed, losses>>

ServerComesAndGoes ==
    /\ ready' = ~ready
    /\ UNCHANGED <<config, reachable, file, process, passed, losses>>

Next ==
    \/ Start \/ HealthCheckFails \/ HealthCheckOK \/ Stop
    \/ \E i \in 1..Len(sources) : CopyNext(sources[i]) \/ SkipNext(sources[i])
    \/ EditConfig \/ LoseStateFile \/ DatabasesComeAndGo \/ ServerComesAndGoes

Spec == Init /\ [][Next]_vars

\* A process that is down is started, one that waits asks the server, and it is
\* not killed for ever before it does.
FairSpec == Spec /\ WF_vars(Start) /\ SF_vars(HealthCheckOK)
===============================================================================
