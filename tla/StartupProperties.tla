--------------------------- MODULE StartupProperties ---------------------------
(***************************************************************************)
(* What must survive restarts and edits of the configuration.              *)
(***************************************************************************)
EXTENDS Startup

\* The server has what a cursor is behind, but for changes that were skipped
\* because no entry of the configuration could mean their table.
Accounted(s, l) == <<s, l>> \in confirmed \union unlisted

\* An entry for table t names no database in a configuration of several sources,
\* which gives it to default and not to s.
Ambiguous(s, t) ==
    /\ s # default
    /\ \E c \in Configs : /\ Len(c.sources) > 1 /\ s \in ToSet(c.sources)
                        /\ [database |-> NoName, table |-> t] \in c.tracked

\* A saved cursor passes a change of a listed table only when the server has
\* confirmed it, unless the operator ever leaves it open to which of several
\* sources the table belongs: through upgrades of configuration and state file,
\* sources that are added in front of the old one, reordered, removed and
\* brought back, restarts and lost files.  It fails if a source is resumed from
\* another one's cursor, or if the names given to the old cursor, to the old
\* source and to the entries without a database do not agree.
ListedConfirmed ==
    \A s \in DOMAIN file.cursors : \A l \in 1..file.cursors[s] :
        Accounted(s, l) \/ Ambiguous(s, Log[s][l])

\* A saved cursor is not lost by restarts and edits, not even while its source
\* is not configured, and it never goes back, unless the file is lost.
SavedCursorsSurvive ==
    [][losses' = losses =>
          \A s \in DOMAIN file.cursors :
              s \in DOMAIN file'.cursors /\ file.cursors[s] <= file'.cursors[s]]_vars

\* The wait for the server gets longer with each attempt up to its limit, from
\* which it does not move.
DelaysGrow ==
    [][attempts' > attempts =>
          /\ delay <= delay' /\ delay' <= MaxDelayMs
          /\ delay = delay' => delay = MaxDelayMs]_vars

\* Nothing is missing for the client to run.
Provided ==
    /\ config.sources # <<>> \/ config.connectionString
    /\ reachable = Names
    /\ ready

\* A client whose databases and server are there runs before long, with a
\* configuration of either kind and whatever state file it finds.
ComesUp == Provided ~> (pc = "running" \/ ~Provided)
===============================================================================
