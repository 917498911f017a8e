------------------------------ MODULE DataSources ------------------------------
(***************************************************************************)
(* Data sources and their schemas.  A schema is read from the database of  *)
(* the source by a task of the default worker and kept in Redis for good;  *)
(* nothing but the next task replaces it.  Tasks come from users who want  *)
(* to see the schema and, every 15 minutes, from refresh_all_schemas_task. *)
(***************************************************************************)
EXTENDS Integers

CONSTANTS
    DataSourceIds,
    Blacklisted,   \* data_sources:schema:blacklist, and the sources of disabled organizations
    Fetchers,      \* threads of the default worker
    MaxVersion,    \* bound: changes of what the databases show
    MaxFaults      \* bound: tasks that fail or expire

ASSUME SourcesAssumption ==
    Blacklisted \subseteq DataSourceIds /\ MaxVersion \in Nat /\ MaxFaults \in Nat

VARIABLES
    sourceRow,     \* "none", "live" or "deleted"
    usedBy,        \* the kinds of rows that refer to each source
    connection,    \* the schema each source shows, by the number of edits it has seen
    schemaCache,   \* the schema in Redis
    pausedSources, \* the pause keys in Redis
    refreshing,    \* sources a pass of refresh_all_schemas_task has yet to look at
    schemaQueue,   \* tasks that wait
    fetcher,       \* what each thread is doing
    faults

sourceVars ==
    <<sourceRow, usedBy, connection, schemaCache, pausedSources, refreshing, schemaQueue, fetcher, faults>>

Missing == -1
NoFetch == [source |-> "none"]
Tasks == [source : DataSourceIds, refresh : BOOLEAN]
Kinds == {"query", "result", "stream"}
Live(d) == sourceRow[d] = "live"

SourceInit ==
    /\ sourceRow = [d \in DataSourceIds |-> "none"]
    /\ usedBy = [d \in DataSourceIds |-> {}]
    /\ connection = [d \in DataSourceIds |-> 0]
    /\ schemaCache = [d \in DataSourceIds |-> Missing]
    /\ pausedSources = {}
    /\ refreshing = {}
    /\ schemaQueue = {}
    /\ fetcher = [w \in Fetchers |-> NoFetch]
    /\ faults = 0

CreateSource(d) ==
    /\ sourceRow[d] = "none"
    /\ sourceRow' = [sourceRow EXCEPT ![d] = "live"]
    /\ UNCHANGED <<usedBy, connection, schemaCache, pausedSources, refreshing, schemaQueue, fetcher, faults>>

\* The options are edited, which leaves the cached schema alone, or the database itself changes
EditSource(d) ==
    /\ Live(d)
    /\ connection[d] < MaxVersion
    /\ connection' = [connection EXCEPT ![d] = @ + 1]
    /\ UNCHANGED <<sourceRow, usedBy, schemaCache, pausedSources, refreshing, schemaQueue, fetcher, faults>>

\* A query or a stream is created on the source, or the result of an execution stored
Refer(d, kind) ==
    /\ Live(d)
    /\ usedBy' = [usedBy EXCEPT ![d] = @ \cup {kind}]
    /\ UNCHANGED <<sourceRow, connection, schemaCache, pausedSources, refreshing, schemaQueue, fetcher, faults>>

\* The queries are moved to other sources, or the cleanup takes the results; streams are but archived
Unrefer(d, kind) ==
    /\ kind \in usedBy[d] \ {"stream"}
    /\ usedBy' = [usedBy EXCEPT ![d] = @ \ {kind}]
    /\ UNCHANGED <<sourceRow, connection, schemaCache, pausedSources, refreshing, schemaQueue, fetcher, faults>>

(***************************************************************************)
(* One transaction takes the source and its result from its queries,       *)
(* deletes its results and the row with its memberships in groups.  A      *)
(* stream cannot be without its source: the commit fails.  It fails, and   *)
(* nothing changes, also when a query that was moved to another source     *)
(* still shows one of the results, which usedBy does not tell.  The        *)
(* command `ds delete`, which deletes no results, only succeeds where      *)
(* there are none.                                                         *)
(***************************************************************************)
DeleteSource(d) ==
    /\ Live(d)
    /\ "stream" \notin usedBy[d]
    /\ sourceRow' = [sourceRow EXCEPT ![d] = "deleted"]
    /\ usedBy' = [usedBy EXCEPT ![d] = {}]
    /\ UNCHANGED <<connection, schemaCache, pausedSources, refreshing, schemaQueue, fetcher, faults>>

\* After the commit of DataSource.delete, if the process lives; the command does without
ForgetSchema(d) ==
    /\ sourceRow[d] = "deleted"
    /\ schemaCache[d] # Missing
    /\ schemaCache' = [schemaCache EXCEPT ![d] = Missing]
    /\ UNCHANGED <<sourceRow, usedBy, connection, pausedSources, refreshing, schemaQueue, fetcher, faults>>

Pause(d) ==
    /\ Live(d)
    /\ pausedSources' = pausedSources \cup {d}
    /\ UNCHANGED <<sourceRow, usedBy, connection, schemaCache, refreshing, schemaQueue, fetcher, faults>>

Resume(d) ==
    /\ Live(d)
    /\ pausedSources' = pausedSources \ {d}
    /\ UNCHANGED <<sourceRow, usedBy, connection, schemaCache, refreshing, schemaQueue, fetcher, faults>>

Enqueue(d, refresh) == schemaQueue' = schemaQueue \cup {[source |-> d, refresh |-> refresh]}

\* DataSourceSchemaResource.get enqueues a task unless the cached schema will do
ShowSchema(d, refresh) ==
    /\ Live(d)
    /\ refresh \/ schemaCache[d] = Missing
    /\ Enqueue(d, refresh)
    /\ UNCHANGED <<sourceRow, usedBy, connection, schemaCache, pausedSources, refreshing, fetcher, faults>>

\* refresh_all_schemas_task loads the sources
BeginRefresh ==
    /\ refreshing = {}
    /\ refreshing' = { d \in DataSourceIds : Live(d) }
    /\ UNCHANGED <<sourceRow, usedBy, connection, schemaCache, pausedSources, schemaQueue, fetcher, faults>>

\* and enqueues a task for each one that is not to be skipped
RefreshOne(d) ==
    /\ d \in refreshing
    /\ refreshing' = refreshing \ {d}
    /\ IF d \in pausedSources \cup Blacklisted THEN UNCHANGED schemaQueue ELSE Enqueue(d, TRUE)
    /\ UNCHANGED <<sourceRow, usedBy, connection, schemaCache, pausedSources, fetcher, faults>>

\* get_schema(refresh) looks into the cache all the same
CacheWillDoAnyway(t) == schemaCache[t.source] # Missing

CacheWillDo(t) == ~t.refresh /\ schemaCache[t.source] # Missing

(***************************************************************************)
(* A thread takes a task: it raises for a deleted source, returns what is  *)
(* cached, or asks the database with the options it has loaded.            *)
(***************************************************************************)
StartFetch(w, t) ==
    /\ fetcher[w] = NoFetch
    /\ t \in schemaQueue
    /\ schemaQueue' = schemaQueue \ {t}
    /\ fetcher' = IF ~Live(t.source) \/ CacheWillDo(t) THEN fetcher
                  ELSE [fetcher EXCEPT ![w] = [source |-> t.source, seen |-> connection[t.source]]]
    /\ UNCHANGED <<sourceRow, usedBy, connection, schemaCache, pausedSources, refreshing, faults>>

\* redis.set, whatever has become of the source and its cached schema
StoreSchema(w) ==
    /\ fetcher[w] # NoFetch
    /\ schemaCache' = [schemaCache EXCEPT ![fetcher[w].source] = fetcher[w].seen]
    /\ fetcher' = [fetcher EXCEPT ![w] = NoFetch]
    /\ UNCHANGED <<sourceRow, usedBy, connection, pausedSources, refreshing, schemaQueue, faults>>

\* The database refuses, or the worker dies: the cached schema stays
FailFetch(w) ==
    /\ fetcher[w] # NoFetch
    /\ faults < MaxFaults
    /\ faults' = faults + 1
    /\ fetcher' = [fetcher EXCEPT ![w] = NoFetch]
    /\ UNCHANGED <<sourceRow, usedBy, connection, schemaCache, pausedSources, refreshing, schemaQueue>>

\* A task that has waited for more than 30 or 120 seconds is not executed
ExpireTask(t) ==
    /\ t \in schemaQueue
    /\ faults < MaxFaults
    /\ faults' = faults + 1
    /\ schemaQueue' = schemaQueue \ {t}
    /\ UNCHANGED <<sourceRow, usedBy, connection, schemaCache, pausedSources, refreshing, fetcher>>

SourceNext ==
    \/ \E d \in DataSourceIds :
        \/ CreateSource(d) \/ EditSource(d) \/ DeleteSource(d) \/ ForgetSchema(d)
        \/ \E kind \in Kinds : Refer(d, kind) \/ Unrefer(d, kind)
        \/ Pause(d) \/ Resume(d)
        \/ \E refresh \in BOOLEAN : ShowSchema(d, refresh)
        \/ RefreshOne(d)
    \/ BeginRefresh
    \/ \E t \in Tasks :
        \/ \E w \in Fetchers : StartFetch(w, t)
        \/ ExpireTask(t)
    \/ \E w \in Fetchers : StoreSchema(w) \/ FailFetch(w)

(***************************************************************************)
(* The periodic task comes every 15 minutes and its loop ends; a task that *)
(* waits gets a thread in the end, for threads come free and users do not  *)
(* ask for schemas all the time.                                           *)
(***************************************************************************)
SourceFairness ==
    /\ WF_sourceVars(BeginRefresh)
    /\ \A d \in DataSourceIds : WF_sourceVars(RefreshOne(d))
    /\ \A t \in Tasks : SF_sourceVars(\E w \in Fetchers : StartFetch(w, t))
    /\ \A w \in Fetchers : WF_sourceVars(StoreSchema(w))

SourceSpec == SourceInit /\ [][SourceNext]_sourceVars /\ SourceFairness
-----------------------------------------------------------------------------
SourceTypeOK ==
    /\ sourceRow \in [DataSourceIds -> {"none", "live", "deleted"}]
    /\ usedBy \in [DataSourceIds -> SUBSET Kinds]
    /\ \A d \in DataSourceIds : usedBy[d] # {} => sourceRow[d] = "live"
    /\ connection \in [DataSourceIds -> 0..MaxVersion]
    /\ schemaCache \in [DataSourceIds -> {Missing} \cup 0..MaxVersion]
    /\ \A d \in DataSourceIds : schemaCache[d] <= connection[d]
    /\ pausedSources \cup refreshing \subseteq DataSourceIds
    /\ schemaQueue \subseteq Tasks
    /\ fetcher \in [Fetchers -> {NoFetch} \cup [source : DataSourceIds, seen : 0..MaxVersion]]
    /\ faults \in 0..MaxFaults

Refreshed(d) == Live(d) /\ d \notin pausedSources \cup Blacklisted

(***************************************************************************)
(* The schema users are shown follows the database: once the connection is *)
(* left alone and the source not paused any more, what is cached becomes   *)
(* what the database shows and stays so, however fetches overtake each     *)
(* other (datasources.py:132, refresh_schemas.py:17).                      *)
(***************************************************************************)
SchemaFollows ==
    \A d \in DataSourceIds :
        <>[]Refreshed(d) => <>[](schemaCache[d] = connection[d])
=============================================================================
