-------------------------------- MODULE Streams --------------------------------
(***************************************************************************)
(* Streams of events.  The request that creates a stream changes three     *)
(* systems inside one flush, before its commit: it inserts the row,        *)
(* creates a table in ClickHouse, and writes the whole configuration of    *)
(* Vector anew from the rows its transaction sees.  No handler changes or  *)
(* archives a stream.                                                      *)
(***************************************************************************)
EXTENDS Naturals

CONSTANTS
    StreamIds,   \* rows that may be inserted
    Described,   \* [StreamIds -> Descriptions]
    Sources,     \* data sources, all of type clickhouse
    Keys,        \* route keys: db_table with "_" and "." turned into "-"
    Creators     \* processes that may handle a request

Descriptions == [source : Sources, table : STRING, key : Keys, internal : BOOLEAN]

ASSUME DescribedAssumption ==
    /\ Described \in [StreamIds -> Descriptions]
    /\ \A s, t \in StreamIds :
          Described[s].table = Described[t].table => Described[s].key = Described[t].key

VARIABLES
    streamRow,     \* the streams that are committed
    creation,      \* the request each process is handling
    vectorConfig,  \* the configuration file
    table,         \* history: streams whose table ClickHouse has been asked to create
    withoutUrl     \* data sources whose options have no url

streamVars == <<streamRow, creation, vectorConfig, table, withoutUrl>>

NoStream == "none"
NoCreation == [phase |-> "idle"]
Busy(c) == creation[c] # NoCreation

\* What a stream's events go by, and the table its sink fills: [Keys -> StreamIds or nothing]
NoRoutes == [route |-> [k \in Keys |-> NoStream], sink |-> [k \in Keys |-> NoStream]]
Good(plan) == [state |-> "good", plan |-> plan]
Bad(state) == [state |-> state, plan |-> NoRoutes]

StreamInit ==
    /\ streamRow = {}
    /\ creation = [c \in Creators |-> NoCreation]
    /\ vectorConfig = Good(NoRoutes)
    /\ table = {}
    /\ withoutUrl = {}

\* The unique constraint data_source_table, on committed and uncommitted rows
Same(s, t) == Described[s].source = Described[t].source /\ Described[s].table = Described[t].table
IsFree(s) ==
    /\ \A t \in streamRow : ~Same(s, t)
    /\ \A c \in Creators : Busy(c) => ~Same(s, creation[c].stream)

\* POST: the row is inserted, by a request that is so far the only one or not
InsertStream(c, s) ==
    /\ ~Busy(c)
    /\ IsFree(s)
    /\ LET others == { d \in Creators : Busy(d) }
       IN  creation' = [d \in Creators |->
              IF d = c THEN [phase |-> "inserted", stream |-> s, plan |-> NoRoutes,
                             alone |-> others = {}, torn |-> FALSE]
              ELSE IF d \in others THEN [creation[d] EXCEPT !.alone = FALSE]
              ELSE creation[d]]
    /\ UNCHANGED <<streamRow, vectorConfig, table, withoutUrl>>

\* The preset has no statement, and the routes are written all the same
SkipTable(c) ==
    /\ creation[c].phase = "inserted"
    /\ creation' = [creation EXCEPT ![c].phase = "created"]
    /\ UNCHANGED <<streamRow, vectorConfig, table, withoutUrl>>

\* create_table_for_stream, at once and for good; a refusal of ClickHouse is only logged
CreateTable(c) ==
    /\ creation[c].phase = "inserted"
    /\ creation' = [creation EXCEPT ![c].phase = "created"]
    /\ table' = table \cup {creation[c].stream}
    /\ UNCHANGED <<streamRow, vectorConfig, withoutUrl>>

\* The rows a session of its own sees
CommittedRows(c) == streamRow

\* The rows the transaction of the request sees
VisibleRows(c) == streamRow \cup {creation[c].stream}

KeyedBy(rows, k) == { s \in rows : Described[s].key = k }

(***************************************************************************)
(* The rows come in any order.  Under each key the last one has the sink,  *)
(* and the last one that is not internal has the route.                    *)
(***************************************************************************)
Plans(rows) ==
    { plan \in [route : [Keys -> StreamIds \cup {NoStream}], sink : [Keys -> StreamIds \cup {NoStream}]] :
        \A k \in Keys :
            LET all   == KeyedBy(rows, k)
                http  == { s \in all : ~Described[s].internal }
            IN  /\ IF all = {} THEN plan.sink[k] = NoStream ELSE plan.sink[k] \in all
                /\ IF http = {} THEN plan.route[k] = NoStream ELSE plan.route[k] \in http
                /\ plan.sink[k] \in http => plan.route[k] = plan.sink[k] }

\* sync_vector_config_to_streams reads the streams, which all must have a url
ReadStreams(c) ==
    /\ creation[c].phase = "created"
    /\ \A s \in VisibleRows(c) : Described[s].source \notin withoutUrl
    /\ \E plan \in Plans(VisibleRows(c)) :
          creation' = [creation EXCEPT ![c].phase = "planned", ![c].plan = plan]
    /\ UNCHANGED <<streamRow, vectorConfig, table, withoutUrl>>

\* open(config_path, "w") empties the file
OpenConfig(c) ==
    /\ creation[c].phase = "planned"
    /\ creation' = [creation EXCEPT ![c].phase = "writing"]
    /\ vectorConfig' = Bad("empty")
    /\ UNCHANGED <<streamRow, table, withoutUrl>>

(***************************************************************************)
(* The file is written from its start; what another process has written    *)
(* since the file was opened may stick out at its end.                     *)
(***************************************************************************)
WriteConfig(c) ==
    /\ creation[c].phase = "writing"
    /\ \/ vectorConfig' = Good(creation[c].plan)
       \/ creation[c].torn /\ vectorConfig' = Bad("garbled")
    /\ creation' = [d \in Creators |->
          IF d = c THEN [creation[c] EXCEPT !.phase = "written"]
          ELSE IF creation[d].phase = "writing" THEN [creation[d] EXCEPT !.torn = TRUE]
          ELSE creation[d]]
    /\ UNCHANGED <<streamRow, table, withoutUrl>>

CommitStream(c) ==
    /\ creation[c].phase = "written"
    /\ streamRow' = streamRow \cup {creation[c].stream}
    /\ creation' = [creation EXCEPT ![c] = NoCreation]
    /\ UNCHANGED <<vectorConfig, table, withoutUrl>>

\* An exception (KeyError for want of a url, a refused COMMIT) or the end of the process
FailStream(c) ==
    /\ Busy(c)
    /\ creation' = [creation EXCEPT ![c] = NoCreation]
    /\ UNCHANGED <<streamRow, vectorConfig, table, withoutUrl>>

\* A data source is edited, which does not touch the configuration: its url goes or comes back
EditUrl(d) ==
    /\ withoutUrl' = IF d \in withoutUrl THEN withoutUrl \ {d} ELSE withoutUrl \cup {d}
    /\ UNCHANGED <<streamRow, creation, vectorConfig, table>>

StreamNext ==
    \/ \E c \in Creators :
        \/ \E s \in StreamIds : InsertStream(c, s)
        \/ CreateTable(c) \/ ReadStreams(c) \/ OpenConfig(c) \/ WriteConfig(c)
        \/ CommitStream(c) \/ FailStream(c)
    \/ \E d \in Sources : EditUrl(d)

StreamSpec == StreamInit /\ [][StreamNext]_streamVars
-----------------------------------------------------------------------------
PlanType == [route : [Keys -> StreamIds \cup {NoStream}], sink : [Keys -> StreamIds \cup {NoStream}]]

StreamTypeOK ==
    /\ streamRow \cup table \subseteq StreamIds
    /\ \A s, t \in streamRow : s # t => ~Same(s, t)
    /\ creation \in [Creators ->
          {NoCreation} \cup [phase : {"inserted", "created", "planned", "writing", "written"},
                             stream : StreamIds, plan : PlanType, alone : BOOLEAN, torn : BOOLEAN]]
    /\ vectorConfig \in [state : {"good", "empty", "garbled"}, plan : PlanType]
    /\ withoutUrl \subseteq Sources

\* What is routed under a key, to whichever of the streams that share it
Routed(config, s) ==
    LET k == Described[s].key
    IN  /\ config.state = "good"
        /\ config.plan.sink[k] \in KeyedBy(streamRow', k)
        /\ config.plan.route[k] \in KeyedBy(streamRow', k) \cup {NoStream}

(***************************************************************************)
(* A request that creates a stream while no other one does leaves a        *)
(* configuration that serves the route key of every stream there is, and   *)
(* by committed streams alone, whatever overlapping and failing requests   *)
(* had left behind (triggers/streams.py:24, ingest/__init__.py:14).        *)
(***************************************************************************)
CreationHeals ==
    [][\A c \in Creators : CommitStream(c) /\ creation[c].alone =>
          \A s \in streamRow' : Routed(vectorConfig, s)]_streamVars

(***************************************************************************)
(* Events never arrive in the table of another stream, nor in one nobody   *)
(* has asked ClickHouse for: of streams whose route keys collide the last  *)
(* one takes both route and sink, and an internal one only the sink        *)
(* (ingest/vector.py:50-59, :191).                                         *)
(***************************************************************************)
EventsReachTheirTable ==
    \A k \in Keys :
        LET s == vectorConfig.plan.sink[k]
        IN  s # NoStream =>
               /\ s \in table
               /\ Described[s].key = k
               /\ ~Described[s].internal => vectorConfig.plan.route[k] = s
=============================================================================
