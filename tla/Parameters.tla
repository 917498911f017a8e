------------------------------- MODULE Parameters -------------------------------
(***************************************************************************)
(* Executing a query with parameters.  The author of a saved query says of *)
(* each parameter which values it may have; a dropdown takes them from the *)
(* latest result of another query.  Users fill in the values; who may only *)
(* look at a data source, or has but the key of the query, may execute     *)
(* what has no free text in it.  A published query is an endpoint for who  *)
(* has its key.  Meanwhile the query is edited, results come and go,       *)
(* access is given and taken and the data source paused.                   *)
(***************************************************************************)
EXTENDS Naturals, Sequences

CONSTANTS
    Callers,       \* users
    KeyHolders,    \* visitors with the key of the saved query
    Wells,         \* data sources
    Writings,      \* saved queries: data source, nodes of the template, schema, published or not
    Fillings,      \* the values users send: [names of parameters -> values]
    Numerals,
    Dates,
    Results,       \* the values in results of the dropdown query
    Askers         \* requests

VARIABLES
    saved,         \* the saved query
    level,         \* what each user may do with each data source
    pausedWells,
    dropdown,      \* the values in the latest result of the dropdown query
    inHand,         \* what each request has in hand
    sent           \* the task of each request, until it is executed

parameterVars == <<saved, level, pausedWells, dropdown, inHand, sent>>

NoResult == {}
NoAsk == [phase |-> "idle"]
NoTask == [kind |-> "none"]

\* Values: a string, a list of strings, a range
One(s) == [kind |-> "one", item |-> s]
Many(items) == [kind |-> "many", items |-> items]
Between(a, b) == [kind |-> "range", start |-> a, end |-> b]

\* Whatever the schema does not define is valid
NotDefined(schema, p) == p \notin DOMAIN schema

\* ParameterizedQuery._valid for an empty schema
Undefined(schema, p) == DOMAIN schema = {}

\* _is_value_within_options
WithinOptions(v, options, allowList) ==
    CASE v.kind = "one"   -> v.item \in options
      [] v.kind = "many"  -> allowList /\ v.items \subseteq options
      [] v.kind = "range" -> FALSE

IsDate(v) == v.kind = "one" /\ v.item \in Dates
IsDateRange(v) == v.kind = "range" /\ {v.start, v.end} \subseteq Dates
IsNumber(v) == v.kind = "one" /\ v.item \in Numerals

(***************************************************************************)
(* ParameterizedQuery._valid; the dropdown shows the values given, and     *)
(* without a result an exception ends the request, which refuses it too.   *)
(***************************************************************************)
ValidValue(schema, p, v, shown) ==
    \/ Undefined(schema, p)
    \/ /\ p \in DOMAIN schema
       /\ CASE schema[p].type = "text"   -> v.kind = "one"
            [] schema[p].type = "number" -> IsNumber(v)
            [] schema[p].type = "enum"   -> WithinOptions(v, schema[p].options, schema[p].many)
            [] schema[p].type = "query"  -> WithinOptions(v, shown, schema[p].many)
            [] schema[p].type = "date"   -> IsDate(v)
            [] schema[p].type = "date-range" -> IsDateRange(v)
            [] OTHER                     -> FALSE

\* _parameter_names
ParameterNames(values) ==
    { <<p>> : p \in { x \in DOMAIN values : values[x].kind # "range" } }
    \cup { <<p, part>> : p \in { x \in DOMAIN values : values[x].kind = "range" },
                         part \in {"start", "end"} }

(***************************************************************************)
(* _collect_key_names: variables and sections; not what is written         *)
(* unescaped, as {{{x}}} or {{&x}}, nor inverted sections and what is in   *)
(* them.                                                                   *)
(***************************************************************************)
CollectedKeys(nodes) == { n.key : n \in { m \in nodes : m.kind \in {"variable", "section"} } }

\* missing_params
MissingParams(nodes, values) == CollectedKeys(nodes) \ ParameterNames(values)

\* Every query is safe
AlwaysSafe(schema) == TRUE

\* ParameterizedQuery.is_safe
IsSafe(schema) == \A p \in DOMAIN schema : schema[p].type # "text"

ParameterInit ==
    /\ saved \in Writings
    /\ level \in [Callers \X Wells -> {"view", "full"}]
    /\ pausedWells = {}
    /\ dropdown = NoResult
    /\ inHand = [r \in Askers |-> NoAsk]
    /\ sent = [r \in Askers |-> NoTask]
-----------------------------------------------------------------------------
(***************************************************************************)
(* Requests.  The saved query is loaded once; `writings` and `results` are *)
(* history: what it, and the dropdown, have been since.                    *)
(***************************************************************************)
Ask(r, u, kind, query, schema, values) ==
    /\ inHand[r] = NoAsk /\ sent[r] = NoTask
    /\ inHand' = [inHand EXCEPT ![r] =
          [phase |-> "loaded", user |-> u, kind |-> kind, source |-> query.source,
           nodes |-> query.nodes, schema |-> schema, values |-> values, level |-> "none",
           unchecked |-> DOMAIN values, writings |-> {saved}, results |-> {dropdown}]]
    /\ UNCHANGED <<saved, level, pausedWells, dropdown, sent>>

\* QueryResultResource.post
AskSaved(r, u, values) == Ask(r, u, "saved", saved, saved.schema, values)

\* QueryRefreshResource.post takes any values, as text typed by the user does
AskRefresh(r, u, values) == u \in Callers /\ Ask(r, u, "refresh", saved, <<>>, values)

\* QueryResultListResource.post
AskAdhoc(r, u, query, values) == u \in Callers /\ Ask(r, u, "adhoc", query, <<>>, values)

\* The key of a query, or of a dashboard with it, allows what viewing allows
LevelOf(u, d) == IF u \in KeyHolders THEN "view" ELSE level[<<u, d>>]

\* _format_value puts strings in quotes
Quoted(values) == [p \in DOMAIN values |-> One("'" \o values[p].item \o "'")]

(***************************************************************************)
(* EndpointPublicResultsResource.get asks for a query that is published,   *)
(* no draft and not archived, and for its key, and nothing else; values    *)
(* come in the address and are put in quotes.                              *)
(***************************************************************************)
AskEndpoint(r, values) ==
    /\ saved.open
    /\ \A p \in DOMAIN values : values[p].kind = "one"
    /\ inHand[r] = NoAsk /\ sent[r] = NoTask
    /\ inHand' = [inHand EXCEPT ![r] =
          [phase |-> "checking", user |-> "anyone", kind |-> "endpoint", source |-> saved.source,
           nodes |-> saved.nodes, schema |-> saved.schema, values |-> Quoted(values),
           level |-> "endpoint", unchecked |-> DOMAIN values,
           writings |-> {saved}, results |-> {dropdown}]]
    /\ UNCHANGED <<saved, level, pausedWells, dropdown, sent>>

\* has_access
MayExecute(r, l) ==
    \/ l = "full"
    \/ l = "view" /\ inHand[r].kind = "saved" /\ IsSafe(inHand[r].schema)

Allow(r) ==
    LET l == LevelOf(inHand[r].user, inHand[r].source)
    IN  /\ inHand[r].phase = "loaded"
        /\ MayExecute(r, l)
        /\ inHand' = [inHand EXCEPT ![r].phase = "granted", ![r].level = l]
        /\ UNCHANGED <<saved, level, pausedWells, dropdown, sent>>

\* run_query, if the data source is not paused, goes on to ParameterizedQuery.apply
BeginApply(r) ==
    /\ inHand[r].phase = "granted"
    /\ inHand[r].source \notin pausedWells
    /\ inHand' = [inHand EXCEPT ![r].phase = "checking"]
    /\ UNCHANGED <<saved, level, pausedWells, dropdown, sent>>

\* which checks value after value, each with the dropdown's latest result there is by then
CheckValue(r, p) ==
    /\ inHand[r].phase = "checking"
    /\ p \in inHand[r].unchecked
    /\ ValidValue(inHand[r].schema, p, inHand[r].values[p], dropdown)
    /\ inHand' = [inHand EXCEPT ![r].unchecked = @ \ {p}]
    /\ UNCHANGED <<saved, level, pausedWells, dropdown, sent>>

Applied(r) == inHand[r].phase = "checking" /\ inHand[r].unchecked = {}

\* run_query up to the search for a result that will do
Prepare(r) ==
    /\ Applied(r) /\ inHand[r].kind # "endpoint"
    /\ MissingParams(inHand[r].nodes, inHand[r].values) = {}
    /\ inHand' = [inHand EXCEPT ![r].phase = "ready"]
    /\ UNCHANGED <<saved, level, pausedWells, dropdown, sent>>

\* The query is executed with the values in quotes, paused or not, whatever is missing
ServeEndpoint(r) ==
    /\ Applied(r) /\ inHand[r].kind = "endpoint"
    /\ sent' = [sent EXCEPT ![r] = [inHand[r] EXCEPT !.phase = "ready"]]
    /\ inHand' = [inHand EXCEPT ![r] = NoAsk]
    /\ UNCHANGED <<saved, level, pausedWells, dropdown>>

\* enqueue_query
SendTask(r) ==
    /\ inHand[r].phase = "ready"
    /\ sent' = [sent EXCEPT ![r] = inHand[r]]
    /\ inHand' = [inHand EXCEPT ![r] = NoAsk]
    /\ UNCHANGED <<saved, level, pausedWells, dropdown>>

\* Status 400 or 403, a result that will do, or the process dies
EndAsk(r) ==
    /\ inHand[r] # NoAsk
    /\ inHand' = [inHand EXCEPT ![r] = NoAsk]
    /\ UNCHANGED <<saved, level, pausedWells, dropdown, sent>>

\* run_query_task, which asks for nothing any more, or the query runner itself
RunTask(r) ==
    /\ sent[r] # NoTask
    /\ sent' = [sent EXCEPT ![r] = NoTask]
    /\ UNCHANGED <<saved, level, pausedWells, dropdown, inHand>>
-----------------------------------------------------------------------------
\* What requests see change
Witnessed(query, shown) == [r \in Askers |->
    IF inHand[r] = NoAsk THEN NoAsk
    ELSE [inHand[r] EXCEPT !.writings = @ \cup {query}, !.results = @ \cup {shown}]]

\* QueryResource.post
Rewrite(query) ==
    /\ query # saved
    /\ saved' = query
    /\ inHand' = Witnessed(query, dropdown)
    /\ UNCHANGED <<level, pausedWells, dropdown, sent>>

\* The dropdown query is executed, or loses its result with its data source
NewDropdown(shown) ==
    /\ shown # dropdown
    /\ dropdown' = shown
    /\ inHand' = Witnessed(saved, shown)
    /\ UNCHANGED <<saved, level, pausedWells, sent>>

SetLevel(u, d, l) ==
    /\ l # level[<<u, d>>]
    /\ level' = [level EXCEPT ![<<u, d>>] = l]
    /\ UNCHANGED <<saved, pausedWells, dropdown, inHand, sent>>

SetPaused(d, paused) ==
    /\ paused # (d \in pausedWells)
    /\ pausedWells' = IF paused THEN pausedWells \cup {d} ELSE pausedWells \ {d}
    /\ UNCHANGED <<saved, level, dropdown, inHand, sent>>

ParameterNext ==
    \/ \E r \in Askers :
        \/ \E u \in Callers \cup KeyHolders, values \in Fillings :
            \/ AskSaved(r, u, values) \/ AskRefresh(r, u, values)
            \/ \E query \in Writings : AskAdhoc(r, u, query, values)
        \/ \E values \in Fillings : AskEndpoint(r, values)
        \/ \E p \in UNION { DOMAIN values : values \in Fillings } : CheckValue(r, p)
        \/ Allow(r) \/ BeginApply(r) \/ Prepare(r) \/ ServeEndpoint(r)
        \/ SendTask(r) \/ EndAsk(r) \/ RunTask(r)
    \/ \E query \in Writings : Rewrite(query)
    \/ \E shown \in Results \cup {NoResult} : NewDropdown(shown)
    \/ \E d \in Wells :
        \/ \E paused \in BOOLEAN : SetPaused(d, paused)
        \/ \E u \in Callers, l \in {"none", "view", "full"} : SetLevel(u, d, l)

ParameterSpec == ParameterInit /\ [][ParameterNext]_parameterVars
-----------------------------------------------------------------------------
ParameterTypeOK ==
    /\ saved \in Writings
    /\ level \in [Callers \X Wells -> {"none", "view", "full"}]
    /\ pausedWells \subseteq Wells
    /\ dropdown \in Results \cup {NoResult}
    /\ \A r \in Askers :
          /\ inHand[r] # NoAsk => inHand[r].phase \in {"loaded", "granted", "checking", "ready"}
          /\ sent[r] # NoTask => sent[r].phase = "ready"

(***************************************************************************)
(* A text is executed for who may only look, or with values that were to   *)
(* be checked, only if some version of the saved query there was meanwhile *)
(* says so as a whole: its data source, its template, every value allowed  *)
(* by its definitions and by some result the dropdown has shown meanwhile, *)
(* no free text for who may only look, an endpoint for anyone, however     *)
(* edits, results and grants come in between; and no text is executed with *)
(* a variable or a section without a value, but for endpoints and for what *)
(* is written unescaped or inverted (handlers/query_results.py:60-134,     *)
(* 271-318, api/endpoints.py:131-147, models/parameterized_query.py:58).   *)
(***************************************************************************)
WrittenFor(t) ==
    \E query \in t.writings :
        /\ query.source = t.source /\ query.nodes = t.nodes
        /\ \A p \in DOMAIN t.values :
              /\ p \in DOMAIN query.schema \/ DOMAIN query.schema = {}
              /\ \E shown \in t.results : ValidValue(query.schema, p, t.values[p], shown)
        /\ t.level = "view" =>
              \A p \in DOMAIN query.schema : query.schema[p].type # "text"
        /\ t.kind = "endpoint" => query.open

Filled(t) ==
    \A n \in t.nodes : n.kind \in {"variable", "section"} => n.key \in ParameterNames(t.values)

ExecutedAsWritten ==
    \A r \in Askers : sent[r] # NoTask =>
        /\ sent[r].kind = "endpoint" \/ Filled(sent[r])
        /\ sent[r].level = "full" \/ sent[r].kind \in {"saved", "endpoint"}
        /\ sent[r].kind \in {"saved", "endpoint"} => WrittenFor(sent[r])
=============================================================================
