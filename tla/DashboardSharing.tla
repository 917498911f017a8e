---------------------------- MODULE DashboardSharing ----------------------------
(***************************************************************************)
(* How dashboards are named, filled and shared.  A dashboard gets its slug *)
(* when it is created, a widget puts a query on it, and an API key opens   *)
(* it, with the queries on it, to whoever has its public URL.              *)
(***************************************************************************)
EXTENDS Naturals

CONSTANTS
    Dashboards,
    StemOf,       \* [Dashboards -> stems]: the slugs of their names
    SlugOf,       \* SlugOf[<<stem, n>>]: the stem, for 0, and the stem with "_n"
    MaxTries,     \* bound: the largest n
    Widgets,      \* ids of widgets
    Queries,      \* queries, each with its visualizations
    ApiKeys,      \* keys that may be made
    Sharers       \* processes that handle requests

ASSUME SlugAssumption ==
    /\ MaxTries \in Nat
    /\ DOMAIN SlugOf = { StemOf[d] : d \in Dashboards } \X (0..MaxTries)
    /\ \A x \in DOMAIN SlugOf : SlugOf[x] # "none"

VARIABLES
    slug,         \* the slug of each dashboard there is
    widget,       \* the dashboard and the query of each widget
    archivedQuery,\* archived queries
    apiKey,       \* the dashboard of each key, and whether it is active
    work,         \* what each process has found out and will commit
    createdAtOnce,\* history: dashboards whose creation overlapped another one
    manyShares    \* history: dashboards last shared while they were, or while an unshare had a key in hand

sharingVars == <<slug, widget, archivedQuery, apiKey, work, createdAtOnce, manyShares>>

NoSlug == "none"
NoWidget == [query |-> "none"]
NoKey == [dashboard |-> "none"]
NoWork == [phase |-> "idle"]

SharingInit ==
    /\ slug = [d \in Dashboards |-> NoSlug]
    /\ widget = [w \in Widgets |-> NoWidget]
    /\ archivedQuery = {}
    /\ apiKey = [k \in ApiKeys |-> NoKey]
    /\ work = [p \in Sharers |-> NoWork]
    /\ createdAtOnce = {}
    /\ manyShares = {}

Made(d) == slug[d] # NoSlug
IsActive(k) == apiKey[k] # NoKey /\ apiKey[k].active
ActiveKeys(d) == { k \in ApiKeys : IsActive(k) /\ apiKey[k].dashboard = d }
Creating(p) == work[p].phase = "create"
Unsharing(p, d) == work[p].phase = "unshare" /\ work[p].dashboard = d
-----------------------------------------------------------------------------
(***************************************************************************)
(* Slugs                                                                   *)
(***************************************************************************)
Taken(s) == \E d \in Dashboards : slug[d] = s

\* One attempt, and the next number
SecondChoice(d) ==
    SlugOf[<<StemOf[d], IF Taken(SlugOf[<<StemOf[d], 0>>]) THEN 1 ELSE 0>>]

\* generate_slug: the first that no committed dashboard has, archived or of any organization
FreeNumbers(d) == { n \in 0..MaxTries : ~Taken(SlugOf[<<StemOf[d], n>>]) }
FirstFree(d) == CHOOSE n \in FreeNumbers(d) : \A m \in FreeNumbers(d) : n <= m
FreeSlug(d) == SlugOf[<<StemOf[d], FirstFree(d)>>]

\* The default of the column is computed when the row is inserted
InsertDashboard(p, d) ==
    /\ work[p] = NoWork
    /\ ~Made(d)
    /\ FreeNumbers(d) # {}  \* within the bound MaxTries
    /\ \A q \in Sharers : Creating(q) => work[q].dashboard # d
    /\ work' = [work EXCEPT ![p] = [phase |-> "create", dashboard |-> d, slug |-> FreeSlug(d)]]
    /\ LET others == { work[q].dashboard : q \in { q \in Sharers : Creating(q) } }
       IN  createdAtOnce' =
              IF others = {} THEN createdAtOnce ELSE createdAtOnce \cup others \cup {d}
    /\ UNCHANGED <<slug, widget, archivedQuery, apiKey, manyShares>>

CommitDashboard(p) ==
    /\ Creating(p)
    /\ slug' = [slug EXCEPT ![work[p].dashboard] = work[p].slug]
    /\ work' = [work EXCEPT ![p] = NoWork]
    /\ UNCHANGED <<widget, archivedQuery, apiKey, createdAtOnce, manyShares>>
-----------------------------------------------------------------------------
(***************************************************************************)
(* Widgets                                                                 *)
(***************************************************************************)
AddWidget(w, d, q) ==
    /\ widget[w] = NoWidget
    /\ Made(d)
    /\ widget' = [widget EXCEPT ![w] = [dashboard |-> d, query |-> q]]
    /\ UNCHANGED <<slug, archivedQuery, apiKey, work, createdAtOnce, manyShares>>

RemoveWidget(w) ==
    /\ widget[w] # NoWidget
    /\ widget' = [widget EXCEPT ![w] = NoWidget]
    /\ UNCHANGED <<slug, archivedQuery, apiKey, work, createdAtOnce, manyShares>>

\* Query.archive takes the query off all dashboards
ArchiveQuery(q) ==
    /\ q \notin archivedQuery
    /\ archivedQuery' = archivedQuery \cup {q}
    /\ widget' = [w \in Widgets |-> IF widget[w].query = q THEN NoWidget ELSE widget[w]]
    /\ UNCHANGED <<slug, apiKey, work, createdAtOnce, manyShares>>
-----------------------------------------------------------------------------
(***************************************************************************)
(* Sharing                                                                 *)
(***************************************************************************)
\* DashboardShareResource.post makes a key, whatever keys there are
Share(k, d) ==
    /\ apiKey[k] = NoKey
    /\ Made(d)
    /\ apiKey' = [apiKey EXCEPT ![k] = [active |-> TRUE, dashboard |-> d]]
    /\ manyShares' =
          IF ActiveKeys(d) # {} \/ \E p \in Sharers : Unsharing(p, d)
          THEN manyShares \cup {d} ELSE manyShares \ {d}
    /\ UNCHANGED <<slug, widget, archivedQuery, work, createdAtOnce>>

\* get_by_object, without the filter on active keys
FindAnyKey(p, d) ==
    /\ work[p] = NoWork
    /\ \E k \in ApiKeys :
        /\ apiKey[k] # NoKey /\ apiKey[k].dashboard = d
        /\ work' = [work EXCEPT ![p] = [phase |-> "unshare", dashboard |-> d, key |-> k]]
    /\ UNCHANGED <<slug, widget, archivedQuery, apiKey, createdAtOnce, manyShares>>

\* get_by_object: some active key of the dashboard, in no order
FindKey(p, d) ==
    /\ work[p] = NoWork
    /\ \E k \in ActiveKeys(d) :
          work' = [work EXCEPT ![p] = [phase |-> "unshare", dashboard |-> d, key |-> k]]
    /\ UNCHANGED <<slug, widget, archivedQuery, apiKey, createdAtOnce, manyShares>>

\* The key is deactivated, once more if another request was faster
Unshare(p) ==
    /\ work[p].phase = "unshare"
    /\ apiKey' = [apiKey EXCEPT ![work[p].key].active = FALSE]
    /\ work' = [work EXCEPT ![p] = NoWork]
    /\ UNCHANGED <<slug, widget, archivedQuery, createdAtOnce, manyShares>>

\* Postgres refuses, or the process dies
GiveUp(p) ==
    /\ work[p] # NoWork
    /\ work' = [work EXCEPT ![p] = NoWork]
    /\ UNCHANGED <<slug, widget, archivedQuery, apiKey, createdAtOnce, manyShares>>

\* Query.dashboard_api_keys: who has one of these sees the results of the query
DashboardApiKeys(q) ==
    { k \in ApiKeys :
        /\ IsActive(k)
        /\ \E w \in Widgets : widget[w] = [dashboard |-> apiKey[k].dashboard, query |-> q] }

SharingNext ==
    \/ \E p \in Sharers :
        \/ \E d \in Dashboards : InsertDashboard(p, d) \/ FindKey(p, d)
        \/ CommitDashboard(p) \/ Unshare(p) \/ GiveUp(p)
    \/ \E d \in Dashboards : \E k \in ApiKeys : Share(k, d)
    \/ \E w \in Widgets, d \in Dashboards, q \in Queries : AddWidget(w, d, q)
    \/ \E w \in Widgets : RemoveWidget(w)
    \/ \E q \in Queries : ArchiveQuery(q)

SharingSpec == SharingInit /\ [][SharingNext]_sharingVars
-----------------------------------------------------------------------------
Slugs == { SlugOf[x] : x \in DOMAIN SlugOf }

SharingTypeOK ==
    /\ slug \in [Dashboards -> Slugs \cup {NoSlug}]
    /\ widget \in [Widgets -> {NoWidget} \cup [dashboard : Dashboards, query : Queries]]
    /\ \A w \in Widgets : widget[w] # NoWidget => Made(widget[w].dashboard)
    /\ archivedQuery \subseteq Queries
    /\ apiKey \in [ApiKeys -> {NoKey} \cup [active : BOOLEAN, dashboard : Dashboards]]
    /\ work \in [Sharers ->
          {NoWork} \cup [phase : {"create"}, dashboard : Dashboards, slug : Slugs]
                   \cup [phase : {"unshare"}, dashboard : Dashboards, key : ApiKeys]]
    /\ createdAtOnce \cup manyShares \subseteq Dashboards

(***************************************************************************)
(* Two dashboards have one slug, so that get_by_slug_and_org finds neither *)
(* of them, only if they were created at once: the slug is looked up when  *)
(* the row is inserted and nothing but luck keeps it free until the commit *)
(* (models/__init__.py:227).                                               *)
(***************************************************************************)
SlugNamesOne ==
    \A d, e \in Dashboards :
        d # e /\ Made(d) /\ slug[d] = slug[e] => {d, e} \subseteq createdAtOnce

(***************************************************************************)
(* After an unshare the queries on the dashboard are open to none of its   *)
(* keys, unless it was shared while it was already or while an unshare had *)
(* a key in hand: an unshare gives up one key (handlers/dashboards.py:354).*)
(***************************************************************************)
UnshareCloses ==
    [][\A p \in Sharers :
         LET d == work[p].dashboard
         IN  Unshare(p) /\ d \notin manyShares =>
                \A q \in Queries : \A k \in DashboardApiKeys(q)' : apiKey'[k].dashboard # d]_sharingVars
=============================================================================
