-------------------------------- MODULE Listings --------------------------------
(***************************************************************************)
(* The lists of queries, dashboards, users and events, which a browser     *)
(* reads page by page.  A page is two statements, one that counts the rows *)
(* and one that fetches some of them, and others write meanwhile.  Most    *)
(* lists are in no order at all, since order_results returns at once.      *)
(***************************************************************************)
EXTENDS Naturals, FiniteSets

CONSTANTS
    Ids,          \* ids of rows of the table that is listed
    Looks,        \* what rows may be, sets of Marks
    Listings,     \* requests for lists
    PageSizes,
    Moments,      \* seconds events are recorded at
    MaxWrites     \* bound: writes while a list is read

\* What the requests filter by; a row that is not there is only "gone"
Marks == {"mine", "draft", "archived", "starred", "matching", "tagged", "disabled", "pending"}
Gone == {"gone"}

\* The lists there are
Lists == {"queries", "archive", "my queries", "favorite queries", "dashboards", "my dashboards",
          "favorite dashboards", "users", "events"}

ASSUME ListingAssumption ==
    /\ Ids \subseteq Nat /\ IsFiniteSet(Ids)
    /\ Looks \subseteq SUBSET Marks
    /\ \A request \in Listings :
          /\ request.of \in Lists
          /\ request.of = "users" => request.pending \in {"any", "yes", "no"}
    /\ PageSizes \subseteq 1..250
    /\ Moments \subseteq Nat
    /\ MaxWrites \in Nat

VARIABLES
    table,        \* what each row is
    moment,       \* when each event happened, in seconds
    reading,      \* the list that is being read
    writes        \* how many writes there were meanwhile

listingVars == <<table, moment, reading, writes>>

Marked(mark) == { i \in Ids : mark \in table[i] }
Existing == Ids \ Marked("gone")

\* A list in no order, by id, or latest first
Unordered(rows) == [rows |-> rows, order |-> "none"]
ById(rows) == [rows |-> rows, order |-> "id"]
LatestFirst(rows) == [rows |-> rows, order |-> "latest"]

\* order_results leaves the order as it is, also when one is asked for
OrderResults(list) == list

Filtered(list, mark) == [list EXCEPT !.rows = @ \cap Marked(mark)]
FilterByTags(request, list) == IF request.tags THEN Filtered(list, "tagged") ELSE list

\* Query.all_queries, of the data sources the user may read
QueriesOf(drafts, archived) ==
    Unordered({ i \in Existing :
        /\ (i \in Marked("archived")) = archived
        /\ drafts \/ i \notin Marked("draft") \/ i \in Marked("mine") })

\* Query.search: unless the organization has multi_byte_search, all of them
QuerySearch(drafts, archived, multiByte) ==
    LET all == QueriesOf(drafts, archived)
    IN  IF multiByte THEN ById(Filtered(all, "matching").rows) ELSE all

\* Dashboard.all, of those the user may read; search filters them
DashboardsOf(term) ==
    LET all == Unordered((Existing \ Marked("archived"))
                             \cap (Marked("mine") \cup (Ids \ Marked("draft"))))
    IN  IF term THEN Filtered(all, "matching") ELSE all
-----------------------------------------------------------------------------
(***************************************************************************)
(* The lists                                                               *)
(***************************************************************************)
QueryList(request) ==
    FilterByTags(request,
        IF request.term THEN QuerySearch(TRUE, FALSE, request.multiByte) ELSE QueriesOf(TRUE, FALSE))

QueryArchive(request) ==
    FilterByTags(request,
        IF request.term THEN QuerySearch(FALSE, TRUE, request.multiByte) ELSE QueriesOf(FALSE, TRUE))

\* With a term the request fails: search_by_user calls what is not there
MyQueries(request) == FilterByTags(request, Filtered(QueriesOf(FALSE, FALSE), "mine"))

QueryFavorites(request) ==
    FilterByTags(request,
        Filtered(IF request.term THEN QuerySearch(TRUE, FALSE, TRUE) ELSE QueriesOf(TRUE, FALSE),
                 "starred"))

DashboardList(request) == FilterByTags(request, DashboardsOf(request.term))

MyDashboards(request) == FilterByTags(request, Filtered(DashboardsOf(request.term), "mine"))

DashboardFavorites(request) ==
    FilterByTags(request, Filtered(DashboardsOf(request.term), "starred"))

\* UserListResource: enabled ones or disabled ones, of these the pending ones or the others
UserList(request) ==
    LET some == IF request.disabled THEN Existing \cap Marked("disabled")
                ELSE Existing \ Marked("disabled")
        users == Unordered(CASE request.pending = "any" -> some
                             [] request.pending = "yes" -> some \cap Marked("pending")
                             [] request.pending = "no"  -> some \ Marked("pending"))
    IN  IF request.term THEN Filtered(users, "matching") ELSE users

\* Organization.events in no order
EventsUnsorted(request) == Unordered(Existing)

\* Organization.events, ordered by desc(created_at)
EventList(request) == LatestFirst(Existing)

\* The list a request asks for
Listed(request) ==
    OrderResults(CASE request.of = "queries" -> QueryList(request)
                   [] request.of = "archive" -> QueryArchive(request)
                   [] request.of = "my queries" -> MyQueries(request)
                   [] request.of = "favorite queries" -> QueryFavorites(request)
                   [] request.of = "dashboards" -> DashboardList(request)
                   [] request.of = "my dashboards" -> MyDashboards(request)
                   [] request.of = "favorite dashboards" -> DashboardFavorites(request)
                   [] request.of = "users" -> UserList(request)
                   [] request.of = "events" -> EventList(request))

\* Postgres returns the rows in any arrangement that agrees with the order
Before(order, i, j) ==
    CASE order = "none"   -> TRUE
      [] order = "id"     -> i <= j
      [] order = "latest" -> moment[i] >= moment[j]

Arrangements(list) ==
    { s \in [1..Cardinality(list.rows) -> list.rows] :
        \A m, n \in DOMAIN s : m < n => s[m] # s[n] /\ Before(list.order, s[m], s[n]) }
-----------------------------------------------------------------------------
NoReading == [phase |-> "idle"]

ListingInit ==
    /\ table \in [Ids -> Looks \cup {Gone}]
    /\ moment = [i \in Ids |-> 0]
    /\ reading = NoReading
    /\ writes = 0

\* Rows are written: what a reader of the list may not rely on
Notice ==
    /\ writes < MaxWrites /\ writes' = writes + 1
    /\ reading.phase \in {"asked", "counted"}
    /\ \E request \in {reading.request} :
          LET before == Listed(request).rows
              after == Listed(request)'.rows
              came == after \ before # {}
          IN  reading' = [reading EXCEPT
                  !.steady = @ \cap after,
                  !.left = @ \/ before \ after # {},
                  !.came = @ \/ came,
                  !.late = @ \/ (reading.phase = "counted" /\ came)]

\* A query, dashboard or user is created
AddRow(i, look) ==
    /\ reading # NoReading /\ reading.request.of # "events"
    /\ table[i] = Gone
    /\ table' = [table EXCEPT ![i] = look]
    /\ UNCHANGED moment
    /\ Notice

\* QueryFavoriteResource and DashboardFavoriteResource: of two stars unique_favorite leaves one
MayBeStarred(i) ==
    /\ reading # NoReading /\ reading.request.of \notin {"users", "events"}
    /\ table[i] # Gone

Star(i) ==
    /\ MayBeStarred(i)
    /\ table' = [table EXCEPT ![i] = @ \cup {"starred"}]
    /\ UNCHANGED moment
    /\ Notice

Unstar(i) ==
    /\ MayBeStarred(i)
    /\ table' = [table EXCEPT ![i] = @ \ {"starred"}]
    /\ UNCHANGED moment
    /\ Notice

\* An edit changes what it is found by; it is archived, disabled or deleted
ChangeRow(i, look) ==
    /\ reading # NoReading /\ reading.request.of # "events"
    /\ table[i] \notin {Gone, look}
    /\ table' = [table EXCEPT ![i] = look]
    /\ UNCHANGED moment
    /\ Notice

(***************************************************************************)
(* The task record_auditlog_event_task stores an event with the second of  *)
(* the request it was part of, or the one the browser names.               *)
(***************************************************************************)
RecordEvent(i, t) ==
    /\ reading # NoReading /\ reading.request.of = "events"
    /\ table[i] = Gone
    /\ table' = [table EXCEPT ![i] = {}]
    /\ moment' = [moment EXCEPT ![i] = t]
    /\ Notice

\* A browser begins to read a list; events have happened when they did
BeginReading(request, size) ==
    /\ reading = NoReading
    /\ IF request.of = "events" THEN moment' \in [Ids -> Moments] ELSE UNCHANGED moment
    /\ reading' = [phase |-> "asked", request |-> request, size |-> size, page |-> 1, count |-> 0,
                   seen |-> [i \in Ids |-> 0], steady |-> Listed(request).rows,
                   left |-> FALSE, came |-> FALSE, late |-> FALSE]
    /\ UNCHANGED <<table, writes>>

\* paginate counts, and refuses a page that is out of range
Count ==
    LET count == Cardinality(Listed(reading.request).rows)
        first == (reading.page - 1) * reading.size + 1
    IN  /\ reading.phase = "asked"
        /\ reading' = [reading EXCEPT
              !.phase = IF first > count /\ count > 0 THEN "refused" ELSE "counted",
              !.count = count, !.late = FALSE]
        /\ UNCHANGED <<table, moment, writes>>

(***************************************************************************)
(* paginate fetches the page; a later one that is empty is an error 404.   *)
(* The browser asks for the next one if the count says that there is one.  *)
(***************************************************************************)
Fetch ==
    LET size == reading.size
        list == Listed(reading.request)
    IN  /\ reading.phase = "counted"
        /\ \E s \in Arrangements(list) :
              LET on == { n \in DOMAIN s : n > (reading.page - 1) * size /\ n <= reading.page * size }
                  page == { s[n] : n \in on }
              IN  reading' =
                    IF page = {} /\ reading.page > 1 THEN [reading EXCEPT !.phase = "refused"]
                    ELSE [reading EXCEPT
                            !.seen = [i \in Ids |-> IF i \in page THEN @[i] + 1 ELSE @[i]],
                            !.phase = IF reading.page * size < reading.count THEN "asked" ELSE "done",
                            !.page = IF reading.page * size < reading.count THEN @ + 1 ELSE @]
        /\ UNCHANGED <<table, moment, writes>>

ListingNext ==
    \/ \E i \in Ids :
        \/ \E look \in Looks : AddRow(i, look)
        \/ \E look \in Looks \cup {Gone} : ChangeRow(i, look)
        \/ \E t \in Moments : RecordEvent(i, t)
        \/ Star(i) \/ Unstar(i)
    \/ \E request \in Listings, size \in PageSizes : BeginReading(request, size)
    \/ Count \/ Fetch

ListingSpec == ListingInit /\ [][ListingNext]_listingVars
-----------------------------------------------------------------------------
ListingTypeOK ==
    /\ table \in [Ids -> (SUBSET Marks) \cup {Gone}]
    /\ moment \in [Ids -> Nat]
    /\ reading.phase \in {"idle", "asked", "counted", "refused", "done"}
    /\ reading # NoReading =>
          /\ reading.request \in Listings /\ reading.size \in PageSizes
          /\ reading.seen \in [Ids -> Nat] /\ reading.steady \subseteq Ids
    /\ writes \in 0..MaxWrites

\* Rows whose place an order determines: searched queries are ordered by id, events by their time
Placed(request, i) ==
    \/ /\ request.of \in {"queries", "archive", "favorite queries"}
       /\ request.term /\ request.multiByte
    \/ /\ request.of = "events"
       /\ \A j \in Existing \ {i} : moment[j] # moment[i]

(***************************************************************************)
(* A reader who turned all pages has seen every row that was listed all    *)
(* the while, although rows came in meanwhile, and events with an earlier  *)
(* time than those that had been read: and once, if none came in.          *)
(* Excluded are lists of several pages in no order, events of one second,  *)
(* lists that rows left while they were read, since the rest moves up,     *)
(* and a last page that was counted before rows came in and fetched after  *)
(* (handlers/base.py:84, 95 and 131).                                      *)
(***************************************************************************)
PagesMissNothing ==
    reading.phase = "done" =>
        \A i \in reading.steady :
            reading.page = 1 \/ Placed(reading.request, i) =>
               /\ ~reading.left /\ ~reading.late => reading.seen[i] >= 1
               /\ ~reading.left /\ ~reading.came => reading.seen[i] = 1
=============================================================================
