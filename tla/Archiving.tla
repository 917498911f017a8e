------------------------------- MODULE Archiving -------------------------------
(***************************************************************************)
(* What hangs on a saved query - its schedule, visualizations, the widgets *)
(* that show them on dashboards, and alerts - and the archiving of the     *)
(* query, which is to clear it away but for the visualizations.  Everybody *)
(* else goes on meanwhile: handlers do not ask whether a query is          *)
(* archived, and the scheduler does not either.                            *)
(***************************************************************************)
EXTENDS FiniteSets

CONSTANTS
    Texts,       \* saved queries
    Views,       \* visualizations
    Tiles,       \* widgets
    Bells,       \* alerts
    Clerks       \* processes that handle requests

VARIABLES
    queryRow,    \* the row of each query
    viewOf,      \* the query of each visualization
    tileOf,      \* the visualization of each widget
    bellOf,      \* the query of each alert
    hand,        \* the request each process has in hand
    disturbed    \* history: queries that got something while, or after, they were archived

archivingVars == <<queryRow, viewOf, tileOf, bellOf, hand, disturbed>>

Nothing == "nothing"
TextBox == "text box"

\* They are neither queries nor visualizations
ASSUME NamesAssumption == {Nothing, TextBox} \cap (Texts \cup Views) = {}

NoText == [archived |-> FALSE, scheduled |-> FALSE, exists |-> FALSE]
FreshText(scheduled) == [archived |-> FALSE, scheduled |-> scheduled, exists |-> TRUE]
EmptyHand == [kind |-> "none"]

ViewsOf(q) == { v \in Views : viewOf[v] = q }
TilesOf(q) == { w \in Tiles : tileOf[w] \in ViewsOf(q) }
BellsOf(q) == { a \in Bells : bellOf[a] = q }

ArchivingInit ==
    /\ queryRow = [q \in Texts |-> NoText]
    /\ viewOf = [v \in Views |-> Nothing]
    /\ tileOf = [w \in Tiles |-> Nothing]
    /\ bellOf = [a \in Bells |-> Nothing]
    /\ hand = [p \in Clerks |-> EmptyHand]
    /\ disturbed = {}

\* An archive has updated the row, which stays locked until it commits
Locked(q) == \E p \in Clerks : hand[p].kind = "gathered" /\ hand[p].query = q

\* Something is hung on q
HungOn(q) == IF queryRow[q].archived THEN disturbed \cup {q} ELSE disturbed
-----------------------------------------------------------------------------
\* Query.create adds a table
CreateQuery(q, v, scheduled) ==
    /\ ~queryRow[q].exists /\ viewOf[v] = Nothing
    /\ queryRow' = [queryRow EXCEPT ![q] = FreshText(scheduled)]
    /\ viewOf' = [viewOf EXCEPT ![v] = q]
    /\ UNCHANGED <<tileOf, bellOf, hand, disturbed>>

\* Query.fork copies the visualizations, neither schedule nor archive mark
Fork(q, f, copies) ==
    /\ queryRow[q].exists /\ ~queryRow[f].exists
    /\ copies \subseteq { v \in Views : viewOf[v] = Nothing }
    /\ Cardinality(copies) = Cardinality(ViewsOf(q))
    /\ queryRow' = [queryRow EXCEPT ![f] = FreshText(FALSE)]
    /\ viewOf' = [v \in Views |-> IF v \in copies THEN f ELSE viewOf[v]]
    /\ UNCHANGED <<tileOf, bellOf, hand, disturbed>>

\* QueryResource.post loads the query ...
OpenQuery(p, q, scheduled) ==
    /\ hand[p] = EmptyHand
    /\ queryRow[q].exists
    /\ hand' = [hand EXCEPT ![p] =
          [kind |-> "edit", query |-> q, loaded |-> queryRow[q].scheduled, scheduled |-> scheduled]]
    /\ UNCHANGED <<queryRow, viewOf, tileOf, bellOf, disturbed>>

\* ... and writes the schedule if it is not the one that was loaded, whatever has become of the row
SaveQuery(p) ==
    LET q == hand[p].query
    IN  /\ hand[p].kind = "edit"
        /\ ~Locked(q)
        /\ queryRow' = IF hand[p].scheduled = hand[p].loaded THEN queryRow
                   ELSE [queryRow EXCEPT ![q].scheduled = hand[p].scheduled]
        /\ disturbed' = IF queryRow' # queryRow /\ hand[p].scheduled THEN HungOn(q) ELSE disturbed
        /\ hand' = [hand EXCEPT ![p] = EmptyHand]
        /\ UNCHANGED <<viewOf, tileOf, bellOf>>

\* A schedule that is over is emptied (empty_schedules), or the page says so
EmptySchedule(q) ==
    /\ queryRow[q].scheduled /\ ~Locked(q)
    /\ queryRow' = [queryRow EXCEPT ![q].scheduled = FALSE]
    /\ UNCHANGED <<viewOf, tileOf, bellOf, hand, disturbed>>
-----------------------------------------------------------------------------
\* VisualizationListResource.post
AddView(v, q) ==
    /\ queryRow[q].exists /\ viewOf[v] = Nothing
    /\ viewOf' = [viewOf EXCEPT ![v] = q]
    /\ UNCHANGED <<queryRow, tileOf, bellOf, hand, disturbed>>

\* VisualizationResource.delete takes the widgets along; Postgres refuses if one is left
DeleteView(v) ==
    /\ viewOf[v] # Nothing
    /\ viewOf' = [viewOf EXCEPT ![v] = Nothing]
    /\ tileOf' = [w \in Tiles |-> IF tileOf[w] = v THEN Nothing ELSE tileOf[w]]
    /\ UNCHANGED <<queryRow, bellOf, hand, disturbed>>

\* WidgetListResource.post: a visualization, or a text box
AddTile(w, v) ==
    /\ tileOf[w] = Nothing
    /\ v # TextBox => viewOf[v] # Nothing
    /\ \A p \in Clerks : hand[p].kind = "gathered" => w \notin hand[p].tiles
    /\ tileOf' = [tileOf EXCEPT ![w] = v]
    /\ disturbed' = IF v = TextBox THEN disturbed ELSE HungOn(viewOf[v])
    /\ UNCHANGED <<queryRow, viewOf, bellOf, hand>>

\* WidgetResource.delete
DeleteTile(w) ==
    /\ tileOf[w] # Nothing
    /\ tileOf' = [tileOf EXCEPT ![w] = Nothing]
    /\ UNCHANGED <<queryRow, viewOf, bellOf, hand, disturbed>>

\* AlertListResource.post makes an alert, AlertResource.post moves it to another query
SetBell(a, q) ==
    /\ queryRow[q].exists /\ bellOf[a] # q
    /\ bellOf[a] = Nothing =>
          \A p \in Clerks : hand[p].kind = "gathered" => a \notin hand[p].bells
    /\ bellOf' = [bellOf EXCEPT ![a] = q]
    /\ disturbed' = HungOn(q)
    /\ UNCHANGED <<queryRow, viewOf, tileOf, hand>>

\* AlertResource.delete
DeleteBell(a) ==
    /\ bellOf[a] # Nothing
    /\ bellOf' = [bellOf EXCEPT ![a] = Nothing]
    /\ UNCHANGED <<queryRow, viewOf, tileOf, hand, disturbed>>
-----------------------------------------------------------------------------
\* QueryResource.delete loads the query ...
OpenArchive(p, q) ==
    /\ hand[p] = EmptyHand
    /\ queryRow[q].exists
    /\ hand' = [hand EXCEPT ![p] =
          [kind |-> "archive", query |-> q, loaded |-> queryRow[q].scheduled]]
    /\ UNCHANGED <<queryRow, viewOf, tileOf, bellOf, disturbed>>

(***************************************************************************)
(* ... and Query.archive marks the row, which the first lazy load writes,  *)
(* and then loads what is to be deleted.                                   *)
(***************************************************************************)
Gather(p) ==
    LET q == hand[p].query
    IN  /\ hand[p].kind = "archive"
        /\ ~Locked(q)
        /\ hand' = [hand EXCEPT ![p] =
              [kind |-> "gathered", query |-> q, loaded |-> hand[p].loaded,
               tiles |-> TilesOf(q), bells |-> BellsOf(q)]]
        /\ UNCHANGED <<queryRow, viewOf, tileOf, bellOf, disturbed>>

\* What the query got since then is not deleted, nor is a schedule it got since it was loaded
Outdated(p) ==
    LET q == hand[p].query
    IN  IF /\ TilesOf(q) \subseteq hand[p].tiles /\ BellsOf(q) \subseteq hand[p].bells
           /\ queryRow[q].scheduled => hand[p].loaded
        THEN disturbed \ {q} ELSE disturbed \cup {q}

\* An empty schedule is written over another one only
Archived(q, loaded) ==
    [queryRow EXCEPT ![q].archived = TRUE, ![q].scheduled = queryRow[q].scheduled /\ ~loaded]

\* The widgets stay on the dashboards
ArchiveRow(p) ==
    /\ hand[p].kind = "gathered"
    /\ queryRow' = Archived(hand[p].query, hand[p].loaded)
    /\ bellOf' = [a \in Bells |-> IF a \in hand[p].bells THEN Nothing ELSE bellOf[a]]
    /\ hand' = [hand EXCEPT ![p] = EmptyHand]
    /\ disturbed' = Outdated(p)
    /\ UNCHANGED <<viewOf, tileOf>>

\* Everything is deleted that hung on the query, wherever it may have been moved
Archive(p) ==
    /\ hand[p].kind = "gathered"
    /\ queryRow' = Archived(hand[p].query, hand[p].loaded)
    /\ tileOf' = [w \in Tiles |-> IF w \in hand[p].tiles THEN Nothing ELSE tileOf[w]]
    /\ bellOf' = [a \in Bells |-> IF a \in hand[p].bells THEN Nothing ELSE bellOf[a]]
    /\ hand' = [hand EXCEPT ![p] = EmptyHand]
    /\ disturbed' = Outdated(p)
    /\ UNCHANGED viewOf

\* Status 403 or 500, or the process dies: the query is as before
LetGo(p) ==
    /\ hand[p] # EmptyHand
    /\ hand' = [hand EXCEPT ![p] = EmptyHand]
    /\ UNCHANGED <<queryRow, viewOf, tileOf, bellOf, disturbed>>

ArchivingNext ==
    \/ \E q \in Texts :
        \/ \E v \in Views : AddView(v, q) \/ \E scheduled \in BOOLEAN : CreateQuery(q, v, scheduled)
        \/ \E f \in Texts, copies \in SUBSET Views : Fork(q, f, copies)
        \/ EmptySchedule(q)
        \/ \E a \in Bells : SetBell(a, q)
    \/ \E v \in Views : DeleteView(v)
    \/ \E w \in Tiles : DeleteTile(w) \/ \E v \in Views \cup {TextBox} : AddTile(w, v)
    \/ \E a \in Bells : DeleteBell(a)
    \/ \E p \in Clerks :
        \/ \E q \in Texts : OpenArchive(p, q) \/ \E scheduled \in BOOLEAN : OpenQuery(p, q, scheduled)
        \/ SaveQuery(p) \/ Gather(p) \/ Archive(p) \/ LetGo(p)

ArchivingSpec == ArchivingInit /\ [][ArchivingNext]_archivingVars
-----------------------------------------------------------------------------
ArchivingTypeOK ==
    /\ queryRow \in [Texts -> [archived : BOOLEAN, scheduled : BOOLEAN, exists : BOOLEAN]]
    /\ viewOf \in [Views -> Texts \cup {Nothing}]
    /\ tileOf \in [Tiles -> Views \cup {Nothing, TextBox}]
    /\ bellOf \in [Bells -> Texts \cup {Nothing}]
    /\ \A p \in Clerks : hand[p] # EmptyHand =>
          hand[p].kind \in {"edit", "archive", "gathered"} /\ hand[p].query \in Texts
    /\ disturbed \subseteq Texts

(***************************************************************************)
(* An archived query is quiet: it is not executed by schedule, on no       *)
(* dashboard and watched by no alert (dingolytics/models/queries.py:104),  *)
(* but for what it got from the load of its row on, while it was being     *)
(* archived, or afterwards, which archiving it again clears away.          *)
(* Excluded are so a schedule that was saved over none between the load    *)
(* and the first UPDATE (handlers/queries.py:422), an edit that had loaded *)
(* the query before and puts its schedule back, a widget or an alert that  *)
(* was added, and an alert that was moved.                                 *)
(***************************************************************************)
ArchivedIsQuiet ==
    \A q \in Texts \ disturbed : queryRow[q].archived =>
        ~queryRow[q].scheduled /\ TilesOf(q) = {} /\ BellsOf(q) = {}
=============================================================================
