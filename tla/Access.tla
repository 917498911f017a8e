--------------------------------- MODULE Access ---------------------------------
(***************************************************************************)
(* Who may see and change what.  Users are members of groups, which hold   *)
(* data sources, fully or for viewing only, and may so read and execute    *)
(* queries.  The groups of a user are one list in the row of the user,     *)
(* without foreign keys.                                                   *)
(***************************************************************************)
EXTENDS Naturals

CONSTANTS
    Members,      \* users
    Groups,       \* groups that are not built in
    SourceIds,    \* data sources
    QueryIds,
    SourceOf,     \* [QueryIds -> SourceIds]
    OwnerOf,      \* [QueryIds -> Members]
    Drafts,       \* queries that are not published
    Endpoints,    \* queries whose results are published
    Archived,     \* queries that are archived
    Admins,       \* processes that handle requests of administrators
    MaxTimes      \* bound: mentions of a group in a list, rows of a group for a data source

ASSUME QueriesAssumption ==
    /\ SourceOf \in [QueryIds -> SourceIds]
    /\ OwnerOf \in [QueryIds -> Members]
    /\ Drafts \cup Archived \cup Endpoints \subseteq QueryIds
    /\ MaxTimes \in Nat \ {0}

VARIABLES
    groupRow,     \* groups there are
    groupIds,     \* the list of each user: how often it names each group
    held,         \* the rows of data_source_groups: how many per source, group and view_only
    duty,         \* what each process has read and will commit
    decided,      \* history: the groups each user has been put in and not taken out of
    crossed,      \* history: users of whom two requests had the list, or whose group was being deleted
    repeated      \* history: users put into a group they were in

accessVars == <<groupRow, groupIds, held, duty, decided, crossed, repeated>>

NoDuty == [kind |-> "none"]
NoGroups == [g \in Groups |-> 0]

AccessInit ==
    /\ groupRow = {}
    /\ groupIds = [u \in Members |-> NoGroups]
    /\ held = [x \in SourceIds \X Groups \X BOOLEAN |-> 0]
    /\ duty = [p \in Admins |-> NoDuty]
    /\ decided = [u \in Members |-> {}]
    /\ crossed = {}
    /\ repeated = {}

InGroup(list, g) == list[g] > 0
-----------------------------------------------------------------------------
(***************************************************************************)
(* Groups and their members                                                *)
(***************************************************************************)
\* Users whose lists the request p has read, and the groups it is about
ListsOf(p) ==
    CASE duty[p].kind \in {"add", "remove"} -> {duty[p].user}
      [] duty[p].kind = "deleteGroup"       -> DOMAIN duty[p].lists
      [] OTHER                              -> {}
About(p, g) == duty[p].kind \in {"add", "remove", "deleteGroup"} /\ duty[p].group = g

\* Another request has read the list of u or is about one of the groups
Interfering(u, gs) == \E p \in Admins : u \in ListsOf(p) \/ \E g \in gs : About(p, g)

\* A request reads the lists of users: whom other requests about them or their group have read
Crossing(users, g) ==
    crossed' = crossed
        \cup { u \in users : Interfering(u, {g}) }
        \cup { u \in Members : \E p \in Admins : u \in ListsOf(p) /\ About(p, g) }

CreateGroup(g) ==
    /\ g \notin groupRow
    /\ \A u \in Members : groupIds[u][g] = 0
    /\ \A p \in Admins : ~About(p, g)
    /\ groupRow' = groupRow \cup {g}
    /\ UNCHANGED <<groupIds, held, duty, decided, crossed, repeated>>

\* The lists without one mention of g, the lists with one more
Appended(list, g) == [list EXCEPT ![g] = @ + 1]
Removed(list, g) == [list EXCEPT ![g] = @ - 1]

\* GroupMemberListResource.post and GroupMemberResource.delete load the user
ReadList(p, u, g, kind) ==
    /\ duty[p] = NoDuty
    /\ kind = "add" => g \in groupRow /\ groupIds[u][g] < MaxTimes
    /\ kind = "remove" => InGroup(groupIds[u], g)
    /\ duty' = [duty EXCEPT ![p] = [kind |-> kind, user |-> u, group |-> g, list |-> groupIds[u]]]
    /\ Crossing({u}, g)
    /\ UNCHANGED <<groupRow, groupIds, held, decided, repeated>>

\* Whoever is in the group is taken out of all
WriteOnly(p) ==
    LET u == duty[p].user
        g == duty[p].group
    IN  /\ duty[p].kind \in {"add", "remove"}
        /\ groupIds' = [groupIds EXCEPT ![u] =
              IF duty[p].kind = "add" THEN Appended(NoGroups, g) ELSE Removed(duty[p].list, g)]
        /\ decided' = [decided EXCEPT ![u] =
              IF duty[p].kind = "add" THEN @ \cup {g} ELSE @ \ {g}]
        /\ repeated' = IF duty[p].kind = "add" /\ InGroup(duty[p].list, g)
                       THEN repeated \cup {u} ELSE repeated
        /\ duty' = [duty EXCEPT ![p] = NoDuty]
        /\ UNCHANGED <<groupRow, held, crossed>>

\* The whole list is written
WriteList(p) ==
    LET u == duty[p].user
        g == duty[p].group
    IN  /\ duty[p].kind \in {"add", "remove"}
        /\ groupIds' = [groupIds EXCEPT ![u] =
              IF duty[p].kind = "add" THEN Appended(duty[p].list, g) ELSE Removed(duty[p].list, g)]
        /\ decided' = [decided EXCEPT ![u] =
              IF duty[p].kind = "add" THEN @ \cup {g} ELSE @ \ {g}]
        /\ repeated' = IF duty[p].kind = "add" /\ InGroup(duty[p].list, g)
                       THEN repeated \cup {u} ELSE repeated
        /\ duty' = [duty EXCEPT ![p] = NoDuty]
        /\ UNCHANGED <<groupRow, held, crossed>>

(***************************************************************************)
(* The list is replaced by one of groups there are, which repairs what     *)
(* crossing requests have left.                                            *)
(***************************************************************************)
Replace(u, gs) ==
    /\ gs \subseteq groupRow
    /\ groupIds' = [groupIds EXCEPT ![u] = [g \in Groups |-> IF g \in gs THEN 1 ELSE 0]]
    /\ decided' = [decided EXCEPT ![u] = gs]
    /\ repeated' = repeated \ {u}
    /\ crossed' = IF Interfering(u, gs) THEN crossed \cup {u} ELSE crossed \ {u}
    /\ UNCHANGED <<groupRow, held, duty>>

\* UserResource.post, which refuses an empty list
SetGroups(u, gs) == gs # {} /\ Replace(u, gs)

\* Signing in by SAML, with the names of groups: these and the built-in default one
AssignGroups(u, gs) == Replace(u, gs)

\* GroupResource.delete loads the members of the group
ReadMembers(p, g) ==
    /\ duty[p] = NoDuty
    /\ g \in groupRow
    /\ LET members == { u \in Members : InGroup(groupIds[u], g) }
       IN  /\ duty' = [duty EXCEPT ![p] =
                 [kind |-> "deleteGroup", group |-> g, lists |-> [u \in members |-> groupIds[u]]]]
           /\ Crossing(members, g)
    /\ UNCHANGED <<groupRow, groupIds, held, decided, repeated>>

\* The rows that hold data sources for the group stay
LeaveRows(p) ==
    LET g == duty[p].group
    IN  /\ duty[p].kind = "deleteGroup"
        /\ g \in groupRow
        /\ groupRow' = groupRow \ {g}
        /\ decided' = [u \in Members |-> decided[u] \ {g}]
        /\ duty' = [duty EXCEPT ![p] = NoDuty]
        /\ UNCHANGED <<groupIds, held, crossed, repeated>>

\* The group goes with the rows that hold data sources for it, and its members lose one mention
DeleteGroup(p) ==
    LET g == duty[p].group
        lists == duty[p].lists
    IN  /\ duty[p].kind = "deleteGroup"
        /\ g \in groupRow
        /\ groupRow' = groupRow \ {g}
        /\ groupIds' = [u \in Members |->
              IF u \in DOMAIN lists THEN Removed(lists[u], g) ELSE groupIds[u]]
        /\ held' = [x \in DOMAIN held |-> IF x[2] = g THEN 0 ELSE held[x]]
        /\ decided' = [u \in Members |-> decided[u] \ {g}]
        /\ duty' = [duty EXCEPT ![p] = NoDuty]
        /\ UNCHANGED <<crossed, repeated>>
-----------------------------------------------------------------------------
(***************************************************************************)
(* Data sources of groups                                                  *)
(***************************************************************************)
\* A row for viewing and executing; nothing looks for another one
HoldSource(d, g) ==
    /\ g \in groupRow
    /\ held[<<d, g, TRUE>>] + held[<<d, g, FALSE>>] < MaxTimes
    /\ held' = [held EXCEPT ![<<d, g, FALSE>>] = @ + 1]
    /\ UNCHANGED <<groupRow, groupIds, duty, decided, crossed, repeated>>

\* update_group_permission, which wants one row and not two
SetViewOnly(d, g, viewOnly) ==
    /\ held[<<d, g, TRUE>>] + held[<<d, g, FALSE>>] = 1
    /\ held' = [held EXCEPT ![<<d, g, viewOnly>>] = 1, ![<<d, g, ~viewOnly>>] = 0]
    /\ UNCHANGED <<groupRow, groupIds, duty, decided, crossed, repeated>>

\* All rows
ReleaseSource(d, g) ==
    /\ held[<<d, g, TRUE>>] + held[<<d, g, FALSE>>] > 0
    /\ held' = [held EXCEPT ![<<d, g, TRUE>>] = 0, ![<<d, g, FALSE>>] = 0]
    /\ UNCHANGED <<groupRow, groupIds, duty, decided, crossed, repeated>>

\* Some group of the user holds the source
HoldsFor(u, d) == \E g \in Groups, v \in BOOLEAN : InGroup(groupIds[u], g) /\ held[<<d, g, v>>] > 0

(***************************************************************************)
(* has_access_to_groups, for who is no administrator: DataSource.groups    *)
(* has one entry per group, of which of two rows is not said; who is in    *)
(* one group that may do more may do more.                                 *)
(***************************************************************************)
Levels(d) == { level \in [Groups -> {"none", "view", "full"}] :
    \A g \in Groups :
        CASE level[g] = "none" -> held[<<d, g, TRUE>>] = 0 /\ held[<<d, g, FALSE>>] = 0
          [] level[g] = "view" -> held[<<d, g, TRUE>>] > 0
          [] level[g] = "full" -> held[<<d, g, FALSE>>] > 0 }

\* Every group must allow it
AllAllow(u, d, needViewOnly) ==
    \A level \in Levels(d) : \A g \in Groups :
        InGroup(groupIds[u], g) => level[g] \in IF needViewOnly THEN {"view", "full"} ELSE {"full"}

HasAccess(u, d, needViewOnly) ==
    \A level \in Levels(d) : \E g \in Groups :
        /\ InGroup(groupIds[u], g)
        /\ level[g] \in IF needViewOnly THEN {"view", "full"} ELSE {"full"}

-----------------------------------------------------------------------------
(***************************************************************************)
(* Lists                                                                   *)
(***************************************************************************)
\* Query.all_queries, which Query.search filters and limits
AllQueries(u, drafts, archived) ==
    { q \in QueryIds :
        /\ HoldsFor(u, SourceOf[q])
        /\ (q \in Archived) = archived
        /\ drafts \/ q \notin Drafts \/ OwnerOf[q] = u }

\* BaseQueryListResource shows the drafts of others, which the archive does not
QueryList(u) == AllQueries(u, TRUE, FALSE)
QueryArchive(u) == AllQueries(u, FALSE, TRUE)

\* Query.by_user, for the own queries and the recent ones
ByUser(u) == { q \in AllQueries(u, FALSE, FALSE) : OwnerOf[q] = u }

\* EndpointListResource; EndpointDetailsResource shows those of them the user has access to
EndpointList(u) == (AllQueries(u, FALSE, FALSE) \ Drafts) \cap Endpoints

\* Query.favorites, of the queries a user has starred; Query.all_tags counts the same ones
Favorites(u) == QueryList(u)

\* Alert.all; an alert is known by its query, archived or not
AlertList(u) == { q \in QueryIds : HoldsFor(u, SourceOf[q]) }

\* Dashboard.all, for published dashboards of others; a dashboard is known by what it shows
DashboardList(u) ==
    { shown \in SUBSET QueryIds : \E q \in shown : HoldsFor(u, SourceOf[q]) }

\* DataSource.all does not filter for who is in no group
SourceList(u) ==
    IF \E g \in Groups : InGroup(groupIds[u], g)
    THEN { d \in SourceIds : HoldsFor(u, d) } ELSE SourceIds

\* What serialize_dashboard does not hide from u
Visible(u) == { q \in QueryIds : HasAccess(u, SourceOf[q], TRUE) }
-----------------------------------------------------------------------------
\* Postgres refuses, or the process dies
DropDuty(p) ==
    /\ duty[p] # NoDuty
    /\ duty' = [duty EXCEPT ![p] = NoDuty]
    /\ UNCHANGED <<groupRow, groupIds, held, decided, crossed, repeated>>

AccessNext ==
    \/ \E g \in Groups : CreateGroup(g)
    \/ \E p \in Admins :
        \/ \E u \in Members, g \in Groups, kind \in {"add", "remove"} : ReadList(p, u, g, kind)
        \/ \E g \in Groups : ReadMembers(p, g)
        \/ WriteList(p) \/ DeleteGroup(p) \/ DropDuty(p)
    \/ \E d \in SourceIds, g \in Groups :
        \/ HoldSource(d, g) \/ ReleaseSource(d, g)
        \/ \E viewOnly \in BOOLEAN : SetViewOnly(d, g, viewOnly)
    \/ \E u \in Members : \E gs \in SUBSET Groups : SetGroups(u, gs) \/ AssignGroups(u, gs)

AccessSpec == AccessInit /\ [][AccessNext]_accessVars
-----------------------------------------------------------------------------
AccessTypeOK ==
    /\ groupRow \subseteq Groups
    /\ groupIds \in [Members -> [Groups -> 0..MaxTimes]]
    /\ held \in [SourceIds \X Groups \X BOOLEAN -> 0..MaxTimes]
    /\ \A x \in DOMAIN held : held[x] > 0 => x[2] \in groupRow
    /\ decided \in [Members -> SUBSET Groups]
    /\ crossed \cup repeated \subseteq Members

(***************************************************************************)
(* A user is in the groups administrators have decided on, and these       *)
(* exist, unless two requests about the user or the group crossed, one of  *)
(* which is then lost or leaves a group that is gone in the list, or the   *)
(* user was put into a group twice, which one removal does not undo        *)
(* (handlers/groups.py:75-120).                                            *)
(***************************************************************************)
MembershipAsDecided ==
    \A u \in Members \ (crossed \cup repeated) :
        /\ { g \in Groups : InGroup(groupIds[u], g) } = decided[u]
        /\ decided[u] \subseteq groupRow

(***************************************************************************)
(* Whatever a user finds in lists the user may open, and something on      *)
(* every dashboard: the two ask the same tables in different ways, a join  *)
(* and a dictionary of groups (models/queries.py:138, permissions.py:36),  *)
(* also when a source is held twice, for a group that is gone or once for  *)
(* viewing only.  Users who are in no group see all data sources listed.   *)
(***************************************************************************)
ListedIsReadable ==
    \A u \in Members :
        LET visible == Visible(u)
        IN  /\ QueryList(u) \cup QueryArchive(u) \cup ByUser(u) \cup Favorites(u)
                   \cup EndpointList(u) \subseteq visible
            /\ AlertList(u) \subseteq visible
            /\ \A shown \in DashboardList(u) : shown \cap visible # {}
            /\ (\E g \in Groups : InGroup(groupIds[u], g)) =>
                  \A d \in SourceList(u) : HasAccess(u, d, TRUE)
=============================================================================
