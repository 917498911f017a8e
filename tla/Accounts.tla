-------------------------------- MODULE Accounts --------------------------------
(***************************************************************************)
(* What is known of a user in users.details, one JSON column that is       *)
(* always written as a whole: whether the invitation is pending, whether   *)
(* the e-mail address is verified, and the moment of the last visit, which *)
(* a periodic task brings there from Redis.                                *)
(***************************************************************************)
EXTENDS Naturals

CONSTANTS
    Users,
    Handlers,   \* processes that handle requests
    Syncers,    \* threads of the periodic worker that may execute sync_user_details_task
    MaxVisits   \* bound: visits in all

ASSUME VisitsAssumption == MaxVisits \in Nat

VARIABLES
    userRow,     \* the rows of users, with details
    lastActive,  \* the hash users:last_active_at in Redis
    request,     \* what each process has checked and read and will commit
    sync,        \* what each pass of the task has in hand
    visits,      \* number of visits so far: the clock
    lastVisit,   \* history: each user's last visit
    accepted,    \* history: users who have accepted their invitations, but for those the command deleted
    contended,   \* history: users two writers have had in hand at once
    dropped      \* history: users with a visit between hget and hdel, or dropped by a pass that died

accountVars == <<userRow, lastActive, request, sync, visits,
                 lastVisit, accepted, contended, dropped>>

NoVisit == 0
NoUser == [state |-> "none"]
GoneUser == [state |-> "deleted"]
NoRequest == [kind |-> "none"]
NoSync == [phase |-> "idle"]

Details(pending) == [pending |-> pending, active |-> NoVisit]

HasRow(u) == userRow[u] \notin {NoUser, GoneUser}

AccountInit ==
    /\ userRow = [u \in Users |-> NoUser]
    /\ lastActive = [u \in Users |-> NoVisit]
    /\ request = [h \in Handlers |-> NoRequest]
    /\ sync = [t \in Syncers |-> NoSync]
    /\ visits = 0
    /\ lastVisit = [u \in Users |-> NoVisit]
    /\ accepted = {}
    /\ contended = {}
    /\ dropped = {}

(***************************************************************************)
(* What writes users.details: an invitation is accepted, by its link, by a *)
(* new password or by an identity provider, or the e-mail address is       *)
(* verified or changed, of which is_email_verified, left out here, tells.  *)
(***************************************************************************)
OwnKinds == {"accept", "verify"}

\* A handler or a pass has read the details of u and not yet written them
Writing(u) ==
    \/ \E h \in Handlers : request[h] # NoRequest /\ request[h].user = u
    \/ \E t \in Syncers : sync[t] # NoSync /\ u \in DOMAIN sync[t].copies
NowContended(u) == contended' = IF Writing(u) THEN contended \cup {u} ELSE contended

\* A pass has updated the row and not yet committed
Locked(u) == \E t \in Syncers : sync[t] # NoSync /\ u \in sync[t].flushed
-----------------------------------------------------------------------------
\* UserListResource.post, with an invitation, or create_and_login_user, without
CreateUser(u, pending) ==
    /\ userRow[u] = NoUser
    /\ userRow' = [userRow EXCEPT ![u] = Details(pending)]
    /\ accepted' = IF pending THEN accepted ELSE accepted \cup {u}
    /\ UNCHANGED <<lastActive, request, sync, visits, lastVisit, contended, dropped>>
-----------------------------------------------------------------------------
(***************************************************************************)
(* Requests that read a row and write it later                             *)
(***************************************************************************)
\* What the user may do as the row is when it is read
Allowed(u, kind) ==
    /\ HasRow(u)
    /\ kind = "accept" => userRow[u].pending

ReadOwn(h, u, kind) ==
    /\ request[h] = NoRequest
    /\ Allowed(u, kind)
    /\ request' = [request EXCEPT ![h] = [kind |-> kind, user |-> u, details |-> userRow[u]]]
    /\ NowContended(u)
    /\ UNCHANGED <<userRow, lastActive, sync, visits, lastVisit, accepted, dropped>>

Changed(details, kind) ==
    IF kind = "accept" THEN [details EXCEPT !.pending = FALSE] ELSE details

CommitOwn(h) ==
    LET u == request[h].user
    IN  /\ request[h].kind \in OwnKinds
        /\ HasRow(u) /\ ~Locked(u)
        /\ userRow' = [userRow EXCEPT ![u] = Changed(request[h].details, request[h].kind)]
        /\ accepted' = IF request[h].kind = "accept" THEN accepted \cup {u} ELSE accepted
        /\ request' = [request EXCEPT ![h] = NoRequest]
        /\ UNCHANGED <<lastActive, sync, visits, lastVisit, contended, dropped>>

\* Any user may be deleted
AskToDeleteAny(h, u) ==
    /\ request[h] = NoRequest
    /\ HasRow(u)
    /\ request' = [request EXCEPT ![h] = [kind |-> "delete", user |-> u]]
    /\ NowContended(u)
    /\ UNCHANGED <<userRow, lastActive, sync, visits, lastVisit, accepted, dropped>>

\* UserResource.delete: administrators delete users whose invitation is pending
AskToDelete(h, u) ==
    /\ request[h] = NoRequest
    /\ HasRow(u) /\ userRow[u].pending
    /\ request' = [request EXCEPT ![h] = [kind |-> "delete", user |-> u]]
    /\ NowContended(u)
    /\ UNCHANGED <<userRow, lastActive, sync, visits, lastVisit, accepted, dropped>>

DeleteUser(h) ==
    LET u == request[h].user
    IN  /\ request[h].kind = "delete"
        /\ HasRow(u) /\ ~Locked(u)
        /\ userRow' = [userRow EXCEPT ![u] = GoneUser]
        /\ request' = [request EXCEPT ![h] = NoRequest]
        /\ UNCHANGED <<lastActive, sync, visits, lastVisit, accepted, contended, dropped>>

\* The command "users delete" asks nobody and deletes any user
CommandDelete(u) ==
    /\ HasRow(u) /\ ~Locked(u)
    /\ userRow' = [userRow EXCEPT ![u] = GoneUser]
    /\ accepted' = accepted \ {u}
    /\ NowContended(u)
    /\ UNCHANGED <<lastActive, request, sync, visits, lastVisit, dropped>>

\* The row is gone, Postgres refuses, or the process dies
DropRequest(h) ==
    /\ request[h] # NoRequest
    /\ request' = [request EXCEPT ![h] = NoRequest]
    /\ UNCHANGED <<userRow, lastActive, sync, visits, lastVisit,
                   accepted, contended, dropped>>
-----------------------------------------------------------------------------
(***************************************************************************)
(* Last visits                                                             *)
(***************************************************************************)
\* A pass has read the moment of u and not yet removed it
BeforeHdel(u) == \E t \in Syncers : sync[t].phase = "read" /\ sync[t].user = u

\* update_user_active_at, at the start of a request in a session or with an API key
Visit(u) ==
    /\ HasRow(u)
    /\ visits < MaxVisits
    /\ visits' = visits + 1
    /\ lastActive' = [lastActive EXCEPT ![u] = visits']
    /\ lastVisit' = [lastVisit EXCEPT ![u] = visits']
    /\ dropped' = IF BeforeHdel(u) THEN dropped \cup {u} ELSE dropped \ {u}
    /\ UNCHANGED <<userRow, request, sync, accepted, contended>>

\* hkeys
BeginSync(t) ==
    /\ sync[t] = NoSync
    /\ LET found == { u \in Users : lastActive[u] # NoVisit }
       IN  /\ found # {}
           /\ sync' = [sync EXCEPT ![t] = [phase |-> "loop", todo |-> found, flushed |-> {},
                                           copies |-> [u \in {} |-> NoVisit]]]
    /\ UNCHANGED <<userRow, lastActive, request, visits, lastVisit,
                   accepted, contended, dropped>>

(***************************************************************************)
(* hget, and the row, if there is one, whose details are changed in the    *)
(* session.  The query flushes the changes before it, which locks rows.    *)
(***************************************************************************)
ReadActive(t, u) ==
    /\ sync[t].phase = "loop"
    /\ u \in sync[t].todo
    /\ lastActive[u] # NoVisit
    /\ \A v \in DOMAIN sync[t].copies : HasRow(v) /\ (Locked(v) => v \in sync[t].flushed)
    /\ LET read == IF HasRow(u)
                   THEN [v \in {u} |-> [userRow[u] EXCEPT !.active = lastActive[u]]]
                   ELSE [v \in {} |-> NoVisit]
           copies == [v \in DOMAIN sync[t].copies \cup DOMAIN read |->
                        IF v \in DOMAIN read THEN read[v] ELSE sync[t].copies[v]]
       IN  sync' = [sync EXCEPT ![t] = [phase |-> "read", user |-> u, todo |-> sync[t].todo \ {u},
                                        flushed |-> DOMAIN sync[t].copies, copies |-> copies]]
    /\ NowContended(u)
    /\ UNCHANGED <<userRow, lastActive, request, visits, lastVisit,
                   accepted, dropped>>

\* hdel, whatever has become of the moment since
RemoveActive(t) ==
    /\ sync[t].phase = "read"
    /\ lastActive' = [lastActive EXCEPT ![sync[t].user] = NoVisit]
    /\ sync' = [sync EXCEPT ![t] = [phase |-> "loop", todo |-> sync[t].todo,
                                    flushed |-> sync[t].flushed, copies |-> sync[t].copies]]
    /\ UNCHANGED <<userRow, request, visits, lastVisit,
                   accepted, contended, dropped>>

\* The details are left as they were found
CommitNothing(t) ==
    /\ sync[t].phase = "loop"
    /\ sync[t].todo = {}
    /\ sync' = [sync EXCEPT ![t] = NoSync]
    /\ UNCHANGED <<userRow, lastActive, request, visits, lastVisit,
                   accepted, contended, dropped>>

\* All rows at once, if they are still there
CommitSync(t) ==
    LET copies == sync[t].copies
    IN  /\ sync[t].phase = "loop"
        /\ sync[t].todo = {}
        /\ \A u \in DOMAIN copies : HasRow(u) /\ (Locked(u) => u \in sync[t].flushed)
        /\ userRow' = [u \in Users |->
              IF u \in DOMAIN copies THEN copies[u] ELSE userRow[u]]
        /\ sync' = [sync EXCEPT ![t] = NoSync]
        /\ UNCHANGED <<lastActive, request, visits, lastVisit,
                       accepted, contended, dropped>>

\* A row or a moment is gone, Postgres or Redis refuses, or the process dies
SyncDies(t) ==
    /\ sync[t] # NoSync
    /\ dropped' = dropped \cup
          (DOMAIN sync[t].copies \ IF sync[t].phase = "read" THEN {sync[t].user} ELSE {})
    /\ sync' = [sync EXCEPT ![t] = NoSync]
    /\ UNCHANGED <<userRow, lastActive, request, visits, lastVisit,
                   accepted, contended>>

AccountNext ==
    \/ \E h \in Handlers :
        \/ CommitOwn(h) \/ DeleteUser(h) \/ DropRequest(h)
        \/ \E u \in Users :
            \/ AskToDelete(h, u)
            \/ \E kind \in OwnKinds : ReadOwn(h, u, kind)
    \/ \E u \in Users, pending \in BOOLEAN : CreateUser(u, pending)
    \/ \E u \in Users : Visit(u) \/ CommandDelete(u)
    \/ \E t \in Syncers :
        \/ BeginSync(t) \/ RemoveActive(t) \/ CommitSync(t) \/ SyncDies(t)
        \/ \E u \in Users : ReadActive(t, u)

AccountSpec == AccountInit /\ [][AccountNext]_accountVars
-----------------------------------------------------------------------------
Moments == 0..MaxVisits

AccountTypeOK ==
    /\ userRow \in [Users -> {NoUser, GoneUser} \cup [pending : BOOLEAN, active : Moments]]
    /\ lastActive \in [Users -> Moments]
    /\ request \in [Handlers ->
          {NoRequest} \cup [kind : {"delete"}, user : Users]
                      \cup [kind : OwnKinds, user : Users,
                            details : [pending : BOOLEAN, active : Moments]]]
    /\ \A t \in Syncers : sync[t] # NoSync =>
          /\ sync[t].phase \in {"loop", "read"}
          /\ sync[t].todo \subseteq Users
          /\ sync[t].flushed \subseteq DOMAIN sync[t].copies
          /\ DOMAIN sync[t].copies \subseteq Users \ sync[t].todo
    /\ visits \in Moments
    /\ lastVisit \in [Users -> Moments]
    /\ accepted \cup contended \cup dropped \subseteq Users

(***************************************************************************)
(* Who has accepted an invitation stays a user, unless the command         *)
(* "users delete" says otherwise, and never has one pending again; unless  *)
(* two requests, or one and the task that syncs the last visits, had the   *)
(* details in hand at once (models/users.py:38, handlers/users.py:316,     *)
(* handlers/authentication.py:86, cli/users.py:206).                       *)
(***************************************************************************)
AcceptedStays ==
    \A u \in accepted \ contended : HasRow(u) /\ ~userRow[u].pending

(***************************************************************************)
(* The moment of a user's last visit is in Redis, in a pass of the task or *)
(* in the database.  It can be lost only between hget and hdel, when a     *)
(* pass dies before its commit, which comes after all hdel, or when the    *)
(* details are overwritten (models/users.py:30-45).                        *)
(***************************************************************************)
VisitsAccountedFor ==
    \A u \in Users \ (contended \cup dropped) : HasRow(u) =>
        \/ lastActive[u] = lastVisit[u]
        \/ userRow[u].active = lastVisit[u]
        \/ \E t \in Syncers :
              sync[t] # NoSync /\ u \in DOMAIN sync[t].copies /\ sync[t].copies[u].active = lastVisit[u]
=============================================================================
