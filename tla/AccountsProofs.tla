--------------------------- MODULE AccountsProofs ---------------------------
(***************************************************************************)
(* Proofs about Accounts and Access, for every number of users, groups and *)
(* data sources, of processes that handle requests and of threads that sync*)
(* the last visits.                                                        *)
(***************************************************************************)
EXTENDS Accounts, Access, TLAPS

-----------------------------------------------------------------------------
(* Accounts *)

DetailsType == [pending : BOOLEAN, active : Moments]

\* h will write the details of u; t will
Asks(h, u) == request[h] # NoRequest /\ request[h].user = u
Copied(t, u) == sync[t].phase \in {"loop", "read"} /\ u \in DOMAIN sync[t].copies
Reads(t, u) == sync[t].phase = "read" /\ sync[t].user = u

\* At most one request or pass has the details of u in hand
Alone(u) ==
    /\ \A h, g \in Handlers : Asks(h, u) /\ Asks(g, u) => h = g
    /\ \A t, s \in Syncers : Copied(t, u) /\ Copied(s, u) => t = s
    /\ \A h \in Handlers, t \in Syncers : ~(Asks(h, u) /\ Copied(t, u))

\* What it has in hand is what the row says, but for the moment of the last visit
UpToDate(u) ==
    /\ \A h \in Handlers : Asks(h, u) =>
          /\ HasRow(u)
          /\ request[h].kind = "delete" => userRow[u].pending
          /\ request[h].kind \in OwnKinds => request[h].details = userRow[u]
    /\ \A t \in Syncers : Copied(t, u) =>
          HasRow(u) /\ sync[t].copies[u].pending = userRow[u].pending

Settled(u) == u \in accepted => HasRow(u) /\ ~userRow[u].pending

\* The moment of the last visit, which hdel removes from Redis, is in the copy by then
VisitKnown(u) ==
    /\ \A t \in Syncers : Reads(t, u) /\ Copied(t, u) =>
          sync[t].copies[u].active = lastVisit[u] /\ lastActive[u] = lastVisit[u]
    /\ \A t \in Syncers : Copied(t, u) =>
          sync[t].copies[u].active = lastVisit[u] \/ lastActive[u] = lastVisit[u]
    /\ HasRow(u) =>
          \/ lastActive[u] = lastVisit[u]
          \/ userRow[u].active = lastVisit[u]
          \/ \E t \in Syncers : Copied(t, u) /\ sync[t].copies[u].active = lastVisit[u]

\* What holds of every user, however requests and passes overlap
Plain(u) ==
    /\ lastActive[u] \in {NoVisit, lastVisit[u]}
    /\ \A t \in Syncers : Reads(t, u) => Copied(t, u) \/ userRow[u] = GoneUser
    /\ userRow[u] = NoUser =>
          /\ lastVisit[u] = NoVisit /\ u \notin accepted
          /\ \A h \in Handlers : ~Asks(h, u)
          /\ \A t \in Syncers : ~Copied(t, u)

SyncTypeOK ==
    /\ sync = [t \in Syncers |-> sync[t]]
    /\ \A t \in Syncers : sync[t] # NoSync =>
          /\ sync[t].phase \in {"loop", "read"}
          /\ sync[t].phase = "read" => sync[t].user \in Users \ sync[t].todo
          /\ sync[t].todo \subseteq Users
          /\ sync[t].flushed \subseteq DOMAIN sync[t].copies
          /\ DOMAIN sync[t].copies \subseteq Users \ sync[t].todo
          /\ \A u \in DOMAIN sync[t].copies : sync[t].copies[u] \in DetailsType

RowTypeOK ==
    /\ userRow \in [Users -> {NoUser, GoneUser} \cup DetailsType]
    /\ lastActive \in [Users -> Moments]
    /\ lastVisit \in [Users -> Moments]
    /\ visits \in Moments
    /\ request \in [Handlers ->
          {NoRequest} \cup [kind : {"delete"}, user : Users]
                      \cup [kind : OwnKinds, user : Users, details : DetailsType]]
    /\ accepted \cup contended \cup dropped \subseteq Users

\* What is said of a user, the more the fewer requests and passes have met over the details
UserInv(u) ==
    /\ Plain(u)
    /\ u \notin contended => Alone(u) /\ UpToDate(u) /\ Settled(u)
    /\ u \notin contended \cup dropped => VisitKnown(u)

AccountInv == RowTypeOK /\ SyncTypeOK /\ \A u \in Users : UserInv(u)
-----------------------------------------------------------------------------
\* Details are a row.
LEMMA DetailsAreRow ==
    ASSUME NEW d \in DetailsType
    PROVE  d # NoUser /\ d # GoneUser
  BY DEF DetailsType, NoUser, GoneUser

LEMMA RowsAreDetails ==
    ASSUME RowTypeOK, NEW u \in Users, HasRow(u)
    PROVE  userRow[u] \in DetailsType
  BY DEF RowTypeOK, HasRow

\* Requests with a kind have a user.
LEMMA RequestsHaveUsers ==
    ASSUME RowTypeOK, NEW h \in Handlers, request[h] # NoRequest
    PROVE  /\ request[h].user \in Users
           /\ request[h].kind \in OwnKinds \cup {"delete"}
           /\ request[h].kind \in OwnKinds => request[h].details \in DetailsType
           /\ Asks(h, request[h].user)
  BY DEF RowTypeOK, Asks, OwnKinds

\* Passes with a phase are no idle ones.
LEMMA PassesAreBusy ==
    ASSUME NEW t \in Syncers, sync[t].phase \in {"loop", "read"}
    PROVE  sync[t] # NoSync
  BY DEF NoSync

(***************************************************************************)
(* A user whose row, moments, requests and copies a step leaves alone.     *)
(***************************************************************************)
LEMMA Untouched ==
    ASSUME NEW u \in Users, UserInv(u),
           UNCHANGED <<userRow[u], lastActive[u], lastVisit[u]>>,
           u \in accepted' <=> u \in accepted,
           contended \subseteq contended',
           u \in dropped => u \in dropped',
           \A h \in Handlers : Asks(h, u)' => Asks(h, u) /\ request'[h] = request[h],
           \A t \in Syncers : Copied(t, u)' <=> Copied(t, u),
           \A t \in Syncers : Copied(t, u) => sync'[t].copies[u] = sync[t].copies[u],
           \A t \in Syncers : Reads(t, u)' => Reads(t, u)
    PROVE  UserInv(u)'
<1>1. Plain(u)'
  BY DEF UserInv, Plain
<1>2. ASSUME u \notin contended' PROVE (Alone(u) /\ UpToDate(u) /\ Settled(u))'
  <2>1. Alone(u) /\ UpToDate(u) /\ Settled(u)
    BY <1>2 DEF UserInv
  <2>2. HasRow(u)' <=> HasRow(u)
    BY DEF HasRow
  <2>3. Alone(u)'
    BY <2>1 DEF Alone
  <2>4. UpToDate(u)'
    BY <2>1, <2>2 DEF UpToDate
  <2> QED
    BY <2>1, <2>2, <2>3, <2>4 DEF Settled
<1>3. ASSUME u \notin contended' \cup dropped' PROVE VisitKnown(u)'
  <2>1. VisitKnown(u)
    BY <1>3 DEF UserInv
  <2>2. HasRow(u)' <=> HasRow(u)
    BY DEF HasRow
  <2> QED
    BY <2>1, <2>2 DEF VisitKnown
<1> QED
  BY <1>1, <1>2, <1>3 DEF UserInv

\* Passes go on as they were, and so do the copies.
LEMMA SyncUntouched ==
    ASSUME UNCHANGED sync
    PROVE  \A u : \A t \in Syncers :
              /\ Copied(t, u)' <=> Copied(t, u)
              /\ sync'[t].copies[u] = sync[t].copies[u]
              /\ Reads(t, u)' <=> Reads(t, u)
  BY DEF Copied, Reads

LEMMA InitAccounts == AccountInit => AccountInv
<1> SUFFICES ASSUME AccountInit PROVE AccountInv
  OBVIOUS
<1>1. RowTypeOK
  BY VisitsAssumption DEF AccountInit, RowTypeOK, NoVisit, Moments
<1>2. SyncTypeOK
  BY DEF AccountInit, SyncTypeOK
<1>3. ASSUME NEW u \in Users PROVE UserInv(u)
  <2>1. \A h \in Handlers : ~Asks(h, u)
    BY DEF AccountInit, Asks
  <2>2. \A t \in Syncers : ~Copied(t, u) /\ ~Reads(t, u)
    BY DEF AccountInit, Copied, Reads, NoSync
  <2>3. u \notin accepted /\ lastActive[u] = lastVisit[u] /\ lastActive[u] = NoVisit
    BY DEF AccountInit
  <2> QED
    BY <2>1, <2>2, <2>3 DEF UserInv, Plain, Alone, UpToDate, Settled, VisitKnown
<1> QED
  BY <1>1, <1>2, <1>3 DEF AccountInv
-----------------------------------------------------------------------------
(* Types *)

\* What a request commits is a row.
LEMMA ChangedType ==
    ASSUME NEW d \in DetailsType, NEW kind \in OwnKinds
    PROVE  Changed(d, kind) \in DetailsType /\ Changed(d, kind).active = d.active
  BY DEF Changed, DetailsType

\* What a pass has in hand after it has read one more user.
LEMMA CopiesAfterRead ==
    ASSUME SyncTypeOK, RowTypeOK, NEW t \in Syncers, NEW u \in Users, ReadActive(t, u)
    PROVE  /\ sync' = [sync EXCEPT ![t] = sync'[t]]
           /\ sync'[t].phase = "read" /\ sync'[t].user = u
           /\ sync'[t].todo = sync[t].todo \ {u}
           /\ sync'[t].flushed = DOMAIN sync[t].copies
           /\ DOMAIN sync'[t].copies = DOMAIN sync[t].copies \cup (IF HasRow(u) THEN {u} ELSE {})
           /\ HasRow(u) => /\ sync'[t].copies[u].pending = userRow[u].pending
                           /\ sync'[t].copies[u].active = lastActive[u]
                           /\ sync'[t].copies[u] \in DetailsType
           /\ u \notin DOMAIN sync[t].copies
           /\ \A v \in DOMAIN sync[t].copies : sync'[t].copies[v] = sync[t].copies[v]
<1> DEFINE read == IF HasRow(u) THEN [v \in {u} |-> [userRow[u] EXCEPT !.active = lastActive[u]]]
                   ELSE [v \in {} |-> NoVisit]
           copies == [v \in DOMAIN sync[t].copies \cup DOMAIN read |->
                        IF v \in DOMAIN read THEN read[v] ELSE sync[t].copies[v]]
<1>1. u \notin DOMAIN sync[t].copies
  BY PassesAreBusy DEF ReadActive, SyncTypeOK
<1>2. sync' = [sync EXCEPT ![t] = [phase |-> "read", user |-> u, todo |-> sync[t].todo \ {u},
                                   flushed |-> DOMAIN sync[t].copies, copies |-> copies]]
  BY DEF ReadActive
<1>3. sync'[t] = [phase |-> "read", user |-> u, todo |-> sync[t].todo \ {u},
                  flushed |-> DOMAIN sync[t].copies, copies |-> copies]
  BY <1>2 DEF SyncTypeOK
<1>4. DOMAIN read = IF HasRow(u) THEN {u} ELSE {}
  OBVIOUS
<1>5. DOMAIN copies = DOMAIN sync[t].copies \cup (IF HasRow(u) THEN {u} ELSE {})
  BY <1>4
<1>6. ASSUME HasRow(u)
      PROVE  /\ copies[u].pending = userRow[u].pending
             /\ copies[u].active = lastActive[u]
             /\ copies[u] \in DetailsType
  <2>1. copies[u] = [userRow[u] EXCEPT !.active = lastActive[u]]
    BY <1>6
  <2>2. userRow[u] \in DetailsType
    BY <1>6, RowsAreDetails
  <2>3. lastActive[u] \in Moments
    BY DEF RowTypeOK
  <2> HIDE DEF copies
  <2> QED
    BY <2>1, <2>2, <2>3 DEF DetailsType
<1>7. \A v \in DOMAIN sync[t].copies : copies[v] = sync[t].copies[v]
  BY <1>1, <1>4
<1> HIDE DEF copies, read
<1>8. /\ sync'[t].phase = "read" /\ sync'[t].user = u
      /\ sync'[t].todo = sync[t].todo \ {u}
      /\ sync'[t].flushed = DOMAIN sync[t].copies
      /\ sync'[t].copies = copies
  BY <1>3
<1>9. sync' = [sync EXCEPT ![t] = sync'[t]]
  BY <1>2, <1>3
<1> QED
  BY <1>1, <1>5, <1>6, <1>7, <1>8, <1>9

LEMMA AccountTypeStep ==
    ASSUME RowTypeOK, SyncTypeOK, [AccountNext]_accountVars
    PROVE  RowTypeOK' /\ SyncTypeOK'
<1>1. CASE UNCHANGED accountVars
  BY <1>1 DEF RowTypeOK, SyncTypeOK, accountVars
<1>2. ASSUME NEW h \in Handlers, CommitOwn(h) PROVE RowTypeOK' /\ SyncTypeOK'
  <2>1. request[h].user \in Users /\ request[h].details \in DetailsType
    BY <1>2, RequestsHaveUsers DEF CommitOwn, OwnKinds, NoRequest
  <2>2. Changed(request[h].details, request[h].kind) \in DetailsType
    BY <1>2, <2>1, ChangedType DEF CommitOwn
  <2> QED
    BY <1>2, <2>1, <2>2 DEF CommitOwn, RowTypeOK, SyncTypeOK
<1>3. ASSUME NEW h \in Handlers, DeleteUser(h) PROVE RowTypeOK' /\ SyncTypeOK'
  <2>1. request[h].user \in Users
    BY <1>3, RequestsHaveUsers DEF DeleteUser, NoRequest
  <2> QED
    BY <1>3, <2>1 DEF DeleteUser, RowTypeOK, SyncTypeOK
<1>4. ASSUME NEW h \in Handlers, DropRequest(h) PROVE RowTypeOK' /\ SyncTypeOK'
  BY <1>4 DEF DropRequest, RowTypeOK, SyncTypeOK
<1>5. ASSUME NEW h \in Handlers, NEW u \in Users, AskToDelete(h, u)
      PROVE  RowTypeOK' /\ SyncTypeOK'
  BY <1>5 DEF AskToDelete, NowContended, RowTypeOK, SyncTypeOK
<1>6. ASSUME NEW h \in Handlers, NEW u \in Users, NEW kind \in OwnKinds, ReadOwn(h, u, kind)
      PROVE  RowTypeOK' /\ SyncTypeOK'
  <2>1. userRow[u] \in DetailsType
    BY <1>6, RowsAreDetails DEF ReadOwn, Allowed
  <2> QED
    BY <1>6, <2>1 DEF ReadOwn, NowContended, RowTypeOK, SyncTypeOK
<1>7. ASSUME NEW u \in Users, NEW pending \in BOOLEAN, CreateUser(u, pending)
      PROVE  RowTypeOK' /\ SyncTypeOK'
  <2>1. Details(pending) \in DetailsType
    BY VisitsAssumption DEF Details, DetailsType, NoVisit, Moments
  <2> QED
    BY <1>7, <2>1 DEF CreateUser, RowTypeOK, SyncTypeOK
<1>8. ASSUME NEW u \in Users, Visit(u) PROVE RowTypeOK' /\ SyncTypeOK'
  <2>1. visits' \in Moments
    BY <1>8, VisitsAssumption DEF Visit, RowTypeOK, Moments
  <2> QED
    BY <1>8, <2>1 DEF Visit, RowTypeOK, SyncTypeOK
<1>9. ASSUME NEW t \in Syncers, BeginSync(t) PROVE RowTypeOK' /\ SyncTypeOK'
  BY <1>9 DEF BeginSync, RowTypeOK, SyncTypeOK
<1>10. ASSUME NEW t \in Syncers, RemoveActive(t) PROVE RowTypeOK' /\ SyncTypeOK'
  <2>1. sync[t].user \in Users /\ sync[t] # NoSync /\ NoVisit \in Moments
    BY <1>10, PassesAreBusy, VisitsAssumption DEF RemoveActive, SyncTypeOK, NoVisit, Moments
  <2> QED
    BY <1>10, <2>1 DEF RemoveActive, RowTypeOK, SyncTypeOK
<1>11. ASSUME NEW t \in Syncers, CommitSync(t) PROVE RowTypeOK' /\ SyncTypeOK'
  <2>1. \A u \in DOMAIN sync[t].copies : sync[t].copies[u] \in DetailsType
    BY <1>11, PassesAreBusy DEF CommitSync, SyncTypeOK
  <2> QED
    BY <1>11, <2>1 DEF CommitSync, RowTypeOK, SyncTypeOK
<1>12. ASSUME NEW t \in Syncers, SyncDies(t) PROVE RowTypeOK' /\ SyncTypeOK'
  BY <1>12 DEF SyncDies, RowTypeOK, SyncTypeOK
<1>13. ASSUME NEW t \in Syncers, NEW u \in Users, ReadActive(t, u)
       PROVE  RowTypeOK' /\ SyncTypeOK'
  <2>1. sync[t] # NoSync
    BY <1>13, PassesAreBusy DEF ReadActive
  <2>2. sync' = [s \in Syncers |-> sync'[s]] /\ \A s \in Syncers \ {t} : sync'[s] = sync[s]
    BY <1>13, CopiesAfterRead DEF SyncTypeOK
  <2>3. /\ sync'[t].phase = "read" /\ sync'[t].user = u
        /\ sync'[t].todo \subseteq Users \ {u}
        /\ sync'[t].flushed \subseteq DOMAIN sync'[t].copies
        /\ DOMAIN sync'[t].copies \subseteq Users \ sync'[t].todo
        /\ \A v \in DOMAIN sync'[t].copies : sync'[t].copies[v] \in DetailsType
    BY <1>13, <2>1, CopiesAfterRead DEF SyncTypeOK
  <2>4. SyncTypeOK'
    BY <2>2, <2>3 DEF SyncTypeOK
  <2> QED
    BY <1>13, <2>4 DEF ReadActive, NowContended, RowTypeOK
<1>14. ASSUME NEW u \in Users, CommandDelete(u) PROVE RowTypeOK' /\ SyncTypeOK'
  BY <1>14 DEF CommandDelete, NowContended, RowTypeOK, SyncTypeOK
<1> QED
  BY <1>1, <1>2, <1>3, <1>4, <1>5, <1>6, <1>7, <1>8, <1>9, <1>10, <1>11, <1>12, <1>13, <1>14
     DEF AccountNext
-----------------------------------------------------------------------------
(* What one step does to one user *)

\* A new request: the first writer of the details has what the row says.
LEMMA AskStep ==
    ASSUME AccountInv, NEW h \in Handlers, NEW u \in Users, NEW x,
           request[h] = NoRequest, HasRow(u),
           request' = [request EXCEPT ![h] = x],
           x # NoRequest, x.user = u,
           x.kind = "delete" => userRow[u].pending,
           x.kind \in OwnKinds => x.details = userRow[u],
           NowContended(u),
           UNCHANGED <<userRow, lastActive, sync, visits, lastVisit, accepted, dropped>>,
           NEW v \in Users
    PROVE  UserInv(v)'
<1>1. UserInv(v) /\ contended \subseteq contended'
  BY DEF AccountInv, NowContended
<1>2. request' = [g \in Handlers |-> IF g = h THEN x ELSE request[g]]
  BY DEF AccountInv, RowTypeOK
<1>3. \A g \in Handlers \ {h} : Asks(g, v)' <=> Asks(g, v)
  BY <1>2 DEF Asks
<1>4. CASE v # u
  <2>1. ~Asks(h, v)'
    BY <1>2, <1>4 DEF Asks
  <2> QED
    BY <1>1, <1>2, <1>3, <2>1, Untouched, SyncUntouched
<1>5. CASE v = u
  <2>1. Plain(v)'
    BY <1>1, <1>5, SyncUntouched DEF UserInv, Plain, HasRow
  <2>2. VisitKnown(v)' <=> VisitKnown(v)
    BY SyncUntouched DEF VisitKnown, HasRow
  <2>3. ASSUME v \notin contended' PROVE (Alone(v) /\ UpToDate(v) /\ Settled(v))'
    <3>1. ~Writing(v)
      BY <1>5, <2>3 DEF NowContended
    <3>2. \A g \in Handlers : ~Asks(g, v)
      BY <3>1 DEF Writing, Asks
    <3>3. \A t \in Syncers : ~Copied(t, v)'
      BY <3>1, PassesAreBusy, SyncUntouched DEF Writing, Copied
    <3>4. \A g \in Handlers : Asks(g, v)' => g = h
      BY <1>3, <3>2
    <3>5. Settled(v)'
      BY <1>1, <2>3 DEF UserInv, Settled, HasRow
    <3>6. HasRow(v)'
      BY <1>5 DEF HasRow
    <3> QED
      BY <1>2, <1>5, <3>3, <3>4, <3>5, <3>6 DEF Alone, UpToDate
  <2> QED
    BY <1>1, <2>1, <2>2, <2>3 DEF UserInv
<1> QED
  BY <1>4, <1>5

\* A request gone, and the row with it or not.
LEMMA RequestGone ==
    ASSUME AccountInv, NEW h \in Handlers, request' = [request EXCEPT ![h] = NoRequest],
           NEW v \in Users
    PROVE  /\ ~Asks(h, v)'
           /\ \A g \in Handlers : Asks(g, v)' => g # h /\ Asks(g, v) /\ request'[g] = request[g]
  BY DEF AccountInv, RowTypeOK, Asks

LEMMA DropRequestStep ==
    ASSUME AccountInv, NEW h \in Handlers, DropRequest(h), NEW v \in Users
    PROVE  UserInv(v)'
  BY RequestGone, Untouched, SyncUntouched DEF AccountInv, DropRequest

\* What an own request commits is what the row said, unless requests have met.
LEMMA CommitOwnStep ==
    ASSUME AccountInv, NEW h \in Handlers, CommitOwn(h), NEW v \in Users
    PROVE  UserInv(v)'
<1>u. PICK u : u = request[h].user
  OBVIOUS
<1>1. /\ u \in Users /\ Asks(h, u) /\ HasRow(u)
      /\ request[h].details \in DetailsType /\ request[h].kind \in OwnKinds
  BY <1>u, RequestsHaveUsers DEF CommitOwn, OwnKinds, NoRequest, AccountInv
<1>2. request' = [request EXCEPT ![h] = NoRequest]
  BY DEF CommitOwn
<1>3. CASE v # u
  <2>1. userRow'[v] = userRow[v] /\ (v \in accepted' <=> v \in accepted)
    BY <1>u, <1>1, <1>3 DEF CommitOwn, AccountInv, RowTypeOK
  <2> QED
    BY <1>2, <2>1, RequestGone, Untouched, SyncUntouched DEF CommitOwn, AccountInv
<1>4. CASE v = u
  <2>1. PICK d \in DetailsType : d = request[h].details
    BY <1>1
  <2>2. userRow'[v] = Changed(d, request[h].kind) /\ userRow'[v] \in DetailsType
    BY <1>u, <1>1, <1>4, <2>1, ChangedType DEF CommitOwn, AccountInv, RowTypeOK
  <2>3. HasRow(v)' /\ userRow'[v] # NoUser
    BY <2>2, DetailsAreRow DEF HasRow
  <2>4. Plain(v)'
    <3>1. \A t \in Syncers : Reads(t, v) => Copied(t, v)
      BY <1>1, <1>4 DEF AccountInv, UserInv, Plain, HasRow
    <3>2. UNCHANGED <<lastActive, lastVisit, sync>>
      BY DEF CommitOwn
    <3> QED
      BY <2>3, <3>1, <3>2, SyncUntouched DEF AccountInv, UserInv, Plain
  <2>5. ASSUME v \notin contended' PROVE (Alone(v) /\ UpToDate(v) /\ Settled(v))'
    <3>1. Alone(v) /\ UpToDate(v) /\ Settled(v) /\ UNCHANGED sync
      BY <2>5 DEF CommitOwn, AccountInv, UserInv
    <3>2. \A g \in Handlers : ~Asks(g, v)'
      BY <1>1, <1>2, <1>4, <3>1, RequestGone DEF Alone
    <3>3. \A t \in Syncers : ~Copied(t, v)'
      BY <1>1, <1>4, <3>1, SyncUntouched DEF Alone
    <3>4. d = userRow[v]
      BY <1>1, <1>4, <2>1, <3>1 DEF UpToDate
    <3>5. request[h].kind = "accept" => ~userRow'[v].pending
      BY <2>1, <2>2 DEF Changed, DetailsType
    <3>6. request[h].kind # "accept" => userRow'[v] = userRow[v]
      BY <2>2, <3>4 DEF Changed
    <3>7. Settled(v)'
      BY <1>u, <2>3, <3>1, <3>5, <3>6 DEF Settled, CommitOwn
    <3> QED
      BY <3>2, <3>3, <3>7 DEF Alone, UpToDate
  <2>6. ASSUME v \notin contended' \cup dropped' PROVE VisitKnown(v)'
    <3>1. VisitKnown(v) /\ UpToDate(v) /\ UNCHANGED <<lastActive, lastVisit, sync>>
      BY <2>6 DEF CommitOwn, AccountInv, UserInv
    <3>2. userRow'[v].active = userRow[v].active
      BY <1>1, <1>4, <2>1, <2>2, <3>1, ChangedType DEF UpToDate
    <3> QED
      BY <1>1, <1>4, <3>1, <3>2, SyncUntouched DEF VisitKnown
  <2> QED
    BY <2>4, <2>5, <2>6 DEF UserInv
<1> QED
  BY <1>3, <1>4

\* Who accepted an invitation has none pending, and so is not deleted, unless requests have met.
LEMMA DeleteUserStep ==
    ASSUME AccountInv, NEW h \in Handlers, DeleteUser(h), NEW v \in Users
    PROVE  UserInv(v)'
<1>u. PICK u : u = request[h].user
  OBVIOUS
<1>1. u \in Users /\ Asks(h, u) /\ HasRow(u) /\ request[h].kind = "delete"
  BY <1>u, RequestsHaveUsers DEF DeleteUser, NoRequest, AccountInv
<1>2. request' = [request EXCEPT ![h] = NoRequest]
  BY DEF DeleteUser
<1>3. CASE v # u
  <2>1. userRow'[v] = userRow[v]
    BY <1>u, <1>1, <1>3 DEF DeleteUser, AccountInv, RowTypeOK
  <2> QED
    BY <1>2, <2>1, RequestGone, Untouched, SyncUntouched DEF DeleteUser, AccountInv
<1>4. CASE v = u
  <2>1. userRow'[v] = GoneUser
    BY <1>u, <1>1, <1>4 DEF DeleteUser, AccountInv, RowTypeOK
  <2>2. ~HasRow(v)' /\ userRow'[v] # NoUser
    BY <2>1 DEF HasRow, NoUser, GoneUser
  <2>3. Plain(v)'
    BY <2>1, <2>2 DEF DeleteUser, AccountInv, UserInv, Plain
  <2>4. ASSUME v \notin contended' PROVE (Alone(v) /\ UpToDate(v) /\ Settled(v))'
    <3>1. Alone(v) /\ UpToDate(v) /\ Settled(v) /\ UNCHANGED <<sync, accepted>>
      BY <2>4 DEF DeleteUser, AccountInv, UserInv
    <3>2. \A g \in Handlers : ~Asks(g, v)'
      BY <1>1, <1>2, <1>4, <3>1, RequestGone DEF Alone
    <3>3. \A t \in Syncers : ~Copied(t, v)'
      BY <1>1, <1>4, <3>1, SyncUntouched DEF Alone
    <3>4. v \notin accepted
      BY <1>1, <1>4, <3>1 DEF UpToDate, Settled
    <3> QED
      BY <3>1, <3>2, <3>3, <3>4 DEF Alone, UpToDate, Settled
  <2>5. ASSUME v \notin contended' \cup dropped' PROVE VisitKnown(v)'
    <3>1. VisitKnown(v) /\ UNCHANGED <<lastActive, lastVisit, sync>>
      BY <2>5 DEF DeleteUser, AccountInv, UserInv
    <3> QED
      BY <2>2, <3>1, SyncUntouched DEF VisitKnown
  <2> QED
    BY <2>3, <2>4, <2>5 DEF UserInv
<1> QED
  BY <1>3, <1>4

\* Whom the command deletes is nobody who has accepted, and in nobody's hand unless that is told.
LEMMA CommandDeleteStep ==
    ASSUME AccountInv, NEW u \in Users, CommandDelete(u), NEW v \in Users
    PROVE  UserInv(v)'
<1>1. UserInv(v) /\ contended \subseteq contended'
  BY DEF AccountInv, CommandDelete, NowContended
<1>2. UNCHANGED <<lastActive, request, sync, visits, lastVisit, dropped>>
  BY DEF CommandDelete
<1>3. \A g \in Handlers : Asks(g, v)' <=> Asks(g, v)
  BY <1>2 DEF Asks
<1>4. CASE v # u
  <2>1. userRow'[v] = userRow[v] /\ (v \in accepted' <=> v \in accepted)
    BY <1>4 DEF CommandDelete, AccountInv, RowTypeOK
  <2> QED
    BY <1>1, <1>2, <1>3, <2>1, Untouched, SyncUntouched
<1>5. CASE v = u
  <2>1. userRow'[v] = GoneUser /\ v \notin accepted'
    BY <1>5 DEF CommandDelete, AccountInv, RowTypeOK
  <2>2. ~HasRow(v)' /\ userRow'[v] # NoUser
    BY <2>1 DEF HasRow, NoUser, GoneUser
  <2>3. Plain(v)'
    BY <2>1, <2>2 DEF CommandDelete, AccountInv, UserInv, Plain
  <2>4. ASSUME v \notin contended' PROVE (Alone(v) /\ UpToDate(v) /\ Settled(v))'
    <3>1. ~Writing(v)
      BY <1>5, <2>4 DEF CommandDelete, NowContended
    <3>2. \A g \in Handlers : ~Asks(g, v)'
      BY <1>3, <3>1 DEF Writing, Asks
    <3>3. \A t \in Syncers : ~Copied(t, v)'
      BY <1>2, <3>1, PassesAreBusy, SyncUntouched DEF Writing, Copied
    <3> QED
      BY <2>1, <3>2, <3>3 DEF Alone, UpToDate, Settled
  <2>5. ASSUME v \notin contended' \cup dropped' PROVE VisitKnown(v)'
    BY <1>1, <1>2, <2>2, <2>5, SyncUntouched DEF UserInv, VisitKnown
  <2> QED
    BY <2>3, <2>4, <2>5 DEF UserInv
<1> QED
  BY <1>4, <1>5

\* Nobody has the details of a new user in hand.
LEMMA CreateUserStep ==
    ASSUME AccountInv, NEW u \in Users, NEW pending \in BOOLEAN, CreateUser(u, pending),
           NEW v \in Users
    PROVE  UserInv(v)'
<1>1. UNCHANGED <<lastActive, request, sync, visits, lastVisit, contended, dropped>>
  BY DEF CreateUser
<1>2. \A g \in Handlers : Asks(g, v)' <=> Asks(g, v)
  BY <1>1 DEF Asks
<1>3. CASE v # u
  <2>1. userRow'[v] = userRow[v] /\ (v \in accepted' <=> v \in accepted)
    BY <1>3 DEF CreateUser, AccountInv, RowTypeOK
  <2> QED
    BY <1>1, <1>2, <2>1, Untouched, SyncUntouched DEF AccountInv
<1>4. CASE v = u
  <2>1. /\ userRow'[v] = Details(pending)
        /\ v \in accepted' => ~pending
    BY <1>4 DEF CreateUser, AccountInv, RowTypeOK, UserInv, Plain
  <2>2. userRow'[v] \in DetailsType /\ userRow'[v].active = NoVisit /\ userRow'[v].pending = pending
    BY <2>1, VisitsAssumption DEF Details, DetailsType, NoVisit, Moments
  <2>3. HasRow(v)' /\ userRow'[v] # NoUser
    BY <2>2, DetailsAreRow DEF HasRow
  <2>4. Plain(v) /\ userRow[v] = NoUser
    BY <1>4 DEF CreateUser, AccountInv, UserInv
  <2>5. \A t \in Syncers : ~Copied(t, v) /\ ~Reads(t, v)
    BY <2>4 DEF Plain, NoUser, GoneUser
  <2>6. Plain(v)'
    BY <1>1, <2>3, <2>4, <2>5, SyncUntouched DEF Plain
  <2>7. (Alone(v) /\ UpToDate(v) /\ Settled(v))'
    <3>1. \A g \in Handlers : ~Asks(g, v)'
      BY <1>2, <2>4 DEF Plain
    <3>2. \A t \in Syncers : ~Copied(t, v)'
      BY <1>1, <2>5, SyncUntouched
    <3> QED
      BY <2>1, <2>2, <2>3, <3>1, <3>2 DEF Alone, UpToDate, Settled
  <2>8. VisitKnown(v)'
    BY <1>1, <2>2, <2>4, <2>5, SyncUntouched DEF VisitKnown, Plain
  <2> QED
    BY <2>6, <2>7, <2>8 DEF UserInv
<1> QED
  BY <1>3, <1>4

\* A visit is in Redis, and only hdel can remove it from there unseen.
LEMMA VisitStep ==
    ASSUME AccountInv, NEW u \in Users, Visit(u), NEW v \in Users
    PROVE  UserInv(v)'
<1>1. UNCHANGED <<userRow, request, sync, accepted, contended>>
  BY DEF Visit
<1>2. \A g \in Handlers : Asks(g, v)' <=> Asks(g, v)
  BY <1>1 DEF Asks
<1>3. CASE v # u
  <2>1. /\ lastActive'[v] = lastActive[v] /\ lastVisit'[v] = lastVisit[v]
        /\ v \in dropped => v \in dropped'
    BY <1>3 DEF Visit, AccountInv, RowTypeOK
  <2> QED
    BY <1>1, <1>2, <2>1, Untouched, SyncUntouched DEF AccountInv
<1>4. CASE v = u
  <2>1. lastActive'[v] = lastVisit'[v] /\ HasRow(v)
    BY <1>4 DEF Visit, AccountInv, RowTypeOK
  <2>2. Plain(v)'
    BY <1>1, <2>1, SyncUntouched DEF AccountInv, UserInv, Plain, HasRow
  <2>3. ASSUME v \notin contended' PROVE (Alone(v) /\ UpToDate(v) /\ Settled(v))'
    <3>1. Alone(v) /\ UpToDate(v) /\ Settled(v)
      BY <1>1, <2>3 DEF AccountInv, UserInv
    <3>2. HasRow(v)' <=> HasRow(v)
      BY <1>1 DEF HasRow
    <3> QED
      BY <1>1, <1>2, <3>1, <3>2, SyncUntouched DEF Alone, UpToDate, Settled
  <2>4. ASSUME v \notin dropped' PROVE VisitKnown(v)'
    <3>1. ~BeforeHdel(v)
      BY <1>4, <2>4 DEF Visit
    <3>2. \A t \in Syncers : ~Reads(t, v)'
      BY <1>1, <3>1, SyncUntouched DEF BeforeHdel, Reads
    <3> QED
      BY <2>1, <3>2 DEF VisitKnown
  <2> QED
    BY <2>2, <2>3, <2>4 DEF UserInv
<1> QED
  BY <1>3, <1>4

\* The other passes, when one has done something.
LEMMA OtherPasses ==
    ASSUME SyncTypeOK, NEW t \in Syncers, NEW x, sync' = [sync EXCEPT ![t] = x], NEW v
    PROVE  /\ sync'[t] = x
           /\ \A s \in Syncers \ {t} :
                 /\ Copied(s, v)' <=> Copied(s, v)
                 /\ sync'[s].copies[v] = sync[s].copies[v]
                 /\ Reads(s, v)' <=> Reads(s, v)
  BY DEF SyncTypeOK, Copied, Reads

LEMMA BeginSyncStep ==
    ASSUME AccountInv, NEW t \in Syncers, BeginSync(t), NEW v \in Users
    PROVE  UserInv(v)'
<1> DEFINE x == [phase |-> "loop", todo |-> { u \in Users : lastActive[u] # NoVisit },
                flushed |-> {}, copies |-> [u \in {} |-> NoVisit]]
<1>1. /\ sync' = [sync EXCEPT ![t] = x]
      /\ x.phase = "loop" /\ x.copies = [u \in {} |-> NoVisit]
  BY DEF BeginSync
<1> HIDE DEF x
<1>2. /\ sync[t] = NoSync /\ sync'[t] = x
      /\ \A s \in Syncers \ {t} :
            /\ Copied(s, v)' <=> Copied(s, v)
            /\ sync'[s].copies[v] = sync[s].copies[v]
            /\ Reads(s, v)' <=> Reads(s, v)
  BY <1>1, OtherPasses DEF BeginSync, AccountInv
<1>3. ~Copied(t, v) /\ ~Copied(t, v)' /\ ~Reads(t, v)'
  BY <1>1, <1>2 DEF Copied, Reads, NoSync
<1>4. \A h \in Handlers : Asks(h, v)' => Asks(h, v) /\ request'[h] = request[h]
  BY DEF BeginSync, Asks
<1>5. \A s \in Syncers :
         /\ Copied(s, v)' <=> Copied(s, v)
         /\ Copied(s, v) => sync'[s].copies[v] = sync[s].copies[v]
         /\ Reads(s, v)' => Reads(s, v)
  BY <1>2, <1>3
<1> QED
  BY <1>4, <1>5, Untouched DEF BeginSync, AccountInv

\* The first writer of the details has what the row says, and the last visit.
LEMMA ReadActiveStep ==
    ASSUME AccountInv, NEW t \in Syncers, NEW u \in Users, ReadActive(t, u), NEW v \in Users
    PROVE  UserInv(v)'
<1>1. /\ UNCHANGED <<userRow, lastActive, request, lastVisit, accepted, dropped>>
      /\ contended \subseteq contended'
      /\ lastActive[u] # NoVisit /\ sync[t].phase = "loop"
  BY DEF ReadActive, NowContended
<1>2. UserInv(v) /\ RowTypeOK /\ SyncTypeOK
  BY DEF AccountInv
<1>3. \A h \in Handlers : Asks(h, v)' <=> Asks(h, v)
  BY <1>1 DEF Asks
<1>4. HasRow(v)' <=> HasRow(v)
  BY <1>1 DEF HasRow
<1>5. \A s \in Syncers \ {t} :
         /\ Copied(s, v)' <=> Copied(s, v)
         /\ sync'[s].copies[v] = sync[s].copies[v]
         /\ Reads(s, v)' <=> Reads(s, v)
  BY <1>2, CopiesAfterRead, OtherPasses
<1>6. CASE v # u
  <2>1. /\ Copied(t, v)' <=> Copied(t, v)
        /\ Copied(t, v) => sync'[t].copies[v] = sync[t].copies[v]
        /\ ~Reads(t, v)'
    BY <1>1, <1>2, <1>6, CopiesAfterRead DEF Copied, Reads
  <2> QED
    BY <1>1, <1>2, <1>3, <1>5, <2>1, Untouched
<1>7. CASE v = u
  <2>1. ~Copied(t, v) /\ (Copied(t, v)' <=> HasRow(v)) /\ Reads(t, v)'
    BY <1>2, <1>7, CopiesAfterRead DEF Copied, Reads
  <2>2. lastActive[v] = lastVisit[v]
    BY <1>1, <1>2, <1>7 DEF UserInv, Plain
  <2>3. userRow[v] # NoUser
    BY <1>1, <1>2, <1>7, <2>2 DEF UserInv, Plain
  <2>4. Plain(v)'
    BY <1>1, <1>2, <1>5, <2>1, <2>2, <2>3 DEF UserInv, Plain, HasRow
  <2>5. HasRow(v) => /\ sync'[t].copies[v].pending = userRow[v].pending
                     /\ sync'[t].copies[v].active = lastVisit[v]
    BY <1>2, <1>7, <2>2, CopiesAfterRead
  <2>6. ASSUME v \notin contended'
        PROVE  (Alone(v) /\ UpToDate(v) /\ Settled(v))' /\ \A s \in Syncers \ {t} : ~Copied(s, v)
    <3>1. ~Writing(v) /\ v \notin contended
      BY <1>7, <2>6 DEF ReadActive, NowContended
    <3>2. \A g \in Handlers : ~Asks(g, v)
      BY <3>1 DEF Writing, Asks
    <3>3. \A s \in Syncers : ~Copied(s, v)
      BY <3>1, PassesAreBusy DEF Writing, Copied
    <3>4. \A g \in Handlers : ~Asks(g, v)'
      BY <1>3, <3>2
    <3>5. \A s \in Syncers : Copied(s, v)' => s = t
      BY <1>5, <3>3
    <3>6. Settled(v)'
      BY <1>1, <1>2, <1>4, <3>1 DEF UserInv, Settled
    <3>7. UpToDate(v)'
      BY <1>1, <1>4, <2>1, <2>5, <3>4, <3>5 DEF UpToDate
    <3> QED
      BY <3>3, <3>4, <3>5, <3>6, <3>7 DEF Alone
  <2>7. ASSUME v \notin contended' \cup dropped' PROVE VisitKnown(v)'
    BY <1>1, <1>5, <2>1, <2>2, <2>5, <2>6, <2>7 DEF VisitKnown
  <2> QED
    BY <2>4, <2>6, <2>7 DEF UserInv
<1> QED
  BY <1>6, <1>7

\* What hdel removes is in the copy.
LEMMA RemoveActiveStep ==
    ASSUME AccountInv, NEW t \in Syncers, RemoveActive(t), NEW v \in Users
    PROVE  UserInv(v)'
<1>u. PICK u : u = sync[t].user
  OBVIOUS
<1>1. UNCHANGED <<userRow, request, lastVisit, accepted, contended, dropped>>
  BY DEF RemoveActive
<1>2. UserInv(v) /\ RowTypeOK /\ SyncTypeOK
  BY DEF AccountInv
<1>3. sync[t].phase = "read" /\ sync[t] # NoSync /\ Reads(t, u) /\ u \in Users
  BY <1>u, <1>2, PassesAreBusy DEF RemoveActive, Reads, SyncTypeOK
<1> DEFINE x == [phase |-> "loop", todo |-> sync[t].todo, flushed |-> sync[t].flushed,
                copies |-> sync[t].copies]
<1>4. /\ sync' = [sync EXCEPT ![t] = x]
      /\ x.phase = "loop" /\ x.copies = sync[t].copies
  BY DEF RemoveActive
<1> HIDE DEF x
<1>5. /\ sync'[t] = x
      /\ \A s \in Syncers \ {t} :
            /\ Copied(s, v)' <=> Copied(s, v)
            /\ sync'[s].copies[v] = sync[s].copies[v]
            /\ Reads(s, v)' <=> Reads(s, v)
  BY <1>2, <1>4, OtherPasses
<1>6. /\ Copied(t, v)' <=> Copied(t, v)
      /\ sync'[t].copies[v] = sync[t].copies[v]
      /\ ~Reads(t, v)'
  BY <1>3, <1>4, <1>5 DEF Copied, Reads
<1>7. \A s \in Syncers :
         /\ Copied(s, v)' <=> Copied(s, v)
         /\ sync'[s].copies[v] = sync[s].copies[v]
         /\ Reads(s, v)' => Reads(s, v) /\ s # t
  BY <1>5, <1>6
<1>8. \A h \in Handlers : Asks(h, v)' <=> Asks(h, v)
  BY <1>1 DEF Asks
<1>9. HasRow(v)' <=> HasRow(v)
  BY <1>1 DEF HasRow
<1>10. CASE v # u
  <2>1. lastActive'[v] = lastActive[v]
    BY <1>u, <1>2, <1>10 DEF RemoveActive, RowTypeOK
  <2> QED
    BY <1>1, <1>2, <1>7, <1>8, <2>1, Untouched
<1>11. CASE v = u
  <2>1. lastActive'[v] = NoVisit
    BY <1>u, <1>2, <1>11 DEF RemoveActive, RowTypeOK
  <2>2. Plain(v)'
    BY <1>1, <1>2, <1>7, <1>8, <2>1 DEF UserInv, Plain
  <2>3. ASSUME v \notin contended' PROVE (Alone(v) /\ UpToDate(v) /\ Settled(v))'
    BY <1>1, <1>2, <1>7, <1>8, <1>9, <2>3 DEF UserInv, Alone, UpToDate, Settled
  <2>4. ASSUME v \notin contended' \cup dropped' PROVE VisitKnown(v)'
    <3>1. Alone(v) /\ UpToDate(v) /\ VisitKnown(v) /\ Plain(v)
      BY <1>1, <1>2, <2>4 DEF UserInv
    <3>2. HasRow(v) => Copied(t, v) /\ sync[t].copies[v].active = lastVisit[v]
      BY <1>3, <1>11, <3>1 DEF Plain, VisitKnown, HasRow
    <3>3. \A s \in Syncers : Copied(s, v) => HasRow(v) /\ s = t
      BY <3>1, <3>2 DEF Alone, UpToDate
    <3> QED
      BY <1>1, <1>7, <1>9, <3>2, <3>3 DEF VisitKnown
  <2> QED
    BY <2>2, <2>3, <2>4 DEF UserInv
<1> QED
  BY <1>10, <1>11

\* A pass that is over has nothing in hand any more.
LEMMA PassOver ==
    ASSUME AccountInv, NEW t \in Syncers, sync' = [sync EXCEPT ![t] = NoSync], NEW v
    PROVE  \A s \in Syncers :
              /\ Copied(s, v)' <=> Copied(s, v) /\ s # t
              /\ Reads(s, v)' <=> Reads(s, v) /\ s # t
              /\ s # t => sync'[s].copies[v] = sync[s].copies[v]
<1>1. /\ sync'[t] = NoSync
      /\ \A s \in Syncers \ {t} :
            /\ Copied(s, v)' <=> Copied(s, v)
            /\ sync'[s].copies[v] = sync[s].copies[v]
            /\ Reads(s, v)' <=> Reads(s, v)
  BY OtherPasses DEF AccountInv
<1>2. ~Copied(t, v)' /\ ~Reads(t, v)'
  BY <1>1 DEF Copied, Reads, NoSync
<1> QED
  BY <1>1, <1>2

\* All rows of a pass get what it has read of them, with the last visits.
LEMMA CommitSyncStep ==
    ASSUME AccountInv, NEW t \in Syncers, CommitSync(t), NEW v \in Users
    PROVE  UserInv(v)'
<1>1. UNCHANGED <<lastActive, request, lastVisit, accepted, contended, dropped>>
  BY DEF CommitSync
<1>2. UserInv(v) /\ RowTypeOK /\ SyncTypeOK
  BY DEF AccountInv
<1>3. \A s \in Syncers :
         /\ Copied(s, v)' <=> Copied(s, v) /\ s # t
         /\ Reads(s, v)' <=> Reads(s, v) /\ s # t
         /\ s # t => sync'[s].copies[v] = sync[s].copies[v]
  BY PassOver DEF CommitSync
<1>4. \A h \in Handlers : Asks(h, v)' <=> Asks(h, v)
  BY <1>1 DEF Asks
<1>5. CASE ~Copied(t, v)
  <2>1. userRow'[v] = userRow[v]
    BY <1>5 DEF CommitSync, Copied
  <2> QED
    BY <1>1, <1>2, <1>3, <1>4, <1>5, <2>1, Untouched
<1>6. CASE Copied(t, v)
  <2>1. PICK d : d = sync[t].copies[v]
    OBVIOUS
  <2>2. userRow'[v] = d /\ d \in DetailsType /\ HasRow(v)
    BY <1>2, <1>6, <2>1, PassesAreBusy DEF CommitSync, Copied, SyncTypeOK
  <2>3. HasRow(v)' /\ userRow'[v] # NoUser
    BY <2>2, DetailsAreRow DEF HasRow
  <2>4. Plain(v)'
    BY <1>1, <1>2, <1>3, <2>2, <2>3 DEF UserInv, Plain, HasRow
  <2>5. ASSUME v \notin contended'
        PROVE  (Alone(v) /\ UpToDate(v) /\ Settled(v))' /\ \A s \in Syncers : ~Copied(s, v)'
    <3>1. Alone(v) /\ UpToDate(v) /\ Settled(v)
      BY <1>1, <1>2, <2>5 DEF UserInv
    <3>2. \A g \in Handlers : ~Asks(g, v)'
      BY <1>4, <1>6, <3>1 DEF Alone
    <3>3. \A s \in Syncers : ~Copied(s, v)'
      BY <1>3, <1>6, <3>1 DEF Alone
    <3>4. d.pending = userRow[v].pending
      BY <1>6, <2>1, <3>1 DEF UpToDate
    <3> QED
      BY <1>1, <2>2, <2>3, <3>1, <3>2, <3>3, <3>4 DEF Alone, UpToDate, Settled
  <2>6. ASSUME v \notin contended' \cup dropped' PROVE VisitKnown(v)'
    <3>1. d.active = lastVisit[v] \/ lastActive[v] = lastVisit[v]
      BY <1>1, <1>2, <1>6, <2>1, <2>6 DEF UserInv, VisitKnown
    <3> QED
      BY <1>1, <2>2, <2>5, <2>6, <3>1 DEF VisitKnown
  <2> QED
    BY <2>4, <2>5, <2>6 DEF UserInv
<1> QED
  BY <1>5, <1>6

\* A pass that dies before hdel loses no visit.
LEMMA SyncDiesStep ==
    ASSUME AccountInv, NEW t \in Syncers, SyncDies(t), NEW v \in Users
    PROVE  UserInv(v)'
<1>1. UNCHANGED <<userRow, lastActive, request, lastVisit, accepted, contended>>
  BY DEF SyncDies
<1>2. UserInv(v) /\ RowTypeOK /\ SyncTypeOK
  BY DEF AccountInv
<1>3. \A s \in Syncers :
         /\ Copied(s, v)' <=> Copied(s, v) /\ s # t
         /\ Reads(s, v)' <=> Reads(s, v) /\ s # t
         /\ s # t => sync'[s].copies[v] = sync[s].copies[v]
  BY PassOver DEF SyncDies
<1>4. \A h \in Handlers : Asks(h, v)' <=> Asks(h, v)
  BY <1>1 DEF Asks
<1>5. HasRow(v)' <=> HasRow(v)
  BY <1>1 DEF HasRow
<1>6. dropped \subseteq dropped'
  BY DEF SyncDies
<1>7. Plain(v)'
  BY <1>1, <1>2, <1>3, <1>4 DEF UserInv, Plain
<1>8. ASSUME v \notin contended' PROVE (Alone(v) /\ UpToDate(v) /\ Settled(v))'
  BY <1>1, <1>2, <1>3, <1>4, <1>5, <1>8 DEF UserInv, Alone, UpToDate, Settled
<1>9. ASSUME v \notin contended' \cup dropped' PROVE VisitKnown(v)'
  <2>1. VisitKnown(v)
    BY <1>1, <1>2, <1>6, <1>9 DEF UserInv
  <2>2. Copied(t, v) => Reads(t, v)
    BY <1>9 DEF SyncDies, Copied, Reads
  <2>3. Copied(t, v) => lastActive[v] = lastVisit[v]
    BY <2>1, <2>2 DEF VisitKnown
  <2> QED
    BY <1>1, <1>3, <1>5, <2>1, <2>3 DEF VisitKnown
<1> QED
  BY <1>7, <1>8, <1>9 DEF UserInv
-----------------------------------------------------------------------------
LEMMA AccountStep == AccountInv /\ [AccountNext]_accountVars => AccountInv'
<1> SUFFICES ASSUME AccountInv, [AccountNext]_accountVars PROVE AccountInv'
  OBVIOUS
<1>1. RowTypeOK' /\ SyncTypeOK'
  BY AccountTypeStep DEF AccountInv
<1>2. ASSUME NEW v \in Users PROVE UserInv(v)'
  <2>1. CASE UNCHANGED accountVars
    <3>1. \A h \in Handlers : Asks(h, v)' <=> Asks(h, v)
      BY <2>1 DEF accountVars, Asks
    <3> QED
      BY <2>1, <3>1, SyncUntouched, Untouched DEF accountVars, AccountInv
  <2>2. ASSUME NEW h \in Handlers, NEW u \in Users, AskToDelete(h, u) PROVE UserInv(v)'
    <3> DEFINE x == [kind |-> "delete", user |-> u]
    <3>1. /\ request' = [request EXCEPT ![h] = x]
          /\ x # NoRequest /\ x.user = u /\ x.kind = "delete" /\ x.kind \notin OwnKinds
      BY <2>2 DEF AskToDelete, NoRequest, OwnKinds
    <3> HIDE DEF x
    <3> QED
      BY <2>2, <3>1, AskStep DEF AskToDelete
  <2>3. ASSUME NEW h \in Handlers, NEW u \in Users, NEW kind \in OwnKinds, ReadOwn(h, u, kind)
        PROVE  UserInv(v)'
    <3> DEFINE x == [kind |-> kind, user |-> u, details |-> userRow[u]]
    <3>1. /\ request' = [request EXCEPT ![h] = x]
          /\ x # NoRequest /\ x.user = u /\ x.kind # "delete" /\ x.details = userRow[u]
      BY <2>3 DEF ReadOwn, NoRequest, OwnKinds
    <3> HIDE DEF x
    <3> QED
      BY <2>3, <3>1, AskStep DEF ReadOwn, Allowed
  <2> QED
    BY <2>1, <2>2, <2>3, CommitOwnStep, DeleteUserStep, CommandDeleteStep, DropRequestStep,
       CreateUserStep, VisitStep, BeginSyncStep, RemoveActiveStep, CommitSyncStep, SyncDiesStep, ReadActiveStep
       DEF AccountNext
<1> QED
  BY <1>1, <1>2 DEF AccountInv

\* The invariant is inductive.
LEMMA AccountInvariant == AccountSpec => []AccountInv
  BY InitAccounts, AccountStep, PTL DEF AccountSpec

(***************************************************************************)
(* Rows, moments and what requests and passes have in hand keep their      *)
(* types; a pass has flushed only rows it has read.                        *)
(***************************************************************************)
THEOREM AccountTypeCorrect == AccountSpec => []AccountTypeOK
<1>1. AccountInv => AccountTypeOK
  BY DEF AccountInv, RowTypeOK, SyncTypeOK, DetailsType, AccountTypeOK
<1> QED
  BY <1>1, AccountInvariant, PTL

(***************************************************************************)
(* Who has accepted an invitation stays a user without a pending one until *)
(* the command "users delete" is given (cli/users.py:206), for any number  *)
(* of requests and passes that write users.details as a whole, as long as  *)
(* no two have those of one user in hand (models/users.py:38).             *)
(***************************************************************************)
THEOREM AcceptedUsersStay == AccountSpec => []AcceptedStays
<1>1. AccountInv => AcceptedStays
  BY DEF AccountInv, RowTypeOK, UserInv, Settled, AcceptedStays
<1> QED
  BY <1>1, AccountInvariant, PTL

(***************************************************************************)
(* The last visit of a user is in Redis, in a pass or in the row: only a   *)
(* visit between hget and hdel, a pass that dies after hdel, or two        *)
(* writers of the details lose it (models/users.py:30-45).                 *)
(***************************************************************************)
THEOREM NoVisitLost == AccountSpec => []VisitsAccountedFor
<1>1. AccountInv => VisitsAccountedFor
  BY DEF AccountInv, UserInv, VisitKnown, VisitsAccountedFor, Copied, NoSync
<1> QED
  BY <1>1, AccountInvariant, PTL
-----------------------------------------------------------------------------
(* Access: the groups of users *)

\* How often a list may mention a group
Lists == [Groups -> 0..MaxTimes]

DutyTypeOK ==
    /\ duty = [p \in Admins |-> duty[p]]
    /\ \A p \in Admins :
        /\ duty[p].kind \in {"add", "remove"} =>
              /\ duty[p].user \in Members /\ duty[p].group \in Groups
              /\ duty[p].list \in Lists
              /\ duty[p].kind = "add" => duty[p].list[duty[p].group] < MaxTimes
              /\ duty[p].kind = "remove" => InGroup(duty[p].list, duty[p].group)
        /\ duty[p].kind = "deleteGroup" =>
              /\ duty[p].group \in Groups
              /\ DOMAIN duty[p].lists \subseteq Members
              /\ \A u \in DOMAIN duty[p].lists :
                    duty[p].lists[u] \in Lists /\ InGroup(duty[p].lists[u], duty[p].group)

\* The list of u as p has read it
ListOf(p, u) == IF duty[p].kind = "deleteGroup" THEN duty[p].lists[u] ELSE duty[p].list

\* One request at most has the list of u, as it is, and no other is about its group
Uncrossed(u) ==
    /\ \A p, q \in Admins : u \in ListsOf(p) /\ u \in ListsOf(q) => p = q
    /\ \A p \in Admins : u \in ListsOf(p) => ListOf(p, u) = groupIds[u]
    /\ \A p, q \in Admins : u \in ListsOf(p) /\ About(q, duty[p].group) => p = q
    /\ \A p \in Admins : u \in ListsOf(p) /\ duty[p].kind = "add" => duty[p].group \in groupRow
    /\ \A p \in Admins :
          duty[p].kind = "deleteGroup" /\ InGroup(groupIds[u], duty[p].group) => u \in ListsOf(p)

\* Each group that was decided on is mentioned once
Decided(u) ==
    /\ \A g \in Groups : groupIds[u][g] = IF g \in decided[u] THEN 1 ELSE 0
    /\ decided[u] \subseteq groupRow

MemberInv(u) == u \notin crossed => Uncrossed(u) /\ (u \notin repeated => Decided(u))

AccessInv == AccessTypeOK /\ DutyTypeOK /\ \A u \in Members : MemberInv(u)

-----------------------------------------------------------------------------
\* The invariant in the state before a step
Held == AccessInv /\ QueriesAssumption

(* Nobody is a member of anything at first. *)
LEMMA AccessInvInit == QueriesAssumption /\ AccessInit => AccessInv
  <1> SUFFICES ASSUME QueriesAssumption, AccessInit PROVE AccessInv
    OBVIOUS
  <1>1. AccessTypeOK
    <2>1. \A x \in SourceIds \X Groups \X BOOLEAN : held[x] = 0
      BY DEF AccessInit
    <2> QED BY <2>1 DEF AccessTypeOK, AccessInit, NoGroups, QueriesAssumption
  <1>2. DutyTypeOK
    BY DEF AccessInit, DutyTypeOK, NoDuty
  <1>3. ASSUME NEW u \in Members PROVE MemberInv(u)
    BY DEF AccessInit, MemberInv, Uncrossed, Decided, NoDuty, NoGroups, ListsOf, About, InGroup
  <1> QED BY <1>1, <1>2, <1>3 DEF AccessInv

(* A group is created when no list names it and no request is about it. *)
LEMMA CreateGroupKeeps ==
    ASSUME Held, NEW g \in Groups, CreateGroup(g) PROVE AccessInv'
  <1> USE DEF Held, AccessInv, CreateGroup
  <1>1. AccessTypeOK'
    BY DEF AccessTypeOK
  <1>2. DutyTypeOK'
    BY DEF DutyTypeOK, Lists, InGroup
  <1>3. ASSUME NEW v \in Members PROVE MemberInv(v)'
    BY DEF MemberInv, Uncrossed, Decided, ListOf, ListsOf, About, InGroup
  <1> QED BY <1>1, <1>2, <1>3

(* A request that reads the list of a user crosses those that have read    *)
(* it or are about the group.                                              *)
LEMMA ReadListKeeps ==
    ASSUME Held, NEW p \in Admins, NEW u \in Members, NEW g \in Groups,
           NEW kind \in {"add", "remove"}, ReadList(p, u, g, kind)
    PROVE  AccessInv'
  <1> USE DEF Held, AccessInv
  <1> DEFINE mine == [kind |-> kind, user |-> u, group |-> g, list |-> groupIds[u]]
  <1>1. duty' = [duty EXCEPT ![p] = mine] /\ duty[p] = NoDuty
    BY DEF ReadList
  <1>2. /\ mine.kind = kind /\ mine.user = u /\ mine.group = g /\ mine.list = groupIds[u]
        /\ duty[p].kind = "none"
    BY <1>1 DEF NoDuty
  <1> HIDE DEF mine
  <1>3. duty'[p] = mine /\ \A q \in Admins \ {p} : duty'[q] = duty[q]
    BY <1>1 DEF DutyTypeOK
  <1>4. AccessTypeOK'
    BY DEF AccessTypeOK, ReadList, Crossing
  <1>5. DutyTypeOK'
    <2>1. duty' = [q \in Admins |-> duty'[q]]
      BY <1>1 DEF DutyTypeOK
    <2>2. /\ groupIds[u] \in Lists
          /\ kind = "add" => groupIds[u][g] < MaxTimes
          /\ kind = "remove" => InGroup(groupIds[u], g)
      BY DEF ReadList, AccessTypeOK, Lists
    <2> QED BY <1>2, <1>3, <2>1, <2>2 DEF DutyTypeOK, InGroup
  <1>6. ASSUME NEW v \in Members, v \notin crossed' PROVE Uncrossed(v)'
    <2>1. v \notin crossed /\ Uncrossed(v)
      BY <1>6 DEF ReadList, Crossing, MemberInv
    <2>2. CASE v = u
      <3>1. \A q \in Admins : u \notin ListsOf(q) /\ ~About(q, g)
        BY <1>6, <2>2 DEF ReadList, Crossing, Interfering
      <3>2. \A q \in Admins : u \in ListsOf(q)' => q = p
        BY <1>3, <3>1 DEF ListsOf
      <3>3. \A q \in Admins : About(q, g)' => q = p
        BY <1>3, <3>1 DEF About
      <3>4. ListOf(p, u)' = groupIds[u]
        BY <1>2, <1>3 DEF ListOf
      <3>5. kind = "add" => g \in groupRow
        BY DEF ReadList
      <3>6. \A q \in Admins : duty'[q].kind = "deleteGroup" => q # p
        BY <1>2, <1>3
      <3>7. groupIds' = groupIds /\ groupRow' = groupRow
        BY DEF ReadList
      <3> QED BY <1>2, <1>3, <2>1, <2>2, <3>1, <3>2, <3>3, <3>4, <3>5, <3>6, <3>7
              DEF Uncrossed
    <2>3. CASE v # u
      <3>1. \A q \in Admins : v \in ListsOf(q)' => q # p /\ v \in ListsOf(q)
        BY <1>2, <1>3, <2>3 DEF ListsOf
      <3>2. \A q \in Admins : v \in ListsOf(q) => ~About(q, g)
        BY <1>6 DEF ReadList, Crossing
      <3>3. \A q \in Admins : v \in ListsOf(q) => duty[q].group # g
        BY <3>2 DEF ListsOf, About
      <3>4. \A q \in Admins, h \in {duty[r].group : r \in Admins} :
               h # g /\ About(q, h)' => About(q, h)
        BY <1>2, <1>3 DEF About
      <3>5. \A q \in Admins : duty'[q].kind = "deleteGroup" => q # p /\ ListsOf(q)' = ListsOf(q)
        BY <1>2, <1>3 DEF ListsOf
      <3>6. \A q \in Admins : v \in ListsOf(q)' => ListOf(q, v)' = ListOf(q, v)
        BY <1>3, <3>1 DEF ListOf
      <3>7. groupIds' = groupIds /\ groupRow' = groupRow
        BY DEF ReadList
      <3> QED BY <1>3, <2>1, <3>1, <3>3, <3>4, <3>5, <3>6, <3>7 DEF Uncrossed
    <2> QED BY <2>2, <2>3
  <1>7. ASSUME NEW v \in Members PROVE MemberInv(v)'
    BY <1>6 DEF MemberInv, ReadList, Crossing, Decided
  <1> QED BY <1>4, <1>5, <1>7

(* Whoever replaces a list sees whether another request has it or is about *)
(* one of its new groups.                                                  *)
LEMMA ReplaceKeeps ==
    ASSUME Held, NEW u \in Members, NEW gs \in SUBSET Groups, Replace(u, gs)
    PROVE  AccessInv'
  <1> USE DEF Held, AccessInv
  <1> DEFINE new == [g \in Groups |-> IF g \in gs THEN 1 ELSE 0]
  <1>1. groupIds' = [groupIds EXCEPT ![u] = new] /\ new \in Lists
    BY DEF Replace, Lists, QueriesAssumption
  <1>2. \A g \in Groups : new[g] = IF g \in gs THEN 1 ELSE 0
    OBVIOUS
  <1> HIDE DEF new
  <1>3. /\ groupIds'[u] = new
        /\ \A v \in Members \ {u} : groupIds'[v] = groupIds[v]
        /\ decided'[u] = gs
        /\ \A v \in Members \ {u} : decided'[v] = decided[v]
    BY <1>1 DEF Replace, AccessTypeOK
  <1>4. AccessTypeOK'
    BY <1>1 DEF AccessTypeOK, Replace, Lists
  <1>5. DutyTypeOK'
    BY DEF DutyTypeOK, Replace, InGroup
  <1>6. ASSUME NEW v \in Members PROVE MemberInv(v)'
    <2>1. CASE v = u
      <3>1. CASE Interfering(u, gs)
        BY <2>1, <3>1 DEF Replace, MemberInv
      <3>2. CASE ~Interfering(u, gs)
        <4>1. \A q \in Admins : u \notin ListsOf(q) /\ \A g \in gs : ~About(q, g)
          BY <3>2 DEF Interfering
        <4>2. \A q \in Admins : duty[q].kind = "deleteGroup" =>
                  duty[q].group \in Groups /\ duty[q].group \notin gs
          BY <4>1 DEF About, DutyTypeOK
        <4>3. Uncrossed(u)'
          BY <1>2, <1>3, <4>1, <4>2 DEF Uncrossed, ListsOf, InGroup, Replace
        <4>4. Decided(u)'
          BY <1>2, <1>3 DEF Decided, Replace
        <4> QED BY <2>1, <4>3, <4>4 DEF MemberInv
      <3> QED BY <3>1, <3>2
    <2>2. CASE v # u
      BY <1>3, <2>2 DEF Replace, MemberInv, Uncrossed, Decided, ListOf, ListsOf, About
    <2> QED BY <2>1, <2>2
  <1> QED BY <1>4, <1>5, <1>6

(* A group that is to be deleted crosses the requests about it. *)
LEMMA ReadMembersKeeps ==
    ASSUME Held, NEW p \in Admins, NEW g \in Groups, ReadMembers(p, g)
    PROVE  AccessInv'
  <1> USE DEF Held, AccessInv
  <1> DEFINE members == { u \in Members : InGroup(groupIds[u], g) }
             mine == [kind |-> "deleteGroup", group |-> g,
                      lists |-> [u \in members |-> groupIds[u]]]
  <1>1. duty' = [duty EXCEPT ![p] = mine] /\ duty[p] = NoDuty
    BY DEF ReadMembers
  <1>2. /\ mine.kind = "deleteGroup" /\ mine.group = g
        /\ DOMAIN mine.lists = members /\ \A u \in members : mine.lists[u] = groupIds[u]
        /\ duty[p].kind = "none"
    BY <1>1 DEF NoDuty
  <1> HIDE DEF mine
  <1>3. duty'[p] = mine /\ \A q \in Admins \ {p} : duty'[q] = duty[q]
    BY <1>1 DEF DutyTypeOK
  <1>4. AccessTypeOK'
    BY DEF AccessTypeOK, ReadMembers, Crossing
  <1>5. DutyTypeOK'
    <2>1. duty' = [q \in Admins |-> duty'[q]]
      BY <1>1 DEF DutyTypeOK
    <2>2. \A u \in members : groupIds[u] \in Lists
      BY DEF AccessTypeOK, Lists
    <2> QED BY <1>2, <1>3, <2>1, <2>2 DEF DutyTypeOK
  <1>6. ASSUME NEW v \in Members, v \notin crossed' PROVE Uncrossed(v)'
    <2>1. v \notin crossed /\ Uncrossed(v)
      BY <1>6 DEF ReadMembers, Crossing, MemberInv
    <2>2. groupIds' = groupIds /\ groupRow' = groupRow
      BY DEF ReadMembers
    <2>3. CASE v \in members
      <3>1. \A q \in Admins : v \notin ListsOf(q) /\ ~About(q, g)
        BY <1>6, <2>3 DEF ReadMembers, Crossing, Interfering
      <3>2. \A q \in Admins : v \in ListsOf(q)' => q = p
        BY <1>3, <3>1 DEF ListsOf
      <3>3. \A q \in Admins : About(q, g)' => q = p
        BY <1>3, <3>1 DEF About
      <3>4. ListOf(p, v)' = groupIds[v] /\ v \in ListsOf(p)'
        BY <1>2, <1>3, <2>3 DEF ListOf, ListsOf
      <3> QED BY <1>2, <1>3, <2>1, <2>2, <3>1, <3>2, <3>3, <3>4 DEF Uncrossed
    <2>4. CASE v \notin members
      <3>1. \A q \in Admins : v \in ListsOf(q)' => q # p /\ v \in ListsOf(q)
        BY <1>2, <1>3, <2>4 DEF ListsOf
      <3>2. \A q \in Admins : v \in ListsOf(q) => duty[q].group # g
        BY <1>6 DEF ReadMembers, Crossing, ListsOf, About
      <3>3. \A q \in Admins, h \in {duty[r].group : r \in Admins} :
               h # g /\ About(q, h)' => About(q, h)
        BY <1>2, <1>3 DEF About
      <3>4. \A q \in Admins \ {p} : ListsOf(q)' = ListsOf(q) /\ ListOf(q, v)' = ListOf(q, v)
        BY <1>3 DEF ListsOf, ListOf
      <3>5. ~InGroup(groupIds[v], g)
        BY <2>4
      <3> QED BY <1>2, <1>3, <2>1, <2>2, <3>1, <3>2, <3>3, <3>4, <3>5 DEF Uncrossed
    <2> QED BY <2>3, <2>4
  <1>7. ASSUME NEW v \in Members PROVE MemberInv(v)'
    BY <1>6 DEF MemberInv, ReadMembers, Crossing, Decided
  <1> QED BY <1>4, <1>5, <1>7

(* A request ends: no list is crossed by that. *)
LEMMA DropDutyKeeps ==
    ASSUME Held, NEW p \in Admins, DropDuty(p) PROVE AccessInv'
  <1> USE DEF Held, AccessInv
  <1>1. duty' = [duty EXCEPT ![p] = NoDuty] /\ NoDuty.kind = "none"
    BY DEF DropDuty, NoDuty
  <1>2. duty'[p].kind = "none" /\ \A q \in Admins \ {p} : duty'[q] = duty[q]
    BY <1>1 DEF DutyTypeOK
  <1>3. AccessTypeOK'
    BY DEF AccessTypeOK, DropDuty
  <1>4. DutyTypeOK'
    <2>1. duty' = [q \in Admins |-> duty'[q]]
      BY <1>1 DEF DutyTypeOK
    <2> QED BY <1>2, <2>1 DEF DutyTypeOK
  <1>5. ASSUME NEW v \in Members, Uncrossed(v) PROVE Uncrossed(v)'
    <2>1. ListsOf(p)' = {} /\ \A h : ~About(p, h)'
      BY <1>2 DEF ListsOf, About
    <2>2. \A q \in Admins \ {p} : ListsOf(q)' = ListsOf(q) /\ ListOf(q, v)' = ListOf(q, v)
      BY <1>2 DEF ListsOf, ListOf
    <2>3. \A q \in Admins \ {p}, h \in {duty[r].group : r \in Admins} : About(q, h)' = About(q, h)
      BY <1>2 DEF About
    <2> QED BY <1>2, <1>5, <2>1, <2>2, <2>3 DEF Uncrossed, DropDuty
  <1>6. ASSUME NEW v \in Members PROVE MemberInv(v)'
    BY <1>5 DEF MemberInv, DropDuty, Decided
  <1> QED BY <1>3, <1>4, <1>6

(* A list is written as it was read, with one more mention of the group or *)
(* one less.                                                               *)
LEMMA WriteListKeeps ==
    ASSUME Held, NEW p \in Admins, WriteList(p) PROVE AccessInv'
  <1> USE DEF Held, AccessInv
  <1> DEFINE u == duty[p].user
             g == duty[p].group
             new == IF duty[p].kind = "add" THEN Appended(duty[p].list, g)
                                            ELSE Removed(duty[p].list, g)
             some == IF duty[p].kind = "add" THEN decided[u] \cup {g} ELSE decided[u] \ {g}
  <1>1. /\ duty[p].kind \in {"add", "remove"}
        /\ u \in Members /\ g \in Groups /\ duty[p].list \in Lists
        /\ duty[p].kind = "add" => duty[p].list[g] < MaxTimes
        /\ duty[p].kind = "remove" => InGroup(duty[p].list, g)
    BY DEF WriteList, DutyTypeOK
  <1>2. /\ new \in Lists
        /\ \A h \in Groups \ {g} : new[h] = duty[p].list[h]
        /\ duty[p].kind = "add" => new[g] = duty[p].list[g] + 1
        /\ duty[p].kind = "remove" => new[g] = duty[p].list[g] - 1
    BY <1>1 DEF Lists, Appended, Removed, InGroup, QueriesAssumption
  <1>3. /\ groupIds' = [groupIds EXCEPT ![u] = new]
        /\ decided' = [decided EXCEPT ![u] = some]
        /\ duty' = [duty EXCEPT ![p] = NoDuty] /\ NoDuty.kind = "none"
        /\ groupRow' = groupRow /\ crossed' = crossed /\ held' = held
        /\ repeated' = IF duty[p].kind = "add" /\ InGroup(duty[p].list, g)
                       THEN repeated \cup {u} ELSE repeated
    BY DEF WriteList, NoDuty
  <1>4. some \subseteq decided[u] \cup {g} /\ \A h \in Groups \ {g} : h \in some <=> h \in decided[u]
    OBVIOUS
  <1>5. g \in some <=> duty[p].kind = "add"
    BY <1>1
  <1> HIDE DEF new, some
  <1>6. /\ groupIds'[u] = new
        /\ \A v \in Members \ {u} : groupIds'[v] = groupIds[v]
        /\ decided'[u] = some
        /\ \A v \in Members \ {u} : decided'[v] = decided[v]
    BY <1>1, <1>3 DEF AccessTypeOK
  <1>7. duty'[p].kind = "none" /\ \A q \in Admins \ {p} : duty'[q] = duty[q]
    BY <1>3 DEF DutyTypeOK
  <1>8. AccessTypeOK'
    BY <1>1, <1>2, <1>3, <1>4 DEF AccessTypeOK, Lists
  <1>9. DutyTypeOK'
    <2>1. duty' = [q \in Admins |-> duty'[q]]
      BY <1>3 DEF DutyTypeOK
    <2> QED BY <1>7, <2>1 DEF DutyTypeOK
  <1>10. ListsOf(p)' = {} /\ \A h : ~About(p, h)'
    BY <1>7 DEF ListsOf, About
  <1>11. \A q \in Admins \ {p} : ListsOf(q)' = ListsOf(q) /\ \A v : ListOf(q, v)' = ListOf(q, v)
    BY <1>7 DEF ListsOf, ListOf
  <1>12. \A q \in Admins \ {p}, h \in {duty[r].group : r \in Admins} : About(q, h)' = About(q, h)
    BY <1>7 DEF About
  <1>13. u \in ListsOf(p)
    BY <1>1 DEF ListsOf
  <1>14. ASSUME NEW v \in Members, Uncrossed(v) PROVE Uncrossed(v)'
    <2>1. CASE v = u
      <3>1. \A q \in Admins : u \notin ListsOf(q)'
        BY <1>10, <1>11, <1>13, <1>14, <2>1 DEF Uncrossed
      <3>2. \A q \in Admins \ {p} : ~About(q, g)
        BY <1>13, <1>14, <2>1 DEF Uncrossed
      <3>3. duty[p].list = groupIds[u]
        BY <1>1, <1>13, <1>14, <2>1 DEF Uncrossed, ListOf
      <3>4. ASSUME NEW q \in Admins, duty'[q].kind = "deleteGroup" PROVE ~InGroup(new, duty'[q].group)
        <4>1. q # p /\ duty'[q] = duty[q]
          BY <1>7, <3>4
        <4>2. u \notin ListsOf(q)
          BY <1>11, <3>1, <4>1
        <4>3. ~InGroup(groupIds[u], duty[q].group)
          BY <1>14, <2>1, <3>4, <4>1, <4>2 DEF Uncrossed
        <4>4. duty[q].group # g /\ duty[q].group \in Groups
          BY <3>2, <3>4, <4>1 DEF About, DutyTypeOK
        <4> QED BY <1>2, <3>3, <4>1, <4>3, <4>4 DEF InGroup
      <3> QED BY <1>6, <2>1, <3>1, <3>4 DEF Uncrossed
    <2>2. CASE v # u
      BY <1>3, <1>6, <1>7, <1>10, <1>11, <1>12, <1>14, <2>2 DEF Uncrossed
    <2> QED BY <2>1, <2>2
  <1>15. ASSUME NEW v \in Members, Uncrossed(v), v \notin repeated', v \notin repeated => Decided(v)
         PROVE  Decided(v)'
    <2>1. v \notin repeated /\ Decided(v)
      BY <1>3, <1>15
    <2>2. CASE v = u
      <3>1. duty[p].list = groupIds[u]
        BY <1>1, <1>13, <1>15, <2>2 DEF Uncrossed, ListOf
      <3>2. duty[p].kind = "add" => ~InGroup(groupIds[u], g) /\ g \in groupRow
        BY <1>3, <1>13, <1>15, <2>2, <3>1 DEF Uncrossed
      <3>3. \A h \in Groups : groupIds[u][h] = IF h \in decided[u] THEN 1 ELSE 0
        BY <2>1, <2>2 DEF Decided
      <3>4. new[g] = IF g \in some THEN 1 ELSE 0
        BY <1>1, <1>2, <1>5, <3>1, <3>2, <3>3 DEF InGroup
      <3>5. \A h \in Groups \ {g} : new[h] = IF h \in some THEN 1 ELSE 0
        BY <1>2, <1>4, <3>1, <3>3
      <3>6. some \subseteq groupRow
        BY <1>1, <1>4, <1>5, <2>1, <2>2, <3>2 DEF Decided
      <3> QED BY <1>3, <1>6, <2>2, <3>4, <3>5, <3>6 DEF Decided
    <2>3. CASE v # u
      BY <1>3, <1>6, <2>1, <2>3 DEF Decided
    <2> QED BY <2>2, <2>3
  <1>16. ASSUME NEW v \in Members PROVE MemberInv(v)'
    BY <1>3, <1>14, <1>15 DEF MemberInv
  <1> QED BY <1>8, <1>9, <1>16

(* A group goes, and each of its members loses the one mention of it.      *)
LEMMA DeleteGroupKeeps ==
    ASSUME Held, NEW p \in Admins, DeleteGroup(p) PROVE AccessInv'
  <1> USE DEF Held, AccessInv
  <1> DEFINE g == duty[p].group
             lists == duty[p].lists
  <1>1. /\ duty[p].kind = "deleteGroup" /\ g \in Groups
        /\ DOMAIN lists \subseteq Members
        /\ \A u \in DOMAIN lists : lists[u] \in Lists /\ InGroup(lists[u], g)
    BY DEF DeleteGroup, DutyTypeOK
  <1>2. /\ groupRow' = groupRow \ {g} /\ crossed' = crossed /\ repeated' = repeated
        /\ duty' = [duty EXCEPT ![p] = NoDuty] /\ NoDuty.kind = "none"
        /\ \A u \in Members : decided'[u] = decided[u] \ {g}
        /\ \A u \in DOMAIN lists : groupIds'[u] = Removed(lists[u], g)
        /\ \A u \in Members \ DOMAIN lists : groupIds'[u] = groupIds[u]
    BY <1>1 DEF DeleteGroup, NoDuty
  <1>3. ASSUME NEW list \in Lists, InGroup(list, g)
        PROVE  /\ Removed(list, g) \in Lists /\ Removed(list, g)[g] = list[g] - 1
               /\ \A h \in Groups \ {g} : Removed(list, g)[h] = list[h]
    BY <1>1, <1>3 DEF Lists, Removed, InGroup, QueriesAssumption
  <1>4. groupIds' \in [Members -> Lists]
    <2>1. \A u \in Members \ DOMAIN lists : groupIds[u] \in Lists
      BY DEF AccessTypeOK, Lists
    <2> QED BY <1>1, <1>3, <2>1 DEF DeleteGroup
  <1>5. AccessTypeOK'
    <2>1. held' \in [SourceIds \X Groups \X BOOLEAN -> 0..MaxTimes]
      BY DEF DeleteGroup, AccessTypeOK, QueriesAssumption
    <2>2. \A x \in DOMAIN held' : held'[x] > 0 => x[2] \in groupRow'
      BY <1>1, <1>2 DEF DeleteGroup, AccessTypeOK
    <2>3. decided' \in [Members -> SUBSET Groups]
      BY DEF DeleteGroup, AccessTypeOK
    <2> QED BY <1>2, <1>4, <2>1, <2>2, <2>3 DEF AccessTypeOK, Lists
  <1>6. duty'[p].kind = "none" /\ \A q \in Admins \ {p} : duty'[q] = duty[q]
    BY <1>2 DEF DutyTypeOK
  <1>7. DutyTypeOK'
    <2>1. duty' = [q \in Admins |-> duty'[q]]
      BY <1>2 DEF DutyTypeOK
    <2> QED BY <1>6, <2>1 DEF DutyTypeOK
  <1>8. ListsOf(p)' = {} /\ \A h : ~About(p, h)'
    BY <1>6 DEF ListsOf, About
  <1>9. \A q \in Admins \ {p} : ListsOf(q)' = ListsOf(q) /\ \A v : ListOf(q, v)' = ListOf(q, v)
    BY <1>6 DEF ListsOf, ListOf
  <1>10. \A q \in Admins \ {p}, h \in {duty[r].group : r \in Admins} : About(q, h)' = About(q, h)
    BY <1>6 DEF About
  <1>11. About(p, g) /\ ListsOf(p) = DOMAIN lists
    BY <1>1 DEF About, ListsOf
  <1>12. ASSUME NEW v \in Members, Uncrossed(v) PROVE Uncrossed(v)'
    <2>1. \A q \in Admins : v \in ListsOf(q)' => q # p /\ v \in ListsOf(q) /\ duty'[q] = duty[q]
      BY <1>6, <1>8, <1>9
    <2>2. \A q \in Admins : v \in ListsOf(q)' => duty[q].group # g /\ v \notin DOMAIN lists
      BY <1>11, <1>12, <2>1 DEF Uncrossed
    <2>3. \A q \in Admins : v \in ListsOf(q)' => ListOf(q, v)' = groupIds'[v]
      BY <1>2, <1>9, <1>12, <2>1, <2>2 DEF Uncrossed
    <2>4. \A q \in Admins : v \in ListsOf(q)' /\ duty'[q].kind = "add" => duty'[q].group \in groupRow'
      BY <1>2, <1>12, <2>1, <2>2 DEF Uncrossed
    <2>5. ASSUME NEW q \in Admins, duty'[q].kind = "deleteGroup", InGroup(groupIds'[v], duty'[q].group)
          PROVE  v \in ListsOf(q)'
      <3>1. q # p /\ duty'[q] = duty[q] /\ duty[q].group \in Groups
        BY <1>6, <2>5 DEF DutyTypeOK
      <3>2. InGroup(groupIds[v], duty[q].group)
        <4>1. CASE v \in DOMAIN lists
          <5>1. lists[v] = groupIds[v]
            BY <1>1, <1>11, <1>12, <4>1 DEF Uncrossed, ListOf
          <5>2. groupIds'[v][duty[q].group] <= groupIds[v][duty[q].group]
            BY <1>1, <1>2, <1>3, <3>1, <4>1, <5>1 DEF Lists, QueriesAssumption
          <5>3. groupIds[v][duty[q].group] \in Nat /\ groupIds'[v][duty[q].group] \in Nat
            BY <1>4, <3>1 DEF AccessTypeOK, Lists
          <5> QED BY <2>5, <3>1, <5>2, <5>3 DEF InGroup
        <4>2. CASE v \notin DOMAIN lists
          BY <1>2, <2>5, <3>1, <4>2
        <4> QED BY <4>1, <4>2
      <3> QED BY <1>9, <1>12, <2>5, <3>1, <3>2 DEF Uncrossed
    <2>6. \A q, r \in Admins : v \in ListsOf(q)' /\ v \in ListsOf(r)' => q = r
      BY <1>12, <2>1 DEF Uncrossed
    <2>7. \A q, r \in Admins : v \in ListsOf(q)' /\ About(r, duty[q].group)' => q = r
      BY <1>8, <1>10, <1>12, <2>1 DEF Uncrossed
    <2> QED BY <2>3, <2>4, <2>5, <2>6, <2>7 DEF Uncrossed
  <1>13. ASSUME NEW v \in Members, Uncrossed(v), Decided(v) PROVE Decided(v)'
    <2>1. CASE v \in DOMAIN lists
      <3>1. lists[v] = groupIds[v]
        BY <1>1, <1>11, <1>13, <2>1 DEF Uncrossed, ListOf
      <3>2. groupIds[v][g] = 1
        BY <1>1, <1>13, <2>1, <3>1 DEF Decided, InGroup
      <3>3. groupIds'[v][g] = 0 /\ \A h \in Groups \ {g} : groupIds'[v][h] = groupIds[v][h]
        BY <1>1, <1>2, <1>3, <2>1, <3>1, <3>2
      <3> QED BY <1>2, <1>13, <3>3 DEF Decided
    <2>2. CASE v \notin DOMAIN lists
      <3>1. ~InGroup(groupIds[v], g)
        BY <1>1, <1>11, <1>13, <2>2 DEF Uncrossed
      <3>2. g \notin decided[v]
        BY <1>1, <1>13, <3>1 DEF Decided, InGroup
      <3> QED BY <1>2, <1>13, <2>2, <3>2 DEF Decided
    <2> QED BY <2>1, <2>2
  <1>14. ASSUME NEW v \in Members PROVE MemberInv(v)'
    BY <1>2, <1>12, <1>13 DEF MemberInv
  <1> QED BY <1>5, <1>7, <1>14

(* Rows of a group for a data source are about a group there is.           *)
LEMMA SourcesKeep ==
    ASSUME Held, NEW d \in SourceIds, NEW g \in Groups,
           \/ HoldSource(d, g) \/ ReleaseSource(d, g)
           \/ \E viewOnly \in BOOLEAN : SetViewOnly(d, g, viewOnly)
    PROVE  AccessInv'
  <1> USE DEF Held, AccessInv
  <1>1. UNCHANGED <<groupRow, groupIds, duty, decided, crossed, repeated>>
    BY DEF HoldSource, ReleaseSource, SetViewOnly
  <1>2. DutyTypeOK' /\ \A v \in Members : MemberInv(v)'
    BY <1>1 DEF DutyTypeOK, MemberInv, Uncrossed, Decided, ListOf, ListsOf, About
  <1>3. AccessTypeOK'
    <2> DEFINE X == SourceIds \X Groups \X BOOLEAN
               yes == <<d, g, TRUE>>
               no == <<d, g, FALSE>>
    <2>1. held \in [X -> 0..MaxTimes] /\ \A x \in X : held[x] > 0 => x[2] \in groupRow
      BY DEF AccessTypeOK
    <2>2. /\ yes \in X /\ yes[2] = g
          /\ no \in X /\ no[2] = g
      OBVIOUS
    <2>4. CASE HoldSource(d, g)
      <3>1. /\ g \in groupRow
            /\ held[yes] + held[no] < MaxTimes
            /\ held' = [held EXCEPT ![no] = @ + 1]
        BY <2>4 DEF HoldSource
      <3> HIDE DEF X, yes, no
      <3>2. held' \in [X -> 0..MaxTimes] /\ \A x \in X \ {no} : held'[x] = held[x]
        BY <2>1, <2>2, <3>1 DEF QueriesAssumption
      <3>3. \A x \in X : held'[x] > 0 => x[2] \in groupRow
        BY <2>1, <2>2, <3>1, <3>2
      <3> QED BY <1>1, <3>2, <3>3 DEF AccessTypeOK, X
    <2>5. CASE ReleaseSource(d, g)
      <3>1. held' = [held EXCEPT ![yes] = 0, ![no] = 0]
        BY <2>5 DEF ReleaseSource
      <3> HIDE DEF X, yes, no
      <3>2. held' \in [X -> 0..MaxTimes] /\ \A x \in X : held'[x] > 0 => held'[x] = held[x]
        BY <2>1, <2>2, <3>1 DEF QueriesAssumption
      <3>3. \A x \in X : held'[x] > 0 => x[2] \in groupRow
        BY <2>1, <3>2
      <3> QED BY <1>1, <3>2, <3>3 DEF AccessTypeOK, X
    <2>6. ASSUME NEW viewOnly \in BOOLEAN, SetViewOnly(d, g, viewOnly) PROVE AccessTypeOK'
      <3> DEFINE it == <<d, g, viewOnly>>
                 other == <<d, g, ~viewOnly>>
      <3>1. /\ held[yes] + held[no] = 1
            /\ held' = [held EXCEPT ![it] = 1, ![other] = 0]
        BY <2>6 DEF SetViewOnly
      <3>2. it \in X /\ it[2] = g /\ other \in X
        OBVIOUS
      <3> HIDE DEF X, yes, no, it, other
      <3>3. g \in groupRow
        BY <2>1, <2>2, <3>1
      <3>4. /\ held' \in [X -> 0..MaxTimes]
            /\ \A x \in X \ {it} : held'[x] > 0 => held'[x] = held[x]
        BY <2>1, <3>1, <3>2 DEF QueriesAssumption
      <3>5. \A x \in X : held'[x] > 0 => x[2] \in groupRow
        BY <2>1, <3>2, <3>3, <3>4
      <3> QED BY <1>1, <3>4, <3>5 DEF AccessTypeOK, X
    <2> QED BY <2>4, <2>5, <2>6
  <1> QED BY <1>2, <1>3

(* Every step keeps the invariant. *)
LEMMA AccessInvStep == QueriesAssumption /\ AccessInv /\ [AccessNext]_accessVars => AccessInv'
  <1> SUFFICES ASSUME QueriesAssumption, AccessInv, [AccessNext]_accessVars PROVE AccessInv'
    OBVIOUS
  <1> USE DEF Held
  <1>1. CASE UNCHANGED accessVars
    BY <1>1 DEF accessVars, AccessInv, AccessTypeOK, DutyTypeOK, MemberInv, Uncrossed, Decided,
                ListOf, ListsOf, About
  <1>2. ASSUME NEW g \in Groups, CreateGroup(g) PROVE AccessInv'
    BY <1>2, CreateGroupKeeps
  <1>3. ASSUME NEW p \in Admins, NEW u \in Members, NEW g \in Groups,
               NEW kind \in {"add", "remove"}, ReadList(p, u, g, kind)
        PROVE  AccessInv'
    BY <1>3, ReadListKeeps
  <1>4. ASSUME NEW p \in Admins, NEW g \in Groups, ReadMembers(p, g) PROVE AccessInv'
    BY <1>4, ReadMembersKeeps
  <1>5. ASSUME NEW p \in Admins, WriteList(p) \/ DeleteGroup(p) \/ DropDuty(p) PROVE AccessInv'
    BY <1>5, WriteListKeeps, DeleteGroupKeeps, DropDutyKeeps
  <1>6. ASSUME NEW d \in SourceIds, NEW g \in Groups,
               \/ HoldSource(d, g) \/ ReleaseSource(d, g)
               \/ \E viewOnly \in BOOLEAN : SetViewOnly(d, g, viewOnly)
        PROVE  AccessInv'
    BY <1>6, SourcesKeep
  <1>7. ASSUME NEW u \in Members, NEW gs \in SUBSET Groups, SetGroups(u, gs) \/ AssignGroups(u, gs)
        PROVE  AccessInv'
    BY <1>7, ReplaceKeeps DEF SetGroups, AssignGroups
  <1> QED BY <1>1, <1>2, <1>3, <1>4, <1>5, <1>6, <1>7 DEF AccessNext

LEMMA AccessInvHolds == AccessSpec => []AccessInv
  <1>1. AccessInit => AccessInv
    BY AccessInvInit, QueriesAssumption
  <1>2. AccessInv /\ [AccessNext]_accessVars => AccessInv'
    BY AccessInvStep, QueriesAssumption
  <1> QED BY <1>1, <1>2, PTL DEF AccessSpec

(***************************************************************************)
(* Lists are about users and groups, and no group that is gone holds a     *)
(* data source: deleting a group takes its rows with it, and only groups   *)
(* there are get any (models/users.py:277, handlers/groups.py:127-160).    *)
(***************************************************************************)
THEOREM AccessTypeCorrect == AccessSpec => []AccessTypeOK
  <1>1. AccessInv => AccessTypeOK
    BY DEF AccessInv
  <1> QED BY <1>1, AccessInvHolds, PTL

(***************************************************************************)
(* A user is in the groups administrators have decided on unless requests  *)
(* crossed or the user was put into a group twice                          *)
(* (handlers/groups.py:75-120), for every number of users, groups and      *)
(* processes.                                                              *)
(***************************************************************************)
THEOREM MembersAsDecided == AccessSpec => []MembershipAsDecided
  <1>1. AccessInv => MembershipAsDecided
    <2> SUFFICES ASSUME AccessInv, NEW u \in Members, u \notin crossed, u \notin repeated
                 PROVE  /\ { g \in Groups : InGroup(groupIds[u], g) } = decided[u]
                        /\ decided[u] \subseteq groupRow
      BY DEF MembershipAsDecided
    <2>1. Decided(u) /\ decided[u] \subseteq Groups
      BY DEF AccessInv, MemberInv, AccessTypeOK
    <2>2. \A g \in Groups : InGroup(groupIds[u], g) <=> g \in decided[u]
      BY <2>1 DEF Decided, InGroup
    <2> QED BY <2>1, <2>2 DEF Decided
  <1> QED BY <1>1, AccessInvHolds, PTL
-----------------------------------------------------------------------------
(* Access: what users find in lists *)

\* A source that some group of the user holds the user may at least look at.
LEMMA HeldIsAccessible ==
    ASSUME AccessTypeOK, NEW u \in Members, NEW d \in SourceIds, HoldsFor(u, d)
    PROVE  HasAccess(u, d, TRUE)
<1>1. PICK g \in Groups, v \in BOOLEAN : InGroup(groupIds[u], g) /\ held[<<d, g, v>>] > 0
  BY DEF HoldsFor
<1>2. held[<<d, g, v>>] # 0
  BY <1>1 DEF AccessTypeOK
<1>3. ASSUME NEW level \in Levels(d) PROVE level[g] \in {"view", "full"}
  <2>1. level[g] \in {"none", "view", "full"}
    BY DEF Levels
  <2>2. level[g] = "none" => held[<<d, g, TRUE>>] = 0 /\ held[<<d, g, FALSE>>] = 0
    BY DEF Levels
  <2>3. level[g] # "none"
    BY <1>2, <2>2
  <2> QED
    BY <2>1, <2>3
<1> QED
  BY <1>1, <1>3 DEF HasAccess

LEMMA HeldIsListed == AccessTypeOK => ListedIsReadable
<1> SUFFICES ASSUME AccessTypeOK, NEW u \in Members
             PROVE  /\ QueryList(u) \cup QueryArchive(u) \cup ByUser(u) \cup Favorites(u)
                           \cup EndpointList(u) \subseteq Visible(u)
                    /\ AlertList(u) \subseteq Visible(u)
                    /\ \A shown \in DashboardList(u) : shown \cap Visible(u) # {}
                    /\ (\E g \in Groups : InGroup(groupIds[u], g)) =>
                          \A d \in SourceList(u) : HasAccess(u, d, TRUE)
  BY DEF ListedIsReadable
<1>1. \A q \in QueryIds : HoldsFor(u, SourceOf[q]) => q \in Visible(u)
  BY HeldIsAccessible, QueriesAssumption DEF Visible
<1>2. QueryList(u) \cup QueryArchive(u) \cup ByUser(u) \cup Favorites(u) \cup EndpointList(u)
         \subseteq Visible(u)
  BY <1>1 DEF QueryList, QueryArchive, ByUser, Favorites, EndpointList, AllQueries
<1>3. AlertList(u) \subseteq Visible(u)
  BY <1>1 DEF AlertList
<1>4. \A shown \in DashboardList(u) : shown \cap Visible(u) # {}
  BY <1>1 DEF DashboardList
<1>5. (\E g \in Groups : InGroup(groupIds[u], g)) =>
         \A d \in SourceList(u) : HasAccess(u, d, TRUE)
  BY HeldIsAccessible DEF SourceList
<1> QED
  BY <1>2, <1>3, <1>4, <1>5

(***************************************************************************)
(* Whatever becomes of groups, of the lists of their members and of the    *)
(* rows that hold sources for them, lists show no user more than the user  *)
(* may open (models/queries.py:138, permissions.py:36).                    *)
(***************************************************************************)
THEOREM NothingUnreadableListed == AccessSpec => []ListedIsReadable
<1> QED
  BY AccessTypeCorrect, HeldIsListed, PTL
=============================================================================
