------------------------------- MODULE Editing -------------------------------
(***************************************************************************)
(* Editing a dashboard or a query: a page shows a copy of the row, the     *)
(* handler of an edit loads the row, compares its version with the one the *)
(* page sends, and commits the changed columns in an UPDATE whose WHERE    *)
(* clause compares the version again (SQLAlchemy's version_id_col).  The   *)
(* version of a dashboard is incremented by each UPDATE; that of a query,  *)
(* whose version_id_generator is False, by nobody.  A query also stores    *)
(* the hash of its text and options, computed before each UPDATE from the  *)
(* copy the handler has loaded.                                            *)
(***************************************************************************)
EXTENDS Integers

CONSTANTS
    Clients,     \* pages, each with at most one edit on its way
    Fields,      \* columns
    Values,      \* values of a column
    Kinds,       \* among Dashboard and Query
    MaxVersion,  \* bound: the last version of a dashboard
    Unseen

Contents == [Fields -> Values]

\* Some columns with their new values
Changes == UNION { [F -> Values] : F \in SUBSET Fields \ {{}} }

Dashboard == [increments |-> TRUE, hashed |-> {}]
Query == [increments |-> FALSE, hashed |-> Fields]

ASSUME KindsAssumption == Kinds \subseteq {Dashboard, Query}
ASSUME MaxVersionAssumption == MaxVersion \in Nat
ASSUME UnseenAssumption == Unseen \notin [version : Nat, content : Contents]

VARIABLES
    kind,     \* what the row is
    row,      \* the row
    seen,     \* version and content each page shows
    request   \* the edit each page has posted, with the row as it was loaded for it

vars == <<kind, row, seen, request>>

NoRequest == [phase |-> "idle"]

\* A hash stands for what it was computed from
Hash(content) == [f \in kind.hashed |-> content[f]]

Init ==
    /\ kind \in Kinds
    /\ \E content \in Contents :
          row = [version |-> 1, content |-> content, hash |-> Hash(content)]
    /\ seen = [c \in Clients |-> Unseen]
    /\ request = [c \in Clients |-> NoRequest]

\* The edit of a page is on its way
Open(c) == request[c].phase = "loaded"

Copy(r) == [version |-> r.version, content |-> r.content]

\* GET: the page shows the row
View(c) ==
    /\ seen' = [seen EXCEPT ![c] = Copy(row)]
    /\ UNCHANGED <<kind, row, request>>

\* A handler that leaves the version to SQLAlchemy
NotCompared(c) == seen[c] # Unseen

\* The version sent along is the one of the row
UpToDate(c) == seen[c] # Unseen /\ seen[c].version = row.version

(***************************************************************************)
(* POST: the row is loaded, and an edit of another version refused with    *)
(* status 409 (which changes nothing).  A request need not send a version, *)
(* and the one that archives the row sends none.                           *)
(***************************************************************************)
Load(c, change, versioned) ==
    /\ ~Open(c)
    /\ versioned => UpToDate(c)
    /\ request' = [request EXCEPT ![c] = [phase |-> "loaded", loaded |-> row,
                                         change |-> change, versioned |-> versioned]]
    /\ UNCHANGED <<kind, row, seen>>

\* The object in memory once the change is made
Edited(content, change) ==
    [f \in Fields |-> IF f \in DOMAIN change THEN change[f] ELSE content[f]]

\* Every column is written as it is in memory
WholeRow(current, loaded, edited) == edited

\* Only columns whose value differs from the loaded one are written
ChangedColumns(current, loaded, edited) ==
    [f \in DOMAIN current |-> IF edited[f] = loaded[f] THEN current[f] ELSE edited[f]]

\* The hash is written when the edit changes what it is computed from
HashOfEdit(current, loaded, edited) ==
    IF Hash(edited) = Hash(loaded.content) THEN current ELSE Hash(edited)

\* The listener computes the hash anew, which is written if it differs from the loaded one
NewHash(current, loaded, edited) ==
    IF Hash(edited) = loaded.hash THEN current ELSE Hash(edited)

\* UPDATE without a version in its WHERE clause
AnyRow(c) == Open(c)

\* The WHERE clause of the UPDATE finds the row in the version that was loaded
RowFound(c) == Open(c) /\ row.version = request[c].loaded.version

\* A version that is never incremented
SameVersion(version) == version

\* The version an UPDATE writes
NextVersion(version) == IF kind.increments THEN version + 1 ELSE version

Done(c) == request' = [request EXCEPT ![c] = NoRequest]

(***************************************************************************)
(* The UPDATE is committed.  The response shows the object in memory,      *)
(* which is not loaded again (expire_on_commit is False); a page that      *)
(* sends no version keeps no copy.                                         *)
(***************************************************************************)
Commit(c) ==
    /\ RowFound(c)
    /\ NextVersion(request[c].loaded.version) <= MaxVersion
    /\ LET loaded  == request[c].loaded
           edited  == Edited(loaded.content, request[c].change)
           version == NextVersion(loaded.version)
       IN  /\ row' = [version |-> version,
                      content |-> ChangedColumns(row.content, loaded.content, edited),
                      hash    |-> NewHash(row.hash, loaded, edited)]
           /\ seen' = IF request[c].versioned
                      THEN [seen EXCEPT ![c] = [version |-> version, content |-> edited]]
                      ELSE seen
    /\ Done(c)
    /\ UNCHANGED kind

\* StaleDataError: status 409, or 500 when a dashboard was to be archived
Conflict(c) ==
    /\ Open(c)
    /\ ~RowFound(c)
    /\ Done(c)
    /\ UNCHANGED <<kind, row, seen>>

\* The process of the handler dies before the commit, or the database refuses
Abandon(c) ==
    /\ Open(c)
    /\ Done(c)
    /\ UNCHANGED <<kind, row, seen>>

Next ==
    \/ \E c \in Clients :
        \/ View(c)
        \/ \E change \in Changes, versioned \in BOOLEAN : Load(c, change, versioned)
        \/ Commit(c) \/ Conflict(c) \/ Abandon(c)

Spec == Init /\ [][Next]_vars
-----------------------------------------------------------------------------
CopyType == [version : Nat, content : Contents]
RowType == [version : Nat, content : Contents, hash : [kind.hashed -> Values]]
RequestType ==
    [phase : {"loaded"}, loaded : RowType, change : Changes, versioned : BOOLEAN]

\* The type of the variables; no copy has a version the row has yet to get.
TypeOK ==
    /\ kind \in Kinds
    /\ row \in RowType
    /\ seen \in [Clients -> CopyType \cup {Unseen}]
    /\ request \in [Clients -> RequestType \cup {NoRequest}]
    /\ \A c \in Clients : seen[c] # Unseen => seen[c].version <= row.version

(***************************************************************************)
(* The version of a dashboard names its content: a page that shows the     *)
(* current version shows the current content, whoever was editing what,    *)
(* with or without a version.                                              *)
(***************************************************************************)
VersionNamesContent ==
    kind.increments =>
        \A c \in Clients :
            seen[c] # Unseen /\ seen[c].version = row.version => seen[c] = Copy(row)

\* A dashboard keeps the promise of VersionedRecord, for which a query gives a constant.
Promise == INSTANCE VersionedRecord WITH
    record <- IF kind.increments THEN Copy(row)
              ELSE [version |-> 1, content |-> CHOOSE content \in Contents : TRUE],
    seen   <- IF kind.increments THEN seen ELSE [c \in Clients |-> Unseen]

(***************************************************************************)
(* Dashboards implement VersionedRecord: of two edits made from the same   *)
(* version at most one is accepted, and none is lost (handlers/            *)
(* dashboards.py:228).                                                     *)
(***************************************************************************)
CompareAndSet == Promise!Spec

(***************************************************************************)
(* An edit that nobody has come in between of leaves query_hash the hash   *)
(* of the text and options, even if concurrent edits had spoilt it before. *)
(***************************************************************************)
UndisturbedEditHeals ==
    [][\A c \in Clients :
         Commit(c) /\ request[c].loaded = row => row'.hash = Hash(row'.content)]_vars

(***************************************************************************)
(* An edit leaves alone the columns it does not name, whatever has become  *)
(* of them since its row was loaded: concurrent edits of different columns *)
(* of a query both survive.                                                *)
(***************************************************************************)
OtherColumnsStay ==
    [][\A c \in Clients : Commit(c) =>
         \A f \in Fields \ DOMAIN request[c].change :
            row'.content[f] = row.content[f]]_vars

(***************************************************************************)
(* The comment at handlers/queries.py:378 says that "SQLAlchemy handles    *)
(* the case where a concurrent transaction beats us to the update. But we  *)
(* still have to make sure that we're not starting out behind": an edit    *)
(* that sends the version along changes the query its author has seen.     *)
(***************************************************************************)
ConflictDetected ==
    [][\A c \in Clients :
         Commit(c) /\ request[c].versioned => seen[c] = Copy(row)]_vars

(***************************************************************************)
(* handlers/queries.py:221 calls query_hash the "Hash of query text", by   *)
(* which results are matched with queries.                                 *)
(***************************************************************************)
HashOfText == row.hash = Hash(row.content)
=============================================================================
