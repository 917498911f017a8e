--------------------------------- MODULE Grants ---------------------------------
(***************************************************************************)
(* Permissions of single objects.  The owner of a query or dashboard, or   *)
(* an administrator, lets other users modify it.  A grant is a row that no *)
(* constraint keeps unique: AccessPermission.grant looks for an equal row  *)
(* before it inserts one, and raises if there are two.                     *)
(***************************************************************************)
EXTENDS Naturals

CONSTANTS
    Grantees,   \* users, with an object each may be let modify
    Grantors,   \* its owner and administrators
    Granters    \* processes that handle their requests

VARIABLES
    grants,     \* how many rows each grantor has made for each grantee
    looking,    \* the grant a process will make, and whether it has found it made
    wanted,     \* history: grantees last granted and not revoked
    entangled   \* history: grantees of whom requests overlapped, until they are revoked alone

grantVars == <<grants, looking, wanted, entangled>>

NotLooking == [found |-> "none"]

GrantInit ==
    /\ grants = [u \in Grantees |-> [r \in Grantors |-> 0]]
    /\ looking = [p \in Granters |-> NotLooking]
    /\ wanted = {}
    /\ entangled = {}

Awaited(u) == \E p \in Granters : looking[p] # NotLooking /\ looking[p].grantee = u

\* The same permission by the same grantor; one_or_none raises at a second row
LookForGrant(p, u, r) ==
    /\ looking[p] = NotLooking
    /\ grants[u][r] <= 1
    /\ looking' = [looking EXCEPT ![p] = [grantee |-> u, grantor |-> r, found |-> grants[u][r] = 1]]
    /\ entangled' = IF Awaited(u) THEN entangled \cup {u} ELSE entangled
    /\ UNCHANGED <<grants, wanted>>

\* One row more, whatever was found
InsertGrant(p) ==
    /\ looking[p] # NotLooking
    /\ LET u == looking[p].grantee
       IN  /\ grants' = [grants EXCEPT ![u][looking[p].grantor] = @ + 1]
           /\ wanted' = wanted \cup {u}
    /\ looking' = [looking EXCEPT ![p] = NotLooking]
    /\ UNCHANGED entangled

\* A row, unless one was found
Grant(p) ==
    /\ looking[p] # NotLooking
    /\ LET u == looking[p].grantee
       IN  /\ grants' = IF looking[p].found THEN grants
                        ELSE [grants EXCEPT ![u][looking[p].grantor] = @ + 1]
           /\ wanted' = wanted \cup {u}
    /\ looking' = [looking EXCEPT ![p] = NotLooking]
    /\ UNCHANGED entangled

\* revoke deletes the rows there are, by whomever
Revoke(u) ==
    /\ grants' = [grants EXCEPT ![u] = [r \in Grantors |-> 0]]
    /\ wanted' = wanted \ {u}
    /\ entangled' = IF Awaited(u) THEN entangled \cup {u} ELSE entangled \ {u}
    /\ UNCHANGED looking

\* Postgres refuses, or the process dies
DropGrant(p) ==
    /\ looking[p] # NotLooking
    /\ looking' = [looking EXCEPT ![p] = NotLooking]
    /\ UNCHANGED <<grants, wanted, entangled>>

GrantNext ==
    \/ \E p \in Granters :
        \/ \E u \in Grantees, r \in Grantors : LookForGrant(p, u, r)
        \/ Grant(p) \/ DropGrant(p)
    \/ \E u \in Grantees : Revoke(u)

GrantSpec == GrantInit /\ [][GrantNext]_grantVars
-----------------------------------------------------------------------------
GrantTypeOK ==
    /\ grants \in [Grantees -> [Grantors -> Nat]]
    /\ looking \in [Granters ->
          {NotLooking} \cup [grantee : Grantees, grantor : Grantors, found : BOOLEAN]]
    /\ wanted \cup entangled \subseteq Grantees

\* exists, which can_modify asks
MayModify(u) == \E r \in Grantors : grants[u][r] > 0

(***************************************************************************)
(* A user may modify an object exactly if the last decision was to grant   *)
(* it, and no row is there twice, which would make every later grant fail: *)
(* unless two requests about the user overlapped, which revoking the grant *)
(* alone puts right (models/users.py:331-355).                             *)
(***************************************************************************)
GrantsAsDecided ==
    \A u \in Grantees \ entangled :
        /\ MayModify(u) <=> u \in wanted
        /\ \A r \in Grantors : grants[u][r] <= 1
=============================================================================
