------------------------------ MODULE Administrators ------------------------------
(***************************************************************************)
(* Who can administer an installation.  Setup founds the organization and  *)
(* then its first administrator; administrators invite, promote, demote,   *)
(* disable, enable and delete others.  A handler checks once, before it    *)
(* loads anything, that the asker is an enabled administrator.  Commands   *)
(* on the server and an identity provider that tells groups ask nobody.    *)
(***************************************************************************)
CONSTANTS
    People,
    Workers     \* processes that handle requests

VARIABLES
    founded,    \* there is an organization
    empowered,  \* the built-in group of administrators has the permission "admin"
    person,     \* users: member of the group of administrators, disabled, invitation pending
    asked,      \* what each process has checked and will commit
    settled,    \* history: the first user has been committed
    shaken      \* history: administrators gave up the role, acted although they had lost it, or lost
                \* it to a command or to the groups an identity provider told

adminVars == <<founded, empowered, person, asked, settled, shaken>>

Nobody == [account |-> "none"]
NothingAsked == [what |-> "nothing"]

Member(admin, pending) == [admin |-> admin, disabled |-> FALSE, pending |-> pending]
Known(u) == person[u] # Nobody
IsAdmin(u) == empowered /\ Known(u) /\ person[u].admin /\ ~person[u].disabled

AdminInit ==
    /\ founded = FALSE
    /\ empowered = TRUE
    /\ person = [u \in People |-> Nobody]
    /\ asked = [p \in Workers |-> NothingAsked]
    /\ settled = FALSE
    /\ shaken = FALSE

(***************************************************************************)
(* setup, or the command "users create_root" before it: the organization   *)
(* is committed with its groups.  Of two first visitors the second one is  *)
(* refused by the unique slug.                                             *)
(***************************************************************************)
FoundOrganization(p) ==
    /\ asked[p] = NothingAsked
    /\ ~founded
    /\ founded' = TRUE
    /\ asked' = [asked EXCEPT ![p] = [what |-> "setup"]]
    /\ UNCHANGED <<empowered, person, settled, shaken>>

\* and then, with the default data source and its stream, the first user, in both groups
CreateFirstUser(p, u) ==
    /\ asked[p].what = "setup"
    /\ person[u] = Nobody
    /\ person' = [person EXCEPT ![u] = Member(TRUE, FALSE)]
    /\ asked' = [asked EXCEPT ![p] = NothingAsked]
    /\ settled' = TRUE
    /\ UNCHANGED <<founded, empowered, shaken>>

\* An administrator invites
InviteUser(p, a, u) ==
    /\ asked[p] = NothingAsked
    /\ IsAdmin(a)
    /\ person[u] = Nobody
    /\ person' = [person EXCEPT ![u] = Member(FALSE, TRUE)]
    /\ UNCHANGED <<founded, empowered, asked, settled, shaken>>

AcceptInvitation(u) ==
    /\ Known(u) /\ person[u].pending
    /\ person' = [person EXCEPT ![u].pending = FALSE]
    /\ UNCHANGED <<founded, empowered, asked, settled, shaken>>

(***************************************************************************)
(* What asks no administrator: the commands "users create", also with      *)
(* --admin, "create_root" once there is an organization, "grant_admin" and *)
(* "delete", "groups change_permissions" of the built-in group, and an     *)
(* identity provider, which has users made at their first sign-in.         *)
(***************************************************************************)
CommandCreateUser(u, admin) ==
    /\ founded
    /\ person[u] = Nobody
    /\ person' = [person EXCEPT ![u] = Member(admin, FALSE)]
    /\ UNCHANGED <<founded, empowered, asked, settled, shaken>>

GrantAdmin(u) ==
    /\ Known(u) /\ ~person[u].admin
    /\ person' = [person EXCEPT ![u].admin = TRUE]
    /\ UNCHANGED <<founded, empowered, asked, settled, shaken>>

DeletePerson(u) ==
    /\ Known(u)
    /\ person' = [person EXCEPT ![u] = Nobody]
    /\ shaken' = (shaken \/ IsAdmin(u))
    /\ UNCHANGED <<founded, empowered, asked, settled>>

ChangePermissions(power) ==
    /\ founded
    /\ empowered' = power
    /\ shaken' = (shaken \/ ~power)
    /\ UNCHANGED <<founded, person, asked, settled>>

\* update_group_assignments, at a sign-in by SAML: the groups told and the default one
ToldGroups(u, admin) ==
    /\ Known(u)
    /\ person' = [person EXCEPT ![u].admin = admin]
    /\ shaken' = (shaken \/ (IsAdmin(u) /\ ~admin))
    /\ UNCHANGED <<founded, empowered, asked, settled>>

Kinds == {"promote", "demote", "disable", "enable", "delete"}

\* Only the invitation is checked
EvenSelf(a, u, kind) == kind = "delete" => person[u].pending

\* Administrators neither disable nor delete themselves, and delete invitations only
MayDo(a, u, kind) ==
    /\ kind \in {"disable", "delete"} => a # u
    /\ kind = "delete" => person[u].pending

AskFor(p, a, u, kind) ==
    /\ asked[p] = NothingAsked
    /\ IsAdmin(a)
    /\ Known(u)
    /\ MayDo(a, u, kind)
    /\ asked' = [asked EXCEPT ![p] = [what |-> kind, who |-> u, by |-> a]]
    /\ UNCHANGED <<founded, empowered, person, settled, shaken>>

After(row, kind) ==
    CASE kind = "promote" -> [row EXCEPT !.admin = TRUE]
      [] kind = "demote"  -> [row EXCEPT !.admin = FALSE]
      [] kind = "disable" -> [row EXCEPT !.disabled = TRUE]
      [] kind = "enable"  -> [row EXCEPT !.disabled = FALSE]
      [] kind = "delete"  -> Nobody

\* Whatever has become of the asker since
DoAsAsked(p) ==
    LET u == asked[p].who
        a == asked[p].by
    IN  /\ asked[p].what \in Kinds
        /\ Known(u)
        /\ person' = [person EXCEPT ![u] = After(@, asked[p].what)]
        /\ asked' = [asked EXCEPT ![p] = NothingAsked]
        /\ shaken' = (\/ shaken
                      \/ ~IsAdmin(a)
                      \/ a = u /\ asked[p].what = "demote")
        /\ UNCHANGED <<founded, empowered, settled>>

\* The row is gone, Postgres or ClickHouse refuses, or the process dies
LeaveUndone(p) ==
    /\ asked[p] # NothingAsked
    /\ asked' = [asked EXCEPT ![p] = NothingAsked]
    /\ UNCHANGED <<founded, empowered, person, settled, shaken>>

AdminNext ==
    \/ \E p \in Workers :
        \/ FoundOrganization(p) \/ DoAsAsked(p) \/ LeaveUndone(p)
        \/ \E u \in People : CreateFirstUser(p, u)
        \/ \E a, u \in People :
            \/ InviteUser(p, a, u)
            \/ \E kind \in Kinds : AskFor(p, a, u, kind)
    \/ \E u \in People :
        \/ AcceptInvitation(u) \/ GrantAdmin(u) \/ DeletePerson(u)
        \/ \E admin \in BOOLEAN : CommandCreateUser(u, admin) \/ ToldGroups(u, admin)
    \/ \E power \in BOOLEAN : ChangePermissions(power)

AdminSpec == AdminInit /\ [][AdminNext]_adminVars
-----------------------------------------------------------------------------
AdminTypeOK ==
    /\ founded \in BOOLEAN /\ empowered \in BOOLEAN
    /\ person \in [People -> {Nobody} \cup [admin : BOOLEAN, disabled : BOOLEAN, pending : BOOLEAN]]
    /\ asked \in [Workers -> {NothingAsked} \cup [what : {"setup"}]
                             \cup [what : Kinds, who : People, by : People]]
    /\ settled \in BOOLEAN
    /\ shaken \in BOOLEAN
    /\ \A u \in People : Known(u) => founded

(***************************************************************************)
(* Once setup is through there is always an administrator who can act, for *)
(* whoever disables or deletes another one remains; unless administrators  *)
(* remove each other at once, or themselves from the group                 *)
(* (handlers/users.py:310, :334, handlers/groups.py:119), or the role is   *)
(* taken from one by a command or by the groups an identity provider tells *)
(* (cli/users.py:206, cli/groups.py:69, models/users.py:240).              *)
(***************************************************************************)
AdminRemains == settled /\ ~shaken => \E u \in People : IsAdmin(u)
=============================================================================
