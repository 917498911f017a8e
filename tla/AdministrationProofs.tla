------------------------ MODULE AdministrationProofs ------------------------
(***************************************************************************)
(* Proofs about Administrators, Grants, DashboardSharing and Streams, for  *)
(* every number of users, objects and processes, and about these           *)
(* components side by side with those of the modules that are extended.    *)
(***************************************************************************)
EXTENDS MCAdministration, AccountsProofs, ConfigurationProofs, WellFoundedInduction

-----------------------------------------------------------------------------
(* Administrators *)

PersonRow == [admin : BOOLEAN, disabled : BOOLEAN, pending : BOOLEAN]

\* What is asked of others, and what setup has founded
AskedInv ==
    \A p \in Workers :
        /\ asked[p].what \in {"disable", "delete"} => asked[p].by # asked[p].who
        /\ asked[p].what = "setup" => founded

\* As long as nothing is shaken the built-in group has its permission
RoleInv == ~shaken => empowered

AdminInv == AdminTypeOK /\ AskedInv /\ RoleInv /\ AdminRemains

\* Nothing is asked and nobody is settled in the beginning.
LEMMA AdminInitInv == AdminInit => AdminInv
<1> SUFFICES ASSUME AdminInit PROVE AdminInv
  OBVIOUS
<1>1. AdminTypeOK
  BY DEF AdminInit, AdminTypeOK, NothingAsked, Nobody, Known
<1>2. AskedInv
  BY DEF AdminInit, AskedInv, NothingAsked
<1>3. AdminRemains
  BY DEF AdminInit, AdminRemains
<1>4. RoleInv
  BY DEF AdminInit, RoleInv
<1> QED
  BY <1>1, <1>2, <1>3, <1>4 DEF AdminInv

\* A change of a row gives a row, or nobody.
LEMMA AfterType ==
    ASSUME NEW row \in PersonRow, NEW kind \in Kinds
    PROVE  After(row, kind) \in {Nobody} \cup PersonRow
  BY DEF After, Kinds, PersonRow

\* A row is not nobody.
LEMMA RowIsSomebody ==
    ASSUME NEW row \in PersonRow
    PROVE  row # Nobody
  BY DEF Nobody, PersonRow

\* No step breaks the types, or lets anybody ask what administrators may not do to themselves.
LEMMA AdminTypeStep ==
    ASSUME AdminTypeOK, AskedInv, [AdminNext]_adminVars
    PROVE  AdminTypeOK' /\ AskedInv'
<1> USE DEF AdminTypeOK, AskedInv
<1>1. CASE UNCHANGED adminVars
  BY <1>1 DEF adminVars, Known
<1>2. ASSUME NEW p \in Workers, FoundOrganization(p) PROVE AdminTypeOK' /\ AskedInv'
  BY <1>2 DEF FoundOrganization, Known, NothingAsked
<1>3. ASSUME NEW p \in Workers, NEW u \in People, CreateFirstUser(p, u)
      PROVE  AdminTypeOK' /\ AskedInv'
  BY <1>3 DEF CreateFirstUser, Known, NothingAsked, Member
<1>4. ASSUME NEW p \in Workers, NEW a \in People, NEW u \in People, InviteUser(p, a, u)
      PROVE  AdminTypeOK' /\ AskedInv'
  BY <1>4 DEF InviteUser, IsAdmin, Known, Member
<1>5. ASSUME NEW u \in People, AcceptInvitation(u) PROVE AdminTypeOK' /\ AskedInv'
  BY <1>5 DEF AcceptInvitation, Known
<1>6. ASSUME NEW u \in People, NEW admin \in BOOLEAN, CommandCreateUser(u, admin)
      PROVE  AdminTypeOK' /\ AskedInv'
  BY <1>6 DEF CommandCreateUser, Known, Member
<1>7. ASSUME NEW u \in People, GrantAdmin(u) PROVE AdminTypeOK' /\ AskedInv'
  BY <1>7 DEF GrantAdmin, Known
<1>8. ASSUME NEW p \in Workers, NEW a \in People, NEW u \in People, NEW kind \in Kinds,
             AskFor(p, a, u, kind)
      PROVE  AdminTypeOK' /\ AskedInv'
  BY <1>8 DEF AskFor, MayDo, Kinds, Known, NothingAsked
<1>9. ASSUME NEW p \in Workers, DoAsAsked(p) PROVE AdminTypeOK' /\ AskedInv'
  <2> DEFINE u == asked[p].who
             kind == asked[p].what
  <2>1. kind \in Kinds /\ u \in People /\ Known(u)
    BY <1>9 DEF DoAsAsked, Kinds, NothingAsked
  <2>2. person[u] \in PersonRow
    BY <2>1 DEF Known, PersonRow
  <2>3. person' \in [People -> {Nobody} \cup PersonRow]
    BY <1>9, <2>1, <2>2, AfterType DEF DoAsAsked, PersonRow
  <2>4. founded
    BY <2>1 DEF Known
  <2> QED
    BY <1>9, <2>1, <2>3, <2>4 DEF DoAsAsked, Known, NothingAsked, IsAdmin, PersonRow
<1>10. ASSUME NEW p \in Workers, LeaveUndone(p) PROVE AdminTypeOK' /\ AskedInv'
  BY <1>10 DEF LeaveUndone, Known, NothingAsked
<1>11. ASSUME NEW u \in People, DeletePerson(u) PROVE AdminTypeOK' /\ AskedInv'
  BY <1>11 DEF DeletePerson, Known, IsAdmin
<1>12. ASSUME NEW power \in BOOLEAN, ChangePermissions(power) PROVE AdminTypeOK' /\ AskedInv'
  BY <1>12 DEF ChangePermissions, Known
<1>13. ASSUME NEW u \in People, NEW admin \in BOOLEAN, ToldGroups(u, admin)
       PROVE  AdminTypeOK' /\ AskedInv'
  BY <1>13 DEF ToldGroups, Known, IsAdmin
<1> QED
  BY <1>1, <1>2, <1>3, <1>4, <1>5, <1>6, <1>7, <1>8, <1>9, <1>10, <1>11, <1>12, <1>13 DEF AdminNext

\* The group keeps its permission unless the step shakes.
LEMMA RoleStep ==
    ASSUME AdminTypeOK, RoleInv, [AdminNext]_adminVars
    PROVE  RoleInv'
<1> SUFFICES ASSUME ~shaken' PROVE empowered'
  BY DEF RoleInv
<1>t. shaken \in BOOLEAN /\ empowered \in BOOLEAN
  BY DEF AdminTypeOK
<1>k. ASSUME UNCHANGED empowered, shaken => shaken' PROVE empowered'
  BY <1>k DEF RoleInv
<1>1. CASE UNCHANGED adminVars
  BY <1>1, <1>k DEF adminVars
<1>2. ASSUME NEW p \in Workers, FoundOrganization(p) PROVE empowered'
  BY <1>2, <1>k DEF FoundOrganization
<1>3. ASSUME NEW p \in Workers, DoAsAsked(p) PROVE empowered'
  <2>1. UNCHANGED empowered
    BY <1>3 DEF DoAsAsked
  <2>2. ~shaken
    BY <1>3 DEF DoAsAsked
  <2> QED
    BY <2>1, <2>2, <1>k
<1>4. ASSUME NEW p \in Workers, LeaveUndone(p) PROVE empowered'
  BY <1>4, <1>k DEF LeaveUndone
<1>5. ASSUME NEW p \in Workers, NEW u \in People, CreateFirstUser(p, u) PROVE empowered'
  BY <1>5, <1>k DEF CreateFirstUser
<1>6. ASSUME NEW p \in Workers, NEW a \in People, NEW u \in People, InviteUser(p, a, u)
      PROVE  empowered'
  BY <1>6, <1>k DEF InviteUser
<1>7. ASSUME NEW p \in Workers, NEW a \in People, NEW u \in People, NEW kind \in Kinds,
             AskFor(p, a, u, kind)
      PROVE  empowered'
  BY <1>7, <1>k DEF AskFor
<1>8. ASSUME NEW u \in People, AcceptInvitation(u) PROVE empowered'
  BY <1>8, <1>k DEF AcceptInvitation
<1>9. ASSUME NEW u \in People, GrantAdmin(u) PROVE empowered'
  BY <1>9, <1>k DEF GrantAdmin
<1>10. ASSUME NEW u \in People, DeletePerson(u) PROVE empowered'
  <2>1. UNCHANGED empowered
    BY <1>10 DEF DeletePerson
  <2>2. ~shaken
    BY <1>10 DEF DeletePerson
  <2> QED
    BY <2>1, <2>2, <1>k
<1>11. ASSUME NEW u \in People, NEW admin \in BOOLEAN, CommandCreateUser(u, admin)
       PROVE  empowered'
  BY <1>11, <1>k DEF CommandCreateUser
<1>12. ASSUME NEW u \in People, NEW admin \in BOOLEAN, ToldGroups(u, admin) PROVE empowered'
  <2>1. UNCHANGED empowered
    BY <1>12 DEF ToldGroups
  <2>2. ~shaken
    BY <1>12 DEF ToldGroups
  <2> QED
    BY <2>1, <2>2, <1>k
<1>13. ASSUME NEW power \in BOOLEAN, ChangePermissions(power) PROVE empowered'
  BY <1>13 DEF ChangePermissions
<1> QED
  BY <1>1, <1>2, <1>3, <1>4, <1>5, <1>6, <1>7, <1>8, <1>9, <1>10, <1>11, <1>12, <1>13 DEF AdminNext

\* An administrator who does something to somebody else is still one afterwards.
LEMMA AskerStays ==
    ASSUME AdminInv, NEW p \in Workers, DoAsAsked(p),
           NEW a \in People, a = asked[p].by, IsAdmin(a),
           ~(a = asked[p].who /\ asked[p].what = "demote")
    PROVE  IsAdmin(a)'
<1> DEFINE u == asked[p].who
           kind == asked[p].what
<1>1. kind \in Kinds /\ u \in People
  BY DEF DoAsAsked, AdminInv, AdminTypeOK, Kinds, NothingAsked
<1>2. person' = [person EXCEPT ![u] = After(@, kind)]
  BY DEF DoAsAsked
<1>3. person \in [People -> {Nobody} \cup PersonRow]
  BY DEF AdminInv, AdminTypeOK, PersonRow
<1>4. empowered /\ person[a] # Nobody /\ person[a].admin /\ ~person[a].disabled
  BY DEF IsAdmin, Known
<1>5. person'[a] # Nobody /\ person'[a].admin /\ ~person'[a].disabled
  <2>1. CASE a # u
    <3>1. person'[a] = person[a]
      BY <1>1, <1>2, <1>3, <2>1
    <3> QED
      BY <1>4, <3>1
  <2>2. CASE a = u
    <3>1. kind \in {"promote", "enable"}
      BY <1>1, <2>2 DEF AdminInv, AskedInv, Kinds
    <3>2. person[a] \in PersonRow
      BY <1>1, <1>3, <1>4
    <3>3. person'[a] = After(person[a], kind)
      BY <1>1, <1>2, <1>3, <2>2
    <3>4. After(person[a], kind) \in PersonRow
      BY <3>1, <3>2 DEF After, PersonRow
    <3>5. After(person[a], kind).admin /\ ~After(person[a], kind).disabled
      BY <1>4, <3>1, <3>2 DEF After, PersonRow
    <3> QED
      BY <3>3, <3>4, <3>5, RowIsSomebody
  <2> QED
    BY <2>1, <2>2
<1>6. empowered'
  BY <1>4 DEF DoAsAsked
<1> QED
  BY <1>1, <1>5, <1>6 DEF IsAdmin, Known

(***************************************************************************)
(* Each step leaves an administrator, if the step is no overtaken one,     *)
(* nobody gives up the role by it and no command or identity provider      *)
(* takes it.                                                               *)
(***************************************************************************)
LEMMA AdminStep == AdminInv /\ [AdminNext]_adminVars => AdminInv'
<1> SUFFICES ASSUME AdminInv, [AdminNext]_adminVars PROVE AdminInv'
  OBVIOUS
<1>1. AdminTypeOK /\ AskedInv /\ RoleInv /\ AdminRemains
  BY DEF AdminInv
<1>2. AdminTypeOK' /\ AskedInv' /\ RoleInv'
  BY <1>1, AdminTypeStep, RoleStep
<1>3. AdminRemains'
  <2> SUFFICES ASSUME settled', ~shaken' PROVE \E u \in People : IsAdmin(u)'
    BY DEF AdminRemains
  <2> empowered'
    BY <1>2 DEF RoleInv
  <2>1. ASSUME NEW u \in People, IsAdmin(u), person'[u] = person[u] PROVE IsAdmin(u)'
    BY <2>1 DEF IsAdmin, Known
  <2>2. ASSUME settled, ~shaken,
               \A u \in People : IsAdmin(u) => person'[u] = person[u]
        PROVE  \E u \in People : IsAdmin(u)'
    BY <1>1, <2>1, <2>2 DEF AdminRemains
  <2>3. ASSUME settled, ~shaken, UNCHANGED person PROVE \E u \in People : IsAdmin(u)'
    BY <2>2, <2>3
  <2>4. CASE UNCHANGED adminVars
    BY <2>3, <2>4 DEF adminVars
  <2>5. ASSUME NEW p \in Workers, FoundOrganization(p) PROVE \E u \in People : IsAdmin(u)'
    BY <2>3, <2>5 DEF FoundOrganization
  <2>6. ASSUME NEW p \in Workers, NEW u \in People, CreateFirstUser(p, u)
        PROVE  \E x \in People : IsAdmin(x)'
    <3>1. person'[u] = Member(TRUE, FALSE)
      BY <1>1, <2>6 DEF CreateFirstUser, AdminTypeOK
    <3> QED
      BY <3>1 DEF IsAdmin, Known, Member, Nobody
  <2>7. ASSUME NEW p \in Workers, NEW a \in People, NEW u \in People, InviteUser(p, a, u)
        PROVE  \E x \in People : IsAdmin(x)'
    <3>1. \A x \in People : IsAdmin(x) => person'[x] = person[x]
      BY <1>1, <2>7 DEF InviteUser, IsAdmin, Known, AdminTypeOK
    <3> QED
      BY <2>2, <2>7, <3>1 DEF InviteUser
  <2>8. ASSUME NEW u \in People, AcceptInvitation(u) PROVE \E x \in People : IsAdmin(x)'
    <3>1. \A x \in People : IsAdmin(x) => IsAdmin(x)'
      BY <1>1, <2>8 DEF AcceptInvitation, IsAdmin, Known, AdminTypeOK, Nobody
    <3> QED
      BY <1>1, <2>8, <3>1 DEF AcceptInvitation, AdminRemains
  <2>9. ASSUME NEW u \in People, NEW admin \in BOOLEAN, CommandCreateUser(u, admin)
        PROVE  \E x \in People : IsAdmin(x)'
    <3>1. \A x \in People : IsAdmin(x) => person'[x] = person[x]
      BY <1>1, <2>9 DEF CommandCreateUser, IsAdmin, Known, AdminTypeOK
    <3> QED
      BY <2>2, <2>9, <3>1 DEF CommandCreateUser
  <2>10. ASSUME NEW u \in People, GrantAdmin(u) PROVE \E x \in People : IsAdmin(x)'
    <3>1. \A x \in People : IsAdmin(x) => person'[x] = person[x]
      BY <1>1, <2>10 DEF GrantAdmin, IsAdmin, Known, AdminTypeOK
    <3> QED
      BY <2>2, <2>10, <3>1 DEF GrantAdmin
  <2>11. ASSUME NEW p \in Workers, NEW a \in People, NEW u \in People, NEW kind \in Kinds,
                AskFor(p, a, u, kind)
         PROVE  \E x \in People : IsAdmin(x)'
    BY <2>3, <2>11 DEF AskFor
  <2>12. ASSUME NEW p \in Workers, DoAsAsked(p) PROVE \E u \in People : IsAdmin(u)'
    <3> DEFINE a == asked[p].by
    <3>1. a \in People
      BY <1>1, <2>12 DEF DoAsAsked, AdminTypeOK, Kinds, NothingAsked
    <3>2. IsAdmin(a) /\ ~(a = asked[p].who /\ asked[p].what = "demote")
      BY <2>12 DEF DoAsAsked
    <3> QED
      BY <2>12, <3>1, <3>2, AskerStays
  <2>13. ASSUME NEW p \in Workers, LeaveUndone(p) PROVE \E u \in People : IsAdmin(u)'
    BY <2>3, <2>13 DEF LeaveUndone
  <2>14. ASSUME NEW u \in People, DeletePerson(u) PROVE \E x \in People : IsAdmin(x)'
    <3>1. ~IsAdmin(u) /\ settled /\ ~shaken
      BY <2>14 DEF DeletePerson
    <3>2. \A x \in People : IsAdmin(x) => person'[x] = person[x]
      BY <1>1, <2>14, <3>1 DEF DeletePerson, AdminTypeOK
    <3> QED
      BY <2>2, <3>1, <3>2
  <2>15. ASSUME NEW power \in BOOLEAN, ChangePermissions(power)
         PROVE  \E x \in People : IsAdmin(x)'
    <3>1. settled /\ ~shaken /\ UNCHANGED person
      BY <2>15 DEF ChangePermissions
    <3> QED
      BY <2>3, <3>1
  <2>16. ASSUME NEW u \in People, NEW admin \in BOOLEAN, ToldGroups(u, admin)
         PROVE  \E x \in People : IsAdmin(x)'
    <3>1. settled /\ ~shaken /\ (IsAdmin(u) => admin)
      BY <2>16 DEF ToldGroups
    <3>2. PICK x \in People : IsAdmin(x)
      BY <1>1, <3>1 DEF AdminRemains
    <3>3. person'[x] # Nobody /\ person'[x].admin /\ ~person'[x].disabled
      BY <1>1, <2>16, <3>1, <3>2 DEF ToldGroups, AdminTypeOK, IsAdmin, Known, Nobody
    <3> QED
      BY <3>3 DEF IsAdmin, Known
  <2> QED
    BY <2>4, <2>5, <2>6, <2>7, <2>8, <2>9, <2>10, <2>11, <2>12, <2>13, <2>14, <2>15, <2>16
       DEF AdminNext
<1> QED
  BY <1>2, <1>3 DEF AdminInv

\* The invariant is inductive.
LEMMA AdminInvariant == AdminSpec => []AdminInv
  BY AdminInitInv, AdminStep, PTL DEF AdminSpec

(***************************************************************************)
(* Users, what processes were asked, and the organization keep their       *)
(* types, and nobody is known before there is an organization.             *)
(***************************************************************************)
THEOREM AdminTypeCorrect == AdminSpec => []AdminTypeOK
<1>1. AdminInv => AdminTypeOK
  BY DEF AdminInv
<1> QED
  BY <1>1, AdminInvariant, PTL

(***************************************************************************)
(* After setup an administrator remains (handlers/users.py:310, :334), for *)
(* any number of users and of concurrent requests: the checks that nobody  *)
(* disables or deletes the own account suffice, as long as no request is   *)
(* committed for somebody who has lost the role, no administrator leaves   *)
(* the group, and neither a command (cli/users.py:206, cli/groups.py:69)   *)
(* nor the groups told at a sign-in (models/users.py:240) take the role    *)
(* from one.                                                               *)
(***************************************************************************)
THEOREM AnAdminRemains == AdminSpec => []AdminRemains
<1>1. AdminInv => AdminRemains
  BY DEF AdminInv
<1> QED
  BY <1>1, AdminInvariant, PTL
-----------------------------------------------------------------------------
(* Grants *)

Waits(p, u) == looking[p] # NotLooking /\ looking[p].grantee = u

\* Nobody else is waiting, what was found is still so, and the rows are as was decided
Undisturbed(u) ==
    /\ \A p, other \in Granters : Waits(p, u) /\ Waits(other, u) => p = other
    /\ \A p \in Granters : Waits(p, u) => (looking[p].found <=> grants[u][looking[p].grantor] = 1)
    /\ MayModify(u) <=> u \in wanted
    /\ \A r \in Grantors : grants[u][r] <= 1

GrantInv == GrantTypeOK /\ \A u \in Grantees \ entangled : Undisturbed(u)

\* There are no rows and no requests in the beginning.
LEMMA GrantInitInv == GrantInit => GrantInv
  BY DEF GrantInit, GrantInv, GrantTypeOK, Undisturbed, Waits, MayModify

\* Steps about another user change nothing for this one.
LEMMA OthersGrants ==
    ASSUME GrantTypeOK, NEW u \in Grantees, Undisturbed(u),
           grants'[u] = grants[u], u \in wanted' <=> u \in wanted,
           \A p \in Granters : Waits(p, u)' => Waits(p, u) /\ looking'[p] = looking[p]
    PROVE  Undisturbed(u)'
  BY DEF Undisturbed, Waits, MayModify, GrantTypeOK

\* No step breaks the types.
LEMMA GrantTypeStep == GrantTypeOK /\ [GrantNext]_grantVars => GrantTypeOK'
<1> SUFFICES ASSUME GrantTypeOK, [GrantNext]_grantVars PROVE GrantTypeOK'
  OBVIOUS
<1> USE DEF GrantTypeOK
<1>1. CASE UNCHANGED grantVars
  BY <1>1 DEF grantVars
<1>2. ASSUME NEW p \in Granters, NEW u \in Grantees, NEW r \in Grantors, LookForGrant(p, u, r)
      PROVE  GrantTypeOK'
  BY <1>2 DEF LookForGrant
<1>3. ASSUME NEW p \in Granters, Grant(p) PROVE GrantTypeOK'
  BY <1>3 DEF Grant
<1>4. ASSUME NEW p \in Granters, DropGrant(p) PROVE GrantTypeOK'
  BY <1>4 DEF DropGrant
<1>5. ASSUME NEW u \in Grantees, Revoke(u) PROVE GrantTypeOK'
  BY <1>5 DEF Revoke
<1> QED
  BY <1>1, <1>2, <1>3, <1>4, <1>5 DEF GrantNext

\* Looking for a grant: the second request about a user entangles it, and the first finds what is.
LEMMA LookForGrantStep ==
    ASSUME GrantInv, NEW p \in Granters, NEW u \in Grantees, NEW r \in Grantors,
           LookForGrant(p, u, r),
           NEW x \in Grantees, x \notin entangled'
    PROVE  Undisturbed(x)'
<1>1. GrantTypeOK /\ x \notin entangled /\ Undisturbed(x)
  BY DEF GrantInv, LookForGrant
<1>2. CASE x # u
  BY <1>1, <1>2, OthersGrants DEF LookForGrant, GrantTypeOK, Waits
<1>3. CASE x = u
  <2>1. \A other \in Granters : ~Waits(other, u)
    BY <1>3 DEF LookForGrant, Awaited, Waits
  <2>2. looking' = [looking EXCEPT ![p] =
            [grantee |-> u, grantor |-> r, found |-> grants[u][r] = 1]]
    BY DEF LookForGrant
  <2>3. \A other \in Granters \ {p} : ~Waits(other, u)'
    BY <2>1, <2>2, <1>1 DEF GrantTypeOK, Waits
  <2>4. looking'[p].grantor = r /\ (looking'[p].found <=> grants[u][r] = 1)
    BY <2>2, <1>1 DEF GrantTypeOK
  <2>5. UNCHANGED <<grants, wanted>>
    BY DEF LookForGrant
  <2> QED
    BY <1>1, <1>3, <2>3, <2>4, <2>5 DEF Undisturbed, MayModify
<1> QED
  BY <1>2, <1>3

\* A grant adds the row that was missing when it looked, and that nobody has added since.
LEMMA GrantStep ==
    ASSUME GrantInv, NEW p \in Granters, Grant(p), NEW x \in Grantees, x \notin entangled'
    PROVE  Undisturbed(x)'
<1>1. GrantTypeOK /\ x \notin entangled /\ Undisturbed(x)
  BY DEF GrantInv, Grant
<1>2. PICK u \in Grantees, r \in Grantors :
          /\ u = looking[p].grantee /\ r = looking[p].grantor
          /\ looking[p].found \in BOOLEAN /\ looking[p] # NotLooking
  BY <1>1 DEF Grant, GrantTypeOK
<1>3. looking' = [looking EXCEPT ![p] = NotLooking] /\ wanted' = wanted \cup {u}
  BY <1>2 DEF Grant
<1>4. CASE x # u
  <2>1. grants'[x] = grants[x]
    BY <1>1, <1>2, <1>4 DEF Grant, GrantTypeOK
  <2> QED
    BY <1>1, <1>2, <1>3, <1>4, <2>1, OthersGrants DEF GrantTypeOK, Waits
<1>5. CASE x = u
  <2>1. \A other \in Granters : ~Waits(other, u)'
    <3>1. \A other \in Granters \ {p} : ~Waits(other, u)
      BY <1>1, <1>2, <1>5 DEF Undisturbed, Waits
    <3> QED
      BY <1>1, <1>3, <3>1 DEF GrantTypeOK, Waits
  <2>2. \A s \in Grantors : grants[u][s] \in Nat /\ grants[u][s] <= 1
    BY <1>1, <1>2, <1>5 DEF Undisturbed, GrantTypeOK
  <2>3. looking[p].found <=> grants[u][r] = 1
    BY <1>1, <1>2, <1>5 DEF Undisturbed, Waits
  <2>4. grants'[u][r] = 1 /\ \A s \in Grantors : grants'[u][s] <= 1
    <3>1. CASE looking[p].found
      BY <1>2, <2>2, <2>3, <3>1 DEF Grant
    <3>2. CASE ~looking[p].found
      <4>1. grants[u][r] = 0
        BY <1>2, <2>2, <2>3, <3>2
      <4>2. grants' = [grants EXCEPT ![u][r] = @ + 1]
        BY <1>2, <3>2 DEF Grant
      <4> QED
        BY <1>1, <1>2, <2>2, <4>1, <4>2 DEF GrantTypeOK
    <3> QED
      BY <3>1, <3>2
  <2>5. MayModify(u)' /\ u \in wanted'
    BY <1>2, <1>3, <2>4 DEF MayModify
  <2> QED
    BY <1>5, <2>1, <2>4, <2>5 DEF Undisturbed
<1> QED
  BY <1>4, <1>5

\* A revocation that nobody waits beside leaves no rows, whatever there was before.
LEMMA RevokeStep ==
    ASSUME GrantInv, NEW u \in Grantees, Revoke(u), NEW x \in Grantees, x \notin entangled'
    PROVE  Undisturbed(x)'
<1>1. GrantTypeOK /\ UNCHANGED looking
  BY DEF GrantInv, Revoke
<1>2. CASE x # u
  <2>1. x \notin entangled
    BY <1>2 DEF Revoke
  <2>2. Undisturbed(x)
    BY <2>1 DEF GrantInv
  <2> QED
    BY <1>1, <1>2, <2>2, OthersGrants DEF Revoke, GrantTypeOK, Waits
<1>3. CASE x = u
  <2>1. \A p \in Granters : ~Waits(p, u)
    BY <1>3 DEF Revoke, Awaited, Waits
  <2>2. grants'[u] = [r \in Grantors |-> 0] /\ u \notin wanted'
    BY <1>1 DEF Revoke, GrantTypeOK
  <2> QED
    BY <1>1, <1>3, <2>1, <2>2 DEF Undisturbed, MayModify, Waits
<1> QED
  BY <1>2, <1>3

\* Every step keeps the rows as decided, but for users whose requests overlap.
LEMMA GrantInvStep == GrantInv /\ [GrantNext]_grantVars => GrantInv'
<1> SUFFICES ASSUME GrantInv, [GrantNext]_grantVars PROVE GrantInv'
  OBVIOUS
<1>1. GrantTypeOK'
  BY GrantTypeStep DEF GrantInv
<1>2. ASSUME NEW x \in Grantees, x \notin entangled' PROVE Undisturbed(x)'
  <2>1. CASE UNCHANGED grantVars
    BY <1>2, <2>1 DEF grantVars, GrantInv, Undisturbed, Waits, MayModify
  <2>2. ASSUME NEW p \in Granters, NEW u \in Grantees, NEW r \in Grantors, LookForGrant(p, u, r)
        PROVE  Undisturbed(x)'
    BY <1>2, <2>2, LookForGrantStep
  <2>3. ASSUME NEW p \in Granters, Grant(p) PROVE Undisturbed(x)'
    BY <1>2, <2>3, GrantStep
  <2>4. ASSUME NEW p \in Granters, DropGrant(p) PROVE Undisturbed(x)'
    <3>1. GrantTypeOK /\ Undisturbed(x)
      BY <1>2, <2>4 DEF DropGrant, GrantInv
    <3> QED
      BY <2>4, <3>1, OthersGrants DEF DropGrant, GrantTypeOK, Waits
  <2>5. ASSUME NEW u \in Grantees, Revoke(u) PROVE Undisturbed(x)'
    BY <1>2, <2>5, RevokeStep
  <2> QED
    BY <2>1, <2>2, <2>3, <2>4, <2>5 DEF GrantNext
<1> QED
  BY <1>1, <1>2 DEF GrantInv

\* The invariant is inductive.
LEMMA GrantInvariant == GrantSpec => []GrantInv
  BY GrantInitInv, GrantInvStep, PTL DEF GrantSpec

(* Permissions, requests that look for them and the history keep their     *)
(* types.                                                                  *)
THEOREM GrantTypeCorrect == GrantSpec => []GrantTypeOK
  <1>1. GrantInv => GrantTypeOK
    BY DEF GrantInv
  <1> QED BY <1>1, GrantInvariant, PTL

(***************************************************************************)
(* The rows of AccessPermission say what was last decided about each user, *)
(* and none is there twice, for any number of users and of concurrent      *)
(* requests, unless two requests about one user have overlapped            *)
(* (models/users.py:331-355): nothing else can go wrong, and a revocation  *)
(* alone repairs it.                                                       *)
(***************************************************************************)
THEOREM GrantsFollowDecisions == GrantSpec => []GrantsAsDecided
<1>1. GrantInv => GrantsAsDecided
  BY DEF GrantInv, Undisturbed, GrantsAsDecided
<1> QED
  BY <1>1, GrantInvariant, PTL
-----------------------------------------------------------------------------
(* Sharing *)

KeyTypeOK ==
    /\ apiKey = [k \in ApiKeys |-> apiKey[k]]
    /\ \A k \in ApiKeys : apiKey[k] # NoKey =>
          apiKey[k] \in [active : BOOLEAN, dashboard : Dashboards]
    /\ work = [p \in Sharers |-> work[p]]
    /\ \A p \in Sharers : work[p].phase = "unshare" =>
          /\ work[p].key \in ApiKeys /\ apiKey[work[p].key] # NoKey
          /\ work[p].dashboard \in Dashboards

\* A dashboard that was not shared twice has one active key, which all that unshare it have found
OneKey(d) ==
    /\ \A k, l \in ActiveKeys(d) : k = l
    /\ \A p \in Sharers : Unsharing(p, d) => ActiveKeys(d) \subseteq {work[p].key}

SharedInv == KeyTypeOK /\ \A d \in Dashboards \ manyShares : OneKey(d)

LEMMA InitShared == SharingInit => SharedInv
BY DEF SharingInit, SharedInv, KeyTypeOK, OneKey, ActiveKeys, IsActive, Unsharing, NoKey, NoWork

\* A step that changes neither keys nor unshares.
LEMMA KeysUntouched ==
    ASSUME SharedInv, apiKey' = apiKey, manyShares' = manyShares,
           work' = [p \in Sharers |-> work'[p]],
           \A p \in Sharers : work'[p].phase = "unshare" => work'[p] = work[p]
    PROVE  SharedInv'
BY DEF SharedInv, KeyTypeOK, OneKey, ActiveKeys, IsActive, Unsharing

LEMMA FindKeyStep ==
    ASSUME SharedInv, NEW p \in Sharers, NEW d \in Dashboards, FindKey(p, d)
    PROVE  SharedInv'
<1>1. PICK k \in ActiveKeys(d) :
         work' = [work EXCEPT ![p] = [phase |-> "unshare", dashboard |-> d, key |-> k]]
  BY DEF FindKey
<1>2. k \in ApiKeys /\ apiKey[k] # NoKey
  BY DEF ActiveKeys, IsActive
<1>3. /\ work' = [q \in Sharers |-> work'[q]]
      /\ work'[p] = [phase |-> "unshare", dashboard |-> d, key |-> k]
      /\ \A q \in Sharers \ {p} : work'[q] = work[q]
  BY <1>1 DEF SharedInv, KeyTypeOK
<1>4. apiKey' = apiKey /\ manyShares' = manyShares
  BY DEF FindKey
<1>5. KeyTypeOK'
  BY <1>2, <1>3, <1>4 DEF SharedInv, KeyTypeOK
<1>6. ASSUME NEW e \in Dashboards \ manyShares PROVE OneKey(e)'
  <2>1. OneKey(e) /\ ActiveKeys(e)' = ActiveKeys(e)
    BY <1>4 DEF SharedInv, ActiveKeys, IsActive
  <2>2. Unsharing(p, e)' => ActiveKeys(e) \subseteq {k}
    BY <1>3, <2>1 DEF OneKey, Unsharing
  <2> QED
    BY <1>3, <2>1, <2>2 DEF OneKey, Unsharing
<1> QED
  BY <1>4, <1>5, <1>6 DEF SharedInv

LEMMA ShareStep ==
    ASSUME SharedInv, NEW d \in Dashboards, NEW k \in ApiKeys, Share(k, d)
    PROVE  SharedInv'
<1>1. /\ apiKey[k] = NoKey
      /\ apiKey' = [apiKey EXCEPT ![k] = [active |-> TRUE, dashboard |-> d]]
      /\ work' = work
      /\ manyShares' = IF ActiveKeys(d) # {} \/ \E p \in Sharers : Unsharing(p, d)
                       THEN manyShares \cup {d} ELSE manyShares \ {d}
  BY DEF Share
<1>2. /\ apiKey' = [l \in ApiKeys |-> apiKey'[l]]
      /\ apiKey'[k] = [active |-> TRUE, dashboard |-> d]
      /\ \A l \in ApiKeys \ {k} : apiKey'[l] = apiKey[l]
  BY <1>1 DEF SharedInv, KeyTypeOK
<1>3. KeyTypeOK'
  BY <1>1, <1>2 DEF SharedInv, KeyTypeOK, NoKey
<1>4. ASSUME NEW e \in Dashboards \ manyShares' PROVE OneKey(e)'
  <2>1. CASE e = d
    <3>1. ActiveKeys(d) = {} /\ ~ \E p \in Sharers : Unsharing(p, d)
      BY <1>1, <1>4, <2>1
    <3>2. ActiveKeys(d)' \subseteq {k}
      BY <1>2, <3>1 DEF ActiveKeys, IsActive
    <3>3. ~ \E p \in Sharers : Unsharing(p, d)'
      BY <1>1, <3>1 DEF Unsharing
    <3> QED
      BY <2>1, <3>2, <3>3 DEF OneKey
  <2>2. CASE e # d
    <3>1. OneKey(e)
      BY <1>1, <1>4, <2>2 DEF SharedInv
    <3>2. ActiveKeys(e)' \subseteq ActiveKeys(e)
      BY <1>2, <2>2 DEF ActiveKeys, IsActive
    <3> QED
      BY <1>1, <3>1, <3>2 DEF OneKey, Unsharing
  <2> QED
    BY <2>1, <2>2
<1> QED
  BY <1>3, <1>4 DEF SharedInv

LEMMA UnshareStep ==
    ASSUME SharedInv, NEW p \in Sharers, Unshare(p), NEW d, d = work[p].dashboard
    PROVE  /\ SharedInv'
           /\ d \notin manyShares => ActiveKeys(d)' = {}
<1>k. PICK k : k = work[p].key
  OBVIOUS
<1>1. /\ k \in ApiKeys /\ apiKey[k] \in [active : BOOLEAN, dashboard : Dashboards]
      /\ d \in Dashboards /\ Unsharing(p, d)
  BY <1>k DEF Unshare, SharedInv, KeyTypeOK, Unsharing
<1>2. /\ apiKey' = [apiKey EXCEPT ![k].active = FALSE]
      /\ work' = [work EXCEPT ![p] = NoWork]
      /\ manyShares' = manyShares
  BY <1>k DEF Unshare
<1>3. /\ apiKey' = [l \in ApiKeys |-> apiKey'[l]]
      /\ apiKey'[k] \in [active : BOOLEAN, dashboard : Dashboards]
      /\ ~apiKey'[k].active
      /\ \A l \in ApiKeys \ {k} : apiKey'[l] = apiKey[l]
  BY <1>1, <1>2 DEF SharedInv, KeyTypeOK
<1>4. /\ work' = [q \in Sharers |-> work'[q]]
      /\ work'[p] = NoWork
      /\ \A q \in Sharers \ {p} : work'[q] = work[q]
  BY <1>2 DEF SharedInv, KeyTypeOK
<1>5. apiKey'[k] # NoKey
  BY <1>3 DEF NoKey
<1>6. KeyTypeOK'
  BY <1>3, <1>4, <1>5 DEF SharedInv, KeyTypeOK, NoWork
<1>7. \A e : ActiveKeys(e)' \subseteq ActiveKeys(e) \ {k}
  BY <1>3 DEF ActiveKeys, IsActive
<1>8. ASSUME NEW e \in Dashboards \ manyShares' PROVE OneKey(e)'
  <2>1. OneKey(e)
    BY <1>2 DEF SharedInv
  <2>2. \A q \in Sharers : Unsharing(q, e)' => Unsharing(q, e) /\ work'[q] = work[q]
    BY <1>4 DEF Unsharing, NoWork
  <2> QED
    BY <1>7, <2>1, <2>2 DEF OneKey
<1>9. d \notin manyShares => ActiveKeys(d)' = {}
  <2> SUFFICES ASSUME d \notin manyShares PROVE ActiveKeys(d)' = {}
    OBVIOUS
  <2>1. ActiveKeys(d) \subseteq {k}
    BY <1>1, <1>k DEF SharedInv, OneKey
  <2> QED
    BY <1>7, <2>1
<1> QED
  BY <1>6, <1>8, <1>9 DEF SharedInv

LEMMA SharedStep == SharedInv /\ [SharingNext]_sharingVars => SharedInv'
<1> SUFFICES ASSUME SharedInv, [SharingNext]_sharingVars PROVE SharedInv'
  OBVIOUS
<1>1. work = [p \in Sharers |-> work[p]]
  BY DEF SharedInv, KeyTypeOK
<1>2. ASSUME NEW p \in Sharers, NEW d \in Dashboards, InsertDashboard(p, d) PROVE SharedInv'
  BY <1>1, <1>2, KeysUntouched DEF InsertDashboard
<1>3. ASSUME NEW p \in Sharers, CommitDashboard(p) PROVE SharedInv'
  BY <1>1, <1>3, KeysUntouched DEF CommitDashboard, NoWork
<1>4. ASSUME NEW p \in Sharers, GiveUp(p) PROVE SharedInv'
  BY <1>1, <1>4, KeysUntouched DEF GiveUp, NoWork
<1>5. ASSUME \/ \E w \in Widgets, d \in Dashboards, q \in Queries : AddWidget(w, d, q)
             \/ \E w \in Widgets : RemoveWidget(w)
             \/ \E q \in Queries : ArchiveQuery(q)
             \/ UNCHANGED sharingVars
      PROVE  SharedInv'
  BY <1>1, <1>5, KeysUntouched DEF AddWidget, RemoveWidget, ArchiveQuery, sharingVars
<1> QED
  BY <1>2, <1>3, <1>4, <1>5, FindKeyStep, ShareStep, UnshareStep DEF SharingNext

(***************************************************************************)
(* However requests to share and to unshare overlap, an unshare closes a   *)
(* dashboard that was not shared while it was already, nor while another   *)
(* unshare had a key in hand (handlers/dashboards.py:354).                 *)
(***************************************************************************)
THEOREM UnsharedIsClosed == SharingSpec => UnshareCloses
<1> DEFINE A == \A p \in Sharers :
                   LET d == work[p].dashboard
                   IN  Unshare(p) /\ d \notin manyShares =>
                          \A q \in Queries : \A k \in DashboardApiKeys(q)' :
                             apiKey'[k].dashboard # d
<1>1. SharedInv /\ [SharingNext]_sharingVars => [A]_sharingVars
  <2> SUFFICES ASSUME SharedInv, NEW p \in Sharers, Unshare(p),
                      work[p].dashboard \notin manyShares, NEW q \in Queries,
                      NEW k \in DashboardApiKeys(q)'
               PROVE  apiKey'[k].dashboard # work[p].dashboard
    OBVIOUS
  <2>1. PICK d : d = work[p].dashboard
    OBVIOUS
  <2>2. ActiveKeys(d)' = {}
    BY <2>1, UnshareStep
  <2>3. k \in ApiKeys /\ IsActive(k)'
    BY DEF DashboardApiKeys
  <2> QED
    BY <2>1, <2>2, <2>3 DEF ActiveKeys
<1> QED
  BY <1>1, InitShared, SharedStep, PTL DEF SharingSpec, UnshareCloses

\* Numbers that are there have a least one.
LEMMA LeastNumber ==
    ASSUME NEW S, S \subseteq Nat, S # {}
    PROVE  \E n \in S : \A m \in S : n <= m
  <1> DEFINE R == OpToRel(<, Nat)
  <1>1. IsWellFoundedOn(R, Nat)
    BY NatLessThanWellFounded, Zenon
  <1>2. \A x, y \in Nat : y < x => <<y, x>> \in R
    BY Zenon DEF OpToRel
  <1> HIDE DEF R
  <1>3. PICK n \in S : \A m \in S : ~(<<m, n>> \in R)
    BY <1>1, WFMin
  <1>4. ASSUME NEW m \in S PROVE n <= m
    <2>1. m \in Nat /\ n \in Nat
      OBVIOUS
    <2>2. ~(m < n)
      BY <1>2, <1>3, <2>1
    <2> QED BY <2>1, <2>2
  <1> QED BY <1>4

\* The slug of a new dashboard is one that no committed dashboard has.
LEMMA FreshSlug ==
    ASSUME NEW d \in Dashboards, FreeNumbers(d) # {}
    PROVE  FreeSlug(d) \in Slugs /\ ~Taken(FreeSlug(d))
  <1>1. FreeNumbers(d) \subseteq Nat
    BY SlugAssumption DEF FreeNumbers
  <1>2. \E n \in FreeNumbers(d) : \A m \in FreeNumbers(d) : n <= m
    BY <1>1, LeastNumber
  <1>3. FirstFree(d) \in FreeNumbers(d)
    BY <1>2 DEF FirstFree
  <1>4. FirstFree(d) \in 0..MaxTries /\ ~Taken(SlugOf[<<StemOf[d], FirstFree(d)>>])
    BY <1>3 DEF FreeNumbers
  <1>5. <<StemOf[d], FirstFree(d)>> \in DOMAIN SlugOf
    BY <1>4, SlugAssumption
  <1> QED BY <1>4, <1>5 DEF FreeSlug, Slugs

\* Who creates a dashboard knows a slug that no other one has, unless they are created at once.
SlugInv ==
    /\ SlugNamesOne
    /\ \A p, q \in Sharers : Creating(p) /\ Creating(q) /\ p # q =>
          {work[p].dashboard, work[q].dashboard} \subseteq createdAtOnce
    /\ \A p \in Sharers, e \in Dashboards :
          Creating(p) /\ e # work[p].dashboard /\ Made(e) /\ work[p].slug = slug[e] =>
             {work[p].dashboard, e} \subseteq createdAtOnce

NamedInv == SharingTypeOK /\ SlugInv

\* Creations, unshares and idle processes are told apart by their phase.
LEMMA WorkPhases ==
    ASSUME SharingTypeOK, NEW p \in Sharers
    PROVE  /\ work[p].phase = "idle" => work[p] = NoWork
           /\ Creating(p) => work[p] \in [phase : {"create"}, dashboard : Dashboards, slug : Slugs]
           /\ work[p].phase = "unshare" =>
                 work[p] \in [phase : {"unshare"}, dashboard : Dashboards, key : ApiKeys]
           /\ ~(work[p] = NoWork /\ Creating(p))
  BY DEF SharingTypeOK, NoWork, Creating

\* A slug that is stored is not the one that stands for none.
LEMMA SlugsAreSlugs == NoSlug \notin Slugs
  BY SlugAssumption DEF Slugs, NoSlug

LEMMA NamedInit == SharingInit => NamedInv
  <1> SUFFICES ASSUME SharingInit PROVE NamedInv
    OBVIOUS
  <1>1. SharingTypeOK
    BY DEF SharingInit, SharingTypeOK
  <1>2. SlugInv
    BY DEF SharingInit, SlugInv, SlugNamesOne, Made, Creating, NoWork
  <1> QED BY <1>1, <1>2 DEF NamedInv

\* A step that neither names nor begins to name anything.
LEMMA NamesUntouched ==
    ASSUME NamedInv, slug' = slug, createdAtOnce' = createdAtOnce,
           \A p \in Sharers : Creating(p)' => work'[p] = work[p]
    PROVE  SlugInv'
  BY DEF NamedInv, SlugInv, SlugNamesOne, Made, Creating

\* A dashboard is inserted, next to others that are being created or not.
LEMMA InsertNames ==
    ASSUME NamedInv, NEW p \in Sharers, NEW d \in Dashboards, InsertDashboard(p, d)
    PROVE  NamedInv'
  <1> DEFINE s == FreeSlug(d)
             x == [phase |-> "create", dashboard |-> d, slug |-> s]
             others == { work[q].dashboard : q \in { q \in Sharers : Creating(q) } }
  <1>1. /\ work[p] = NoWork /\ FreeNumbers(d) # {}
        /\ work' = [work EXCEPT ![p] = x]
        /\ createdAtOnce' = IF others = {} THEN createdAtOnce ELSE createdAtOnce \cup others \cup {d}
        /\ UNCHANGED <<slug, widget, archivedQuery, apiKey, manyShares>>
    BY DEF InsertDashboard
  <1>2. s \in Slugs /\ ~Taken(s)
    BY <1>1, FreshSlug
  <1>3. x.phase = "create" /\ x.dashboard = d /\ x.slug = s
    OBVIOUS
  <1>4. x \in [phase : {"create"}, dashboard : Dashboards, slug : Slugs]
    BY <1>2
  <1>5. work'[p] = x /\ \A q \in Sharers \ {p} : work'[q] = work[q]
    BY <1>1 DEF NamedInv, SharingTypeOK
  <1>6. others \subseteq Dashboards
    BY WorkPhases DEF NamedInv
  <1>7. SharingTypeOK'
    <2>1. work' \in [Sharers ->
              {NoWork} \cup [phase : {"create"}, dashboard : Dashboards, slug : Slugs]
                   \cup [phase : {"unshare"}, dashboard : Dashboards, key : ApiKeys]]
      BY <1>1, <1>4 DEF NamedInv, SharingTypeOK
    <2>2. createdAtOnce' \cup manyShares' \subseteq Dashboards
      BY <1>1, <1>6 DEF NamedInv, SharingTypeOK
    <2> QED BY <1>1, <2>1, <2>2 DEF NamedInv, SharingTypeOK, Made
  <1>8. createdAtOnce \subseteq createdAtOnce'
    BY <1>1
  <1>9. \A q \in Sharers : Creating(q) => work[q].dashboard \in others
    OBVIOUS
  <1>10. \A q \in Sharers : Creating(q) => {d, work[q].dashboard} \subseteq createdAtOnce'
    BY <1>1, <1>9
  <1> HIDE DEF x, s, others
  <1>11. \A q \in Sharers : Creating(q)' => q = p \/ (Creating(q) /\ work'[q] = work[q])
    BY <1>5 DEF Creating
  <1>12. SlugNamesOne'
    BY <1>1, <1>8 DEF NamedInv, SlugInv, SlugNamesOne, Made
  <1>13. ASSUME NEW q \in Sharers, NEW r \in Sharers, Creating(q)', Creating(r)', q # r
         PROVE  {work'[q].dashboard, work'[r].dashboard} \subseteq createdAtOnce'
    <2>1. CASE q = p
      BY <1>3, <1>5, <1>10, <1>11, <1>13, <2>1
    <2>2. CASE r = p
      BY <1>3, <1>5, <1>10, <1>11, <1>13, <2>2
    <2>3. CASE q # p /\ r # p
      BY <1>8, <1>11, <1>13, <2>3 DEF NamedInv, SlugInv
    <2> QED BY <2>1, <2>2, <2>3
  <1>14. ASSUME NEW q \in Sharers, NEW e \in Dashboards, Creating(q)', e # work'[q].dashboard,
                Made(e)', work'[q].slug = slug'[e]
         PROVE  {work'[q].dashboard, e} \subseteq createdAtOnce'
    <2>1. Made(e) /\ slug'[e] = slug[e]
      BY <1>1, <1>14 DEF Made
    <2>2. CASE q = p
      BY <1>2, <1>3, <1>5, <1>14, <2>1, <2>2 DEF Taken
    <2>3. CASE q # p
      BY <1>8, <1>11, <1>14, <2>1, <2>3 DEF NamedInv, SlugInv
    <2> QED BY <2>2, <2>3
  <1> QED BY <1>7, <1>12, <1>13, <1>14 DEF NamedInv, SlugInv

\* The dashboard is committed with the slug that was free when it was inserted.
LEMMA CommitNames ==
    ASSUME NamedInv, NEW p \in Sharers, CommitDashboard(p)
    PROVE  NamedInv'
  <1> DEFINE d == work[p].dashboard
             s == work[p].slug
  <1>1. /\ Creating(p) /\ slug' = [slug EXCEPT ![d] = s]
        /\ work' = [work EXCEPT ![p] = NoWork]
        /\ UNCHANGED <<widget, archivedQuery, apiKey, createdAtOnce, manyShares>>
    BY DEF CommitDashboard
  <1>2. d \in Dashboards /\ s \in Slugs
    BY <1>1, WorkPhases DEF NamedInv
  <1>3. slug'[d] = s /\ \A e \in Dashboards \ {d} : slug'[e] = slug[e]
    BY <1>1, <1>2 DEF NamedInv, SharingTypeOK
  <1>4. work'[p] = NoWork /\ \A q \in Sharers \ {p} : work'[q] = work[q]
    BY <1>1 DEF NamedInv, SharingTypeOK
  <1>5. SharingTypeOK'
    <2>1. slug' \in [Dashboards -> Slugs \cup {NoSlug}]
      BY <1>1, <1>2 DEF NamedInv, SharingTypeOK
    <2>2. work' \in [Sharers ->
              {NoWork} \cup [phase : {"create"}, dashboard : Dashboards, slug : Slugs]
                   \cup [phase : {"unshare"}, dashboard : Dashboards, key : ApiKeys]]
      BY <1>1 DEF NamedInv, SharingTypeOK
    <2>3. \A e \in Dashboards : slug[e] # NoSlug => slug'[e] # NoSlug
      BY <1>2, <1>3, SlugsAreSlugs
    <2>4. \A w \in Widgets : widget[w] # NoWidget => slug'[widget[w].dashboard] # NoSlug
      BY <2>3 DEF NamedInv, SharingTypeOK, Made
    <2> QED BY <1>1, <2>1, <2>2, <2>4 DEF NamedInv, SharingTypeOK, Made
  <1>6. \A q \in Sharers : Creating(q)' => q # p /\ Creating(q) /\ work'[q] = work[q]
    BY <1>4 DEF Creating, NoWork
  <1>7. \A e \in Dashboards : e # d /\ Made(e) /\ s = slug[e] => {d, e} \subseteq createdAtOnce
    BY <1>1 DEF NamedInv, SlugInv
  <1> HIDE DEF d, s
  <1>8. \A e \in Dashboards : Made(e)' => e = d \/ (Made(e) /\ slug'[e] = slug[e])
    BY <1>3 DEF Made
  <1>9. ASSUME NEW e \in Dashboards, NEW f \in Dashboards, e # f, Made(e)', slug'[e] = slug'[f]
        PROVE  {e, f} \subseteq createdAtOnce
    <2>1. Made(f)'
      BY <1>9 DEF Made
    <2>2. CASE e = d
      BY <1>3, <1>7, <1>8, <1>9, <2>1, <2>2
    <2>3. CASE f = d
      BY <1>3, <1>7, <1>8, <1>9, <2>1, <2>3
    <2>4. CASE e # d /\ f # d
      BY <1>3, <1>8, <1>9, <2>1, <2>4 DEF NamedInv, SlugInv, SlugNamesOne
    <2> QED BY <2>2, <2>3, <2>4
  <1>10. SlugNamesOne'
    BY <1>1, <1>9 DEF SlugNamesOne
  <1>11. ASSUME NEW q \in Sharers, NEW r \in Sharers, Creating(q)', Creating(r)', q # r
         PROVE  {work'[q].dashboard, work'[r].dashboard} \subseteq createdAtOnce
    BY <1>6, <1>11 DEF NamedInv, SlugInv
  <1>12. ASSUME NEW q \in Sharers, NEW e \in Dashboards, Creating(q)', e # work'[q].dashboard,
                Made(e)', work'[q].slug = slug'[e]
         PROVE  {work'[q].dashboard, e} \subseteq createdAtOnce
    <2>1. Creating(q) /\ q # p /\ work'[q] = work[q]
      BY <1>6, <1>12
    <2>2. CASE e = d
      BY <1>1, <2>1, <2>2 DEF NamedInv, SlugInv, d
    <2>3. CASE e # d
      BY <1>3, <1>8, <1>12, <2>1, <2>3 DEF NamedInv, SlugInv
    <2> QED BY <2>2, <2>3
  <1> QED BY <1>1, <1>5, <1>10, <1>11, <1>12 DEF NamedInv, SlugInv

\* Widgets come and go; queries are archived.
LEMMA WidgetsName ==
    ASSUME NamedInv,
           \/ \E w \in Widgets, d \in Dashboards, q \in Queries : AddWidget(w, d, q)
           \/ \E w \in Widgets : RemoveWidget(w)
           \/ \E q \in Queries : ArchiveQuery(q)
    PROVE  NamedInv'
  <1>1. UNCHANGED <<slug, apiKey, work, createdAtOnce, manyShares>>
    BY DEF AddWidget, RemoveWidget, ArchiveQuery
  <1>2. SlugInv'
    BY <1>1, NamesUntouched
  <1> DEFINE Placed ==
        /\ widget' \in [Widgets -> {NoWidget} \cup [dashboard : Dashboards, query : Queries]]
        /\ \A w \in Widgets : widget'[w] # NoWidget => Made(widget'[w].dashboard)
        /\ archivedQuery' \subseteq Queries
  <1>3. Placed
    <2>1. ASSUME NEW w \in Widgets, NEW d \in Dashboards, NEW q \in Queries, AddWidget(w, d, q)
          PROVE  Placed
      <3> DEFINE x == [dashboard |-> d, query |-> q]
      <3>1. x \in [dashboard : Dashboards, query : Queries] /\ x.dashboard = d
        OBVIOUS
      <3> HIDE DEF x
      <3>2. widget' = [widget EXCEPT ![w] = x] /\ Made(d) /\ archivedQuery' = archivedQuery
        BY <2>1 DEF AddWidget, x
      <3> QED BY <3>1, <3>2 DEF NamedInv, SharingTypeOK
    <2>2. ASSUME NEW w \in Widgets, RemoveWidget(w) PROVE Placed
      BY <2>2 DEF RemoveWidget, NamedInv, SharingTypeOK
    <2>3. ASSUME NEW q \in Queries, ArchiveQuery(q) PROVE Placed
      <3>1. /\ widget' = [w \in Widgets |-> IF widget[w].query = q THEN NoWidget ELSE widget[w]]
            /\ archivedQuery' = archivedQuery \cup {q}
        BY <2>3 DEF ArchiveQuery
      <3> QED BY <3>1 DEF NamedInv, SharingTypeOK
    <2> QED BY <2>1, <2>2, <2>3
  <1>4. SharingTypeOK'
    BY <1>1, <1>3 DEF NamedInv, SharingTypeOK, Made
  <1> QED BY <1>2, <1>4 DEF NamedInv

\* Keys are made, found and given up; processes die.
LEMMA SharesName ==
    ASSUME NamedInv,
           \/ \E k \in ApiKeys, d \in Dashboards : Share(k, d)
           \/ \E p \in Sharers, d \in Dashboards : FindKey(p, d)
           \/ \E p \in Sharers : Unshare(p) \/ GiveUp(p)
    PROVE  NamedInv'
  <1>1. UNCHANGED <<slug, widget, archivedQuery, createdAtOnce>>
    BY DEF Share, FindKey, Unshare, GiveUp
  <1> DEFINE Keyed == /\ apiKey' \in [ApiKeys -> {NoKey} \cup [active : BOOLEAN, dashboard : Dashboards]]
                      /\ manyShares' \subseteq Dashboards
                      /\ work' \in [Sharers ->
                            {NoWork} \cup [phase : {"create"}, dashboard : Dashboards, slug : Slugs]
                               \cup [phase : {"unshare"}, dashboard : Dashboards, key : ApiKeys]]
                      /\ \A p \in Sharers : Creating(p)' => work'[p] = work[p]
  <1>2. ASSUME NEW k \in ApiKeys, NEW d \in Dashboards, Share(k, d) PROVE Keyed
    BY <1>2 DEF Share, NamedInv, SharingTypeOK
  <1>3. ASSUME NEW p \in Sharers, NEW x,
               x = NoWork \/ x \in [phase : {"unshare"}, dashboard : Dashboards, key : ApiKeys],
               work' = [work EXCEPT ![p] = x]
        PROVE  /\ work' \in [Sharers ->
                     {NoWork} \cup [phase : {"create"}, dashboard : Dashboards, slug : Slugs]
                        \cup [phase : {"unshare"}, dashboard : Dashboards, key : ApiKeys]]
               /\ \A q \in Sharers : Creating(q)' => work'[q] = work[q]
    BY <1>3 DEF NamedInv, SharingTypeOK, Creating, NoWork
  <1>4. ASSUME NEW p \in Sharers, NEW d \in Dashboards, FindKey(p, d) PROVE Keyed
    <2>1. PICK k \in ApiKeys :
             work' = [work EXCEPT ![p] = [phase |-> "unshare", dashboard |-> d, key |-> k]]
      BY <1>4 DEF FindKey, ActiveKeys
    <2>2. apiKey' = apiKey /\ manyShares' = manyShares
      BY <1>4 DEF FindKey
    <2>3. [phase |-> "unshare", dashboard |-> d, key |-> k]
             \in [phase : {"unshare"}, dashboard : Dashboards, key : ApiKeys]
      OBVIOUS
    <2> QED BY <1>3, <2>1, <2>2, <2>3 DEF NamedInv, SharingTypeOK
  <1>5. ASSUME NEW p \in Sharers, Unshare(p) PROVE Keyed
    <2> DEFINE k == work[p].key
    <2>1. /\ apiKey' = [apiKey EXCEPT ![k].active = FALSE] /\ work' = [work EXCEPT ![p] = NoWork]
          /\ manyShares' = manyShares
      BY <1>5 DEF Unshare
    <2>2. k \in ApiKeys
      BY <1>5, WorkPhases DEF Unshare, NamedInv
    <2> HIDE DEF k
    <2>3. [apiKey[k] EXCEPT !.active = FALSE] \in {NoKey} \cup [active : BOOLEAN, dashboard : Dashboards]
      <3>1. PICK x : x = apiKey[k]
        OBVIOUS
      <3>2. x = NoKey \/ x \in [active : BOOLEAN, dashboard : Dashboards]
        BY <2>2, <3>1 DEF NamedInv, SharingTypeOK
      <3>3. CASE x = NoKey
        <4>1. [NoKey EXCEPT !.active = FALSE] = NoKey
          BY DEF NoKey
        <4> QED BY <3>1, <3>3, <4>1
      <3>4. CASE x \in [active : BOOLEAN, dashboard : Dashboards]
        <4>1. [x EXCEPT !.active = FALSE] \in [active : BOOLEAN, dashboard : Dashboards]
          BY <3>4
        <4> QED BY <3>1, <4>1
      <3> QED BY <3>2, <3>3, <3>4
    <2>4. apiKey' \in [ApiKeys -> {NoKey} \cup [active : BOOLEAN, dashboard : Dashboards]]
      BY <2>1, <2>3 DEF NamedInv, SharingTypeOK
    <2> QED BY <1>3, <2>1, <2>4 DEF NamedInv, SharingTypeOK
  <1>6. ASSUME NEW p \in Sharers, GiveUp(p) PROVE Keyed
    <2>1. work' = [work EXCEPT ![p] = NoWork] /\ apiKey' = apiKey /\ manyShares' = manyShares
      BY <1>6 DEF GiveUp
    <2> QED BY <1>3, <2>1 DEF NamedInv, SharingTypeOK
  <1>7. Keyed
    BY <1>2, <1>4, <1>5, <1>6
  <1>8. SlugInv'
    BY <1>1, <1>7, NamesUntouched
  <1>9. SharingTypeOK'
    BY <1>1, <1>7 DEF NamedInv, SharingTypeOK, Made
  <1> QED BY <1>8, <1>9 DEF NamedInv

LEMMA NamedNext == NamedInv /\ [SharingNext]_sharingVars => NamedInv'
  <1> SUFFICES ASSUME NamedInv, [SharingNext]_sharingVars PROVE NamedInv'
    OBVIOUS
  <1>1. CASE UNCHANGED sharingVars
    <2>1. SlugInv'
      BY <1>1, NamesUntouched DEF sharingVars
    <2> QED BY <1>1, <2>1 DEF sharingVars, NamedInv, SharingTypeOK, Made
  <1>2. CASE SharingNext
    BY <1>2, InsertNames, CommitNames, WidgetsName, SharesName DEF SharingNext
  <1> QED BY <1>1, <1>2

LEMMA NamedHolds == SharingSpec => []NamedInv
  BY NamedInit, NamedNext, PTL DEF SharingSpec

(* Slugs, widgets, keys and what processes have in hand are what they can  *)
(* be, and widgets are on dashboards there are.                            *)
THEOREM SharingTypeCorrect == SharingSpec => []SharingTypeOK
  <1>1. NamedInv => SharingTypeOK
    BY DEF NamedInv
  <1> QED BY <1>1, NamedHolds, PTL

(* However many processes create dashboards of one name, and give up on    *)
(* the way, no two have one slug that were not created at once             *)
(* (models/__init__.py:227).                                               *)
THEOREM SlugsNameOne == SharingSpec => []SlugNamesOne
  <1>1. NamedInv => SlugNamesOne
    BY DEF NamedInv, SlugInv
  <1> QED BY <1>1, NamedHolds, PTL
-----------------------------------------------------------------------------
(* Streams *)

\* A configuration that sends events only where a table was created for them
Founded(plan) ==
    \A k \in Keys :
        LET s == plan.sink[k]
        IN  s # NoStream =>
               /\ s \in table
               /\ Described[s].key = k
               /\ ~Described[s].internal => plan.route[k] = s

CreationType ==
    [phase : {"inserted", "created", "planned", "writing", "written"},
     stream : StreamIds, plan : PlanType, alone : BOOLEAN, torn : BOOLEAN]

\* The table of a stream that is being created is there before its routes are planned
Sound(c) ==
    Busy(c) =>
        /\ creation[c] \in CreationType
        /\ creation[c].phase # "inserted" => creation[c].stream \in table
        /\ Founded(creation[c].plan)

\* Every committed stream has its table
TablesInv ==
    /\ creation = [c \in Creators |-> creation[c]]
    /\ streamRow \subseteq table
    /\ \A c \in Creators : Sound(c)
    /\ Founded(vectorConfig.plan)

LEMMA NoRoutesFounded == Founded(NoRoutes) /\ Founded(NoRoutes)' /\ NoRoutes \in PlanType
BY DEF Founded, NoRoutes, PlanType

\* What was founded stays so when a table is added.
LEMMA FoundedStays ==
    ASSUME NEW plan, Founded(plan), table \subseteq table'
    PROVE  Founded(plan)'
BY DEF Founded

\* All that a plan is made of has a table.
LEMMA PlansFounded ==
    ASSUME NEW rows, rows \subseteq table, NEW plan \in Plans(rows)
    PROVE  Founded(plan) /\ plan \in PlanType
BY DEF Plans, KeyedBy, Founded, PlanType

\* A request nothing happened to but that another one came, or wrote the file.
LEMMA SoundStays ==
    ASSUME NEW d, Sound(d), table \subseteq table',
           \/ creation'[d] = creation[d]
           \/ Busy(d) /\ creation'[d] = [creation[d] EXCEPT !.alone = FALSE]
           \/ Busy(d) /\ creation'[d] = [creation[d] EXCEPT !.torn = TRUE]
    PROVE  Sound(d)'
<1>1. CASE creation'[d] = creation[d]
  BY <1>1, FoundedStays DEF Sound, Busy
<1>2. CASE creation'[d] # creation[d]
  <2>1. Busy(d) /\ creation[d] \in CreationType
    BY <1>2 DEF Sound
  <2>2. /\ creation'[d] \in CreationType
        /\ creation'[d].phase = creation[d].phase
        /\ creation'[d].stream = creation[d].stream
        /\ creation'[d].plan = creation[d].plan
    BY <1>2, <2>1 DEF CreationType
  <2>3. Founded(creation[d].plan)'
    <3>1. PICK plan : plan = creation[d].plan
      OBVIOUS
    <3>2. Founded(plan)'
      BY <2>1, <3>1, FoundedStays DEF Sound
    <3> QED
      BY <2>2, <3>1, <3>2
  <2> QED
    BY <2>1, <2>2, <2>3 DEF Sound
<1> QED
  BY <1>1, <1>2

LEMMA InitTables == StreamInit => TablesInv
BY NoRoutesFounded DEF StreamInit, TablesInv, Sound, Busy, NoCreation, Good

\* The request of one process changes, tables are only added, and what is configured is founded.
LEMMA OneCreation ==
    ASSUME TablesInv, NEW c \in Creators, NEW x, creation' = [creation EXCEPT ![c] = x],
           Sound(c)', table \subseteq table', streamRow' \subseteq table',
           \/ vectorConfig' = vectorConfig
           \/ vectorConfig'.plan = NoRoutes
    PROVE  TablesInv'
<1>1. creation' = [d \in Creators |-> creation'[d]]
  BY DEF TablesInv
<1>2. ASSUME NEW d \in Creators \ {c} PROVE Sound(d)'
  <2>1. creation'[d] = creation[d]
    BY DEF TablesInv
  <2> QED
    BY <2>1, SoundStays DEF TablesInv
<1>3. Founded(vectorConfig.plan)'
  <2>1. PICK plan : plan = vectorConfig'.plan
    OBVIOUS
  <2>2. Founded(plan)'
    BY <2>1, FoundedStays, NoRoutesFounded DEF TablesInv
  <2> QED
    BY <2>1, <2>2
<1> QED
  BY <1>1, <1>2, <1>3 DEF TablesInv

LEMMA TablesStep == TablesInv /\ [StreamNext]_streamVars => TablesInv'
<1> SUFFICES ASSUME TablesInv, [StreamNext]_streamVars PROVE TablesInv'
  OBVIOUS
<1>1. ASSUME NEW c \in Creators, NEW s \in StreamIds, InsertStream(c, s) PROVE TablesInv'
  <2>1. table' = table /\ streamRow' = streamRow /\ vectorConfig' = vectorConfig
    BY <1>1 DEF InsertStream
  <2>2. /\ creation' = [d \in Creators |-> creation'[d]]
        /\ creation'[c].phase = "inserted" /\ creation'[c].plan = NoRoutes
        /\ creation'[c] \in CreationType
    BY <1>1, NoRoutesFounded DEF InsertStream, CreationType
  <2>3. Sound(c)'
    BY <2>2, NoRoutesFounded DEF Sound
  <2>4. ASSUME NEW d \in Creators \ {c} PROVE Sound(d)'
    <3>1. \/ creation'[d] = creation[d]
          \/ Busy(d) /\ creation'[d] = [creation[d] EXCEPT !.alone = FALSE]
      BY <1>1 DEF InsertStream
    <3> QED
      BY <2>1, <3>1, SoundStays DEF TablesInv
  <2>5. Founded(vectorConfig.plan)'
    BY <2>1 DEF TablesInv, Founded
  <2> QED
    BY <2>1, <2>2, <2>3, <2>4, <2>5 DEF TablesInv
<1>2. ASSUME NEW c \in Creators, CreateTable(c) PROVE TablesInv'
  <2>1. Busy(c) /\ creation[c] \in CreationType /\ Founded(creation[c].plan)
    BY <1>2 DEF CreateTable, NoCreation, TablesInv, Sound, Busy
  <2>2. /\ creation'[c] \in CreationType
        /\ creation'[c].stream = creation[c].stream
        /\ creation'[c].plan = creation[c].plan
        /\ creation[c].stream \in table'
    BY <1>2, <2>1 DEF CreateTable, TablesInv, CreationType
  <2>3. PICK plan : plan = creation[c].plan
    OBVIOUS
  <2>4. Founded(plan)'
    BY <1>2, <2>1, <2>3, FoundedStays DEF CreateTable
  <2>5. Sound(c)'
    BY <2>2, <2>3, <2>4 DEF Sound
  <2>6. \E x : creation' = [creation EXCEPT ![c] = x]
    BY <1>2 DEF CreateTable
  <2> QED
    BY <1>2, <2>5, <2>6, OneCreation DEF CreateTable, TablesInv
<1>3. ASSUME NEW c \in Creators, ReadStreams(c) PROVE TablesInv'
  <2>1. Busy(c) /\ creation[c].phase = "created" /\ creation[c] \in CreationType
    BY <1>3 DEF ReadStreams, NoCreation, TablesInv, Sound, Busy
  <2>2. VisibleRows(c) \subseteq table
    BY <2>1 DEF VisibleRows, TablesInv, Sound
  <2>3. PICK plan \in Plans(VisibleRows(c)) :
           creation' = [creation EXCEPT ![c].phase = "planned", ![c].plan = plan]
    BY <1>3 DEF ReadStreams
  <2>4. Founded(plan) /\ plan \in PlanType
    BY <2>2, PlansFounded
  <2>5. table' = table /\ streamRow' = streamRow /\ vectorConfig' = vectorConfig
    BY <1>3 DEF ReadStreams
  <2>6. /\ creation'[c] \in CreationType
        /\ creation'[c].stream = creation[c].stream
        /\ creation'[c].plan = plan
    BY <2>1, <2>3, <2>4 DEF TablesInv, CreationType
  <2>7. Founded(plan)'
    BY <2>4, <2>5, FoundedStays
  <2>8. creation[c].stream \in table
    BY <2>1 DEF TablesInv, Sound
  <2>9. Sound(c)'
    BY <2>5, <2>6, <2>7, <2>8 DEF Sound
  <2>10. \E x : creation' = [creation EXCEPT ![c] = x]
    BY <2>3
  <2> QED
    BY <2>5, <2>9, <2>10, OneCreation DEF TablesInv
<1>4. ASSUME NEW c \in Creators, OpenConfig(c) PROVE TablesInv'
  <2>1. Busy(c) /\ creation[c].phase = "planned" /\ creation[c] \in CreationType
    BY <1>4 DEF OpenConfig, NoCreation, TablesInv, Sound, Busy
  <2>2. /\ creation'[c] \in CreationType
        /\ creation'[c].stream = creation[c].stream
        /\ creation'[c].plan = creation[c].plan
    BY <1>4, <2>1 DEF OpenConfig, TablesInv, CreationType
  <2>3. table' = table /\ streamRow' = streamRow /\ vectorConfig'.plan = NoRoutes
    BY <1>4 DEF OpenConfig, Bad
  <2>4. creation[c].stream \in table /\ Founded(creation[c].plan)
    BY <2>1 DEF TablesInv, Sound
  <2>5. Sound(c)'
    BY <2>2, <2>3, <2>4 DEF Sound, Founded
  <2>6. \E x : creation' = [creation EXCEPT ![c] = x]
    BY <1>4 DEF OpenConfig
  <2> QED
    BY <2>3, <2>5, <2>6, OneCreation DEF TablesInv
<1>5. ASSUME NEW c \in Creators, WriteConfig(c) PROVE TablesInv'
  <2>1. Busy(c) /\ creation[c].phase = "writing" /\ creation[c] \in CreationType
    BY <1>5 DEF WriteConfig, NoCreation, TablesInv, Sound, Busy
  <2>2. creation[c].stream \in table /\ Founded(creation[c].plan)
    BY <2>1 DEF TablesInv, Sound
  <2>3. table' = table /\ streamRow' = streamRow
    BY <1>5 DEF WriteConfig
  <2>4. vectorConfig'.plan = creation[c].plan \/ vectorConfig'.plan = NoRoutes
    BY <1>5 DEF WriteConfig, Good, Bad
  <2>5. Founded(vectorConfig.plan)'
    BY <2>2, <2>3, <2>4, NoRoutesFounded DEF Founded
  <2>6. /\ creation' = [d \in Creators |-> creation'[d]]
        /\ creation'[c] = [creation[c] EXCEPT !.phase = "written"]
    BY <1>5 DEF WriteConfig
  <2>7. /\ creation'[c] \in CreationType
        /\ creation'[c].stream = creation[c].stream
        /\ creation'[c].plan = creation[c].plan
    BY <2>1, <2>6 DEF CreationType
  <2>8. Sound(c)'
    BY <2>2, <2>3, <2>7 DEF Sound, Founded
  <2>9. ASSUME NEW d \in Creators \ {c} PROVE Sound(d)'
    <3>1. \/ creation'[d] = creation[d]
          \/ Busy(d) /\ creation'[d] = [creation[d] EXCEPT !.torn = TRUE]
      BY <1>5 DEF WriteConfig, Busy, NoCreation
    <3> QED
      BY <2>3, <3>1, SoundStays DEF TablesInv
  <2> QED
    BY <2>3, <2>5, <2>6, <2>8, <2>9 DEF TablesInv
<1>6. ASSUME NEW c \in Creators, CommitStream(c) PROVE TablesInv'
  <2>1. Busy(c) /\ creation[c].phase = "written"
    BY <1>6 DEF CommitStream, NoCreation, Busy
  <2>2. creation[c].stream \in table
    BY <2>1 DEF TablesInv, Sound
  <2>3. creation' = [creation EXCEPT ![c] = NoCreation]
    BY <1>6 DEF CommitStream
  <2>4. Sound(c)'
    BY <2>3 DEF Sound, Busy, TablesInv
  <2> QED
    BY <1>6, <2>2, <2>3, <2>4, OneCreation DEF CommitStream, TablesInv
<1>7. ASSUME NEW c \in Creators, FailStream(c) PROVE TablesInv'
  <2>1. creation' = [creation EXCEPT ![c] = NoCreation]
    BY <1>7 DEF FailStream
  <2>2. Sound(c)'
    BY <2>1 DEF Sound, Busy, TablesInv
  <2> QED
    BY <1>7, <2>1, <2>2, OneCreation DEF FailStream, TablesInv
<1>8. ASSUME (\E d \in Sources : EditUrl(d)) \/ UNCHANGED streamVars PROVE TablesInv'
  <2>1. UNCHANGED <<streamRow, creation, vectorConfig, table>>
    BY <1>8 DEF EditUrl, streamVars
  <2> QED
    BY <2>1 DEF TablesInv, Sound, Busy, Founded
<1> QED
  BY <1>1, <1>2, <1>3, <1>4, <1>5, <1>6, <1>7, <1>8 DEF StreamNext

(***************************************************************************)
(* Events never arrive in the table of another stream, nor in one nobody   *)
(* has asked for, for any streams whose route keys collide and any         *)
(* requests that overlap, fail or tear the file (ingest/vector.py:50-59).  *)
(***************************************************************************)
THEOREM EventsKeepToTheirTable == StreamSpec => []EventsReachTheirTable
<1>1. TablesInv => EventsReachTheirTable
  BY DEF TablesInv, Founded, EventsReachTheirTable
<1> QED
  BY <1>1, InitTables, TablesStep, PTL DEF StreamSpec

\* Streams that are there, or are being created, have tables of their own
OwnTables ==
    /\ \A s, t \in streamRow : s # t => ~Same(s, t)
    /\ \A c \in Creators, s \in streamRow : Busy(c) => ~Same(s, creation[c].stream)
    /\ \A c, d \in Creators :
          Busy(c) /\ Busy(d) /\ c # d => ~Same(creation[c].stream, creation[d].stream)

\* A request that was never next to another one plans for all the streams there are, and writes that
NextToNone(c) ==
    Busy(c) /\ creation[c].alone =>
        /\ \A d \in Creators : Busy(d) => d = c
        /\ ~creation[c].torn
        /\ creation[c].phase \in {"planned", "writing", "written"} =>
              creation[c].plan \in Plans(streamRow \cup {creation[c].stream})
        /\ creation[c].phase = "written" => vectorConfig = Good(creation[c].plan)

ConfigType == [state : {"good", "empty", "garbled"}, plan : PlanType]

StreamInv ==
    /\ streamRow \subseteq StreamIds /\ table \subseteq StreamIds /\ withoutUrl \subseteq Sources
    /\ vectorConfig \in ConfigType
    /\ creation \in [Creators -> {NoCreation} \cup CreationType]
    /\ OwnTables
    /\ \A c \in Creators : NextToNone(c)

\* Requests and idle processes are told apart, and so are the streams they are about.
LEMMA Requests ==
    ASSUME StreamInv, NEW c \in Creators
    PROVE  /\ Busy(c) => creation[c] \in CreationType
           /\ creation[c].phase # "idle" => Busy(c)
  BY DEF StreamInv, Busy, NoCreation, CreationType

LEMMA PlansAreTyped == NoRoutes \in PlanType /\ \A rows : rows \subseteq StreamIds => Plans(rows) \subseteq PlanType
  BY DEF Plans, PlanType, NoRoutes, KeyedBy

LEMMA ConfigIsTyped ==
    /\ \A plan \in PlanType : Good(plan) \in ConfigType
    /\ Bad("empty") \in ConfigType /\ Bad("garbled") \in ConfigType
  BY PlansAreTyped DEF Good, Bad, ConfigType

LEMMA StreamInvInit == StreamInit => StreamInv
  <1> SUFFICES ASSUME StreamInit PROVE StreamInv
    OBVIOUS
  <1>1. vectorConfig \in ConfigType
    BY ConfigIsTyped, PlansAreTyped DEF StreamInit
  <1>2. \A c \in Creators : ~Busy(c)
    BY DEF StreamInit, Busy
  <1> QED BY <1>1, <1>2 DEF StreamInit, StreamInv, OwnTables, NextToNone

(* One request goes on, which disturbs none that was never next to another *)
(* one, since there is none.                                               *)
LEMMA GoesOn ==
    ASSUME StreamInv, NEW c \in Creators, Busy(c), Busy(c)',
           creation' \in [Creators -> {NoCreation} \cup CreationType],
           creation'[c].stream = creation[c].stream,
           \A d \in Creators \ {c} : Busy(d)' =>
              /\ Busy(d) /\ creation'[d].stream = creation[d].stream
              /\ creation'[d].alone = creation[d].alone,
           streamRow' = streamRow, withoutUrl' = withoutUrl, table' \subseteq StreamIds,
           vectorConfig' \in ConfigType,
           NextToNone(c)'
    PROVE  StreamInv'
  <1>1. OwnTables'
    BY DEF StreamInv, OwnTables
  <1>2. ASSUME NEW d \in Creators, d # c PROVE NextToNone(d)'
    BY <1>2 DEF StreamInv, NextToNone
  <1> QED BY <1>1, <1>2 DEF StreamInv

\* A stream is inserted, and from now on none of the requests there are is alone.
LEMMA InsertStreamKeeps ==
    ASSUME StreamInv, NEW c \in Creators, NEW s \in StreamIds, InsertStream(c, s)
    PROVE  StreamInv'
  <1> DEFINE others == { d \in Creators : Busy(d) }
             x == [phase |-> "inserted", stream |-> s, plan |-> NoRoutes,
                   alone |-> others = {}, torn |-> FALSE]
  <1>1. /\ ~Busy(c) /\ IsFree(s) /\ UNCHANGED <<streamRow, vectorConfig, table, withoutUrl>>
        /\ creation' = [d \in Creators |->
              IF d = c THEN x
              ELSE IF d \in others THEN [creation[d] EXCEPT !.alone = FALSE] ELSE creation[d]]
    BY DEF InsertStream
  <1>2. /\ x \in CreationType /\ x.phase = "inserted" /\ x.stream = s /\ x.torn = FALSE
        /\ x.alone => others = {}
    BY PlansAreTyped DEF CreationType
  <1> HIDE DEF x
  <1>3. creation'[c] = x
    BY <1>1
  <1>4. ASSUME NEW d \in Creators, d # c
        PROVE  /\ creation'[d] \in {NoCreation} \cup CreationType
               /\ Busy(d)' => /\ Busy(d) /\ creation'[d].stream = creation[d].stream
                              /\ ~creation'[d].alone
    <2>1. CASE Busy(d)
      <3>1. creation[d] \in CreationType /\ creation'[d] = [creation[d] EXCEPT !.alone = FALSE]
        BY <1>1, <1>4, <2>1, Requests
      <3> QED BY <2>1, <3>1 DEF CreationType
    <2>2. CASE ~Busy(d)
      BY <1>1, <1>4, <2>2 DEF Busy
    <2> QED BY <2>1, <2>2
  <1>5. creation' \in [Creators -> {NoCreation} \cup CreationType]
    BY <1>1, <1>2, <1>3, <1>4
  <1>6. OwnTables'
    <2>1. /\ \A t \in streamRow : ~Same(s, t) /\ ~Same(t, s)
          /\ \A d \in Creators : Busy(d) => ~Same(s, creation[d].stream) /\ ~Same(creation[d].stream, s)
      BY <1>1 DEF IsFree, Same
    <2> QED BY <1>1, <1>2, <1>3, <1>4, <2>1 DEF StreamInv, OwnTables
  <1>7. NextToNone(c)'
    <2>1. x.alone => \A d \in Creators : Busy(d)' => d = c
      BY <1>2, <1>4
    <2> QED BY <1>2, <1>3, <2>1 DEF NextToNone
  <1>8. \A d \in Creators : NextToNone(d)'
    BY <1>4, <1>7 DEF NextToNone
  <1> QED BY <1>1, <1>5, <1>6, <1>8 DEF StreamInv

\* ClickHouse makes the table.
LEMMA CreateTableKeeps ==
    ASSUME StreamInv, NEW c \in Creators, CreateTable(c)
    PROVE  StreamInv'
  <1> DEFINE x == [creation[c] EXCEPT !.phase = "created"]
  <1>1. /\ creation[c].phase = "inserted" /\ table' = table \cup {creation[c].stream}
        /\ creation' = [creation EXCEPT ![c] = x] /\ UNCHANGED <<streamRow, vectorConfig, withoutUrl>>
    BY DEF CreateTable
  <1>2. Busy(c) /\ creation[c] \in CreationType
    BY <1>1, Requests
  <1>3. /\ x \in CreationType /\ x.phase = "created" /\ x.stream = creation[c].stream
        /\ x.alone = creation[c].alone /\ x.torn = creation[c].torn
    BY <1>2 DEF CreationType
  <1> HIDE DEF x
  <1>4. /\ creation'[c] = x /\ \A d \in Creators \ {c} : creation'[d] = creation[d]
        /\ creation' \in [Creators -> {NoCreation} \cup CreationType]
    BY <1>1, <1>3 DEF StreamInv
  <1>5. x # NoCreation
    BY <1>3 DEF NoCreation
  <1>6. \A d \in Creators : Busy(d)' = Busy(d)
    BY <1>2, <1>4, <1>5 DEF Busy
  <1>7. NextToNone(c)'
    BY <1>1, <1>2, <1>3, <1>4, <1>6 DEF StreamInv, NextToNone
  <1>8. table' \subseteq StreamIds
    BY <1>1, <1>2 DEF StreamInv, CreationType
  <1> QED BY <1>1, <1>2, <1>3, <1>4, <1>6, <1>7, <1>8, GoesOn DEF StreamInv

\* The rows are read, with the one that is not committed.
LEMMA ReadStreamsKeeps ==
    ASSUME StreamInv, NEW c \in Creators, ReadStreams(c)
    PROVE  StreamInv'
  <1>1. PICK plan \in Plans(VisibleRows(c)) :
           creation' = [creation EXCEPT ![c] = [[creation[c] EXCEPT !.phase = "planned"] EXCEPT !.plan = plan]]
    <2>1. creation[c].phase = "created"
      BY DEF ReadStreams
    <2>2. creation[c] \in CreationType
      BY <2>1, Requests
    <2> QED BY <2>2 DEF ReadStreams, StreamInv, CreationType
  <1> DEFINE x == [[creation[c] EXCEPT !.phase = "planned"] EXCEPT !.plan = plan]
  <1>2. creation[c].phase = "created" /\ UNCHANGED <<streamRow, vectorConfig, table, withoutUrl>>
    BY DEF ReadStreams
  <1>3. Busy(c) /\ creation[c] \in CreationType
    BY <1>2, Requests
  <1>4. VisibleRows(c) = streamRow \cup {creation[c].stream} /\ VisibleRows(c) \subseteq StreamIds
    BY <1>3 DEF VisibleRows, StreamInv, CreationType
  <1>5. plan \in PlanType
    BY <1>4, PlansAreTyped
  <1>6. /\ x \in CreationType /\ x.phase = "planned" /\ x.stream = creation[c].stream
        /\ x.plan = plan /\ x.alone = creation[c].alone /\ x.torn = creation[c].torn
    BY <1>3, <1>5 DEF CreationType
  <1>7. creation' = [creation EXCEPT ![c] = x]
    BY <1>1
  <1> HIDE DEF x
  <1>8. /\ creation'[c] = x /\ \A d \in Creators \ {c} : creation'[d] = creation[d]
        /\ creation' \in [Creators -> {NoCreation} \cup CreationType]
    BY <1>6, <1>7 DEF StreamInv
  <1>9. x # NoCreation
    BY <1>6 DEF NoCreation
  <1>10. \A d \in Creators : Busy(d)' = Busy(d)
    BY <1>3, <1>8, <1>9 DEF Busy
  <1>11. creation'[c].plan \in Plans(streamRow \cup {creation[c].stream})
    BY <1>4, <1>6, <1>8
  <1>12. NextToNone(c)'
    <2> SUFFICES ASSUME creation[c].alone
                 PROVE  /\ \A d \in Creators : Busy(d)' => d = c
                        /\ ~creation'[c].torn
                        /\ creation'[c].plan \in Plans(streamRow' \cup {creation'[c].stream})
      BY <1>6, <1>8 DEF NextToNone
    <2>1. NextToNone(c)
      BY DEF StreamInv
    <2> QED BY <1>2, <1>3, <1>6, <1>8, <1>10, <1>11, <2>1 DEF NextToNone
  <1> QED BY <1>2, <1>3, <1>6, <1>8, <1>10, <1>12, GoesOn DEF StreamInv

\* The file is emptied.
LEMMA OpenConfigKeeps ==
    ASSUME StreamInv, NEW c \in Creators, OpenConfig(c)
    PROVE  StreamInv'
  <1> DEFINE x == [creation[c] EXCEPT !.phase = "writing"]
  <1>1. /\ creation[c].phase = "planned" /\ vectorConfig' = Bad("empty")
        /\ creation' = [creation EXCEPT ![c] = x] /\ UNCHANGED <<streamRow, table, withoutUrl>>
    BY DEF OpenConfig
  <1>2. Busy(c) /\ creation[c] \in CreationType
    BY <1>1, Requests
  <1>3. /\ x \in CreationType /\ x.phase = "writing" /\ x.stream = creation[c].stream
        /\ x.alone = creation[c].alone /\ x.torn = creation[c].torn /\ x.plan = creation[c].plan
    BY <1>2 DEF CreationType
  <1> HIDE DEF x
  <1>4. /\ creation'[c] = x /\ \A d \in Creators \ {c} : creation'[d] = creation[d]
        /\ creation' \in [Creators -> {NoCreation} \cup CreationType]
    BY <1>1, <1>3 DEF StreamInv
  <1>5. x # NoCreation
    BY <1>3 DEF NoCreation
  <1>6. \A d \in Creators : Busy(d)' = Busy(d)
    BY <1>2, <1>4, <1>5 DEF Busy
  <1>7. NextToNone(c)'
    <2>1. NextToNone(c)
      BY DEF StreamInv
    <2>2. streamRow' \cup {creation'[c].stream} = streamRow \cup {creation[c].stream}
      BY <1>1, <1>3, <1>4
    <2> QED BY <1>1, <1>2, <1>3, <1>4, <1>6, <2>1, <2>2 DEF NextToNone
  <1> QED BY <1>1, <1>2, <1>3, <1>4, <1>6, <1>7, GoesOn, ConfigIsTyped DEF StreamInv

\* The file is written, and what others write sticks out.
LEMMA WriteConfigKeeps ==
    ASSUME StreamInv, NEW c \in Creators, WriteConfig(c)
    PROVE  StreamInv'
  <1> DEFINE x == [creation[c] EXCEPT !.phase = "written"]
  <1>1. /\ creation[c].phase = "writing" /\ UNCHANGED <<streamRow, table, withoutUrl>>
        /\ creation' = [d \in Creators |->
              IF d = c THEN x
              ELSE IF creation[d].phase = "writing" THEN [creation[d] EXCEPT !.torn = TRUE]
              ELSE creation[d]]
    BY DEF WriteConfig
  <1>2. \/ vectorConfig' = Good(creation[c].plan)
        \/ creation[c].torn /\ vectorConfig' = Bad("garbled")
    BY DEF WriteConfig
  <1>3. Busy(c) /\ creation[c] \in CreationType
    BY <1>1, Requests
  <1>4. vectorConfig' \in ConfigType
    BY <1>2, <1>3, ConfigIsTyped DEF CreationType
  <1>5. /\ x \in CreationType /\ x.phase = "written" /\ x.stream = creation[c].stream
        /\ x.alone = creation[c].alone /\ x.torn = creation[c].torn /\ x.plan = creation[c].plan
    BY <1>3 DEF CreationType
  <1> HIDE DEF x
  <1>6. creation'[c] = x /\ x # NoCreation
    BY <1>1, <1>5 DEF NoCreation
  <1>7. ASSUME NEW d \in Creators, d # c
        PROVE  /\ creation'[d] \in {NoCreation} \cup CreationType
               /\ Busy(d)' => /\ Busy(d) /\ creation'[d].stream = creation[d].stream
                              /\ creation'[d].alone = creation[d].alone
    <2>1. CASE creation[d].phase = "writing"
      <3>1. Busy(d) /\ creation[d] \in CreationType /\ creation'[d] = [creation[d] EXCEPT !.torn = TRUE]
        BY <1>1, <1>7, <2>1, Requests
      <3> QED BY <3>1 DEF CreationType
    <2>2. CASE creation[d].phase # "writing"
      BY <1>1, <1>7, <2>2 DEF Busy, StreamInv
    <2> QED BY <2>1, <2>2
  <1>8. creation' \in [Creators -> {NoCreation} \cup CreationType]
    BY <1>1, <1>5, <1>6, <1>7
  <1>9. NextToNone(c)'
    <2> SUFFICES ASSUME creation[c].alone PROVE NextToNone(c)'
      BY <1>5, <1>6 DEF NextToNone
    <2>1. /\ \A d \in Creators : Busy(d) => d = c
          /\ ~creation[c].torn
          /\ creation[c].plan \in Plans(streamRow \cup {creation[c].stream})
      BY <1>1, <1>3 DEF StreamInv, NextToNone
    <2>2. vectorConfig' = Good(creation[c].plan)
      BY <1>2, <2>1
    <2>3. streamRow' \cup {creation'[c].stream} = streamRow \cup {creation[c].stream}
      BY <1>1, <1>5, <1>6
    <2>4. \A d \in Creators : Busy(d)' => d = c
      BY <1>7, <2>1
    <2> QED BY <1>5, <1>6, <2>1, <2>2, <2>3, <2>4 DEF NextToNone
  <1>10. Busy(c)'
    BY <1>6 DEF Busy
  <1> QED BY <1>1, <1>3, <1>4, <1>5, <1>6, <1>7, <1>8, <1>9, <1>10, GoesOn DEF StreamInv

\* A request ends, with its stream or without it.
LEMMA EndKeeps ==
    ASSUME StreamInv, NEW c \in Creators, Busy(c), creation' = [creation EXCEPT ![c] = NoCreation],
           streamRow' \in {streamRow, streamRow \cup {creation[c].stream}},
           UNCHANGED <<vectorConfig, table, withoutUrl>>
    PROVE  StreamInv'
  <1>1. creation[c] \in CreationType
    BY Requests
  <1>2. /\ creation'[c] = NoCreation /\ \A d \in Creators \ {c} : creation'[d] = creation[d]
        /\ creation' \in [Creators -> {NoCreation} \cup CreationType]
    BY DEF StreamInv
  <1>3. \A d \in Creators : Busy(d)' => d # c /\ Busy(d) /\ creation'[d] = creation[d]
    BY <1>2 DEF Busy
  <1>4. streamRow' \subseteq StreamIds
    BY <1>1 DEF StreamInv, CreationType
  <1>5. OwnTables'
    <2>1. \A s, t : Same(s, t) => Same(t, s)
      BY DEF Same
    <2> QED BY <1>3, <2>1 DEF StreamInv, OwnTables
  <1>6. \A d \in Creators : NextToNone(d)'
    BY <1>3 DEF StreamInv, NextToNone
  <1> QED BY <1>2, <1>4, <1>5, <1>6 DEF StreamInv

LEMMA StreamInvNext == StreamInv /\ [StreamNext]_streamVars => StreamInv'
  <1> SUFFICES ASSUME StreamInv, [StreamNext]_streamVars PROVE StreamInv'
    OBVIOUS
  <1>1. CASE UNCHANGED streamVars
    BY <1>1 DEF streamVars, StreamInv, OwnTables, NextToNone, Busy
  <1>2. ASSUME NEW c \in Creators, CommitStream(c) \/ FailStream(c) PROVE StreamInv'
    <2>1. Busy(c)
      BY <1>2, Requests DEF CommitStream, FailStream
    <2> QED BY <1>2, <2>1, EndKeeps DEF CommitStream, FailStream
  <1>3. ASSUME NEW d \in Sources, EditUrl(d) PROVE StreamInv'
    <2>1. withoutUrl' \subseteq Sources /\ UNCHANGED <<streamRow, creation, vectorConfig, table>>
      BY <1>3 DEF EditUrl, StreamInv
    <2> QED BY <2>1 DEF StreamInv, OwnTables, NextToNone, Busy
  <1>4. CASE StreamNext
    BY <1>2, <1>3, <1>4, InsertStreamKeeps, CreateTableKeeps, ReadStreamsKeeps, OpenConfigKeeps,
       WriteConfigKeeps DEF StreamNext
  <1> QED BY <1>1, <1>4

LEMMA StreamInvHolds == StreamSpec => []StreamInv
  BY StreamInvInit, StreamInvNext, PTL DEF StreamSpec

(* Streams, requests and the configuration file are what they can be, and  *)
(* no two streams there are have one table.                                *)
THEOREM StreamTypeCorrect == StreamSpec => []StreamTypeOK
  <1>1. StreamInv => StreamTypeOK
    BY DEF StreamInv, StreamTypeOK, OwnTables, CreationType, ConfigType
  <1> QED BY <1>1, StreamInvHolds, PTL

\* What a plan for all the streams there are routes
LEMMA PlanRoutesAll ==
    ASSUME NEW plan \in Plans(streamRow'), vectorConfig = Good(plan), NEW s \in streamRow',
           streamRow' \subseteq StreamIds
    PROVE  Routed(vectorConfig, s)
  <1> DEFINE k == Described[s].key
  <1>1. k \in Keys
    BY DescribedAssumption DEF Descriptions
  <1>2. s \in KeyedBy(streamRow', k)
    BY DEF KeyedBy
  <1>3. vectorConfig.state = "good" /\ vectorConfig.plan = plan
    BY DEF Good
  <1>4. /\ plan.sink[k] \in KeyedBy(streamRow', k)
        /\ plan.route[k] \in KeyedBy(streamRow', k) \cup {NoStream}
    BY <1>1, <1>2 DEF Plans
  <1> QED BY <1>3, <1>4 DEF Routed

(* However requests that create streams overlapped before, and whatever    *)
(* they left behind in the configuration file: the next one that is alone  *)
(* routes every stream there is, its own included, and none that is not.   *)
THEOREM CreationRepairs == StreamSpec => CreationHeals
  <1> DEFINE A == \A c \in Creators : CommitStream(c) /\ creation[c].alone =>
                     \A s \in streamRow' : Routed(vectorConfig, s)
  <1>1. StreamInv /\ [StreamNext]_streamVars => [A]_streamVars
    <2> SUFFICES ASSUME StreamInv, NEW c \in Creators, CommitStream(c), creation[c].alone,
                        NEW s \in streamRow'
                 PROVE  Routed(vectorConfig, s)
      OBVIOUS
    <2>1. creation[c].phase = "written" /\ streamRow' = streamRow \cup {creation[c].stream}
      BY DEF CommitStream
    <2>2. Busy(c) /\ creation[c] \in CreationType
      BY <2>1, Requests
    <2>3. creation[c].plan \in Plans(streamRow') /\ vectorConfig = Good(creation[c].plan)
      BY <2>1, <2>2 DEF StreamInv, NextToNone
    <2>4. streamRow' \subseteq StreamIds
      BY <2>1, <2>2 DEF StreamInv, CreationType
    <2> QED BY <2>3, <2>4, PlanRoutesAll
  <1> QED BY <1>1, StreamInvInit, StreamInvNext, PTL DEF StreamSpec, CreationHeals

-----------------------------------------------------------------------------
(* The components side by side *)

AdministrationInv ==
    /\ part \in Parts
    /\ AlertInv /\ StreamInv /\ NamedInv /\ AccountInv /\ AdminInv
    /\ AccessInv /\ GrantInv /\ ConfigurationInv /\ ParameterInv

\* Nothing is there in the beginning.
LEMMA AdministrationInvInit == Init => AdministrationInv
  BY AlertInvInit, StreamInvInit, NamedInit, InitAccounts, AdminInitInv, AccessInvInit, GrantInitInv,
     ConfigurationInvInit, ParameterInvInit, QueriesAssumption DEF Init, AdministrationInv

\* A component that moves keeps its invariant, and the others keep theirs.
LEMMA AdministrationInvStep == AdministrationInv /\ [Next]_vars => AdministrationInv'
<1> SUFFICES ASSUME AdministrationInv, [Next]_vars PROVE AdministrationInv'
  OBVIOUS
<1>1. /\ UNCHANGED part
      /\ [AlertNext]_alertVars /\ [StreamNext]_streamVars /\ [SharingNext]_sharingVars
      /\ [AccountNext]_accountVars /\ [AdminNext]_adminVars /\ [AccessNext]_accessVars
      /\ [GrantNext]_grantVars /\ [ConfigurationNext]_configurationVars /\ [ParameterNext]_parameterVars
  BY DEF Next, vars
<1>2. AlertInv' /\ StreamInv' /\ NamedInv' /\ AccountInv' /\ AdminInv'
  BY <1>1, AlertInvStep, StreamInvNext, NamedNext, AccountStep, AdminStep DEF AdministrationInv
<1>3. AccessInv' /\ GrantInv' /\ ConfigurationInv' /\ ParameterInv'
  BY <1>1, AccessInvStep, GrantInvStep, ConfigurationInvNext, ParameterInvNext, QueriesAssumption
     DEF AdministrationInv
<1> QED
  BY <1>1, <1>2, <1>3 DEF AdministrationInv

\* What users and administrators set up keeps its types, each component next to the others.
THEOREM AdministrationTypeCorrect == Spec => []AdministrationTypeOK
<1>1. AlertInv => AlertTypeOK
  BY DEF AlertInv, AlertShape
<1>2. StreamInv => StreamTypeOK
  BY DEF StreamInv, StreamTypeOK, OwnTables, CreationType, ConfigType
<1>3. NamedInv => SharingTypeOK
  BY DEF NamedInv
<1>4. AccountInv => AccountTypeOK
  BY DEF AccountInv, RowTypeOK, SyncTypeOK, DetailsType, AccountTypeOK
<1>5. AdminInv => AdminTypeOK
  BY DEF AdminInv
<1>6. AccessInv => AccessTypeOK
  BY DEF AccessInv
<1>7. GrantInv => GrantTypeOK
  BY DEF GrantInv
<1>8. ConfigurationInv => ConfigurationTypeOK
  BY DEF ConfigurationInv, ConfigurationTypeOK, RowShape, RowOrNone, EditInv, RunInv
<1>9. ParameterInv => ParameterTypeOK
  BY DEF ParameterInv, ParameterTypeOK, AskInv, TaskInv
<1>10. AdministrationInv => AdministrationTypeOK
  BY <1>1, <1>2, <1>3, <1>4, <1>5, <1>6, <1>7, <1>8, <1>9 DEF AdministrationInv, AdministrationTypeOK
<1> QED
  BY <1>10, AdministrationInvInit, AdministrationInvStep, PTL DEF Spec
=============================================================================
