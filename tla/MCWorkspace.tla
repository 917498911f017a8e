------------------------------- MODULE MCWorkspace -------------------------------
(***************************************************************************)
(* What users do in their browsers, on small instances: they sign in and   *)
(* out, read lists, edit dashboards and queries, and archive them.  The    *)
(* components have no state in common, so one run explores their state     *)
(* spaces side by side instead of their product: `part`, chosen initially, *)
(* says which component moves.                                             *)
(***************************************************************************)
EXTENDS Editing, Sessions, Archiving, Listings, TLC

VARIABLE part

Parts == {"editing", "sessions", "archiving", "listings"}

workspaceVars == <<part, vars, sessionVars, archivingVars, listingVars>>

BothKinds == {Dashboard, Query}

\* One spelling of an address has a capital
LowerCase == [s \in Spellings |-> IF s = "Y" THEN "y" ELSE s]

\* The reader's own row, an archived or disabled one, and another one's draft
ThreeLooks ==
    { {"mine", "starred", "matching", "tagged", "pending"},
      {"archived", "disabled", "starred", "matching", "tagged"},
      {"draft"} }

\* Each list as a whole and searched, queries with and without multi_byte_search
Whole(of) == [of |-> of, term |-> FALSE, tags |-> FALSE]
Searched(of, multiByte) == [of |-> of, term |-> TRUE, tags |-> TRUE, multiByte |-> multiByte]
Users(term, disabled, pending) ==
    [of |-> "users", term |-> term, disabled |-> disabled, pending |-> pending]
AllListings ==
    { Whole(of) : of \in {"queries", "archive", "my queries", "dashboards", "events"} }
    \cup { Searched("queries", TRUE), Searched("archive", TRUE), Searched("queries", FALSE) }
    \cup { Searched(of, TRUE) :
              of \in {"favorite queries", "my dashboards", "favorite dashboards"} }
    \cup { Users(FALSE, FALSE, "no"), Users(TRUE, FALSE, "yes"), Users(TRUE, TRUE, "any") }

\* A component that does not move has but one initial state, and the values of a column are alike
WorkspaceInit ==
    /\ part \in Parts
    /\ Init /\ SessionInit /\ ArchivingInit /\ ListingInit
    /\ row.content = [f \in Fields |-> 0]
    /\ part # "editing" => kind = Query
    /\ part # "listings" => table = [i \in Ids |-> Gone]

\* A bound: once nothing is said about any browser, nothing ever will be
SomethingToSay == muddled \cup respelled # Browsers

WorkspaceNext ==
    /\ UNCHANGED part
    /\ \/ /\ part = "editing" /\ Next
          /\ UNCHANGED <<sessionVars, archivingVars, listingVars>>
       \/ /\ part = "sessions" /\ SomethingToSay /\ SessionNext
          /\ UNCHANGED <<vars, archivingVars, listingVars>>
       \/ /\ part = "archiving" /\ ArchivingNext
          /\ UNCHANGED <<vars, sessionVars, listingVars>>
       \/ /\ part = "listings" /\ ListingNext
          /\ UNCHANGED <<vars, sessionVars, archivingVars>>

WorkspaceSpec == WorkspaceInit /\ [][WorkspaceNext]_workspaceVars

\* Pages and browsers, which nothing tells apart, are the same two.  Nor does anything tell apart
\* requests, columns, or queries and their visualizations, which change places together, since only
\* the last two are in one component.
Swap(S) == CHOOSE p \in Permutations(S) : \A x \in S : p[x] # x
Together == Swap(Requests) @@ Swap(Fields) @@ Swap(Texts) @@ Swap(Views)
Symmetry == Permutations(Clients) \cup {Together}

\* The variables of each component have their types.
WorkspaceTypeOK ==
    part \in Parts /\ TypeOK /\ SessionTypeOK /\ ArchivingTypeOK /\ ListingTypeOK
=============================================================================
