----------------------------- MODULE MCAdministration -----------------------------
(***************************************************************************)
(* What users and administrators set up, on small instances, next to the   *)
(* tasks that interfere with it.  The components have no state in common,  *)
(* so one run explores their state spaces side by side instead of their    *)
(* product: `part`, chosen initially, says which component moves.          *)
(***************************************************************************)
EXTENDS Alerts, Streams, DashboardSharing, Accounts, Administrators,
    Access, Grants, Configuration, Parameters, Sequences, TLC

CONSTANTS a1, s1, s2, s3, d1, d2, k1, k2, b1, b2, b3, m1, q1, q2

VARIABLE part

Parts == {"alerts", "streams", "sharing", "accounts", "admins", "access", "grants",
          "configuration", "parameters"}

vars == <<part, alertVars, streamVars, sharingVars, accountVars, adminVars, accessVars, grantVars,
          configurationVars, parameterVars>>

\* The alert triggers above 1 and repeats after one moment
OneCondition == [a \in AlertIds |-> [op |-> ">", threshold |-> [kind |-> "numeral", rank |-> 1]]]
OneRearm == [a \in AlertIds |-> 1]
LowOrHigh ==
    { [kind |-> "number", rank |-> 0], [kind |-> "numeral", rank |-> 2], [kind |-> "null"], NoValue }

\* Two sources, and two of three streams with one route key, one of them internal
Stream(d, t, k, i) == [source |-> d, table |-> t, key |-> k, internal |-> i]
ThreeStreams == [s \in StreamIds |->
    CASE s = s1 -> Stream(d1, "a_b", k1, FALSE)
      [] s = s2 -> Stream(d2, "a.b", k1, TRUE)
      [] s = s3 -> Stream(d2, "c", k2, FALSE)]

\* Two dashboards of one name, and one whose name is the second slug of the others
TwoStems == [d \in Dashboards |-> IF d = b3 THEN "a_1" ELSE "a"]
Suffixed == [x \in {"a", "a_1"} \X (0..MaxTries) |->
    IF x[2] = 0 THEN x[1] ELSE x[1] \o "_" \o ToString(x[2])]

\* An archived query and a draft, on the one source
OneSource == [q \in QueryIds |-> d1]
OneOwner == [q \in QueryIds |-> m1]

\* One type needs a host, and each has a password to hide
HostForPg == [t \in Types |-> IF t = "pg" THEN {Host} ELSE {}]
PasswordOf == [t \in Types |-> {"password"}]

\* Options with and without a tunnel, a new password or the placeholder, and a host left empty
Form(h, p) == [host |-> h, password |-> p]
Tunneled(h, p) == [host |-> h, password |-> p, ssh_tunnel |-> "t"]
ThreeForms ==
    { Tunneled("a", "p"), Form(Null, "q"), Tunneled("b", Placeholder) }

\* One setting or two at once, one left empty, and what is no setting; one has no default
SettingDefaults == [date_format |-> "ISO", beacon_consent |-> Null, google_apps_domains |-> "none"]
FourChanges ==
    { [date_format |-> "US"], [date_format |-> Null, beacon_consent |-> "yes"],
      [google_apps_domains |-> "b"], [zone |-> "UTC"] }

\* A published query with a free text, and one with two values from one dropdown, one of them
\* unescaped, a range, a number and a choice
SavedQuery(d, nodes, schema, open) ==
    [source |-> d, nodes |-> nodes, schema |-> schema, open |-> open]
Node(kind, key) == [kind |-> kind, key |-> key]
OneOf(t, items, many) == [type |-> t, options |-> items, many |-> many]
TwoWritings ==
    { SavedQuery("d1", {Node("variable", <<"p">>)}, [p |-> [type |-> "text"]], TRUE),
      SavedQuery("d2", {Node("variable", <<"p">>), Node("unescaped", <<"q">>),
                        Node("section", <<"r", "start">>)},
              [p |-> OneOf("query", {}, TRUE), q |-> OneOf("query", {}, FALSE),
               r |-> [type |-> "date-range"], s |-> [type |-> "number"],
               t |-> OneOf("enum", {"a"}, FALSE)],
              FALSE) }

\* Nothing, a string, what the second query takes, with one value and with two from its dropdown,
\* and without the range
FiveFillings ==
    { <<>>, [p |-> One("a")],
      [p |-> Many({"a"}), r |-> Between("May", "June"), s |-> One("7")],
      [p |-> One("a"), q |-> One("b"), r |-> Between("May", "June")],
      [p |-> One("a"), t |-> One("a")] }

\* A component that does not move has but one initial state
Init ==
    /\ part \in Parts
    /\ AlertInit /\ StreamInit /\ SharingInit /\ AccountInit /\ AdminInit /\ AccessInit /\ GrantInit
    /\ ConfigurationInit /\ ParameterInit
    /\ part # "parameters" =>
          /\ saved = CHOOSE query \in Writings : TRUE
          /\ level = [p \in Callers \X Wells |-> "full"]

Next ==
    /\ UNCHANGED part
    /\ \/ /\ part = "alerts" /\ AlertNext
          /\ UNCHANGED <<streamVars, sharingVars, accountVars, adminVars, accessVars,
                        grantVars, configurationVars, parameterVars>>
       \/ /\ part = "streams" /\ StreamNext
          /\ UNCHANGED <<alertVars, sharingVars, accountVars, adminVars, accessVars,
                        grantVars, configurationVars, parameterVars>>
       \/ /\ part = "sharing" /\ SharingNext
          /\ UNCHANGED <<alertVars, streamVars, accountVars, adminVars, accessVars,
                        grantVars, configurationVars, parameterVars>>
       \/ /\ part = "accounts" /\ AccountNext
          /\ UNCHANGED <<alertVars, streamVars, sharingVars, adminVars, accessVars,
                        grantVars, configurationVars, parameterVars>>
       \/ /\ part = "admins" /\ AdminNext
          /\ UNCHANGED <<alertVars, streamVars, sharingVars, accountVars, accessVars,
                        grantVars, configurationVars, parameterVars>>
       \/ /\ part = "access" /\ AccessNext
          /\ UNCHANGED <<alertVars, streamVars, sharingVars, accountVars, adminVars,
                        grantVars, configurationVars, parameterVars>>
       \/ /\ part = "grants" /\ GrantNext
          /\ UNCHANGED <<alertVars, streamVars, sharingVars, accountVars, adminVars,
                        accessVars, configurationVars, parameterVars>>
       \/ /\ part = "configuration" /\ ConfigurationNext
          /\ UNCHANGED <<alertVars, streamVars, sharingVars, accountVars, adminVars,
                        accessVars, grantVars, parameterVars>>
       \/ /\ part = "parameters" /\ ParameterNext
          /\ UNCHANGED <<alertVars, streamVars, sharingVars, accountVars, adminVars,
                        accessVars, grantVars, configurationVars>>

Spec == Init /\ [][Next]_vars

\* The components have the processes in common, which nothing tells apart.  Nor does anything tell
\* apart users, groups, grantees and grantors, subscriptions, or keys of dashboards, which change
\* places together, since only grantees and grantors are in one component.
Swap(S) == CHOOSE p \in Permutations(S) : \A x \in S : p[x] # x
Together ==
    Swap(Users) @@ Swap(Groups) @@ Swap(Grantees) @@ Swap(Grantors) @@ Swap(Subscriptions)
        @@ Swap(ApiKeys)
Symmetry == Permutations(Handlers) \cup {Together}

\* The variables of each component have their types.
AdministrationTypeOK ==
    /\ part \in Parts
    /\ AlertTypeOK /\ StreamTypeOK /\ SharingTypeOK /\ AccountTypeOK
    /\ AdminTypeOK /\ AccessTypeOK /\ GrantTypeOK
    /\ ConfigurationTypeOK /\ ParameterTypeOK
=============================================================================
