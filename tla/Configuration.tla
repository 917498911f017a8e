----------------------------- MODULE Configuration -----------------------------
(***************************************************************************)
(* The type and the options of a data source or an alert destination, and  *)
(* the settings of the organization.  Administrators edit them in a form   *)
(* that shows a placeholder for each secret, and put back what they leave  *)
(* alone; commands on the server edit them too.  Options, like settings,   *)
(* are one column, written as a whole by every edit - and by every query   *)
(* that ran through an SSH tunnel, whose address is put into the options   *)
(* for the time being (query_runner.with_ssh_tunnel).                      *)
(***************************************************************************)
EXTENDS Naturals

CONSTANTS
    Types,        \* types of query runners or destinations
    Required,     \* [Types -> sets of Keys], of the schema of each type
    Secret,       \* [Types -> sets of Keys]
    Forms,        \* options as administrators submit them
    Changes,      \* settings as administrators submit them
    Defaults,     \* the settings there are, and what they are unless they are set
    LocalAddress, \* the near end of a tunnel
    Editors,      \* requests and commands that edit
    Runners       \* executions of queries

Placeholder == "--------"
Null == "null"
Host == "host"
SshTunnel == "ssh_tunnel"

ASSUME FormsAssumption == \A f \in Forms : LocalAddress \notin { f[k] : k \in DOMAIN f }

VARIABLES
    record,       \* the row
    editing,      \* the edit each process has in hand
    running,      \* the data source in the memory of each execution
    intended,     \* history: type and options as they were decided, unless overtaken
    overtaken       \* history: the last write came from a row that had changed since it was loaded

configurationVars == <<record, editing, running, intended, overtaken>>

NoRow == [kind |-> "none"]
NoEdit == [phase |-> "idle"]
NoRun == [phase |-> "idle"]

\* A row, and what it says
Configured(kind, t, o) == [kind |-> kind, type |-> t, options |-> o]
RowKinds == {"data_source", "destination"}
Organization == "organization"

\* filter_none
FilterNone(f) == [k \in { j \in DOMAIN f : f[j] # Null } |-> f[k]]

\* jsonschema.validate: the required ones are there, and all are strings
Valid(t, o) == Required[t] \subseteq DOMAIN o /\ \A k \in DOMAIN o : o[k] # Null

\* Options as the handler of each kind takes them from the request
Submitted(kind, f) == IF kind = "data_source" THEN FilterNone(f) ELSE f

\* Options as they come in the form
AsSubmitted(t, o, old) == o

\* ConfigurationContainer.update: what was left alone keeps its value
Keeps(t, o, k) == k \in Secret[t] /\ o[k] = Placeholder
Updated(t, o, old) == [k \in DOMAIN o |-> IF Keeps(t, o, k) THEN old[k] ELSE o[k]]

\* update raises KeyError if there is nothing to keep
Updatable(t, o, old) == \A k \in DOMAIN o : Keeps(t, o, k) => k \in DOMAIN old

\* Organization.set_setting keeps the other settings
WithSettings(change, old) == [k \in DOMAIN change \cup DOMAIN old |->
    IF k \in DOMAIN change THEN change[k] ELSE old[k]]

\* set_setting raises KeyError for what is no setting
Settable(change) == DOMAIN change \subseteq DOMAIN Defaults

\* Organization.get_setting
GetSetting(settings, k) == IF k \in DOMAIN settings THEN settings[k] ELSE Defaults[k]

\* get_settings_with_defaults, for the form; what has a default shows it instead of null
ShownSettings(settings) ==
    [k \in { j \in DOMAIN Defaults : {GetSetting(settings, j), Defaults[j]} # {Null} } |->
        IF k \in DOMAIN settings /\ settings[k] # Null THEN settings[k] ELSE Defaults[k]]

ConfigurationInit ==
    /\ record = NoRow
    /\ editing = [e \in Editors |-> NoEdit]
    /\ running = [r \in Runners |-> NoRun]
    /\ intended = NoRow
    /\ overtaken = FALSE

\* Edits and executions that loaded the row before it was changed
EditsStale == [e \in Editors |->
    IF editing[e] = NoEdit THEN NoEdit ELSE [editing[e] EXCEPT !.stale = TRUE]]
RunsStale == [r \in Runners |->
    IF running[r] = NoRun THEN NoRun ELSE [running[r] EXCEPT !.stale = TRUE]]
-----------------------------------------------------------------------------
\* The list resources' post, or "ds new": there is nothing yet a placeholder could stand for
Configure(kind, t, f) ==
    LET o == Submitted(kind, f)
    IN  /\ record = NoRow
        /\ Placeholder \notin { f[k] : k \in DOMAIN f }
        /\ Valid(t, o)
        /\ record' = Configured(kind, t, o)
        /\ intended' = Configured(kind, t, o)
        /\ overtaken' = FALSE
        /\ UNCHANGED <<editing, running>>

\* Setup, or "users create_root", creates the organization, which stays
SetUp ==
    /\ record = NoRow
    /\ record' = Configured(Organization, Organization, <<>>)
    /\ intended' = record'
    /\ overtaken' = FALSE
    /\ UNCHANGED <<editing, running>>

\* A row that has a type
HasType(row) == row # NoRow /\ row.kind # Organization

\* DataSourceResource.post and DestinationResource.post load the row
OpenEdit(e, t, f) ==
    /\ HasType(record)
    /\ editing[e] = NoEdit
    /\ editing' = [editing EXCEPT ![e] = [phase |-> "form", loaded |-> record, type |-> t,
                                         form |-> Submitted(record.kind, f), stale |-> FALSE]]
    /\ UNCHANGED <<record, running, intended, overtaken>>

\* "ds edit" of the type alone, which leaves the options as they are
OpenRetype(e, t) ==
    /\ record # NoRow /\ record.kind = "data_source"
    /\ editing[e] = NoEdit
    /\ editing' = [editing EXCEPT ![e] = [phase |-> "type", loaded |-> record, type |-> t,
                                         stale |-> FALSE]]
    /\ UNCHANGED <<record, running, intended, overtaken>>

\* OrganizationSettings.post, or "org set_google_apps_domains", has loaded the organization
OpenSettings(e, change) ==
    /\ record # NoRow /\ record.kind = Organization
    /\ editing[e] = NoEdit
    /\ editing' = [editing EXCEPT ![e] = [phase |-> "settings", loaded |-> record,
                                         change |-> change, stale |-> FALSE]]
    /\ UNCHANGED <<record, running, intended, overtaken>>

Finish(e) ==
    /\ editing' = [EditsStale EXCEPT ![e] = NoEdit]
    /\ running' = RunsStale

\* The type is written if it is not the one that was loaded
TypeOf(e) == IF editing[e].type = editing[e].loaded.type THEN record.type ELSE editing[e].type

(***************************************************************************)
(* The edit is committed, options always.  What it decides is what the     *)
(* form says, placeholders standing for what was decided before.           *)
(***************************************************************************)
SaveEdit(e) ==
    LET t == editing[e].type
        old == editing[e].loaded.options
        o == editing[e].form
        before == IF overtaken THEN record.options ELSE intended.options
    IN  /\ editing[e].phase = "form"
        /\ record # NoRow
        /\ Valid(t, o) /\ Updatable(t, o, old)
        /\ record' = Configured(record.kind, TypeOf(e), Updated(t, o, old))
        /\ overtaken' = editing[e].stale
        /\ intended' = IF editing[e].stale THEN NoRow
                       ELSE Configured(record.kind, t,
                              [k \in DOMAIN o |-> IF Keeps(t, o, k) THEN before[k] ELSE o[k]])
        /\ Finish(e)

\* The new type is committed
SaveType(e) ==
    /\ editing[e].phase = "type"
    /\ record # NoRow
    /\ record' = [record EXCEPT !.type = TypeOf(e)]
    /\ overtaken' = (overtaken \/ editing[e].stale)
    /\ intended' = IF overtaken' THEN NoRow ELSE [intended EXCEPT !.type = editing[e].type]
    /\ Finish(e)

\* All settings are committed, those that were loaded too
SaveSettings(e) ==
    /\ editing[e].phase = "settings"
    /\ Settable(editing[e].change)
    /\ record' = [record EXCEPT !.options =
          WithSettings(editing[e].change, editing[e].loaded.options)]
    /\ overtaken' = (overtaken \/ editing[e].stale)
    /\ intended' = IF overtaken' THEN NoRow
                   ELSE [intended EXCEPT !.options = WithSettings(editing[e].change, @)]
    /\ Finish(e)

\* Status 400 or 500: invalid, nothing to keep, the row is gone or the process dies
RefuseEdit(e) ==
    /\ editing[e] # NoEdit
    /\ editing' = [editing EXCEPT ![e] = NoEdit]
    /\ UNCHANGED <<record, running, intended, overtaken>>

\* delete, or "ds delete"
Remove ==
    /\ HasType(record)
    /\ record' = NoRow
    /\ intended' = NoRow
    /\ overtaken' = FALSE
    /\ editing' = [e \in Editors |-> NoEdit]
    /\ running' = [r \in Runners |-> NoRun]
-----------------------------------------------------------------------------
\* with_ssh_tunnel wraps the run_query of a data source with a tunnel
UsesSshTunnel(o) == SshTunnel \in DOMAIN o

\* An execution loads the data source; without host, or without the far end, it ends in an error
StartRun(r) ==
    /\ record # NoRow /\ record.kind = "data_source"
    /\ running[r] = NoRun
    /\ UsesSshTunnel(record.options) /\ Host \in DOMAIN record.options
    /\ running' = [running EXCEPT ![r] = [phase |-> "loaded", options |-> record.options,
                                         host |-> record.options[Host], stale |-> FALSE]]
    /\ UNCHANGED <<record, editing, intended, overtaken>>

\* The tunnel is open, and the query runner connects to its near end
OpenTunnel(r) ==
    /\ running[r].phase = "loaded"
    /\ running' = [running EXCEPT ![r].phase = "tunnel", ![r].options[Host] = LocalAddress]
    /\ UNCHANGED <<record, editing, intended, overtaken>>

\* The tunnel is closed, and the address in memory stays the one of its near end
LeaveTunnel(r) ==
    /\ running[r].phase = "tunnel"
    /\ running' = [running EXCEPT ![r].phase = "changed"]
    /\ UNCHANGED <<record, editing, intended, overtaken>>

\* The tunnel is closed, and the address in memory is put back
CloseTunnel(r) ==
    /\ running[r].phase = "tunnel"
    /\ running' = [running EXCEPT ![r].phase = "changed", ![r].options[Host] = running[r].host]
    /\ UNCHANGED <<record, editing, intended, overtaken>>

(***************************************************************************)
(* The result, or the failure of a scheduled query, is committed, and with *)
(* it the options, which were changed and changed back in memory.          *)
(***************************************************************************)
CommitRun(r) ==
    /\ running[r].phase = "changed"
    /\ record' = [record EXCEPT !.options = running[r].options]
    /\ overtaken' = (overtaken \/ running[r].stale)
    /\ editing' = EditsStale
    /\ running' = [RunsStale EXCEPT ![r] = NoRun]
    /\ intended' = IF overtaken' THEN NoRow ELSE intended

\* The tunnel does not open, a query that is not scheduled fails, or the worker dies
DropRun(r) ==
    /\ running[r] # NoRun
    /\ running' = [running EXCEPT ![r] = NoRun]
    /\ UNCHANGED <<record, editing, intended, overtaken>>

ConfigurationNext ==
    \/ \E kind \in RowKinds, t \in Types, f \in Forms : Configure(kind, t, f)
    \/ \E e \in Editors :
        \/ \E t \in Types : OpenRetype(e, t) \/ \E f \in Forms : OpenEdit(e, t, f)
        \/ \E change \in Changes : OpenSettings(e, change)
        \/ SaveEdit(e) \/ SaveType(e) \/ SaveSettings(e) \/ RefuseEdit(e)
    \/ SetUp \/ Remove
    \/ \E r \in Runners :
        StartRun(r) \/ OpenTunnel(r) \/ CloseTunnel(r) \/ CommitRun(r) \/ DropRun(r)

ConfigurationSpec == ConfigurationInit /\ [][ConfigurationNext]_configurationVars
-----------------------------------------------------------------------------
RowOrNone(row) ==
    \/ row = NoRow
    \/ row.kind \in RowKinds /\ row.type \in Types
    \/ row.kind = Organization /\ DOMAIN row.options \subseteq DOMAIN Defaults

ConfigurationTypeOK ==
    /\ RowOrNone(record) /\ RowOrNone(intended)
    /\ \A e \in Editors : editing[e].phase \in {"idle", "form", "type", "settings"}
    /\ \A r \in Runners : running[r].phase \in {"idle", "loaded", "tunnel", "changed"}
    /\ overtaken \in BOOLEAN

(***************************************************************************)
(* Type and options are what was decided: of each option the value that    *)
(* was last typed in, secrets behind their placeholder included, and never *)
(* the near end of a tunnel, whatever queries run meanwhile and however    *)
(* they end.  So are settings, those that were never decided have their    *)
(* defaults, and the form shows what is in force, except for null.         *)
(* Excluded, until the next edit, are rows last written by an edit or an   *)
(* execution that had loaded them before another edit: those lose that     *)
(* edit, or mix the type of one with the options of the other; lost        *)
(* settings stay lost until they are decided anew.                         *)
(***************************************************************************)
OptionsAsDecided ==
    /\ ~overtaken => record = intended
    /\ record # NoRow /\ record.kind = Organization =>
          \A k \in DOMAIN ShownSettings(record.options) :
              \/ ShownSettings(record.options)[k] = GetSetting(record.options, k)
              \/ GetSetting(record.options, k) = Null
=============================================================================
