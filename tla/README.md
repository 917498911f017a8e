# Verification of the Dingolytics backend

TLA+ models of the backend, the TLC runs that check them on small instances, and
theorems about them that TLAPS proves for all instances. `PROJECT.json` lists
components, runs, mutants, the code each definition stands for, hazards,
findings and theorems.

    tlc -workers 2 -config MCQueryExecution.cfg MCQueryExecution
    tlapm QueryExecutionProofs.tla

## 1. The system

Dingolytics is a fork of Redash: users save SQL queries, which are executed on
demand or on a schedule against data sources, and build dashboards and alerts
from the stored results. The processes are

- the web server (Flask under gunicorn, several workers), which handles requests,
- the `default` worker (Huey, 4 threads), which executes queries and other tasks,
- the `periodic` worker (Huey, 4 threads), which runs the cron-like tasks,
- the command line, whose commands change the same rows,
- PostgreSQL at READ COMMITTED with foreign keys, which holds the rows,
- KeyDB (Redis), which holds Huey's queues and answers, the lists of errors to be
  mailed, the moments of last visits, pauses and cached schemas,
- Vector and ClickHouse, which receive and store the events of streams.

Nothing locks. Requests and tasks read rows in one statement and write changed
columns in a later one. SQLAlchemy keeps objects as they were loaded
(`expire_on_commit=False`, `redash/models/base.py`), so a long request or task acts
on old copies; a JSON column (options, settings, details, a user's list of groups) is
always written whole. Huey hands a task out at most once: it is removed from the
queue before it is executed, and nothing puts it back.

| Component | State | Operations | What makes it correct |
|---|---|---|---|
| Schedule arithmetic, `utils/schedule.py` | none | `should_schedule_next` | no occurrence is missed, none comes too early, results do not get too old, the weekday is the one asked for |
| Query refresh, `tasks/refresh_queries.py`, `Query.outdated_queries` | rows loaded by each pass; `queries.schedule` | load, examine a row, disable a faulty one, collect, enqueue | one execution per text and pass; a faulty row harms no other; users' schedules survive; scheduled queries are executed again and again |
| Empty schedules, `tasks/empty_schedules.py` | rows loaded | find ended schedules, replace them by `{}` | only ended schedules are emptied |
| Query execution, `tasks/run_query.py`, `queries/errors.py`, `handlers/query_results.py` | Huey queue and answers, threads, `schedule_failures`, error lists | request, enqueue, start, store, commit, fail, count, report, die | results go to the right queries; failures are counted and reported as they happened |
| Results and cleanup, `models/results.py`, `tasks/cleanup_results.py` | `query_results` | look up, store, delete unused | no query is left with a deleted result |
| Saved queries, `models/queries.py`, `handlers/queries.py` | `queries`, versions, hashes, what hangs on them | create, edit, fork, archive, list | hash and text agree; edits are not lost; an archived query is quiet |
| Parameterized queries, `models/parameterized_query.py`, `api/endpoints.py` | schema of the query, the dropdown's result, access, pauses | ask, check access, validate, enqueue | only what the saved query allows is executed, for whom it allows it |
| Task queue, `defaults.py`, `worker.py` | queues, threads, sessions | enqueue, dequeue, execute, die, expire | one thread per task |
| Job status, `JobResource` | Huey answers, which expire | ask, run, answer, poll, fetch, clean up, delete with the source | a client learns the outcome, and finds the result it names |
| Failure reports, `tasks/failure_reports.py` | one Redis list per owner, mails | push, read, mail, delete, die | every error is reported, once |
| Alerts, `check_alerts_for_query.py`, `models/__init__.py` | state, last trigger, rearm, subscriptions | evaluate, commit, notify, mute, subscribe | subscribers know the state; reminders keep their distance |
| Dashboards, `handlers/dashboards.py` | rows with versions, widgets, slugs, API keys | create, edit, share, unshare, archive | of two edits from one version only one succeeds; slugs name one dashboard; unsharing closes it |
| Data sources, `models/datasources.py` | rows, pause and schema in Redis, groups, options | create, edit, delete, pause, refresh, execute through a tunnel | the schema follows the connection; options are what was decided |
| Destinations, settings, `handlers/destinations.py`, `handlers/settings.py` | options, settings | create, edit, delete | options and settings are what was decided |
| Streams, `models/streams.py`, `triggers/`, `ingest/` | rows, ClickHouse tables, Vector configuration | insert, create table, read, write, commit | the configuration serves all streams, and each event gets to its own table |
| Users and administrators, `models/users.py`, `handlers/users.py`, `handlers/setup.py`, `cli/users.py` | rows with details, moments of visits | set up, invite, accept, disable, delete, sync | somebody can administer; accepted invitations stay so; visits are not lost |
| Groups and permissions, `handlers/groups.py`, `handlers/permissions.py`, `permissions.py` | lists of groups, rows of data sources and grants | add, remove, delete, hold, grant, revoke | memberships and grants are as decided; what is listed can be opened |
| Authentication, `authentication/`, `handlers/authentication.py` | session cookies, digests | sign in and out, change address or password | a browser is signed in as was last decided |
| Lists, `handlers/base.py`, `favorites.py`, `events.py` | rows, pages in flight | list, search, star, turn pages | no row is missed |
| Object history, drivers, serializers, metrics | append-only or none | input and output | see section 7 |

How they interact: request handlers and `refresh_queries_task` call
`enqueue_query`; `run_query_task` inserts the result, calls
`Query.update_latest_result`, and on errors calls `track_query_error`, which counts
in the row and pushes to the Redis list `send_failure_report` reads;
`outdated_queries` reads the latest results and counters that executions write, and
writes schedules that users save; the cleanup task deletes results that the others
are about to point at, and the deletion of a data source all of its results; archiving a query deletes widgets and alerts others are adding; an execution
through an SSH tunnel writes the options of the data source that administrators edit; a periodic
task writes the details of users whose invitations are being accepted; the commands delete users and data sources,
and take permissions away, that requests are about to rely on, and so does a sign-in by SAML with a user's groups.

## 2. Modules

| Module | Models | State and actions |
|---|---|---|
| `Schedule` | `should_schedule_next` | operators only; a date is a number of minutes, a day has `DayLen` of them |
| `ScheduledQuery` (extends `Schedule`) | one saved query over the days | `schedule`, `now`, `last`, `failures`; `Skip`, `ScheduledRun` and `ScheduledFailure` are a wake-up of `refresh_queries_task` that finds the query not due, due and executed, due and failed; `UserRun` an execution by hand |
| `QueryRefresh` | passes of `refresh_queries_task` over loaded rows, `empty_schedules_task`, users saving schedules | see below |
| `QueryExecution` | requests, Huey, threads of the default worker, results, counters, cleanup, edits, forks | see below |
| `Parameters` | executing a query with parameters | `saved`, `level`, `pausedWells`, `dropdown`; a request in `inHand` goes through `Ask...`, `Allow`, `BeginApply`, a `CheckValue` for each value, `Prepare`, `SendTask` (an endpoint's through `AskEndpoint`, `CheckValue`, `ServeEndpoint`) while `Rewrite`, `NewDropdown`, `SetLevel`, `SetPaused` change what it is checked against |
| `JobStatus` | `JobResource.get` over Huey's answers | `source`, `dropped`, `job`, `answer`, `stored`, `heard`, `time`; the worker's steps, `LoseJob`, `Poll`, `FetchResult`, `CleanupResults`, `DropSource` |
| `FailureReports` | `send_aggregated_failure_reports_task` | `errorList`, `pass`, `outbox`; `Push`, `BeginPass`, `ReadErrors`, `SendReport`, `DeleteErrors`, `PassDies`, `SendMail` |
| `Alerts` | alerts of one query and their subscribers | `alertRow`, `subscription`, `destinationRow`, `check`; `BeginCheck` loads, `Examine` evaluates and commits, `NotifySubscriber` tells one; users' requests |
| `DataSources` | schemas of data sources | `sourceRow`, `usedBy`, `connection`, `schemaCache`, `pausedSources`, `schemaQueue`, `fetcher`; `Refer` and `Unrefer` are what uses a source, `DeleteSource` takes it from that; `ShowSchema`, `BeginRefresh`, `RefreshOne`, `StartFetch`, `StoreSchema` |
| `Configuration` | options of one data source or destination, or the settings of the organization | `record`, `editing`, `running`; `Open...` loads, `Save...` writes the whole column; `StartRun` to `CommitRun` are an execution through a tunnel |
| `Streams` | creation of streams | `streamRow`, `creation`, `table`, `vectorConfig`; `InsertStream`, `CreateTable`, `ReadStreams`, `OpenConfig`, `WriteConfig`, `CommitStream` |
| `VersionedRecord` | what "409: modified since last read" promises | `record`, `seen`; `View`, `Edit` by who has seen the record as it is, `Override` by a request without a version |
| `Editing` (implements `VersionedRecord`) | edits of a dashboard or a query | see below |
| `Archiving` | a query and what hangs on it | `queryRow`, `viewOf`, `tileOf`, `bellOf`, `hand`; `OpenArchive` loads the query, `Gather` writes it and loads what `Archive` deletes; `OpenQuery` and `SaveQuery` are an edit |
| `DashboardSharing` | slugs, widgets and API keys of dashboards | `slug`, `widget`, `apiKey`, `work`; `InsertDashboard`/`CommitDashboard`, `Share`, `FindKey`/`Unshare` |
| `Listings` | lists read page by page | `table`, `reading`; `Count` and `Fetch` are the two statements of `paginate`; rows are written in between |
| `Accounts` | `users.details` and last visits | `userRow`, `lastActive`, `request`, `sync`; requests read and commit, a pass of `sync_user_details_task` goes through `BeginSync`, `ReadActive` (hget), `RemoveActive` (hdel), `CommitSync` |
| `Administrators` | who can administer | `founded`, `empowered`, `person`, `asked`; `AskFor` checks the asker, `DoAsAsked` commits; `DeletePerson`, `GrantAdmin`, `ChangePermissions` and `CommandCreateUser` are commands, `ToldGroups` a sign-in by SAML |
| `Access` | groups, members, data sources of groups, lists of what a user may see | `groupRow`, `groupIds`, `held`, `duty`; `ReadList`/`WriteList`, `ReadMembers`/`DeleteGroup`; the lists of `all_queries` and its kin, and `HasAccess`, are operators |
| `Grants` | `AccessPermission` | `grants`, `looking`; `LookForGrant`/`Grant`, `Revoke` |
| `Sessions` | who is signed in where | `account`, `cookie`, `remembered`, `flight`; a request is sent with the cookies there are (`Send`) and answered later, with new ones (`Answer`) |
| `MC...` | instances for TLC | constants, symmetry, composition |
| `...Proofs` | theorems | section 5 |

The first three models cut the executions of queries along three questions. `ScheduledQuery` has
the dates and lets executions take no time; `QueryRefresh` has the passes and only
knows a result as fresh or old; `QueryExecution` has the threads and takes any
query to be due at any time. Each abstraction allows more than the others'
detail, so what holds in one holds with the others' detail added. The same goes for
the rest: where a component meets another one, it lets the other do what it likes. `FailureReports` takes errors to be
pushed at any time, `Archiving` takes schedules to be saved and alerts to be moved at any time,
`Access` the groups to change under a listing, `JobStatus` a worker to die at any step.

**A request or task is several steps.** What it reads in one statement and writes in a later one is
kept in a variable per process: `worker`, `pass`, `request`, `hand`, `inHand`, `check`, `editing`,
`work`, `duty`, `looking`, `asked`, `creation`, `flight`. A step that may fail has an action that drops what is
in hand: an exception, a refusal by Postgres, the death of the process. History variables,
marked as such, say who was disturbed by what; properties that exclude a case exclude it by
them, so that the exclusion itself is checked to be as narrow as it says.

**QueryExecution.** `key`, `latest` and `failures` are columns of `queries`
(`query_hash` with `data_source_id`, `latest_query_data_id`,
`schedule_failures`); `result` is the table `query_results`, a result named by the
task that stored it; `task` is what Huey knows; `worker` is the program counter and
the local copies of each thread; `forker` a fork between its read and its commit;
`errorQueue` the Redis list. `owned`, `failed` and `overlapped` are histories.
A read and the commit that acts on it are two steps: `Start` (the query is loaded,
with its counter) and `FailScheduled` (counter + 1 is committed); `Store` (queries
with the key are selected) and `Commit`; `ForkRead` and `ForkCommit`. A commit, and
a statement like the cleanup's `DELETE ... WHERE id IN (SELECT ...)`, is one step;
its subquery is read when the statement starts, and the foreign key on
`latest_query_data_id` refuses the deletion of a row referenced since, which ends
the task as if it had not run. A refresh whose default parameters cannot be applied calls `track_query_error` on the copy the pass has
loaded: it reads and writes what a thread does that starts a scheduled task and
fails it, and is covered by one more thread. The documented input of the handlers
is modelled, with `latest_query_data_id`, which they do not strip.

**QueryRefresh.** `pass[p].rows` maps the rows a thread still has to examine to what
it will find, taken when the rows are loaded (`Load`): nothing an examination reads
changes afterwards in the loaded copy. `Disable` writes the whole schedule back.
`Abort` is the exception inside the exception handler. A schedule is one of
`null` (JSON null), `faulty` (raises when examined; `{}` is one), `set`, `over`
(`until` has passed) and `disabled`. Queries have parameters whose defaults give
another text (`parameterized`); the result of such an execution has a hash that is no
query's, and of queries that share a hash one is executed, with its own defaults. `safe` is a history: the schedules saved while no running task
had loaded a predecessor it is going to replace. `queued` saturates at `MaxQueued`.
A query starts with the schedule `{}`.

**Editing.** `row` is one row of `dashboards` or `queries`, whose `kind` says whether
SQLAlchemy increments its version (`version_id_col`; `version_id_generator` is `False`
for queries) and which columns its `query_hash` is computed from. `seen` is what each
page shows, `request` the edit it has posted, with the row as the handler has loaded it.
`Load` is the handler up to the comparison of versions, `Commit` the UPDATE:
its WHERE clause compares the loaded version once more, it
writes only the columns that differ from the loaded ones, and every edit writes at least
`updated_at`, so that even one that changes nothing increments the version. A refusal with
409 at the comparison changes nothing and is no step. Archiving a dashboard is an edit
without a version. Under the refinement mapping a dashboard's `Copy(row)` is the
abstract record and the pages' copies are `seen`; a `Commit` is an `Edit` if its author
has seen the row as it is, else an `Override`; `Load`, `Conflict` and `Abandon` stutter. A
query maps to a constant: it makes no such promise. A page that sends
no version is taken to keep no copy of the answer either.

**Sessions.** An identity is the user with a digest of address and password (`User.get_id`), which
every request compares with the row. `Send` takes the browser's cookies, `Answer` brings new ones
back; every response re-sends the session it was asked with
(`SESSION_REFRESH_EACH_REQUEST`), so a page that was loading can bring back a session that was left
meanwhile. A provider (Google, SAML, LDAP, a proxy's header, JWT) is what it admits and whom
`create_and_login_user` then finds or creates.

**Administrators.** Setup commits the organization before the first user, so a request that dies in
between leaves an organization nobody can administer, and setup is not offered again: `settled` says
that it got through. `shaken` says that an administrator's request was committed after the asker had
lost the role, that one gave up the role, or lost it to `users delete`, to `groups change_permissions` (which may take
`admin` from the built-in group: `empowered`) or to the groups told at a sign-in by SAML, which replace the
user's list. None of these asks whether an administrator is left.

**Accounts.** All of `users.details` is written by whoever changes one field of it. The sync task
removes a moment from Redis (hdel) before its commit, which comes at its end. Requests delete only users whose
invitation is pending; the command `users delete` (`CommandDelete`) deletes any, and with that ends what
`accepted` says of them.

**Access.** `GroupMemberListResource` and its kin read a user's list, append or remove, and write it
whole; `duty` has the list that was read. `HasAccess` is the dictionary of `DataSource.groups`, which
keeps one of two rows for a group: `Levels` are all it may be. `DataSource.all` does not
filter for who is in no group at all: such a user sees every data source listed.

**Configuration.** `with_ssh_tunnel` puts the near end of the tunnel into the options of the object the
execution has loaded and puts the address back; the commit of the result then writes the column,
whatever it has become since. The type is written only if it changed, the options always.

**Streams.** Row, table and file change inside one flush, before the commit; ClickHouse's refusal is only
logged. Opening the file empties it, and two writers may leave it garbled. No handler archives a stream.

**Parameters.** Three ways to execute check different things: `QueryResultResource` all of them,
`QueryRefreshResource` and free text no values, an endpoint neither pause, missing parameters nor `is_safe`; it
quotes values before it validates them, so numbers and choices are never valid there. `_valid` loads the
dropdown's latest result anew for each value, so two values of one dropdown may be checked against two results:
`CheckValue` is a step of its own for each. A template is the set of its nodes; `_collect_key_names` finds
variables and sections, and neither `{{{x}}}`, `{{&x}}` nor inverted sections, so a text with such a gap is executed
with the gap empty (`CollectedKeys`).

**Job status, data sources.** `DataSource.delete` deletes every result of the source, whatever its age, takes
source and result from its queries and deletes the row, in one transaction: `JobStatus.DropSource` is what becomes of the
results, `DataSources.DeleteSource` of what refers to the source. An execution under way then fails at its commit,
which refers to a row that is gone; an answer that is there goes on naming its result. A stream cannot be without its
source and makes the deletion fail, and so does a query that was moved to another source and shows a result still.
The command `ds delete` deletes no results and only succeeds where there are none.

**Archiving.** The handler loads the row, `Query.archive` sets columns of it, and the first lazy load (of the
visualizations) writes them: these are `OpenArchive` and `Gather`. A schedule that was `{}` when it was loaded has not changed
and is not written, so one that was saved between the two survives; what is gathered is deleted at the end.

**Alerts.** The check is modelled from its own code: the call in `run_query_task` is commented out
(`run_query.py:107`), so at this commit nothing enqueues it. A state that is the loaded one is not written
(`CommitState`), which matters where two checks overlap.

**One run, several components.** Components that have no variable in common share a run:
a variable `part`, chosen initially, says which one moves, and those that do not have one initial
state. The run explores the sum of their state spaces, not the product, which would show nothing
more. Symmetry is by processes (all components share the same ids) and by permutations that swap several sets at once:
of these at most one set is used by each component, or, like queries with their visualizations, they
may change places together.

## 3. Properties and runs

| Run | Instance | Shows |
|---|---|---|
| `QueryExecution` | 2 queries, 2 keys, 2 threads, 2 tasks, 2 moments | `LatestExists`, `LatestOfOwnKey`, `SerialCountsExact`, `NotifiedFailuresHappened` |
| `QueryRefresh` | 2 queries as twins, as a shadowed pair and as strangers; one pass at a time; one trouble; schedules well-formed, `{}` or null | `SavedScheduleStays`, `RepeatedExecution`, `FaultyIsDisabled` |
| `Background`: reports | 2 owners, 2 errors, 2 passes, 2 deaths | `ErrorsAccountedFor`, `AnnouncedOnce`, `EveryErrorIsMailed` |
| `Background`: jobs | 2 jobs on 2 sources or on one, answers for 2 of 5 moments, cleanup after 3, sources deleted at any moment | `FinishedNamesResult`, `PollingEnds` |
| `Background`: schemas | one source used by queries, results and streams, 2 threads, 2 changes of the database, one fault | `SchemaFollows` |
| `Background`: schedule | days of 4 minutes, 70 minutes, wake-ups up to 6 minutes late, 8 schedules, 5 failures | `RunsOnTime`, `NeverTooSoon` |
| `Administration`: alerts | one alert, 2 subscriptions, one destination, 2 checks, 3 moments | `SubscribersKnow`, `RemindersKeepTheirDistance` |
| `Administration`: streams | 3 streams, two with one route key, 2 sources, 2 requests | `EventsReachTheirTable`, `CreationHeals` |
| `Administration`: sharing | 3 dashboards whose slugs collide, 2 keys, a widget, 2 requests | `SlugNamesOne`, `UnshareCloses` |
| `Administration`: accounts | 2 users, 2 requests, one pass, 2 visits | `AcceptedStays`, `VisitsAccountedFor` |
| `Administration`: admins | 2 people, 2 requests, commands and sign-ins by SAML | `AdminRemains` |
| `Administration`: access | a user, 2 groups, a source with an archived query and a draft, 2 requests, up to 2 rows of a group for the source | `MembershipAsDecided`, `ListedIsReadable` |
| `Administration`: grants | 2 users, 2 grantors, 2 requests | `GrantsAsDecided` |
| `Administration`: configuration | 2 types, 3 forms with a tunnel, a secret and a field left empty, 4 changes of settings, 2 edits, one execution | `OptionsAsDecided` |
| `Administration`: parameters | 2 versions of the query, one with two parameters of one dropdown and an unescaped node, 5 fillings, 2 results of the dropdown, 2 sources, a user and a key | `ExecutedAsWritten` |
| `Workspace`: editing | a dashboard or a query of 2 columns with 2 values, 2 pages, versions up to 3 | `CompareAndSet`, `UndisturbedEditHeals`, `OtherColumnsStay` |
| `Workspace`: sessions | 2 users, 3 spellings of 2 addresses, 5 providers, 2 browsers, 2 requests, 2 changes | `SignedInAsDecided` |
| `Workspace`: archiving | 2 queries, 2 visualizations, a widget, an alert, 2 requests | `ArchivedIsQuiet` |
| `Workspace`: listings | 3 rows of 3 looks, 14 lists, pages of 1 and 2, 2 writes meanwhile | `PagesMissNothing` |
| `WeeklySchedule` | one weekly schedule | violates `NextIterationOnRequestedDay` |
| `FailureCount` | one query, 2 threads, 2 tasks | violates `EveryFailureCounted` |
| `LatestResult` | one query, 2 threads, 2 tasks | violates `LatestNeverGoesBack` |
| `NullSchedule` | 2 queries, schedules that may be saved as null | violates `FaultySkipped` |
| `EditConflict` | `Editing`, a query | violates `ConflictDetected` |
| `QueryHash` | `Editing`, a query | violates `HashOfText` |
| `SessionKept` | `Workspace` | violates `ThisSessionStays` |

Every run also evaluates the assumptions of its modules; the passing ones check
the type invariant. Deadlock is checked but in `Administration`, `Workspace` and `SessionKept`, where the
bounded counters run out (ids of rows, versions, changes of passwords, checks, writes while a list is read) and the
behaviour ends; in the program there is always another request.

*Schedule arithmetic.* Horizon and lateness cover every combination of time of
day of the last execution, of the wake-up and of the schedule, and all days of the
week twice; the arithmetic only depends on the day length through `%` and `\div`.
Schedules with a time of day have intervals of whole days, as the comment in the code
has it. `RunsOnTime` is that no day of a daily schedule is missed and no latest result gets older than the
interval, of a query that does not fail. `NeverTooSoon` allows one day less than the interval: an execution
before the scheduled time counts as one of the day before, on purpose. The counter of failures is never
reset by a success.

*Executions.* Two threads are enough for each pair of conflicting steps, two keys for
an edit between select and commit, two tasks for overlapping and reordered
executions; a third query, thread or task adds no new pair of conflicting
accesses, and the theorems hold for any number. `LatestOfOwnKey` speaks of keys a
query has *had*, because an execution may commit after an edit, and of those
inherited by fork or attached by a client: what it excludes is a result of a text
that was never this query's. `SerialCountsExact` says when the counter can be
trusted, `EveryFailureCounted` fails for the rest. Reports are dropped from
`MaxReports` on, by the organization's setting or for disabled owners, so nothing says that
every failure is reported; `NotifiedFailuresHappened` says that none is invented.

*Refreshing.* Two rows suffice to have one behind another, to shadow and to be
twins; the bound on trouble puts a failure, a lost task, a refusal or a death at any
point. `SavedScheduleStays` has the proviso described above: without it, a
schedule saved between the load and the write-back is overwritten by the old one
with `"disabled"` added. `RepeatedExecution` is not promised to a query without a
result, to one executed with default parameters that change its text (its result has
another hash, so it is enqueued again every minute), nor to one shadowed by such a query.
A schedule saved as JSON null ends every pass at its row: both liveness properties
assume that from some time on there is none, and `NullSchedule` is about what happens
otherwise.

*Background.* Two passes and two errors show a push between lrange and delete, two passes over
one list, and a death at each step; `ErrorsAccountedFor` excludes exactly the errors pushed in that
gap, which the TODO at `failure_reports.py:63` names, and `AnnouncedOnce` those of two passes or of a
death before the deletion. `CleanupAssumption` (answers expire before results are cleaned up, as by
default, one day and seven) is what `FinishedNamesResult` rests on; it leaves out jobs whose data source was
deleted, and says of these that no result is left or comes back. `PollingEnds` excludes a job whose
worker died and one whose answer expired between polls: these are STARTED for good, as the
handler cannot tell them from tasks that wait. `SchemaFollows` needs a later fetch to overtake an
earlier one, hence two threads and two changes.

*Administration.* Two requests and two objects of each kind that can collide: two checks of an
alert, two streams with one key, a stem equal to another dashboard's second slug, two readers of one
list, two grants of one permission. `SubscribersKnow` leaves out who was unreachable, alerts that were
muted at the change or had two checks at once: these lose or repeat a notification. `CreationHeals` is
about a request that has no company; overlapping ones may leave a configuration without the other's stream, or a
garbled one, until then. `VisitsAccountedFor` leaves out a visit between hget and hdel, and passes that die
after hdel. `AcceptedStays` leaves out users two writers had the details of in hand, and those the command `users
delete` deletes. `AdminRemains` leaves out two administrators who remove each other at once, one who leaves
the group, and administrators who lose the role to a command or to the groups SAML tells: any of these may
take the last one. `MembershipAsDecided` leaves out users two requests had read at once, until the list is
replaced as a whole, and groups added twice. `OptionsAsDecided` leaves out rows last written by who had loaded
them before another write: these mix the type of one edit with the options of the other, or lose a
setting. `ExecutedAsWritten` asks for one version of the query that allows the execution as a whole, of all
there were while the request was served, and for each value a result of the dropdown, of those it showed meanwhile; not
for one result that allows all values, which the code does not see to. Two parameters of one dropdown with two results
that have no value in common show the difference.

*Workspace.* Two pages and two columns show every order of two loads and two commits, of
the same column and of different ones; three versions let an edit be overtaken twice, also
by one without a version. `CompareAndSet` is the refinement of `VersionedRecord`. What a query keeps instead is
`OtherColumnsStay`: concurrent edits of different columns both survive, of one column the last
one wins. Its hash may be spoilt by such edits, and `UndisturbedEditHeals` says for how long.
`SignedInAsDecided` leaves out browsers whose requests overlapped with a sign-in or a change, and
former addresses that came back with their digest; a behaviour ends when that is true of every browser
(`SomethingToSay`). An edited row starts with one content, as nothing tells values of a column apart. `ArchivedIsQuiet` leaves out what a query got from the load
of its row on, while or after it was archived: a schedule saved over none between load and UPDATE stays, an edit that
had loaded the query puts its schedule back, and it is then executed again.
`PagesMissNothing` promises pages beyond the first only for searched queries and events, since
`order_results` returns the rows in no order, whatever order was asked for; a search without
`multi_byte_search`, the default, returns all queries, and one of the own queries fails.

**Fairness.** `RepeatedExecution` and `FaultyIsDisabled` are checked under weak
fairness of: some thread loading the rows (crontab `*/1`), the steps of a pass that
has begun (a thread goes on until an exception or the death of the process), and the
end of each queued task, in success or failure (the default worker drains its queue;
queries time out or answer). There is no fairness of success alone, of users, of
`empty_schedules_task` or of dying. Failures are bounded by `MaxTrouble`: a query whose executions fail for
ever never has a fresh result, and the property does not claim it.
`ReportFairness`: a pass begins every hour and goes on, and mails are sent or given up; deaths are bounded. `JobFairness`: threads go on with
the tasks they have, and a client that was told STARTED polls again. `SourceFairness`: the refresh every
15 minutes and its steps, fetches that have begun, and, strongly, that a waiting task gets some thread in the
end, for threads are taken by others in between but come free again and again. `BackgroundFairness` states the same
for the behaviours in which the component moves.

**Mutants.** Each property of each passing run has a mutant in `PROJECT.json`: a
plausible bug of a mapped definition (comparing plain timestamps, a queue that keeps
the task it handed out, a dropped `WHERE`, a missing commit, an address left in the options, an unshare that finds
inactive keys) under which TLC finds the property violated. The mutated forms stand before the
definitions they replace.

## 4. Findings

1. `should_schedule_next` computes the weekday before it moves the previous iteration to the
   day before (`WeeklySchedule`): after an execution early in the day, a schedule
   for Tuesdays falls due on a Monday.
2. `schedule_failures` loses counts of overlapping executions (`FailureCount`), while
   the report quotes it as the total. Executions overlap whenever one takes longer than a
   minute, as nothing records that a query has been enqueued.
3. The latest result can be replaced by an older one (`LatestResult`).
4. A schedule of JSON null stops every later pass at its row (`NullSchedule`).
5. Two edits of a query from one version both succeed (`EditConflict`): the comment in the
   handler relies on SQLAlchemy, which has been told not to increment the version.
6. Concurrent edits of text and options leave `query_hash` the hash of neither
   (`QueryHash`); results are matched with queries by it.
7. A user who changes the own address to one with capitals is signed out by it (`SessionKept`): the
   session is renewed with the address as it was typed, the row has it in lower case.

What the models show besides, without a sentence in the repository that says otherwise, is listed as
hazards, most with the property whose exclusion names it: an organization without a user after a setup that died; two
administrators who remove each other; the last one deleted by a command, or taken out of the group by SAML; a
FINISHED job whose result went with its data source; two values of one dropdown checked against two results; a group list of a user that loses an addition or names a deleted
group; two dashboards of one slug, which then neither finds; a dashboard that stays open after one unshare of
two shares; options that mix two edits; a configuration of Vector that misses a stream;
duplicate grants, after which each further grant fails. Some more were met while reading and are not in a
module: the command `users create` fails for an empty list of groups (`groups.remove("")`), and
`users delete --org` compares a relationship with an id.

## 5. Theorems

Parameters are arbitrary within the named assumptions: `None` is not a value,
bounds are naturals, schedules are of `ScheduleType` and whole days, keys and texts are typed.
Safety theorems follow `Init => IInv`, `IInv /\ [Next]_vars => IInv'`, `IInv => Inv`.

- `ScheduledQueryProofs`: `TypeCorrect`; `FirstRunNeedsAUser`, by `NeverRunNotDue`: the
  next iteration after `t` is never before `t`, which needs that a day of the week
  comes with an interval of a week; `ExecutedOnTime` (`RunsOnTime`) by the invariant
  `InTime`: now is at most the next iteration after the latest result plus what the wake-up allows, with lemmas on division by the
  length of the day (`WholeDaysAssumption`: a schedule with a time of day has an interval of whole
  days); `NotExecutedTooSoon` (`NeverTooSoon`).
- `QueryExecutionProofs`: `TypeCorrect`, `NoDanglingResult` (`LatestExists`),
  `ResultsOfOwnText` (`LatestOfOwnKey`), `FailuresNeverInvented`,
  `SerialFailuresAllCounted` (`SerialCountsExact`), `ReportedFailuresHappened`
  (`NotifiedFailuresHappened`). None of these is inductive alone. `IInv`
  adds that tasks with results have keys and are not free, so that a new task names no
  old result; that the rows a storing thread selected own its key; that a
  pending fork's result belongs to the keys it copies; that the counter a thread
  has read does not exceed the failures that happened; and, for queries without overlap, that
  at most one thread executes the query, and that what it read is
  still the current counter. `ReportsInv` counts each report with the threads that have counted a failure and
  not yet pushed it: together they are no more than the failures.
- `QueryRefreshProofs`: `TypeCorrect` (with one query per key in each pass) and
  `SavedScheduleNotLost` (`SavedScheduleStays`), for any number of overlapping passes, where
  TLC checks one pass at a time. `IInv` adds that no running task is about to
  replace a schedule in `safe` (`SafeFromTasks`).
- `BackgroundProofs`, job status: `JobTypeCorrect`, `FinishedJobsHaveResults` (`FinishedNamesResult`). The invariant
  relates the moments: an answer is at most `MaxDelay` younger than its result, so that whatever is old enough to
  be cleaned up has an answer that is gone; what is gone although its answer is there went with its data source, and
  no result is stored for a source that is deleted.
- `BackgroundProofs`, failure reports: `ReportTypeCorrect`, `NoErrorLost` (`ErrorsAccountedFor`), `NoErrorTwice`
  (`AnnouncedOnce`). The invariant follows an error through list, hand and mail: what a pass is about to
  delete it has read and mailed, but for what was pushed since, and an error that was mailed is no longer in a
  list unless a pass has yet to delete it.
- `WorkspaceProofs`, sessions: `SessionTypeCorrect`, `SignedInCorrectly` (`SignedInAsDecided`), for any users,
  spellings, providers, browsers and requests in flight. `SessionInv` says of each browser nothing is left out of:
  the identities it has been given, in cookies or in requests that will send them back, are all of one user; of
  these only one that names the user expected there is alive, and a cookie has it; what a request has read of
  a row is still so; and requests other than visits are alone. A digest is of a password there has been, so a new
  password makes an identity no cookie has. The cases are one lemma per handler; what they share is
  what another row of a user does to browsers that have (`Reidentified`) and have not (`OthersReidentified`) to do with it.
- `WorkspaceProofs`, edits: `TypeCorrect`, `SameVersionSameContent`, the
  refinement `NoLostEdit` (`CompareAndSet`), `HashHeals` (`UndisturbedEditHeals`) and
  `OthersKeepTheirColumns` (`OtherColumnsStay`). `IInv` adds that a row loaded in the
  current version is the current row (`LoadedIsCurrent`), and that who posted an edit
  with a version shows that version or a newer one (`SeenWhatWasLoaded`): together they
  make the author's copy the current row at the commit.
- `WorkspaceProofs`, archiving: `ArchivingTypeCorrect`, `ArchivedStaysQuiet` (`ArchivedIsQuiet`): what hangs on an
  archived query that is not in `disturbed` is nothing, which needs the lock an archive holds on the row from its first
  UPDATE on.
- `WorkspaceProofs`, lists: `ListingTypeCorrect`, `PagesAreComplete` (`PagesMissNothing`), for tables, requests and
  sizes of pages without bound. While a list is read, what stands before the page to come has been
  seen, and once only unless rows came (`OnWay`). The lemma `Position` is that a row's place in an arrangement is the
  number of rows ahead of it, whatever the database does with ties, by counting with `FiniteSetTheorems`.
- `AdministrationProofs`, administrators and grants: `AdminTypeCorrect`; `AnAdminRemains` (`AdminRemains`), since who is
  removed by an enabled administrator leaves that one behind, and the group keeps its permission unless a command took it
  (`RoleInv`); `GrantTypeCorrect`, `GrantsFollowDecisions`
  (`GrantsAsDecided`), with an invariant on each grantee nobody disturbs (`Undisturbed`).
- `AdministrationProofs`, dashboards: `UnsharedIsClosed` (`UnshareCloses`): a dashboard not in `manyShares` has at
  most one active key, and an unshare in hand has that one (`OneKey`). `SharingTypeCorrect`, `SlugsNameOne`
  (`SlugNamesOne`), by `NamedInv`: two creations in hand are `createdAtOnce`, and so is one with the slug of a dashboard
  committed meanwhile; that the first free number exists takes the well-foundedness of the naturals.
- `AdministrationProofs`, streams: `EventsKeepToTheirTable` (`EventsReachTheirTable`): every plan in hand or in the
  file is made of streams whose table was created (`TablesInv`). `StreamTypeCorrect`, `CreationRepairs`
  (`CreationHeals`, an action property), by `StreamInv`: no two streams that are there or being created have one table,
  and a request that was never next to another one plans for all the streams there are, and has written that.
- `AccountsProofs`, details of users: `AccountTypeCorrect`, `AcceptedUsersStay` (`AcceptedStays`), `NoVisitLost`
  (`VisitsAccountedFor`). `AccountInv`: the details of a user who is not `contended` are in one hand at most
  (`Alone`), whose copy is up to date (`UpToDate`); the last visit is in Redis, in the row, or in the
  copy of the pass that removed it (`VisitKnown`).
- `AccountsProofs`, groups: `AccessTypeCorrect`, `MembersAsDecided` (`MembershipAsDecided`): one request at most has the list
  of a user who is not `crossed`, as it is, and no other one is about its group (`Uncrossed`); then each group that was
  decided on is in the list once, unless some were added twice (`Decided`). `NothingUnreadableListed` (`ListedIsReadable`)
  holds in every state with numbers of rows, by unfolding join and dictionary.
- `ConfigurationProofs`, alerts: `AlertTypeCorrect`, `ReachedSubscribersKnow` (`SubscribersKnow`), `RemindersAreApart`
  (`RemindersKeepTheirDistance`, an action property). `AlertInv` says of alerts without overlapping checks: one copy at most,
  up to date until it is examined; what is being said is the state; subscribers know it or are about
  to be told (`Informed`), and what they are told again is worth it (`Spaced`). That UNKNOWN is told again after
  an OK that went unsaid takes four checks, so the run with two never gets there: the proof attempt showed it.
- `ConfigurationProofs`, options: `ConfigurationTypeCorrect`, `DecidedOptionsStay` (`OptionsAsDecided`). `ConfigurationInv`: the row
  is as decided until it is `overtaken`; an edit that is not stale has loaded the row as it is (`EditInv`), and
  an execution has the row's options, but for the address while its tunnel is open (`RunInv`).
- `ConfigurationProofs`, parameters: `ParameterTypeCorrect`, `TasksAreAsWritten` (`ExecutedAsWritten`): each phase of a request
  adds what has been checked by then (`AskInv`), and against what: the results the dropdown
  has shown in the meantime include the current one, so each value that was checked is allowed by one of them; a task
  keeps that (`TaskInv`).

- `BackgroundProofs`, data sources: `SourceTypeCorrect`, by which a cached schema is never one the database has yet
  to show: what a thread has read was shown (`Fetched`), and what databases show only moves on.
- `BackgroundTypeCorrect`, `WorkspaceTypeCorrect` and `AdministrationTypeCorrect`: the composed
  specifications of the runs keep the conjunction of the components' inductive invariants, as a step of one of them leaves the
  variables of the others alone. The proof modules extend the `MC...` modules for that, and use nothing of the values the
  configurations give.

Assumptions that the proofs brought up, and TLC evaluates: no slug is `"none"`, and each stem has as many of them as a
creation tries (`SlugAssumption`); no user and no browser is `"none"`, and some change of a password is allowed for
(`AddressesAssumption`); lists are of the kinds there are, over finitely many numbers, and `page_size` is at most 250
(`ListingAssumption`). A creation needs a number within `MaxTries` that is free, a bound the loop in the code does not have.

Only model-checked: the liveness properties (`RepeatedExecution`, `FaultyIsDisabled`,
`EveryErrorIsMailed`, `PollingEnds`, `SchemaFollows`), which are out of the prover's reach, and what the runs
that expect a violation are about. No module uses RECURSIVE operators.

## 6. Plan

All components with state the program's behaviour depends on have a module. What is left:

1. `Archiving` composed with `QueryRefresh`: an archived query whose schedule came back is executed.
2. Forks of dashboards with their widgets, and regeneration of API keys while they are in use.

## 7. Not modelled, and why

The drivers of foreign databases in `query_runner/`, notifications in `destinations/` and mail are input and output: an
execution or a message succeeds or fails. The protocols and signatures of identity providers are the
libraries'; what they lead to is in `Sessions` and `Access`. `models/changes.py` and the events are
append-only records that nothing reads back into a decision; the list of events is in `Listings`. Serializers, settings and
presets convert rows or read the environment; metrics and `monitor.py` count. Huey's own implementation, the
database's and the session library's are external: they are modelled from how the code uses them. Left out of the modelled parts are
texts of messages, rendering of templates, downloads, the layout of dashboards, formatting of SQL, profile pictures
and pages without an effect.
