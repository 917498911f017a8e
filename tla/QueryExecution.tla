--------------------------- MODULE QueryExecution ---------------------------
(***************************************************************************)
(* Executing queries: requests and the scheduler enqueue run_query_task    *)
(* into Huey's default queue, the threads of the default worker execute    *)
(* the tasks concurrently, store their results, point the saved queries    *)
(* with the same text at them, or count and report a failure, while the    *)
(* cleanup task deletes results and users edit and fork queries.           *)
(*                                                                         *)
(* PostgreSQL runs at READ COMMITTED: a SELECT and the commit that acts on *)
(* what it read are two steps, the commit itself is one.  A result is      *)
(* named by the task that stored it; a task stores at most one.  A key is  *)
(* the pair (query_hash, data_source_id) by which results and queries are  *)
(* matched.                                                                *)
(***************************************************************************)
EXTENDS Integers, FiniteSets, Sequences

CONSTANTS
    Queries,       \* rows of the queries table, existing or not yet created
    Keys,          \* pairs of query_hash and data_source_id
    Workers,       \* threads of the default worker (one process)
    TaskIds,       \* bound: the tasks that are ever enqueued
    MaxClock,      \* bound: the last moment of the horizon
    MaxAges,       \* the values of max_age a request may carry; -1 is any age
    CleanupAge,    \* QUERY_RESULTS_CLEANUP_MAX_AGE
    CleanupCount,  \* QUERY_RESULTS_CLEANUP_COUNT
    MaxReports,    \* MAX_FAILURE_REPORTS_PER_QUERY
    None

ASSUME NoneAssumption == None \notin Queries /\ None \notin Keys /\ None \notin TaskIds /\ None \notin Int
ASSUME NumbersAssumption ==
    /\ MaxClock \in Nat /\ CleanupAge \in Nat /\ CleanupCount \in Nat /\ MaxReports \in Nat
    /\ MaxAges \subseteq Int

VARIABLES
    clock,       \* utcnow()
    key,         \* key of each query, None before the row exists
    latest,      \* queries.latest_query_data_id
    failures,    \* queries.schedule_failures
    result,      \* retrieved_at of the row of query_results each task stored, None without one
    task,        \* Huey's view of each task
    worker,      \* what each worker thread is doing, with what it has read
    forker,      \* a fork request between its read and its commit, None without one
    errorQueue,  \* Redis list query_errors_queue:<owner>, newest first
    owned,       \* history: the keys a query, or the one it was forked from, has had, and
                 \* those of results clients have attached to it
    failed,      \* history: failed executions of a scheduled query whose count was committed
    overlapped   \* history: queries of which two scheduled executions have run at once

rowVars == <<key, latest, failures, result>>
history == <<owned, failed, overlapped>>
vars == <<clock, key, latest, failures, result, task, worker, forker, errorQueue,
          owned, failed, overlapped>>

TaskStates == {"free", "queued", "running", "done", "failed", "lost"}
Phases == {"idle", "running", "storing", "returning", "reporting"}

NoTask == [state |-> "free", key |-> None, query |-> None]
Idle == [phase |-> "idle", task |-> None, failures |-> 0, retrieved |-> 0, rows |-> {}]

Exists(q) == key[q] # None

Init ==
    /\ clock = 0
    /\ key \in [Queries -> Keys \cup {None}]
    /\ latest = [q \in Queries |-> None]
    /\ failures = [q \in Queries |-> 0]
    /\ result = [t \in TaskIds |-> None]
    /\ task = [t \in TaskIds |-> NoTask]
    /\ worker = [w \in Workers |-> Idle]
    /\ forker = None
    /\ errorQueue = <<>>
    /\ owned = [q \in Queries |-> {key[q]} \ {None}]
    /\ failed = [q \in Queries |-> 0]
    /\ overlapped = {}

Tick ==
    /\ clock < MaxClock
    /\ clock' = clock + 1
    /\ UNCHANGED <<rowVars, task, worker, forker, errorQueue, history>>
-----------------------------------------------------------------------------
(* Enqueueing *)

\* Results get_latest finds for a key; max_age -1 asks for any age
Cached(k, maxAge) ==
    { r \in TaskIds :
        /\ result[r] # None
        /\ task[r].key = k
        /\ maxAge = -1 \/ result[r] + maxAge >= clock }

\* enqueue_query; a task without a query is not a scheduled execution
Enqueue(t, k, q) ==
    /\ task[t].state = "free"
    /\ task' = [task EXCEPT ![t] = [state |-> "queued", key |-> k, query |-> q]]

(***************************************************************************)
(* A request to execute some text.  It is answered from a stored result    *)
(* when one is young enough, which changes nothing, and enqueued otherwise.*)
(***************************************************************************)
RequestExecution(t, k, maxAge) ==
    /\ maxAge # 0 => Cached(k, maxAge) = {}
    /\ Enqueue(t, k, None)
    /\ UNCHANGED <<clock, rowVars, worker, forker, errorQueue, history>>

(***************************************************************************)
(* The scheduler enqueues a query.  The text is the one the scheduler has  *)
(* loaded, with parameters applied: it need not match the row any more.    *)
(***************************************************************************)
EnqueueScheduled(t, q, k) ==
    /\ Exists(q)
    /\ Enqueue(t, k, q)
    /\ UNCHANGED <<clock, rowVars, worker, forker, errorQueue, history>>
-----------------------------------------------------------------------------
(* run_query_task *)

Thread(w, phase) == worker[w].phase = phase
TaskOf(w) == task[worker[w].task]

\* The thread is done with its task, which ends in the given state
EndTask(w, state) ==
    /\ task' = [task EXCEPT ![worker[w].task].state = state]
    /\ worker' = [worker EXCEPT ![w] = Idle]

\* A queue that still holds the task it has handed out
Peek(t) == UNCHANGED task

\* Huey takes the task off its queue and does not put it back
Dequeue(t) == task' = [task EXCEPT ![t].state = "running"]

(***************************************************************************)
(* A thread takes a task off the queue and loads what the task names.      *)
(* Tasks of one priority come in any order.                                *)
(***************************************************************************)
Start(w, t) ==
    /\ Thread(w, "idle")
    /\ task[t].state = "queued"
    /\ Dequeue(t)
    /\ worker' = [worker EXCEPT ![w] =
            [Idle EXCEPT !.phase = "running", !.task = t,
                         !.failures = IF task[t].query = None THEN 0
                                      ELSE failures[task[t].query]]]
    /\ overlapped' = overlapped \cup
            { q \in Queries : /\ q = task[t].query
                              /\ \E v \in Workers : ~Thread(v, "idle") /\ TaskOf(v).query = q }
    /\ UNCHANGED <<clock, rowVars, forker, errorQueue, owned, failed>>

\* The data source, the user or the query of the task is gone: it ends before it has begun
LoadError(t) ==
    /\ task[t].state = "queued"
    /\ \E w \in Workers : Thread(w, "idle")
    /\ task' = [task EXCEPT ![t].state = "failed"]
    /\ UNCHANGED <<clock, rowVars, worker, forker, errorQueue, history>>

\* A select that does not compare the key
AllQueries(k) == { q \in Queries : Exists(q) }

\* update_latest_result's select: the queries that have the key of the result
Matching(k) == { q \in Queries : key[q] = k }

(***************************************************************************)
(* The execution succeeded: the result is stamped and inserted, not yet    *)
(* committed, and the queries with its key are selected.                   *)
(***************************************************************************)
Store(w) ==
    /\ Thread(w, "running")
    /\ worker' = [worker EXCEPT ![w].phase = "storing",
                                ![w].retrieved = clock,
                                ![w].rows = Matching(TaskOf(w).key)]
    /\ UNCHANGED <<clock, rowVars, task, forker, errorQueue, history>>

\* The selected queries are pointed at the result, and both are committed
Commit(w) ==
    /\ Thread(w, "storing")
    /\ result' = [result EXCEPT ![worker[w].task] = worker[w].retrieved]
    /\ latest' = [q \in Queries |-> IF q \in worker[w].rows THEN worker[w].task ELSE latest[q]]
    /\ worker' = [worker EXCEPT ![w].phase = "returning"]
    /\ UNCHANGED <<clock, key, failures, task, forker, errorQueue, history>>

\* Huey stores the id of the result as the answer of the task
Return(w) ==
    /\ Thread(w, "returning")
    /\ EndTask(w, "done")
    /\ UNCHANGED <<clock, rowVars, forker, errorQueue, history>>

\* An unscheduled execution ends with an error
FailUnscheduled(w) ==
    /\ Thread(w, "running")
    /\ TaskOf(w).query = None
    /\ EndTask(w, "failed")
    /\ UNCHANGED <<clock, rowVars, forker, errorQueue, history>>
-----------------------------------------------------------------------------
(* track_query_error *)

\* The error is reported, but the count is never committed
UncommittedCount(q, seen) ==
    UNCHANGED <<failures, failed>>

\* The error is counted where it is raised and where it is caught
CountTwice(q, seen) ==
    /\ failures' = [failures EXCEPT ![q] = seen + 2]
    /\ failed' = [failed EXCEPT ![q] = @ + 1]

(***************************************************************************)
(* schedule_failures += 1 on an object loaded earlier: what is written is  *)
(* one more than what was read then.                                       *)
(***************************************************************************)
CountFailure(q, seen) ==
    /\ failures' = [failures EXCEPT ![q] = seen + 1]
    /\ failed' = [failed EXCEPT ![q] = @ + 1]

(***************************************************************************)
(* A scheduled execution ends with an error, which is counted.  The        *)
(* scheduler counts one in the same way, on the copy it has loaded, when   *)
(* the default parameters cannot be applied: it is one more thread here.   *)
(***************************************************************************)
FailScheduled(w) ==
    /\ Thread(w, "running")
    /\ TaskOf(w).query # None
    /\ CountFailure(TaskOf(w).query, worker[w].failures)
    /\ worker' = [worker EXCEPT ![w].phase = "reporting", ![w].failures = @ + 1]
    /\ UNCHANGED <<clock, key, latest, result, task, forker, errorQueue, owned, overlapped>>

(***************************************************************************)
(* The failure is pushed to the owner's queue, unless there were too many, *)
(* the organization does not want it or the owner is disabled; the error   *)
(* is then raised and ends the task.                                       *)
(***************************************************************************)
Report(w) ==
    /\ Thread(w, "reporting")
    /\ \/ /\ worker[w].failures < MaxReports
          /\ errorQueue' = <<[query |-> TaskOf(w).query, failures |-> worker[w].failures]>>
                           \o errorQueue
       \/ UNCHANGED errorQueue
    /\ EndTask(w, "failed")
    /\ UNCHANGED <<clock, rowVars, forker, history>>

(***************************************************************************)
(* The worker process dies.  Open transactions are rolled back, and the    *)
(* tasks its threads were executing are in no queue any more.              *)
(***************************************************************************)
Crash ==
    /\ \E w \in Workers : ~Thread(w, "idle")
    /\ worker' = [w \in Workers |-> Idle]
    /\ task' = [t \in TaskIds |->
                  IF task[t].state = "running" THEN [task[t] EXCEPT !.state = "lost"]
                                               ELSE task[t]]
    /\ UNCHANGED <<clock, rowVars, forker, errorQueue, history>>
-----------------------------------------------------------------------------
(* What else touches the rows *)

\* A foreign key that is not enforced
Unchecked(r) == TRUE

\* The foreign key latest_query_data_id
References(r) == IF r = None THEN TRUE ELSE result[r] # None

\* The key of a result, as a set
KeyOf(r) == IF r = None THEN {} ELSE {task[r].key}

\* A user creates a query, with the id of a latest result the client may send along
Create(q, k, r) ==
    /\ ~Exists(q)
    /\ References(r)
    /\ key' = [key EXCEPT ![q] = k]
    /\ latest' = [latest EXCEPT ![q] = r]
    /\ owned' = [owned EXCEPT ![q] = {k} \cup KeyOf(r)]
    /\ UNCHANGED <<clock, failures, result, task, worker, forker, errorQueue, failed, overlapped>>

\* An edit gives a query another text or data source; the latest result stays ...
Edit(q, k) ==
    /\ Exists(q)
    /\ key' = [key EXCEPT ![q] = k]
    /\ owned' = [owned EXCEPT ![q] = @ \cup {k}]
    /\ UNCHANGED <<clock, latest, failures, result, task, worker, forker, errorQueue, failed, overlapped>>

\* ... or is the one whose id the client sends along
Attach(q, r) ==
    /\ Exists(q)
    /\ References(r)
    /\ latest' = [latest EXCEPT ![q] = r]
    /\ owned' = [owned EXCEPT ![q] = @ \cup KeyOf(r)]
    /\ UNCHANGED <<clock, key, failures, result, task, worker, forker, errorQueue, failed, overlapped>>

\* Query.fork reads the query and its latest result ...
ForkRead(q) ==
    /\ forker = None
    /\ Exists(q)
    /\ forker' = [key |-> key[q], latest |-> latest[q], owned |-> owned[q]]
    /\ UNCHANGED <<clock, rowVars, task, worker, errorQueue, history>>

\* ... and inserts the copy, if the result it points at is still there
ForkCommit(q) ==
    /\ forker # None
    /\ ~Exists(q)
    /\ References(forker.latest)
    /\ key' = [key EXCEPT ![q] = forker.key]
    /\ latest' = [latest EXCEPT ![q] = forker.latest]
    /\ owned' = [owned EXCEPT ![q] = forker.owned]
    /\ forker' = None
    /\ UNCHANGED <<clock, failures, result, task, worker, errorQueue, failed, overlapped>>

\* The insert violates the foreign key, or the request is abandoned
ForkAbort ==
    /\ forker # None
    /\ forker' = None
    /\ UNCHANGED <<clock, rowVars, task, worker, errorQueue, history>>

\* Age alone, without the outer join with the queries
Aged == { r \in TaskIds : result[r] # None /\ result[r] < clock - CleanupAge }

\* QueryResult.unused: no query points at it, and it is old enough
Unused ==
    { r \in TaskIds :
        /\ result[r] # None
        /\ result[r] < clock - CleanupAge
        /\ \A q \in Queries : latest[q] # r }

\* One statement deletes CleanupCount of them, or all when there are fewer
CleanupUnusedResults ==
    /\ \E D \in SUBSET Unused :
        /\ Cardinality(D) <= CleanupCount
        /\ D = Unused \/ Cardinality(D) = CleanupCount
        /\ D # {}
        /\ result' = [r \in TaskIds |-> IF r \in D THEN None ELSE result[r]]
    /\ UNCHANGED <<clock, key, latest, failures, task, worker, forker, errorQueue, history>>
-----------------------------------------------------------------------------
Next ==
    \/ Tick
    \/ \E t \in TaskIds, k \in Keys, maxAge \in MaxAges : RequestExecution(t, k, maxAge)
    \/ \E t \in TaskIds, q \in Queries, k \in Keys : EnqueueScheduled(t, q, k)
    \/ \E w \in Workers, t \in TaskIds : Start(w, t)
    \/ \E t \in TaskIds : LoadError(t)
    \/ \E w \in Workers :
        \/ Store(w) \/ Commit(w) \/ Return(w)
        \/ FailUnscheduled(w) \/ FailScheduled(w) \/ Report(w)
    \/ Crash
    \/ \E q \in Queries, k \in Keys : Edit(q, k)
    \/ \E q \in Queries, r \in TaskIds \cup {None} :
        \/ Attach(q, r)
        \/ \E k \in Keys : Create(q, k, r)
    \/ \E q \in Queries : ForkRead(q) \/ ForkCommit(q)
    \/ ForkAbort
    \/ CleanupUnusedResults

Spec == Init /\ [][Next]_vars
-----------------------------------------------------------------------------
TaskType ==
    [state : TaskStates, key : Keys \cup {None}, query : Queries \cup {None}]
WorkerType ==
    [phase : Phases, task : TaskIds \cup {None}, failures : Nat, retrieved : Nat,
     rows : SUBSET Queries]
ForkType ==
    [key : Keys, latest : TaskIds \cup {None}, owned : SUBSET Keys]

\* Every busy thread executes a running task, each its own
OneThreadPerTask ==
    /\ \A w \in Workers : ~Thread(w, "idle") =>
          worker[w].task \in TaskIds /\ TaskOf(w).state = "running"
    /\ \A v, w \in Workers :
          ~Thread(v, "idle") /\ ~Thread(w, "idle") /\ worker[v].task = worker[w].task => v = w

(***************************************************************************)
(* The type of the variables.  Part of it is what Huey is relied on for:   *)
(* no two threads ever execute the same task.                              *)
(***************************************************************************)
TypeOK ==
    /\ clock \in Nat
    /\ key \in [Queries -> Keys \cup {None}]
    /\ latest \in [Queries -> TaskIds \cup {None}]
    /\ failures \in [Queries -> Nat]
    /\ result \in [TaskIds -> Nat \cup {None}]
    /\ task \in [TaskIds -> TaskType]
    /\ worker \in [Workers -> WorkerType]
    /\ forker \in ForkType \cup {None}
    /\ errorQueue \in Seq([query : Queries, failures : Nat])
    /\ owned \in [Queries -> SUBSET Keys]
    /\ failed \in [Queries -> Nat]
    /\ overlapped \in SUBSET Queries
    /\ OneThreadPerTask

(***************************************************************************)
(* The latest result of a query exists, although the cleanup task deletes  *)
(* results while executions finish and queries are forked.                 *)
(***************************************************************************)
LatestExists == \A q \in Queries : latest[q] # None => result[latest[q]] # None

(***************************************************************************)
(* A query only ever shows the output of a text and data source that it,   *)
(* or the query it was forked from, has had, or of a result a client has   *)
(* attached to it: executions that end after an edit, and forks included.  *)
(***************************************************************************)
LatestOfOwnKey == \A q \in Queries : latest[q] # None => task[latest[q]].key \in owned[q]

(***************************************************************************)
(* schedule_failures never exceeds the number of failed scheduled          *)
(* executions: the back-off and the limit on reports never come too early. *)
(***************************************************************************)
NeverOvercounted == \A q \in Queries : failures[q] <= failed[q]

(***************************************************************************)
(* The count in track_query_error is exact for queries whose scheduled     *)
(* executions never overlap; the read-modify-write of an object loaded     *)
(* before the execution loses counts only where they do.                   *)
(***************************************************************************)
SerialCountsExact == \A q \in Queries \ overlapped : failures[q] = failed[q]

(***************************************************************************)
(* An owner is told of no more failures than were counted, and of no count *)
(* that was not reached, whenever the worker dies.                         *)
(***************************************************************************)
NotifiedFailuresHappened ==
    \A q \in Queries :
        /\ Cardinality({ i \in DOMAIN errorQueue : errorQueue[i].query = q }) <= failed[q]
        /\ \A i \in DOMAIN errorQueue :
              errorQueue[i].query = q => errorQueue[i].failures <= failed[q]

(***************************************************************************)
(* tasks/failure_reports.py:71 tells the owner that "This query has failed *)
(* a total of {schedule_failures} times": the counter is the number of     *)
(* failed scheduled executions.                                            *)
(***************************************************************************)
EveryFailureCounted == \A q \in Queries : failures[q] = failed[q]

(***************************************************************************)
(* handlers/queries.py:217 calls latest_query_data_id the "ID for latest   *)
(* output data from this query": an execution never replaces the latest    *)
(* result of a query by one retrieved earlier.                             *)
(***************************************************************************)
LatestNeverGoesBack ==
    [][(\E w \in Workers : Commit(w)) =>
         \A q \in Queries :
            latest[q] # None => result'[latest'[q]] >= result[latest[q]]]_vars
=============================================================================
