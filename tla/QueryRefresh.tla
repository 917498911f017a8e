---------------------------- MODULE QueryRefresh ----------------------------
(***************************************************************************)
(* Scheduling queries: refresh_queries_task loads all rows, examines them  *)
(* one after the other, disables schedules it cannot make sense of, and    *)
(* enqueues one query for each key that is outdated; empty_schedules_task  *)
(* clears schedules that have ended; users save schedules meanwhile.  A    *)
(* pass acts on the rows it has loaded, and passes overlap when one takes  *)
(* longer than a minute.                                                   *)
(*                                                                         *)
(* Dates are left out (ScheduledQuery has them): a result is fresh until   *)
(* the schedule asks for another one, old from then on.  Executions are    *)
(* one step (QueryExecution has them in detail).                           *)
(***************************************************************************)
EXTENDS Integers, FiniteSets

CONSTANTS
    Count,         \* the queries are 1 .. Count, their ids
    Keys,          \* pairs of query_hash and data_source_id
    Texts,         \* the keys the queries may have, and which of them are parameterized
    Threads,       \* threads of the periodic worker that may run a pass
    Saved,         \* the schedules users save
    MaxQueued,     \* bound: tasks of one query in the queue that are told apart
    MaxTrouble     \* bound: failed executions, lost tasks, dead workers and paused data sources

Queries == 1 .. Count

(***************************************************************************)
(* A schedule: the JSON null; one that raises an exception when examined,  *)
(* like {}; a well-formed one; one whose "until" has passed; one with      *)
(* "disabled".                                                             *)
(***************************************************************************)
Schedules == {"null", "faulty", "set", "over", "disabled"}
Results == {"none", "fresh", "old"}

ASSUME CountAssumption == Count \in Nat
ASSUME TextsAssumption ==
    Texts \subseteq [key : [Queries -> Keys], parameterized : SUBSET Queries]
ASSUME SavedAssumption == Saved \subseteq Schedules
ASSUME BoundsAssumption == MaxQueued \in Nat \ {0} /\ MaxTrouble \in Nat

VARIABLES
    key,            \* key of each query
    parameterized,  \* queries whose default parameters give them another text than the row has
    schedule,       \* queries.schedule
    result,         \* age of the latest result
    pass,           \* what each thread is doing, with the rows it has loaded
    emptying,       \* queries empty_schedules_task has found to have ended
    queued,         \* tasks enqueued for each query
    trouble,        \* what has gone wrong so far
    safe            \* history: schedules saved when no running task was going to replace them

vars == <<key, parameterized, schedule, result, pass, emptying, queued, trouble, safe>>
fixed == <<key, parameterized>>

NoPass == [phase |-> "idle", rows |-> <<>>, outdated |-> {}]

Init ==
    /\ \E text \in Texts : key = text.key /\ parameterized = text.parameterized
    /\ schedule = [q \in Queries |-> "faulty"]
    /\ result = [q \in Queries |-> "none"]
    /\ pass = [p \in Threads |-> NoPass]
    /\ emptying = {}
    /\ queued = [q \in Queries |-> 0]
    /\ trouble = 0
    /\ safe = {}
-----------------------------------------------------------------------------
(* outdated_queries and refresh_queries_task *)

\* None has no .get, nor can the handler of that exception assign to it
Aborts(q) == schedule[q] = "null"

\* A query without a result is compared with no date at all, and raises
RaisesWithoutResult(q) ==
    \/ schedule[q] = "faulty"
    \/ schedule[q] = "set" /\ result[q] = "none"

\* Examining the row raises an exception, whose handler disables the schedule
Raises(q) == schedule[q] = "faulty"

\* A query without a result is as good as executed just now
Outdated(q) == schedule[q] = "set" /\ result[q] = "old"

\* What a pass will find when it examines the row as it is now
Verdict(q) ==
    IF Aborts(q) THEN "abort" ELSE IF Raises(q) THEN "disable"
    ELSE IF Outdated(q) THEN "collect" ELSE "skip"

Phase(p, phase) == pass[p].phase = phase

\* All rows are loaded by one select, and "now" is taken
Load(p) ==
    /\ Phase(p, "idle")
    /\ pass' = [pass EXCEPT ![p] = [phase |-> "examining", outdated |-> {},
                                    rows |-> [q \in Queries |-> Verdict(q)]]]
    /\ UNCHANGED <<fixed, schedule, result, emptying, queued, trouble, safe>>

\* The rows are examined in the order of their ids
Examining(p, q, verdict) ==
    /\ Phase(p, "examining")
    /\ q \in DOMAIN pass[p].rows
    /\ \A r \in DOMAIN pass[p].rows : q <= r
    /\ pass[p].rows[q] = verdict

\* The pass goes on behind the row with this set of outdated queries
Proceed(p, q, outdated) ==
    pass' = [pass EXCEPT ![p].rows = [r \in q + 1 .. Count |-> @[r]], ![p].outdated = outdated]

\* The change is never committed
DisableUncommitted(p, q) ==
    /\ Examining(p, q, "disable")
    /\ Proceed(p, q, pass[p].outdated)
    /\ UNCHANGED <<fixed, schedule, result, emptying, queued, trouble, safe>>

\* The whole schedule is written, as it was loaded and with "disabled" added
Disable(p, q) ==
    /\ Examining(p, q, "disable")
    /\ schedule' = [schedule EXCEPT ![q] = "disabled"]
    /\ Proceed(p, q, pass[p].outdated)
    /\ UNCHANGED <<fixed, result, emptying, queued, trouble, safe>>

\* An exception that its handler cannot handle ends the task
Abort(p, q) ==
    /\ Examining(p, q, "abort")
    /\ pass' = [pass EXCEPT ![p] = NoPass]
    /\ UNCHANGED <<fixed, schedule, result, emptying, queued, trouble, safe>>

\* Disabled, ended, fresh or never executed
Skip(p, q) ==
    /\ Examining(p, q, "skip")
    /\ Proceed(p, q, pass[p].outdated)
    /\ UNCHANGED <<fixed, schedule, result, emptying, queued, trouble, safe>>

\* One query in all, whatever its text
ReplacesAny(q, r) == TRUE

\* A list instead of a dictionary
ReplacesNone(q, r) == FALSE

\* A dictionary is indexed by the key: a later query takes the place of an earlier one
Replaces(q, r) == key[q] = key[r]

\* The query is outdated
Collect(p, q) ==
    /\ Examining(p, q, "collect")
    /\ Proceed(p, q, {q} \cup { r \in pass[p].outdated : ~Replaces(q, r) })
    /\ UNCHANGED <<fixed, schedule, result, emptying, queued, trouble, safe>>

\* Every row has been examined
Examined(p) ==
    /\ Phase(p, "examining")
    /\ pass[p].rows = <<>>
    /\ pass' = [pass EXCEPT ![p].phase = "enqueueing"]
    /\ UNCHANGED <<fixed, schedule, result, emptying, queued, trouble, safe>>

Forget(p, q) == pass' = [pass EXCEPT ![p].outdated = @ \ {q}]

\* The query is enqueued, whether or not another task of it is
Enqueue(p, q) ==
    /\ Phase(p, "enqueueing")
    /\ q \in pass[p].outdated
    /\ queued' = [queued EXCEPT ![q] = IF @ < MaxQueued THEN @ + 1 ELSE @]
    /\ Forget(p, q)
    /\ UNCHANGED <<fixed, schedule, result, emptying, trouble, safe>>

\* The data source is paused, or the default parameters are not valid any more
Refuse(p, q) ==
    /\ Phase(p, "enqueueing")
    /\ q \in pass[p].outdated
    /\ trouble < MaxTrouble
    /\ trouble' = trouble + 1
    /\ Forget(p, q)
    /\ UNCHANGED <<fixed, schedule, result, emptying, queued, safe>>

Finish(p) ==
    /\ Phase(p, "enqueueing")
    /\ pass[p].outdated = {}
    /\ pass' = [pass EXCEPT ![p] = NoPass]
    /\ UNCHANGED <<fixed, schedule, result, emptying, queued, trouble, safe>>

Step(p) ==
    \/ \E q \in Queries :
        \/ Disable(p, q) \/ Abort(p, q) \/ Skip(p, q) \/ Collect(p, q)
        \/ Enqueue(p, q) \/ Refuse(p, q)
    \/ Examined(p)
    \/ Finish(p)

\* The periodic worker dies
Die ==
    /\ trouble < MaxTrouble
    /\ \E p \in Threads : ~Phase(p, "idle")
    /\ trouble' = trouble + 1
    /\ pass' = [p \in Threads |-> NoPass]
    /\ emptying' = {}
    /\ UNCHANGED <<fixed, schedule, result, queued, safe>>
-----------------------------------------------------------------------------
(* empty_schedules_task *)

\* A disabled schedule may have ended as well; a schedule of JSON null ends this task, too
FindEnded ==
    /\ emptying = {}
    /\ \A q \in Queries : schedule[q] # "null"
    /\ \E disabled \in SUBSET { q \in Queries : schedule[q] = "disabled" } :
          emptying' = { q \in Queries : schedule[q] = "over" } \cup disabled
    /\ UNCHANGED <<fixed, schedule, result, pass, queued, trouble, safe>>

\* The schedules that had ended when they were loaded are replaced by {}
EmptySchedules ==
    /\ emptying # {}
    /\ schedule' = [q \in Queries |-> IF q \in emptying THEN "faulty" ELSE schedule[q]]
    /\ emptying' = {}
    /\ UNCHANGED <<fixed, result, pass, queued, trouble, safe>>
-----------------------------------------------------------------------------
(* Users, executions and time *)

\* A running task has loaded another schedule of the query and may yet replace it
Endangered(q) ==
    \/ q \in emptying
    \/ \E p \in Threads : q \in DOMAIN pass[p].rows /\ pass[p].rows[q] = "disable"

\* A user saves a schedule; archiving a query saves {}
Save(q, s) ==
    /\ schedule' = [schedule EXCEPT ![q] = s]
    /\ safe' = IF s = "set" /\ ~Endangered(q) THEN safe \cup {q} ELSE safe \ {q}
    /\ UNCHANGED <<fixed, result, pass, emptying, queued, trouble>>

\* The date "until" passes
End(q) ==
    /\ schedule[q] = "set"
    /\ schedule' = [schedule EXCEPT ![q] = "over"]
    /\ safe' = safe \ {q}
    /\ UNCHANGED <<fixed, result, pass, emptying, queued, trouble>>

\* The time of the next iteration, back-off included, passes
Age(q) ==
    /\ result[q] = "fresh"
    /\ result' = [result EXCEPT ![q] = "old"]
    /\ UNCHANGED <<fixed, schedule, pass, emptying, queued, trouble, safe>>

\* The result goes to the queries that have the key of the text that was executed
Succeed(q) ==
    /\ queued[q] > 0
    /\ queued' = [queued EXCEPT ![q] = @ - 1]
    /\ result' = [r \in Queries |->
                    IF q \notin parameterized /\ key[r] = key[q] THEN "fresh" ELSE result[r]]
    /\ UNCHANGED <<fixed, schedule, pass, emptying, trouble, safe>>

\* The execution fails, or is lost with the default worker
Fail(q) ==
    /\ queued[q] > 0
    /\ trouble < MaxTrouble
    /\ trouble' = trouble + 1
    /\ queued' = [queued EXCEPT ![q] = @ - 1]
    /\ UNCHANGED <<fixed, schedule, result, pass, emptying, safe>>

\* A user executes the text of the row
Execute(q) ==
    /\ result' = [r \in Queries |-> IF key[r] = key[q] THEN "fresh" ELSE result[r]]
    /\ UNCHANGED <<fixed, schedule, pass, emptying, queued, trouble, safe>>
-----------------------------------------------------------------------------
Next ==
    \/ \E p \in Threads : Load(p) \/ Step(p)
    \/ Die
    \/ FindEnded
    \/ EmptySchedules
    \/ \E q \in Queries :
        \/ \E s \in Saved : Save(q, s)
        \/ End(q) \/ Age(q) \/ Succeed(q) \/ Fail(q) \/ Execute(q)

Spec == Init /\ [][Next]_vars

(***************************************************************************)
(* Huey enqueues the periodic task every minute, a pass that has begun     *)
(* goes on, and the queue is drained now and then.                         *)
(***************************************************************************)
Fairness ==
    /\ WF_vars(\E p \in Threads : Load(p))
    /\ \A p \in Threads : WF_vars(Step(p))
    /\ \A q \in Queries : WF_vars(Succeed(q) \/ Fail(q))

FairSpec == Spec /\ Fairness
-----------------------------------------------------------------------------
Verdicts == {"abort", "disable", "collect", "skip"}

\* The rows from some id on
RowsType == UNION { [q .. Count -> Verdicts] : q \in 1 .. Count + 1 }

PassType ==
    [phase : {"idle", "examining", "enqueueing"}, outdated : SUBSET Queries, rows : RowsType]

\* Two outdated queries of a pass never have the same key (test_enqueues_query_only_once).
OnePerKey ==
    \A p \in Threads : \A q, r \in pass[p].outdated : key[q] = key[r] => q = r

\* The type of the variables, and no pass enqueues two queries of one key.
TypeOK ==
    /\ key \in [Queries -> Keys]
    /\ parameterized \subseteq Queries
    /\ schedule \in [Queries -> Schedules]
    /\ result \in [Queries -> Results]
    /\ pass \in [Threads -> PassType]
    /\ emptying \subseteq Queries
    /\ queued \in [Queries -> 0 .. MaxQueued]
    /\ trouble \in 0 .. MaxTrouble
    /\ safe \subseteq Queries
    /\ OnePerKey

(***************************************************************************)
(* A well-formed schedule stays as the user saved it, until its end,       *)
(* whatever passes are run, overlapping or not - provided that no running  *)
(* task had loaded its predecessor when it was saved.  Without the proviso *)
(* the schedule is lost to the write-back in outdated_queries.             *)
(***************************************************************************)
SavedScheduleStays == \A q \in safe : schedule[q] = "set"

(***************************************************************************)
(* A later query of the same key that is executed with other parameters    *)
(* takes the place of this one in every pass, and its result is no result  *)
(* of either.                                                              *)
(***************************************************************************)
Shadowed(q) == \E r \in parameterized : r > q /\ key[r] = key[q]

Scheduled(q) ==
    /\ schedule[q] = "set" /\ result[q] # "none"
    /\ q \notin parameterized /\ ~Shadowed(q)

\* From some time on no schedule is a JSON null, which would end every pass
NullFree == <>[](\A q \in Queries : schedule[q] # "null")

(***************************************************************************)
(* handlers/queries.py:211 promises "repeated execution of this query":    *)
(* a query that keeps its schedule gets a fresh result again and again,    *)
(* although executions fail, tasks are lost with the process, passes are   *)
(* aborted half-way and the queue forgets what it has handed out.  Nobody  *)
(* retries anything: the next pass finds the query outdated still.         *)
(***************************************************************************)
RepeatedExecution ==
    NullFree => \A q \in Queries : <>[]Scheduled(q) => []<>(result[q] = "fresh")

(***************************************************************************)
(* A faulty schedule does not stay enabled: some pass disables it, passes  *)
(* that a null or the death of the worker has ended half-way included.     *)
(***************************************************************************)
FaultyIsDisabled ==
    NullFree => \A q \in Queries : schedule[q] = "faulty" ~> schedule[q] # "faulty"

(***************************************************************************)
(* tests/test_models.py:297, test_skips_and_disables_faulty_queries, wants *)
(* the queries with a faulty schedule skipped and the other ones reported: *)
(* no row keeps a pass from examining the rows behind it.                  *)
(***************************************************************************)
FaultySkipped ==
    [][\A p \in Threads :
         Phase(p, "examining") /\ Phase(p, "idle")' => trouble' # trouble]_vars
=============================================================================
