------------------------------- MODULE JobStatus -------------------------------
(***************************************************************************)
(* What a client learns of the execution it asked for.  run_query_task     *)
(* stores a result and returns its id, which Huey keeps as the answer of   *)
(* the task for HUEY_EXPIRE_TIME; a client polls JobResource for it and    *)
(* then fetches the result, which the cleanup task deletes when it is old  *)
(* and no query shows it, and which goes with its data source at any age.  *)
(***************************************************************************)
EXTENDS Integers

CONSTANTS
    Jobs,        \* executions that are asked for, each named by its task
    JobSources,  \* data sources to execute on
    AnswerLife,  \* HUEY_EXPIRE_TIME
    CleanupAge,  \* QUERY_RESULTS_CLEANUP_MAX_AGE
    MaxDelay,    \* bound: from retrieved_at to the answer
    MaxTime      \* bound: the last moment

ASSUME LifeAssumption == AnswerLife \in Nat /\ CleanupAge \in Nat /\ MaxDelay \in Nat /\ MaxTime \in Nat
\* The defaults are one day and seven
ASSUME CleanupAssumption == MaxDelay + AnswerLife <= CleanupAge

VARIABLES
    source,   \* the data source each execution is asked for on; never changed
    dropped,  \* data sources that have been deleted
    job,      \* where each execution is, with retrieved_at once there is a result
    answer,   \* what Huey has stored for each task, and when
    stored,   \* jobs whose result is in query_results
    heard,    \* what the client of each job has been told last
    time

jobVars == <<source, dropped, job, answer, stored, heard, time>>

NoAnswer == [value |-> "none"]
At(phase) == [phase |-> phase]

JobInit ==
    /\ source \in [Jobs -> JobSources]
    /\ dropped = {}
    /\ job = [j \in Jobs |-> At("new")]
    /\ answer = [j \in Jobs |-> NoAnswer]
    /\ stored = {}
    /\ heard = [j \in Jobs |-> "nothing"]
    /\ time = 0

\* The handler loads the data source, enqueues the task and tells its id, with status STARTED
Ask(j) ==
    /\ job[j] = At("new")
    /\ source[j] \notin dropped
    /\ job' = [job EXCEPT ![j] = At("queued")]
    /\ heard' = [heard EXCEPT ![j] = "STARTED"]
    /\ UNCHANGED <<source, dropped, answer, stored, time>>

\* or finds no data source: nothing is enqueued
Refuse(j) ==
    /\ job[j] = At("new")
    /\ source[j] \in dropped
    /\ heard' = [heard EXCEPT ![j] = "refused"]
    /\ UNCHANGED <<source, dropped, job, answer, stored, time>>

StartJob(j) ==
    /\ job[j] = At("queued")
    /\ job' = [job EXCEPT ![j] = At("running")]
    /\ UNCHANGED <<source, dropped, answer, stored, heard, time>>

\* The database answers: retrieved_at is set, and the row committed if its data source is there
StoreResult(j) ==
    /\ job[j] = At("running")
    /\ source[j] \notin dropped
    /\ job' = [job EXCEPT ![j] = [phase |-> "stored", retrieved |-> time]]
    /\ stored' = stored \cup {j}
    /\ UNCHANGED <<source, dropped, answer, heard, time>>

\* Huey keeps no answer of a task that returns None
AnswerNothing(j) ==
    /\ job[j].phase = "stored"
    /\ job' = [job EXCEPT ![j].phase = "done"]
    /\ UNCHANGED <<source, dropped, answer, stored, heard, time>>

\* The task returns query_result.id, which it has in memory, whatever has become of the row
Answer(j) ==
    /\ job[j].phase = "stored"
    /\ job' = [job EXCEPT ![j].phase = "done"]
    /\ answer' = [answer EXCEPT ![j] = [value |-> "id", at |-> time]]
    /\ UNCHANGED <<source, dropped, stored, heard, time>>

(***************************************************************************)
(* The task raises, before it has loaded what it names, by                 *)
(* QueryExecutionError, or at the commit of a result whose data source is  *)
(* gone: Huey keeps the error.                                             *)
(***************************************************************************)
RaiseError(j) ==
    /\ job[j] = At("running")
    /\ job' = [job EXCEPT ![j] = At("failed")]
    /\ answer' = [answer EXCEPT ![j] = [value |-> "error", at |-> time]]
    /\ UNCHANGED <<source, dropped, stored, heard, time>>

\* The worker dies, and nobody takes the task up again
LoseJob(j) ==
    /\ job[j].phase \in {"running", "stored"}
    /\ job' = [job EXCEPT ![j] = At("lost")]
    /\ UNCHANGED <<source, dropped, answer, stored, heard, time>>

\* Redis has dropped an answer whose time is over
Readable(j) == answer[j] # NoAnswer /\ time < answer[j].at + AnswerLife

\* JobResource.get: FINISHED, 500 for a task that raised, and STARTED for want of an answer
Status(j) ==
    IF ~Readable(j) THEN "STARTED"
    ELSE IF answer[j].value = "id" THEN "FINISHED" ELSE "500"

Poll(j) ==
    /\ job[j] # At("new")
    /\ heard' = [heard EXCEPT ![j] = Status(j)]
    /\ UNCHANGED <<source, dropped, job, answer, stored, time>>

\* A client that has been told FINISHED fetches the result it names: QueryResultResource.get
FetchResult(j) ==
    /\ heard[j] = "FINISHED"
    /\ heard' = [heard EXCEPT ![j] = IF j \in stored THEN "result" ELSE "404"]
    /\ UNCHANGED <<source, dropped, job, answer, stored, time>>

\* Everything is old
AnyAge(j) == TRUE

OldEnough(j) == job[j].phase # "lost" => time - job[j].retrieved > CleanupAge

\* cleanup_unused_results_task takes the results no query shows, or some of them
CleanupResults(j) ==
    /\ j \in stored
    /\ OldEnough(j)
    /\ stored' = stored \ {j}
    /\ UNCHANGED <<source, dropped, job, answer, heard, time>>

\* The data source is deleted, and in the same transaction every result of it; while a query that
\* was moved elsewhere shows one of them, the foreign key refuses and nothing changes
DropSource(d) ==
    /\ d \notin dropped
    /\ dropped' = dropped \cup {d}
    /\ stored' = { j \in stored : source[j] # d }
    /\ UNCHANGED <<source, job, answer, heard, time>>

JobTick ==
    /\ time < MaxTime
    /\ \A j \in Jobs : job[j].phase = "stored" => time < job[j].retrieved + MaxDelay
    /\ time' = time + 1
    /\ UNCHANGED <<source, dropped, job, answer, stored, heard>>

WorkerStep(j) == StartJob(j) \/ StoreResult(j) \/ RaiseError(j) \/ Answer(j)

JobNext ==
    \/ \E j \in Jobs : Ask(j) \/ Refuse(j) \/ WorkerStep(j) \/ LoseJob(j) \/ Poll(j)
                     \/ FetchResult(j) \/ CleanupResults(j)
    \/ \E d \in JobSources : DropSource(d)
    \/ JobTick

\* The default worker's threads go on, and so does a client that has been told STARTED
JobFairness == \A j \in Jobs : WF_jobVars(WorkerStep(j)) /\ WF_jobVars(Poll(j))

JobSpec == JobInit /\ [][JobNext]_jobVars /\ JobFairness
-----------------------------------------------------------------------------
Moments == 0..MaxTime

JobTypeOK ==
    /\ source \in [Jobs -> JobSources]
    /\ dropped \subseteq JobSources
    /\ job \in [Jobs -> [phase : {"new", "queued", "running", "failed", "lost"}]
                        \cup [phase : {"stored", "done"}, retrieved : Moments]]
    /\ answer \in [Jobs -> {NoAnswer} \cup [value : {"id", "error"}, at : Moments]]
    /\ stored \subseteq Jobs
    /\ heard \in [Jobs -> {"nothing", "refused", "STARTED", "FINISHED", "500", "result", "404"}]
    /\ time \in Moments

(***************************************************************************)
(* A job that is FINISHED names a result its client can fetch, but for a   *)
(* data source deleted meanwhile, which takes its results with it: the     *)
(* answer is committed after the result and forgotten before the cleanup   *)
(* may delete the result (run_query.py:105, defaults.py:177,               *)
(* models/results.py:72); a client that fetched it in vain has waited      *)
(* until the answer was gone, or the source is.  And no result comes back  *)
(* to, or is left of, a source that is deleted (models/datasources.py:117).*)
(***************************************************************************)
FinishedNamesResult ==
    \A j \in Jobs :
        /\ source[j] \notin dropped =>
              /\ Status(j) = "FINISHED" => j \in stored
              /\ heard[j] = "404" => Status(j) # "FINISHED"
        /\ source[j] \in dropped => j \notin stored

(***************************************************************************)
(* A client that goes on polling is told the end of its job, unless the    *)
(* worker died with it or the answer expired between two polls: those two  *)
(* stay STARTED for good (query_results.py:474).                           *)
(***************************************************************************)
PollingEnds ==
    \A j \in Jobs : job[j] = At("queued") ~>
        \/ heard[j] \in {"FINISHED", "500", "result", "404"}
        \/ job[j] = At("lost")
        \/ answer[j] # NoAnswer /\ ~Readable(j)
=============================================================================
