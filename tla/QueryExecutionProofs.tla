------------------------ MODULE QueryExecutionProofs ------------------------
(***************************************************************************)
(* Proofs about QueryExecution, for any number of queries, keys, threads   *)
(* and tasks.  The properties are not inductive: what a thread or a fork   *)
(* request has read and will write has to be related to the rows as they   *)
(* are when it writes.                                                     *)
(***************************************************************************)
EXTENDS QueryExecution, FiniteSetTheorems, TLAPS

\* A task that has left the state "free" says what to execute
TasksHaveKeys == \A t \in TaskIds : task[t].state # "free" => task[t].key \in Keys

\* Only an execution that failed on behalf of a query is reported
ReportsHaveQueries == \A w \in Workers : Thread(w, "reporting") => TaskOf(w).query \in Queries

\* A stored result is that of a task that was enqueued
ResultsHaveTasks == \A t \in TaskIds : result[t] # None => task[t].state # "free"

\* A row owns the key it has, and a row that does not exist owns none
RowsOwnTheirKeys ==
    \A q \in Queries : IF key[q] = None THEN owned[q] = {} ELSE key[q] \in owned[q]

\* The queries a thread is about to point at its result own the key of the result
SelectedRowsOwnKey ==
    \A w \in Workers : Thread(w, "storing") =>
        \A q \in worker[w].rows : TaskOf(w).key \in owned[q]

\* A fork request copies the latest result together with a right to it
ForkOwnsResult ==
    forker # None =>
        /\ forker.key \in forker.owned
        /\ forker.latest # None =>
              /\ task[forker.latest].state # "free"
              /\ task[forker.latest].key \in forker.owned

\* What a thread has read of the failure count is no more than the failures there were
SeenFailuresHappened ==
    \A w \in Workers : Thread(w, "running") /\ TaskOf(w).query # None =>
        worker[w].failures <= failed[TaskOf(w).query]

\* A query that has not been executed by two threads at once is executed by one at most
SerialExecutions ==
    \A v, w \in Workers :
        ~Thread(v, "idle") /\ ~Thread(w, "idle") /\ TaskOf(v).query = TaskOf(w).query
            => v = w \/ TaskOf(v).query \in overlapped \cup {None}

\* ... and what that one has read of the failure count still stands
SeenFailuresCurrent ==
    \A w \in Workers : Thread(w, "running") =>
        \A q \in Queries \ overlapped : TaskOf(w).query = q => worker[w].failures = failures[q]

Strengthening ==
    /\ TasksHaveKeys
    /\ ReportsHaveQueries
    /\ ResultsHaveTasks
    /\ RowsOwnTheirKeys
    /\ SelectedRowsOwnKey
    /\ ForkOwnsResult
    /\ SeenFailuresHappened
    /\ SerialExecutions
    /\ SeenFailuresCurrent

IInv ==
    /\ TypeOK
    /\ Strengthening
    /\ LatestExists
    /\ LatestOfOwnKey
    /\ NeverOvercounted
    /\ SerialCountsExact

USE NoneAssumption, NumbersAssumption

-----------------------------------------------------------------------------
(* The types of what the steps assign *)

\* Setting the state of a task leaves it a task.
LEMMA TaskUpdate ==
    ASSUME task \in [TaskIds -> TaskType], NEW t \in TaskIds, NEW s \in TaskStates
    PROVE  [task EXCEPT ![t].state = s] \in [TaskIds -> TaskType]
BY DEF TaskType

\* A lost task is a task.
LEMMA LostType == \A x \in TaskType : [x EXCEPT !.state = "lost"] \in TaskType
BY DEF TaskType, TaskStates

\* An enqueued task is a task.
LEMMA TaskEnqueued ==
    ASSUME task \in [TaskIds -> TaskType], NEW t \in TaskIds, NEW k \in Keys,
           NEW q \in Queries \cup {None}
    PROVE  [task EXCEPT ![t] = [state |-> "queued", key |-> k, query |-> q]]
               \in [TaskIds -> TaskType]
BY DEF TaskType, TaskStates

\* An idle thread is a thread.
LEMMA IdleType == Idle \in WorkerType
BY DEF Idle, WorkerType, Phases

\* A thread that goes on to another phase is a thread.
LEMMA PhaseType ==
    ASSUME NEW x \in WorkerType, NEW p \in Phases
    PROVE  [x EXCEPT !.phase = p] \in WorkerType
BY DEF WorkerType

\* Likewise with the count it has reached.
LEMMA ReportingType ==
    ASSUME NEW x \in WorkerType, NEW n \in Nat
    PROVE  [x EXCEPT !.phase = "reporting", !.failures = n] \in WorkerType
BY DEF WorkerType, Phases

\* Likewise with a result and the rows it has selected.
LEMMA StoringType ==
    ASSUME NEW x \in WorkerType, NEW c \in Nat, NEW rows \in SUBSET Queries
    PROVE  [x EXCEPT !.phase = "storing", !.retrieved = c, !.rows = rows] \in WorkerType
BY DEF WorkerType, Phases

\* The keys that come with a result are keys.
LEMMA KeyOfType ==
    ASSUME task \in [TaskIds -> TaskType], NEW r \in TaskIds \cup {None},
           r # None => task[r].key \in Keys
    PROVE  KeyOf(r) \subseteq Keys
BY DEF KeyOf

\* A failure in front of a queue of failures gives a queue of failures.
LEMMA QueueType ==
    ASSUME errorQueue \in Seq([query : Queries, failures : Nat]),
           NEW e \in [query : Queries, failures : Nat]
    PROVE  <<e>> \o errorQueue \in Seq([query : Queries, failures : Nat])
OBVIOUS

-----------------------------------------------------------------------------
(* The inductive invariant *)

\* It holds initially.
LEMMA InitIInv == Init => IInv
<1>. SUFFICES ASSUME Init PROVE IInv
  OBVIOUS
<1>. USE DEF Init, NoTask, Idle, Thread
<1>1. TypeOK
  BY DEF TypeOK, TaskType, TaskStates, WorkerType, Phases, OneThreadPerTask
<1>2. Strengthening
  BY DEF Strengthening, TasksHaveKeys, ReportsHaveQueries, ResultsHaveTasks, RowsOwnTheirKeys,
         SelectedRowsOwnKey, ForkOwnsResult, SeenFailuresHappened,
         SerialExecutions, SeenFailuresCurrent
<1>3. LatestExists /\ LatestOfOwnKey /\ NeverOvercounted /\ SerialCountsExact
  BY DEF LatestExists, LatestOfOwnKey, NeverOvercounted, SerialCountsExact
<1>. QED
  BY <1>1, <1>2, <1>3 DEF IInv

USE DEF Thread, TaskOf, rowVars, history

\* Executions stay serial when no thread takes up a task.
LEMMA StillSerial ==
    ASSUME SerialExecutions, overlapped' = overlapped,
           \A v \in Workers : ~Thread(v, "idle")' =>
               ~Thread(v, "idle") /\ TaskOf(v)'.query = TaskOf(v).query
    PROVE  SerialExecutions'
BY DEF SerialExecutions

\* The clock.
LEMMA TickIInv ==
    ASSUME IInv, Tick
    PROVE  IInv'
<1>. USE DEF Tick
<1>. /\ TypeOK /\ Strengthening /\ LatestExists /\ LatestOfOwnKey
     /\ NeverOvercounted /\ SerialCountsExact
  BY DEF IInv
<1>1. TypeOK'
  BY DEF TypeOK, OneThreadPerTask
<1>2. (/\ TasksHaveKeys /\ ReportsHaveQueries /\ ResultsHaveTasks
      /\ SeenFailuresHappened /\ LatestExists /\ NeverOvercounted)'
  BY DEF TypeOK, OneThreadPerTask, TaskType, WorkerType, Phases, TaskStates, Strengthening,
         TasksHaveKeys, ReportsHaveQueries, ResultsHaveTasks,
         SeenFailuresHappened, LatestExists, NeverOvercounted
<1>3. (RowsOwnTheirKeys /\ SelectedRowsOwnKey /\ ForkOwnsResult /\ LatestOfOwnKey)'
  BY DEF TypeOK, OneThreadPerTask, TaskType, WorkerType, ForkType, TaskStates, Strengthening,
         TasksHaveKeys, ResultsHaveTasks, RowsOwnTheirKeys, SelectedRowsOwnKey, ForkOwnsResult,
         LatestExists, LatestOfOwnKey
<1>4. (SerialExecutions /\ SeenFailuresCurrent /\ SerialCountsExact)'
  BY DEF Strengthening, SerialExecutions, SeenFailuresCurrent, SerialCountsExact
<1>. QED
  BY <1>1, <1>2, <1>3, <1>4 DEF IInv, Strengthening

\* A new task is run by no thread and has stored no result.
LEMMA RequestIInv ==
    ASSUME IInv, NEW t \in TaskIds, NEW k \in Keys, NEW a \in MaxAges, RequestExecution(t, k, a)
    PROVE  IInv'
<1>. USE DEF RequestExecution, Enqueue
<1>. /\ TypeOK /\ Strengthening /\ LatestExists /\ LatestOfOwnKey
     /\ NeverOvercounted /\ SerialCountsExact
  BY DEF IInv
<1>1. TypeOK'
  <2>1. task' \in [TaskIds -> TaskType]
    BY TaskEnqueued DEF TypeOK
  <2>2. OneThreadPerTask'
    BY DEF TypeOK, OneThreadPerTask, TaskType, WorkerType, Idle
  <2>. QED
    BY <2>1, <2>2 DEF TypeOK
<1>2. (/\ TasksHaveKeys /\ ReportsHaveQueries /\ ResultsHaveTasks
      /\ SeenFailuresHappened /\ LatestExists /\ NeverOvercounted)'
  BY DEF TypeOK, OneThreadPerTask, TaskType, WorkerType, Phases, TaskStates, Strengthening,
         TasksHaveKeys, ReportsHaveQueries, ResultsHaveTasks,
         SeenFailuresHappened, LatestExists, NeverOvercounted
<1>3. (RowsOwnTheirKeys /\ SelectedRowsOwnKey /\ ForkOwnsResult /\ LatestOfOwnKey)'
  BY DEF TypeOK, OneThreadPerTask, TaskType, WorkerType, ForkType, TaskStates, Strengthening,
         TasksHaveKeys, ResultsHaveTasks, RowsOwnTheirKeys, SelectedRowsOwnKey, ForkOwnsResult,
         LatestExists, LatestOfOwnKey
<1>4. (SerialExecutions /\ SeenFailuresCurrent /\ SerialCountsExact)'
  <2>1. \A v \in Workers : ~Thread(v, "idle")' =>
           /\ ~Thread(v, "idle")
           /\ TaskOf(v)'.query = TaskOf(v).query
           /\ Thread(v, "running")' => /\ Thread(v, "running")
                                       /\ worker'[v].failures = worker[v].failures
    BY DEF TypeOK, OneThreadPerTask, TaskType, WorkerType, TaskStates
  <2>2. SerialExecutions'
    BY <2>1, StillSerial DEF Strengthening
  <2>3. (SeenFailuresCurrent /\ SerialCountsExact)'
    BY <2>1 DEF Strengthening, SeenFailuresCurrent, SerialCountsExact
  <2>. QED
    BY <2>2, <2>3
<1>. QED
  BY <1>1, <1>2, <1>3, <1>4 DEF IInv, Strengthening

\* Likewise for a scheduled one.
LEMMA ScheduledIInv ==
    ASSUME IInv, NEW t \in TaskIds, NEW q \in Queries, NEW k \in Keys, EnqueueScheduled(t, q, k)
    PROVE  IInv'
<1>. USE DEF EnqueueScheduled, Enqueue
<1>. /\ TypeOK /\ Strengthening /\ LatestExists /\ LatestOfOwnKey
     /\ NeverOvercounted /\ SerialCountsExact
  BY DEF IInv
<1>1. TypeOK'
  <2>1. task' \in [TaskIds -> TaskType]
    BY TaskEnqueued DEF TypeOK
  <2>2. OneThreadPerTask'
    BY DEF TypeOK, OneThreadPerTask, TaskType, WorkerType, Idle
  <2>. QED
    BY <2>1, <2>2 DEF TypeOK
<1>2. (/\ TasksHaveKeys /\ ReportsHaveQueries /\ ResultsHaveTasks
      /\ SeenFailuresHappened /\ LatestExists /\ NeverOvercounted)'
  BY DEF TypeOK, OneThreadPerTask, TaskType, WorkerType, Phases, TaskStates, Strengthening,
         TasksHaveKeys, ReportsHaveQueries, ResultsHaveTasks,
         SeenFailuresHappened, LatestExists, NeverOvercounted
<1>3. (RowsOwnTheirKeys /\ SelectedRowsOwnKey /\ ForkOwnsResult /\ LatestOfOwnKey)'
  BY DEF TypeOK, OneThreadPerTask, TaskType, WorkerType, ForkType, TaskStates, Strengthening,
         TasksHaveKeys, ResultsHaveTasks, RowsOwnTheirKeys, SelectedRowsOwnKey, ForkOwnsResult,
         LatestExists, LatestOfOwnKey
<1>4. (SerialExecutions /\ SeenFailuresCurrent /\ SerialCountsExact)'
  <2>1. \A v \in Workers : ~Thread(v, "idle")' =>
           /\ ~Thread(v, "idle")
           /\ TaskOf(v)'.query = TaskOf(v).query
           /\ Thread(v, "running")' => /\ Thread(v, "running")
                                       /\ worker'[v].failures = worker[v].failures
    BY DEF TypeOK, OneThreadPerTask, TaskType, WorkerType, TaskStates
  <2>2. SerialExecutions'
    BY <2>1, StillSerial DEF Strengthening
  <2>3. (SeenFailuresCurrent /\ SerialCountsExact)'
    BY <2>1 DEF Strengthening, SeenFailuresCurrent, SerialCountsExact
  <2>. QED
    BY <2>2, <2>3
<1>. QED
  BY <1>1, <1>2, <1>3, <1>4 DEF IInv, Strengthening

\* The failures a thread reads have happened by NeverOvercounted.
LEMMA StartIInv ==
    ASSUME IInv, NEW w \in Workers, NEW t \in TaskIds, Start(w, t)
    PROVE  IInv'
<1>. USE DEF Start, Dequeue, Idle
<1>. /\ TypeOK /\ Strengthening /\ LatestExists /\ LatestOfOwnKey
     /\ NeverOvercounted /\ SerialCountsExact
  BY DEF IInv
<1>1. TypeOK'
  <2>1. task' \in [TaskIds -> TaskType]
    <3>1. "running" \in TaskStates
      BY DEF TaskStates
    <3>. QED
      BY <3>1, TaskUpdate DEF TypeOK, OneThreadPerTask
  <2>2. worker' \in [Workers -> WorkerType]
    <3>1. [Idle EXCEPT !.phase = "running", !.task = t,
                        !.failures = IF task[t].query = None THEN 0
                                     ELSE failures[task[t].query]] \in WorkerType
      BY DEF TypeOK, TaskType, WorkerType, Phases
    <3>. QED
      BY <3>1 DEF TypeOK
  <2>3. OneThreadPerTask'
    BY DEF TypeOK, OneThreadPerTask, TaskType, WorkerType, Idle
  <2>. QED
    BY <2>1, <2>2, <2>3 DEF TypeOK
<1>2. (/\ TasksHaveKeys /\ ReportsHaveQueries /\ ResultsHaveTasks
      /\ SeenFailuresHappened /\ LatestExists /\ NeverOvercounted)'
  BY DEF TypeOK, OneThreadPerTask, TaskType, WorkerType, Phases, TaskStates, Strengthening,
         TasksHaveKeys, ReportsHaveQueries, ResultsHaveTasks,
         SeenFailuresHappened, LatestExists, NeverOvercounted, Idle
<1>3. (RowsOwnTheirKeys /\ SelectedRowsOwnKey /\ ForkOwnsResult /\ LatestOfOwnKey)'
  BY DEF TypeOK, OneThreadPerTask, TaskType, WorkerType, ForkType, TaskStates, Strengthening,
         TasksHaveKeys, ResultsHaveTasks, RowsOwnTheirKeys, SelectedRowsOwnKey, ForkOwnsResult,
         LatestExists, LatestOfOwnKey, Idle
<1>4. (SerialExecutions /\ SeenFailuresCurrent /\ SerialCountsExact)'
  <2>1. \A v \in Workers \ {w} :
           /\ worker'[v] = worker[v]
           /\ ~Thread(v, "idle") => TaskOf(v)'.query = TaskOf(v).query
    BY DEF TypeOK, OneThreadPerTask, TaskType
  <2>2. /\ worker'[w].task = t
        /\ worker'[w].failures = IF task[t].query = None THEN 0 ELSE failures[task[t].query]
        /\ task'[t].query = task[t].query
        /\ task[t].query \in Queries \cup {None}
    BY DEF TypeOK, WorkerType, TaskType
  <2>3. \A v \in Workers \ {w} :
           ~Thread(v, "idle") /\ TaskOf(v).query = task[t].query
               => task[t].query \in overlapped' \cup {None}
    BY <2>2
  <2>4. SerialExecutions'
    BY <2>1, <2>2, <2>3 DEF Strengthening, SerialExecutions
  <2>5. SeenFailuresCurrent'
    BY <2>1, <2>2 DEF Strengthening, SeenFailuresCurrent
  <2>6. SerialCountsExact'
    BY DEF SerialCountsExact
  <2>. QED
    BY <2>4, <2>5, <2>6
<1>. QED
  BY <1>1, <1>2, <1>3, <1>4 DEF IInv, Strengthening

\* Only the state of a queued task changes.
LEMMA LoadErrorIInv ==
    ASSUME IInv, NEW t \in TaskIds, LoadError(t)
    PROVE  IInv'
<1>. USE DEF LoadError
<1>. /\ TypeOK /\ Strengthening /\ LatestExists /\ LatestOfOwnKey
     /\ NeverOvercounted /\ SerialCountsExact
  BY DEF IInv
<1>1. TypeOK'
  <2>1. task' \in [TaskIds -> TaskType]
    <3>1. "failed" \in TaskStates
      BY DEF TaskStates
    <3>. QED
      BY <3>1, TaskUpdate DEF TypeOK, OneThreadPerTask
  <2>2. OneThreadPerTask'
    BY DEF TypeOK, OneThreadPerTask, TaskType, WorkerType, Idle
  <2>. QED
    BY <2>1, <2>2 DEF TypeOK
<1>2. (/\ TasksHaveKeys /\ ReportsHaveQueries /\ ResultsHaveTasks
      /\ SeenFailuresHappened /\ LatestExists /\ NeverOvercounted)'
  BY DEF TypeOK, OneThreadPerTask, TaskType, WorkerType, Phases, TaskStates, Strengthening,
         TasksHaveKeys, ReportsHaveQueries, ResultsHaveTasks,
         SeenFailuresHappened, LatestExists, NeverOvercounted
<1>3. (RowsOwnTheirKeys /\ SelectedRowsOwnKey /\ ForkOwnsResult /\ LatestOfOwnKey)'
  BY DEF TypeOK, OneThreadPerTask, TaskType, WorkerType, ForkType, TaskStates, Strengthening,
         TasksHaveKeys, ResultsHaveTasks, RowsOwnTheirKeys, SelectedRowsOwnKey, ForkOwnsResult,
         LatestExists, LatestOfOwnKey
<1>4. (SerialExecutions /\ SeenFailuresCurrent /\ SerialCountsExact)'
  <2>1. \A v \in Workers : ~Thread(v, "idle")' =>
           /\ ~Thread(v, "idle")
           /\ TaskOf(v)'.query = TaskOf(v).query
           /\ Thread(v, "running")' => /\ Thread(v, "running")
                                       /\ worker'[v].failures = worker[v].failures
    BY DEF TypeOK, OneThreadPerTask, TaskType, WorkerType, TaskStates
  <2>2. SerialExecutions'
    BY <2>1, StillSerial DEF Strengthening
  <2>3. (SeenFailuresCurrent /\ SerialCountsExact)'
    BY <2>1 DEF Strengthening, SeenFailuresCurrent, SerialCountsExact
  <2>. QED
    BY <2>2, <2>3
<1>. QED
  BY <1>1, <1>2, <1>3, <1>4 DEF IInv, Strengthening

\* The selected rows exist and have the key of the task, so they own it.
LEMMA StoreIInv ==
    ASSUME IInv, NEW w \in Workers, Store(w)
    PROVE  IInv'
<1>. USE DEF Store, Matching
<1>. /\ TypeOK /\ Strengthening /\ LatestExists /\ LatestOfOwnKey
     /\ NeverOvercounted /\ SerialCountsExact
  BY DEF IInv
<1>1. TypeOK'
  <2>1. worker' \in [Workers -> WorkerType]
    <3>1. worker[w] \in WorkerType /\ clock \in Nat
      BY DEF TypeOK
    <3>. QED
      BY <3>1, StoringType DEF TypeOK
  <2>2. OneThreadPerTask'
    BY DEF TypeOK, OneThreadPerTask, TaskType, WorkerType, Idle
  <2>. QED
    BY <2>1, <2>2 DEF TypeOK
<1>2. (/\ TasksHaveKeys /\ ReportsHaveQueries /\ ResultsHaveTasks
      /\ SeenFailuresHappened /\ LatestExists /\ NeverOvercounted)'
  BY DEF TypeOK, OneThreadPerTask, TaskType, WorkerType, Phases, TaskStates, Strengthening,
         TasksHaveKeys, ReportsHaveQueries, ResultsHaveTasks,
         SeenFailuresHappened, LatestExists, NeverOvercounted
<1>3. (RowsOwnTheirKeys /\ SelectedRowsOwnKey /\ ForkOwnsResult /\ LatestOfOwnKey)'
  <2>1. (RowsOwnTheirKeys /\ ForkOwnsResult /\ LatestOfOwnKey)'
    BY DEF Strengthening, RowsOwnTheirKeys, ForkOwnsResult, LatestOfOwnKey
  <2>2. \A q \in worker'[w].rows : task[worker[w].task].key \in owned[q]
    <3>1. task[worker[w].task].key \in Keys
      BY DEF TypeOK, OneThreadPerTask, Strengthening, TasksHaveKeys
    <3>2. worker'[w].rows = { q \in Queries : key[q] = task[worker[w].task].key }
      BY DEF TypeOK, WorkerType
    <3>. QED
      BY <3>1, <3>2 DEF Strengthening, RowsOwnTheirKeys
  <2>3. worker'[w].task = worker[w].task /\ \A v \in Workers \ {w} : worker'[v] = worker[v]
    BY DEF TypeOK, WorkerType
  <2>4. SelectedRowsOwnKey'
    BY <2>2, <2>3 DEF Strengthening, SelectedRowsOwnKey
  <2>. QED
    BY <2>1, <2>4
<1>4. (SerialExecutions /\ SeenFailuresCurrent /\ SerialCountsExact)'
  <2>1. \A v \in Workers : ~Thread(v, "idle")' =>
           /\ ~Thread(v, "idle")
           /\ TaskOf(v)'.query = TaskOf(v).query
           /\ Thread(v, "running")' => /\ Thread(v, "running")
                                       /\ worker'[v].failures = worker[v].failures
    BY DEF TypeOK, OneThreadPerTask, TaskType, WorkerType, TaskStates
  <2>2. SerialExecutions'
    BY <2>1, StillSerial DEF Strengthening
  <2>3. (SeenFailuresCurrent /\ SerialCountsExact)'
    BY <2>1 DEF Strengthening, SeenFailuresCurrent, SerialCountsExact
  <2>. QED
    BY <2>2, <2>3
<1>. QED
  BY <1>1, <1>2, <1>3, <1>4 DEF IInv, Strengthening

\* The rows still own the key: no step takes a key away.
LEMMA CommitIInv ==
    ASSUME IInv, NEW w \in Workers, Commit(w)
    PROVE  IInv'
<1>. USE DEF Commit
<1>. /\ TypeOK /\ Strengthening /\ LatestExists /\ LatestOfOwnKey
     /\ NeverOvercounted /\ SerialCountsExact
  BY DEF IInv
<1>1. TypeOK'
  <2>1. worker' \in [Workers -> WorkerType]
    <3>1. worker[w] \in WorkerType
      BY DEF TypeOK
    <3>2. "returning" \in Phases
      BY DEF Phases
    <3>. QED
      BY <3>1, <3>2, PhaseType DEF TypeOK
  <2>2. result' \in [TaskIds -> Nat \cup {None}]
    BY DEF TypeOK, WorkerType, OneThreadPerTask
  <2>3. latest' \in [Queries -> TaskIds \cup {None}]
    BY DEF TypeOK, WorkerType, OneThreadPerTask
  <2>4. OneThreadPerTask'
    BY DEF TypeOK, OneThreadPerTask, TaskType, WorkerType, Idle
  <2>. QED
    BY <2>1, <2>2, <2>3, <2>4 DEF TypeOK
<1>2. (/\ TasksHaveKeys /\ ReportsHaveQueries /\ ResultsHaveTasks
      /\ SeenFailuresHappened /\ LatestExists /\ NeverOvercounted)'
  BY DEF TypeOK, OneThreadPerTask, TaskType, WorkerType, Phases, TaskStates, Strengthening,
         TasksHaveKeys, ReportsHaveQueries, ResultsHaveTasks,
         SeenFailuresHappened, LatestExists, NeverOvercounted
<1>3. (RowsOwnTheirKeys /\ SelectedRowsOwnKey /\ ForkOwnsResult /\ LatestOfOwnKey)'
  BY DEF TypeOK, OneThreadPerTask, TaskType, WorkerType, ForkType, TaskStates, Strengthening,
         TasksHaveKeys, ResultsHaveTasks, RowsOwnTheirKeys, SelectedRowsOwnKey, ForkOwnsResult,
         LatestExists, LatestOfOwnKey
<1>4. (SerialExecutions /\ SeenFailuresCurrent /\ SerialCountsExact)'
  <2>1. \A v \in Workers : ~Thread(v, "idle")' =>
           /\ ~Thread(v, "idle")
           /\ TaskOf(v)'.query = TaskOf(v).query
           /\ Thread(v, "running")' => /\ Thread(v, "running")
                                       /\ worker'[v].failures = worker[v].failures
    BY DEF TypeOK, OneThreadPerTask, TaskType, WorkerType, TaskStates
  <2>2. SerialExecutions'
    BY <2>1, StillSerial DEF Strengthening
  <2>3. (SeenFailuresCurrent /\ SerialCountsExact)'
    BY <2>1 DEF Strengthening, SeenFailuresCurrent, SerialCountsExact
  <2>. QED
    BY <2>2, <2>3
<1>. QED
  BY <1>1, <1>2, <1>3, <1>4 DEF IInv, Strengthening

\* The thread lets go of the task.
LEMMA ReturnIInv ==
    ASSUME IInv, NEW w \in Workers, Return(w)
    PROVE  IInv'
<1>. USE DEF Return, EndTask
<1>. /\ TypeOK /\ Strengthening /\ LatestExists /\ LatestOfOwnKey
     /\ NeverOvercounted /\ SerialCountsExact
  BY DEF IInv
<1>1. TypeOK'
  <2>1. task' \in [TaskIds -> TaskType]
    <3>1. "done" \in TaskStates
      BY DEF TaskStates
    <3>. QED
      BY <3>1, TaskUpdate DEF TypeOK, OneThreadPerTask
  <2>2. worker' \in [Workers -> WorkerType]
    BY IdleType DEF TypeOK
  <2>3. OneThreadPerTask'
    BY DEF TypeOK, OneThreadPerTask, TaskType, WorkerType, Idle
  <2>. QED
    BY <2>1, <2>2, <2>3 DEF TypeOK
<1>2. (/\ TasksHaveKeys /\ ReportsHaveQueries /\ ResultsHaveTasks
      /\ SeenFailuresHappened /\ LatestExists /\ NeverOvercounted)'
  BY DEF TypeOK, OneThreadPerTask, TaskType, WorkerType, Phases, TaskStates, Strengthening,
         TasksHaveKeys, ReportsHaveQueries, ResultsHaveTasks,
         SeenFailuresHappened, LatestExists, NeverOvercounted, Idle
<1>3. (RowsOwnTheirKeys /\ SelectedRowsOwnKey /\ ForkOwnsResult /\ LatestOfOwnKey)'
  BY DEF TypeOK, OneThreadPerTask, TaskType, WorkerType, ForkType, TaskStates, Strengthening,
         TasksHaveKeys, ResultsHaveTasks, RowsOwnTheirKeys, SelectedRowsOwnKey, ForkOwnsResult,
         LatestExists, LatestOfOwnKey, Idle
<1>4. (SerialExecutions /\ SeenFailuresCurrent /\ SerialCountsExact)'
  <2>1. \A v \in Workers : ~Thread(v, "idle")' =>
           /\ ~Thread(v, "idle")
           /\ TaskOf(v)'.query = TaskOf(v).query
           /\ Thread(v, "running")' => /\ Thread(v, "running")
                                       /\ worker'[v].failures = worker[v].failures
    BY DEF TypeOK, OneThreadPerTask, TaskType, WorkerType, TaskStates, Idle
  <2>2. SerialExecutions'
    BY <2>1, StillSerial DEF Strengthening
  <2>3. (SeenFailuresCurrent /\ SerialCountsExact)'
    BY <2>1 DEF Strengthening, SeenFailuresCurrent, SerialCountsExact
  <2>. QED
    BY <2>2, <2>3
<1>. QED
  BY <1>1, <1>2, <1>3, <1>4 DEF IInv, Strengthening

\* Likewise.
LEMMA FailUnscheduledIInv ==
    ASSUME IInv, NEW w \in Workers, FailUnscheduled(w)
    PROVE  IInv'
<1>. USE DEF FailUnscheduled, EndTask
<1>. /\ TypeOK /\ Strengthening /\ LatestExists /\ LatestOfOwnKey
     /\ NeverOvercounted /\ SerialCountsExact
  BY DEF IInv
<1>1. TypeOK'
  <2>1. task' \in [TaskIds -> TaskType]
    <3>1. "failed" \in TaskStates
      BY DEF TaskStates
    <3>. QED
      BY <3>1, TaskUpdate DEF TypeOK, OneThreadPerTask
  <2>2. worker' \in [Workers -> WorkerType]
    BY IdleType DEF TypeOK
  <2>3. OneThreadPerTask'
    BY DEF TypeOK, OneThreadPerTask, TaskType, WorkerType, Idle
  <2>. QED
    BY <2>1, <2>2, <2>3 DEF TypeOK
<1>2. (/\ TasksHaveKeys /\ ReportsHaveQueries /\ ResultsHaveTasks
      /\ SeenFailuresHappened /\ LatestExists /\ NeverOvercounted)'
  BY DEF TypeOK, OneThreadPerTask, TaskType, WorkerType, Phases, TaskStates, Strengthening,
         TasksHaveKeys, ReportsHaveQueries, ResultsHaveTasks,
         SeenFailuresHappened, LatestExists, NeverOvercounted, Idle
<1>3. (RowsOwnTheirKeys /\ SelectedRowsOwnKey /\ ForkOwnsResult /\ LatestOfOwnKey)'
  BY DEF TypeOK, OneThreadPerTask, TaskType, WorkerType, ForkType, TaskStates, Strengthening,
         TasksHaveKeys, ResultsHaveTasks, RowsOwnTheirKeys, SelectedRowsOwnKey, ForkOwnsResult,
         LatestExists, LatestOfOwnKey, Idle
<1>4. (SerialExecutions /\ SeenFailuresCurrent /\ SerialCountsExact)'
  <2>1. \A v \in Workers : ~Thread(v, "idle")' =>
           /\ ~Thread(v, "idle")
           /\ TaskOf(v)'.query = TaskOf(v).query
           /\ Thread(v, "running")' => /\ Thread(v, "running")
                                       /\ worker'[v].failures = worker[v].failures
    BY DEF TypeOK, OneThreadPerTask, TaskType, WorkerType, TaskStates, Idle
  <2>2. SerialExecutions'
    BY <2>1, StillSerial DEF Strengthening
  <2>3. (SeenFailuresCurrent /\ SerialCountsExact)'
    BY <2>1 DEF Strengthening, SeenFailuresCurrent, SerialCountsExact
  <2>. QED
    BY <2>2, <2>3
<1>. QED
  BY <1>1, <1>2, <1>3, <1>4 DEF IInv, Strengthening

\* The count is one more than what was seen, and one more failure has happened.
LEMMA FailScheduledIInv ==
    ASSUME IInv, NEW w \in Workers, FailScheduled(w)
    PROVE  IInv'
<1>. USE DEF FailScheduled, CountFailure
<1>. /\ TypeOK /\ Strengthening /\ LatestExists /\ LatestOfOwnKey
     /\ NeverOvercounted /\ SerialCountsExact
  BY DEF IInv
<1>1. TypeOK'
  <2>1. worker' \in [Workers -> WorkerType]
    <3>1. worker[w] \in WorkerType
      BY DEF TypeOK
    <3>2. worker[w].failures + 1 \in Nat
      BY <3>1 DEF WorkerType
    <3>. QED
      BY <3>1, <3>2, ReportingType DEF TypeOK
  <2>2. failures' \in [Queries -> Nat]
    <3>1. worker[w] \in WorkerType
      BY DEF TypeOK
    <3>2. worker[w].failures + 1 \in Nat
      BY <3>1 DEF WorkerType
    <3>. QED
      BY <3>1, <3>2 DEF TypeOK
  <2>3. failed' \in [Queries -> Nat]
    <3>1. task[worker[w].task].query \in Queries
      BY DEF TypeOK, OneThreadPerTask, TaskType
    <3>. QED
      BY <3>1 DEF TypeOK
  <2>4. OneThreadPerTask'
    <3>1. \A v \in Workers : worker'[v].task = worker[v].task /\ (Thread(v, "idle")' <=> Thread(v, "idle"))
      BY DEF TypeOK, WorkerType
    <3>. QED
      BY <3>1 DEF TypeOK, OneThreadPerTask
  <2>. QED
    BY <2>1, <2>2, <2>3, <2>4 DEF TypeOK
<1>2. (/\ TasksHaveKeys /\ ReportsHaveQueries /\ ResultsHaveTasks
      /\ SeenFailuresHappened /\ LatestExists /\ NeverOvercounted)'
  BY DEF TypeOK, OneThreadPerTask, TaskType, WorkerType, Phases, TaskStates, Strengthening,
         TasksHaveKeys, ReportsHaveQueries, ResultsHaveTasks,
         SeenFailuresHappened, LatestExists, NeverOvercounted
<1>3. (RowsOwnTheirKeys /\ SelectedRowsOwnKey /\ ForkOwnsResult /\ LatestOfOwnKey)'
  BY DEF TypeOK, OneThreadPerTask, TaskType, WorkerType, ForkType, TaskStates, Strengthening,
         TasksHaveKeys, ResultsHaveTasks, RowsOwnTheirKeys, SelectedRowsOwnKey, ForkOwnsResult,
         LatestExists, LatestOfOwnKey
<1>4. (SerialExecutions /\ SeenFailuresCurrent /\ SerialCountsExact)'
  <2>1. \A v \in Workers : ~Thread(v, "idle")' =>
           /\ ~Thread(v, "idle")
           /\ TaskOf(v)'.query = TaskOf(v).query
           /\ Thread(v, "running")' => /\ Thread(v, "running")
                                       /\ worker'[v].failures = worker[v].failures
    BY DEF TypeOK, OneThreadPerTask, TaskType, WorkerType, TaskStates
  <2>2. SerialExecutions'
    BY <2>1, StillSerial DEF Strengthening
  <2>3. SeenFailuresCurrent'
    BY <2>1 DEF TypeOK, Strengthening, SerialExecutions, SeenFailuresCurrent
  <2>4. SerialCountsExact'
    BY DEF TypeOK, Strengthening, SeenFailuresCurrent, SerialCountsExact
  <2>. QED
    BY <2>2, <2>3, <2>4
<1>. QED
  BY <1>1, <1>2, <1>3, <1>4 DEF IInv, Strengthening

\* What is pushed is a failure of a query.
LEMMA ReportIInv ==
    ASSUME IInv, NEW w \in Workers, Report(w)
    PROVE  IInv'
<1>. USE DEF Report, EndTask
<1>. /\ TypeOK /\ Strengthening /\ LatestExists /\ LatestOfOwnKey
     /\ NeverOvercounted /\ SerialCountsExact
  BY DEF IInv
<1>1. TypeOK'
  <2>1. task' \in [TaskIds -> TaskType]
    <3>1. "failed" \in TaskStates
      BY DEF TaskStates
    <3>. QED
      BY <3>1, TaskUpdate DEF TypeOK, OneThreadPerTask
  <2>2. worker' \in [Workers -> WorkerType]
    BY IdleType DEF TypeOK
  <2>3. errorQueue' \in Seq([query : Queries, failures : Nat])
    <3>1. [query |-> task[worker[w].task].query, failures |-> worker[w].failures]
            \in [query : Queries, failures : Nat]
      BY DEF TypeOK, WorkerType, Strengthening, ReportsHaveQueries
    <3>2. errorQueue \in Seq([query : Queries, failures : Nat])
      BY DEF TypeOK
    <3>3. <<[query |-> task[worker[w].task].query, failures |-> worker[w].failures]>> \o errorQueue
            \in Seq([query : Queries, failures : Nat])
      BY <3>1, <3>2, QueueType
    <3>. QED
      BY <3>1, <3>2, <3>3 DEF TypeOK
  <2>4. OneThreadPerTask'
    BY DEF TypeOK, OneThreadPerTask, TaskType, WorkerType, Idle
  <2>. QED
    BY <2>1, <2>2, <2>3, <2>4 DEF TypeOK
<1>2. (/\ TasksHaveKeys /\ ReportsHaveQueries /\ ResultsHaveTasks
      /\ SeenFailuresHappened /\ LatestExists /\ NeverOvercounted)'
  BY DEF TypeOK, OneThreadPerTask, TaskType, WorkerType, Phases, TaskStates, Strengthening,
         TasksHaveKeys, ReportsHaveQueries, ResultsHaveTasks,
         SeenFailuresHappened, LatestExists, NeverOvercounted, Idle
<1>3. (RowsOwnTheirKeys /\ SelectedRowsOwnKey /\ ForkOwnsResult /\ LatestOfOwnKey)'
  BY DEF TypeOK, OneThreadPerTask, TaskType, WorkerType, ForkType, TaskStates, Strengthening,
         TasksHaveKeys, ResultsHaveTasks, RowsOwnTheirKeys, SelectedRowsOwnKey, ForkOwnsResult,
         LatestExists, LatestOfOwnKey, Idle
<1>4. (SerialExecutions /\ SeenFailuresCurrent /\ SerialCountsExact)'
  <2>1. \A v \in Workers : ~Thread(v, "idle")' =>
           /\ ~Thread(v, "idle")
           /\ TaskOf(v)'.query = TaskOf(v).query
           /\ Thread(v, "running")' => /\ Thread(v, "running")
                                       /\ worker'[v].failures = worker[v].failures
    BY DEF TypeOK, OneThreadPerTask, TaskType, WorkerType, TaskStates, Idle
  <2>2. SerialExecutions'
    BY <2>1, StillSerial DEF Strengthening
  <2>3. (SeenFailuresCurrent /\ SerialCountsExact)'
    BY <2>1 DEF Strengthening, SeenFailuresCurrent, SerialCountsExact
  <2>. QED
    BY <2>2, <2>3
<1>. QED
  BY <1>1, <1>2, <1>3, <1>4 DEF IInv, Strengthening

\* No thread is left with a task.
LEMMA CrashIInv ==
    ASSUME IInv, Crash
    PROVE  IInv'
<1>. USE DEF Crash
<1>. /\ TypeOK /\ Strengthening /\ LatestExists /\ LatestOfOwnKey
     /\ NeverOvercounted /\ SerialCountsExact
  BY DEF IInv
<1>1. TypeOK'
  <2>1. task' \in [TaskIds -> TaskType]
    <3>1. \A t \in TaskIds : task[t] \in TaskType
      BY DEF TypeOK
    <3>. QED
      BY <3>1, LostType DEF TypeOK
  <2>2. worker' \in [Workers -> WorkerType]
    BY IdleType DEF TypeOK
  <2>3. OneThreadPerTask'
    BY DEF TypeOK, OneThreadPerTask, TaskType, WorkerType, Idle
  <2>. QED
    BY <2>1, <2>2, <2>3 DEF TypeOK
<1>2. (/\ TasksHaveKeys /\ ReportsHaveQueries /\ ResultsHaveTasks
      /\ SeenFailuresHappened /\ LatestExists /\ NeverOvercounted)'
  BY DEF TypeOK, OneThreadPerTask, TaskType, WorkerType, Phases, TaskStates, Strengthening,
         TasksHaveKeys, ReportsHaveQueries, ResultsHaveTasks,
         SeenFailuresHappened, LatestExists, NeverOvercounted, Idle
<1>3. (RowsOwnTheirKeys /\ SelectedRowsOwnKey /\ ForkOwnsResult /\ LatestOfOwnKey)'
  BY DEF TypeOK, OneThreadPerTask, TaskType, WorkerType, ForkType, TaskStates, Strengthening,
         TasksHaveKeys, ResultsHaveTasks, RowsOwnTheirKeys, SelectedRowsOwnKey, ForkOwnsResult,
         LatestExists, LatestOfOwnKey, Idle
<1>4. (SerialExecutions /\ SeenFailuresCurrent /\ SerialCountsExact)'
  <2>1. \A v \in Workers : ~Thread(v, "idle")' =>
           /\ ~Thread(v, "idle")
           /\ TaskOf(v)'.query = TaskOf(v).query
           /\ Thread(v, "running")' => /\ Thread(v, "running")
                                       /\ worker'[v].failures = worker[v].failures
    BY DEF TypeOK, OneThreadPerTask, TaskType, WorkerType, TaskStates, Idle
  <2>2. SerialExecutions'
    BY <2>1, StillSerial DEF Strengthening
  <2>3. (SeenFailuresCurrent /\ SerialCountsExact)'
    BY <2>1 DEF Strengthening, SeenFailuresCurrent, SerialCountsExact
  <2>. QED
    BY <2>2, <2>3
<1>. QED
  BY <1>1, <1>2, <1>3, <1>4 DEF IInv, Strengthening

\* The new row owns its key and that of the result.
LEMMA CreateIInv ==
    ASSUME IInv, NEW q \in Queries, NEW k \in Keys, NEW r \in TaskIds \cup {None}, Create(q, k, r)
    PROVE  IInv'
<1>. USE DEF Create, References, Exists
<1>. /\ TypeOK /\ Strengthening /\ LatestExists /\ LatestOfOwnKey
     /\ NeverOvercounted /\ SerialCountsExact
  BY DEF IInv
<1>1. TypeOK'
  <2>1. key' \in [Queries -> Keys \cup {None}]
    BY DEF TypeOK
  <2>2. latest' \in [Queries -> TaskIds \cup {None}]
    BY DEF TypeOK
  <2>3. owned' \in [Queries -> SUBSET Keys]
    <3>1. r # None => task[r].key \in Keys
      BY DEF Strengthening, ResultsHaveTasks, TasksHaveKeys
    <3>2. KeyOf(r) \subseteq Keys
      BY <3>1, KeyOfType DEF TypeOK
    <3>. QED
      BY <3>1, <3>2 DEF TypeOK
  <2>. QED
    BY <2>1, <2>2, <2>3 DEF TypeOK, OneThreadPerTask
<1>2. (/\ TasksHaveKeys /\ ReportsHaveQueries /\ ResultsHaveTasks
      /\ SeenFailuresHappened /\ LatestExists /\ NeverOvercounted)'
  BY DEF TypeOK, OneThreadPerTask, TaskType, WorkerType, Phases, TaskStates, Strengthening,
         TasksHaveKeys, ReportsHaveQueries, ResultsHaveTasks,
         SeenFailuresHappened, LatestExists, NeverOvercounted
<1>3. (RowsOwnTheirKeys /\ SelectedRowsOwnKey /\ ForkOwnsResult /\ LatestOfOwnKey)'
  BY DEF TypeOK, OneThreadPerTask, TaskType, WorkerType, ForkType, TaskStates, Strengthening,
         TasksHaveKeys, ResultsHaveTasks, RowsOwnTheirKeys, SelectedRowsOwnKey, ForkOwnsResult,
         LatestExists, LatestOfOwnKey, KeyOf
<1>4. (SerialExecutions /\ SeenFailuresCurrent /\ SerialCountsExact)'
  BY DEF Strengthening, SerialExecutions, SeenFailuresCurrent, SerialCountsExact
<1>. QED
  BY <1>1, <1>2, <1>3, <1>4 DEF IInv, Strengthening

\* Keys are only added to those a row owns.
LEMMA EditIInv ==
    ASSUME IInv, NEW q \in Queries, NEW k \in Keys, Edit(q, k)
    PROVE  IInv'
<1>. USE DEF Edit, Exists
<1>. /\ TypeOK /\ Strengthening /\ LatestExists /\ LatestOfOwnKey
     /\ NeverOvercounted /\ SerialCountsExact
  BY DEF IInv
<1>1. TypeOK'
  <2>1. key' \in [Queries -> Keys \cup {None}]
    BY DEF TypeOK
  <2>2. owned' \in [Queries -> SUBSET Keys]
    BY DEF TypeOK
  <2>. QED
    BY <2>1, <2>2 DEF TypeOK, OneThreadPerTask
<1>2. (/\ TasksHaveKeys /\ ReportsHaveQueries /\ ResultsHaveTasks
      /\ SeenFailuresHappened /\ LatestExists /\ NeverOvercounted)'
  BY DEF TypeOK, OneThreadPerTask, TaskType, WorkerType, Phases, TaskStates, Strengthening,
         TasksHaveKeys, ReportsHaveQueries, ResultsHaveTasks,
         SeenFailuresHappened, LatestExists, NeverOvercounted
<1>3. (RowsOwnTheirKeys /\ SelectedRowsOwnKey /\ ForkOwnsResult /\ LatestOfOwnKey)'
  BY DEF TypeOK, OneThreadPerTask, TaskType, WorkerType, ForkType, TaskStates, Strengthening,
         TasksHaveKeys, ResultsHaveTasks, RowsOwnTheirKeys, SelectedRowsOwnKey, ForkOwnsResult,
         LatestExists, LatestOfOwnKey
<1>4. (SerialExecutions /\ SeenFailuresCurrent /\ SerialCountsExact)'
  BY DEF Strengthening, SerialExecutions, SeenFailuresCurrent, SerialCountsExact
<1>. QED
  BY <1>1, <1>2, <1>3, <1>4 DEF IInv, Strengthening

\* The key of the result is added, too.
LEMMA AttachIInv ==
    ASSUME IInv, NEW q \in Queries, NEW r \in TaskIds \cup {None}, Attach(q, r)
    PROVE  IInv'
<1>. USE DEF Attach, References, Exists
<1>. /\ TypeOK /\ Strengthening /\ LatestExists /\ LatestOfOwnKey
     /\ NeverOvercounted /\ SerialCountsExact
  BY DEF IInv
<1>1. TypeOK'
  <2>1. latest' \in [Queries -> TaskIds \cup {None}]
    BY DEF TypeOK
  <2>2. owned' \in [Queries -> SUBSET Keys]
    <3>1. r # None => task[r].key \in Keys
      BY DEF Strengthening, ResultsHaveTasks, TasksHaveKeys
    <3>2. KeyOf(r) \subseteq Keys
      BY <3>1, KeyOfType DEF TypeOK
    <3>. QED
      BY <3>1, <3>2 DEF TypeOK
  <2>. QED
    BY <2>1, <2>2 DEF TypeOK, OneThreadPerTask
<1>2. (/\ TasksHaveKeys /\ ReportsHaveQueries /\ ResultsHaveTasks
      /\ SeenFailuresHappened /\ LatestExists /\ NeverOvercounted)'
  BY DEF TypeOK, OneThreadPerTask, TaskType, WorkerType, Phases, TaskStates, Strengthening,
         TasksHaveKeys, ReportsHaveQueries, ResultsHaveTasks,
         SeenFailuresHappened, LatestExists, NeverOvercounted
<1>3. (RowsOwnTheirKeys /\ SelectedRowsOwnKey /\ ForkOwnsResult /\ LatestOfOwnKey)'
  BY DEF TypeOK, OneThreadPerTask, TaskType, WorkerType, ForkType, TaskStates, Strengthening,
         TasksHaveKeys, ResultsHaveTasks, RowsOwnTheirKeys, SelectedRowsOwnKey, ForkOwnsResult,
         LatestExists, LatestOfOwnKey, KeyOf
<1>4. (SerialExecutions /\ SeenFailuresCurrent /\ SerialCountsExact)'
  BY DEF Strengthening, SerialExecutions, SeenFailuresCurrent, SerialCountsExact
<1>. QED
  BY <1>1, <1>2, <1>3, <1>4 DEF IInv, Strengthening

\* The source owns the key of its latest result by LatestOfOwnKey.
LEMMA ForkReadIInv ==
    ASSUME IInv, NEW q \in Queries, ForkRead(q)
    PROVE  IInv'
<1>. USE DEF ForkRead, Exists
<1>. /\ TypeOK /\ Strengthening /\ LatestExists /\ LatestOfOwnKey
     /\ NeverOvercounted /\ SerialCountsExact
  BY DEF IInv
<1>1. TypeOK'
  <2>1. forker' \in ForkType \cup {None}
    BY DEF TypeOK, ForkType
  <2>. QED
    BY <2>1 DEF TypeOK, OneThreadPerTask
<1>2. (/\ TasksHaveKeys /\ ReportsHaveQueries /\ ResultsHaveTasks
      /\ SeenFailuresHappened /\ LatestExists /\ NeverOvercounted)'
  BY DEF TypeOK, OneThreadPerTask, TaskType, WorkerType, Phases, TaskStates, Strengthening,
         TasksHaveKeys, ReportsHaveQueries, ResultsHaveTasks,
         SeenFailuresHappened, LatestExists, NeverOvercounted
<1>3. (RowsOwnTheirKeys /\ SelectedRowsOwnKey /\ ForkOwnsResult /\ LatestOfOwnKey)'
  BY DEF TypeOK, OneThreadPerTask, TaskType, WorkerType, ForkType, TaskStates, Strengthening,
         TasksHaveKeys, ResultsHaveTasks, RowsOwnTheirKeys, SelectedRowsOwnKey, ForkOwnsResult,
         LatestExists, LatestOfOwnKey
<1>4. (SerialExecutions /\ SeenFailuresCurrent /\ SerialCountsExact)'
  BY DEF Strengthening, SerialExecutions, SeenFailuresCurrent, SerialCountsExact
<1>. QED
  BY <1>1, <1>2, <1>3, <1>4 DEF IInv, Strengthening

\* The foreign key keeps the copy from referring to a deleted result.
LEMMA ForkCommitIInv ==
    ASSUME IInv, NEW q \in Queries, ForkCommit(q)
    PROVE  IInv'
<1>. USE DEF ForkCommit, Exists, References
<1>. /\ TypeOK /\ Strengthening /\ LatestExists /\ LatestOfOwnKey
     /\ NeverOvercounted /\ SerialCountsExact
  BY DEF IInv
<1>1. TypeOK'
  <2>1. key' \in [Queries -> Keys \cup {None}]
    BY DEF TypeOK, ForkType
  <2>2. latest' \in [Queries -> TaskIds \cup {None}]
    BY DEF TypeOK, ForkType
  <2>3. owned' \in [Queries -> SUBSET Keys]
    BY DEF TypeOK, ForkType
  <2>. QED
    BY <2>1, <2>2, <2>3 DEF TypeOK, OneThreadPerTask
<1>2. (/\ TasksHaveKeys /\ ReportsHaveQueries /\ ResultsHaveTasks
      /\ SeenFailuresHappened /\ LatestExists /\ NeverOvercounted)'
  BY DEF TypeOK, OneThreadPerTask, TaskType, WorkerType, Phases, TaskStates, Strengthening,
         TasksHaveKeys, ReportsHaveQueries, ResultsHaveTasks,
         SeenFailuresHappened, LatestExists, NeverOvercounted
<1>3. (RowsOwnTheirKeys /\ SelectedRowsOwnKey /\ ForkOwnsResult /\ LatestOfOwnKey)'
  BY DEF TypeOK, OneThreadPerTask, TaskType, WorkerType, ForkType, TaskStates, Strengthening,
         TasksHaveKeys, ResultsHaveTasks, RowsOwnTheirKeys, SelectedRowsOwnKey, ForkOwnsResult,
         LatestExists, LatestOfOwnKey
<1>4. (SerialExecutions /\ SeenFailuresCurrent /\ SerialCountsExact)'
  BY DEF Strengthening, SerialExecutions, SeenFailuresCurrent, SerialCountsExact
<1>. QED
  BY <1>1, <1>2, <1>3, <1>4 DEF IInv, Strengthening

\* The request is forgotten.
LEMMA ForkAbortIInv ==
    ASSUME IInv, ForkAbort
    PROVE  IInv'
<1>. USE DEF ForkAbort
<1>. /\ TypeOK /\ Strengthening /\ LatestExists /\ LatestOfOwnKey
     /\ NeverOvercounted /\ SerialCountsExact
  BY DEF IInv
<1>1. TypeOK'
  BY DEF TypeOK, OneThreadPerTask
<1>2. (/\ TasksHaveKeys /\ ReportsHaveQueries /\ ResultsHaveTasks
      /\ SeenFailuresHappened /\ LatestExists /\ NeverOvercounted)'
  BY DEF TypeOK, OneThreadPerTask, TaskType, WorkerType, Phases, TaskStates, Strengthening,
         TasksHaveKeys, ReportsHaveQueries, ResultsHaveTasks,
         SeenFailuresHappened, LatestExists, NeverOvercounted
<1>3. (RowsOwnTheirKeys /\ SelectedRowsOwnKey /\ ForkOwnsResult /\ LatestOfOwnKey)'
  BY DEF TypeOK, OneThreadPerTask, TaskType, WorkerType, ForkType, TaskStates, Strengthening,
         TasksHaveKeys, ResultsHaveTasks, RowsOwnTheirKeys, SelectedRowsOwnKey, ForkOwnsResult,
         LatestExists, LatestOfOwnKey
<1>4. (SerialExecutions /\ SeenFailuresCurrent /\ SerialCountsExact)'
  BY DEF Strengthening, SerialExecutions, SeenFailuresCurrent, SerialCountsExact
<1>. QED
  BY <1>1, <1>2, <1>3, <1>4 DEF IInv, Strengthening

\* A deleted result is the latest one of no query.
LEMMA CleanupIInv ==
    ASSUME IInv, CleanupUnusedResults
    PROVE  IInv'
<1>. USE DEF CleanupUnusedResults, Unused
<1>. /\ TypeOK /\ Strengthening /\ LatestExists /\ LatestOfOwnKey
     /\ NeverOvercounted /\ SerialCountsExact
  BY DEF IInv
<1>1. TypeOK'
  <2>1. result' \in [TaskIds -> Nat \cup {None}]
    BY DEF TypeOK
  <2>. QED
    BY <2>1 DEF TypeOK, OneThreadPerTask
<1>2. (/\ TasksHaveKeys /\ ReportsHaveQueries /\ ResultsHaveTasks
      /\ SeenFailuresHappened /\ LatestExists /\ NeverOvercounted)'
  BY DEF TypeOK, OneThreadPerTask, TaskType, WorkerType, Phases, TaskStates, Strengthening,
         TasksHaveKeys, ReportsHaveQueries, ResultsHaveTasks,
         SeenFailuresHappened, LatestExists, NeverOvercounted
<1>3. (RowsOwnTheirKeys /\ SelectedRowsOwnKey /\ ForkOwnsResult /\ LatestOfOwnKey)'
  BY DEF TypeOK, OneThreadPerTask, TaskType, WorkerType, ForkType, TaskStates, Strengthening,
         TasksHaveKeys, ResultsHaveTasks, RowsOwnTheirKeys, SelectedRowsOwnKey, ForkOwnsResult,
         LatestExists, LatestOfOwnKey
<1>4. (SerialExecutions /\ SeenFailuresCurrent /\ SerialCountsExact)'
  BY DEF Strengthening, SerialExecutions, SeenFailuresCurrent, SerialCountsExact
<1>. QED
  BY <1>1, <1>2, <1>3, <1>4 DEF IInv, Strengthening

\* A step that changes nothing.
LEMMA StutterIInv == IInv /\ UNCHANGED vars => IInv'
BY DEF vars, IInv, TypeOK, OneThreadPerTask, Strengthening, TasksHaveKeys, ReportsHaveQueries,
       ResultsHaveTasks, RowsOwnTheirKeys, SelectedRowsOwnKey, ForkOwnsResult,
       SeenFailuresHappened, SerialExecutions, SeenFailuresCurrent,
       LatestExists, LatestOfOwnKey, NeverOvercounted, SerialCountsExact

\* Every step preserves it.
LEMMA NextIInv == IInv /\ [Next]_vars => IInv'
<1>. SUFFICES ASSUME IInv, [Next]_vars PROVE IInv'
  OBVIOUS
<1>1. ASSUME NEW t \in TaskIds, NEW k \in Keys,
             \/ \E a \in MaxAges : RequestExecution(t, k, a)
             \/ \E q \in Queries : EnqueueScheduled(t, q, k)
      PROVE  IInv'
  BY <1>1, RequestIInv, ScheduledIInv
<1>2. ASSUME NEW w \in Workers,
             \/ \E t \in TaskIds : Start(w, t)
             \/ Store(w) \/ Commit(w) \/ Return(w)
             \/ FailUnscheduled(w) \/ FailScheduled(w) \/ Report(w)
      PROVE  IInv'
  BY <1>2, StartIInv, StoreIInv, CommitIInv, ReturnIInv, FailUnscheduledIInv, FailScheduledIInv,
     ReportIInv
<1>3. ASSUME NEW q \in Queries,
             \/ \E k \in Keys : Edit(q, k)
             \/ \E r \in TaskIds \cup {None} : Attach(q, r) \/ \E k \in Keys : Create(q, k, r)
             \/ ForkRead(q) \/ ForkCommit(q)
      PROVE  IInv'
  BY <1>3, EditIInv, AttachIInv, CreateIInv, ForkReadIInv, ForkCommitIInv
<1>4. CASE Tick \/ (\E t \in TaskIds : LoadError(t)) \/ Crash \/ ForkAbort \/ CleanupUnusedResults
  BY <1>4, TickIInv, LoadErrorIInv, CrashIInv, ForkAbortIInv, CleanupIInv
<1>5. CASE UNCHANGED vars
  BY <1>5, StutterIInv
<1>. QED
  BY <1>1, <1>2, <1>3, <1>4, <1>5 DEF Next

LEMMA Invariance == Spec => []IInv
BY InitIInv, NextIInv, PTL DEF Spec

-----------------------------------------------------------------------------
(* What the owner is told *)

\* The places of the queue at which a query is reported, and the threads about to report it
Reported(q) == { i \in DOMAIN errorQueue : errorQueue[i].query = q }
Pending(q) == { w \in Workers : Thread(w, "reporting") /\ TaskOf(w).query = q }

(***************************************************************************)
(* Every report, made or about to be made, is backed by a counted failure  *)
(* of its own, and tells of a count that was reached.                      *)
(***************************************************************************)
ReportsBacked(q) ==
    /\ IsFiniteSet(Pending(q))
    /\ Cardinality(Reported(q)) + Cardinality(Pending(q)) <= failed[q]
    /\ \A i \in Reported(q) : errorQueue[i].failures <= failed[q]
    /\ \A w \in Pending(q) : worker[w].failures <= failed[q]

ReportsInv == IInv /\ \A q \in Queries : ReportsBacked(q)

\* A step by which no thread gets closer to a report
NoNewReport ==
    /\ errorQueue' = errorQueue
    /\ failed' = failed
    /\ \A v \in Workers : Thread(v, "reporting")' =>
          /\ Thread(v, "reporting")
          /\ worker'[v].failures = worker[v].failures
          /\ TaskOf(v)'.query = TaskOf(v).query

\* The reports of a query can be counted.
LEMMA ReportedFinite ==
    ASSUME TypeOK, NEW q \in Queries
    PROVE  IsFiniteSet(Reported(q)) /\ Cardinality(Reported(q)) \in Nat
<1>1. DOMAIN errorQueue = 1 .. Len(errorQueue) /\ Len(errorQueue) \in Nat
  BY DEF TypeOK
<1>2. IsFiniteSet(1 .. Len(errorQueue))
  BY <1>1, FS_Interval
<1>3. Reported(q) \subseteq 1 .. Len(errorQueue)
  BY <1>1 DEF Reported
<1>4. IsFiniteSet(Reported(q))
  BY <1>2, <1>3, FS_Subset
<1> QED
  BY <1>4, FS_CardinalityType

LEMMA InitReports == Init => ReportsInv
<1> SUFFICES ASSUME Init PROVE ReportsInv
  OBVIOUS
<1>1. ASSUME NEW q \in Queries PROVE ReportsBacked(q)
  <2>1. Reported(q) = {} /\ Pending(q) = {}
    BY DEF Init, Reported, Pending, Idle
  <2>2. failed[q] = 0
    BY DEF Init
  <2> QED
    BY <2>1, <2>2, FS_EmptySet DEF ReportsBacked
<1> QED
  BY <1>1, InitIInv DEF ReportsInv

\* Such a step leaves the reports backed.
LEMMA QuietReports ==
    ASSUME IInv, NoNewReport, NEW q \in Queries, ReportsBacked(q)
    PROVE  ReportsBacked(q)'
<1>1. Reported(q)' = Reported(q) /\ Pending(q)' \subseteq Pending(q)
  BY DEF NoNewReport, Reported, Pending
<1>2. IsFiniteSet(Pending(q)) /\ Cardinality(Pending(q)) \in Nat
  BY FS_CardinalityType DEF ReportsBacked
<1>3. IsFiniteSet(Pending(q)') /\ Cardinality(Pending(q)') <= Cardinality(Pending(q))
  BY <1>1, <1>2, FS_Subset
<1>4. Cardinality(Pending(q)') \in Nat
  BY <1>3, FS_CardinalityType
<1>5. Cardinality(Reported(q)) \in Nat /\ failed[q] \in Nat
  BY ReportedFinite DEF IInv, TypeOK
<1>6. Cardinality(Reported(q)') + Cardinality(Pending(q)') <= failed'[q]
  BY <1>1, <1>2, <1>3, <1>4, <1>5 DEF NoNewReport, ReportsBacked
<1>7. \A i \in Reported(q)' : errorQueue'[i].failures <= failed'[q]
  BY <1>1 DEF NoNewReport, ReportsBacked
<1>8. \A v \in Pending(q)' : worker'[v].failures <= failed'[q]
  BY <1>1 DEF NoNewReport, ReportsBacked, Pending
<1> QED
  BY <1>3, <1>6, <1>7, <1>8 DEF ReportsBacked

\* A failure backs the report its thread is about to make.
LEMMA FailReports ==
    ASSUME IInv, NEW w \in Workers, FailScheduled(w), NEW q \in Queries, ReportsBacked(q)
    PROVE  ReportsBacked(q)'
<1> DEFINE p == TaskOf(w).query
           n == worker[w].failures
<1>1. /\ worker \in [Workers -> WorkerType] /\ failed \in [Queries -> Nat]
      /\ worker[w].task \in TaskIds /\ TaskOf(w) \in TaskType
      /\ Thread(w, "running") /\ p \in Queries /\ n \in Nat
  BY DEF FailScheduled, IInv, TypeOK, OneThreadPerTask, TaskType, WorkerType
<1>2. n <= failed[p]
  BY <1>1 DEF FailScheduled, IInv, Strengthening, SeenFailuresHappened
<1>3. /\ errorQueue' = errorQueue /\ task' = task
      /\ failed' = [failed EXCEPT ![p] = @ + 1]
      /\ worker' = [worker EXCEPT ![w].phase = "reporting", ![w].failures = @ + 1]
  BY DEF FailScheduled, CountFailure
<1>4. /\ worker'[w].phase = "reporting" /\ worker'[w].failures = n + 1
      /\ worker'[w].task = worker[w].task
      /\ \A v \in Workers \ {w} : worker'[v] = worker[v]
  BY <1>1, <1>3 DEF WorkerType
<1>5. Reported(q)' = Reported(q)
  BY <1>3 DEF Reported
<1>6. Cardinality(Reported(q)) \in Nat
  BY ReportedFinite DEF IInv
<1>7. IsFiniteSet(Pending(q)) /\ Cardinality(Pending(q)) \in Nat
  BY FS_CardinalityType DEF ReportsBacked
<1>8. \A i \in Reported(q) : errorQueue[i].failures \in Nat
  <2> DEFINE R == [query : Queries, failures : Nat]
  <2>1. errorQueue \in Seq(R)
    BY DEF IInv, TypeOK
  <2> HIDE DEF R
  <2>2. DOMAIN errorQueue = 1 .. Len(errorQueue)
        /\ \A i \in 1 .. Len(errorQueue) : errorQueue[i] \in R
    BY <2>1
  <2>3. \A x \in R : x.failures \in Nat
    BY DEF R
  <2> QED
    BY <2>2, <2>3 DEF Reported
<1> HIDE DEF p, n
<1>9. CASE q = p
  <2>1. failed'[q] = failed[q] + 1
    BY <1>1, <1>3, <1>9
  <2>2. Pending(q)' = Pending(q) \cup {w}
    BY <1>3, <1>4, <1>9 DEF Pending, p
  <2>3. w \notin Pending(q)
    BY <1>1 DEF Pending
  <2>4. IsFiniteSet(Pending(q) \cup {w})
        /\ Cardinality(Pending(q) \cup {w}) = Cardinality(Pending(q)) + 1
    BY <1>7, <2>3, FS_AddElement
  <2>5. Cardinality(Reported(q)) + Cardinality(Pending(q)) <= failed[q]
    BY DEF ReportsBacked
  <2>6. Cardinality(Reported(q)') + Cardinality(Pending(q)') <= failed'[q]
    BY <1>1, <1>5, <1>6, <1>7, <2>1, <2>2, <2>4, <2>5
  <2>7. \A i \in Reported(q)' : errorQueue'[i].failures <= failed'[q]
    <3> SUFFICES ASSUME NEW i \in Reported(q) PROVE errorQueue[i].failures <= failed[q] + 1
      BY <1>3, <1>5, <2>1
    <3>1. errorQueue[i].failures \in Nat /\ errorQueue[i].failures <= failed[q]
      BY <1>8 DEF ReportsBacked
    <3> QED
      BY <1>1, <3>1
  <2>8. \A v \in Pending(q)' : worker'[v].failures <= failed'[q]
    <3> SUFFICES ASSUME NEW v \in Pending(q)' PROVE worker'[v].failures <= failed[q] + 1
      BY <2>1
    <3>1. CASE v = w
      BY <1>1, <1>2, <1>4, <1>9, <3>1
    <3>2. CASE v # w
      <4>1. v \in Pending(q) /\ v \in Workers \ {w}
        BY <2>2, <3>2 DEF Pending
      <4>2. worker'[v] = worker[v] /\ worker[v].failures <= failed[q]
        BY <1>4, <4>1 DEF ReportsBacked
      <4>3. worker[v].failures \in Nat
        BY <1>1, <4>1 DEF WorkerType
      <4> QED
        BY <1>1, <4>2, <4>3
    <3> QED
      BY <3>1, <3>2
  <2> QED
    BY <2>2, <2>4, <2>6, <2>7, <2>8 DEF ReportsBacked
<1>10. CASE q # p
  <2>1. failed'[q] = failed[q]
    BY <1>1, <1>3, <1>10
  <2>2. Pending(q)' = Pending(q)
    BY <1>1, <1>3, <1>4, <1>10 DEF Pending, p
  <2>3. \A v \in Pending(q)' : worker'[v].failures <= failed'[q]
    <3> SUFFICES ASSUME NEW v \in Pending(q) PROVE worker'[v].failures <= failed[q]
      BY <2>1, <2>2
    <3>1. v \in Workers \ {w}
      BY <1>1 DEF Pending
    <3> QED
      BY <1>4, <3>1 DEF ReportsBacked
  <2>4. \A i \in Reported(q)' : errorQueue'[i].failures <= failed'[q]
    BY <1>3, <1>5, <2>1 DEF ReportsBacked
  <2>5. Cardinality(Reported(q)') + Cardinality(Pending(q)') <= failed'[q]
    BY <1>5, <2>1, <2>2 DEF ReportsBacked
  <2>6. IsFiniteSet(Pending(q)')
    BY <1>7, <2>2
  <2> QED
    BY <2>3, <2>4, <2>5, <2>6 DEF ReportsBacked
<1> QED
  BY <1>9, <1>10

\* The reports of a query after one was pushed: those there were, and perhaps the new one.
LEMMA PushedReports ==
    ASSUME TypeOK, NEW e \in [query : Queries, failures : Nat], NEW q \in Queries,
           errorQueue' = <<e>> \o errorQueue
    PROVE  /\ IsFiniteSet(Reported(q)') /\ Cardinality(Reported(q)') \in Nat
           /\ e.query = q => Cardinality(Reported(q)') <= Cardinality(Reported(q)) + 1
           /\ e.query # q => Cardinality(Reported(q)') <= Cardinality(Reported(q))
           /\ \A i \in Reported(q)' :
                 \/ e.query = q /\ errorQueue'[i].failures = e.failures
                 \/ \E j \in Reported(q) : errorQueue'[i].failures = errorQueue[j].failures
<1> DEFINE L == Len(errorQueue)
           shifted == { i \in Reported(q)' : i # 1 }
           shift == [j \in Reported(q) |-> j + 1]
<1>1. /\ DOMAIN errorQueue = 1 .. L /\ L \in Nat
      /\ DOMAIN errorQueue' = 1 .. (L + 1)
      /\ errorQueue'[1] = e
      /\ \A i \in 2 .. (L + 1) : errorQueue'[i] = errorQueue[i - 1]
  <2>1. errorQueue \in Seq([query : Queries, failures : Nat])
    BY DEF TypeOK
  <2> QED
    BY <2>1
<1>2. IsFiniteSet(Reported(q)) /\ Cardinality(Reported(q)) \in Nat
  BY ReportedFinite
<1>3. ASSUME NEW i \in shifted
      PROVE  i - 1 \in Reported(q) /\ i = (i - 1) + 1 /\ errorQueue'[i] = errorQueue[i - 1]
  <2>1. i \in 2 .. (L + 1)
    BY <1>1 DEF Reported
  <2>2. errorQueue'[i] = errorQueue[i - 1]
    BY <1>1, <2>1
  <2>3. errorQueue[i - 1].query = q
    BY <2>2 DEF Reported
  <2>4. i - 1 \in 1 .. L /\ i = (i - 1) + 1
    BY <1>1, <2>1
  <2> QED
    BY <1>1, <2>2, <2>3, <2>4 DEF Reported
<1>4. shift \in Surjection(Reported(q), shifted)
  <2>1. ASSUME NEW j \in Reported(q) PROVE shift[j] \in shifted
    <3>1. j \in 1 .. L /\ errorQueue[j].query = q
      BY <1>1 DEF Reported
    <3>2. j + 1 \in 2 .. (L + 1) /\ (j + 1) - 1 = j
      BY <1>1, <3>1
    <3>3. errorQueue'[j + 1] = errorQueue[j]
      BY <1>1, <3>2
    <3>4. j + 1 \in 1 .. (L + 1) /\ j + 1 # 1
      BY <1>1, <3>2
    <3> QED
      BY <1>1, <3>1, <3>3, <3>4 DEF Reported
  <2>2. \A i \in shifted : \E j \in Reported(q) : shift[j] = i
    BY <1>3
  <2>3. shift \in [Reported(q) -> shifted]
    BY <2>1
  <2> HIDE DEF shift, shifted
  <2> QED
    BY <2>2, <2>3 DEF Surjection
<1>5. IsFiniteSet(shifted) /\ Cardinality(shifted) <= Cardinality(Reported(q))
  BY <1>2, <1>4, FS_Surjection
<1>6. Cardinality(shifted) \in Nat
  BY <1>5, FS_CardinalityType
<1>7. IsFiniteSet(shifted \cup {1})
      /\ Cardinality(shifted \cup {1}) <= Cardinality(shifted) + 1
  <2>1. 1 \notin shifted
    OBVIOUS
  <2> HIDE DEF shifted
  <2>2. IsFiniteSet(shifted \cup {1})
        /\ Cardinality(shifted \cup {1}) = Cardinality(shifted) + 1
    BY <1>5, <2>1, FS_AddElement
  <2> QED
    BY <1>6, <2>2
<1>8. e.query = q => Reported(q)' = shifted \cup {1}
  BY <1>1 DEF Reported
<1>9. e.query # q => Reported(q)' = shifted
  BY <1>1 DEF Reported
<1>10. ASSUME NEW i \in Reported(q)'
       PROVE  \/ e.query = q /\ errorQueue'[i].failures = e.failures
              \/ \E j \in Reported(q) : errorQueue'[i].failures = errorQueue[j].failures
  <2>1. CASE i = 1
    <3>1. errorQueue'[i].query = q
      BY DEF Reported
    <3> QED
      BY <1>1, <2>1, <3>1
  <2>2. CASE i # 1
    <3>1. i - 1 \in Reported(q) /\ errorQueue'[i] = errorQueue[i - 1]
      BY <1>3, <2>2
    <3> QED
      BY <3>1
  <2> QED
    BY <2>1, <2>2
<1>11. IsFiniteSet(Reported(q)')
  BY <1>5, <1>7, <1>8, <1>9
<1>12. Cardinality(Reported(q)') \in Nat
  BY <1>11, FS_CardinalityType
<1> HIDE DEF shifted
<1>13. e.query = q => Cardinality(Reported(q)') <= Cardinality(Reported(q)) + 1
  <2> SUFFICES ASSUME e.query = q
               PROVE  Cardinality(Reported(q)') <= Cardinality(Reported(q)) + 1
    OBVIOUS
  <2>1. Cardinality(Reported(q)') <= Cardinality(shifted) + 1
    BY <1>7, <1>8
  <2> QED
    BY <1>2, <1>5, <1>6, <1>12, <2>1
<1>14. e.query # q => Cardinality(Reported(q)') <= Cardinality(Reported(q))
  BY <1>5, <1>9
<1> QED
  BY <1>10, <1>11, <1>12, <1>13, <1>14

\* A report that is made was pending, and was backed as such.
LEMMA PushReports ==
    ASSUME IInv, NEW w \in Workers, Report(w), NEW q \in Queries, ReportsBacked(q)
    PROVE  ReportsBacked(q)'
<1> DEFINE p == TaskOf(w).query
           e == [query |-> p, failures |-> worker[w].failures]
<1>1. /\ worker \in [Workers -> WorkerType] /\ task \in [TaskIds -> TaskType]
      /\ failed \in [Queries -> Nat]
      /\ worker[w].task \in TaskIds /\ Thread(w, "reporting") /\ p \in Queries
      /\ worker[w].failures \in Nat
  BY DEF Report, IInv, TypeOK, OneThreadPerTask, WorkerType, Strengthening, ReportsHaveQueries
<1>2. /\ failed' = failed
      /\ worker' = [worker EXCEPT ![w] = Idle]
      /\ task' = [task EXCEPT ![worker[w].task].state = "failed"]
  BY DEF Report, EndTask
<1>3. /\ worker'[w].phase = "idle"
      /\ \A v \in Workers \ {w} : worker'[v] = worker[v]
      /\ \A t \in TaskIds : task'[t].query = task[t].query
  BY <1>1, <1>2 DEF Idle, TaskType
<1>4. ASSUME NEW v \in Workers, Thread(v, "reporting")'
      PROVE  /\ v # w
             /\ Thread(v, "reporting")
             /\ worker'[v] = worker[v]
             /\ TaskOf(v)'.query = TaskOf(v).query
  <2>1. v # w
    BY <1>3, <1>4
  <2>2. worker'[v] = worker[v]
    BY <1>3, <2>1
  <2>3. worker[v].task \in TaskIds
    BY <1>4, <2>2 DEF IInv, TypeOK, OneThreadPerTask
  <2> QED
    BY <1>3, <1>4, <2>1, <2>2, <2>3
<1>5. CASE errorQueue' = errorQueue
  <2>1. NoNewReport
    BY <1>2, <1>4, <1>5 DEF NoNewReport
  <2> QED
    BY <2>1, QuietReports
<1>6. CASE errorQueue' = <<e>> \o errorQueue
  <2>1. e \in [query : Queries, failures : Nat] /\ e.query = p
        /\ e.failures = worker[w].failures
    BY <1>1
  <2> HIDE DEF e, p
  <2>2. /\ Cardinality(Reported(q)') \in Nat
        /\ e.query = q => Cardinality(Reported(q)') <= Cardinality(Reported(q)) + 1
        /\ e.query # q => Cardinality(Reported(q)') <= Cardinality(Reported(q))
        /\ \A i \in Reported(q)' :
              \/ e.query = q /\ errorQueue'[i].failures = e.failures
              \/ \E j \in Reported(q) : errorQueue'[i].failures = errorQueue[j].failures
    BY <1>6, <2>1, PushedReports DEF IInv
  <2>3. Cardinality(Reported(q)) \in Nat /\ failed[q] \in Nat
    BY <1>1, ReportedFinite DEF IInv
  <2>4. /\ IsFiniteSet(Pending(q)) /\ Cardinality(Pending(q)) \in Nat
        /\ Cardinality(Reported(q)) + Cardinality(Pending(q)) <= failed[q]
    BY FS_CardinalityType DEF ReportsBacked
  <2>5. Pending(q)' \subseteq Pending(q) \ {w}
    BY <1>4 DEF Pending
  <2>6. /\ IsFiniteSet(Pending(q) \ {w})
        /\ Cardinality(Pending(q) \ {w}) =
              IF w \in Pending(q) THEN Cardinality(Pending(q)) - 1 ELSE Cardinality(Pending(q))
    BY <2>4, FS_RemoveElement
  <2>7. IsFiniteSet(Pending(q)') /\ Cardinality(Pending(q)') <= Cardinality(Pending(q) \ {w})
    BY <2>5, <2>6, FS_Subset
  <2>8. Cardinality(Pending(q)') \in Nat
    BY <2>7, FS_CardinalityType
  <2>9. w \in Pending(q) <=> e.query = q
    BY <1>1, <2>1 DEF Pending, p
  <2>10. Cardinality(Reported(q)') + Cardinality(Pending(q)') <= failed[q]
    <3>1. CASE e.query = q
      <4>1. Cardinality(Pending(q)') <= Cardinality(Pending(q)) - 1
        BY <2>6, <2>7, <2>9, <3>1
      <4> QED
        BY <2>2, <2>3, <2>4, <2>8, <3>1, <4>1
    <3>2. CASE e.query # q
      <4>1. Cardinality(Pending(q)') <= Cardinality(Pending(q))
        BY <2>6, <2>7, <2>9, <3>2
      <4> QED
        BY <2>2, <2>3, <2>4, <2>8, <3>2, <4>1
    <3> QED
      BY <3>1, <3>2
  <2>11. \A i \in Reported(q)' : errorQueue'[i].failures <= failed[q]
    <3> SUFFICES ASSUME NEW i \in Reported(q)' PROVE errorQueue'[i].failures <= failed[q]
      OBVIOUS
    <3>1. CASE e.query = q /\ errorQueue'[i].failures = e.failures
      BY <2>1, <2>9, <3>1 DEF ReportsBacked
    <3>2. CASE \E j \in Reported(q) : errorQueue'[i].failures = errorQueue[j].failures
      BY <3>2 DEF ReportsBacked
    <3> QED
      BY <2>2, <3>1, <3>2
  <2>12. \A v \in Pending(q)' : worker'[v].failures <= failed[q]
    <3> SUFFICES ASSUME NEW v \in Pending(q)' PROVE worker'[v].failures <= failed[q]
      OBVIOUS
    <3>1. v \in Pending(q) /\ v \in Workers /\ Thread(v, "reporting")'
      BY <2>5 DEF Pending
    <3> QED
      BY <1>4, <3>1 DEF ReportsBacked
  <2> QED
    BY <1>2, <2>7, <2>10, <2>11, <2>12 DEF ReportsBacked
<1> QED
  BY <1>5, <1>6 DEF Report

\* Every other step brings no thread closer to a report.
LEMMA OtherStepsQuiet ==
    ASSUME IInv, [Next]_vars
    PROVE  NoNewReport \/ \E w \in Workers : FailScheduled(w) \/ Report(w)
<1> SUFFICES ASSUME ~ \E w \in Workers : FailScheduled(w) \/ Report(w) PROVE NoNewReport
  OBVIOUS
<1>1. /\ worker \in [Workers -> WorkerType] /\ task \in [TaskIds -> TaskType]
      /\ \A v \in Workers : Thread(v, "reporting") =>
            worker[v].task \in TaskIds /\ TaskOf(v).state = "running"
  BY DEF IInv, TypeOK, OneThreadPerTask
<1>2. ASSUME NEW t \in TaskIds,
             \/ \E k \in Keys, a \in MaxAges : RequestExecution(t, k, a)
             \/ \E k \in Keys, q \in Queries : EnqueueScheduled(t, q, k)
             \/ LoadError(t)
      PROVE  NoNewReport
  <2>1. worker' = worker /\ errorQueue' = errorQueue /\ failed' = failed
    BY <1>2 DEF RequestExecution, EnqueueScheduled, LoadError
  <2>2. task[t].state \in {"free", "queued"}
    BY <1>2 DEF RequestExecution, EnqueueScheduled, LoadError, Enqueue
  <2>3. \A u \in TaskIds \ {t} : task'[u] = task[u]
    BY <1>1, <1>2 DEF RequestExecution, EnqueueScheduled, LoadError, Enqueue
  <2>4. \A v \in Workers : Thread(v, "reporting") => worker[v].task \in TaskIds \ {t}
    BY <1>1, <2>2
  <2> QED
    BY <2>1, <2>3, <2>4 DEF NoNewReport
<1>3. ASSUME NEW w \in Workers,
             \/ \E t \in TaskIds : Start(w, t)
             \/ Store(w) \/ Commit(w) \/ Return(w) \/ FailUnscheduled(w)
      PROVE  NoNewReport
  <2>1. errorQueue' = errorQueue /\ failed' = failed
    BY <1>3 DEF Start, Store, Commit, Return, FailUnscheduled
  <2>2. \A v \in Workers \ {w} : worker'[v] = worker[v]
    BY <1>1, <1>3 DEF Start, Store, Commit, Return, FailUnscheduled, EndTask
  <2>3. worker'[w].phase # "reporting"
    <3>1. CASE \E t \in TaskIds : Start(w, t)
      BY <1>1, <3>1 DEF Start, Idle
    <3>2. CASE Store(w)
      BY <1>1, <3>2 DEF Store, WorkerType
    <3>3. CASE Commit(w)
      BY <1>1, <3>3 DEF Commit, WorkerType
    <3>4. CASE Return(w) \/ FailUnscheduled(w)
      BY <1>1, <3>4 DEF Return, FailUnscheduled, EndTask, Idle
    <3> QED
      BY <1>3, <3>1, <3>2, <3>3, <3>4
  <2>4. \A t \in TaskIds : task'[t].query = task[t].query
    <3>1. CASE \E t \in TaskIds : Start(w, t)
      BY <1>1, <3>1 DEF Start, Dequeue, TaskType
    <3>2. CASE Store(w) \/ Commit(w)
      BY <3>2 DEF Store, Commit
    <3>3. CASE Return(w) \/ FailUnscheduled(w)
      <4>1. \E s \in {"done", "failed"} : task' = [task EXCEPT ![worker[w].task].state = s]
        BY <3>3 DEF Return, FailUnscheduled, EndTask
      <4> QED
        BY <1>1, <4>1 DEF TaskType
    <3> QED
      BY <1>3, <3>1, <3>2, <3>3
  <2> QED
    BY <1>1, <2>1, <2>2, <2>3, <2>4 DEF NoNewReport
<1>4. CASE Crash
  BY <1>4 DEF Crash, Idle, NoNewReport
<1>5. ASSUME \/ Tick \/ ForkAbort \/ CleanupUnusedResults \/ UNCHANGED vars
             \/ \E q \in Queries, k \in Keys : Edit(q, k)
             \/ \E q \in Queries, r \in TaskIds \cup {None} :
                   Attach(q, r) \/ \E k \in Keys : Create(q, k, r)
             \/ \E q \in Queries : ForkRead(q) \/ ForkCommit(q)
      PROVE  NoNewReport
  <2>1. worker' = worker /\ task' = task /\ errorQueue' = errorQueue /\ failed' = failed
    BY <1>5 DEF Tick, ForkAbort, CleanupUnusedResults, vars, Edit, Attach, Create, ForkRead,
                ForkCommit
  <2> QED
    BY <2>1 DEF NoNewReport
<1> QED
  BY <1>2, <1>3, <1>4, <1>5 DEF Next

LEMMA NextReports == ReportsInv /\ [Next]_vars => ReportsInv'
<1> SUFFICES ASSUME ReportsInv, [Next]_vars PROVE ReportsInv'
  OBVIOUS
<1>1. IInv /\ IInv' /\ \A q \in Queries : ReportsBacked(q)
  BY NextIInv DEF ReportsInv
<1>2. ASSUME NEW q \in Queries PROVE ReportsBacked(q)'
  BY <1>1, OtherStepsQuiet, QuietReports, FailReports, PushReports
<1> QED
  BY <1>1, <1>2 DEF ReportsInv

LEMMA BackedReportsHappened == ReportsInv => NotifiedFailuresHappened
<1> SUFFICES ASSUME ReportsInv, NEW q \in Queries
             PROVE  /\ Cardinality(Reported(q)) <= failed[q]
                    /\ \A i \in DOMAIN errorQueue :
                          errorQueue[i].query = q => errorQueue[i].failures <= failed[q]
  BY DEF NotifiedFailuresHappened, Reported
<1>1. ReportsBacked(q)
  BY DEF ReportsInv
<1>2. Cardinality(Reported(q)) \in Nat /\ failed[q] \in Nat
  BY ReportedFinite DEF ReportsInv, IInv, TypeOK
<1>3. Cardinality(Pending(q)) \in Nat
  BY <1>1, FS_CardinalityType DEF ReportsBacked
<1>4. Cardinality(Reported(q)) <= failed[q]
  BY <1>1, <1>2, <1>3 DEF ReportsBacked
<1> QED
  BY <1>1, <1>4 DEF ReportsBacked, Reported

-----------------------------------------------------------------------------
(* The theorems *)

\* The variables keep their types, and no two threads ever execute the same task.
THEOREM TypeCorrect == Spec => []TypeOK
<1>1. IInv => TypeOK
  BY DEF IInv
<1>. QED
  BY <1>1, Invariance, PTL

(***************************************************************************)
(* Whatever the cleanup task deletes while executions end, queries are     *)
(* created, edited and forked, the latest result of a query exists.        *)
(***************************************************************************)
THEOREM NoDanglingResult == Spec => []LatestExists
<1>1. IInv => LatestExists
  BY DEF IInv
<1>. QED
  BY <1>1, Invariance, PTL

(***************************************************************************)
(* A query shows the output of a text and data source it has had, or of a  *)
(* result a client attached to it: update_latest_result never points it at *)
(* anything else, however long before its commit the rows were selected.   *)
(***************************************************************************)
THEOREM ResultsOfOwnText == Spec => []LatestOfOwnKey
<1>1. IInv => LatestOfOwnKey
  BY DEF IInv
<1>. QED
  BY <1>1, Invariance, PTL

(***************************************************************************)
(* The read-modify-write in track_query_error can lose failures but never  *)
(* invents one.                                                            *)
(***************************************************************************)
THEOREM FailuresNeverInvented == Spec => []NeverOvercounted
<1>1. IInv => NeverOvercounted
  BY DEF IInv
<1>. QED
  BY <1>1, Invariance, PTL

(***************************************************************************)
(* ... and where the executions of a query never overlap it loses none.    *)
(***************************************************************************)
THEOREM SerialFailuresAllCounted == Spec => []SerialCountsExact
<1>1. IInv => SerialCountsExact
  BY DEF IInv
<1>. QED
  BY <1>1, Invariance, PTL
(***************************************************************************)
(* However many threads fail at once and whenever the worker dies between  *)
(* counting a failure and pushing it, an owner is told of no more failures *)
(* than were counted, and of no count that was not reached.                *)
(***************************************************************************)
THEOREM ReportedFailuresHappened == Spec => []NotifiedFailuresHappened
BY InitReports, NextReports, BackedReportsHappened, PTL DEF Spec
=============================================================================
