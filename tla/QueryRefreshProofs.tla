------------------------- MODULE QueryRefreshProofs -------------------------
(***************************************************************************)
(* Proofs about QueryRefresh, for any number of queries and of concurrent  *)
(* passes, whatever users save.                                            *)
(***************************************************************************)
EXTENDS QueryRefresh, TLAPS

USE CountAssumption, TextsAssumption, SavedAssumption, BoundsAssumption

\* No running task is going to replace a safe schedule
SafeFromTasks ==
    \A q \in safe :
        /\ q \notin emptying
        /\ \A p \in Threads : q \in DOMAIN pass[p].rows => pass[p].rows[q] # "disable"

IInv ==
    /\ TypeOK
    /\ SavedScheduleStays
    /\ SafeFromTasks

-----------------------------------------------------------------------------
(* The rows a pass has yet to examine *)

\* All of them, when the pass begins.
LEMMA AllRows ==
    ASSUME NEW f \in [Queries -> Verdicts]
    PROVE  f \in RowsType
BY 1 \in 1 .. Count + 1 DEF RowsType, Queries

\* None of them, when it is over.
LEMMA NoRows == <<>> \in RowsType
<1>1. <<>> \in [Count + 1 .. Count -> Verdicts]
  OBVIOUS
<1>. QED
  BY <1>1, Count + 1 \in 1 .. Count + 1 DEF RowsType

\* The row that is examined is the first one, and those behind it remain.
LEMMA RemainingRows ==
    ASSUME NEW rows \in RowsType, NEW q \in DOMAIN rows, \A r \in DOMAIN rows : q <= r
    PROVE  /\ q \in Queries
           /\ [r \in q + 1 .. Count |-> rows[r]] \in RowsType
           /\ \A r \in q + 1 .. Count : r \in DOMAIN rows
<1>1. PICK i \in 1 .. Count + 1 : rows \in [i .. Count -> Verdicts]
  BY DEF RowsType
<1>2. DOMAIN rows = i .. Count /\ q \in i .. Count
  BY <1>1
<1>3. q = i /\ q + 1 \in 1 .. Count + 1
  BY <1>1, <1>2
<1>4. [r \in q + 1 .. Count |-> rows[r]] \in [q + 1 .. Count -> Verdicts]
  BY <1>1, <1>2, <1>3
<1>. QED
  BY <1>2, <1>3, <1>4 DEF RowsType, Queries
-----------------------------------------------------------------------------
(* The inductive invariant *)

\* It holds initially.
LEMMA InitIInv == Init => IInv
<1>. SUFFICES ASSUME Init PROVE IInv
  OBVIOUS
<1>1. NoPass \in PassType
  BY NoRows DEF NoPass, PassType
<1>2. TypeOK
  BY <1>1 DEF Init, TypeOK, Schedules, Results, OnePerKey, NoPass
<1>. QED
  BY <1>2 DEF Init, IInv, SavedScheduleStays, SafeFromTasks

\* The pass after a row: the rows it has yet to examine are among those it had.
LEMMA ProceedFacts ==
    ASSUME TypeOK, NEW p \in Threads, NEW q \in Queries, NEW verdict,
           Examining(p, q, verdict), NEW outdated \in SUBSET Queries, Proceed(p, q, outdated)
    PROVE  /\ pass' \in [Threads -> PassType]
           /\ pass'[p].outdated = outdated
           /\ \A r \in DOMAIN pass'[p].rows :
                 r \in DOMAIN pass[p].rows /\ pass'[p].rows[r] = pass[p].rows[r]
           /\ \A o \in Threads \ {p} : pass'[o] = pass[o]
<1>1. pass[p] \in PassType /\ pass \in [Threads -> PassType]
  BY DEF TypeOK
<1>2. pass[p].rows \in RowsType
  BY <1>1 DEF PassType
<1>. DEFINE rest == [r \in q + 1 .. Count |-> pass[p].rows[r]]
<1>3. rest \in RowsType /\ \A r \in q + 1 .. Count : r \in DOMAIN pass[p].rows
  BY <1>2, RemainingRows DEF Examining
<1>4. [pass[p] EXCEPT !.rows = rest, !.outdated = outdated] \in PassType
  BY <1>1, <1>3 DEF PassType
<1>5. pass' = [pass EXCEPT ![p] = [pass[p] EXCEPT !.rows = rest, !.outdated = outdated]]
  BY <1>1 DEF Proceed, PassType
<1>6. pass'[p] = [pass[p] EXCEPT !.rows = rest, !.outdated = outdated]
  BY <1>1, <1>5
<1>7. pass'[p].rows = rest /\ pass'[p].outdated = outdated
  BY <1>1, <1>6 DEF PassType
<1>. QED
  BY <1>1, <1>3, <1>4, <1>5, <1>7

\* What is common to the steps that examine a row.
LEMMA ExamineIInv ==
    ASSUME IInv, NEW p \in Threads, NEW q \in Queries, NEW verdict,
           Examining(p, q, verdict), NEW outdated \in SUBSET Queries, Proceed(p, q, outdated),
           \A r, o \in outdated : key[r] = key[o] => r = o,
           \/ UNCHANGED schedule
           \/ verdict = "disable" /\ schedule' = [schedule EXCEPT ![q] = "disabled"],
           UNCHANGED <<fixed, result, emptying, queued, trouble, safe>>
    PROVE  IInv'
<1>. TypeOK /\ SavedScheduleStays /\ SafeFromTasks
  BY DEF IInv
<1>1. /\ pass' \in [Threads -> PassType]
      /\ pass'[p].outdated = outdated
      /\ \A r \in DOMAIN pass'[p].rows :
            r \in DOMAIN pass[p].rows /\ pass'[p].rows[r] = pass[p].rows[r]
      /\ \A o \in Threads \ {p} : pass'[o] = pass[o]
  BY ProceedFacts
<1>2. schedule' \in [Queries -> Schedules]
  BY DEF TypeOK, Schedules
<1>3. TypeOK'
  BY <1>1, <1>2 DEF TypeOK, OnePerKey, fixed
<1>4. SafeFromTasks'
  BY <1>1 DEF SafeFromTasks
<1>5. SavedScheduleStays'
  BY DEF SavedScheduleStays, SafeFromTasks, TypeOK, Examining
<1>. QED
  BY <1>3, <1>4, <1>5 DEF IInv

\* The steps that examine a row.
LEMMA RowIInv ==
    ASSUME IInv, NEW p \in Threads, NEW q \in Queries,
           Disable(p, q) \/ Skip(p, q) \/ Collect(p, q)
    PROVE  IInv'
<1>. TypeOK
  BY DEF IInv
<1>1. pass[p].outdated \in SUBSET Queries /\ \A r, o \in pass[p].outdated : key[r] = key[o] => r = o
  BY DEF TypeOK, PassType, OnePerKey
<1>2. CASE Disable(p, q)
  BY <1>1, <1>2, ExamineIInv DEF Disable
<1>3. CASE Skip(p, q)
  BY <1>1, <1>3, ExamineIInv DEF Skip
<1>4. CASE Collect(p, q)
  <2>. DEFINE outdated == {q} \cup { r \in pass[p].outdated : ~Replaces(q, r) }
  <2>1. outdated \in SUBSET Queries /\ \A r, o \in outdated : key[r] = key[o] => r = o
    BY <1>1 DEF Replaces
  <2>2. /\ Examining(p, q, "collect")
        /\ Proceed(p, q, outdated)
        /\ UNCHANGED <<fixed, schedule, result, emptying, queued, trouble, safe>>
    BY <1>4 DEF Collect
  <2>. HIDE DEF outdated
  <2>. QED
    BY <2>1, <2>2, ExamineIInv
<1>. QED
  BY <1>2, <1>3, <1>4

\* What is common to the other steps of a pass: it keeps no row to examine but fresh ones.
LEMMA PassIInv ==
    ASSUME IInv, NEW p \in Threads, NEW record \in PassType,
           pass' = [pass EXCEPT ![p] = record],
           record.outdated \subseteq pass[p].outdated,
           \A q \in safe \cap DOMAIN record.rows : record.rows[q] # "disable",
           queued' \in [Queries -> 0 .. MaxQueued], trouble' \in 0 .. MaxTrouble,
           UNCHANGED <<fixed, schedule, result, emptying, safe>>
    PROVE  IInv'
<1>. TypeOK /\ SavedScheduleStays /\ SafeFromTasks
  BY DEF IInv
<1>1. pass'[p] = record /\ \A o \in Threads \ {p} : pass'[o] = pass[o]
  BY DEF TypeOK
<1>2. TypeOK'
  BY <1>1 DEF TypeOK, OnePerKey, fixed
<1>3. SafeFromTasks' /\ SavedScheduleStays'
  BY <1>1 DEF SafeFromTasks, SavedScheduleStays
<1>. QED
  BY <1>2, <1>3 DEF IInv

\* Loading: the schedules that are safe are set, so the pass will not disable them.
LEMMA LoadIInv ==
    ASSUME IInv, NEW p \in Threads, Load(p)
    PROVE  IInv'
<1>. TypeOK /\ SavedScheduleStays
  BY DEF IInv
<1>. DEFINE rows == [q \in Queries |-> Verdict(q)]
            record == [phase |-> "examining", outdated |-> {}, rows |-> rows]
<1>1. rows \in [Queries -> Verdicts]
  BY DEF Verdict, Verdicts
<1>2. record \in PassType
  BY <1>1, AllRows DEF PassType
<1>3. \A q \in safe \cap DOMAIN record.rows : record.rows[q] # "disable"
  BY DEF SavedScheduleStays, Verdict, Raises, Aborts
<1>4. queued' \in [Queries -> 0 .. MaxQueued] /\ trouble' \in 0 .. MaxTrouble
  BY DEF Load, TypeOK
<1>5. pass' = [pass EXCEPT ![p] = record] /\ record.outdated \subseteq pass[p].outdated
      /\ UNCHANGED <<fixed, schedule, result, emptying, safe>>
  BY DEF Load
<1>. HIDE DEF record
<1>. QED
  BY <1>2, <1>3, <1>4, <1>5, PassIInv

\* A pass that is over has no rows to examine.
LEMMA NoPassType == NoPass \in PassType /\ NoPass.outdated = {} /\ DOMAIN NoPass.rows = {}
<1>1. NoPass \in PassType
  BY NoRows DEF NoPass, PassType
<1>2. DOMAIN NoPass.rows = {} /\ NoPass.outdated = {}
  BY DEF NoPass
<1>. QED
  BY <1>1, <1>2

\* The steps that end a pass.
LEMMA EndIInv ==
    ASSUME IInv, NEW p \in Threads, Finish(p) \/ \E q \in Queries : Abort(p, q)
    PROVE  IInv'
<1>1. /\ pass' = [pass EXCEPT ![p] = NoPass]
      /\ UNCHANGED <<fixed, schedule, result, emptying, queued, trouble, safe>>
  BY DEF Finish, Abort
<1>2. queued' \in [Queries -> 0 .. MaxQueued] /\ trouble' \in 0 .. MaxTrouble
  BY <1>1 DEF IInv, TypeOK
<1>. QED
  BY <1>1, <1>2, NoPassType, PassIInv

\* The rows are left behind.
LEMMA ExaminedIInv ==
    ASSUME IInv, NEW p \in Threads, Examined(p)
    PROVE  IInv'
<1>. TypeOK /\ SafeFromTasks
  BY DEF IInv
<1>. DEFINE record == [pass[p] EXCEPT !.phase = "enqueueing"]
<1>1. pass[p] \in PassType
  BY DEF TypeOK
<1>2. record \in PassType /\ record.outdated = pass[p].outdated /\ record.rows = pass[p].rows
  BY <1>1 DEF PassType
<1>3. pass' = [pass EXCEPT ![p] = record]
      /\ UNCHANGED <<fixed, schedule, result, emptying, queued, trouble, safe>>
  BY DEF Examined
<1>4. \A q \in safe \cap DOMAIN record.rows : record.rows[q] # "disable"
  BY <1>2 DEF SafeFromTasks
<1>5. queued' \in [Queries -> 0 .. MaxQueued] /\ trouble' \in 0 .. MaxTrouble
  BY <1>3 DEF TypeOK
<1>. HIDE DEF record
<1>. QED
  BY <1>2, <1>3, <1>4, <1>5, PassIInv

\* An outdated query is enqueued or refused.
LEMMA EnqueueIInv ==
    ASSUME IInv, NEW p \in Threads, NEW q \in Queries, Enqueue(p, q) \/ Refuse(p, q)
    PROVE  IInv'
<1>. TypeOK /\ SafeFromTasks
  BY DEF IInv
<1>. DEFINE record == [pass[p] EXCEPT !.outdated = pass[p].outdated \ {q}]
<1>1. pass[p] \in PassType
  BY DEF TypeOK
<1>2. record \in PassType /\ record.outdated \subseteq pass[p].outdated
      /\ record.rows = pass[p].rows
  BY <1>1 DEF PassType
<1>3. pass' = [pass EXCEPT ![p] = record]
      /\ UNCHANGED <<fixed, schedule, result, emptying, safe>>
  BY DEF Enqueue, Refuse, Forget
<1>4. \A r \in safe \cap DOMAIN record.rows : record.rows[r] # "disable"
  BY <1>2 DEF SafeFromTasks
<1>5. queued' \in [Queries -> 0 .. MaxQueued]
  BY DEF TypeOK, Enqueue, Refuse
<1>6. trouble' \in 0 .. MaxTrouble
  BY DEF TypeOK, Enqueue, Refuse
<1>. HIDE DEF record
<1>. QED
  BY <1>2, <1>3, <1>4, <1>5, <1>6, PassIInv

\* Every pass is aborted.
LEMMA DieIInv ==
    ASSUME IInv, Die
    PROVE  IInv'
<1>. TypeOK /\ SavedScheduleStays
  BY DEF IInv
<1>1. pass' \in [Threads -> PassType] /\ \A p \in Threads : pass'[p] = NoPass
  BY NoPassType DEF Die
<1>2. TypeOK'
  BY <1>1, NoPassType DEF Die, TypeOK, OnePerKey, fixed
<1>. QED
  BY <1>1, <1>2, NoPassType DEF Die, IInv, SavedScheduleStays, SafeFromTasks

\* The steps of the other task and of the users, of executions and of time.
LEMMA OtherIInv ==
    ASSUME IInv,
           \/ FindEnded \/ EmptySchedules
           \/ \E q \in Queries :
                \/ \E s \in Saved : Save(q, s)
                \/ End(q) \/ Age(q) \/ Succeed(q) \/ Fail(q) \/ Execute(q)
    PROVE  IInv'
<1>. TypeOK /\ SavedScheduleStays /\ SafeFromTasks
  BY DEF IInv
<1>. USE DEF IInv, TypeOK, OnePerKey, SavedScheduleStays, SafeFromTasks, fixed, Schedules, Results
<1>1. CASE FindEnded
  BY <1>1 DEF FindEnded
<1>2. CASE EmptySchedules
  BY <1>2 DEF EmptySchedules
<1>3. ASSUME NEW q \in Queries, NEW s \in Saved, Save(q, s)
      PROVE  IInv'
  BY <1>3 DEF Save, Endangered
<1>4. ASSUME NEW q \in Queries, End(q) \/ Age(q)
      PROVE  IInv'
  BY <1>4 DEF End, Age
<1>5. ASSUME NEW q \in Queries, Succeed(q) \/ Fail(q) \/ Execute(q)
      PROVE  IInv'
  BY <1>5 DEF Succeed, Fail, Execute
<1>. QED
  BY <1>1, <1>2, <1>3, <1>4, <1>5

\* Every step preserves the invariant.
LEMMA NextIInv == IInv /\ [Next]_vars => IInv'
<1>. SUFFICES ASSUME IInv, [Next]_vars PROVE IInv'
  OBVIOUS
<1>1. ASSUME NEW p \in Threads, Load(p) \/ Step(p)
      PROVE  IInv'
  BY <1>1, LoadIInv, RowIInv, EndIInv, ExaminedIInv, EnqueueIInv DEF Step
<1>2. CASE Die
  BY <1>2, DieIInv
<1>3. CASE UNCHANGED vars
  BY <1>3 DEF vars, IInv, TypeOK, OnePerKey, SavedScheduleStays, SafeFromTasks
<1>. QED
  BY <1>1, <1>2, <1>3, OtherIInv DEF Next

LEMMA Invariance == Spec => []IInv
BY InitIInv, NextIInv, PTL DEF Spec

-----------------------------------------------------------------------------
(* The theorems *)

(***************************************************************************)
(* The variables keep their types, and a pass enqueues at most one query   *)
(* for each text and data source, however many passes overlap.             *)
(***************************************************************************)
THEOREM TypeCorrect == Spec => []TypeOK
<1>1. IInv => TypeOK
  BY DEF IInv
<1>. QED
  BY <1>1, Invariance, PTL

(***************************************************************************)
(* A well-formed schedule that is saved when no running task has loaded a  *)
(* predecessor it is going to replace stays until it ends: the schedules   *)
(* that are lost are those saved while such a task is under way.           *)
(***************************************************************************)
THEOREM SavedScheduleNotLost == Spec => []SavedScheduleStays
<1>1. IInv => SavedScheduleStays
  BY DEF IInv
<1>. QED
  BY <1>1, Invariance, PTL
=============================================================================
