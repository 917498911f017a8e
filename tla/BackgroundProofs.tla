-------------------------- MODULE BackgroundProofs --------------------------
(***************************************************************************)
(* Proofs about JobStatus, for every number of jobs and every life time of *)
(* answers and results that satisfies the assumptions, and FailureReports, *)
(* for every number of owners, errors, passes and deaths of passes,        *)
(* DataSources, for every number of sources, threads and changes, and the  *)
(* three of them next to ScheduledQuery.                                   *)
(***************************************************************************)
EXTENDS MCBackground, ScheduledQueryProofs

-----------------------------------------------------------------------------
(* JobStatus *)

\* The times of a result and of the answer that names it
AnsweredInTime(j) ==
    /\ job[j].phase \in {"stored", "done"} =>
          /\ job[j].retrieved <= time
          /\ j \in stored \/ source[j] \in dropped \/ time - job[j].retrieved > CleanupAge
    /\ job[j].phase = "stored" => time <= job[j].retrieved + MaxDelay
    /\ answer[j] # NoAnswer => answer[j].at <= time

\* Only a job that is done has an answer with an id, given soon after the result was retrieved
Answered(j) ==
    /\ answer[j].value = "id" =>
          /\ job[j].phase = "done"
          /\ answer[j].at <= job[j].retrieved + MaxDelay
    /\ job[j].phase \in {"new", "queued", "running", "stored"} => answer[j] = NoAnswer

\* Clients know of results by their answers alone
HeardOf(j) ==
    /\ heard[j] \in {"FINISHED", "result", "404"} => answer[j].value = "id"
    /\ heard[j] = "404" => j \notin stored
    /\ source[j] \in dropped => j \notin stored

JobInv == JobTypeOK /\ \A j \in Jobs : AnsweredInTime(j) /\ Answered(j) /\ HeardOf(j)

-----------------------------------------------------------------------------
\* No job has been asked for in the beginning.
LEMMA JobInitInv == JobInit => JobInv
  BY LifeAssumption
     DEF JobInit, JobInv, JobTypeOK, AnsweredInTime, Answered, HeardOf, At, NoAnswer, Moments

\* Steps of other jobs change nothing for this one.
LEMMA OtherJobs ==
    ASSUME NEW j \in Jobs, AnsweredInTime(j), Answered(j), HeardOf(j),
           source' = source, dropped' = dropped,
           job'[j] = job[j], answer'[j] = answer[j], j \in stored' <=> j \in stored,
           heard'[j] = heard[j], time' = time
    PROVE  AnsweredInTime(j)' /\ Answered(j)' /\ HeardOf(j)'
  BY DEF AnsweredInTime, Answered, HeardOf

\* A result named by an answer still alive is too young for the cleanup; only with its source it goes.
LEMMA FinishedIsStored ==
    ASSUME JobInv, NEW j \in Jobs, Status(j) = "FINISHED"
    PROVE  (j \in stored \/ source[j] \in dropped) /\ answer[j].value = "id"
<1>1. JobTypeOK /\ AnsweredInTime(j) /\ Answered(j)
  BY DEF JobInv
<1>2. answer[j] # NoAnswer /\ time < answer[j].at + AnswerLife /\ answer[j].value = "id"
  BY DEF Status, Readable
<1>3. job[j].phase = "done" /\ answer[j].at <= job[j].retrieved + MaxDelay
  BY <1>1, <1>2 DEF Answered
<1>4. answer[j].at \in Nat /\ job[j].retrieved \in Nat /\ time \in Nat
  BY <1>1, <1>2, <1>3, LifeAssumption DEF JobTypeOK, Moments, NoAnswer
<1>5. ~(time - job[j].retrieved > CleanupAge)
  BY <1>2, <1>3, <1>4, LifeAssumption, CleanupAssumption
<1> QED
  BY <1>1, <1>2, <1>3, <1>5 DEF AnsweredInTime

\* Every step keeps the times, the answers and what clients have heard of them.
LEMMA JobInvStep == JobInv /\ [JobNext]_jobVars => JobInv'
<1> SUFFICES ASSUME JobInv, [JobNext]_jobVars PROVE JobInv'
  OBVIOUS
<1>0. JobTypeOK /\ \A j \in Jobs : AnsweredInTime(j) /\ Answered(j) /\ HeardOf(j)
  BY DEF JobInv
<1>1. CASE UNCHANGED jobVars
  BY <1>0, <1>1 DEF jobVars, JobInv, JobTypeOK, AnsweredInTime, Answered, HeardOf
<1>2. ASSUME NEW j \in Jobs, Ask(j) PROVE JobInv'
  <2>1. JobTypeOK'
    BY <1>0, <1>2 DEF Ask, JobTypeOK, At
  <2>2. \A i \in Jobs \ {j} : AnsweredInTime(i)' /\ Answered(i)' /\ HeardOf(i)'
    BY <1>0, <1>2, OtherJobs DEF Ask, JobTypeOK
  <2>3. AnsweredInTime(j)' /\ Answered(j)' /\ HeardOf(j)'
    BY <1>0, <1>2 DEF Ask, JobTypeOK, AnsweredInTime, Answered, HeardOf, At
  <2> QED
    BY <2>1, <2>2, <2>3 DEF JobInv
<1>3. ASSUME NEW j \in Jobs, StartJob(j) PROVE JobInv'
  <2>1. JobTypeOK'
    BY <1>0, <1>3 DEF StartJob, JobTypeOK, At
  <2>2. \A i \in Jobs \ {j} : AnsweredInTime(i)' /\ Answered(i)' /\ HeardOf(i)'
    BY <1>0, <1>3, OtherJobs DEF StartJob, JobTypeOK
  <2>3. AnsweredInTime(j)' /\ Answered(j)' /\ HeardOf(j)'
    BY <1>0, <1>3 DEF StartJob, JobTypeOK, AnsweredInTime, Answered, HeardOf, At
  <2> QED
    BY <2>1, <2>2, <2>3 DEF JobInv
<1>4. ASSUME NEW j \in Jobs, StoreResult(j) PROVE JobInv'
  <2>1. JobTypeOK'
    BY <1>0, <1>4 DEF StoreResult, JobTypeOK, At
  <2>2. \A i \in Jobs \ {j} : AnsweredInTime(i)' /\ Answered(i)' /\ HeardOf(i)'
    BY <1>0, <1>4, OtherJobs DEF StoreResult, JobTypeOK
  <2>3. job'[j] = [phase |-> "stored", retrieved |-> time] /\ j \in stored'
    BY <1>0, <1>4 DEF StoreResult, JobTypeOK
  <2>4. job[j].phase = "running" /\ source[j] \notin dropped /\ UNCHANGED <<source, dropped, answer, heard, time>>
    BY <1>4 DEF StoreResult, At
  <2>5. answer[j] = NoAnswer
    BY <1>0, <2>4 DEF Answered
  <2>6. time <= time + MaxDelay
    BY <1>0, LifeAssumption DEF JobTypeOK, Moments
  <2>7. AnsweredInTime(j)' /\ Answered(j)' /\ HeardOf(j)'
    BY <1>0, <2>3, <2>4, <2>5, <2>6, LifeAssumption
       DEF JobTypeOK, Moments, AnsweredInTime, Answered, HeardOf, NoAnswer
  <2> QED
    BY <2>1, <2>2, <2>7 DEF JobInv
<1>5. ASSUME NEW j \in Jobs, RaiseError(j) PROVE JobInv'
  <2>1. JobTypeOK'
    BY <1>0, <1>5 DEF RaiseError, JobTypeOK, At
  <2>2. \A i \in Jobs \ {j} : AnsweredInTime(i)' /\ Answered(i)' /\ HeardOf(i)'
    BY <1>0, <1>5, OtherJobs DEF RaiseError, JobTypeOK
  <2>3. job'[j] = At("failed") /\ answer'[j] = [value |-> "error", at |-> time]
    BY <1>0, <1>5 DEF RaiseError, JobTypeOK
  <2>4. answer[j] = NoAnswer /\ time \in Nat
    BY <1>0, <1>5, LifeAssumption DEF RaiseError, Answered, At, JobTypeOK, Moments
  <2>5. AnsweredInTime(j)' /\ Answered(j)' /\ HeardOf(j)'
    BY <1>0, <1>5, <2>3, <2>4 DEF RaiseError, AnsweredInTime, Answered, HeardOf, At, NoAnswer
  <2> QED
    BY <2>1, <2>2, <2>5 DEF JobInv
<1>6. ASSUME NEW j \in Jobs, Answer(j) PROVE JobInv'
  <2>0. job[j].retrieved \in Moments /\ job[j].phase = "stored" /\ time \in Nat
    BY <1>0, <1>6, LifeAssumption DEF Answer, JobTypeOK, Moments
  <2>1. JobTypeOK'
    BY <1>0, <1>6 DEF Answer, JobTypeOK
  <2>2. \A i \in Jobs \ {j} : AnsweredInTime(i)' /\ Answered(i)' /\ HeardOf(i)'
    BY <1>0, <1>6, OtherJobs DEF Answer, JobTypeOK
  <2>3. /\ job'[j].phase = "done" /\ job'[j].retrieved = job[j].retrieved
        /\ answer'[j] = [value |-> "id", at |-> time]
    BY <1>0, <1>6, <2>0 DEF Answer, JobTypeOK
  <2>4. AnsweredInTime(j)' /\ Answered(j)' /\ HeardOf(j)'
    BY <1>0, <1>6, <2>0, <2>3 DEF Answer, AnsweredInTime, Answered, HeardOf, NoAnswer
  <2> QED
    BY <2>1, <2>2, <2>4 DEF JobInv
<1>7. ASSUME NEW j \in Jobs, LoseJob(j) PROVE JobInv'
  <2>1. JobTypeOK'
    BY <1>0, <1>7 DEF LoseJob, JobTypeOK, At
  <2>2. \A i \in Jobs \ {j} : AnsweredInTime(i)' /\ Answered(i)' /\ HeardOf(i)'
    BY <1>0, <1>7, OtherJobs DEF LoseJob, JobTypeOK
  <2>3. job'[j] = At("lost") /\ answer[j] = NoAnswer
    BY <1>0, <1>7 DEF LoseJob, JobTypeOK, Answered
  <2>4. AnsweredInTime(j)' /\ Answered(j)' /\ HeardOf(j)'
    BY <1>0, <1>7, <2>3 DEF LoseJob, AnsweredInTime, Answered, HeardOf, At, NoAnswer
  <2> QED
    BY <2>1, <2>2, <2>4 DEF JobInv
<1>8. ASSUME NEW j \in Jobs, Poll(j) PROVE JobInv'
  <2>0. Status(j) \in {"STARTED", "FINISHED", "500"}
    BY DEF Status
  <2>1. JobTypeOK'
    BY <1>0, <1>8, <2>0 DEF Poll, JobTypeOK
  <2>2. \A i \in Jobs \ {j} : AnsweredInTime(i)' /\ Answered(i)' /\ HeardOf(i)'
    BY <1>0, <1>8, OtherJobs DEF Poll, JobTypeOK
  <2>3. heard'[j] = Status(j)
    BY <1>0, <1>8 DEF Poll, JobTypeOK
  <2>4. heard'[j] # "404" /\ (heard'[j] = "FINISHED" => answer[j].value = "id")
    BY <2>0, <2>3, FinishedIsStored
  <2>5. AnsweredInTime(j)' /\ Answered(j)' /\ HeardOf(j)'
    BY <1>0, <1>8, <2>0, <2>3, <2>4 DEF Poll, AnsweredInTime, Answered, HeardOf
  <2> QED
    BY <2>1, <2>2, <2>5 DEF JobInv
<1>9. ASSUME NEW j \in Jobs, FetchResult(j) PROVE JobInv'
  <2>1. JobTypeOK'
    BY <1>0, <1>9 DEF FetchResult, JobTypeOK
  <2>2. \A i \in Jobs \ {j} : AnsweredInTime(i)' /\ Answered(i)' /\ HeardOf(i)'
    BY <1>0, <1>9, OtherJobs DEF FetchResult, JobTypeOK
  <2>3. heard'[j] = IF j \in stored THEN "result" ELSE "404"
    BY <1>0, <1>9 DEF FetchResult, JobTypeOK
  <2>4. AnsweredInTime(j)' /\ Answered(j)' /\ HeardOf(j)'
    BY <1>0, <1>9, <2>3 DEF FetchResult, AnsweredInTime, Answered, HeardOf
  <2> QED
    BY <2>1, <2>2, <2>4 DEF JobInv
<1>10. ASSUME NEW j \in Jobs, CleanupResults(j) PROVE JobInv'
  <2>1. JobTypeOK'
    BY <1>0, <1>10 DEF CleanupResults, JobTypeOK
  <2>2. \A i \in Jobs \ {j} : AnsweredInTime(i)' /\ Answered(i)' /\ HeardOf(i)'
    BY <1>0, <1>10, OtherJobs DEF CleanupResults, JobTypeOK
  <2>3. AnsweredInTime(j)' /\ Answered(j)' /\ HeardOf(j)'
    BY <1>0, <1>10 DEF CleanupResults, OldEnough, AnsweredInTime, Answered, HeardOf
  <2> QED
    BY <2>1, <2>2, <2>3 DEF JobInv
<1>12. ASSUME NEW j \in Jobs, Refuse(j) PROVE JobInv'
  <2>1. JobTypeOK'
    BY <1>0, <1>12 DEF Refuse, JobTypeOK
  <2>2. \A i \in Jobs \ {j} : AnsweredInTime(i)' /\ Answered(i)' /\ HeardOf(i)'
    BY <1>0, <1>12, OtherJobs DEF Refuse, JobTypeOK
  <2>3. heard'[j] = "refused"
    BY <1>0, <1>12 DEF Refuse, JobTypeOK
  <2>4. AnsweredInTime(j)' /\ Answered(j)' /\ HeardOf(j)'
    BY <1>0, <1>12, <2>3 DEF Refuse, AnsweredInTime, Answered, HeardOf
  <2> QED
    BY <2>1, <2>2, <2>4 DEF JobInv
<1>13. ASSUME NEW d \in JobSources, DropSource(d) PROVE JobInv'
  <2>1. UNCHANGED <<source, job, answer, heard, time>>
    BY <1>13 DEF DropSource
  <2>2. JobTypeOK'
    BY <1>0, <1>13, <2>1 DEF DropSource, JobTypeOK, Moments
  <2>3. ASSUME NEW j \in Jobs PROVE AnsweredInTime(j)' /\ Answered(j)' /\ HeardOf(j)'
    <3>1. source[j] \in dropped' <=> source[j] \in dropped \/ source[j] = d
      BY <1>13 DEF DropSource
    <3>2. j \in stored' <=> j \in stored /\ source[j] # d
      BY <1>13 DEF DropSource
    <3>3. AnsweredInTime(j)'
      BY <1>0, <2>1, <3>1, <3>2 DEF AnsweredInTime
    <3>4. Answered(j)' /\ HeardOf(j)'
      BY <1>0, <2>1, <3>1, <3>2 DEF Answered, HeardOf
    <3> QED
      BY <3>3, <3>4
  <2> QED
    BY <2>2, <2>3 DEF JobInv
<1>11. CASE JobTick
  <2>1. time' = time + 1 /\ time \in Nat /\ UNCHANGED <<source, dropped, job, answer, stored, heard>>
    BY <1>0, <1>11, LifeAssumption DEF JobTick, JobTypeOK, Moments
  <2>2. JobTypeOK'
    BY <1>0, <1>11, <2>1, LifeAssumption DEF JobTick, JobTypeOK, Moments
  <2>3. ASSUME NEW j \in Jobs PROVE AnsweredInTime(j)' /\ Answered(j)' /\ HeardOf(j)'
    <3>1. job[j].phase \in {"stored", "done"} => job[j].retrieved \in Nat
      BY <1>0, LifeAssumption DEF JobTypeOK, Moments
    <3>2. answer[j] # NoAnswer => answer[j].at \in Nat
      BY <1>0, LifeAssumption DEF JobTypeOK, Moments
    <3>3. job[j].phase = "stored" => time < job[j].retrieved + MaxDelay
      BY <1>11 DEF JobTick
    <3>4. AnsweredInTime(j)'
      BY <1>0, <2>1, <3>1, <3>2, <3>3, LifeAssumption DEF AnsweredInTime
    <3>5. Answered(j)' /\ HeardOf(j)'
      BY <1>0, <2>1 DEF Answered, HeardOf
    <3> QED
      BY <3>4, <3>5
  <2> QED
    BY <2>2, <2>3 DEF JobInv
<1> QED
  BY <1>1, <1>2, <1>3, <1>4, <1>5, <1>6, <1>7, <1>8, <1>9, <1>10, <1>11, <1>12, <1>13
  DEF JobNext, WorkerStep

\* The invariant is inductive.
LEMMA JobInvariant == JobSpec => []JobInv
  BY JobInitInv, JobInvStep, PTL DEF JobSpec

(***************************************************************************)
(* Jobs, answers and what clients have heard keep their types, whatever    *)
(* workers, clients and the cleanup task do.                               *)
(***************************************************************************)
THEOREM JobTypeCorrect == JobSpec => []JobTypeOK
<1>1. JobInv => JobTypeOK
  BY DEF JobInv
<1> QED
  BY <1>1, JobInvariant, PTL

(***************************************************************************)
(* A job reported FINISHED names a result that is still there              *)
(* (query_results.py:474), unless its data source has been deleted, and no *)
(* result of a deleted source is left (models/datasources.py:117), for any *)
(* number of jobs and sources, if an answer, given within MaxDelay of the  *)
(* result, lives no longer than the cleanup task spares results: the       *)
(* assumption on HUEY_EXPIRE_TIME and QUERY_RESULTS_CLEANUP_MAX_AGE is all *)
(* that is needed.                                                         *)
(***************************************************************************)
THEOREM FinishedJobsHaveResults == JobSpec => []FinishedNamesResult
<1>1. JobInv => FinishedNamesResult
  <2> SUFFICES ASSUME JobInv, NEW j \in Jobs
               PROVE  /\ source[j] \notin dropped =>
                            /\ Status(j) = "FINISHED" => j \in stored
                            /\ heard[j] = "404" => Status(j) # "FINISHED"
                      /\ source[j] \in dropped => j \notin stored
    BY DEF FinishedNamesResult
  <2> QED
    BY FinishedIsStored DEF JobInv, HeardOf
<1> QED
  BY <1>1, JobInvariant, PTL
-----------------------------------------------------------------------------
(* FailureReports *)

\* A mail that is enqueued waits in the outbox until somebody tries to send it
Posted == \A e \in announced : InOutbox(e) \/ e \in mailed

\* What a pass that has read the list of o does not know of was pushed since
KnowsList(r, o) == InHand(r, o) => errorList[o] \subseteq pass[r].errors \cup raced

\* Once the mail is enqueued its errors are announced; what was announced before is a double
Mailing(r) ==
    /\ pass[r].phase = "sent" => pass[r].errors \subseteq announced
    /\ pass[r].phase = "read" => pass[r].errors \cap announced \subseteq doubled

\* Two passes that have an error in hand have a double
Shared(r, other) ==
    pass[r].phase \in {"read", "sent"} /\ pass[other].phase \in {"read", "sent"}
        => pass[r].errors \cap pass[other].errors \subseteq doubled

\* An error belongs to one owner
Distinct(o, other) == errorList[o] \cap errorList[other] = {}
Apart(r, o) ==
    pass[r].phase \in {"read", "sent"} /\ pass[r].owner # o => pass[r].errors \cap errorList[o] = {}

\* What is announced and still in its list is in the hand of a pass that will delete it
Listed(o) ==
    \A e \in errorList[o] \cap announced :
        \/ e \in doubled
        \/ \E r \in Reporters : /\ pass[r].phase = "sent" /\ pass[r].owner = o
                                /\ e \in pass[r].errors

\* Every error that is pushed is in a list or announced, unless it raced with a deletion
Kept ==
    \A e \in pushed \ raced : e \in announced \/ \E o \in Owners : e \in errorList[o]

ReportInv ==
    /\ ReportTypeOK
    /\ Posted /\ Kept
    /\ announcedTwice \subseteq doubled
    /\ \A o \in Owners : Listed(o)
    /\ \A o, other \in Owners : o # other => Distinct(o, other)
    /\ \A r \in Reporters : Mailing(r)
    /\ \A r \in Reporters, o \in Owners : KnowsList(r, o) /\ Apart(r, o)
    /\ \A r, other \in Reporters : r # other => Shared(r, other)

-----------------------------------------------------------------------------
\* Nothing has been pushed in the beginning.
LEMMA ReportInitInv == ReportInit => ReportInv
<1> SUFFICES ASSUME ReportInit PROVE ReportInv
  OBVIOUS
<1>1. ReportTypeOK
  BY MaxDeathsAssumption DEF ReportInit, ReportTypeOK, NoPass
<1>2. Posted /\ Kept /\ announcedTwice \subseteq doubled
  BY DEF ReportInit, Posted, Kept
<1>3. \A o \in Owners : Listed(o) /\ \A other \in Owners : Distinct(o, other)
  BY DEF ReportInit, Listed, Distinct
<1>4. \A r \in Reporters : pass[r].phase = "idle"
  BY DEF ReportInit, NoPass
<1> QED
  BY <1>1, <1>2, <1>3, <1>4 DEF ReportInv, Mailing, KnowsList, Apart, Shared, InHand

\* A mail that is appended is in the outbox, and so are those that were.
LEMMA AppendPosts ==
    ASSUME outbox \in Seq(SUBSET Errors), NEW errors \in SUBSET Errors,
           outbox' = Append(outbox, errors), NEW e \in Errors, e \in errors \/ InOutbox(e)
    PROVE  InOutbox(e)'
<1>1. /\ DOMAIN outbox = 1 .. Len(outbox) /\ Len(outbox) \in Nat
      /\ DOMAIN outbox' = 1 .. (Len(outbox) + 1)
      /\ \A i \in 1 .. Len(outbox) : outbox'[i] = outbox[i]
      /\ outbox'[Len(outbox) + 1] = errors
  OBVIOUS
<1>2. CASE e \in errors
  <2>1. Len(outbox) + 1 \in DOMAIN outbox' /\ e \in outbox'[Len(outbox) + 1]
    BY <1>1, <1>2
  <2> QED
    BY <2>1 DEF InOutbox
<1>3. CASE InOutbox(e)
  <2>1. PICK i \in DOMAIN outbox : e \in outbox[i]
    BY <1>3 DEF InOutbox
  <2>2. i \in DOMAIN outbox' /\ e \in outbox'[i]
    BY <1>1, <2>1
  <2> QED
    BY <2>2 DEF InOutbox
<1> QED
  BY <1>2, <1>3

\* What is in no mail that is left was in the one that is sent.
LEMMA TailPosts ==
    ASSUME outbox \in Seq(SUBSET Errors), outbox # <<>>, outbox' = Tail(outbox),
           NEW e, InOutbox(e)
    PROVE  e \in Head(outbox) \/ InOutbox(e)'
<1>1. PICK i \in DOMAIN outbox : e \in outbox[i]
  BY DEF InOutbox
<1>2. /\ DOMAIN outbox = 1 .. Len(outbox) /\ Len(outbox) \in Nat /\ Head(outbox) = outbox[1]
      /\ DOMAIN outbox' = 1 .. (Len(outbox) - 1)
      /\ \A k \in 1 .. (Len(outbox) - 1) : outbox'[k] = outbox[k + 1]
  OBVIOUS
<1>3. CASE i = 1
  BY <1>1, <1>2, <1>3
<1>4. CASE i # 1
  <2>1. i - 1 \in DOMAIN outbox' /\ e \in outbox'[i - 1]
    BY <1>1, <1>2, <1>4
  <2> QED
    BY <2>1 DEF InOutbox
<1> QED
  BY <1>3, <1>4

\* The values a pass has
PassType(known) ==
    {NoPass} \cup [phase : {"scan"}, todo : SUBSET Owners]
             \cup [phase : {"read", "sent"}, owner : Owners, errors : SUBSET known,
                   todo : SUBSET Owners]

\* Rest gives a pass.
LEMMA RestType ==
    ASSUME NEW todo \in SUBSET Owners, NEW known
    PROVE  Rest(todo) \in PassType(known) /\ Rest(todo).phase \in {"idle", "scan"}
  BY DEF Rest, PassType, NoPass

\* No step breaks the types.
LEMMA ReportTypeStep == ReportTypeOK /\ [ReportNext]_reportVars => ReportTypeOK'
<1> SUFFICES ASSUME ReportTypeOK, [ReportNext]_reportVars PROVE ReportTypeOK'
  OBVIOUS
<1>0. /\ pass \in [Reporters -> PassType(pushed)]
      /\ deaths \in 0 .. MaxDeaths
  BY DEF ReportTypeOK, PassType
<1>1. CASE UNCHANGED reportVars
  BY <1>1 DEF reportVars, ReportTypeOK
<1>2. ASSUME NEW o \in Owners, NEW e \in Errors, Push(o, e) PROVE ReportTypeOK'
  BY <1>2 DEF Push, ReportTypeOK
<1>3. ASSUME NEW r \in Reporters, BeginPass(r) PROVE ReportTypeOK'
  BY <1>3 DEF BeginPass, reportHistory, ReportTypeOK
<1>4. ASSUME NEW r \in Reporters, NEW o \in Owners, ReadErrors(r, o) PROVE ReportTypeOK'
  <2> DEFINE todo == pass[r].todo \ {o}
  <2>1. todo \in SUBSET Owners
    BY <1>0, <1>4 DEF ReadErrors, PassType, NoPass
  <2>2. errorList[o] \subseteq pushed
    BY DEF ReportTypeOK
  <2>3. pass' \in [Reporters -> PassType(pushed)]
    <3>1. [phase |-> "read", owner |-> o, errors |-> errorList[o], todo |-> todo]
              \in PassType(pushed)
      BY <2>1, <2>2 DEF PassType
    <3>2. Rest(todo) \in PassType(pushed)
      BY <2>1, RestType
    <3> QED
      BY <1>0, <1>4, <3>1, <3>2 DEF ReadErrors
  <2>4. doubled' \subseteq pushed
    BY <1>4, <2>2 DEF ReadErrors, ReportTypeOK
  <2> QED
    BY <1>4, <2>3, <2>4 DEF ReadErrors, ReportTypeOK, PassType
<1>5. ASSUME NEW r \in Reporters, SendReport(r) PROVE ReportTypeOK'
  <2>1. pass[r].errors \subseteq pushed /\ pass[r].errors \subseteq announced'
    BY <1>0, <1>5 DEF SendReport, PassType, NoPass
  <2>2. outbox' \in Seq(SUBSET (announced'))
    <3>1. outbox \in Seq(SUBSET (announced'))
      BY <1>5 DEF SendReport, ReportTypeOK
    <3> QED
      BY <1>5, <2>1, <3>1 DEF SendReport
  <2>3. pass' \in [Reporters -> PassType(pushed)]
    BY <1>0, <1>5 DEF SendReport, PassType, NoPass
  <2> QED
    BY <1>5, <2>1, <2>2, <2>3 DEF SendReport, ReportTypeOK, PassType
<1>6. ASSUME NEW r \in Reporters, DeleteErrors(r) PROVE ReportTypeOK'
  <2>1. pass[r].todo \in SUBSET Owners
    BY <1>0, <1>6 DEF DeleteErrors, PassType, NoPass
  <2>2. pass' \in [Reporters -> PassType(pushed)]
    BY <1>0, <1>6, <2>1, RestType DEF DeleteErrors
  <2> QED
    BY <1>6, <2>2 DEF DeleteErrors, reportHistory, ReportTypeOK, PassType
<1>7. ASSUME NEW r \in Reporters, PassDies(r) PROVE ReportTypeOK'
  <2>1. deaths' \in 0 .. MaxDeaths
    BY <1>0, <1>7, MaxDeathsAssumption DEF PassDies
  <2>2. doubled' \subseteq pushed
    BY <1>0, <1>7 DEF PassDies, ReportTypeOK, PassType, NoPass
  <2> QED
    BY <1>7, <2>1, <2>2 DEF PassDies, ReportTypeOK
<1>8. CASE SendMail
  <2>1. Head(outbox) \subseteq announced /\ Tail(outbox) \in Seq(SUBSET announced)
    BY <1>8 DEF SendMail, ReportTypeOK
  <2> QED
    BY <1>8, <2>1 DEF SendMail, ReportTypeOK
<1> QED
  BY <1>1, <1>2, <1>3, <1>4, <1>5, <1>6, <1>7, <1>8 DEF ReportNext, ReportStep

\* Where the invariant speaks of the passes, it looks at no more than this.
LEMMA HandsType ==
    ASSUME ReportTypeOK, NEW r \in Reporters, pass[r].phase \in {"read", "sent"}
    PROVE  pass[r].owner \in Owners /\ pass[r].errors \subseteq pushed
  BY DEF ReportTypeOK, NoPass

\* An error that is pushed is new: nobody has it in hand, and no other list holds it.
LEMMA PushStep ==
    ASSUME ReportInv, ReportTypeOK', NEW o \in Owners, NEW e \in Errors, Push(o, e)
    PROVE  ReportInv'
<1>1. /\ e \notin pushed /\ errorList' = [errorList EXCEPT ![o] = @ \cup {e}]
      /\ UNCHANGED <<pass, outbox, mailed, announced, announcedTwice, doubled>>
  BY DEF Push
<1>2. /\ ReportTypeOK
      /\ errorList \in [Owners -> SUBSET pushed]
      /\ announced \subseteq pushed
  BY DEF ReportInv, ReportTypeOK
<1>3. \A x \in Owners : errorList'[x] \subseteq errorList[x] \cup {e} /\ (x # o => errorList'[x] = errorList[x])
  BY <1>1, <1>2
<1>4. Posted' /\ announcedTwice' \subseteq doubled'
  BY <1>1 DEF ReportInv, Posted, InOutbox
<1>5. Kept'
  <2>1. ASSUME NEW x \in pushed' \ raced' PROVE x \in announced' \/ \E w \in Owners : x \in errorList'[w]
    BY <1>1, <1>2, <2>1 DEF Push, ReportInv, Kept
  <2> QED
    BY <2>1 DEF Kept
<1>6. \A x \in Owners : Listed(x)'
  BY <1>1, <1>2, <1>3 DEF ReportInv, Listed
<1>7. \A x, y \in Owners : x # y => Distinct(x, y)'
  BY <1>1, <1>2, <1>3 DEF ReportInv, Distinct
<1>8. \A r \in Reporters : Mailing(r)'
  BY <1>1 DEF ReportInv, Mailing
<1>9. \A r \in Reporters, x \in Owners : KnowsList(r, x)'
  <2> SUFFICES ASSUME NEW r \in Reporters, NEW x \in Owners, InHand(r, x)
               PROVE  errorList'[x] \subseteq pass[r].errors \cup raced'
    BY <1>1 DEF KnowsList, InHand
  <2>1. errorList[x] \subseteq pass[r].errors \cup raced /\ raced \subseteq raced'
    BY DEF ReportInv, KnowsList, Push
  <2>2. x = o => e \in raced'
    BY DEF Push
  <2> QED
    BY <1>3, <2>1, <2>2
<1>10. \A r \in Reporters, x \in Owners : Apart(r, x)'
  <2> SUFFICES ASSUME NEW r \in Reporters, NEW x \in Owners,
                      pass[r].phase \in {"read", "sent"}, pass[r].owner # x
               PROVE  pass[r].errors \cap errorList'[x] = {}
    BY <1>1 DEF Apart
  <2>1. pass[r].errors \cap errorList[x] = {} /\ e \notin pass[r].errors
    BY <1>1, <1>2, HandsType DEF ReportInv, Apart
  <2> QED
    BY <1>3, <2>1
<1>11. \A r, other \in Reporters : r # other => Shared(r, other)'
  BY <1>1 DEF ReportInv, Shared
<1> QED
  BY <1>4, <1>5, <1>6, <1>7, <1>8, <1>9, <1>10, <1>11 DEF ReportInv

(***************************************************************************)
(* A pass that ends, or has an owner less to do, gives up what it had in   *)
(* hand; that is no loss unless it had sent the mail and left the list.    *)
(***************************************************************************)
LEMMA LetGoStep ==
    ASSUME ReportInv, ReportTypeOK', NEW r \in Reporters,
           pass'[r].phase \in {"idle", "scan"},
           \A x \in Reporters \ {r} : pass'[x] = pass[x],
           pass[r].phase = "sent" => pass[r].errors \subseteq doubled',
           doubled \subseteq doubled',
           UNCHANGED <<errorList, outbox, pushed, mailed, announced, announcedTwice, raced>>
    PROVE  ReportInv'
<1>1. \A x \in Reporters : pass'[x].phase \in {"read", "sent"} => x # r /\ pass'[x] = pass[x]
  OBVIOUS
<1>2. Posted' /\ Kept' /\ announcedTwice' \subseteq doubled'
  BY DEF ReportInv, Posted, Kept, InOutbox
<1>3. \A o \in Owners : Listed(o)'
  <2> SUFFICES ASSUME NEW o \in Owners, NEW e \in errorList[o] \cap announced, e \notin doubled'
               PROVE  \E x \in Reporters : /\ pass'[x].phase = "sent" /\ pass'[x].owner = o
                                           /\ e \in pass'[x].errors
    BY DEF Listed
  <2>1. PICK x \in Reporters : pass[x].phase = "sent" /\ pass[x].owner = o /\ e \in pass[x].errors
    BY DEF ReportInv, Listed
  <2>2. x # r
    BY <2>1
  <2> QED
    BY <2>1, <2>2
<1>4. \A o, other \in Owners : o # other => Distinct(o, other)'
  BY DEF ReportInv, Distinct
<1>5. \A x \in Reporters : Mailing(x)'
  BY <1>1 DEF ReportInv, Mailing
<1>6. \A x \in Reporters, o \in Owners : KnowsList(x, o)' /\ Apart(x, o)'
  BY <1>1 DEF ReportInv, KnowsList, Apart, InHand
<1>7. \A x, y \in Reporters : x # y => Shared(x, y)'
  BY <1>1 DEF ReportInv, Shared
<1> QED
  BY <1>2, <1>3, <1>4, <1>5, <1>6, <1>7 DEF ReportInv

\* A pass that takes a list into its hand doubles what another pass has of it.
LEMMA ReadStep ==
    ASSUME ReportInv, ReportTypeOK', NEW r \in Reporters, NEW o \in Owners, ReadErrors(r, o),
           errorList[o] # {}
    PROVE  ReportInv'
<1> DEFINE errors == errorList[o]
<1>1. /\ ReportTypeOK
      /\ pass[r].phase = "scan"
      /\ pass'[r].phase = "read" /\ pass'[r].owner = o /\ pass'[r].errors = errors
      /\ \A x \in Reporters \ {r} : pass'[x] = pass[x]
      /\ UNCHANGED <<errorList, outbox, pushed, mailed, announced, announcedTwice, raced>>
  BY DEF ReadErrors, ReportInv, ReportTypeOK
<1>2. /\ doubled \subseteq doubled'
      /\ (\E x \in Reporters \ {r} : InHand(x, o)) => errors \subseteq doubled'
  BY DEF ReadErrors
<1>3. Posted' /\ Kept' /\ announcedTwice' \subseteq doubled'
  BY <1>1, <1>2 DEF ReportInv, Posted, Kept, InOutbox
<1>4. \A x \in Owners : Listed(x)'
  <2> SUFFICES ASSUME NEW x \in Owners, NEW e \in errorList[x] \cap announced, e \notin doubled'
               PROVE  \E y \in Reporters : /\ pass'[y].phase = "sent" /\ pass'[y].owner = x
                                           /\ e \in pass'[y].errors
    BY <1>1 DEF Listed
  <2>1. PICK y \in Reporters : pass[y].phase = "sent" /\ pass[y].owner = x /\ e \in pass[y].errors
    BY <1>2 DEF ReportInv, Listed
  <2>2. y # r
    BY <1>1, <2>1
  <2> QED
    BY <1>1, <2>1, <2>2
<1>5. \A x, other \in Owners : x # other => Distinct(x, other)'
  BY <1>1 DEF ReportInv, Distinct
<1>6. errors \cap announced \subseteq doubled'
  <2> SUFFICES ASSUME NEW e \in errors \cap announced, e \notin doubled' PROVE FALSE
    OBVIOUS
  <2>1. PICK y \in Reporters : pass[y].phase = "sent" /\ pass[y].owner = o /\ e \in pass[y].errors
    BY <1>2 DEF ReportInv, Listed
  <2>2. y # r /\ InHand(y, o)
    BY <1>1, <2>1 DEF InHand
  <2> QED
    BY <1>2, <2>2
<1>7. \A x \in Reporters : Mailing(x)'
  BY <1>1, <1>2, <1>6 DEF ReportInv, Mailing
<1>8. \A x \in Reporters, w \in Owners : KnowsList(x, w)'
  BY <1>1 DEF ReportInv, KnowsList, InHand
<1>9. \A x \in Reporters, w \in Owners : Apart(x, w)'
  BY <1>1 DEF ReportInv, Apart, Distinct
<1>10. ASSUME NEW x \in Reporters \ {r}, pass[x].phase \in {"read", "sent"}
       PROVE  pass[x].errors \cap errors \subseteq doubled'
  <2>1. CASE pass[x].owner = o
    BY <1>2, <1>10, <2>1 DEF InHand
  <2>2. CASE pass[x].owner # o
    BY <1>10, <2>2 DEF ReportInv, Apart
  <2> QED
    BY <2>1, <2>2
<1>11. \A x, y \in Reporters : x # y => Shared(x, y)'
  BY <1>1, <1>2, <1>10 DEF ReportInv, Shared
<1> QED
  BY <1>3, <1>4, <1>5, <1>7, <1>8, <1>9, <1>11 DEF ReportInv

\* The mail announces what the pass has read; who else has it in hand has a double.
LEMMA SendStep ==
    ASSUME ReportInv, ReportTypeOK', NEW r \in Reporters, SendReport(r)
    PROVE  ReportInv'
<1> DEFINE errors == pass[r].errors
<1>1. /\ ReportTypeOK
      /\ pass[r].phase = "read" /\ pass[r].owner \in Owners /\ errors \subseteq pushed
      /\ pass'[r].phase = "sent" /\ pass'[r].owner = pass[r].owner /\ pass'[r].errors = errors
      /\ \A x \in Reporters \ {r} : pass'[x] = pass[x]
      /\ announced' = announced \cup errors
      /\ announcedTwice' = announcedTwice \cup (announced \cap errors)
      /\ UNCHANGED <<errorList, pushed, mailed, raced, doubled>>
  BY HandsType DEF SendReport, ReportInv, ReportTypeOK, NoPass
<1>2. Posted'
  <2>1. outbox \in Seq(SUBSET Errors) /\ errors \in SUBSET Errors /\ announced \subseteq Errors
    BY <1>1 DEF ReportTypeOK
  <2>2. outbox' = Append(outbox, errors)
    BY DEF SendReport
  <2>3. ASSUME NEW e \in announced' PROVE InOutbox(e)' \/ e \in mailed'
    <3>1. e \in Errors /\ (e \in errors \/ InOutbox(e) \/ e \in mailed)
      BY <1>1, <2>1, <2>3 DEF ReportInv, Posted
    <3> QED
      BY <1>1, <2>1, <2>2, <3>1, AppendPosts
  <2> QED
    BY <2>3 DEF Posted
<1>3. Kept' /\ announcedTwice' \subseteq doubled'
  BY <1>1 DEF ReportInv, Kept, Mailing
<1>4. \A o \in Owners : Listed(o)'
  <2> SUFFICES ASSUME NEW o \in Owners, NEW e \in errorList[o] \cap announced', e \notin doubled
               PROVE  \E x \in Reporters : /\ pass'[x].phase = "sent" /\ pass'[x].owner = o
                                           /\ e \in pass'[x].errors
    BY <1>1 DEF Listed
  <2>1. CASE e \in errors
    <3>1. pass[r].owner = o
      BY <1>1, <2>1 DEF ReportInv, Apart
    <3> QED
      BY <1>1, <2>1, <3>1
  <2>2. CASE e \in announced
    <3>1. PICK x \in Reporters : pass[x].phase = "sent" /\ pass[x].owner = o /\ e \in pass[x].errors
      BY <2>2 DEF ReportInv, Listed
    <3>2. x # r
      BY <1>1, <3>1
    <3> QED
      BY <1>1, <3>1, <3>2
  <2> QED
    BY <1>1, <2>1, <2>2
<1>5. \A o, other \in Owners : o # other => Distinct(o, other)'
  BY <1>1 DEF ReportInv, Distinct
<1>6. \A x \in Reporters : Mailing(x)'
  <2>1. Mailing(r)'
    BY <1>1 DEF Mailing
  <2>2. ASSUME NEW x \in Reporters \ {r} PROVE Mailing(x)'
    <3>1. Mailing(x) /\ Shared(x, r)
      BY DEF ReportInv
    <3> QED
      BY <1>1, <3>1 DEF Mailing, Shared
  <2> QED
    BY <2>1, <2>2
<1>7. \A x \in Reporters, w \in Owners : KnowsList(x, w)' /\ Apart(x, w)'
  BY <1>1 DEF ReportInv, KnowsList, Apart, InHand
<1>8. \A x, y \in Reporters : x # y => Shared(x, y)'
  BY <1>1 DEF ReportInv, Shared
<1> QED
  BY <1>2, <1>3, <1>4, <1>5, <1>6, <1>7, <1>8 DEF ReportInv

\* Whatever else is in the list that is deleted was pushed meanwhile.
LEMMA DeleteStep ==
    ASSUME ReportInv, ReportTypeOK', NEW r \in Reporters, DeleteErrors(r)
    PROVE  ReportInv'
<1>0. PICK o \in Owners : o = pass[r].owner
  BY HandsType DEF DeleteErrors, ReportInv
<1>1. /\ ReportTypeOK
      /\ pass[r].phase = "sent" /\ pass[r].todo \in SUBSET Owners
      /\ errorList'[o] = {}
      /\ \A x \in Owners : errorList'[x] \subseteq errorList[x]
      /\ \A x \in Owners \ {o} : errorList'[x] = errorList[x]
      /\ UNCHANGED <<outbox, pushed, mailed, announced, announcedTwice, raced, doubled>>
  BY <1>0 DEF DeleteErrors, reportHistory, ReportInv, ReportTypeOK, NoPass
<1>2. pass'[r].phase \in {"idle", "scan"} /\ \A x \in Reporters \ {r} : pass'[x] = pass[x]
  BY <1>1, RestType DEF DeleteErrors, ReportTypeOK
<1>3. \A x \in Reporters : pass'[x].phase \in {"read", "sent"} => x # r /\ pass'[x] = pass[x]
  BY <1>2
<1>4. Posted' /\ announcedTwice' \subseteq doubled'
  BY <1>1 DEF ReportInv, Posted, InOutbox
<1>5. Kept'
  <2>1. errorList[o] \subseteq announced \cup raced
    BY <1>0, <1>1 DEF ReportInv, KnowsList, InHand, Mailing
  <2>2. ASSUME NEW e \in pushed \ raced, e \notin announced
        PROVE  \E x \in Owners : e \in errorList'[x]
    <3>1. PICK x \in Owners : e \in errorList[x]
      BY <2>2 DEF ReportInv, Kept
    <3> QED
      BY <1>1, <2>1, <2>2, <3>1
  <2> QED
    BY <1>1, <2>2 DEF Kept
<1>6. \A x \in Owners : Listed(x)'
  <2> SUFFICES ASSUME NEW x \in Owners, NEW e \in errorList'[x] \cap announced, e \notin doubled
               PROVE  \E y \in Reporters : /\ pass'[y].phase = "sent" /\ pass'[y].owner = x
                                           /\ e \in pass'[y].errors
    BY <1>1 DEF Listed
  <2>1. x # o
    BY <1>1
  <2>2. PICK y \in Reporters : pass[y].phase = "sent" /\ pass[y].owner = x /\ e \in pass[y].errors
    BY <1>1 DEF ReportInv, Listed
  <2>3. y # r
    BY <1>0, <2>1, <2>2
  <2> QED
    BY <1>2, <2>2, <2>3
<1>7. \A x, other \in Owners : x # other => Distinct(x, other)'
  BY <1>1 DEF ReportInv, Distinct
<1>8. \A x \in Reporters : Mailing(x)'
  BY <1>1, <1>3 DEF ReportInv, Mailing
<1>9. \A x \in Reporters, w \in Owners : KnowsList(x, w)'
  BY <1>1, <1>3 DEF ReportInv, KnowsList, InHand
<1>10. \A x \in Reporters, w \in Owners : Apart(x, w)'
  BY <1>1, <1>3 DEF ReportInv, Apart
<1>11. \A x, y \in Reporters : x # y => Shared(x, y)'
  BY <1>1, <1>3 DEF ReportInv, Shared
<1> QED
  BY <1>4, <1>5, <1>6, <1>7, <1>8, <1>9, <1>10, <1>11 DEF ReportInv

\* Every step keeps the invariant.
LEMMA ReportInvStep == ReportInv /\ [ReportNext]_reportVars => ReportInv'
<1> SUFFICES ASSUME ReportInv, [ReportNext]_reportVars PROVE ReportInv'
  OBVIOUS
<1>0. ReportTypeOK /\ ReportTypeOK'
  BY ReportTypeStep DEF ReportInv
<1>1. CASE UNCHANGED reportVars
  BY <1>0, <1>1
     DEF reportVars, ReportInv, Posted, InOutbox, Kept, Listed, Distinct, Mailing, KnowsList,
         InHand, Apart, Shared
<1>2. ASSUME NEW o \in Owners, NEW e \in Errors, Push(o, e) PROVE ReportInv'
  BY <1>0, <1>2, PushStep
<1>3. ASSUME NEW r \in Reporters, BeginPass(r) PROVE ReportInv'
  <2>1. pass'[r].phase = "scan" /\ \A x \in Reporters \ {r} : pass'[x] = pass[x]
    BY <1>0, <1>3 DEF BeginPass, ReportTypeOK
  <2>2. pass[r].phase # "sent"
    BY <1>3 DEF BeginPass
  <2>3. UNCHANGED <<errorList, outbox, pushed, mailed, announced, announcedTwice, raced, doubled>>
    BY <1>3 DEF BeginPass, reportHistory
  <2> QED
    BY <1>0, <2>1, <2>2, <2>3, LetGoStep
<1>4. ASSUME NEW r \in Reporters, NEW o \in Owners, ReadErrors(r, o) PROVE ReportInv'
  <2>1. CASE errorList[o] = {}
    <3> DEFINE todo == pass[r].todo \ {o}
    <3>1. todo \in SUBSET Owners
      BY <1>0, <1>4 DEF ReadErrors, ReportTypeOK, NoPass
    <3>2. Rest(todo).phase \in {"idle", "scan"}
      BY <3>1, RestType
    <3>3. pass' = [pass EXCEPT ![r] = Rest(todo)] /\ pass[r].phase = "scan" /\ doubled' = doubled
      BY <1>4, <2>1 DEF ReadErrors
    <3>4. /\ pass'[r].phase \in {"idle", "scan"}
          /\ \A x \in Reporters \ {r} : pass'[x] = pass[x]
      BY <1>0, <3>2, <3>3 DEF ReportTypeOK
    <3> QED
      BY <1>0, <1>4, <3>3, <3>4, LetGoStep DEF ReadErrors
  <2>2. CASE errorList[o] # {}
    BY <1>0, <1>4, <2>2, ReadStep
  <2> QED
    BY <2>1, <2>2
<1>5. ASSUME NEW r \in Reporters, SendReport(r) PROVE ReportInv'
  BY <1>0, <1>5, SendStep
<1>6. ASSUME NEW r \in Reporters, DeleteErrors(r) PROVE ReportInv'
  BY <1>0, <1>6, DeleteStep
<1>7. ASSUME NEW r \in Reporters, PassDies(r) PROVE ReportInv'
  <2>1. pass'[r].phase = "idle" /\ \A x \in Reporters \ {r} : pass'[x] = pass[x]
    BY <1>0, <1>7 DEF PassDies, ReportTypeOK, NoPass
  <2>2. doubled \subseteq doubled' /\ (pass[r].phase = "sent" => pass[r].errors \subseteq doubled')
    BY <1>7 DEF PassDies
  <2>3. UNCHANGED <<errorList, outbox, pushed, mailed, announced, announcedTwice, raced>>
    BY <1>7 DEF PassDies
  <2> QED
    BY <1>0, <2>1, <2>2, <2>3, LetGoStep
<1>8. CASE SendMail
  <2>1. outbox \in Seq(SUBSET Errors)
    BY <1>0 DEF ReportTypeOK
  <2>2. Posted'
    BY <1>8, <2>1, TailPosts DEF SendMail, ReportInv, Posted
  <2> QED
    BY <1>0, <1>8, <2>2
       DEF SendMail, ReportInv, Kept, Listed, Distinct, Mailing, KnowsList, InHand, Apart, Shared
<1> QED
  BY <1>1, <1>2, <1>3, <1>4, <1>5, <1>6, <1>7, <1>8 DEF ReportNext, ReportStep

\* The invariant is inductive.
LEMMA ReportInvariant == ReportSpec => []ReportInv
  BY ReportInitInv, ReportInvStep, PTL DEF ReportSpec

\* Lists, passes and mails keep their types, and no mail is about an error that was not pushed.
THEOREM ReportTypeCorrect == ReportSpec => []ReportTypeOK
<1>1. ReportInv => ReportTypeOK
  BY DEF ReportInv
<1> QED
  BY <1>1, ReportInvariant, PTL

(***************************************************************************)
(* No error gets lost but in the gap between lrange and delete             *)
(* (failure_reports.py:61-65), for any number of owners, of passes at once *)
(* and of deaths.                                                          *)
(***************************************************************************)
THEOREM NoErrorLost == ReportSpec => []ErrorsAccountedFor
<1>1. ReportInv => ErrorsAccountedFor
  BY DEF ReportInv, Kept, Posted, ErrorsAccountedFor
<1> QED
  BY <1>1, ReportInvariant, PTL

(***************************************************************************)
(* No error is reported twice but for two passes at once or a death        *)
(* between the mail and the deletion, for any number of each.              *)
(***************************************************************************)
THEOREM NoErrorTwice == ReportSpec => []AnnouncedOnce
<1>1. ReportInv => AnnouncedOnce
  BY DEF ReportInv, AnnouncedOnce
<1> QED
  BY <1>1, ReportInvariant, PTL

-----------------------------------------------------------------------------
(* DataSources *)

\* What a thread has read of a database was shown by it.
Fetched(w) == fetcher[w] # NoFetch => fetcher[w].seen <= connection[fetcher[w].source]

SourceInv == SourceTypeOK /\ \A w \in Fetchers : Fetched(w)

Fetches == [source : DataSourceIds, seen : 0..MaxVersion]

\* No source is there in the beginning.
LEMMA SourceInitInv == SourceInit => SourceInv
  BY SourcesAssumption DEF SourceInit, SourceInv, SourceTypeOK, Fetched, Missing

\* Threads take tasks and store what they have read, whatever became of the source.
LEMMA FetchStep ==
    ASSUME SourceInv, NEW w \in Fetchers, (\E t \in Tasks : StartFetch(w, t)) \/ StoreSchema(w) \/ FailFetch(w)
    PROVE  SourceInv'
<1>1. CASE \E t \in Tasks : StartFetch(w, t)
  <2>1. PICK t \in Tasks : StartFetch(w, t)
    BY <1>1
  <2>2. t.source \in DataSourceIds
    BY DEF Tasks
  <2>3. PICK f : f = [source |-> t.source, seen |-> connection[t.source]]
    OBVIOUS
  <2>4. f \in Fetches /\ f.seen <= connection[f.source]
    BY <2>2, <2>3, SourcesAssumption DEF Fetches, SourceInv, SourceTypeOK
  <2>5. fetcher' \in [Fetchers -> {NoFetch} \cup Fetches]
    BY <2>1, <2>3, <2>4 DEF StartFetch, SourceInv, SourceTypeOK, Fetches
  <2>6. \A v \in Fetchers : fetcher'[v] = fetcher[v] \/ fetcher'[v] = f
    BY <2>1, <2>3 DEF StartFetch, SourceInv, SourceTypeOK
  <2>7. \A v \in Fetchers : Fetched(v)'
    BY <2>1, <2>4, <2>6 DEF StartFetch, SourceInv, Fetched
  <2>8. SourceTypeOK'
    BY <2>1, <2>5 DEF StartFetch, SourceInv, SourceTypeOK, Fetches
  <2> QED
    BY <2>7, <2>8 DEF SourceInv
<1>2. CASE StoreSchema(w)
  <2>1. PICK d, n : d = fetcher[w].source /\ n = fetcher[w].seen
    OBVIOUS
  <2>2. d \in DataSourceIds /\ n \in 0..MaxVersion /\ n <= connection[d]
    BY <1>2, <2>1 DEF StoreSchema, SourceInv, SourceTypeOK, Fetched
  <2>3. schemaCache' = [schemaCache EXCEPT ![d] = n] /\ fetcher' = [fetcher EXCEPT ![w] = NoFetch]
        /\ UNCHANGED <<sourceRow, usedBy, connection, pausedSources, refreshing, schemaQueue, faults>>
    BY <1>2, <2>1 DEF StoreSchema
  <2>4. SourceTypeOK'
    BY <2>2, <2>3 DEF SourceInv, SourceTypeOK
  <2>5. \A v \in Fetchers : Fetched(v)'
    BY <2>3 DEF SourceInv, SourceTypeOK, Fetched
  <2> QED
    BY <2>4, <2>5 DEF SourceInv
<1>3. CASE FailFetch(w)
  <2>1. SourceTypeOK'
    BY <1>3, SourcesAssumption DEF FailFetch, SourceInv, SourceTypeOK
  <2>2. \A v \in Fetchers : Fetched(v)'
    BY <1>3 DEF FailFetch, SourceInv, SourceTypeOK, Fetched
  <2> QED
    BY <2>1, <2>2 DEF SourceInv
<1> QED
  BY <1>1, <1>2, <1>3

\* Users and the periodic task change sources and ask for schemas.
LEMMA AskedStep ==
    ASSUME SourceInv, NEW d \in DataSourceIds,
           \/ CreateSource(d) \/ EditSource(d) \/ DeleteSource(d) \/ ForgetSchema(d)
           \/ Pause(d) \/ Resume(d) \/ RefreshOne(d)
           \/ \E kind \in Kinds : Refer(d, kind) \/ Unrefer(d, kind)
           \/ \E refresh \in BOOLEAN : ShowSchema(d, refresh)
    PROVE  SourceInv'
<1>1. CASE EditSource(d)
  <2>1. connection' \in [DataSourceIds -> 0..MaxVersion]
        /\ \A e \in DataSourceIds : connection[e] <= connection'[e]
    BY <1>1, SourcesAssumption DEF EditSource, SourceInv, SourceTypeOK
  <2>2. \A e \in DataSourceIds : schemaCache[e] <= connection'[e]
    BY <2>1, SourcesAssumption DEF SourceInv, SourceTypeOK, Missing
  <2>3. SourceTypeOK'
    BY <1>1, <2>1, <2>2 DEF EditSource, SourceInv, SourceTypeOK
  <2>4. ASSUME NEW w \in Fetchers PROVE Fetched(w)'
    <3>1. fetcher[w] # NoFetch => fetcher[w] \in Fetches
      BY DEF SourceInv, SourceTypeOK, Fetches
    <3> QED
      BY <1>1, <2>1, <3>1, SourcesAssumption DEF EditSource, SourceInv, SourceTypeOK, Fetched, Fetches
  <2> QED
    BY <2>3, <2>4 DEF SourceInv
<1>2. CASE ForgetSchema(d)
  <2>1. SourceTypeOK'
    BY <1>2, SourcesAssumption DEF ForgetSchema, SourceInv, SourceTypeOK, Missing
  <2> QED
    BY <1>2, <2>1 DEF ForgetSchema, SourceInv, Fetched
<1>3. CASE CreateSource(d) \/ DeleteSource(d)
  <2>1. /\ usedBy' \in [DataSourceIds -> SUBSET Kinds]
        /\ \A e \in DataSourceIds : usedBy'[e] # {} => sourceRow'[e] = "live"
    BY <1>3 DEF CreateSource, DeleteSource, SourceInv, SourceTypeOK, Live
  <2>2. SourceTypeOK'
    BY <1>3, <2>1 DEF CreateSource, DeleteSource, SourceInv, SourceTypeOK
  <2> QED
    BY <1>3, <2>2 DEF CreateSource, DeleteSource, SourceInv, Fetched
<1>4. CASE Pause(d) \/ Resume(d)
  <2>1. SourceTypeOK'
    BY <1>4 DEF Pause, Resume, SourceInv, SourceTypeOK
  <2> QED
    BY <1>4, <2>1 DEF Pause, Resume, SourceInv, Fetched
<1>5. CASE RefreshOne(d) \/ \E refresh \in BOOLEAN : ShowSchema(d, refresh)
  <2>1. \A refresh \in BOOLEAN : [source |-> d, refresh |-> refresh] \in Tasks
    BY DEF Tasks
  <2>2. schemaQueue' \subseteq Tasks /\ refreshing' \subseteq DataSourceIds
    BY <1>5, <2>1 DEF RefreshOne, ShowSchema, Enqueue, SourceInv, SourceTypeOK
  <2>3. UNCHANGED <<sourceRow, usedBy, connection, schemaCache, pausedSources, fetcher, faults>>
    BY <1>5 DEF RefreshOne, ShowSchema
  <2> QED
    BY <2>2, <2>3 DEF SourceInv, SourceTypeOK, Fetched
<1>6. CASE \E kind \in Kinds : Refer(d, kind) \/ Unrefer(d, kind)
  <2>1. PICK kind \in Kinds : Refer(d, kind) \/ Unrefer(d, kind)
    BY <1>6
  <2>2. /\ usedBy' \in [DataSourceIds -> SUBSET Kinds]
        /\ \A e \in DataSourceIds : usedBy'[e] # {} => sourceRow[e] = "live"
    BY <2>1 DEF Refer, Unrefer, SourceInv, SourceTypeOK, Live
  <2>3. UNCHANGED <<sourceRow, connection, schemaCache, pausedSources, refreshing, schemaQueue, fetcher, faults>>
    BY <2>1 DEF Refer, Unrefer
  <2>4. SourceTypeOK'
    BY <2>2, <2>3 DEF SourceInv, SourceTypeOK
  <2> QED
    BY <2>3, <2>4 DEF SourceInv, Fetched
<1> QED
  BY <1>1, <1>2, <1>3, <1>4, <1>5, <1>6

\* Every step keeps the invariant.
LEMMA SourceInvStep == SourceInv /\ [SourceNext]_sourceVars => SourceInv'
<1> SUFFICES ASSUME SourceInv, [SourceNext]_sourceVars PROVE SourceInv'
  OBVIOUS
<1>1. CASE BeginRefresh
  BY <1>1 DEF BeginRefresh, SourceInv, SourceTypeOK, Fetched
<1>2. CASE \E t \in Tasks : ExpireTask(t)
  BY <1>2, SourcesAssumption DEF ExpireTask, SourceInv, SourceTypeOK, Fetched
<1>3. CASE UNCHANGED sourceVars
  BY <1>3 DEF sourceVars, SourceInv, SourceTypeOK, Fetched
<1> QED
  BY <1>1, <1>2, <1>3, AskedStep, FetchStep DEF SourceNext

(***************************************************************************)
(* Sources, tasks and threads keep their types, and the schema that is     *)
(* cached is never one that the database has yet to show, for any number   *)
(* of fetches that overtake each other (datasources.py:132).               *)
(***************************************************************************)
THEOREM SourceTypeCorrect == SourceSpec => []SourceTypeOK
<1>1. SourceInv => SourceTypeOK
  BY DEF SourceInv
<1> QED
  BY <1>1, SourceInitInv, SourceInvStep, PTL DEF SourceSpec

-----------------------------------------------------------------------------
(* The components side by side *)

BackgroundInv == part \in Parts /\ ReportInv /\ JobInv /\ SourceInv /\ IInv

\* A component that moves keeps its invariant, and the others keep theirs.
LEMMA BackgroundInvStep == BackgroundInv /\ [BackgroundNext]_backgroundVars => BackgroundInv'
<1> SUFFICES ASSUME BackgroundInv, [BackgroundNext]_backgroundVars PROVE BackgroundInv'
  OBVIOUS
<1>1. /\ UNCHANGED part
      /\ [ReportNext]_reportVars /\ [JobNext]_jobVars /\ [SourceNext]_sourceVars /\ [Next]_vars
  BY DEF BackgroundNext, backgroundVars
<1> QED
  BY <1>1, ReportInvStep, JobInvStep, SourceInvStep, NextIInv DEF BackgroundInv

\* The components that work behind the requests keep their types next to each other.
THEOREM BackgroundTypeCorrect == BackgroundSpec => []BackgroundTypeOK
<1>1. BackgroundInit => BackgroundInv
  BY ReportInitInv, JobInitInv, SourceInitInv, InitIInv DEF BackgroundInit, BackgroundInv
<1>2. BackgroundInv => BackgroundTypeOK
  BY DEF BackgroundInv, BackgroundTypeOK, ReportInv, JobInv, SourceInv, IInv
<1> QED
  BY <1>1, <1>2, BackgroundInvStep, PTL DEF BackgroundSpec
=============================================================================
