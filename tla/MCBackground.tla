------------------------------ MODULE MCBackground ------------------------------
(***************************************************************************)
(* Components that work behind the requests and must get on, on small      *)
(* instances.  They have no state in common, so one run explores their     *)
(* state spaces side by side instead of their product: `part`, chosen      *)
(* initially, says which component moves.                                  *)
(***************************************************************************)
EXTENDS FailureReports, JobStatus, DataSources, MCScheduledQuery

VARIABLE part

Parts == {"reports", "jobs", "schemas", "schedule"}

backgroundVars == <<part, reportVars, jobVars, sourceVars, vars>>

\* A component that does not move has but one initial state
BackgroundInit ==
    /\ part \in Parts
    /\ ReportInit /\ JobInit /\ SourceInit /\ Init
    /\ part # "jobs" => source = CHOOSE f \in [Jobs -> JobSources] : TRUE
    /\ part # "schedule" => schedule = CHOOSE s \in Schedules : TRUE

BackgroundNext ==
    /\ UNCHANGED part
    /\ \/ part = "reports" /\ ReportNext /\ UNCHANGED <<jobVars, sourceVars, vars>>
       \/ part = "jobs" /\ JobNext /\ UNCHANGED <<reportVars, sourceVars, vars>>
       \/ part = "schemas" /\ SourceNext /\ UNCHANGED <<reportVars, jobVars, vars>>
       \/ part = "schedule" /\ Next /\ UNCHANGED <<reportVars, jobVars, sourceVars>>

\* ReportFairness, JobFairness and SourceFairness, each for the behaviours of its component
BackgroundFairness ==
    /\ \A r \in Reporters : WF_reportVars(part = "reports" /\ ReportStep(r))
    /\ WF_reportVars(part = "reports" /\ SendMail)
    /\ \A j \in Jobs : WF_jobVars(part = "jobs" /\ WorkerStep(j))
                    /\ WF_jobVars(part = "jobs" /\ Poll(j))
    /\ WF_sourceVars(part = "schemas" /\ BeginRefresh)
    /\ \A d \in DataSourceIds : WF_sourceVars(part = "schemas" /\ RefreshOne(d))
    /\ \A t \in Tasks : SF_sourceVars(part = "schemas" /\ \E w \in Fetchers : StartFetch(w, t))
    /\ \A w \in Fetchers : WF_sourceVars(part = "schemas" /\ StoreSchema(w))

BackgroundSpec ==
    BackgroundInit /\ [][BackgroundNext]_backgroundVars /\ BackgroundFairness

\* The variables of each component have their types.
BackgroundTypeOK == part \in Parts /\ ReportTypeOK /\ JobTypeOK /\ SourceTypeOK /\ TypeOK
=============================================================================
