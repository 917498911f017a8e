---------------------------- MODULE FailureReports ----------------------------
(***************************************************************************)
(* Reports about failed executions of scheduled queries.  Executions push  *)
(* their errors to one Redis list per owner; every hour a pass of          *)
(* send_aggregated_failure_reports_task reads the list of each owner,      *)
(* enqueues one mail about it and deletes the list.  The mail is sent by a *)
(* task of the default worker, which nothing repeats.                      *)
(***************************************************************************)
EXTENDS Naturals, Sequences

CONSTANTS
    Owners,     \* users who own scheduled queries
    Errors,     \* pushes, each at most once: what bounds the model
    Reporters,  \* threads of the periodic worker that may execute a pass
    MaxDeaths   \* bound: passes that end in an exception or with their process

ASSUME MaxDeathsAssumption == MaxDeaths \in Nat

VARIABLES
    errorList,    \* the errors in the Redis list of each owner
    pass,         \* what each pass is about to do
    outbox,       \* mails the default worker has yet to send
    deaths,       \* number of passes that have died
    pushed,       \* history: errors that have been pushed
    mailed,       \* history: errors in mails that have been tried to send
    announced,    \* history: errors in mails that have been enqueued
    announcedTwice, \* history: errors in two of them
    raced,        \* history: errors pushed while a pass had read and not yet deleted the list
    doubled       \* history: errors of a list two passes had in hand, or a pass died with

reportVars == <<errorList, pass, outbox, deaths, pushed, mailed,
                announced, announcedTwice, raced, doubled>>
reportHistory == <<pushed, mailed, announced, announcedTwice, raced, doubled>>

NoPass == [phase |-> "idle"]

ReportInit ==
    /\ errorList = [o \in Owners |-> {}]
    /\ pass = [r \in Reporters |-> NoPass]
    /\ outbox = <<>>
    /\ deaths = 0
    /\ pushed = {}
    /\ mailed = {}
    /\ announced = {}
    /\ announcedTwice = {}
    /\ raced = {}
    /\ doubled = {}

\* The pass has read the list of o and not yet deleted it
InHand(r, o) == pass[r].phase \in {"read", "sent"} /\ pass[r].owner = o

\* _push_to_notification_queue, for an error that is to be reported
Push(o, e) ==
    /\ e \notin pushed
    /\ errorList' = [errorList EXCEPT ![o] = @ \cup {e}]
    /\ pushed' = pushed \cup {e}
    /\ raced' = IF \E r \in Reporters : InHand(r, o) THEN raced \cup {e} ELSE raced
    /\ UNCHANGED <<pass, outbox, deaths, mailed, announced, announcedTwice, doubled>>

(***************************************************************************)
(* The hour has come.  scan_iter finds every list that is there throughout *)
(* the scan; one that comes or goes meanwhile may be found or not.         *)
(***************************************************************************)
BeginPass(r) ==
    /\ pass[r].phase = "idle"
    /\ \E found \in SUBSET Owners :
        /\ { o \in Owners : errorList[o] # {} } \subseteq found
        /\ found # {}
        /\ pass' = [pass EXCEPT ![r] = [phase |-> "scan", todo |-> found]]
    /\ UNCHANGED <<errorList, outbox, deaths, reportHistory>>

\* The rest of the scan, once nothing of the owner is left to do
Rest(todo) == IF todo = {} THEN NoPass ELSE [phase |-> "scan", todo |-> todo]

\* The list is taken and deleted in one go
TakeErrors(r, o) ==
    /\ pass[r].phase = "scan"
    /\ o \in pass[r].todo
    /\ LET todo == pass[r].todo \ {o}
       IN  pass' = [pass EXCEPT ![r] =
                IF errorList[o] = {} THEN Rest(todo)
                ELSE [phase |-> "read", owner |-> o, errors |-> errorList[o], todo |-> todo]]
    /\ errorList' = [errorList EXCEPT ![o] = {}]
    /\ UNCHANGED <<outbox, deaths, reportHistory>>

\* lrange; an empty list is passed over
ReadErrors(r, o) ==
    /\ pass[r].phase = "scan"
    /\ o \in pass[r].todo
    /\ LET todo == pass[r].todo \ {o}
       IN  pass' = [pass EXCEPT ![r] =
                IF errorList[o] = {} THEN Rest(todo)
                ELSE [phase |-> "read", owner |-> o, errors |-> errorList[o], todo |-> todo]]
    /\ doubled' = IF \E other \in Reporters \ {r} : InHand(other, o)
                  THEN doubled \cup errorList[o] ELSE doubled
    /\ UNCHANGED <<errorList, outbox, deaths, pushed, mailed,
                   announced, announcedTwice, raced>>

\* send_mail_task(...) enqueues the mail about what has been read
SendReport(r) ==
    /\ pass[r].phase = "read"
    /\ outbox' = Append(outbox, pass[r].errors)
    /\ pass' = [pass EXCEPT ![r].phase = "sent"]
    /\ announced' = announced \cup pass[r].errors
    /\ announcedTwice' = announcedTwice \cup (announced \cap pass[r].errors)
    /\ UNCHANGED <<errorList, deaths, pushed, mailed, raced, doubled>>

\* The list is left to expire
ForgetList(r) ==
    /\ pass[r].phase = "sent"
    /\ pass' = [pass EXCEPT ![r] = Rest(pass[r].todo)]
    /\ UNCHANGED <<errorList, outbox, deaths, reportHistory>>

\* delete(errors_key), whatever the list has become since
DeleteErrors(r) ==
    /\ pass[r].phase = "sent"
    /\ errorList' = [errorList EXCEPT ![pass[r].owner] = {}]
    /\ pass' = [pass EXCEPT ![r] = Rest(pass[r].todo)]
    /\ UNCHANGED <<outbox, deaths, reportHistory>>

\* The thread does not come back
LoseThread(r) ==
    /\ pass[r].phase # "idle"
    /\ deaths < MaxDeaths
    /\ deaths' = deaths + 1
    /\ pass' = [pass EXCEPT ![r] = [phase |-> "dead"]]
    /\ doubled' = IF pass[r].phase = "sent" THEN doubled \cup pass[r].errors ELSE doubled
    /\ UNCHANGED <<errorList, outbox, pushed, mailed, announced, announcedTwice, raced>>

(***************************************************************************)
(* Postgres, Redis or a template raises, or the process dies: the owners   *)
(* that are still to come are left to the next pass.                       *)
(***************************************************************************)
PassDies(r) ==
    /\ pass[r].phase # "idle"
    /\ deaths < MaxDeaths
    /\ deaths' = deaths + 1
    /\ pass' = [pass EXCEPT ![r] = NoPass]
    /\ doubled' = IF pass[r].phase = "sent" THEN doubled \cup pass[r].errors ELSE doubled
    /\ UNCHANGED <<errorList, outbox, pushed, mailed, announced, announcedTwice, raced>>

\* send_mail_task is executed: the mail is sent, or the exception logged and the mail gone
SendMail ==
    /\ outbox # <<>>
    /\ outbox' = Tail(outbox)
    /\ mailed' = mailed \cup Head(outbox)
    /\ UNCHANGED <<errorList, pass, deaths, pushed, announced, announcedTwice, raced, doubled>>

ReportStep(r) ==
    \/ BeginPass(r)
    \/ \E o \in Owners : ReadErrors(r, o)
    \/ SendReport(r)
    \/ DeleteErrors(r)

ReportNext ==
    \/ \E o \in Owners, e \in Errors : Push(o, e)
    \/ \E r \in Reporters : ReportStep(r) \/ PassDies(r)
    \/ SendMail

(***************************************************************************)
(* The pass is a periodic task and comes again every hour; threads go on   *)
(* unless they die; the default worker gets to every task in its queue.    *)
(***************************************************************************)
ReportFairness ==
    /\ \A r \in Reporters : WF_reportVars(ReportStep(r))
    /\ WF_reportVars(SendMail)

ReportSpec == ReportInit /\ [][ReportNext]_reportVars /\ ReportFairness
-----------------------------------------------------------------------------
ReportTypeOK ==
    /\ errorList \in [Owners -> SUBSET pushed]
    /\ pass \in [Reporters ->
          {NoPass} \cup [phase : {"scan"}, todo : SUBSET Owners]
                   \cup [phase : {"read", "sent"}, owner : Owners,
                         errors : SUBSET pushed, todo : SUBSET Owners]]
    /\ outbox \in Seq(SUBSET announced)
    /\ deaths \in 0..MaxDeaths
    /\ pushed \subseteq Errors
    /\ mailed \subseteq announced
    /\ announcedTwice \subseteq announced
    /\ announced \cup raced \cup doubled \subseteq pushed

InOutbox(e) == \E i \in DOMAIN outbox : e \in outbox[i]

(***************************************************************************)
(* Wherever a pass dies, an error that has been pushed is still in its     *)
(* list or its mail is enqueued or has been tried; the only ones that can  *)
(* vanish are those the TODO at failure_reports.py:63 names, pushed while  *)
(* a pass had read the list and not yet deleted it.                        *)
(***************************************************************************)
ErrorsAccountedFor ==
    \A e \in pushed \ raced :
        \/ \E o \in Owners : e \in errorList[o]
        \/ InOutbox(e)
        \/ e \in mailed

(***************************************************************************)
(* No error is reported twice unless two passes had its list in hand at    *)
(* once or a pass died between the mail and the deletion                   *)
(* (failure_reports.py:61-65).                                             *)
(***************************************************************************)
AnnouncedOnce == announcedTwice \subseteq doubled

(***************************************************************************)
(* Every error that was not pushed in that gap is eventually mailed, or    *)
(* tried to, whichever owners make passes die.                             *)
(***************************************************************************)
EveryErrorIsMailed ==
    \A e \in Errors : e \in pushed ~> e \in mailed \cup raced
=============================================================================
