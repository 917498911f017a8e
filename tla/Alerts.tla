------------------------------- MODULE Alerts -------------------------------
(***************************************************************************)
(* The alerts of one query.  A check is a task of the default worker; at   *)
(* this commit the call that enqueues it is commented out in               *)
(* run_query_task, and the model has it start whenever it may.  A check    *)
(* evaluates each alert on the latest result, commits a change of state,   *)
(* and then notifies the subscribers one by one; a TRIGGERED alert with a  *)
(* rearm period is repeated.  Users create, mute, unmute and delete        *)
(* alerts, subscribe to them and add and remove destinations meanwhile.    *)
(***************************************************************************)
EXTENDS Integers

CONSTANTS
    AlertIds,      \* alerts of the query
    Condition,     \* [AlertIds -> Conditions]
    Rearm,         \* [AlertIds -> Nat], 0 for none
    Observations,  \* what the first row of a result may hold in the alerts' columns
    Subscriptions, \* ids of subscriptions
    Destinations,  \* notification destinations
    Checkers,      \* threads that may execute a check
    MaxChecks,     \* bound: checks in all
    MaxMoment      \* bound: the last moment

UNKNOWN == "unknown"
OK == "ok"
TRIGGERED == "triggered"
States == {UNKNOWN, OK, TRIGGERED}

(***************************************************************************)
(* What JSON can hold in a cell, with its rank among its like.  A numeral  *)
(* is a text that reads as a number; a condition has no boolean threshold. *)
(***************************************************************************)
Cells == [kind : {"number", "numeral", "text", "boolean"}, rank : Nat] \cup [kind : {"null"}]
Conditions == [op : {">", ">=", "<", "<=", "==", "!=", "other"},
               threshold : { cell \in Cells : cell.kind # "boolean" }]

ASSUME ConditionAssumption == Condition \in [AlertIds -> Conditions]
ASSUME RearmAssumption == Rearm \in [AlertIds -> Nat]
\* No row, or none of the alert's column
NoValue == [kind |-> "absent"]

ASSUME ObservationsAssumption == Observations \subseteq Cells \cup {NoValue}
ASSUME ChecksAssumption == MaxChecks \in Nat /\ MaxMoment \in Nat
ASSUME DestinationsAssumption == "mail" \notin Destinations

VARIABLES
    alertRow,      \* alerts.state, last_triggered_at and options.muted
    subscription,  \* the row of each subscription: its alert and where it goes
    destinationRow,\* the destinations there are
    check,         \* what each thread is about to do
    moment,        \* the clock
    checks,        \* number of checks so far
    told,          \* history: the state each subscriber was told last, and the moment of its commit
    excused,       \* history: subscribers who need not have been told the state
    overlapped     \* history: alerts two checks have had in hand at once

alertVars == <<alertRow, subscription, destinationRow, check, moment, checks, told, excused, overlapped>>

Never == -1
NoAlert == [state |-> "none"]
Deleted == [state |-> "deleted"]
NoSubscription == [to |-> "nobody"]
NoCheck == [phase |-> "idle"]

Mail == "mail"
Exists(a) == alertRow[a] \notin {NoAlert, Deleted}
SubscribersOf(a) == { s \in Subscriptions : subscription[s] # NoSubscription /\ subscription[s].alert = a }

AlertInit ==
    /\ alertRow = [a \in AlertIds |-> NoAlert]
    /\ subscription = [s \in Subscriptions |-> NoSubscription]
    /\ destinationRow = {}
    /\ check = [c \in Checkers |-> NoCheck]
    /\ moment = 0
    /\ checks = 0
    /\ told = [s \in Subscriptions |-> [state |-> UNKNOWN, at |-> Never]]
    /\ excused = {}
    /\ overlapped = {}
-----------------------------------------------------------------------------
(***************************************************************************)
(* Evaluation                                                              *)
(***************************************************************************)
\* A Python comparison: of unlike types only == and != are defined
Holds(op, value, threshold) ==
    LET like == value.kind = threshold.kind
    IN  CASE op = "other" -> FALSE
          [] op = "=="    -> value = threshold
          [] op = "!="    -> value # threshold
          [] like /\ op = ">"  -> value.rank > threshold.rank
          [] like /\ op = ">=" -> value.rank >= threshold.rank
          [] like /\ op = "<"  -> value.rank < threshold.rank
          [] like /\ op = "<=" -> value.rank <= threshold.rank

Comparable(op, value, threshold) ==
    op \in {"other", "==", "!="} \/ value.kind = threshold.kind

\* A numeral is read as a number, a boolean as the text "true" or "false"
AsNumber(cell) == IF cell.kind = "numeral" THEN [kind |-> "number", rank |-> cell.rank] ELSE cell
AsText(cell) ==
    IF cell.kind \in {"boolean", "numeral"} THEN [kind |-> "text", rank |-> cell.rank] ELSE cell

\* float(None) and comparisons of unlike types raise; a threshold that is no number gives UNKNOWN
NextState(op, value, threshold) ==
    LET shown == IF value.kind = "boolean" THEN AsText(value) ELSE AsNumber(value)
        limit == IF shown.kind = "number" THEN AsNumber(threshold) ELSE AsText(threshold)
    IN  CASE shown.kind = "null" -> "raises"
          [] shown.kind = "number" /\ limit.kind = "null" -> "raises"
          [] shown.kind = "number" /\ limit.kind = "text" -> UNKNOWN
          [] OTHER -> IF ~Comparable(op, shown, limit) THEN "raises"
                      ELSE IF Holds(op, shown, limit) THEN TRIGGERED ELSE OK

\* Alert.evaluate
Verdict(a, value) ==
    IF value = NoValue THEN UNKNOWN
    ELSE NextState(Condition[a].op, value, Condition[a].threshold)

\* should_notify, but for the strictness of the rearm period
EveryRearm(a, row, state) ==
    \/ state # row.state
    \/ row.state = TRIGGERED /\ Rearm[a] # 0

ShouldNotify(a, row, state) ==
    \/ state # row.state
    \/ /\ row.state = TRIGGERED
       /\ Rearm[a] # 0 /\ row.last # Never
       /\ row.last + Rearm[a] < moment
-----------------------------------------------------------------------------
(***************************************************************************)
(* check_alerts_for_query_task                                             *)
(***************************************************************************)
\* Some other check has a copy of the alert
OtherCheck(c, a) == 
    \E other \in Checkers \ {c} :
        check[other].phase # "idle" /\ a \in DOMAIN check[other].copy

\* The query and its alerts are loaded
BeginCheck(c) ==
    /\ check[c] = NoCheck
    /\ checks < MaxChecks
    /\ checks' = checks + 1
    /\ LET found == { a \in AlertIds : Exists(a) }
       IN  /\ found # {}
           /\ check' = [check EXCEPT ![c] = [phase |-> "loop", todo |-> found,
                                             copy |-> [a \in found |-> alertRow[a]]]]
           /\ overlapped' = overlapped \cup { a \in found : OtherCheck(c, a) }
    /\ UNCHANGED <<alertRow, subscription, destinationRow, moment, told, excused>>

\* The alerts that are left, if any
Continue(todo, copy) ==
    IF todo = {} THEN NoCheck ELSE [phase |-> "loop", todo |-> todo, copy |-> copy]

EndCheck(c) == check' = [check EXCEPT ![c] = NoCheck]

\* Nobody is told when the state turns from UNKNOWN to OK, nor while the alert is muted
Silent(copy, state) ==
    \/ copy.state = UNKNOWN /\ state = OK
    \/ copy.muted

\* The moment is committed and the state, if it is not the one loaded, and no other column
CommitState(a, copy, state) ==
    alertRow' = [alertRow EXCEPT ![a].state = IF state = copy.state THEN @ ELSE state,
                                 ![a].last = moment]

(***************************************************************************)
(* One alert is evaluated; if it should notify, its state is committed     *)
(* before anybody is told.                                                 *)
(***************************************************************************)
Examine(c, a, value) ==
    /\ check[c].phase = "loop"
    /\ a \in check[c].todo
    /\ LET copy  == check[c].copy[a]
           todo  == check[c].todo \ {a}
           state == Verdict(a, value)
       IN  /\ state # "raises"
           /\ IF ~ShouldNotify(a, copy, state)
              THEN /\ check' = [check EXCEPT ![c] = Continue(todo, check[c].copy)]
                   /\ UNCHANGED <<alertRow, excused>>
              ELSE /\ Exists(a)
                   /\ CommitState(a, copy, state)
                   /\ check' = [check EXCEPT ![c] =
                         IF Silent(copy, state) \/ SubscribersOf(a) = {}
                         THEN Continue(todo, check[c].copy)
                         ELSE [phase |-> "notify", todo |-> todo, copy |-> check[c].copy,
                               alert |-> a, state |-> state, at |-> moment,
                               left |-> SubscribersOf(a)]]
                   /\ excused' = IF copy.muted THEN excused \cup SubscribersOf(a) ELSE excused
    /\ UNCHANGED <<subscription, destinationRow, moment, checks, told, overlapped>>

(***************************************************************************)
(* The evaluation raises, or the alert to update has been deleted          *)
(* (StaleDataError), or the process dies: the alerts behind are not        *)
(* examined, and the subscribers that are left not told.                   *)
(***************************************************************************)
CheckDies(c) ==
    /\ check[c].phase # "idle"
    /\ EndCheck(c)
    /\ excused' = IF check[c].phase = "notify" THEN excused \cup check[c].left ELSE excused
    /\ UNCHANGED <<alertRow, subscription, destinationRow, moment, checks, told, overlapped>>

\* The first exception ends the loop over the subscribers
NotifyUntilFailure(c, s, reached) ==
    /\ check[c].phase = "notify"
    /\ s \in check[c].left
    /\ LET left == IF reached THEN check[c].left \ {s} ELSE {}
       IN  check' = [check EXCEPT ![c] =
              IF left = {} THEN Continue(check[c].todo, check[c].copy)
              ELSE [check[c] EXCEPT !.left = left]]
    /\ IF reached
       THEN /\ told' = [told EXCEPT ![s] = [state |-> check[c].state, at |-> check[c].at]]
            /\ excused' = excused \ {s}
       ELSE /\ excused' = excused \cup {s}
            /\ UNCHANGED told
    /\ UNCHANGED <<alertRow, subscription, destinationRow, moment, checks, overlapped>>

\* subscription.notify: the message goes out or an exception is logged, and the next one follows
NotifySubscriber(c, s, reached) ==
    /\ check[c].phase = "notify"
    /\ s \in check[c].left
    /\ LET left == check[c].left \ {s}
       IN  check' = [check EXCEPT ![c] =
              IF left = {} THEN Continue(check[c].todo, check[c].copy)
              ELSE [check[c] EXCEPT !.left = left]]
    /\ IF reached
       THEN /\ told' = [told EXCEPT ![s] = [state |-> check[c].state, at |-> check[c].at]]
            /\ excused' = excused \ {s}
       ELSE /\ excused' = excused \cup {s}
            /\ UNCHANGED told
    /\ UNCHANGED <<alertRow, subscription, destinationRow, moment, checks, overlapped>>
-----------------------------------------------------------------------------
(***************************************************************************)
(* Requests                                                                *)
(***************************************************************************)
CreateAlert(a, muted) ==
    /\ alertRow[a] = NoAlert
    /\ alertRow' = [alertRow EXCEPT ![a] = [state |-> UNKNOWN, last |-> Never, muted |-> muted]]
    /\ UNCHANGED <<subscription, destinationRow, check, moment, checks, told, excused, overlapped>>

\* Mute or unmute; an edit sends options along and may do either
SetMuted(a, muted) ==
    /\ Exists(a)
    /\ alertRow' = [alertRow EXCEPT ![a].muted = muted]
    /\ UNCHANGED <<subscription, destinationRow, check, moment, checks, told, excused, overlapped>>

\* The subscriptions go with the alert (delete-orphan)
DeleteAlert(a) ==
    /\ Exists(a)
    /\ alertRow' = [alertRow EXCEPT ![a] = Deleted]
    /\ subscription' = [s \in Subscriptions |->
          IF s \in SubscribersOf(a) THEN NoSubscription ELSE subscription[s]]
    /\ UNCHANGED <<destinationRow, check, moment, checks, told, excused, overlapped>>

\* The unique index on destination and alert, which mail (a null destination) escapes
IndexAllows(a, to) == to # Mail => \A s \in SubscribersOf(a) : subscription[s].to # to

Subscribe(s, a, to) ==
    /\ subscription[s] = NoSubscription
    /\ \A c \in Checkers : check[c].phase = "notify" => s \notin check[c].left
    /\ Exists(a)
    /\ to \in destinationRow \cup {Mail}
    /\ IndexAllows(a, to)
    /\ subscription' = [subscription EXCEPT ![s] = [alert |-> a, to |-> to]]
    /\ excused' = excused \cup {s}
    /\ UNCHANGED <<alertRow, destinationRow, check, moment, checks, told, overlapped>>

Unsubscribe(s) ==
    /\ subscription[s] # NoSubscription
    /\ subscription' = [subscription EXCEPT ![s] = NoSubscription]
    /\ UNCHANGED <<alertRow, destinationRow, check, moment, checks, told, excused, overlapped>>

AddDestination(d) ==
    /\ d \notin destinationRow
    /\ destinationRow' = destinationRow \cup {d}
    /\ UNCHANGED <<alertRow, subscription, check, moment, checks, told, excused, overlapped>>

\* The foreign key of the subscriptions refuses to let go of a destination in use
DeleteDestination(d) ==
    /\ d \in destinationRow
    /\ \A s \in Subscriptions : subscription[s] # NoSubscription => subscription[s].to # d
    /\ destinationRow' = destinationRow \ {d}
    /\ UNCHANGED <<alertRow, subscription, check, moment, checks, told, excused, overlapped>>

AlertTick ==
    /\ moment < MaxMoment
    /\ moment' = moment + 1
    /\ UNCHANGED <<alertRow, subscription, destinationRow, check, checks, told, excused, overlapped>>

AlertNext ==
    \/ \E c \in Checkers :
        \/ BeginCheck(c)
        \/ \E a \in AlertIds, value \in Observations : Examine(c, a, value)
        \/ \E s \in Subscriptions, reached \in BOOLEAN : NotifySubscriber(c, s, reached)
        \/ CheckDies(c)
    \/ \E a \in AlertIds :
        \/ \E muted \in BOOLEAN : CreateAlert(a, muted) \/ SetMuted(a, muted)
        \/ DeleteAlert(a)
        \/ \E s \in Subscriptions, to \in Destinations \cup {Mail} : Subscribe(s, a, to)
    \/ \E s \in Subscriptions : Unsubscribe(s)
    \/ \E d \in Destinations : AddDestination(d) \/ DeleteDestination(d)
    \/ AlertTick

AlertSpec == AlertInit /\ [][AlertNext]_alertVars
-----------------------------------------------------------------------------
AlertRows == [state : States, last : 0..MaxMoment \cup {Never}, muted : BOOLEAN]

AlertTypeOK ==
    /\ alertRow \in [AlertIds -> AlertRows \cup {NoAlert, Deleted}]
    /\ \A s \in Subscriptions : subscription[s] # NoSubscription =>
          /\ Exists(subscription[s].alert)
          /\ subscription[s].to \in destinationRow \cup {Mail}
    /\ destinationRow \subseteq Destinations
    /\ \A c \in Checkers : check[c] # NoCheck =>
          /\ check[c].phase \in {"loop", "notify"}
          /\ check[c].todo \subseteq DOMAIN check[c].copy
          /\ check[c].phase = "notify" => check[c].left # {} /\ check[c].state \in States
    /\ moment \in 0..MaxMoment
    /\ checks \in 0..MaxChecks
    /\ told \in [Subscriptions -> [state : States, at : 0..MaxMoment \cup {Never}]]
    /\ excused \subseteq Subscriptions
    /\ overlapped \subseteq AlertIds

Resting(a) == \A c \in Checkers : check[c].phase = "notify" => check[c].alert # a

(***************************************************************************)
(* A subscriber whom the last message has reached knows the state of the   *)
(* alert, whichever other subscribers' destinations fail, unless the alert *)
(* was muted at the last change, the check died or another one overlapped  *)
(* it.  Only a turn from UNKNOWN to OK goes unsaid                         *)
(* (check_alerts_for_query.py:22-54).                                      *)
(***************************************************************************)
SubscribersKnow ==
    \A s \in Subscriptions \ excused :
        LET a == subscription[s].alert
        IN  subscription[s] # NoSubscription /\ Resting(a) /\ a \notin overlapped =>
               \/ told[s].state = alertRow[a].state
               \/ told[s].state = UNKNOWN /\ alertRow[a].state = OK

(***************************************************************************)
(* Who has been told a state is told it once more only as a reminder that  *)
(* the alert is TRIGGERED, more than the rearm period after the last time, *)
(* or because it is UNKNOWN again after an OK that went unsaid, however    *)
(* often the query is executed, unless checks overlap                      *)
(* (check_alerts_for_query.py:22-57).                                      *)
(***************************************************************************)
RemindersKeepTheirDistance ==
    [][\A c \in Checkers, s \in Subscriptions \ excused :
         LET a == check[c].alert
         IN  /\ NotifySubscriber(c, s, TRUE)
             /\ a \notin overlapped
             /\ told[s].state = check[c].state
             => \/ check[c].state = UNKNOWN
                \/ /\ check[c].state = TRIGGERED
                   /\ Rearm[a] > 0
                   /\ told[s].at + Rearm[a] < check[c].at]_alertVars
=============================================================================
