-------------------------- MODULE ConfigurationProofs --------------------------
(***************************************************************************)
(* Proofs about Alerts, for every number of alerts, subscriptions, checks  *)
(* and moments, Configuration, for every number of editors and executions, *)
(* and Parameters, for every number of requests, users and data sources.   *)
(***************************************************************************)
EXTENDS Alerts, Configuration, Parameters, TLAPS

-----------------------------------------------------------------------------
(* Alerts *)

\* A check has a copy of the alert, or has the subscriber still to notify
InHand(c, a) == check[c].phase # "idle" /\ a \in DOMAIN check[c].copy
Notifies(c, s) == check[c].phase = "notify" /\ s \in check[c].left
SubscribedTo(s, a) == subscription[s] # NoSubscription /\ subscription[s].alert = a

CheckType(c) ==
    check[c].phase # "idle" =>
        /\ check[c].phase \in {"loop", "notify"}
        /\ DOMAIN check[c].copy \subseteq AlertIds
        /\ check[c].todo \subseteq DOMAIN check[c].copy
        /\ \A a \in DOMAIN check[c].copy : check[c].copy[a] \in AlertRows /\ alertRow[a] # NoAlert
        /\ check[c].phase = "notify" =>
              /\ check[c].alert \in DOMAIN check[c].copy \ check[c].todo
              /\ check[c].left # {} /\ check[c].left \subseteq Subscriptions
              /\ check[c].state \in States
              /\ check[c].at \in 0..MaxMoment

\* The types, and what holds of alerts whether or not checks overlap
AlertShape ==
    /\ AlertTypeOK
    /\ check = [c \in Checkers |-> check[c]]
    /\ \A c \in Checkers : CheckType(c) /\ (check[c].phase = "idle" => check[c] = NoCheck)
    /\ subscription = [s \in Subscriptions |-> subscription[s]]
    /\ \A s \in Subscriptions :
          subscription[s] # NoSubscription => subscription[s].alert \in AlertIds
    /\ \A a \in AlertIds : Exists(a) => alertRow[a].last <= moment
    /\ \A c \in Checkers, s \in Subscriptions :
          Notifies(c, s) => subscription[s] = NoSubscription \/ SubscribedTo(s, check[c].alert)
    /\ \A c, d \in Checkers, s \in Subscriptions :
          Notifies(c, s) /\ Notifies(d, s) => check[c].alert = check[d].alert

\* One check at most has a copy, which is up to date until it is examined
OneCopy(a) ==
    /\ \A c, d \in Checkers : InHand(c, a) /\ InHand(d, a) => c = d
    /\ \A c \in Checkers : InHand(c, a) /\ a \in check[c].todo /\ Exists(a) =>
          /\ check[c].copy[a].state = alertRow[a].state
          /\ check[c].copy[a].last = alertRow[a].last

\* What is being said is the state of the alert
SaysTheState(a) ==
    \A c \in Checkers : check[c].phase = "notify" /\ check[c].alert = a /\ Exists(a) =>
        /\ check[c].state = alertRow[a].state
        /\ check[c].at = alertRow[a].last

\* The state, or the one before an OK that goes unsaid
Knows(s, a) ==
    /\ told[s].at <= alertRow[a].last
    /\ \/ told[s].state = alertRow[a].state
       \/ told[s].state = UNKNOWN /\ alertRow[a].state = OK

\* Subscribers know or are about to be told
Informed(a) ==
    \A s \in Subscriptions \ excused :
        SubscribedTo(s, a) => Knows(s, a) \/ \E c \in Checkers : Notifies(c, s)

\* A reminder, or UNKNOWN once more
WorthRepeating(c, s) ==
    told[s].state = check[c].state =>
        \/ check[c].state = UNKNOWN
        \/ /\ check[c].state = TRIGGERED
           /\ Rearm[check[c].alert] > 0
           /\ told[s].at + Rearm[check[c].alert] < check[c].at
Spaced(a) ==
    \A c \in Checkers, s \in Subscriptions \ excused :
        Notifies(c, s) /\ check[c].alert = a => WorthRepeating(c, s)

AlertInv ==
    /\ AlertShape
    /\ \A a \in AlertIds \ overlapped : OneCopy(a) /\ SaysTheState(a) /\ Informed(a) /\ Spaced(a)

LEMMA RowsAreSomething ==
    /\ \A row \in AlertRows : row # NoAlert /\ row # Deleted
    /\ \A row \in AlertRows : row.state \in States /\ row.last \in 0..MaxMoment \cup {Never}
    /\ NoAlert # Deleted
  BY DEF AlertRows, NoAlert, Deleted, States, UNKNOWN, OK, TRIGGERED

LEMMA SubscriptionsAreSomething ==
    \A a, to : [alert |-> a, to |-> to] # NoSubscription
  <1> TAKE a, to
  <1>1. "alert" \in DOMAIN [alert |-> a, to |-> to] /\ "alert" \notin DOMAIN NoSubscription
    BY DEF NoSubscription
  <1> QED BY <1>1

\* There are no alerts in the beginning.
LEMMA AlertInvInit == AlertInit => AlertInv
  <1> SUFFICES ASSUME AlertInit PROVE AlertInv
    OBVIOUS
  <1>1. AlertTypeOK
    BY ChecksAssumption DEF AlertInit, AlertTypeOK, NoSubscription, NoCheck, States, UNKNOWN, Never
  <1>2. \A c \in Checkers : check[c] = NoCheck /\ check[c].phase = "idle"
    BY DEF AlertInit, NoCheck
  <1>3. \A a \in AlertIds : ~Exists(a)
    BY DEF AlertInit, Exists
  <1>4. \A s \in Subscriptions : subscription[s] = NoSubscription
    BY DEF AlertInit
  <1>5. AlertShape
    BY <1>1, <1>2, <1>3, <1>4 DEF AlertInit, AlertShape, CheckType, Notifies
  <1> QED BY <1>2, <1>4, <1>5 DEF AlertInv, OneCopy, SaysTheState, Informed, Spaced, InHand, Notifies,
        SubscribedTo

(* Users create alerts; nobody has one in hand that is new. *)
LEMMA CreateAlertKeeps ==
    ASSUME AlertInv, NEW b \in AlertIds, NEW muted \in BOOLEAN, CreateAlert(b, muted)
    PROVE  AlertInv'
  <1> USE DEF AlertInv
  <1> DEFINE new == [state |-> UNKNOWN, last |-> Never, muted |-> muted]
  <1>1. /\ alertRow' = [alertRow EXCEPT ![b] = new] /\ alertRow[b] = NoAlert
        /\ UNCHANGED <<subscription, destinationRow, check, moment, checks, told, excused, overlapped>>
    BY DEF CreateAlert
  <1>2. new \in AlertRows /\ new # NoAlert /\ new # Deleted /\ new.last = Never
    BY RowsAreSomething DEF AlertRows, States
  <1> HIDE DEF new
  <1>3. alertRow'[b] = new /\ \A a \in AlertIds \ {b} : alertRow'[a] = alertRow[a]
    BY <1>1 DEF AlertShape, AlertTypeOK
  <1>4. ~Exists(b) /\ Exists(b)' /\ \A a \in AlertIds \ {b} : Exists(a)' = Exists(a)
    BY <1>1, <1>2, <1>3 DEF Exists
  <1>5. \A s \in Subscriptions : ~SubscribedTo(s, b)
    BY <1>4 DEF AlertShape, AlertTypeOK, SubscribedTo
  <1>6. \A c \in Checkers : ~InHand(c, b)
    BY <1>1 DEF AlertShape, CheckType, InHand
  <1>7. AlertTypeOK'
    BY <1>1, <1>2, <1>4 DEF AlertShape, AlertTypeOK
  <1>8. AlertShape'
    BY <1>1, <1>2, <1>3, <1>4, <1>7 DEF AlertShape, AlertTypeOK, CheckType, Notifies, SubscribedTo, Never
  <1>9. ASSUME NEW a \in AlertIds \ overlapped'
        PROVE  OneCopy(a)' /\ SaysTheState(a)' /\ Informed(a)' /\ Spaced(a)'
    <2>1. CASE a = b
      <3>1. \A c \in Checkers : check[c].phase = "notify" => check[c].alert # b
        <4> SUFFICES ASSUME NEW c \in Checkers, check[c].phase = "notify", check[c].alert = b
                     PROVE  FALSE
          OBVIOUS
        <4>1. check[c].alert \in DOMAIN check[c].copy /\ check[c].phase # "idle"
          BY DEF AlertShape, CheckType
        <4>2. InHand(c, b)
          BY <4>1 DEF InHand
        <4> QED BY <1>6, <4>2
      <3> QED BY <1>1, <1>5, <1>6, <2>1, <3>1
              DEF OneCopy, SaysTheState, Informed, Spaced, InHand, Notifies, SubscribedTo
    <2>2. CASE a # b
      BY <1>1, <1>3, <1>4, <2>2 DEF OneCopy, SaysTheState, Informed, Spaced, InHand, Notifies,
         SubscribedTo, Knows, WorthRepeating
    <2> QED BY <2>1, <2>2
  <1> QED BY <1>8, <1>9

\* Users mute and unmute alerts, which leaves states and moments alone.
LEMMA SetMutedKeeps ==
    ASSUME AlertInv, NEW b \in AlertIds, NEW muted \in BOOLEAN, SetMuted(b, muted)
    PROVE  AlertInv'
  <1> USE DEF AlertInv
  <1> DEFINE new == [alertRow[b] EXCEPT !.muted = muted]
  <1>1. /\ alertRow' = [alertRow EXCEPT ![b] = new] /\ Exists(b)
        /\ UNCHANGED <<subscription, destinationRow, check, moment, checks, told, excused, overlapped>>
    BY DEF SetMuted
  <1>2. alertRow[b] \in AlertRows
    BY <1>1 DEF AlertShape, AlertTypeOK, Exists
  <1>3. new \in AlertRows /\ new.state = alertRow[b].state /\ new.last = alertRow[b].last
    BY <1>2 DEF AlertRows
  <1>4. new # NoAlert /\ new # Deleted
    BY <1>3, RowsAreSomething
  <1> HIDE DEF new
  <1>5. alertRow'[b] = new /\ \A a \in AlertIds \ {b} : alertRow'[a] = alertRow[a]
    BY <1>1 DEF AlertShape, AlertTypeOK
  <1>6. \A a \in AlertIds : Exists(a)' = Exists(a) /\ alertRow'[a].state = alertRow[a].state
                              /\ alertRow'[a].last = alertRow[a].last
    BY <1>1, <1>3, <1>4, <1>5 DEF Exists
  <1>7. AlertTypeOK'
    BY <1>1, <1>3, <1>6 DEF AlertShape, AlertTypeOK
  <1>8. AlertShape'
    BY <1>1, <1>4, <1>5, <1>6, <1>7 DEF AlertShape, CheckType, Notifies, SubscribedTo
  <1>9. ASSUME NEW a \in AlertIds \ overlapped'
        PROVE  OneCopy(a)' /\ SaysTheState(a)' /\ Informed(a)' /\ Spaced(a)'
    BY <1>1, <1>6 DEF OneCopy, SaysTheState, Informed, Spaced, InHand, Notifies,
         SubscribedTo, Knows, WorthRepeating
  <1> QED BY <1>8, <1>9

(* A deleted alert has no subscribers, and stays deleted for the checks    *)
(* that still have a copy.                                                 *)
LEMMA DeleteAlertKeeps ==
    ASSUME AlertInv, NEW b \in AlertIds, DeleteAlert(b) PROVE AlertInv'
  <1> USE DEF AlertInv
  <1>1. /\ alertRow' = [alertRow EXCEPT ![b] = Deleted] /\ Exists(b)
        /\ UNCHANGED <<destinationRow, check, moment, checks, told, excused, overlapped>>
    BY DEF DeleteAlert
  <1>2. /\ subscription' = [s \in Subscriptions |-> subscription'[s]]
        /\ \A s \in Subscriptions : subscription'[s] = NoSubscription \/ subscription'[s] = subscription[s]
        /\ \A s \in Subscriptions : SubscribedTo(s, b) => subscription'[s] = NoSubscription
    BY DEF DeleteAlert, SubscribersOf, SubscribedTo
  <1>3. alertRow'[b] = Deleted /\ \A a \in AlertIds \ {b} : alertRow'[a] = alertRow[a]
    BY <1>1 DEF AlertShape, AlertTypeOK
  <1>4. ~Exists(b)' /\ \A a \in AlertIds \ {b} : Exists(a)' = Exists(a)
    BY <1>3 DEF Exists
  <1>5. AlertTypeOK'
    BY <1>1, <1>2, <1>4 DEF AlertShape, AlertTypeOK, SubscribedTo
  <1>6. AlertShape'
    BY <1>1, <1>2, <1>3, <1>4, <1>5, RowsAreSomething DEF AlertShape, CheckType, Notifies, SubscribedTo
  <1>7. ASSUME NEW a \in AlertIds \ overlapped'
        PROVE  OneCopy(a)' /\ SaysTheState(a)' /\ Informed(a)' /\ Spaced(a)'
    <2>1. \A s \in Subscriptions : SubscribedTo(s, a)' => SubscribedTo(s, a) /\ a # b
      BY <1>2 DEF SubscribedTo
    <2>2. Informed(a)'
      BY <1>1, <1>3, <2>1 DEF Informed, Knows, Notifies
    <2> QED BY <1>1, <1>3, <1>4, <2>2 DEF OneCopy, SaysTheState, Spaced, InHand, Notifies, WorthRepeating
  <1> QED BY <1>6, <1>7

(* A new subscriber need not know anything. *)
LEMMA SubscribeKeeps ==
    ASSUME AlertInv, NEW t \in Subscriptions, NEW b \in AlertIds,
           NEW to \in Destinations \cup {Mail}, Subscribe(t, b, to)
    PROVE  AlertInv'
  <1> USE DEF AlertInv
  <1> DEFINE new == [alert |-> b, to |-> to]
  <1>1. /\ subscription' = [subscription EXCEPT ![t] = new] /\ Exists(b)
        /\ subscription[t] = NoSubscription /\ to \in destinationRow \cup {Mail}
        /\ \A c \in Checkers : ~Notifies(c, t)
        /\ excused' = excused \cup {t}
        /\ UNCHANGED <<alertRow, destinationRow, check, moment, checks, told, overlapped>>
    BY DEF Subscribe, Notifies
  <1>2. new # NoSubscription /\ new.alert = b /\ new.to = to
    BY SubscriptionsAreSomething
  <1> HIDE DEF new
  <1>3. subscription'[t] = new /\ \A s \in Subscriptions \ {t} : subscription'[s] = subscription[s]
    BY <1>1 DEF AlertShape
  <1>4. AlertTypeOK'
    BY <1>1, <1>2, <1>3 DEF AlertShape, AlertTypeOK, Exists
  <1>5. AlertShape'
    BY <1>1, <1>2, <1>3, <1>4 DEF AlertShape, CheckType, Exists, Notifies, SubscribedTo
  <1>6. ASSUME NEW a \in AlertIds \ overlapped'
        PROVE  OneCopy(a)' /\ SaysTheState(a)' /\ Informed(a)' /\ Spaced(a)'
    BY <1>1, <1>3 DEF OneCopy, SaysTheState, Informed, Spaced, InHand, Notifies,
         SubscribedTo, Knows, WorthRepeating, Exists
  <1> QED BY <1>5, <1>6

\* Who is no subscriber any longer need not know anything.
LEMMA UnsubscribeKeeps ==
    ASSUME AlertInv, NEW t \in Subscriptions, Unsubscribe(t) PROVE AlertInv'
  <1> USE DEF AlertInv
  <1>1. /\ subscription' = [subscription EXCEPT ![t] = NoSubscription]
        /\ UNCHANGED <<alertRow, destinationRow, check, moment, checks, told, excused, overlapped>>
    BY DEF Unsubscribe
  <1>2. /\ subscription'[t] = NoSubscription
        /\ \A s \in Subscriptions \ {t} : subscription'[s] = subscription[s]
    BY <1>1 DEF AlertShape
  <1>3. AlertTypeOK'
    BY <1>1, <1>2 DEF AlertShape, AlertTypeOK, Exists
  <1>4. AlertShape'
    BY <1>1, <1>2, <1>3 DEF AlertShape, CheckType, Exists, Notifies, SubscribedTo
  <1>5. ASSUME NEW a \in AlertIds \ overlapped'
        PROVE  OneCopy(a)' /\ SaysTheState(a)' /\ Informed(a)' /\ Spaced(a)'
    BY <1>1, <1>2 DEF OneCopy, SaysTheState, Informed, Spaced, InHand, Notifies,
         SubscribedTo, Knows, WorthRepeating, Exists
  <1> QED BY <1>4, <1>5

(* Destinations come and go, and time passes. *)
LEMMA SurroundingsKeep ==
    ASSUME AlertInv,
           AlertTick \/ \E d \in Destinations : AddDestination(d) \/ DeleteDestination(d)
    PROVE  AlertInv'
  <1> USE DEF AlertInv
  <1>1. UNCHANGED <<alertRow, subscription, check, checks, told, excused, overlapped>>
    BY DEF AlertTick, AddDestination, DeleteDestination
  <1>2. moment' \in 0..MaxMoment /\ moment <= moment'
    BY ChecksAssumption DEF AlertTick, AddDestination, DeleteDestination, AlertShape, AlertTypeOK
  <1>3. /\ destinationRow' \subseteq Destinations
        /\ \A s \in Subscriptions : subscription[s] # NoSubscription =>
               subscription[s].to \in destinationRow' \cup {Mail}
    BY DEF AlertTick, AddDestination, DeleteDestination, AlertShape, AlertTypeOK
  <1>4. AlertTypeOK'
    BY <1>1, <1>2, <1>3 DEF AlertShape, AlertTypeOK, Exists
  <1>5. \A a \in AlertIds : Exists(a) => alertRow[a].last <= moment'
    <2> SUFFICES ASSUME NEW a \in AlertIds, Exists(a) PROVE alertRow[a].last <= moment'
      OBVIOUS
    <2>1. alertRow[a] \in AlertRows
      BY DEF AlertShape, AlertTypeOK, Exists
    <2>2. alertRow[a].last \in Int /\ moment \in Int /\ alertRow[a].last <= moment
      BY <2>1, RowsAreSomething DEF AlertShape, AlertTypeOK, Never
    <2> QED BY <1>2, <2>2
  <1>6. AlertShape'
    BY <1>1, <1>4, <1>5 DEF AlertShape, CheckType, Exists, Notifies, SubscribedTo
  <1>7. ASSUME NEW a \in AlertIds \ overlapped'
        PROVE  OneCopy(a)' /\ SaysTheState(a)' /\ Informed(a)' /\ Spaced(a)'
    BY <1>1 DEF OneCopy, SaysTheState, Informed, Spaced, InHand, Notifies,
         SubscribedTo, Knows, WorthRepeating, Exists
  <1> QED BY <1>6, <1>7

(* A check loads the alerts, of which others have copies only when checks  *)
(* overlap.                                                                *)
LEMMA BeginCheckKeeps ==
    ASSUME AlertInv, NEW c \in Checkers, BeginCheck(c) PROVE AlertInv'
  <1> USE DEF AlertInv
  <1> DEFINE found == { a \in AlertIds : Exists(a) }
             copy == [a \in found |-> alertRow[a]]
             new == [phase |-> "loop", todo |-> found, copy |-> copy]
  <1>1. /\ check' = [check EXCEPT ![c] = new] /\ check[c] = NoCheck
        /\ overlapped' = overlapped \cup { a \in found : OtherCheck(c, a) }
        /\ checks' \in 0..MaxChecks
        /\ UNCHANGED <<alertRow, subscription, destinationRow, moment, told, excused>>
    BY ChecksAssumption DEF BeginCheck, AlertShape, AlertTypeOK
  <1>2. /\ new.phase = "loop" /\ new.todo = found /\ new.copy = copy
        /\ DOMAIN copy = found /\ \A a \in found : copy[a] = alertRow[a]
        /\ NoCheck.phase = "idle"
    BY DEF NoCheck
  <1>3. \A a \in found : a \in AlertIds /\ alertRow[a] \in AlertRows /\ alertRow[a] # NoAlert
    BY DEF AlertShape, AlertTypeOK, Exists
  <1>4. \A a \in AlertIds : Exists(a) <=> a \in found
    OBVIOUS
  <1> HIDE DEF found, copy, new
  <1>5. check'[c] = new /\ \A d \in Checkers \ {c} : check'[d] = check[d]
    BY <1>1 DEF AlertShape
  <1>6. overlapped' \subseteq AlertIds
    BY <1>1, <1>3 DEF AlertShape, AlertTypeOK
  <1>7. AlertTypeOK'
    BY <1>1, <1>2, <1>5, <1>6 DEF AlertShape, AlertTypeOK, Exists
  <1>8. \A d \in Checkers : CheckType(d)'
    BY <1>1, <1>2, <1>3, <1>5 DEF AlertShape, CheckType
  <1>9. \A d \in Checkers, s \in Subscriptions :
            Notifies(d, s)' => Notifies(d, s) /\ check'[d] = check[d]
    BY <1>2, <1>5 DEF Notifies
  <1>10. AlertShape'
    <2>1. /\ check' = [d \in Checkers |-> check'[d]]
          /\ \A d \in Checkers : check'[d].phase = "idle" => check'[d] = NoCheck
      BY <1>1, <1>2, <1>5 DEF AlertShape
    <2> QED BY <1>1, <1>7, <1>8, <1>9, <2>1 DEF AlertShape, Exists, SubscribedTo
  <1>11. ASSUME NEW a \in AlertIds \ overlapped'
         PROVE  OneCopy(a)' /\ SaysTheState(a)' /\ Informed(a)' /\ Spaced(a)'
    <2>1. a \notin overlapped /\ OneCopy(a) /\ SaysTheState(a) /\ Informed(a) /\ Spaced(a)
      BY <1>1
    <2>2. \A d \in Checkers \ {c} : InHand(d, a)' = InHand(d, a) /\ (InHand(d, a) => a \notin found)
      BY <1>1, <1>5 DEF InHand, OtherCheck
    <2>3. InHand(c, a)' => a \in found
      BY <1>2, <1>5 DEF InHand
    <2>4. OneCopy(a)'
      BY <1>1, <1>2, <1>5, <2>1, <2>2, <2>3 DEF OneCopy, Exists
    <2>5. SaysTheState(a)'
      BY <1>1, <1>2, <1>5, <2>1 DEF SaysTheState, Exists
    <2>6. \A d \in Checkers, s \in Subscriptions : Notifies(d, s) => Notifies(d, s)'
      BY <1>1, <1>2, <1>5 DEF Notifies
    <2>7. Informed(a)'
      BY <1>1, <2>1, <2>6 DEF Informed, Knows, SubscribedTo
    <2>8. Spaced(a)'
      BY <1>1, <1>9, <2>1 DEF Spaced, WorthRepeating
    <2> QED BY <2>4, <2>5, <2>7, <2>8
  <1> QED BY <1>10, <1>11

(* Whoever has not been told when a check dies is excused. *)
LEMMA CheckDiesKeeps ==
    ASSUME AlertInv, NEW c \in Checkers, CheckDies(c) PROVE AlertInv'
  <1> USE DEF AlertInv
  <1>1. /\ check' = [check EXCEPT ![c] = NoCheck] /\ NoCheck.phase = "idle"
        /\ excused \subseteq excused'
        /\ \A s \in Subscriptions : Notifies(c, s) => s \in excused'
        /\ UNCHANGED <<alertRow, subscription, destinationRow, moment, checks, told, overlapped>>
    BY DEF CheckDies, EndCheck, Notifies, NoCheck
  <1>2. check'[c] = NoCheck /\ \A d \in Checkers \ {c} : check'[d] = check[d]
    BY <1>1 DEF AlertShape
  <1>3. excused' \subseteq Subscriptions
    BY DEF CheckDies, AlertShape, AlertTypeOK, CheckType
  <1>4. AlertTypeOK'
    BY <1>1, <1>2, <1>3 DEF AlertShape, AlertTypeOK, Exists
  <1>5. \A d \in Checkers, s \in Subscriptions :
            Notifies(d, s)' => Notifies(d, s) /\ check'[d] = check[d]
    BY <1>1, <1>2 DEF Notifies
  <1>6. AlertShape'
    <2>1. /\ check' = [d \in Checkers |-> check'[d]]
          /\ \A d \in Checkers : check'[d].phase = "idle" => check'[d] = NoCheck
      BY <1>1, <1>2 DEF AlertShape
    <2>2. \A d \in Checkers : CheckType(d)'
      BY <1>1, <1>2 DEF AlertShape, CheckType
    <2> QED BY <1>1, <1>4, <1>5, <2>1, <2>2 DEF AlertShape, Exists, SubscribedTo
  <1>7. ASSUME NEW a \in AlertIds \ overlapped'
        PROVE  OneCopy(a)' /\ SaysTheState(a)' /\ Informed(a)' /\ Spaced(a)'
    <2>1. OneCopy(a)' /\ SaysTheState(a)'
      BY <1>1, <1>2 DEF OneCopy, SaysTheState, InHand, Exists
    <2>2. \A d \in Checkers, s \in Subscriptions : Notifies(d, s) => Notifies(d, s)' \/ s \in excused'
      BY <1>1, <1>2 DEF Notifies
    <2>3. Informed(a)'
      BY <1>1, <2>2 DEF Informed, Knows, SubscribedTo
    <2>4. Spaced(a)'
      BY <1>1, <1>5 DEF Spaced, WorthRepeating
    <2> QED BY <2>1, <2>3, <2>4
  <1> QED BY <1>6, <1>7

\* What an evaluation gives
LEMMA VerdictType ==
    ASSUME NEW a, NEW value PROVE Verdict(a, value) \in States \cup {"raises"}
  BY DEF Verdict, NextState, States, UNKNOWN, OK, TRIGGERED

\* The check goes on with the alerts that are left, or ends.
LEMMA ContinueGoesOn ==
    ASSUME NEW c \in Checkers, check[c].phase # "idle", CheckType(c),
           NEW todo \in SUBSET check[c].todo,
           NEW next, next = Continue(todo, check[c].copy)
    PROVE  /\ next.phase \in {"idle", "loop"}
           /\ next.phase = "idle" => next = NoCheck
           /\ next.phase # "idle" => next.copy = check[c].copy /\ next.todo = todo
  BY DEF Continue, NoCheck

(* An alert that is as it was before the check has examined it has the     *)
(* same subscribers to say so to.                                          *)
LEMMA ExamineQuietKeeps ==
    ASSUME AlertInv, NEW c \in Checkers, NEW b \in AlertIds, check[c].phase = "loop", b \in check[c].todo,
           check' = [check EXCEPT ![c] = Continue(check[c].todo \ {b}, check[c].copy)],
           UNCHANGED <<alertRow, subscription, destinationRow, moment, checks, told, excused, overlapped>>
    PROVE  AlertInv'
  <1> USE DEF AlertInv
  <1> DEFINE todo == check[c].todo \ {b}
             new == Continue(todo, check[c].copy)
  <1>1. CheckType(c) /\ todo \in SUBSET check[c].todo /\ check[c].phase # "idle"
    BY DEF AlertShape
  <1>2. /\ new.phase \in {"idle", "loop"}
        /\ new.phase = "idle" => new = NoCheck
        /\ new.phase # "idle" => new.copy = check[c].copy /\ new.todo = todo
    BY <1>1, ContinueGoesOn
  <1> HIDE DEF new
  <1>3. check'[c] = new /\ \A d \in Checkers \ {c} : check'[d] = check[d]
    BY DEF AlertShape, new
  <1>4. AlertTypeOK'
    BY <1>1, <1>2, <1>3 DEF AlertShape, AlertTypeOK, Exists, CheckType
  <1>5. \A d \in Checkers : CheckType(d)'
    BY <1>1, <1>2, <1>3 DEF AlertShape, CheckType
  <1>6. \A d \in Checkers, s \in Subscriptions :
            Notifies(d, s)' => Notifies(d, s) /\ check'[d] = check[d]
    BY <1>2, <1>3 DEF Notifies
  <1>7. AlertShape'
    <2>1. /\ check' = [d \in Checkers |-> check'[d]]
          /\ \A d \in Checkers : check'[d].phase = "idle" => check'[d] = NoCheck
      BY <1>2, <1>3 DEF AlertShape
    <2>2. \A d \in Checkers, s \in Subscriptions :
             Notifies(d, s)' => subscription'[s] = NoSubscription \/ SubscribedTo(s, check'[d].alert)
      BY <1>6 DEF AlertShape
    <2>3. \A d, e \in Checkers, s \in Subscriptions :
             Notifies(d, s)' /\ Notifies(e, s)' => check'[d].alert = check'[e].alert
      <3>1. \A d, e \in Checkers, s \in Subscriptions :
               Notifies(d, s) /\ Notifies(e, s) => check[d].alert = check[e].alert
        BY DEF AlertShape
      <3> QED BY <1>6, <3>1
    <2> QED BY <1>4, <1>5, <2>1, <2>2, <2>3 DEF AlertShape, Exists, SubscribedTo
  <1>8. ASSUME NEW a \in AlertIds \ overlapped'
        PROVE  OneCopy(a)' /\ SaysTheState(a)' /\ Informed(a)' /\ Spaced(a)'
    <2>1. OneCopy(a)'
      <3>1. \A d \in Checkers : InHand(d, a)' =>
               /\ InHand(d, a) /\ check'[d].copy = check[d].copy
               /\ check'[d].todo \subseteq check[d].todo
        BY <1>1, <1>2, <1>3 DEF InHand
      <3> QED BY <3>1 DEF OneCopy, Exists
    <2>2. SaysTheState(a)'
      <3>1. \A d \in Checkers : check'[d].phase = "notify" => check'[d] = check[d]
        BY <1>2, <1>3
      <3> QED BY <3>1 DEF SaysTheState, Exists
    <2>3. Informed(a)'
      <3>1. \A d \in Checkers, s \in Subscriptions : Notifies(d, s) => Notifies(d, s)'
        BY <1>3 DEF Notifies
      <3> QED BY <3>1 DEF Informed, Knows, SubscribedTo
    <2>4. Spaced(a)'
      <3> SUFFICES ASSUME NEW d \in Checkers, NEW s \in Subscriptions \ excused,
                          Notifies(d, s)', check'[d].alert = a
                   PROVE  WorthRepeating(d, s)'
        BY DEF Spaced
      <3>1. Notifies(d, s) /\ check'[d] = check[d]
        BY <1>6
      <3>2. WorthRepeating(d, s)
        BY <3>1 DEF Spaced
      <3> QED BY <3>1, <3>2 DEF WorthRepeating
    <2> QED BY <2>1, <2>2, <2>3, <2>4
  <1> QED BY <1>7, <1>8

(* A change or a reminder is committed, and whoever subscribes is about to *)
(* be told, is excused, or need not hear of the OK.                        *)
LEMMA ExamineLoudKeeps ==
    ASSUME AlertInv, NEW c \in Checkers, NEW b \in AlertIds, NEW state \in States,
           check[c].phase = "loop", b \in check[c].todo,
           ShouldNotify(b, check[c].copy[b], state), Exists(b),
           CommitState(b, check[c].copy[b], state),
           check' = [check EXCEPT ![c] =
               IF Silent(check[c].copy[b], state) \/ SubscribersOf(b) = {}
               THEN Continue(check[c].todo \ {b}, check[c].copy)
               ELSE [phase |-> "notify", todo |-> check[c].todo \ {b}, copy |-> check[c].copy,
                     alert |-> b, state |-> state, at |-> moment, left |-> SubscribersOf(b)]],
           excused' = IF check[c].copy[b].muted THEN excused \cup SubscribersOf(b) ELSE excused,
           UNCHANGED <<subscription, destinationRow, moment, checks, told, overlapped>>
    PROVE  AlertInv'
  <1> USE DEF AlertInv
  <1> DEFINE copy == check[c].copy
             todo == check[c].todo \ {b}
             subscribers == SubscribersOf(b)
             quiet == Silent(copy[b], state) \/ subscribers = {}
             rest == Continue(todo, copy)
             loud == [phase |-> "notify", todo |-> todo, copy |-> copy,
                      alert |-> b, state |-> state, at |-> moment, left |-> subscribers]
             new == IF quiet THEN rest ELSE loud
             stored == IF state = copy[b].state THEN alertRow[b].state ELSE state
             row == [alertRow[b] EXCEPT !.state = stored, !.last = moment]
  <1>1. /\ CheckType(c) /\ todo \in SUBSET check[c].todo /\ check[c].phase # "idle"
        /\ moment \in 0..MaxMoment /\ b \in DOMAIN copy /\ InHand(c, b)
        /\ subscribers \subseteq Subscriptions
        /\ \A s \in Subscriptions : s \in subscribers <=> SubscribedTo(s, b)
    BY DEF AlertShape, AlertTypeOK, CheckType, InHand, SubscribersOf, SubscribedTo
  <1>2. /\ rest.phase \in {"idle", "loop"}
        /\ rest.phase = "idle" => rest = NoCheck
        /\ rest.phase # "idle" => rest.copy = copy /\ rest.todo = todo
    BY <1>1, ContinueGoesOn
  <1>3. /\ loud.phase = "notify" /\ loud.todo = todo /\ loud.copy = copy /\ loud.alert = b
        /\ loud.state = state /\ loud.at = moment /\ loud.left = subscribers
    OBVIOUS
  <1>4. check' = [check EXCEPT ![c] = new]
    OBVIOUS
  <1>5. /\ alertRow[b] \in AlertRows
        /\ row \in AlertRows /\ row.state = stored /\ row.last = moment
        /\ alertRow' = [alertRow EXCEPT ![b] = row]
    <2>1. alertRow[b] \in AlertRows
      BY DEF AlertShape, AlertTypeOK, Exists
    <2>2. row \in AlertRows /\ row.state = stored /\ row.last = moment
      BY <1>1, <2>1 DEF AlertRows
    <2>3. alertRow' = [alertRow EXCEPT ![b] = row]
      BY DEF CommitState, AlertShape, AlertTypeOK
    <2> QED BY <2>1, <2>2, <2>3
  <1>6. row # NoAlert /\ row # Deleted
    BY <1>5, RowsAreSomething
  <1>s. copy[b].state = alertRow[b].state => stored = state
    OBVIOUS
  <1>7. quiet <=> (copy[b].state = UNKNOWN /\ state = OK) \/ copy[b].muted \/ subscribers = {}
    BY DEF Silent
  <1> HIDE DEF rest, loud, row, stored, quiet, subscribers, todo, copy
  <1>8. check'[c] = new /\ \A d \in Checkers \ {c} : check'[d] = check[d]
    BY <1>4 DEF AlertShape
  <1>9. alertRow'[b] = row /\ \A a \in AlertIds \ {b} : alertRow'[a] = alertRow[a]
    BY <1>5 DEF AlertShape, AlertTypeOK
  <1>10. \A a \in AlertIds : Exists(a)' = Exists(a)
    BY <1>6, <1>9 DEF Exists
  <1>11. /\ new.phase \in {"idle", "loop", "notify"}
         /\ new.phase = "idle" => new = NoCheck
         /\ new.phase # "idle" => new.copy = copy /\ new.todo = todo
         /\ new.phase = "notify" => ~quiet /\ new = loud
         /\ ~quiet => new = loud
    BY <1>2, <1>3
  <1> HIDE DEF new
  <1>12. excused \subseteq excused' /\ excused' \subseteq Subscriptions
         /\ (copy[b].muted => subscribers \subseteq excused')
    BY <1>1 DEF AlertShape, AlertTypeOK, copy, subscribers
  <1>13. \A a \in AlertIds : alertRow'[a] \in AlertRows \cup {NoAlert, Deleted}
    BY <1>5, <1>9 DEF AlertShape, AlertTypeOK
  <1>14. ~quiet => subscribers # {} /\ loud.todo \subseteq DOMAIN loud.copy
    BY <1>1, <1>3, <1>7 DEF CheckType, copy, todo
  <1>15. AlertTypeOK'
    <2>1. alertRow' \in [AlertIds -> AlertRows \cup {NoAlert, Deleted}]
      BY <1>5 DEF AlertShape, AlertTypeOK
    <2>2. \A d \in Checkers : check'[d] # NoCheck =>
            /\ check'[d].phase \in {"loop", "notify"}
            /\ check'[d].todo \subseteq DOMAIN check'[d].copy
            /\ check'[d].phase = "notify" => check'[d].left # {} /\ check'[d].state \in States
      BY <1>1, <1>3, <1>8, <1>11, <1>14 DEF AlertShape, AlertTypeOK, CheckType, copy, todo
    <2> QED BY <1>10, <1>12, <2>1, <2>2 DEF AlertShape, AlertTypeOK
  <1>16. \A d \in Checkers : CheckType(d)'
    <2>1. \A a \in AlertIds : alertRow[a] # NoAlert => alertRow'[a] # NoAlert
      BY <1>6, <1>9
    <2>2. ASSUME NEW d \in Checkers, d # c PROVE CheckType(d)'
      BY <1>8, <2>1, <2>2 DEF AlertShape, CheckType
    <2>3. CheckType(c)'
      <3>1. new.phase # "idle" => /\ DOMAIN new.copy \subseteq AlertIds
                                 /\ new.todo \subseteq DOMAIN new.copy
                                 /\ \A a \in DOMAIN new.copy : new.copy[a] \in AlertRows /\ alertRow'[a] # NoAlert
        BY <1>1, <1>11, <2>1 DEF CheckType, copy, todo
      <3>2. new.phase = "notify" =>
              /\ new.alert \in DOMAIN new.copy \ new.todo
              /\ new.left # {} /\ new.left \subseteq Subscriptions
              /\ new.state \in States /\ new.at \in 0..MaxMoment
        BY <1>1, <1>3, <1>11, <1>14 DEF todo
      <3> QED BY <1>8, <1>11, <3>1, <3>2 DEF CheckType
    <2> QED BY <2>2, <2>3
  <1>17. \A d \in Checkers, s \in Subscriptions :
            Notifies(d, s)' => IF d = c THEN ~quiet /\ s \in subscribers /\ check'[d].alert = b
                                        ELSE Notifies(d, s) /\ check'[d] = check[d]
    BY <1>3, <1>8, <1>11 DEF Notifies
  <1>18. \A s \in Subscriptions : ~Notifies(c, s)
    BY DEF Notifies
  <1>19. AlertShape'
    <2>1. /\ check' = [d \in Checkers |-> check'[d]]
          /\ \A d \in Checkers : check'[d].phase = "idle" => check'[d] = NoCheck
      BY <1>4, <1>8, <1>11 DEF AlertShape
    <2>2. \A a \in AlertIds : Exists(a)' => alertRow'[a].last <= moment'
      BY <1>1, <1>5, <1>9, <1>10 DEF AlertShape
    <2>3. \A d \in Checkers, s \in Subscriptions :
             Notifies(d, s)' => subscription'[s] = NoSubscription \/ SubscribedTo(s, check'[d].alert)
      BY <1>1, <1>17 DEF AlertShape
    <2>4. \A d, e \in Checkers, s \in Subscriptions :
             Notifies(d, s)' /\ Notifies(e, s)' => check'[d].alert = check'[e].alert
      <3>1. \A d \in Checkers, s \in Subscriptions :
               Notifies(d, s)' /\ d # c => Notifies(d, s) /\ check'[d] = check[d]
        BY <1>17
      <3>2. \A s \in Subscriptions : Notifies(c, s)' => SubscribedTo(s, b) /\ check'[c].alert = b
        BY <1>1, <1>17
      <3>3. \A d \in Checkers, s \in Subscriptions :
               Notifies(d, s)' /\ SubscribedTo(s, b) => check'[d].alert = b
        BY <3>1, <3>2 DEF AlertShape, SubscribedTo
      <3> QED BY <3>1, <3>2, <3>3 DEF AlertShape
    <2> QED BY <1>15, <1>16, <2>1, <2>2, <2>3, <2>4 DEF AlertShape, SubscribedTo
  <1>20. ASSUME NEW a \in AlertIds \ overlapped', a # b
         PROVE  OneCopy(a)' /\ SaysTheState(a)' /\ Informed(a)' /\ Spaced(a)'
    <2>1. OneCopy(a)'
      <3>1. \A d \in Checkers : InHand(d, a)' =>
               /\ InHand(d, a) /\ check'[d].copy = check[d].copy
               /\ check'[d].todo \subseteq check[d].todo
        BY <1>1, <1>8, <1>11 DEF InHand, copy
      <3> QED BY <1>9, <1>10, <1>20, <3>1 DEF OneCopy
    <2>2. SaysTheState(a)'
      <3>1. \A d \in Checkers : check'[d].phase = "notify" /\ check'[d].alert = a => check'[d] = check[d]
        BY <1>3, <1>8, <1>11, <1>20
      <3> SUFFICES ASSUME NEW d \in Checkers, check'[d].phase = "notify", check'[d].alert = a, Exists(a)'
                   PROVE  check'[d].state = alertRow'[a].state /\ check'[d].at = alertRow'[a].last
        BY DEF SaysTheState
      <3>2. check'[d] = check[d]
        BY <3>1
      <3>3. check[d].state = alertRow[a].state /\ check[d].at = alertRow[a].last
        BY <1>10, <1>20, <3>2 DEF SaysTheState
      <3> QED BY <1>9, <1>20, <3>2, <3>3
    <2>3. \A d \in Checkers, s \in Subscriptions : Notifies(d, s) => Notifies(d, s)'
      BY <1>8, <1>18 DEF Notifies
    <2>4. Informed(a)'
      BY <1>9, <1>12, <1>20, <2>3 DEF Informed, Knows, SubscribedTo
    <2>5. Spaced(a)'
      <3> SUFFICES ASSUME NEW d \in Checkers, NEW s \in Subscriptions, s \notin excused',
                          Notifies(d, s)', check'[d].alert = a
                   PROVE  WorthRepeating(d, s)'
        BY DEF Spaced
      <3>1. Notifies(d, s) /\ check'[d] = check[d]
        BY <1>17, <1>20
      <3>2. WorthRepeating(d, s)
        BY <1>12, <3>1 DEF Spaced
      <3> QED BY <3>1, <3>2 DEF WorthRepeating
    <2> QED BY <2>1, <2>2, <2>4, <2>5
  <1>21. ASSUME b \notin overlapped
         PROVE  OneCopy(b)' /\ SaysTheState(b)' /\ Informed(b)' /\ Spaced(b)'
    <2>1. OneCopy(b) /\ SaysTheState(b) /\ Informed(b) /\ Spaced(b)
      BY <1>21
    <2>2. copy[b].state = alertRow[b].state /\ copy[b].last = alertRow[b].last
      BY <1>1, <2>1 DEF OneCopy, copy
    <2>3. \A d \in Checkers \ {c} : ~InHand(d, b)
      BY <1>1, <2>1 DEF OneCopy
    <2>4. \A d \in Checkers \ {c} : ~InHand(d, b)'
      BY <1>8, <2>3 DEF InHand
    <2>5. OneCopy(b)'
      BY <1>8, <1>11, <2>4 DEF OneCopy, InHand, todo
    <2>6. \A d \in Checkers : check'[d].phase = "notify" /\ check'[d].alert = b => d = c
      BY <1>16, <2>4 DEF CheckType, InHand
    <2>7. SaysTheState(b)'
      <3>1. alertRow'[b].state = state /\ alertRow'[b].last = moment
        BY <1>5, <1>s, <1>9, <2>2
      <3>2. check'[c].phase = "notify" => check'[c].state = state /\ check'[c].at = moment
        BY <1>3, <1>8, <1>11
      <3> QED BY <2>6, <3>1, <3>2 DEF SaysTheState
    <2>8. \A s \in Subscriptions \ excused : SubscribedTo(s, b) => Knows(s, b)
      <3>1. \A d \in Checkers, s \in Subscriptions : SubscribedTo(s, b) /\ Notifies(d, s) =>
               check[d].alert = b /\ d # c
        BY <1>18 DEF AlertShape, SubscribedTo
      <3>2. \A d \in Checkers, s \in Subscriptions : SubscribedTo(s, b) => ~Notifies(d, s)
        BY <2>3, <3>1 DEF AlertShape, CheckType, InHand, Notifies
      <3> QED BY <2>1, <3>2 DEF Informed
    <2>9. \A s \in Subscriptions : told[s].at \in Int /\ told[s].state \in States
      BY DEF AlertShape, AlertTypeOK, Never
    <2>10. alertRow[b].last \in Int /\ moment \in Int /\ alertRow[b].last <= moment
      BY <1>1, <1>5, RowsAreSomething DEF AlertShape, Never
    <2>11. Informed(b)'
      <3> SUFFICES ASSUME NEW s \in Subscriptions, s \notin excused', SubscribedTo(s, b)
                   PROVE  Knows(s, b)' \/ Notifies(c, s)'
        BY DEF Informed, SubscribedTo
      <3>1. CASE quiet
        <4>1. copy[b].state = UNKNOWN /\ state = OK /\ Knows(s, b)
          BY <1>1, <1>7, <1>12, <2>8, <3>1
        <4>2. told[s].state = UNKNOWN /\ told[s].at <= moment
          BY <2>2, <2>9, <2>10, <4>1 DEF Knows, UNKNOWN, OK
        <4> QED BY <1>5, <1>s, <1>9, <2>2, <4>1, <4>2 DEF Knows
      <3>2. CASE ~quiet
        BY <1>1, <1>3, <1>8, <1>11, <3>2 DEF Notifies
      <3> QED BY <3>1, <3>2
    <2>12. Spaced(b)'
      <3> SUFFICES ASSUME NEW d \in Checkers, NEW s \in Subscriptions, s \notin excused',
                          Notifies(d, s)', check'[d].alert = b, told[s].state = check'[d].state
                   PROVE  \/ check'[d].state = UNKNOWN
                          \/ /\ check'[d].state = TRIGGERED /\ Rearm[b] > 0
                             /\ told[s].at + Rearm[b] < check'[d].at
        BY DEF Spaced, WorthRepeating
      <3>1. d = c /\ ~quiet /\ SubscribedTo(s, b)
        BY <1>1, <1>17, <2>6 DEF Notifies
      <3>2. check'[d].state = state /\ check'[d].at = moment
        BY <1>3, <1>8, <1>11, <3>1
      <3>3. Knows(s, b)
        BY <1>12, <2>8, <3>1
      <3>4. CASE state = alertRow[b].state
        <4>1. /\ alertRow[b].state = TRIGGERED /\ Rearm[b] # 0
              /\ alertRow[b].last + Rearm[b] < moment
          BY <2>2, <3>4 DEF ShouldNotify, copy
        <4>2. Rearm[b] \in Nat
          BY RearmAssumption
        <4> QED BY <2>9, <2>10, <3>2, <3>3, <3>4, <4>1, <4>2 DEF Knows
      <3>5. CASE state # alertRow[b].state
        BY <3>2, <3>3, <3>5 DEF Knows
      <3> QED BY <3>4, <3>5
    <2> QED BY <2>5, <2>7, <2>11, <2>12
  <1> QED BY <1>19, <1>20, <1>21

LEMMA ExamineKeeps ==
    ASSUME AlertInv, NEW c \in Checkers, NEW b \in AlertIds, NEW value, Examine(c, b, value)
    PROVE  AlertInv'
  <1> DEFINE state == Verdict(b, value)
  <1>1. state \in States
    BY VerdictType DEF Examine
  <1>2. CASE ~ShouldNotify(b, check[c].copy[b], state)
    BY <1>2, ExamineQuietKeeps DEF Examine
  <1>3. CASE ShouldNotify(b, check[c].copy[b], state)
    <2> HIDE DEF state
    <2>1. /\ check[c].phase = "loop" /\ b \in check[c].todo /\ Exists(b)
          /\ CommitState(b, check[c].copy[b], state)
          /\ check' = [check EXCEPT ![c] =
               IF Silent(check[c].copy[b], state) \/ SubscribersOf(b) = {}
               THEN Continue(check[c].todo \ {b}, check[c].copy)
               ELSE [phase |-> "notify", todo |-> check[c].todo \ {b}, copy |-> check[c].copy,
                     alert |-> b, state |-> state, at |-> moment, left |-> SubscribersOf(b)]]
          /\ excused' = IF check[c].copy[b].muted THEN excused \cup SubscribersOf(b) ELSE excused
          /\ UNCHANGED <<subscription, destinationRow, moment, checks, told, overlapped>>
      BY <1>3 DEF Examine, state
    <2> QED BY <1>1, <1>3, <2>1, ExamineLoudKeeps
  <1> QED BY <1>2, <1>3

(* A subscriber is told what the state is, or the attempt fails and it is  *)
(* excused; the others stay to be told.                                    *)
LEMMA NotifyKeeps ==
    ASSUME AlertInv, NEW c \in Checkers, NEW t \in Subscriptions, NEW reached \in BOOLEAN,
           NotifySubscriber(c, t, reached)
    PROVE  AlertInv'
  <1> USE DEF AlertInv
  <1> DEFINE left == check[c].left \ {t}
             rest == Continue(check[c].todo, check[c].copy)
             less == [check[c] EXCEPT !.left = left]
             new == IF left = {} THEN rest ELSE less
             b == check[c].alert
             message == [state |-> check[c].state, at |-> check[c].at]
  <1>1. /\ check[c].phase = "notify" /\ t \in check[c].left
        /\ check' = [check EXCEPT ![c] = new]
        /\ IF reached THEN told' = [told EXCEPT ![t] = message] /\ excused' = excused \ {t}
                      ELSE told' = told /\ excused' = excused \cup {t}
        /\ UNCHANGED <<alertRow, subscription, destinationRow, moment, checks, overlapped>>
    BY DEF NotifySubscriber
  <1>2. CheckType(c) /\ Notifies(c, t) /\ check[c].phase # "idle"
    BY <1>1 DEF AlertShape, Notifies
  <1>3. /\ rest.phase \in {"idle", "loop"}
        /\ rest.phase = "idle" => rest = NoCheck
        /\ rest.phase # "idle" => rest.copy = check[c].copy /\ rest.todo = check[c].todo
    BY <1>2, ContinueGoesOn
  <1>4. /\ less.phase = check[c].phase /\ less.todo = check[c].todo /\ less.copy = check[c].copy
        /\ less.alert = b /\ less.state = check[c].state /\ less.at = check[c].at /\ less.left = left
    BY <1>1
  <1>5. message \in [state : States, at : 0..MaxMoment \cup {Never}]
        /\ message.state = check[c].state /\ message.at = check[c].at
    BY <1>1, <1>2 DEF CheckType
  <1> HIDE DEF rest, less, message
  <1>6. check'[c] = new /\ \A d \in Checkers \ {c} : check'[d] = check[d]
    BY <1>1 DEF AlertShape
  <1>7. /\ new.phase \in {"idle", "loop", "notify"}
        /\ new.phase = "idle" => new = NoCheck
        /\ new.phase # "idle" => new.copy = check[c].copy /\ new.todo = check[c].todo
        /\ new.phase = "notify" => new = less /\ left # {}
        /\ left # {} => new = less
    BY <1>1, <1>3, <1>4
  <1>8. b \in AlertIds /\ InHand(c, b)
    BY <1>1, <1>2 DEF CheckType, InHand
  <1> HIDE DEF new, b
  <1>9. told' \in [Subscriptions -> [state : States, at : 0..MaxMoment \cup {Never}]]
        /\ excused' \subseteq Subscriptions
    BY <1>1, <1>5 DEF AlertShape, AlertTypeOK
  <1>10. \A d \in Checkers : CheckType(d)'
    <2>1. ASSUME NEW d \in Checkers, d # c PROVE CheckType(d)'
      BY <1>1, <1>6, <2>1 DEF AlertShape, CheckType
    <2>2. CheckType(c)'
      BY <1>1, <1>2, <1>4, <1>6, <1>7 DEF CheckType, b
    <2> QED BY <2>1, <2>2
  <1>11. AlertTypeOK'
    <2>1. \A d \in Checkers : check'[d] # NoCheck =>
            /\ check'[d].phase \in {"loop", "notify"}
            /\ check'[d].todo \subseteq DOMAIN check'[d].copy
            /\ check'[d].phase = "notify" => check'[d].left # {} /\ check'[d].state \in States
      <3>1. \A d \in Checkers : check'[d] # NoCheck => check'[d].phase # "idle"
        BY <1>6, <1>7 DEF AlertShape
      <3> QED BY <1>10, <3>1 DEF CheckType
    <2> QED BY <1>1, <1>9, <2>1 DEF AlertShape, AlertTypeOK, Exists
  <1>12. \A d \in Checkers, s \in Subscriptions : Notifies(d, s)' =>
            /\ Notifies(d, s) /\ check'[d].alert = check[d].alert
            /\ check'[d].state = check[d].state /\ check'[d].at = check[d].at
    BY <1>1, <1>4, <1>6, <1>7 DEF Notifies, b
  <1>13. AlertShape'
    <2>1. /\ check' = [d \in Checkers |-> check'[d]]
          /\ \A d \in Checkers : check'[d].phase = "idle" => check'[d] = NoCheck
      BY <1>1, <1>6, <1>7 DEF AlertShape
    <2>2. \A d \in Checkers, s \in Subscriptions :
             Notifies(d, s)' => subscription'[s] = NoSubscription \/ SubscribedTo(s, check'[d].alert)
      BY <1>1, <1>12 DEF AlertShape
    <2>3. \A d, e \in Checkers, s \in Subscriptions :
             Notifies(d, s)' /\ Notifies(e, s)' => check'[d].alert = check'[e].alert
      BY <1>12 DEF AlertShape
    <2> QED BY <1>1, <1>10, <1>11, <2>1, <2>2, <2>3 DEF AlertShape, Exists, SubscribedTo
  <1>14. ASSUME NEW a \in AlertIds \ overlapped'
         PROVE  OneCopy(a)' /\ SaysTheState(a)' /\ Informed(a)' /\ Spaced(a)'
    <2>1. a \notin overlapped /\ OneCopy(a) /\ SaysTheState(a) /\ Informed(a) /\ Spaced(a)
      BY <1>1
    <2>2. OneCopy(a)'
      <3>1. \A d \in Checkers : InHand(d, a)' =>
               /\ InHand(d, a) /\ check'[d].copy = check[d].copy /\ check'[d].todo = check[d].todo
        BY <1>2, <1>6, <1>7 DEF InHand
      <3> QED BY <1>1, <2>1, <3>1 DEF OneCopy, Exists
    <2>3. SaysTheState(a)'
      <3> SUFFICES ASSUME NEW d \in Checkers, check'[d].phase = "notify", check'[d].alert = a, Exists(a)'
                   PROVE  check'[d].state = alertRow'[a].state /\ check'[d].at = alertRow'[a].last
        BY DEF SaysTheState
      <3>1. /\ check[d].phase = "notify" /\ check[d].alert = a
            /\ check'[d].state = check[d].state /\ check'[d].at = check[d].at
        BY <1>1, <1>4, <1>6, <1>7 DEF b
      <3> QED BY <1>1, <2>1, <3>1 DEF SaysTheState, Exists
    <2>4. Informed(a)'
      <3> SUFFICES ASSUME NEW s \in Subscriptions, s \notin excused', SubscribedTo(s, a)
                   PROVE  Knows(s, a)' \/ \E d \in Checkers : Notifies(d, s)'
        BY <1>1 DEF Informed, SubscribedTo
      <3>1. CASE s = t
        <4>1. reached /\ told'[t] = message
          BY <1>1, <3>1 DEF AlertShape, AlertTypeOK
        <4>2. a = b
          BY <1>2, <3>1 DEF AlertShape, SubscribedTo, b
        <4>3. Exists(a)
          BY <3>1 DEF AlertShape, AlertTypeOK, SubscribedTo
        <4>4. message.state = alertRow[a].state /\ message.at = alertRow[a].last
          BY <1>1, <1>5, <2>1, <4>2, <4>3 DEF SaysTheState, b
        <4>5. alertRow[a].last \in Int
          BY <4>3, RowsAreSomething DEF AlertShape, AlertTypeOK, Exists, Never
        <4> QED BY <1>1, <3>1, <4>1, <4>4, <4>5 DEF Knows
      <3>2. CASE s # t
        <4>1. s \notin excused /\ told'[s] = told[s]
          BY <1>1, <3>2 DEF AlertShape, AlertTypeOK
        <4>2. \A d \in Checkers : Notifies(d, s) => Notifies(d, s)'
          BY <1>1, <1>4, <1>6, <1>7, <3>2 DEF Notifies
        <4>3. Knows(s, a) \/ \E d \in Checkers : Notifies(d, s)
          BY <2>1, <4>1 DEF Informed
        <4> QED BY <1>1, <4>1, <4>2, <4>3 DEF Knows
      <3> QED BY <3>1, <3>2
    <2>5. Spaced(a)'
      <3> SUFFICES ASSUME NEW d \in Checkers, NEW s \in Subscriptions, s \notin excused',
                          Notifies(d, s)', check'[d].alert = a
                   PROVE  WorthRepeating(d, s)'
        BY DEF Spaced
      <3>1. /\ Notifies(d, s) /\ check'[d].alert = check[d].alert
            /\ check'[d].state = check[d].state /\ check'[d].at = check[d].at
        BY <1>12
      <3>2. s # t
        <4> SUFFICES ASSUME s = t PROVE FALSE
          OBVIOUS
        <4>1. d # c
          BY <1>4, <1>6, <1>7 DEF Notifies
        <4>2. check[d].alert = check[c].alert
          BY <1>2, <3>1 DEF AlertShape
        <4>3. InHand(c, a) /\ InHand(d, a)
          BY <1>8, <3>1, <4>2 DEF AlertShape, CheckType, Notifies, InHand, b
        <4> QED BY <2>1, <4>1, <4>3 DEF OneCopy
      <3>3. s \notin excused /\ told'[s] = told[s]
        BY <1>1, <3>2 DEF AlertShape, AlertTypeOK
      <3>4. WorthRepeating(d, s)
        BY <2>1, <3>1, <3>3 DEF Spaced
      <3> QED BY <3>1, <3>3, <3>4 DEF WorthRepeating
    <2> QED BY <2>2, <2>3, <2>4, <2>5
  <1> QED BY <1>13, <1>14

\* Every step keeps the invariant.
LEMMA AlertInvStep == AlertInv /\ [AlertNext]_alertVars => AlertInv'
  <1> SUFFICES ASSUME AlertInv, [AlertNext]_alertVars PROVE AlertInv'
    OBVIOUS
  <1>1. CASE UNCHANGED alertVars
    BY <1>1 DEF alertVars, AlertInv, AlertShape, AlertTypeOK, CheckType, OneCopy, SaysTheState, Informed,
                Spaced, InHand, Notifies, SubscribedTo, Knows, WorthRepeating, Exists
  <1>2. ASSUME NEW c \in Checkers, BeginCheck(c) \/ CheckDies(c) PROVE AlertInv'
    BY <1>2, BeginCheckKeeps, CheckDiesKeeps
  <1>3. ASSUME NEW c \in Checkers, NEW a \in AlertIds, NEW value \in Observations, Examine(c, a, value)
        PROVE  AlertInv'
    BY <1>3, ExamineKeeps
  <1>4. ASSUME NEW c \in Checkers, NEW s \in Subscriptions, NEW reached \in BOOLEAN,
               NotifySubscriber(c, s, reached)
        PROVE  AlertInv'
    BY <1>4, NotifyKeeps
  <1>5. ASSUME NEW a \in AlertIds, NEW muted \in BOOLEAN, CreateAlert(a, muted) \/ SetMuted(a, muted)
        PROVE  AlertInv'
    BY <1>5, CreateAlertKeeps, SetMutedKeeps
  <1>6. ASSUME NEW a \in AlertIds, DeleteAlert(a) PROVE AlertInv'
    BY <1>6, DeleteAlertKeeps
  <1>7. ASSUME NEW a \in AlertIds, NEW s \in Subscriptions, NEW to \in Destinations \cup {Mail},
               Subscribe(s, a, to)
        PROVE  AlertInv'
    BY <1>7, SubscribeKeeps
  <1>8. ASSUME NEW s \in Subscriptions, Unsubscribe(s) PROVE AlertInv'
    BY <1>8, UnsubscribeKeeps
  <1>9. CASE AlertTick \/ \E d \in Destinations : AddDestination(d) \/ DeleteDestination(d)
    BY <1>9, SurroundingsKeep
  <1> QED BY <1>1, <1>2, <1>3, <1>4, <1>5, <1>6, <1>7, <1>8, <1>9 DEF AlertNext

LEMMA AlertInvHolds == AlertSpec => []AlertInv
  BY AlertInvInit, AlertInvStep, PTL DEF AlertSpec

(***************************************************************************)
(* Rows of alerts, subscriptions and checks keep their types; every        *)
(* subscription is to an alert and a destination there are                 *)
(* (models/alerts.py, models/destinations.py).                             *)
(***************************************************************************)
THEOREM AlertTypeCorrect == AlertSpec => []AlertTypeOK
  <1>1. AlertInv => AlertTypeOK
    BY DEF AlertInv, AlertShape
  <1> QED BY <1>1, AlertInvHolds, PTL

(***************************************************************************)
(* Whoever was reached last knows the state of the alert, for every number *)
(* of alerts, subscribers, destinations and checks                         *)
(* (check_alerts_for_query.py:22-54).                                      *)
(***************************************************************************)
THEOREM ReachedSubscribersKnow == AlertSpec => []SubscribersKnow
  <1>1. AlertInv => SubscribersKnow
    <2> SUFFICES ASSUME AlertInv, NEW s \in Subscriptions \ excused, NEW a, a = subscription[s].alert,
                        subscription[s] # NoSubscription, Resting(a), a \notin overlapped
                 PROVE  \/ told[s].state = alertRow[a].state
                        \/ told[s].state = UNKNOWN /\ alertRow[a].state = OK
      BY DEF SubscribersKnow
    <2>1. a \in AlertIds /\ SubscribedTo(s, a)
      BY DEF AlertInv, AlertShape, SubscribedTo
    <2>2. \A c \in Checkers : ~Notifies(c, s)
      BY <2>1 DEF AlertInv, AlertShape, SubscribedTo, Resting, Notifies
    <2> QED BY <2>1, <2>2 DEF AlertInv, Informed, Knows
  <1> QED BY <1>1, AlertInvHolds, PTL

(***************************************************************************)
(* A state is said again only as a reminder of a TRIGGERED alert, more     *)
(* than the rearm period after the last one, or when the alert is UNKNOWN  *)
(* again (check_alerts_for_query.py:22-57), however many checks there are. *)
(***************************************************************************)
THEOREM RemindersAreApart == AlertSpec => RemindersKeepTheirDistance
  <1>1. AlertInv => \A c \in Checkers, s \in Subscriptions \ excused :
           LET a == check[c].alert
           IN  /\ NotifySubscriber(c, s, TRUE)
               /\ a \notin overlapped
               /\ told[s].state = check[c].state
               => \/ check[c].state = UNKNOWN
                  \/ /\ check[c].state = TRIGGERED
                     /\ Rearm[a] > 0
                     /\ told[s].at + Rearm[a] < check[c].at
    <2> SUFFICES ASSUME AlertInv, NEW c \in Checkers, NEW s \in Subscriptions \ excused,
                        NotifySubscriber(c, s, TRUE), check[c].alert \notin overlapped
                 PROVE  WorthRepeating(c, s)
      BY DEF WorthRepeating
    <2>1. Notifies(c, s)
      BY DEF NotifySubscriber, Notifies
    <2>2. check[c].alert \in AlertIds
      BY <2>1 DEF AlertInv, AlertShape, CheckType, Notifies
    <2> QED BY <2>1, <2>2 DEF AlertInv, Spaced
  <1> QED BY <1>1, AlertInvHolds, PTL DEF RemindersKeepTheirDistance

-----------------------------------------------------------------------------
(* Configuration *)

IsRecord(x, fields) == x = [k \in DOMAIN x |-> x[k]] /\ DOMAIN x = fields

\* A row, or none; the options of data sources are a function
RowShape(row) ==
    row # NoRow =>
        /\ IsRecord(row, {"kind", "type", "options"})
        /\ row.kind \in RowKinds \cup {Organization}
        /\ row.kind \in RowKinds => row.type \in Types
        /\ row.kind = Organization => DOMAIN row.options \subseteq DOMAIN Defaults
        /\ row.kind = "data_source" => row.options = [k \in DOMAIN row.options |-> row.options[k]]

\* An edit is of the row there is, which it has loaded as it is unless it is stale
EditInv(e) ==
    IF editing[e].phase = "idle" THEN editing[e] = NoEdit
    ELSE /\ \/ /\ editing[e].phase = "form"
               /\ IsRecord(editing[e], {"phase", "loaded", "type", "form", "stale"})
               /\ editing[e].type \in Types /\ record.kind \in RowKinds
            \/ /\ editing[e].phase = "type"
               /\ IsRecord(editing[e], {"phase", "loaded", "type", "stale"})
               /\ editing[e].type \in Types /\ record.kind \in RowKinds
            \/ /\ editing[e].phase = "settings"
               /\ IsRecord(editing[e], {"phase", "loaded", "change", "stale"})
               /\ record.kind = Organization
         /\ editing[e].stale \in BOOLEAN
         /\ record # NoRow /\ editing[e].loaded # NoRow
         /\ RowShape(editing[e].loaded) /\ editing[e].loaded.kind = record.kind
         /\ ~editing[e].stale => editing[e].loaded = record

\* An execution has the options of the row, but for the address while its tunnel is open
RunInv(r) ==
    IF running[r].phase = "idle" THEN running[r] = NoRun
    ELSE /\ running[r].phase \in {"loaded", "tunnel", "changed"}
         /\ IsRecord(running[r], {"phase", "options", "host", "stale"})
         /\ running[r].stale \in BOOLEAN
         /\ record # NoRow /\ record.kind = "data_source"
         /\ running[r].options = [k \in DOMAIN running[r].options |-> running[r].options[k]]
         /\ ~running[r].stale =>
               /\ Host \in DOMAIN record.options /\ running[r].host = record.options[Host]
               /\ running[r].options = IF running[r].phase = "tunnel"
                                       THEN [record.options EXCEPT ![Host] = LocalAddress]
                                       ELSE record.options

ConfigurationInv ==
    /\ RowShape(record) /\ RowShape(intended)
    /\ overtaken \in BOOLEAN
    /\ ~overtaken => record = intended
    /\ editing = [e \in Editors |-> editing[e]] /\ \A e \in Editors : EditInv(e)
    /\ running = [r \in Runners |-> running[r]] /\ \A r \in Runners : RunInv(r)

\* The kinds of rows are told apart.
LEMMA KindsDiffer ==
    /\ \A row : RowShape(row) => (row.kind = "none" <=> row = NoRow)
    /\ Organization \notin RowKinds /\ "none" \notin RowKinds \cup {Organization}
    /\ "data_source" \in RowKinds
  BY DEF RowShape, NoRow, RowKinds, Organization

\* A row as it is made, and with one field changed
LEMMA ConfiguredShape ==
    ASSUME NEW kind \in RowKinds, NEW t \in Types, NEW o, o = [k \in DOMAIN o |-> o[k]]
    PROVE  RowShape(Configured(kind, t, o)) /\ Configured(kind, t, o) # NoRow
  <1> DEFINE row == Configured(kind, t, o)
  <1> SUFFICES RowShape(row) /\ row # NoRow
    OBVIOUS
  <1>1. row.kind = kind /\ row.type = t /\ row.options = o /\ IsRecord(row, {"kind", "type", "options"})
    BY DEF Configured, IsRecord
  <1> HIDE DEF row
  <1>2. kind \in RowKinds \cup {Organization} /\ kind # Organization /\ kind # "none"
    BY KindsDiffer
  <1>3. row # NoRow
    BY <1>1, <1>2 DEF NoRow
  <1>4. row.options = [k \in DOMAIN row.options |-> row.options[k]]
    BY <1>1
  <1> QED BY <1>1, <1>2, <1>3, <1>4 DEF RowShape

LEMMA Field ==
    ASSUME NEW x, NEW fields, IsRecord(x, fields), NEW f \in fields, NEW v,
           NEW y, y = [x EXCEPT ![f] = v]
    PROVE  /\ IsRecord(y, fields) /\ y[f] = v
           /\ \A g \in fields \ {f} : y[g] = x[g]
           /\ v = x[f] => y = x
  BY DEF IsRecord

\* What an edit or an execution that has become stale still is
LEMMA StaleEdit ==
    ASSUME NEW e \in Editors, EditInv(e), editing[e].phase # "idle",
           NEW y, y = [editing[e] EXCEPT !.stale = TRUE]
    PROVE  /\ y.phase = editing[e].phase /\ y.stale = TRUE /\ y.loaded = editing[e].loaded
           /\ y.phase \in {"form", "type"} => y.type = editing[e].type
           /\ DOMAIN y = DOMAIN editing[e] /\ y = [k \in DOMAIN y |-> y[k]]
  BY DEF EditInv, IsRecord

LEMMA StaleRun ==
    ASSUME NEW r \in Runners, RunInv(r), running[r].phase # "idle",
           NEW y, y = [running[r] EXCEPT !.stale = TRUE]
    PROVE  /\ y.phase = running[r].phase /\ y.stale = TRUE /\ y.options = running[r].options
           /\ IsRecord(y, {"phase", "options", "host", "stale"})
  BY DEF RunInv, IsRecord

(* When the row is written, by an edit or an execution that is over then,  *)
(* what others have loaded is stale.                                       *)
LEMMA EditsBecomeStale ==
    ASSUME ConfigurationInv, record # NoRow, RowShape(record'), record' # NoRow,
           record'.kind = record.kind,
           NEW f \in Editors, editing' = EditsStale \/ editing' = [EditsStale EXCEPT ![f] = NoEdit]
    PROVE  editing' = [e \in Editors |-> editing'[e]] /\ \A e \in Editors : EditInv(e)'
  <1>1. editing' = [e \in Editors |-> editing'[e]]
    BY DEF EditsStale
  <1> SUFFICES ASSUME NEW e \in Editors PROVE EditInv(e)'
    BY <1>1
  <1>2. EditInv(e)
    BY DEF ConfigurationInv
  <1>3. editing'[e] = NoEdit \/ editing'[e] = [editing[e] EXCEPT !.stale = TRUE]
    BY DEF EditsStale
  <1>4. NoEdit.phase = "idle"
    BY DEF NoEdit
  <1>5. CASE editing'[e] = NoEdit
    BY <1>4, <1>5 DEF EditInv
  <1>6. CASE editing[e].phase = "idle"
    <2>1. editing'[e] = NoEdit
      BY <1>2, <1>6 DEF EditInv, EditsStale
    <2> QED BY <1>5, <2>1
  <1>7. CASE editing[e].phase # "idle" /\ editing'[e] = [editing[e] EXCEPT !.stale = TRUE]
    <2> DEFINE y == [editing[e] EXCEPT !.stale = TRUE]
    <2>1. /\ y.phase = editing[e].phase /\ y.stale = TRUE /\ y.loaded = editing[e].loaded
          /\ y.phase \in {"form", "type"} => y.type = editing[e].type
          /\ DOMAIN y = DOMAIN editing[e] /\ y = [k \in DOMAIN y |-> y[k]]
      BY <1>2, <1>7, StaleEdit
    <2>2. editing'[e] = y
      BY <1>7
    <2> HIDE DEF y
    <2>3. /\ editing[e].stale \in BOOLEAN /\ editing[e].loaded # NoRow
          /\ RowShape(editing[e].loaded) /\ editing[e].loaded.kind = record.kind
          /\ editing[e].phase \in {"form", "type"} => editing[e].type \in Types /\ record.kind \in RowKinds
          /\ editing[e].phase = "settings" => record.kind = Organization
          /\ editing[e].phase \in {"form", "type", "settings"}
      BY <1>2, <1>7 DEF EditInv
    <2>4. /\ y.phase = "form" => DOMAIN y = {"phase", "loaded", "type", "form", "stale"}
          /\ y.phase = "type" => DOMAIN y = {"phase", "loaded", "type", "stale"}
          /\ y.phase = "settings" => DOMAIN y = {"phase", "loaded", "change", "stale"}
      BY <1>2, <1>7, <2>1 DEF EditInv, IsRecord
    <2>5. RowShape(editing'[e].loaded)
      BY <2>1, <2>2, <2>3
    <2> QED BY <1>7, <2>1, <2>2, <2>3, <2>4, <2>5 DEF EditInv, IsRecord
  <1> QED BY <1>3, <1>5, <1>6, <1>7

LEMMA RunsBecomeStale ==
    ASSUME ConfigurationInv, record # NoRow, RowShape(record'), record' # NoRow,
           record'.kind = record.kind,
           NEW q \in Runners, running' = RunsStale \/ running' = [RunsStale EXCEPT ![q] = NoRun]
    PROVE  running' = [r \in Runners |-> running'[r]] /\ \A r \in Runners : RunInv(r)'
  <1>1. running' = [r \in Runners |-> running'[r]]
    BY DEF RunsStale
  <1> SUFFICES ASSUME NEW r \in Runners PROVE RunInv(r)'
    BY <1>1
  <1>2. RunInv(r)
    BY DEF ConfigurationInv
  <1>3. running'[r] = NoRun \/ running'[r] = [running[r] EXCEPT !.stale = TRUE]
    BY DEF RunsStale
  <1>4. NoRun.phase = "idle"
    BY DEF NoRun
  <1>5. CASE running'[r] = NoRun
    BY <1>4, <1>5 DEF RunInv
  <1>6. CASE running[r].phase = "idle"
    <2>1. running'[r] = NoRun
      BY <1>2, <1>6 DEF RunInv, RunsStale
    <2> QED BY <1>5, <2>1
  <1>7. CASE running[r].phase # "idle" /\ running'[r] = [running[r] EXCEPT !.stale = TRUE]
    <2> DEFINE y == [running[r] EXCEPT !.stale = TRUE]
    <2>1. /\ y.phase = running[r].phase /\ y.stale = TRUE /\ y.options = running[r].options
          /\ IsRecord(y, {"phase", "options", "host", "stale"})
      BY <1>2, <1>7, StaleRun
    <2>2. running'[r] = y
      BY <1>7
    <2> HIDE DEF y
    <2> QED BY <1>2, <1>7, <2>1, <2>2 DEF RunInv
  <1> QED BY <1>3, <1>5, <1>6, <1>7

\* Before there is a row nothing is edited or executed.
LEMMA NothingYet ==
    ASSUME ConfigurationInv, record = NoRow
    PROVE  /\ \A e \in Editors : editing[e].phase = "idle"
           /\ \A r \in Runners : running[r].phase = "idle"
  BY DEF ConfigurationInv, EditInv, RunInv

LEMMA ConfigurationInvInit == ConfigurationInit => ConfigurationInv
  <1> SUFFICES ASSUME ConfigurationInit PROVE ConfigurationInv
    OBVIOUS
  <1>1. NoEdit.phase = "idle" /\ NoRun.phase = "idle"
    BY DEF NoEdit, NoRun
  <1> QED BY <1>1 DEF ConfigurationInit, ConfigurationInv, EditInv, RunInv, RowShape

\* What is configured first, or set up, is what was decided.
LEMMA ConfigureKeeps ==
    ASSUME ConfigurationInv,
           SetUp \/ \E kind \in RowKinds, t \in Types, f \in Forms : Configure(kind, t, f)
    PROVE  ConfigurationInv'
  <1>1. record = NoRow /\ UNCHANGED <<editing, running>> /\ overtaken' = FALSE /\ intended' = record'
    BY DEF SetUp, Configure
  <1>2. \A e \in Editors : EditInv(e)'
    BY <1>1, NothingYet DEF ConfigurationInv, EditInv
  <1>3. \A r \in Runners : RunInv(r)'
    BY <1>1, NothingYet DEF ConfigurationInv, RunInv
  <1>4. RowShape(record')
    <2>1. CASE SetUp
      <3> DEFINE row == Configured(Organization, Organization, <<>>)
      <3>1. /\ row.kind = Organization /\ IsRecord(row, {"kind", "type", "options"})
            /\ row.options = <<>>
        BY DEF Configured, IsRecord
      <3>2. DOMAIN row.options = {}
        BY <3>1
      <3>3. record' = row
        BY <2>1 DEF SetUp
      <3> HIDE DEF row
      <3> QED BY <3>1, <3>2, <3>3, KindsDiffer DEF RowShape
    <2>2. ASSUME NEW kind \in RowKinds, NEW t \in Types, NEW f \in Forms, Configure(kind, t, f)
          PROVE  RowShape(record')
      <3> DEFINE o == Submitted(kind, f)
                 row == Configured(kind, t, o)
      <3>1. record' = row
        BY <2>2 DEF Configure
      <3>2. row.kind = kind /\ row.type = t /\ row.options = o /\ IsRecord(row, {"kind", "type", "options"})
        BY DEF Configured, IsRecord
      <3>3. kind = "data_source" => o = [k \in DOMAIN o |-> o[k]]
        BY DEF Submitted, FilterNone
      <3> HIDE DEF row, o
      <3> QED BY <3>1, <3>2, <3>3, KindsDiffer DEF RowShape
    <2> QED BY <2>1, <2>2, <1>1
  <1> QED BY <1>1, <1>2, <1>3, <1>4 DEF ConfigurationInv

\* An edit loads the row as it is.
LEMMA OpenKeeps ==
    ASSUME ConfigurationInv, NEW e \in Editors,
           \/ \E t \in Types, f \in Forms : OpenEdit(e, t, f)
           \/ \E t \in Types : OpenRetype(e, t)
           \/ \E change \in Changes : OpenSettings(e, change)
           \/ RefuseEdit(e)
    PROVE  ConfigurationInv'
  <1>1. UNCHANGED <<record, running, intended, overtaken>>
    BY DEF OpenEdit, OpenRetype, OpenSettings, RefuseEdit
  <1>2. \E x : editing' = [editing EXCEPT ![e] = x]
    BY DEF OpenEdit, OpenRetype, OpenSettings, RefuseEdit
  <1>3. editing' = [d \in Editors |-> editing'[d]] /\ \A d \in Editors \ {e} : editing'[d] = editing[d]
    BY <1>2 DEF ConfigurationInv
  <1>4. EditInv(e)'
    <2>1. ASSUME NEW t \in Types, NEW f \in Forms, OpenEdit(e, t, f) PROVE EditInv(e)'
      <3> DEFINE x == [phase |-> "form", loaded |-> record, type |-> t,
                       form |-> Submitted(record.kind, f), stale |-> FALSE]
      <3>1. editing'[e] = x /\ record # NoRow /\ record.kind # Organization
        BY <2>1 DEF OpenEdit, ConfigurationInv, HasType
      <3>2. /\ x.phase = "form" /\ x.loaded = record /\ x.type = t /\ x.stale = FALSE
            /\ IsRecord(x, {"phase", "loaded", "type", "form", "stale"})
        BY DEF IsRecord
      <3>3. record.kind \in RowKinds
        BY <3>1 DEF ConfigurationInv, RowShape
      <3> HIDE DEF x
      <3> QED BY <1>1, <3>1, <3>2, <3>3 DEF EditInv, ConfigurationInv
    <2>2. ASSUME NEW t \in Types, OpenRetype(e, t) PROVE EditInv(e)'
      <3> DEFINE x == [phase |-> "type", loaded |-> record, type |-> t, stale |-> FALSE]
      <3>1. editing'[e] = x /\ record # NoRow /\ record.kind \in RowKinds
        BY <2>2, KindsDiffer DEF OpenRetype, ConfigurationInv
      <3>2. /\ x.phase = "type" /\ x.loaded = record /\ x.type = t /\ x.stale = FALSE
            /\ IsRecord(x, {"phase", "loaded", "type", "stale"})
        BY DEF IsRecord
      <3> HIDE DEF x
      <3> QED BY <1>1, <3>1, <3>2 DEF EditInv, ConfigurationInv
    <2>3. ASSUME NEW change \in Changes, OpenSettings(e, change) PROVE EditInv(e)'
      <3> DEFINE x == [phase |-> "settings", loaded |-> record, change |-> change, stale |-> FALSE]
      <3>1. editing'[e] = x /\ record # NoRow /\ record.kind = Organization
        BY <2>3 DEF OpenSettings, ConfigurationInv
      <3>2. /\ x.phase = "settings" /\ x.loaded = record /\ x.stale = FALSE
            /\ IsRecord(x, {"phase", "loaded", "change", "stale"})
        BY DEF IsRecord
      <3> HIDE DEF x
      <3> QED BY <1>1, <3>1, <3>2 DEF EditInv, ConfigurationInv
    <2>4. CASE RefuseEdit(e)
      <3>1. editing'[e] = NoEdit /\ NoEdit.phase = "idle"
        BY <2>4 DEF RefuseEdit, ConfigurationInv, NoEdit
      <3> QED BY <3>1 DEF EditInv
    <2> QED BY <2>1, <2>2, <2>3, <2>4
  <1>5. \A d \in Editors : EditInv(d)'
    <2>1. ASSUME NEW d \in Editors, d # e PROVE EditInv(d)'
      BY <1>1, <1>3, <2>1 DEF EditInv, ConfigurationInv
    <2> QED BY <1>4, <2>1
  <1>6. \A r \in Runners : RunInv(r)'
    BY <1>1 DEF RunInv, ConfigurationInv
  <1> QED BY <1>1, <1>3, <1>5, <1>6 DEF ConfigurationInv

\* A write that keeps to what was decided, unless the row is overtaken, keeps all the rest.
LEMMA WriteKeeps ==
    ASSUME ConfigurationInv, record # NoRow,
           RowShape(record'), record' # NoRow, record'.kind = record.kind,
           RowShape(intended'), overtaken' \in BOOLEAN, ~overtaken' => record' = intended',
           NEW e \in Editors, NEW r \in Runners,
           editing' = EditsStale \/ editing' = [EditsStale EXCEPT ![e] = NoEdit],
           running' = RunsStale \/ running' = [RunsStale EXCEPT ![r] = NoRun]
    PROVE  ConfigurationInv'
  BY EditsBecomeStale, RunsBecomeStale DEF ConfigurationInv

\* The same where there is only one of the two, with everything of the other kind stale
LEMMA FinishKeeps ==
    ASSUME ConfigurationInv, record # NoRow,
           RowShape(record'), record' # NoRow, record'.kind = record.kind,
           RowShape(intended'), overtaken' \in BOOLEAN, ~overtaken' => record' = intended',
           NEW e \in Editors, Finish(e)
    PROVE  ConfigurationInv'
  <1>1. editing' = [d \in Editors |-> editing'[d]] /\ \A d \in Editors : EditInv(d)'
    BY EditsBecomeStale DEF Finish
  <1>2. running' = [r \in Runners |-> running'[r]]
    BY DEF Finish, RunsStale
  <1>3. \A r \in Runners : RunInv(r)'
    BY RunsBecomeStale DEF Finish
  <1> QED BY <1>1, <1>2, <1>3 DEF ConfigurationInv

\* A form that was loaded from the row as it is puts back the secrets that were decided.
LEMMA SaveEditKeeps ==
    ASSUME ConfigurationInv, NEW e \in Editors, SaveEdit(e)
    PROVE  ConfigurationInv'
  <1> DEFINE t == editing[e].type
             o == editing[e].form
             old == editing[e].loaded.options
             before == IF overtaken THEN record.options ELSE intended.options
             decided == [k \in DOMAIN o |-> IF Keeps(t, o, k) THEN before[k] ELSE o[k]]
             written == Updated(t, o, old)
  <1>1. /\ editing[e].phase = "form" /\ record # NoRow /\ Finish(e)
        /\ record' = Configured(record.kind, TypeOf(e), written)
        /\ overtaken' = editing[e].stale
        /\ intended' = IF editing[e].stale THEN NoRow ELSE Configured(record.kind, t, decided)
    BY DEF SaveEdit
  <1>2. /\ t \in Types /\ record.kind \in RowKinds /\ editing[e].stale \in BOOLEAN
        /\ ~editing[e].stale => editing[e].loaded = record
    BY <1>1 DEF ConfigurationInv, EditInv
  <1>3. ~editing[e].stale => TypeOf(e) = t
    BY <1>2 DEF TypeOf
  <1>4. TypeOf(e) \in Types
    BY <1>1, <1>2 DEF TypeOf, ConfigurationInv, RowShape
  <1>5. ~editing[e].stale => before = old
    BY <1>2 DEF ConfigurationInv
  <1>6. before = old => decided = written
    BY DEF Updated
  <1>7. written = [k \in DOMAIN written |-> written[k]] /\ decided = [k \in DOMAIN decided |-> decided[k]]
    BY DEF Updated
  <1> HIDE DEF t, o, old, before, decided, written
  <1>8. RowShape(record') /\ record' # NoRow
    BY <1>1, <1>2, <1>4, <1>7, ConfiguredShape
  <1>9. record'.kind = record.kind
    BY <1>1 DEF Configured
  <1>10. RowShape(intended')
    <2>1. RowShape(NoRow)
      BY DEF RowShape
    <2> QED BY <1>1, <1>2, <1>7, <2>1, ConfiguredShape
  <1>11. ~overtaken' => record' = intended'
    BY <1>1, <1>3, <1>5, <1>6
  <1> QED BY <1>1, <1>2, <1>8, <1>9, <1>10, <1>11, FinishKeeps

\* The type alone: the options stay as they are
LEMMA SaveTypeKeeps ==
    ASSUME ConfigurationInv, NEW e \in Editors, SaveType(e)
    PROVE  ConfigurationInv'
  <1>1. /\ editing[e].phase = "type" /\ record # NoRow /\ Finish(e)
        /\ record' = [record EXCEPT !.type = TypeOf(e)]
        /\ overtaken' = (overtaken \/ editing[e].stale)
        /\ intended' = IF overtaken' THEN NoRow ELSE [intended EXCEPT !.type = editing[e].type]
    BY DEF SaveType
  <1>2. /\ editing[e].type \in Types /\ record.kind \in RowKinds /\ editing[e].stale \in BOOLEAN
        /\ ~editing[e].stale => editing[e].loaded = record
    BY <1>1 DEF ConfigurationInv, EditInv
  <1>3. TypeOf(e) \in Types /\ (~editing[e].stale => TypeOf(e) = editing[e].type)
    BY <1>1, <1>2 DEF TypeOf, ConfigurationInv, RowShape
  <1>4. RowShape(record') /\ record' # NoRow /\ record'.kind = record.kind
    <2> DEFINE row == [record EXCEPT !["type"] = TypeOf(e)]
    <2>1. IsRecord(record, {"kind", "type", "options"})
      BY <1>1 DEF ConfigurationInv, RowShape
    <2>2. /\ IsRecord(row, {"kind", "type", "options"}) /\ row.type = TypeOf(e)
          /\ row.kind = record.kind /\ row.options = record.options
      BY <2>1, Field
    <2>3. record' = row
      BY <1>1
    <2>4. record.kind = "data_source" => record.options = [k \in DOMAIN record.options |-> record.options[k]]
      BY <1>1 DEF ConfigurationInv, RowShape
    <2> HIDE DEF row
    <2> QED BY <1>2, <1>3, <2>2, <2>3, <2>4, KindsDiffer DEF RowShape
  <1>5. ~overtaken' => record' = intended'
    BY <1>1, <1>2, <1>3 DEF ConfigurationInv
  <1>6. RowShape(intended')
    BY <1>1, <1>4, <1>5 DEF RowShape
  <1>7. overtaken' \in BOOLEAN
    BY <1>1, <1>2 DEF ConfigurationInv
  <1> QED BY <1>1, <1>4, <1>5, <1>6, <1>7, FinishKeeps

\* Settings are written with all those that were loaded.
LEMMA SaveSettingsKeeps ==
    ASSUME ConfigurationInv, NEW e \in Editors, SaveSettings(e)
    PROVE  ConfigurationInv'
  <1> DEFINE all == WithSettings(editing[e].change, editing[e].loaded.options)
  <1>1. /\ editing[e].phase = "settings" /\ Finish(e) /\ Settable(editing[e].change)
        /\ record' = [record EXCEPT !.options = all]
        /\ overtaken' = (overtaken \/ editing[e].stale)
        /\ intended' = IF overtaken' THEN NoRow
                       ELSE [intended EXCEPT !.options = WithSettings(editing[e].change, @)]
    BY DEF SaveSettings
  <1>2. /\ record # NoRow /\ record.kind = Organization /\ editing[e].stale \in BOOLEAN
        /\ ~editing[e].stale => editing[e].loaded = record
        /\ RowShape(editing[e].loaded) /\ editing[e].loaded.kind = Organization
        /\ editing[e].loaded # NoRow
    BY <1>1 DEF ConfigurationInv, EditInv
  <1>3. DOMAIN all \subseteq DOMAIN Defaults
    <2>1. DOMAIN editing[e].loaded.options \subseteq DOMAIN Defaults
      BY <1>2 DEF RowShape
    <2>2. DOMAIN editing[e].change \subseteq DOMAIN Defaults
      BY <1>1 DEF Settable
    <2> QED BY <2>1, <2>2 DEF WithSettings
  <1>4. RowShape(record') /\ record' # NoRow /\ record'.kind = record.kind
    <2> DEFINE row == [record EXCEPT !["options"] = all]
    <2>1. IsRecord(record, {"kind", "type", "options"})
      BY <1>2 DEF ConfigurationInv, RowShape
    <2> HIDE DEF all
    <2>2. /\ IsRecord(row, {"kind", "type", "options"}) /\ row.options = all
          /\ row.kind = record.kind
      BY <2>1, Field
    <2>3. record' = row
      BY <1>1
    <2> HIDE DEF row
    <2> QED BY <1>2, <1>3, <2>2, <2>3, KindsDiffer DEF RowShape
  <1>5. ~overtaken' => record' = intended'
    <2> SUFFICES ASSUME ~overtaken' PROVE record' = intended'
      OBVIOUS
    <2>1. ~overtaken /\ ~editing[e].stale
      BY <1>1
    <2>2. record = intended /\ editing[e].loaded = record
      BY <1>2, <2>1 DEF ConfigurationInv
    <2> QED BY <1>1, <2>2
  <1>6. RowShape(intended')
    BY <1>1, <1>4, <1>5 DEF RowShape
  <1>7. overtaken' \in BOOLEAN
    BY <1>1, <1>2 DEF ConfigurationInv
  <1> QED BY <1>1, <1>2, <1>4, <1>5, <1>6, <1>7, FinishKeeps

\* With the row go its edits and executions.
LEMMA RemoveKeeps == ConfigurationInv /\ Remove => ConfigurationInv'
  <1> SUFFICES ASSUME ConfigurationInv, Remove PROVE ConfigurationInv'
    OBVIOUS
  <1>1. NoEdit.phase = "idle" /\ NoRun.phase = "idle"
    BY DEF NoEdit, NoRun
  <1> QED BY <1>1 DEF Remove, ConfigurationInv, EditInv, RunInv, RowShape

\* An execution that begins, opens or closes its tunnel, or dies: the row stays.
LEMMA RunKeeps ==
    ASSUME ConfigurationInv, NEW r \in Runners,
           StartRun(r) \/ OpenTunnel(r) \/ CloseTunnel(r) \/ DropRun(r)
    PROVE  ConfigurationInv'
  <1>1. UNCHANGED <<record, editing, intended, overtaken>>
    BY DEF StartRun, OpenTunnel, CloseTunnel, DropRun
  <1>2. running' = [q \in Runners |-> running'[q]] /\ \A q \in Runners \ {r} : running'[q] = running[q]
    BY DEF ConfigurationInv, StartRun, OpenTunnel, CloseTunnel, DropRun
  <1>3. RunInv(r)
    BY DEF ConfigurationInv
  <1>4. RunInv(r)'
    <2>1. CASE StartRun(r)
      <3> DEFINE x == [phase |-> "loaded", options |-> record.options,
                       host |-> record.options[Host], stale |-> FALSE]
      <3>1. /\ running'[r] = x /\ record # NoRow /\ record.kind = "data_source"
            /\ Host \in DOMAIN record.options
        BY <2>1 DEF StartRun, ConfigurationInv
      <3>2. /\ x.phase = "loaded" /\ x.options = record.options /\ x.stale = FALSE
            /\ x.host = record.options[Host] /\ IsRecord(x, {"phase", "options", "host", "stale"})
        BY DEF IsRecord
      <3>3. record.options = [k \in DOMAIN record.options |-> record.options[k]]
        BY <3>1 DEF ConfigurationInv, RowShape
      <3> HIDE DEF x
      <3> QED BY <1>1, <3>1, <3>2, <3>3 DEF RunInv
    <2>2. CASE OpenTunnel(r)
      <3> DEFINE o == [running[r].options EXCEPT ![Host] = LocalAddress]
                 x == running'[r]
      <3>1. running[r].phase = "loaded" /\ IsRecord(running[r], {"phase", "options", "host", "stale"})
        BY <1>3, <2>2 DEF OpenTunnel, RunInv
      <3>2. running'[r] = [[running[r] EXCEPT !.phase = "tunnel"] EXCEPT !.options = o]
        BY <2>2, <3>1 DEF OpenTunnel, ConfigurationInv, IsRecord
      <3>3. /\ x.phase = "tunnel" /\ x.options = o /\ x.stale = running[r].stale
            /\ x.host = running[r].host /\ IsRecord(x, {"phase", "options", "host", "stale"})
        BY <3>1, <3>2 DEF IsRecord
      <3>4. o = [k \in DOMAIN o |-> o[k]]
        OBVIOUS
      <3>5. ~running[r].stale => o = [record.options EXCEPT ![Host] = LocalAddress]
        BY <1>3, <3>1 DEF RunInv
      <3> HIDE DEF o
      <3>6. RunInv(r) /\ running[r].phase # "idle"
        BY <1>3, <3>1
      <3> QED BY <1>1, <3>3, <3>4, <3>5, <3>6 DEF RunInv
    <2>3. CASE CloseTunnel(r)
      <3> DEFINE o == [running[r].options EXCEPT ![Host] = running[r].host]
                 x == running'[r]
      <3>1. running[r].phase = "tunnel" /\ IsRecord(running[r], {"phase", "options", "host", "stale"})
        BY <1>3, <2>3 DEF CloseTunnel, RunInv
      <3>2. running'[r] = [[running[r] EXCEPT !.phase = "changed"] EXCEPT !.options = o]
        BY <2>3, <3>1 DEF CloseTunnel, ConfigurationInv, IsRecord
      <3>3. /\ x.phase = "changed" /\ x.options = o /\ x.stale = running[r].stale
            /\ x.host = running[r].host /\ IsRecord(x, {"phase", "options", "host", "stale"})
        BY <3>1, <3>2 DEF IsRecord
      <3>4. o = [k \in DOMAIN o |-> o[k]]
        OBVIOUS
      <3>5. ~running[r].stale => o = record.options
        <4> SUFFICES ASSUME ~running[r].stale PROVE o = record.options
          OBVIOUS
        <4>1. /\ running[r].options = [record.options EXCEPT ![Host] = LocalAddress]
              /\ Host \in DOMAIN record.options /\ running[r].host = record.options[Host]
              /\ record # NoRow /\ record.kind = "data_source"
          BY <1>3, <3>1 DEF RunInv
        <4>2. record.options = [k \in DOMAIN record.options |-> record.options[k]]
          BY <4>1 DEF ConfigurationInv, RowShape
        <4> QED BY <4>1, <4>2
      <3> HIDE DEF o
      <3>6. RunInv(r) /\ running[r].phase # "idle"
        BY <1>3, <3>1
      <3> QED BY <1>1, <3>3, <3>4, <3>5, <3>6 DEF RunInv
    <2>4. CASE DropRun(r)
      <3>1. running'[r] = NoRun /\ NoRun.phase = "idle"
        BY <2>4 DEF DropRun, ConfigurationInv, NoRun
      <3> QED BY <3>1 DEF RunInv
    <2> QED BY <2>1, <2>2, <2>3, <2>4
  <1>5. \A q \in Runners : RunInv(q)'
    <2>1. ASSUME NEW q \in Runners, q # r PROVE RunInv(q)'
      BY <1>1, <1>2, <2>1 DEF RunInv, ConfigurationInv
    <2> QED BY <1>4, <2>1
  <1>6. \A e \in Editors : EditInv(e)'
    BY <1>1 DEF EditInv, ConfigurationInv
  <1> QED BY <1>1, <1>2, <1>5, <1>6 DEF ConfigurationInv

\* An execution that is not stale writes the options that are there.
LEMMA CommitRunKeeps ==
    ASSUME ConfigurationInv, NEW r \in Runners, CommitRun(r)
    PROVE  ConfigurationInv'
  <1>1. /\ running[r].phase = "changed"
        /\ record' = [record EXCEPT !.options = running[r].options]
        /\ overtaken' = (overtaken \/ running[r].stale)
        /\ editing' = EditsStale /\ running' = [RunsStale EXCEPT ![r] = NoRun]
        /\ intended' = IF overtaken' THEN NoRow ELSE intended
    BY DEF CommitRun
  <1>2. /\ record # NoRow /\ record.kind = "data_source" /\ running[r].stale \in BOOLEAN
        /\ running[r].options = [k \in DOMAIN running[r].options |-> running[r].options[k]]
        /\ ~running[r].stale => running[r].options = record.options
    BY <1>1 DEF ConfigurationInv, RunInv
  <1> DEFINE row == [record EXCEPT !["options"] = running[r].options]
  <1>3. IsRecord(record, {"kind", "type", "options"}) /\ record.type \in Types
    BY <1>2, KindsDiffer DEF ConfigurationInv, RowShape
  <1>4. /\ IsRecord(row, {"kind", "type", "options"}) /\ row.options = running[r].options
        /\ row.kind = record.kind /\ row.type = record.type
        /\ ~running[r].stale => row = record
    BY <1>2, <1>3, Field
  <1>5. record' = row
    BY <1>1
  <1> HIDE DEF row
  <1>6. RowShape(record') /\ record' # NoRow /\ record'.kind = record.kind
    BY <1>2, <1>3, <1>4, <1>5, KindsDiffer DEF RowShape
  <1>7. ~overtaken' => record' = intended'
    BY <1>1, <1>4, <1>5 DEF ConfigurationInv
  <1>8. RowShape(intended') /\ overtaken' \in BOOLEAN
    BY <1>1, <1>2 DEF ConfigurationInv, RowShape
  <1>9. running' = [q \in Runners |-> running'[q]] /\ \A q \in Runners : RunInv(q)'
    BY <1>1, <1>2, <1>6, RunsBecomeStale
  <1>10. editing' = [e \in Editors |-> editing'[e]]
    BY <1>1 DEF EditsStale
  <1>11. \A e \in Editors : EditInv(e)'
    BY <1>1, <1>2, <1>6, EditsBecomeStale
  <1> QED BY <1>6, <1>7, <1>8, <1>9, <1>10, <1>11 DEF ConfigurationInv

LEMMA ConfigurationInvNext == ConfigurationInv /\ [ConfigurationNext]_configurationVars => ConfigurationInv'
  <1> SUFFICES ASSUME ConfigurationInv, [ConfigurationNext]_configurationVars PROVE ConfigurationInv'
    OBVIOUS
  <1>1. CASE UNCHANGED configurationVars
    BY <1>1 DEF configurationVars, ConfigurationInv, EditInv, RunInv
  <1>2. CASE ConfigurationNext
    <2>1. CASE SetUp \/ \E kind \in RowKinds, t \in Types, f \in Forms : Configure(kind, t, f)
      BY <2>1, ConfigureKeeps
    <2>2. ASSUME NEW e \in Editors,
                 \/ \E t \in Types : OpenRetype(e, t) \/ \E f \in Forms : OpenEdit(e, t, f)
                 \/ \E change \in Changes : OpenSettings(e, change)
                 \/ SaveEdit(e) \/ SaveType(e) \/ SaveSettings(e) \/ RefuseEdit(e)
          PROVE  ConfigurationInv'
      BY <2>2, OpenKeeps, SaveEditKeeps, SaveTypeKeeps, SaveSettingsKeeps
    <2>3. CASE Remove
      BY <2>3, RemoveKeeps
    <2>4. ASSUME NEW r \in Runners,
                 StartRun(r) \/ OpenTunnel(r) \/ CloseTunnel(r) \/ CommitRun(r) \/ DropRun(r)
          PROVE  ConfigurationInv'
      BY <2>4, RunKeeps, CommitRunKeeps
    <2> QED BY <1>2, <2>1, <2>2, <2>3, <2>4 DEF ConfigurationNext
  <1> QED BY <1>1, <1>2

LEMMA ConfigurationInvHolds == ConfigurationSpec => []ConfigurationInv
  BY ConfigurationInvInit, ConfigurationInvNext, PTL DEF ConfigurationSpec

(* The row has a kind, a type and options that belong to it, edits and     *)
(* executions are in one of their phases.                                  *)
THEOREM ConfigurationTypeCorrect == ConfigurationSpec => []ConfigurationTypeOK
  <1>1. ConfigurationInv => ConfigurationTypeOK
    BY DEF ConfigurationInv, ConfigurationTypeOK, RowShape, RowOrNone, EditInv, RunInv
  <1> QED BY <1>1, ConfigurationInvHolds, PTL

(* Whatever administrators and commands edit at once, and whatever queries *)
(* run through tunnels meanwhile: the type, the options and the settings   *)
(* are those that were decided, secrets included, unless the last write    *)
(* came from a row that had changed since it was loaded.                   *)
THEOREM DecidedOptionsStay == ConfigurationSpec => []OptionsAsDecided
  <1>1. ConfigurationInv => OptionsAsDecided
    BY DEF ConfigurationInv, OptionsAsDecided, ShownSettings, GetSetting
  <1> QED BY <1>1, ConfigurationInvHolds, PTL

-----------------------------------------------------------------------------
(* Parameters *)

AskFields == {"phase", "user", "kind", "source", "nodes", "schema", "values", "level",
              "unchecked", "writings", "results"}

\* What is in hand was loaded as a whole from a version of the saved query
LoadedWhole(a) ==
    \E query \in a.writings :
        /\ query.source = a.source /\ query.nodes = a.nodes /\ query.schema = a.schema
        /\ a.kind = "endpoint" => query.open

\* Each value was checked with some result of the dropdown, but for those that are yet to be
Checked(a) ==
    \A p \in DOMAIN a.values \ a.unchecked :
        \E shown \in a.results : ValidValue(a.schema, p, a.values[p], shown)

\* What is granted is granted for what was loaded
GrantedFor(a) ==
    /\ a.kind = "endpoint" => a.level = "endpoint"
    /\ a.kind # "endpoint" => a.level \in {"view", "full"}
    /\ a.level = "view" => a.kind = "saved" /\ IsSafe(a.schema)

\* A request that is in hand while the dropdown shows `shown`
AskInv(a, shown) ==
    a # NoAsk =>
        /\ IsRecord(a, AskFields)
        /\ a.phase \in {"loaded", "granted", "checking", "ready"}
        /\ a.kind \in {"saved", "refresh", "adhoc", "endpoint"}
        /\ a.kind = "endpoint" => a.phase = "checking"
        /\ a.kind \in {"saved", "endpoint"} => LoadedWhole(a)
        /\ a.phase # "loaded" => GrantedFor(a)
        /\ Checked(a)
        /\ a.phase = "ready" => a.unchecked = {} /\ Filled(a)
        /\ shown \in a.results

TaskInv(t) ==
    t # NoTask =>
        /\ t.phase = "ready"
        /\ t.kind = "endpoint" \/ Filled(t)
        /\ GrantedFor(t) /\ Checked(t) /\ t.unchecked = {}
        /\ t.kind \in {"saved", "endpoint"} => LoadedWhole(t)

ParameterInv ==
    /\ saved \in Writings
    /\ level \in [Callers \X Wells -> {"none", "view", "full"}]
    /\ pausedWells \subseteq Wells
    /\ dropdown \in Results \cup {NoResult}
    /\ inHand = [r \in Askers |-> inHand[r]] /\ \A r \in Askers : AskInv(inHand[r], dropdown)
    /\ sent = [r \in Askers |-> sent[r]] /\ \A r \in Askers : TaskInv(sent[r])

\* One request takes a step, and what it has in hand, and has sent, is as it should be.
LEMMA OneAsk ==
    ASSUME ParameterInv, NEW r \in Askers, NEW x, AskInv(x, dropdown),
           inHand' = [inHand EXCEPT ![r] = x],
           UNCHANGED <<saved, level, pausedWells, dropdown>>,
           NEW t, TaskInv(t), sent' = sent \/ sent' = [sent EXCEPT ![r] = t]
    PROVE  ParameterInv'
  <1>1. inHand' = [q \in Askers |-> inHand'[q]] /\ sent' = [q \in Askers |-> sent'[q]]
    BY DEF ParameterInv
  <1>2. \A q \in Askers : inHand'[q] = inHand[q] \/ inHand'[q] = x
    BY DEF ParameterInv
  <1>3. \A q \in Askers : sent'[q] = sent[q] \/ sent'[q] = t
    BY DEF ParameterInv
  <1>4. \A q \in Askers : AskInv(inHand'[q], dropdown')
    BY <1>2 DEF ParameterInv
  <1>5. \A q \in Askers : TaskInv(sent'[q])
    BY <1>3 DEF ParameterInv
  <1> QED BY <1>1, <1>4, <1>5 DEF ParameterInv

\* Nothing in hand, or nothing sent, is always right.
LEMMA NothingInHand == TaskInv(NoTask) /\ \A shown : AskInv(NoAsk, shown)
  BY DEF TaskInv, AskInv

\* The saved query, or the values for an endpoint, are loaded.
LEMMA AskKeeps ==
    ASSUME ParameterInv, NEW r \in Askers, NEW u, NEW kind \in {"saved", "refresh", "adhoc"},
           NEW query, NEW schema, NEW values, Ask(r, u, kind, query, schema, values),
           kind = "saved" => query = saved /\ schema = saved.schema
    PROVE  ParameterInv'
  <1> DEFINE x == [phase |-> "loaded", user |-> u, kind |-> kind, source |-> query.source,
           nodes |-> query.nodes, schema |-> schema, values |-> values, level |-> "none",
           unchecked |-> DOMAIN values, writings |-> {saved}, results |-> {dropdown}]
  <1>1. /\ inHand' = [inHand EXCEPT ![r] = x]
        /\ UNCHANGED <<saved, level, pausedWells, dropdown, sent>>
    BY DEF Ask
  <1>2. /\ IsRecord(x, AskFields) /\ x.phase = "loaded" /\ x.kind = kind /\ x.source = query.source
        /\ x.nodes = query.nodes /\ x.schema = schema /\ saved \in x.writings /\ dropdown \in x.results
        /\ x.unchecked = DOMAIN x.values
    BY DEF IsRecord, AskFields
  <1> HIDE DEF x
  <1>3. kind = "saved" => LoadedWhole(x)
    BY <1>2 DEF LoadedWhole
  <1>4. Checked(x)
    BY <1>2 DEF Checked
  <1>5. AskInv(x, dropdown)
    BY <1>2, <1>3, <1>4 DEF AskInv
  <1> QED BY <1>1, <1>5, OneAsk, NothingInHand

\* An endpoint is asked for while the query is published.
LEMMA AskEndpointKeeps ==
    ASSUME ParameterInv, NEW r \in Askers, NEW values, AskEndpoint(r, values)
    PROVE  ParameterInv'
  <1> DEFINE x == [phase |-> "checking", user |-> "anyone", kind |-> "endpoint", source |-> saved.source,
           nodes |-> saved.nodes, schema |-> saved.schema, values |-> Quoted(values),
           level |-> "endpoint", unchecked |-> DOMAIN values,
           writings |-> {saved}, results |-> {dropdown}]
  <1>1. /\ inHand' = [inHand EXCEPT ![r] = x] /\ saved.open
        /\ UNCHANGED <<saved, level, pausedWells, dropdown, sent>>
    BY DEF AskEndpoint
  <1>2. /\ IsRecord(x, AskFields) /\ x.phase = "checking" /\ x.kind = "endpoint"
        /\ x.source = saved.source /\ x.level = "endpoint"
        /\ x.nodes = saved.nodes /\ x.schema = saved.schema
        /\ saved \in x.writings /\ dropdown \in x.results
        /\ x.unchecked = DOMAIN values /\ x.values = Quoted(values)
    BY DEF IsRecord, AskFields
  <1> HIDE DEF x
  <1>3. LoadedWhole(x)
    BY <1>1, <1>2 DEF LoadedWhole
  <1>4. GrantedFor(x)
    BY <1>2 DEF GrantedFor
  <1>5. DOMAIN x.values = x.unchecked
    BY <1>2 DEF Quoted
  <1>6. Checked(x)
    BY <1>5 DEF Checked
  <1>7. AskInv(x, dropdown)
    BY <1>2, <1>3, <1>4, <1>6 DEF AskInv
  <1> QED BY <1>1, <1>7, OneAsk, NothingInHand

\* An endpoint sends values that were all checked.
LEMMA ServeKeeps ==
    ASSUME ParameterInv, NEW r \in Askers, ServeEndpoint(r)
    PROVE  ParameterInv'
  <1> DEFINE a == inHand[r]
             t == [a EXCEPT !["phase"] = "ready"]
  <1>1. /\ a.phase = "checking" /\ a.kind = "endpoint" /\ a.unchecked = {}
        /\ inHand' = [inHand EXCEPT ![r] = NoAsk]
        /\ UNCHANGED <<saved, level, pausedWells, dropdown>>
    BY DEF ServeEndpoint, Applied
  <1>2. sent' = [sent EXCEPT ![r] = t]
    BY DEF ServeEndpoint
  <1>3. AskInv(a, dropdown) /\ a # NoAsk
    BY <1>1 DEF ParameterInv, NoAsk
  <1> HIDE DEF a
  <1>4. IsRecord(a, AskFields)
    BY <1>3 DEF AskInv
  <1>5. /\ t.phase = "ready" /\ t.values = a.values /\ t.unchecked = a.unchecked
        /\ t.kind = a.kind /\ t.source = a.source /\ t.nodes = a.nodes /\ t.schema = a.schema
        /\ t.level = a.level /\ t.writings = a.writings /\ t.results = a.results
    BY <1>4 DEF IsRecord, AskFields
  <1> HIDE DEF t
  <1>6. LoadedWhole(t)
    BY <1>1, <1>3, <1>5 DEF AskInv, LoadedWhole
  <1>7. Checked(t)
    BY <1>3, <1>5 DEF AskInv, Checked
  <1>8. GrantedFor(t)
    BY <1>1, <1>3, <1>5 DEF AskInv, GrantedFor
  <1>9. TaskInv(t)
    BY <1>1, <1>5, <1>6, <1>7, <1>8 DEF TaskInv
  <1> QED BY <1>1, <1>2, <1>9, OneAsk, NothingInHand

\* Who may execute it does, with the level that allows it.
LEMMA AllowKeeps ==
    ASSUME ParameterInv, NEW r \in Askers, Allow(r)
    PROVE  ParameterInv'
  <1> DEFINE a == inHand[r]
             l == LevelOf(a.user, a.source)
             y == [[a EXCEPT !.phase = "granted"] EXCEPT !["level"] = l]
  <1>1. /\ a.phase = "loaded" /\ MayExecute(r, l)
        /\ UNCHANGED <<saved, level, pausedWells, dropdown, sent>>
    BY DEF Allow
  <1>2. AskInv(a, dropdown) /\ a # NoAsk
    BY <1>1 DEF ParameterInv, NoAsk
  <1>3. IsRecord(a, AskFields)
    BY <1>2 DEF AskInv
  <1>4. inHand' = [inHand EXCEPT ![r] = y]
    BY <1>3 DEF Allow, ParameterInv, IsRecord, AskFields
  <1>5. l \in {"view", "full"} /\ (l = "view" => a.kind = "saved" /\ IsSafe(a.schema))
    BY <1>1 DEF MayExecute
  <1>6. a.kind # "endpoint"
    BY <1>1, <1>2 DEF AskInv
  <1> HIDE DEF a, l
  <1>7. IsRecord(y, AskFields) /\ y.phase = "granted" /\ y.level = l
    BY <1>3 DEF IsRecord, AskFields
  <1>8. /\ y.kind = a.kind /\ y.source = a.source /\ y.nodes = a.nodes /\ y.schema = a.schema
        /\ y.values = a.values /\ y.unchecked = a.unchecked
        /\ y.writings = a.writings /\ y.results = a.results
    BY <1>3 DEF IsRecord, AskFields
  <1> HIDE DEF y
  <1>9. a.kind = "saved" => LoadedWhole(y)
    BY <1>2, <1>8 DEF AskInv, LoadedWhole
  <1>10. GrantedFor(y)
    BY <1>5, <1>6, <1>7, <1>8 DEF GrantedFor
  <1>11. Checked(y)
    BY <1>2, <1>8 DEF AskInv, Checked
  <1>12. AskInv(y, dropdown)
    BY <1>2, <1>6, <1>7, <1>8, <1>9, <1>10, <1>11 DEF AskInv
  <1> QED BY <1>1, <1>4, <1>12, OneAsk, NothingInHand

\* The values are about to be checked.
LEMMA BeginKeeps ==
    ASSUME ParameterInv, NEW r \in Askers, BeginApply(r)
    PROVE  ParameterInv'
  <1> DEFINE a == inHand[r]
             y == [a EXCEPT !["phase"] = "checking"]
  <1>1. /\ a.phase = "granted"
        /\ UNCHANGED <<saved, level, pausedWells, dropdown, sent>>
    BY DEF BeginApply
  <1>2. inHand' = [inHand EXCEPT ![r] = y]
    BY DEF BeginApply, ParameterInv
  <1>3. AskInv(a, dropdown) /\ a # NoAsk
    BY <1>1 DEF ParameterInv, NoAsk
  <1> HIDE DEF a
  <1>4. /\ IsRecord(y, AskFields) /\ y.phase = "checking" /\ y.kind = a.kind /\ y.source = a.source
        /\ y.nodes = a.nodes /\ y.schema = a.schema /\ y.values = a.values /\ y.level = a.level
        /\ y.unchecked = a.unchecked /\ y.writings = a.writings /\ y.results = a.results
    BY <1>3 DEF AskInv, IsRecord, AskFields
  <1> HIDE DEF y
  <1>5. a.kind = "saved" => LoadedWhole(y)
    BY <1>3, <1>4 DEF AskInv, LoadedWhole
  <1>6. Checked(y)
    BY <1>3, <1>4 DEF AskInv, Checked
  <1>7. GrantedFor(y) /\ a.kind # "endpoint"
    BY <1>1, <1>3, <1>4 DEF AskInv, GrantedFor
  <1>8. AskInv(y, dropdown)
    BY <1>3, <1>4, <1>5, <1>6, <1>7 DEF AskInv
  <1> QED BY <1>1, <1>2, <1>8, OneAsk, NothingInHand

\* One more value has been checked, with the result the dropdown shows now.
LEMMA CheckKeeps ==
    ASSUME ParameterInv, NEW r \in Askers, NEW p, CheckValue(r, p)
    PROVE  ParameterInv'
  <1> DEFINE a == inHand[r]
             y == [a EXCEPT !["unchecked"] = a.unchecked \ {p}]
  <1>1. /\ a.phase = "checking" /\ ValidValue(a.schema, p, a.values[p], dropdown)
        /\ UNCHANGED <<saved, level, pausedWells, dropdown, sent>>
    BY DEF CheckValue
  <1>2. inHand' = [inHand EXCEPT ![r] = y]
    BY DEF CheckValue, ParameterInv
  <1>3. AskInv(a, dropdown) /\ a # NoAsk
    BY <1>1 DEF ParameterInv, NoAsk
  <1> HIDE DEF a
  <1>4. /\ IsRecord(y, AskFields) /\ y.phase = "checking" /\ y.kind = a.kind /\ y.source = a.source
        /\ y.nodes = a.nodes /\ y.schema = a.schema /\ y.values = a.values /\ y.level = a.level
        /\ y.unchecked = a.unchecked \ {p} /\ y.writings = a.writings /\ y.results = a.results
    BY <1>1, <1>3 DEF AskInv, IsRecord, AskFields
  <1> HIDE DEF y
  <1>5. a.kind \in {"saved", "endpoint"} => LoadedWhole(y)
    BY <1>3, <1>4 DEF AskInv, LoadedWhole
  <1>6. dropdown \in a.results
    BY <1>3 DEF AskInv
  <1>7. ASSUME NEW x \in DOMAIN y.values \ y.unchecked
        PROVE  \E shown \in y.results : ValidValue(y.schema, x, y.values[x], shown)
    <2>1. CASE x = p
      BY <1>1, <1>4, <1>6, <2>1
    <2>2. CASE x # p
      BY <1>3, <1>4, <2>2 DEF AskInv, Checked
    <2> QED BY <2>1, <2>2
  <1>8. Checked(y)
    BY <1>7 DEF Checked
  <1>9. GrantedFor(y)
    BY <1>1, <1>3, <1>4 DEF AskInv, GrantedFor
  <1>10. AskInv(y, dropdown)
    BY <1>3, <1>4, <1>5, <1>8, <1>9 DEF AskInv
  <1> QED BY <1>1, <1>2, <1>10, OneAsk, NothingInHand

\* All values are checked, and none is missing.
LEMMA PrepareKeeps ==
    ASSUME ParameterInv, NEW r \in Askers, Prepare(r)
    PROVE  ParameterInv'
  <1> DEFINE a == inHand[r]
             y == [a EXCEPT !["phase"] = "ready"]
  <1>1. /\ a.phase = "checking" /\ a.kind # "endpoint" /\ a.unchecked = {}
        /\ MissingParams(a.nodes, a.values) = {}
        /\ UNCHANGED <<saved, level, pausedWells, dropdown, sent>>
    BY DEF Prepare, Applied
  <1>2. inHand' = [inHand EXCEPT ![r] = y]
    BY DEF Prepare, ParameterInv
  <1>3. AskInv(a, dropdown) /\ a # NoAsk
    BY <1>1 DEF ParameterInv, NoAsk
  <1>4. Filled(a)
    BY <1>1 DEF MissingParams, CollectedKeys, Filled
  <1> HIDE DEF a
  <1>5. /\ IsRecord(y, AskFields) /\ y.phase = "ready" /\ y.kind = a.kind /\ y.source = a.source
        /\ y.nodes = a.nodes /\ y.schema = a.schema /\ y.values = a.values /\ y.level = a.level
        /\ y.unchecked = a.unchecked /\ y.writings = a.writings /\ y.results = a.results
    BY <1>3 DEF AskInv, IsRecord, AskFields
  <1> HIDE DEF y
  <1>6. a.kind = "saved" => LoadedWhole(y)
    BY <1>3, <1>5 DEF AskInv, LoadedWhole
  <1>7. Checked(y) /\ Filled(y)
    BY <1>3, <1>4, <1>5 DEF AskInv, Checked, Filled
  <1>8. GrantedFor(y)
    BY <1>1, <1>3, <1>5 DEF AskInv, GrantedFor
  <1>9. AskInv(y, dropdown)
    BY <1>1, <1>3, <1>5, <1>6, <1>7, <1>8 DEF AskInv
  <1> QED BY <1>1, <1>2, <1>9, OneAsk, NothingInHand

\* A task is sent with all that was granted and checked, requests and tasks end.
LEMMA SendOrEndKeeps ==
    ASSUME ParameterInv, NEW r \in Askers, SendTask(r) \/ EndAsk(r) \/ RunTask(r)
    PROVE  ParameterInv'
  <1>1. CASE SendTask(r)
    <2>1. /\ inHand[r].phase = "ready" /\ sent' = [sent EXCEPT ![r] = inHand[r]]
          /\ inHand' = [inHand EXCEPT ![r] = NoAsk]
          /\ UNCHANGED <<saved, level, pausedWells, dropdown>>
      BY <1>1 DEF SendTask
    <2>2. AskInv(inHand[r], dropdown) /\ inHand[r] # NoAsk
      BY <2>1 DEF ParameterInv, NoAsk
    <2>3. TaskInv(inHand[r])
      BY <2>1, <2>2 DEF AskInv, TaskInv
    <2> QED BY <2>1, <2>3, OneAsk, NothingInHand
  <1>2. CASE EndAsk(r)
    BY <1>2, OneAsk, NothingInHand DEF EndAsk
  <1>3. CASE RunTask(r)
    <2>1. \A q \in Askers : sent'[q] = sent[q] \/ sent'[q] = NoTask
      BY <1>3 DEF RunTask, ParameterInv
    <2>2. sent' = [q \in Askers |-> sent'[q]] /\ \A q \in Askers : TaskInv(sent'[q])
      BY <1>3, <2>1, NothingInHand DEF RunTask, ParameterInv
    <2> QED BY <1>3, <2>2 DEF RunTask, ParameterInv
  <1> QED BY <1>1, <1>2, <1>3

\* What a request has in hand stays what it was when there is one more version of the query.
LEMMA OneMoreSeen ==
    ASSUME NEW a, NEW before, AskInv(a, before), a # NoAsk, NEW query, NEW shown,
           NEW y, y = [a EXCEPT !.writings = @ \cup {query}, !.results = @ \cup {shown}]
    PROVE  AskInv(y, shown)
  <1>1. /\ IsRecord(y, AskFields) /\ y.phase = a.phase /\ y.kind = a.kind /\ y.source = a.source
        /\ y.nodes = a.nodes /\ y.schema = a.schema /\ y.values = a.values /\ y.level = a.level
        /\ y.unchecked = a.unchecked
        /\ y.writings = a.writings \cup {query} /\ y.results = a.results \cup {shown}
    BY DEF AskInv, IsRecord, AskFields
  <1>2. LoadedWhole(a) => LoadedWhole(y)
    BY <1>1 DEF LoadedWhole
  <1>3. (Checked(a) => Checked(y)) /\ (Filled(a) => Filled(y))
    BY <1>1 DEF Checked, Filled
  <1>4. GrantedFor(a) => GrantedFor(y)
    BY <1>1 DEF GrantedFor
  <1> QED BY <1>1, <1>2, <1>3, <1>4 DEF AskInv

\* The saved query and its dropdown change under requests that have loaded them.
LEMMA SeenKeeps ==
    ASSUME ParameterInv, NEW query \in Writings, NEW shown \in Results \cup {NoResult},
           saved' = query, dropdown' = shown, inHand' = Witnessed(query, shown),
           UNCHANGED <<level, pausedWells, sent>>
    PROVE  ParameterInv'
  <1>1. inHand' = [r \in Askers |-> inHand'[r]]
    BY DEF Witnessed
  <1>2. ASSUME NEW r \in Askers PROVE AskInv(inHand'[r], shown)
    <2>1. CASE inHand[r] = NoAsk
      <3>1. inHand'[r] = NoAsk
        BY <2>1 DEF Witnessed
      <3> QED BY <3>1, NothingInHand
    <2>2. CASE inHand[r] # NoAsk
      <3> DEFINE y == [inHand[r] EXCEPT !.writings = @ \cup {query}, !.results = @ \cup {shown}]
      <3>1. inHand'[r] = y
        BY <2>2 DEF Witnessed
      <3>2. AskInv(inHand[r], dropdown)
        BY DEF ParameterInv
      <3>3. AskInv(y, shown)
        BY <2>2, <3>2, OneMoreSeen
      <3> QED BY <3>1, <3>3
    <2> QED BY <2>1, <2>2
  <1> QED BY <1>1, <1>2 DEF ParameterInv

LEMMA ParameterInvInit == ParameterInit => ParameterInv
  <1> SUFFICES ASSUME ParameterInit PROVE ParameterInv
    OBVIOUS
  <1>1. level \in [Callers \X Wells -> {"none", "view", "full"}]
    BY DEF ParameterInit
  <1>2. \A r \in Askers : AskInv(inHand[r], dropdown) /\ TaskInv(sent[r])
    BY NothingInHand DEF ParameterInit
  <1> QED BY <1>1, <1>2 DEF ParameterInit, ParameterInv

LEMMA ParameterInvNext == ParameterInv /\ [ParameterNext]_parameterVars => ParameterInv'
  <1> SUFFICES ASSUME ParameterInv, [ParameterNext]_parameterVars PROVE ParameterInv'
    OBVIOUS
  <1>1. CASE UNCHANGED parameterVars
    BY <1>1 DEF parameterVars, ParameterInv
  <1>2. ASSUME NEW r \in Askers, NEW u \in Callers \cup KeyHolders, NEW values \in Fillings,
               \/ AskSaved(r, u, values) \/ AskRefresh(r, u, values)
               \/ \E query \in Writings : AskAdhoc(r, u, query, values)
        PROVE  ParameterInv'
    BY <1>2, AskKeeps DEF AskSaved, AskRefresh, AskAdhoc
  <1>3. ASSUME NEW r \in Askers, NEW values \in Fillings, AskEndpoint(r, values)
        PROVE  ParameterInv'
    BY <1>3, AskEndpointKeeps
  <1>4. ASSUME NEW r \in Askers,
               \/ \E p \in UNION { DOMAIN values : values \in Fillings } : CheckValue(r, p)
               \/ Allow(r) \/ BeginApply(r) \/ Prepare(r) \/ ServeEndpoint(r)
               \/ SendTask(r) \/ EndAsk(r) \/ RunTask(r)
        PROVE  ParameterInv'
    BY <1>4, CheckKeeps, AllowKeeps, BeginKeeps, PrepareKeeps, ServeKeeps, SendOrEndKeeps
  <1>5. ASSUME NEW query \in Writings, Rewrite(query) PROVE ParameterInv'
    <2>1. dropdown \in Results \cup {NoResult} /\ dropdown' = dropdown
      BY <1>5 DEF Rewrite, ParameterInv
    <2> QED BY <1>5, <2>1, SeenKeeps DEF Rewrite
  <1>6. ASSUME NEW shown \in Results \cup {NoResult}, NewDropdown(shown) PROVE ParameterInv'
    <2>1. saved \in Writings /\ saved' = saved
      BY <1>6 DEF NewDropdown, ParameterInv
    <2> QED BY <1>6, <2>1, SeenKeeps DEF NewDropdown
  <1>7. ASSUME NEW d \in Wells, NEW paused \in BOOLEAN, SetPaused(d, paused) PROVE ParameterInv'
    BY <1>7 DEF SetPaused, ParameterInv
  <1>8. ASSUME NEW d \in Wells, NEW u \in Callers, NEW l \in {"none", "view", "full"},
               SetLevel(u, d, l)
        PROVE  ParameterInv'
    <2>1. level' \in [Callers \X Wells -> {"none", "view", "full"}]
      BY <1>8 DEF SetLevel, ParameterInv
    <2> QED BY <1>8, <2>1 DEF SetLevel, ParameterInv
  <1> QED BY <1>1, <1>2, <1>3, <1>4, <1>5, <1>6, <1>7, <1>8 DEF ParameterNext

LEMMA ParameterInvHolds == ParameterSpec => []ParameterInv
  BY ParameterInvInit, ParameterInvNext, PTL DEF ParameterSpec

(* The saved query, levels, paused data sources and the dropdown are what  *)
(* they can be; a task was ready before it was sent.                       *)
THEOREM ParameterTypeCorrect == ParameterSpec => []ParameterTypeOK
  <1>1. ParameterInv => ParameterTypeOK
    BY DEF ParameterInv, ParameterTypeOK, AskInv, TaskInv
  <1> QED BY <1>1, ParameterInvHolds, PTL

(* Whatever is edited, published, granted, paused or executed while a      *)
(* request is under way: what it sends was allowed as a whole by one       *)
(* version of the saved query, each value by some result the dropdown      *)
(* showed meanwhile, is safe for who may only look, and has no gaps that   *)
(* are looked for unless an endpoint serves it.                            *)
THEOREM TasksAreAsWritten == ParameterSpec => []ExecutedAsWritten
  <1>1. ASSUME NEW t, TaskInv(t), t # NoTask, t.kind \in {"saved", "endpoint"}
        PROVE  WrittenFor(t)
    <2>1. PICK query \in t.writings :
              /\ query.source = t.source /\ query.nodes = t.nodes /\ query.schema = t.schema
              /\ t.kind = "endpoint" => query.open
      BY <1>1 DEF TaskInv, LoadedWhole
    <2>2. \A p \in DOMAIN t.values :
              \E shown \in t.results : ValidValue(t.schema, p, t.values[p], shown)
      BY <1>1 DEF TaskInv, Checked
    <2>3. \A p \in DOMAIN t.values : p \in DOMAIN t.schema \/ DOMAIN t.schema = {}
      BY <2>2 DEF ValidValue, Undefined
    <2>4. t.level = "view" => \A p \in DOMAIN t.schema : t.schema[p].type # "text"
      BY <1>1 DEF TaskInv, GrantedFor, IsSafe
    <2> QED BY <2>1, <2>2, <2>3, <2>4 DEF WrittenFor
  <1>2. ASSUME NEW t, TaskInv(t), t # NoTask
        PROVE  /\ t.kind = "endpoint" \/ Filled(t)
               /\ t.level = "full" \/ t.kind \in {"saved", "endpoint"}
    BY <1>2 DEF TaskInv, GrantedFor
  <1>3. ParameterInv => ExecutedAsWritten
    BY <1>1, <1>2 DEF ParameterInv, ExecutedAsWritten
  <1> QED BY <1>3, ParameterInvHolds, PTL
==============================================================================
