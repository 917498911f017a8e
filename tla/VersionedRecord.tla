--------------------------- MODULE VersionedRecord ---------------------------
(***************************************************************************)
(* What the version of a record promises its editors (status 409, "Version *)
(* conflict -- dashboard modified since last read"): an editor that sends  *)
(* the version it has read changes the record it has read, or nothing.     *)
(* A request without a version overrides what is there.                    *)
(***************************************************************************)
EXTENDS Integers

CONSTANTS
    Clients,
    Contents,   \* what the record may contain
    Unseen      \* the copy of a client that has not read the record

VARIABLES
    record,     \* the record: its version and its content
    seen        \* the copy each client has

Init ==
    /\ record \in [version : {1}, content : Contents]
    /\ seen = [c \in Clients |-> Unseen]

View(c) ==
    /\ seen' = [seen EXCEPT ![c] = record]
    /\ UNCHANGED record

Changed(content) == record' = [version |-> record.version + 1, content |-> content]

\* Only who has seen the record as it is may change it
Edit(c, content) ==
    /\ seen[c] = record
    /\ Changed(content)
    /\ seen' = [seen EXCEPT ![c] = record']

Override(content) ==
    /\ Changed(content)
    /\ UNCHANGED seen

Next ==
    \/ \E c \in Clients : View(c)
    \/ \E content \in Contents :
        \/ Override(content)
        \/ \E c \in Clients : Edit(c, content)

Spec == Init /\ [][Next]_<<record, seen>>
=============================================================================
