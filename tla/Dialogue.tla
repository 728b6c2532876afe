------------------------------ MODULE Dialogue ------------------------------
(***************************************************************************)
(* A conversation as its customer sees it: he writes a message, it is kept *)
(* and answered or not before his next one is looked at, and an answer     *)
(* that has not gone out yet gives way to a newer one.  ConversationDesk   *)
(* implements it when the deliveries come one at a time.                   *)
(***************************************************************************)
EXTENDS Integers, Sequences

CONSTANTS
    Messages,
    Nothing    \* no message

VARIABLES
    wrote,      \* what the customer wrote, in order
    kept,       \* the messages that are in the log
    answering,  \* whether the last message is being worked on
    waiting,    \* the message whose answer is about to go out
    got         \* the messages whose answers the customer got, in order

talkVars == <<wrote, kept, answering, waiting, got>>

DialogueInit ==
    /\ wrote = <<>> /\ kept = {} /\ answering = FALSE
    /\ waiting = Nothing /\ got = <<>>

Newest == wrote[Len(wrote)]

Writes ==
    /\ ~answering
    /\ \E m \in Messages :
          /\ \A i \in DOMAIN wrote : wrote[i] # m
          /\ wrote' = Append(wrote, m)
    /\ answering' = TRUE
    /\ UNCHANGED <<kept, waiting, got>>

\* The message is stored; one that calls for no answer is then done with.
IsKept ==
    /\ answering /\ Newest \notin kept
    /\ kept' = kept \cup {Newest}
    /\ answering' \in BOOLEAN
    /\ UNCHANGED <<wrote, waiting, got>>

IsAnswered ==
    /\ answering /\ Newest \in kept
    /\ waiting' = Newest
    /\ answering' = FALSE
    /\ UNCHANGED <<wrote, kept, got>>

IsLeft ==
    /\ answering /\ Newest \in kept
    /\ answering' = FALSE
    /\ UNCHANGED <<wrote, kept, waiting, got>>

GoesOut ==
    /\ waiting # Nothing
    /\ got' = Append(got, waiting)
    /\ waiting' = Nothing
    /\ UNCHANGED <<wrote, kept, answering>>

GetsLost ==
    /\ waiting # Nothing
    /\ waiting' = Nothing
    /\ UNCHANGED <<wrote, kept, answering, got>>

DialogueNext == Writes \/ IsKept \/ IsAnswered \/ IsLeft \/ GoesOut \/ GetsLost
DialogueSpec == DialogueInit /\ [][DialogueNext]_talkVars

----------------------------------------------------------------------------
\* The answers come in the order of the messages, and none comes twice.
AnswersInOrder ==
    /\ \A p, q \in DOMAIN wrote : wrote[p] = wrote[q] => p = q
    /\ \A i, j \in DOMAIN got : i < j =>
           \E p, q \in DOMAIN wrote : p < q /\ wrote[p] = got[i] /\ wrote[q] = got[j]
=============================================================================
