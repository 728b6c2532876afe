----------------------------- MODULE QuestionLife -----------------------------
(***************************************************************************)
(* The life of a question in the MercadoLibre queue, as if each reply were *)
(* somebody's single job: it is queued, perhaps put in a batch, gets one   *)
(* message in its conversation, which is a draft for the operator or is    *)
(* sent once, and its row is closed.  A row closed as replied to was; one  *)
(* that failed may have a draft, or an answer at MercadoLibre, all the     *)
(* same.  MlBatchQueue implements it when no two activations of one kind   *)
(* overlap.                                                                *)
(***************************************************************************)
EXTENDS Integers

CONSTANT Questions

VARIABLES
    status,   \* of the row of each question
    stored,   \* messages in its conversation
    drafted,  \* those that wait for the operator
    sent,     \* attempts to answer at MercadoLibre
    taken     \* the questions MercadoLibre holds an answer for

lifeVars == <<status, stored, drafted, sent, taken>>

LifeInit ==
    /\ status = [q \in Questions |-> "NONE"]
    /\ stored = [q \in Questions |-> 0]
    /\ drafted = [q \in Questions |-> 0]
    /\ sent = [q \in Questions |-> 0]
    /\ taken = {}

Open(q) == status[q] \in {"PENDING", "DISPATCHED"}
Untouched(q) == stored[q] = 0 /\ drafted[q] = 0 /\ sent[q] = 0

Queued(q) ==
    /\ status[q] = "NONE" /\ Untouched(q)
    /\ status' = [status EXCEPT ![q] = "PENDING"]
    /\ UNCHANGED <<stored, drafted, sent, taken>>

\* A submission takes its rows on to the batch, or all of them fail with it.
Submitted(S, s) ==
    /\ \A q \in S : status[q] = "PENDING" /\ Untouched(q)
    /\ s \in {"DISPATCHED", "FAILED"}
    /\ status' = [q \in Questions |-> IF q \in S THEN s ELSE status[q]]
    /\ UNCHANGED <<stored, drafted, sent, taken>>

Stored(q, review) ==
    /\ Open(q) /\ Untouched(q)
    /\ stored' = [stored EXCEPT ![q] = 1]
    /\ drafted' = [drafted EXCEPT ![q] = IF review THEN 1 ELSE 0]
    /\ UNCHANGED <<status, sent, taken>>

\* Whatever MercadoLibre answers, the answer may be there.
Sent(q) ==
    /\ Open(q) /\ stored[q] = 1 /\ drafted[q] = 0 /\ sent[q] = 0
    /\ sent' = [sent EXCEPT ![q] = 1]
    /\ taken' \in {taken, taken \cup {q}}
    /\ UNCHANGED <<status, stored, drafted>>

\* Only what came in a batch is ANSWERED, and only a reply that is a draft or at
\* MercadoLibre closes its row as replied to; an error fails it at any time.
Closed(q, s) ==
    /\ \/ s = "ANSWERED" /\ status[q] = "DISPATCHED" /\ (drafted[q] = 1 \/ q \in taken)
       \/ s = "FALLBACK" /\ Open(q) /\ (drafted[q] = 1 \/ q \in taken)
       \/ s = "FAILED" /\ Open(q)
    /\ status' = [status EXCEPT ![q] = s]
    /\ UNCHANGED <<stored, drafted, sent, taken>>

LifeNext ==
    \/ \E S \in SUBSET Questions, s \in {"DISPATCHED", "FAILED"} : Submitted(S, s)
    \/ \E q \in Questions :
          \/ Queued(q) \/ Sent(q)
          \/ \E review \in BOOLEAN : Stored(q, review)
          \/ \E s \in {"ANSWERED", "FALLBACK", "FAILED"} : Closed(q, s)
LifeSpec == LifeInit /\ [][LifeNext]_lifeVars
=============================================================================
