------------------------------- MODULE Approval -------------------------------
(***************************************************************************)
(* What the review of MercadoLibre answers promises: a buyer reads only    *)
(* what somebody approved for that question (an operator who released it,  *)
(* or the automatic mode), and reads it once.  mixed says that a draft was *)
(* put on another question's message, after which nothing is promised.     *)
(* MlReview implements it.                                                 *)
(***************************************************************************)
CONSTANTS
    Questions,  \* MercadoLibre question ids
    Replies,    \* texts
    Unanswered  \* no text

VARIABLES
    approved,  \* pairs of a question and the text approved for it
    given,     \* what MercadoLibre holds for each question
    mixed

approvalVars == <<approved, given, mixed>>

ApprovalInit ==
    /\ approved = {}
    /\ given = [q \in Questions |-> Unanswered]
    /\ mixed = FALSE

\* Approvals come, and lapse when the request that carries them ends.
Deliberate ==
    /\ approved' \subseteq Questions \X Replies
    /\ mixed' \in BOOLEAN /\ (mixed => mixed')
    /\ given' = given

Answer(q) ==
    /\ given[q] = Unanswered
    /\ \E t \in Replies :
          /\ <<q, t>> \in approved \/ mixed
          /\ given' = [given EXCEPT ![q] = t]
    /\ approved' \subseteq approved
    /\ mixed' \in BOOLEAN /\ (mixed => mixed')

ApprovalNext == Deliberate \/ \E q \in Questions : Answer(q)
ApprovalSpec == ApprovalInit /\ [][ApprovalNext]_approvalVars
=============================================================================
