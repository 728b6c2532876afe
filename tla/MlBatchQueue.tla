---------------------------- MODULE MlBatchQueue ----------------------------
(***************************************************************************)
(* The queue that bundles MercadoLibre questions into Anthropic message    *)
(* batches (backend/src/adapters/ai/ml-batch-queue.service.ts), the two    *)
(* cron ticks and the two admin buttons that drive it, and the webhook     *)
(* handler that feeds it.  Every await of the service is a point where     *)
(* another activity may run: no transaction or lock covers two statements. *)
(***************************************************************************)
EXTENDS Integers, FiniteSets

CONSTANTS
    Questions,   \* MercadoLibre question ids
    Batches,     \* Anthropic batch ids (bounds the number of submissions)
    Cron,        \* activations of the dispatch tick that may run at once
    Forced,      \* activations of the admin "force dispatch" button
    Pollers,     \* activations of the poll tick and of the "force poll" button
    Webhooks,    \* question notifications handled at once
    MinBatch,    \* ML_BATCH_MIN_BATCH_SIZE
    MaxBatch,    \* ML_BATCH_MAX_BATCH_SIZE
    MaxCrashes,  \* bound on restarts and on errors that nobody catches
    None         \* null

ASSUME BatchSizes == MinBatch \in Nat /\ MaxBatch \in Nat \ {0}
ASSUME FiniteQuestions == IsFiniteSet(Questions)
ASSUME FiniteActivities == IsFiniteSet(Cron \cup Forced \cup Pollers \cup Webhooks)
ASSUME CrashBound == MaxCrashes \in Nat
ASSUME NoneIsFresh == None \notin Questions \cup Batches
ASSUME ActorsDisjoint ==
    /\ Cron \cap Forced = {}
    /\ (Cron \cup Forced) \cap (Pollers \cup Webhooks) = {}
    /\ Pollers \cap Webhooks = {}

VARIABLES
    entry,      \* the ml_batch_queue_entries rows, one per question
    batch,      \* Anthropic: what was submitted and what came back
    job,        \* the local state of every activity
    autoReply,  \* Configuration row ml_qa_auto_reply_enabled, or the env instead
    saved,      \* AI messages stored in the conversation, per question
    drafts,     \* those stored with pendingReview, per question
    posted,     \* POST /answers calls made, per question
    answered,   \* questions MercadoLibre holds an answer for
    crashes

vars == <<entry, batch, job, autoReply, saved, drafts, posted, answered, crashes>>
replies == <<saved, drafts, posted, answered>>

Dispatchers == Cron \cup Forced
Workers == Dispatchers \cup Pollers
Procs == Workers \cup Webhooks

Final == {"ANSWERED", "FALLBACK", "FAILED"}
Statuses == {"NONE", "PENDING", "DISPATCHED"} \cup Final
ForceAge == 1    \* older than ML_BATCH_FORCE_DISPATCH_AGE_MIN
StaleAge == 2    \* older than ML_BATCH_MAX_AGE_MIN
Kinds == {"text", "tool_use", "error"}
Points == {"idle", "create", "sync", "syncMode", "submit", "mark", "markFailed",
           "stale", "rescue", "poll", "finalize", "compose", "mode", "save",
           "post", "finish", "fail"}

Entry == [status : Statuses, batch : Batches \cup {None}, age : 0 .. StaleAge, born : Nat]
Batch == [members : SUBSET Questions, state : {"unused", "in_progress", "ended"},
          result : [Questions -> Kinds]]
Job == [at : Points, todo : SUBSET Questions, cur : Questions \cup {None},
        batch : Batches \cup {None}, queue : SUBSET Batches,
        as : {"ANSWERED", "FALLBACK"}, review : BOOLEAN]

IdleJob == [at |-> "idle", todo |-> {}, cur |-> None, batch |-> None,
            queue |-> {}, as |-> "FALLBACK", review |-> FALSE]

Init ==
    /\ entry = [q \in Questions |-> [status |-> "NONE", batch |-> None, age |-> 0, born |-> 0]]
    /\ batch = [b \in Batches |-> [members |-> {}, state |-> "unused",
                                   result |-> [q \in Questions |-> "error"]]]
    /\ job = [p \in Procs |-> IdleJob]
    /\ autoReply \in BOOLEAN
    /\ saved = [q \in Questions |-> 0]
    /\ drafts = [q \in Questions |-> 0]
    /\ posted = [q \in Questions |-> 0]
    /\ answered = {}
    /\ crashes = 0

----------------------------------------------------------------------------
At(p, point) == job[p].at = point
Goto(p, point) == job' = [job EXCEPT ![p].at = point]
Rest(p) == job' = [job EXCEPT ![p] = IdleJob]

InStatus(s) == {q \in Questions : entry[q].status = s}
SetStatus(q, s) == entry' = [entry EXCEPT ![q].status = s]

\* findMany ... orderBy createdAt asc, take n
Oldest(S, n) == {q \in S : Cardinality({r \in S : entry[r].born < entry[q].born}) < n}

----------------------------------------------------------------------------
(* The webhook: enqueue reads the row, then creates it. *)

\* handleMercadoLibreMessage reaches enqueue, whose findUnique sees no row.
Notified(w, q) ==
    /\ At(w, "idle")
    /\ q \notin answered
    /\ entry[q].status = "NONE"
    /\ job' = [job EXCEPT ![w] = [IdleJob EXCEPT !.at = "create", !.cur = q]]
    /\ UNCHANGED <<entry, batch, autoReply, replies, crashes>>

Create(w) ==
    LET q == job[w].cur IN
    /\ At(w, "create")
    /\ entry[q].status = "NONE"
    /\ entry' = [entry EXCEPT ![q] =
           [status |-> "PENDING", batch |-> None, age |-> 0,
            born |-> Cardinality(Questions \ InStatus("NONE"))]]
    /\ Rest(w)
    /\ UNCHANGED <<batch, autoReply, replies, crashes>>

\* questionId is unique: create throws, and the handler answers synchronously.
CreateCollides(w) ==
    /\ At(w, "create")
    /\ entry[job[w].cur].status # "NONE"
    /\ Goto(w, "sync")
    /\ UNCHANGED <<entry, batch, autoReply, replies, crashes>>

\* Mutant: the reply is sent without being stored.
SyncReplyUnsaved(w) ==
    /\ At(w, "sync")
    /\ Goto(w, "syncMode")
    /\ UNCHANGED <<entry, batch, autoReply, replies, crashes>>

SyncReply(w) ==
    /\ At(w, "sync")
    /\ saved' = [saved EXCEPT ![job[w].cur] = @ + 1]
    /\ Goto(w, "syncMode")
    /\ UNCHANGED <<entry, batch, autoReply, drafts, posted, answered, crashes>>

\* handleMercadoLibreMessage throws, before or after it stored the reply, or
\* flagging the draft does: the catch logs it, and that is all.
SyncReplyFails(w) ==
    /\ At(w, "sync") \/ At(w, "syncMode")
    /\ Rest(w)
    /\ UNCHANGED <<entry, batch, autoReply, replies, crashes>>

\* Review mode; ML_AUTO_SEND_DISABLED asks for it whatever the row says.
SyncDraft(w) ==
    /\ At(w, "syncMode")
    /\ drafts' = [drafts EXCEPT ![job[w].cur] = @ + 1]
    /\ Rest(w)
    /\ UNCHANGED <<entry, batch, autoReply, saved, posted, answered, crashes>>

SyncSend(w) ==
    /\ At(w, "syncMode")
    /\ autoReply
    /\ Goto(w, "post")
    /\ UNCHANGED <<entry, batch, autoReply, replies, crashes>>

----------------------------------------------------------------------------
(* dispatchPending *)

EnoughToDispatch(d, S) ==
    \/ d \in Forced
    \/ Cardinality(S) >= MinBatch
    \/ \E q \in S : entry[q].age >= ForceAge

DispatchRead(d) ==
    LET pending == Oldest(InStatus("PENDING"), MaxBatch) IN
    /\ At(d, "idle")
    /\ pending # {}
    /\ EnoughToDispatch(d, pending)
    /\ job' = [job EXCEPT ![d].at = "submit", ![d].todo = pending]
    /\ UNCHANGED <<entry, batch, autoReply, replies, crashes>>

\* Where a dispatch activation goes when dispatchPending returns: the cron tick
\* goes on to fallbackStalePending, the button is done.
AfterDispatch(d) == IF d \in Cron THEN [IdleJob EXCEPT !.at = "stale"] ELSE IdleJob

DispatchWaits(d) ==
    LET pending == Oldest(InStatus("PENDING"), MaxBatch) IN
    /\ At(d, "idle")
    /\ d \in Cron
    /\ pending = {} \/ ~EnoughToDispatch(d, pending)
    /\ job' = [job EXCEPT ![d] = AfterDispatch(d)]
    /\ UNCHANGED <<entry, batch, autoReply, replies, crashes>>

Submit(d) ==
    /\ At(d, "submit")
    /\ \E b \in Batches :
          /\ batch[b].state = "unused"
          /\ batch' = [batch EXCEPT ![b].state = "in_progress", ![b].members = job[d].todo]
          /\ job' = [job EXCEPT ![d].at = "mark", ![d].batch = b]
    /\ UNCHANGED <<entry, autoReply, replies, crashes>>

SubmitFails(d) ==
    /\ At(d, "submit")
    /\ Goto(d, "markFailed")
    /\ UNCHANGED <<entry, batch, autoReply, replies, crashes>>

\* Mutant: updateMany where status = PENDING, rather than by the ids submitted.
MarkAllPending(d) ==
    /\ At(d, "mark")
    /\ entry' = [q \in Questions |->
           IF entry[q].status = "PENDING"
           THEN [entry[q] EXCEPT !.status = "DISPATCHED", !.batch = job[d].batch]
           ELSE entry[q]]
    /\ job' = [job EXCEPT ![d] = AfterDispatch(d)]
    /\ UNCHANGED <<batch, autoReply, replies, crashes>>

\* updateMany where id in (...): whatever the rows have become meanwhile.
MarkDispatched(d) ==
    /\ At(d, "mark")
    /\ entry' = [q \in Questions |->
           IF q \in job[d].todo
           THEN [entry[q] EXCEPT !.status = "DISPATCHED", !.batch = job[d].batch]
           ELSE entry[q]]
    /\ job' = [job EXCEPT ![d] = AfterDispatch(d)]
    /\ UNCHANGED <<batch, autoReply, replies, crashes>>

MarkFailed(d) ==
    /\ At(d, "markFailed")
    /\ entry' = [q \in Questions |->
           IF q \in job[d].todo THEN [entry[q] EXCEPT !.status = "FAILED"] ELSE entry[q]]
    /\ job' = [job EXCEPT ![d] = AfterDispatch(d)]
    /\ UNCHANGED <<batch, autoReply, replies, crashes>>

----------------------------------------------------------------------------
(* fallbackStalePending, in the dispatch tick *)

\* Mutant: the age is filtered, the status is not.
StaleReadAnyStatus(d) ==
    /\ At(d, "stale")
    /\ job' = [job EXCEPT ![d].at = "rescue",
                          ![d].todo = {q \in Questions : entry[q].age = StaleAge}]
    /\ UNCHANGED <<entry, batch, autoReply, replies, crashes>>

StaleRead(d) ==
    /\ At(d, "stale")
    /\ job' = [job EXCEPT ![d].at = "rescue",
                          ![d].todo = {q \in InStatus("PENDING") : entry[q].age = StaleAge}]
    /\ UNCHANGED <<entry, batch, autoReply, replies, crashes>>

Rescue(d) ==
    /\ At(d, "rescue")
    /\ \E q \in job[d].todo :
          job' = [job EXCEPT ![d].at = "compose", ![d].cur = q,
                             ![d].todo = @ \ {q}, ![d].as = "FALLBACK"]
    /\ UNCHANGED <<entry, batch, autoReply, replies, crashes>>

RescueEnds(d) ==
    /\ At(d, "rescue")
    /\ job[d].todo = {}
    /\ Rest(d)
    /\ UNCHANGED <<entry, batch, autoReply, replies, crashes>>

----------------------------------------------------------------------------
(* pollAndFinalize and finalizeBatch *)

PollRead(p) ==
    /\ At(p, "idle")
    /\ InStatus("DISPATCHED") # {}
    /\ job' = [job EXCEPT ![p].at = "poll",
                          ![p].queue = {entry[q].batch : q \in InStatus("DISPATCHED")} \ {None}]
    /\ UNCHANGED <<entry, batch, autoReply, replies, crashes>>

\* The batch is still in progress, or the API call throws.
PollSkips(p) ==
    /\ At(p, "poll")
    /\ \E b \in job[p].queue : job' = [job EXCEPT ![p].queue = @ \ {b}]
    /\ UNCHANGED <<entry, batch, autoReply, replies, crashes>>

\* fetchBatchResults, then findMany of the rows still DISPATCHED in the batch.
FinalizeRead(p) ==
    /\ At(p, "poll")
    /\ \E b \in job[p].queue :
          /\ batch[b].state = "ended"
          /\ job' = [job EXCEPT ![p].at = "finalize", ![p].queue = @ \ {b}, ![p].batch = b,
                                ![p].todo = {q \in InStatus("DISPATCHED") : entry[q].batch = b}]
    /\ UNCHANGED <<entry, batch, autoReply, replies, crashes>>

\* The result of an entry decides how it is delivered; a row the batch holds no
\* result for fails like an errored one.
Route(b, q) ==
    LET kind == IF q \in batch[b].members THEN batch[b].result[q] ELSE "error" IN
    CASE kind = "text"     -> [at |-> "mode", as |-> "ANSWERED"]
      [] kind = "tool_use" -> [at |-> "compose", as |-> "FALLBACK"]
      [] OTHER             -> [at |-> "fail", as |-> "FALLBACK"]

Finalize(p) ==
    /\ At(p, "finalize")
    /\ \E q \in job[p].todo :
          LET r == Route(job[p].batch, q) IN
          job' = [job EXCEPT ![p].at = r.at, ![p].as = r.as, ![p].cur = q, ![p].todo = @ \ {q}]
    /\ UNCHANGED <<entry, batch, autoReply, replies, crashes>>

FinalizeEnds(p) ==
    /\ At(p, "finalize")
    /\ job[p].todo = {}
    /\ Goto(p, "poll")
    /\ UNCHANGED <<entry, batch, autoReply, replies, crashes>>

PollEnds(p) ==
    /\ At(p, "poll")
    /\ job[p].queue = {}
    /\ Rest(p)
    /\ UNCHANGED <<entry, batch, autoReply, replies, crashes>>

----------------------------------------------------------------------------
(* continueConversation and deliverAnswer, shared by both loops *)

Loop(p) == IF p \in Dispatchers THEN "rescue" ELSE "finalize"

Compose(p) ==
    /\ At(p, "compose")
    /\ Goto(p, "mode")
    /\ UNCHANGED <<entry, batch, autoReply, replies, crashes>>

\* The answer is empty.
NoAnswer(p) ==
    /\ At(p, "mode")
    /\ Goto(p, "fail")
    /\ UNCHANGED <<entry, batch, autoReply, replies, crashes>>

\* Any statement of a delivery may throw: continueConversation, message.create,
\* conversation.update or the account's read after it, the update that closes
\* the row.  The catch fails the row, whatever the delivery has done by then.
DeliveryThrows(p) ==
    /\ job[p].at \in {"compose", "mode", "save", "post", "finish"}
    /\ Goto(p, "fail")
    /\ UNCHANGED <<entry, batch, autoReply, replies, crashes>>

\* Without the row (the read throws) or with ML_AUTO_SEND_DISABLED: review.
ReadMode(p) ==
    /\ At(p, "mode")
    /\ \E review \in {~autoReply, TRUE} :
          job' = [job EXCEPT ![p].at = "save", ![p].review = review]
    /\ UNCHANGED <<entry, batch, autoReply, replies, crashes>>

\* Mutant: the message of a review-mode reply misses its pendingReview flag.
SaveWithoutFlag(p) ==
    /\ At(p, "save")
    /\ saved' = [saved EXCEPT ![job[p].cur] = @ + 1]
    /\ Goto(p, IF job[p].review THEN "finish" ELSE "post")
    /\ UNCHANGED <<entry, batch, autoReply, drafts, posted, answered, crashes>>

Save(p) ==
    LET q == job[p].cur IN
    /\ At(p, "save")
    /\ saved' = [saved EXCEPT ![q] = @ + 1]
    /\ drafts' = [drafts EXCEPT ![q] = IF job[p].review THEN @ + 1 ELSE @]
    /\ Goto(p, IF job[p].review THEN "finish" ELSE "post")
    /\ UNCHANGED <<entry, batch, autoReply, posted, answered, crashes>>

\* A webhook has no row to update once its answer is out.
AfterPost(p, point) ==
    IF p \in Webhooks THEN IdleJob ELSE [job[p] EXCEPT !.at = point]

\* MercadoLibre takes one answer per question.
PostAccepted(p) ==
    LET q == job[p].cur IN
    /\ At(p, "post")
    /\ q \notin answered
    /\ posted' = [posted EXCEPT ![q] = @ + 1]
    /\ answered' = answered \cup {q}
    /\ job' = [job EXCEPT ![p] = AfterPost(p, "finish")]
    /\ UNCHANGED <<entry, batch, autoReply, saved, drafts, crashes>>

\* Mutant: a rejected answer closes the row like an accepted one.
PostFailsUnseen(p) ==
    /\ At(p, "post")
    /\ posted' = [posted EXCEPT ![job[p].cur] = @ + 1]
    /\ job' = [job EXCEPT ![p] = AfterPost(p, "finish")]
    /\ UNCHANGED <<entry, batch, autoReply, saved, drafts, answered, crashes>>

\* Rejected, or the request got lost before or after MercadoLibre took it.
PostFails(p) ==
    LET q == job[p].cur IN
    /\ At(p, "post")
    /\ posted' = [posted EXCEPT ![q] = @ + 1]
    /\ \/ answered' = answered
       \/ answered' = answered \cup {q}
    /\ job' = [job EXCEPT ![p] = AfterPost(p, "fail")]
    /\ UNCHANGED <<entry, batch, autoReply, saved, drafts, crashes>>

\* Mutant: the row is not closed after the answer went out.
FinishKeepsStatus(p) ==
    /\ At(p, "finish")
    /\ Goto(p, Loop(p))
    /\ UNCHANGED <<entry, batch, autoReply, replies, crashes>>

Finish(p) ==
    /\ At(p, "finish")
    /\ SetStatus(job[p].cur, job[p].as)
    /\ Goto(p, Loop(p))
    /\ UNCHANGED <<batch, autoReply, replies, crashes>>

\* Mutant: the catch logs and leaves the row as it is.
FailKeepsStatus(p) ==
    /\ At(p, "fail")
    /\ Goto(p, Loop(p))
    /\ UNCHANGED <<entry, batch, autoReply, replies, crashes>>

Fail(p) ==
    /\ At(p, "fail")
    /\ SetStatus(job[p].cur, "FAILED")
    /\ Goto(p, Loop(p))
    /\ UNCHANGED <<batch, autoReply, replies, crashes>>

----------------------------------------------------------------------------
(* The environment *)

\* Anthropic ends a batch, with a result per request.
BatchEnds(b) ==
    /\ batch[b].state = "in_progress"
    /\ \E res \in [batch[b].members -> Kinds] :
          batch' = [batch EXCEPT ![b].state = "ended",
                        ![b].result = [q \in Questions |->
                            IF q \in batch[b].members THEN res[q] ELSE @[q]]]
    /\ UNCHANGED <<entry, job, autoReply, replies, crashes>>

\* Time passes for a pending row; an older row is never younger than it.
Age(q) ==
    /\ entry[q].status = "PENDING"
    /\ entry[q].age < StaleAge
    /\ \A r \in InStatus("PENDING") :
          entry[r].born < entry[q].born => entry[r].age > entry[q].age
    /\ entry' = [entry EXCEPT ![q].age = @ + 1]
    /\ UNCHANGED <<batch, job, autoReply, replies, crashes>>

\* setAiAutoReplyEnabled, from the panel
Toggle ==
    /\ autoReply' = ~autoReply
    /\ UNCHANGED <<entry, batch, job, replies, crashes>>

\* The Node process dies and restarts: the rows survive, the activities do not.
Crash ==
    /\ crashes < MaxCrashes
    /\ crashes' = crashes + 1
    /\ job' = [p \in Procs |-> IdleJob]
    /\ UNCHANGED <<entry, batch, autoReply, replies>>

\* An update or a read that no catch of the loops surrounds throws.  The tick, or
\* the poll of this batch, ends there, and the rows stay as they are.
Uncaught(p) ==
    /\ job[p].at \in {"mark", "markFailed", "stale", "fail"}
    /\ crashes < MaxCrashes
    /\ crashes' = crashes + 1
    /\ job' = [job EXCEPT ![p] = IF p \in Pollers THEN [@ EXCEPT !.at = "poll", !.todo = {}]
                                                 ELSE IdleJob]
    /\ UNCHANGED <<entry, batch, autoReply, replies>>

----------------------------------------------------------------------------
Webhook(w) ==
    \/ \E q \in Questions : Notified(w, q)
    \/ Create(w) \/ CreateCollides(w)
    \/ SyncReply(w) \/ SyncReplyFails(w) \/ SyncDraft(w) \/ SyncSend(w)
    \/ PostAccepted(w) \/ PostFails(w)

Deliver(p) ==
    \/ Compose(p) \/ NoAnswer(p) \/ DeliveryThrows(p) \/ ReadMode(p) \/ Save(p)
    \/ PostAccepted(p) \/ PostFails(p) \/ Finish(p) \/ Fail(p)

Dispatcher(d) ==
    \/ DispatchRead(d) \/ DispatchWaits(d) \/ Submit(d) \/ SubmitFails(d)
    \/ MarkDispatched(d) \/ MarkFailed(d)
    \/ StaleRead(d) \/ Rescue(d) \/ RescueEnds(d)
    \/ Deliver(d)

Poller(p) ==
    \/ PollRead(p) \/ PollSkips(p) \/ FinalizeRead(p) \/ Finalize(p)
    \/ FinalizeEnds(p) \/ PollEnds(p)
    \/ Deliver(p)

Next ==
    \/ \E w \in Webhooks : Webhook(w)
    \/ \E d \in Dispatchers : Dispatcher(d)
    \/ \E p \in Pollers : Poller(p)
    \/ \E p \in Workers : Uncaught(p)
    \/ \E b \in Batches : BatchEnds(b)
    \/ \E q \in Questions : Age(q)
    \/ Toggle
    \/ Crash

Spec == Init /\ [][Next]_vars

(* The crons keep ticking, a started activity runs on, Anthropic ends its  *)
(* batches and does not fail every poll for ever.  Nobody has to press a   *)
(* button, to toggle the mode, or to crash.                                *)
Fairness ==
    /\ \A w \in Webhooks : WF_vars(~At(w, "idle") /\ Webhook(w))
    /\ \A d \in Cron : WF_vars(Dispatcher(d))
    /\ \A d \in Forced : WF_vars(~At(d, "idle") /\ Dispatcher(d))
    /\ \A p \in Pollers : WF_vars(Poller(p)) /\ SF_vars(FinalizeRead(p))
    /\ \A b \in Batches : WF_vars(BatchEnds(b))
    /\ \A q \in Questions : WF_vars(Age(q))

FairSpec == Spec /\ Fairness

----------------------------------------------------------------------------
(* Properties that hold however the activities overlap and crash. *)

\* Every variable has its type.
TypeOK ==
    /\ entry \in [Questions -> Entry]
    /\ batch \in [Batches -> Batch]
    /\ job \in [Procs -> Job]
    /\ autoReply \in BOOLEAN
    /\ saved \in [Questions -> Nat]
    /\ drafts \in [Questions -> Nat]
    /\ posted \in [Questions -> Nat]
    /\ answered \in SUBSET Questions
    /\ crashes \in 0 .. MaxCrashes

\* A row waiting for a result points at a batch that really was submitted with
\* it, so a poll can always finish it: overlapping dispatches may submit a
\* question twice, but neither leaves a DISPATCHED row that no batch answers
\* (dispatchPending, finalizeBatch's "no batch result for entry").
DispatchedInBatch ==
    \A q \in InStatus("DISPATCHED") :
        /\ entry[q].batch \in Batches
        /\ batch[entry[q].batch].state # "unused"
        /\ q \in batch[entry[q].batch].members

\* A row closed as ANSWERED or FALLBACK has an outcome the operator can find: a
\* draft waiting in the review panel, or an answer MercadoLibre took
\* (deliverAnswer: the row is closed last, after the message and the send).
ClosedIsBacked ==
    \A q \in InStatus("ANSWERED") \cup InStatus("FALLBACK") :
        drafts[q] > 0 \/ q \in answered

\* Nothing reaches MercadoLibre that the conversation log does not show: the
\* message is stored before the send (deliverAnswer, handleMercadoLibreMessage).
PostedIsLogged == \A q \in Questions : drafts[q] + posted[q] <= saved[q]

----------------------------------------------------------------------------
(* Properties of activations that do not overlap: one tick of each kind at *)
(* a time, no restart, and no error outside the catches of the loops.      *)

\* A question gets one reply: one AI message, at most one send.
OneReply == \A q \in Questions : saved[q] <= 1 /\ posted[q] <= 1

\* The life of a row only goes forward, PENDING to DISPATCHED to a final status,
\* and a final status is never left (header comment, "Lifecycle of an entry").
Rank(s) == CASE s = "NONE" -> 0 [] s = "PENDING" -> 1 [] s = "DISPATCHED" -> 2 [] OTHER -> 3
ForwardOnly ==
    [][\A q \in Questions :
          entry'[q].status # entry[q].status => Rank(entry'[q].status) > Rank(entry[q].status)]_vars

\* So a question lives through the queue as if its reply were one worker's job:
\* queued, batched or rescued, stored, drafted or sent once, and closed: as
\* replied to only if it was, as FAILED whenever a statement threw (header
\* comment, "Lifecycle of an entry", deliverAnswer and the catches around it).
Life == INSTANCE QuestionLife WITH
    status <- [q \in Questions |-> entry[q].status],
    stored <- saved, drafted <- drafts, sent <- posted, taken <- answered
LivesOnce == Life!LifeSpec

\* Every queued question is eventually closed, whatever crashes and API errors
\* come in between.
EventuallyClosed ==
    \A q \in Questions : entry[q].status = "PENDING" ~> entry[q].status \in Final

----------------------------------------------------------------------------
(* What comments say and the code does not do. *)

\* "ANSWERED - Claude replied, we posted the answer to ML" (header, line 14)
AnsweredIsPosted == InStatus("ANSWERED") \subseteq answered

\* "a buyer never sits unanswered indefinitely" (fallbackStalePending, line 452):
\* a queued question ends up answered, or drafted for the operator.
BuyerHeard ==
    \A q \in Questions :
        entry[q].status = "PENDING" ~> (q \in answered \/ drafts[q] > 0)
=============================================================================
