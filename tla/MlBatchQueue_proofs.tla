------------------------ MODULE MlBatchQueue_proofs ------------------------
(***************************************************************************)
(* What holds of the batch queue for any number of questions, batches and  *)
(* activations, however they overlap and whenever the process restarts.    *)
(***************************************************************************)
EXTENDS MlBatchQueue, TLAPS, FiniteSetTheorems

\* An activity that works on one question knows which one.
CurOK ==
    \A p \in Procs :
        job[p].at \in {"create", "sync", "syncMode", "compose", "mode", "save",
                       "post", "finish", "fail"} => job[p].cur \in Questions

\* A dispatch about to mark its rows holds a batch submitted with all of them.
MarkOK ==
    \A p \in Procs :
        At(p, "mark") =>
            /\ job[p].batch \in Batches
            /\ batch[job[p].batch].state # "unused"
            /\ job[p].todo \subseteq batch[job[p].batch].members

\* A delivery about to close its row has produced the outcome it will record.
FinishOK ==
    \A p \in Procs :
        At(p, "finish") => drafts[job[p].cur] > 0 \/ job[p].cur \in answered

IInv == TypeOK /\ CurOK /\ MarkOK /\ FinishOK /\ DispatchedInBatch /\ ClosedIsBacked

----------------------------------------------------------------------------
\* An idle activity is well typed; so is one a dispatch leaves behind.
LEMMA IdleTyped == IdleJob \in Job /\ \A d \in Procs : AfterDispatch(d) \in Job
BY DEF IdleJob, Job, Points, AfterDispatch

\* Updating fields of an activity or of a batch within their types.
LEMMA SetAt ==
    ASSUME NEW j \in Job, NEW at \in Points
    PROVE  LET k == [j EXCEPT !.at = at] IN
           /\ k \in Job
           /\ k.at = at
           /\ k.cur = j.cur
BY DEF Job

LEMMA SetSubmit ==
    ASSUME NEW j \in Job, NEW todo \in SUBSET Questions
    PROVE  LET k == [j EXCEPT !.at = "submit", !.todo = todo] IN
           /\ k \in Job
           /\ k.at = "submit"
BY DEF Job, Points

LEMMA SetRescue ==
    ASSUME NEW j \in Job, NEW todo \in SUBSET Questions
    PROVE  LET k == [j EXCEPT !.at = "rescue", !.todo = todo] IN
           /\ k \in Job
           /\ k.at = "rescue"
BY DEF Job, Points

LEMMA SetMark ==
    ASSUME NEW j \in Job, NEW b \in Batches
    PROVE  LET k == [j EXCEPT !.at = "mark", !.batch = b] IN
           /\ k \in Job
           /\ k.batch = b
           /\ k.todo = j.todo
           /\ k.at = "mark"
BY DEF Job, Points

LEMMA SetQueue ==
    ASSUME NEW j \in Job, NEW queue \in SUBSET Batches
    PROVE  LET k == [j EXCEPT !.queue = queue] IN
           /\ k \in Job
           /\ k.at = j.at
BY DEF Job, Points

LEMMA SetPoll ==
    ASSUME NEW j \in Job, NEW queue \in SUBSET Batches
    PROVE  LET k == [j EXCEPT !.at = "poll", !.queue = queue] IN
           /\ k \in Job
           /\ k.at = "poll"
BY DEF Job, Points

LEMMA SetSave ==
    ASSUME NEW j \in Job, NEW review \in BOOLEAN
    PROVE  LET k == [j EXCEPT !.at = "save", !.review = review] IN
           /\ k \in Job
           /\ k.cur = j.cur
           /\ k.at = "save"
BY DEF Job, Points

LEMMA SetSubmitted ==
    ASSUME NEW n \in Batch, NEW members \in SUBSET Questions
    PROVE  LET k == [n EXCEPT !.state = "in_progress", !.members = members] IN
           /\ k \in Batch
           /\ k.state = "in_progress"
           /\ k.members = members
BY DEF Batch

LEMMA SetEnded ==
    ASSUME NEW n \in Batch, NEW result \in [Questions -> Kinds]
    PROVE  LET k == [n EXCEPT !.state = "ended", !.result = result] IN
           /\ k \in Batch
           /\ k.state = "ended"
           /\ k.members = n.members
BY DEF Batch

\* The initial state is well typed, and nothing has happened in it.
LEMMA InitInv == Init => IInv
<1> SUFFICES ASSUME Init PROVE IInv
    OBVIOUS
<1>1. TypeOK
    BY IdleTyped, CrashBound DEF Init, TypeOK, Entry, Statuses, Final, StaleAge, Batch, Kinds
<1>2. CurOK /\ MarkOK /\ FinishOK
    BY DEF Init, CurOK, MarkOK, FinishOK, At, IdleJob
<1>3. DispatchedInBatch /\ ClosedIsBacked
    BY DEF Init, DispatchedInBatch, ClosedIsBacked, InStatus
<1> QED BY <1>1, <1>2, <1>3 DEF IInv

\* The step of one activity p: the others stay where they are.
Moves(p) == job' \in [Procs -> Job] /\ \A r \in Procs \ {p} : job'[r] = job[r]

\* Moving to a control point changes nothing else of the activity.
LEMMA GotoMoves ==
    ASSUME job \in [Procs -> Job], NEW p \in Procs, NEW point \in Points, Goto(p, point)
    PROVE  Moves(p) /\ job'[p].at = point /\ job'[p].cur = job[p].cur
<1> DEFINE j == [job[p] EXCEPT !.at = point]
<1>1. j \in Job /\ j.at = point /\ j.cur = job[p].cur
    BY SetAt
<1>2. job' = [job EXCEPT ![p] = j]
    BY DEF Goto
<1> HIDE DEF j
<1> QED BY <1>1, <1>2 DEF Moves

\* Replies are only ever added.
RepliesGrow ==
    /\ saved' \in [Questions -> Nat] /\ drafts' \in [Questions -> Nat]
    /\ posted' \in [Questions -> Nat] /\ answered' \in SUBSET Questions
    /\ \A q \in Questions : drafts'[q] >= drafts[q]
    /\ answered \subseteq answered'

\* An activity that moves itself, adds replies and touches no row and no batch
\* keeps the invariant, if it does not enter "mark" and enters "finish" only
\* with the outcome it will record.
LEMMA DeliveryStep ==
    ASSUME IInv, NEW p \in Procs, Moves(p), RepliesGrow,
           job'[p].at # "mark",
           job'[p].at \in {"create", "sync", "syncMode", "compose", "mode", "save",
                           "post", "finish", "fail"} => job'[p].cur \in Questions,
           job'[p].at = "finish" => drafts'[job'[p].cur] > 0 \/ job'[p].cur \in answered',
           UNCHANGED <<entry, batch, autoReply, crashes>>
    PROVE  IInv'
<1>1. TypeOK'
    BY DEF IInv, TypeOK, RepliesGrow, Moves
<1>2. CurOK' /\ MarkOK'
    BY DEF IInv, TypeOK, CurOK, MarkOK, At, Moves
<1>3. FinishOK'
    <2> SUFFICES ASSUME NEW r \in Procs, At(r, "finish")'
                 PROVE  drafts'[job'[r].cur] > 0 \/ job'[r].cur \in answered'
        BY DEF FinishOK
    <2>1. CASE r = p
        BY <2>1 DEF At
    <2>2. CASE r # p
        <3>1. job'[r] = job[r] /\ job[r].cur \in Questions
            BY <2>2 DEF Moves, IInv, CurOK, At
        <3>2. drafts[job[r].cur] > 0 \/ job[r].cur \in answered
            BY <3>1 DEF IInv, FinishOK, At
        <3> QED BY <3>1, <3>2 DEF RepliesGrow, IInv, TypeOK
    <2> QED BY <2>1, <2>2
<1>4. DispatchedInBatch'
    BY DEF IInv, DispatchedInBatch, InStatus
<1>5. ClosedIsBacked'
    <2> SUFFICES ASSUME NEW q \in InStatus("ANSWERED") \cup InStatus("FALLBACK")
                 PROVE  drafts'[q] > 0 \/ q \in answered'
        BY DEF ClosedIsBacked, InStatus
    <2>1. q \in Questions /\ (drafts[q] > 0 \/ q \in answered)
        BY DEF IInv, ClosedIsBacked, InStatus
    <2> QED BY <2>1 DEF RepliesGrow, IInv, TypeOK
<1> QED BY <1>1, <1>2, <1>3, <1>4, <1>5 DEF IInv

\* An activity that only moves itself, and enters neither "mark" nor "finish",
\* leaves the invariant alone.
LEMMA LocalStep ==
    ASSUME IInv, NEW p \in Procs, Moves(p),
           job'[p].at \notin {"mark", "finish"},
           job'[p].at \in {"create", "sync", "syncMode", "compose", "mode", "save", "post", "fail"}
               => job'[p].cur \in Questions,
           UNCHANGED <<entry, batch, autoReply, replies, crashes>>
    PROVE  IInv'
<1>1. RepliesGrow
    BY DEF IInv, TypeOK, RepliesGrow, replies
<1> QED BY <1>1, DeliveryStep DEF replies

\* The steps of a webhook that touch nothing but its own state.
LEMMA WebhookLocal ==
    ASSUME IInv, NEW w \in Webhooks,
           \/ \E q \in Questions : Notified(w, q)
           \/ CreateCollides(w) \/ SyncReplyFails(w) \/ SyncSend(w)
    PROVE  IInv'
<1> w \in Procs
    BY DEF Procs
<1> USE DEF IInv, TypeOK, Moves
<1>1. ASSUME NEW q \in Questions, Notified(w, q) PROVE IInv'
    <2>1. job' = [job EXCEPT ![w] = [IdleJob EXCEPT !.at = "create", !.cur = q]]
        BY <1>1 DEF Notified
    <2>2. [IdleJob EXCEPT !.at = "create", !.cur = q] \in Job
        BY DEF IdleJob, Job, Points
    <2>3. Moves(w) /\ job'[w].at = "create" /\ job'[w].cur = q
        BY <2>1, <2>2 DEF IdleJob
    <2> QED BY <1>1, <2>3, LocalStep DEF Notified
<1>2. CASE CreateCollides(w)
    <2>1. Moves(w) /\ job'[w].at = "sync" /\ job'[w].cur = job[w].cur
        BY <1>2, GotoMoves DEF CreateCollides, Points
    <2>2. job[w].cur \in Questions
        BY <1>2 DEF CreateCollides, CurOK, At
    <2> QED BY <1>2, <2>1, <2>2, LocalStep DEF CreateCollides
<1>3. CASE SyncReplyFails(w)
    <2>1. Moves(w) /\ job'[w].at = "idle"
        BY <1>3, IdleTyped DEF SyncReplyFails, Rest, IdleJob
    <2> QED BY <1>3, <2>1, LocalStep DEF SyncReplyFails
<1>4. CASE SyncSend(w)
    <2>1. Moves(w) /\ job'[w].at = "post" /\ job'[w].cur = job[w].cur
        BY <1>4, GotoMoves DEF SyncSend, Points
    <2>2. job[w].cur \in Questions
        BY <1>4 DEF SyncSend, CurOK, At
    <2> QED BY <1>4, <2>1, <2>2, LocalStep DEF SyncSend
<1> QED BY <1>1, <1>2, <1>3, <1>4

\* The steps of a webhook that store or flag its synchronous reply, and the
\* creation of the row.
LEMMA WebhookWrites ==
    ASSUME IInv, NEW w \in Webhooks, Create(w) \/ SyncReply(w) \/ SyncDraft(w)
    PROVE  IInv'
<1> w \in Procs
    BY DEF Procs
<1> DEFINE c == job[w].cur
<1> USE DEF IInv, TypeOK
<1>0. c \in Questions
    BY DEF Create, SyncReply, SyncDraft, CurOK, At
<1>1. CASE Create(w)
    <2>1. job' = [job EXCEPT ![w] = IdleJob]
        BY <1>1 DEF Create, Rest
    <2>2. Cardinality(Questions \ InStatus("NONE")) \in Nat
        BY FiniteQuestions, FS_Subset, FS_CardinalityType DEF InStatus
    <2>3. entry' \in [Questions -> Entry]
        BY <1>0, <1>1, <2>2 DEF Create, Entry, Statuses, StaleAge
    <2>4. \A q \in Questions : q # c => entry'[q] = entry[q]
        BY <1>1 DEF Create
    <2>5. entry'[c].status = "PENDING"
        BY <1>0, <1>1 DEF Create
    <2>6. TypeOK'
        BY <1>1, <2>1, <2>3, IdleTyped DEF Create, replies
    <2>7. CurOK' /\ MarkOK' /\ FinishOK'
        BY <1>1, <2>1 DEF Create, CurOK, MarkOK, FinishOK, At, IdleJob, replies
    <2>8. DispatchedInBatch' /\ ClosedIsBacked'
        BY <1>1, <2>4, <2>5 DEF Create, DispatchedInBatch, ClosedIsBacked, InStatus, replies
    <2> QED BY <2>6, <2>7, <2>8
<1>2. CASE SyncReply(w)
    <2>1. Moves(w) /\ job'[w].at = "syncMode" /\ job'[w].cur = c
        BY <1>2, GotoMoves DEF SyncReply, Points
    <2>2. RepliesGrow
        BY <1>0, <1>2 DEF SyncReply, RepliesGrow
    <2> QED BY <1>0, <1>2, <2>1, <2>2, DeliveryStep DEF SyncReply
<1>3. CASE SyncDraft(w)
    <2>1. Moves(w) /\ job'[w].at = "idle"
        BY <1>3, IdleTyped DEF SyncDraft, Rest, Moves, IdleJob
    <2>2. RepliesGrow
        BY <1>0, <1>3 DEF SyncDraft, RepliesGrow
    <2> QED BY <1>3, <2>1, <2>2, DeliveryStep DEF SyncDraft
<1> QED BY <1>1, <1>2, <1>3

\* The send, shared by the webhook and the workers.
LEMMA PostStep ==
    ASSUME IInv, NEW p \in Procs, PostAccepted(p) \/ PostFails(p)
    PROVE  IInv'
<1> DEFINE c == job[p].cur
<1> USE DEF IInv, TypeOK
<1>0. c \in Questions
    BY DEF PostAccepted, PostFails, CurOK, At
<1>1. RepliesGrow
    BY <1>0 DEF PostAccepted, PostFails, RepliesGrow
<1>2. CASE PostAccepted(p)
    <2>1. AfterPost(p, "finish") \in Job
        BY IdleTyped, SetAt DEF AfterPost, Points
    <2>2. AfterPost(p, "finish").at \in {"idle", "finish"}
        BY DEF AfterPost, IdleJob, Job
    <2>3. AfterPost(p, "finish").at = "finish" => AfterPost(p, "finish").cur = c
        BY DEF AfterPost, IdleJob, Job
    <2>4. Moves(p) /\ job'[p] = AfterPost(p, "finish")
        BY <1>2, <2>1 DEF PostAccepted, Moves
    <2>5. c \in answered'
        BY <1>2 DEF PostAccepted
    <2> QED BY <1>0, <1>1, <1>2, <2>2, <2>3, <2>4, <2>5, DeliveryStep DEF PostAccepted
<1>3. CASE PostFails(p)
    <2>1. AfterPost(p, "fail") \in Job
        BY IdleTyped, SetAt DEF AfterPost, Points
    <2>2. AfterPost(p, "fail").at \in {"idle", "fail"}
        BY DEF AfterPost, IdleJob, Job
    <2>3. AfterPost(p, "fail").at = "fail" => AfterPost(p, "fail").cur = c
        BY DEF AfterPost, IdleJob, Job
    <2>4. Moves(p) /\ job'[p] = AfterPost(p, "fail")
        BY <1>3, <2>1 DEF PostFails, Moves
    <2> QED BY <1>0, <1>1, <1>3, <2>2, <2>3, <2>4, DeliveryStep DEF PostFails
<1> QED BY <1>2, <1>3

\* The steps of a dispatch activation that only read, and those of its loop.
LEMMA DispatchLocal ==
    ASSUME IInv, NEW d \in Dispatchers,
           \/ DispatchRead(d) \/ DispatchWaits(d) \/ SubmitFails(d)
           \/ StaleRead(d) \/ Rescue(d) \/ RescueEnds(d)
    PROVE  IInv'
<1> d \in Procs
    BY DEF Procs, Workers
<1> USE DEF IInv, TypeOK, Moves
<1>j. job[d] \in Job
    OBVIOUS
<1>1. CASE DispatchRead(d)
    <2>1. Oldest(InStatus("PENDING"), MaxBatch) \subseteq Questions
        BY DEF Oldest, InStatus
    <2> DEFINE S == Oldest(InStatus("PENDING"), MaxBatch)
    <2>2. job' = [job EXCEPT ![d].at = "submit", ![d].todo = S]
        BY <1>1 DEF DispatchRead
    <2> HIDE DEF S
    <2>3. S \subseteq Questions
        BY <2>1 DEF S
    <2>4. Moves(d) /\ job'[d].at = "submit"
        <3> DEFINE j == [job[d] EXCEPT !.at = "submit", !.todo = S]
        <3>1. j \in Job /\ j.at = "submit"
            BY <2>3, <1>j, SetSubmit
        <3>2. job' = [job EXCEPT ![d] = j]
            BY <2>2
        <3> HIDE DEF j
        <3> QED BY <3>1, <3>2
    <2> QED BY <1>1, <2>4, LocalStep DEF DispatchRead
<1>2. CASE DispatchWaits(d)
    <2>1. Moves(d) /\ job'[d].at \in {"idle", "stale"}
        BY <1>2, IdleTyped DEF DispatchWaits, AfterDispatch, IdleJob
    <2> QED BY <1>2, <2>1, LocalStep DEF DispatchWaits
<1>3. CASE SubmitFails(d)
    <2>1. Moves(d) /\ job'[d].at = "markFailed"
        BY <1>3, GotoMoves DEF SubmitFails, Points
    <2> QED BY <1>3, <2>1, LocalStep DEF SubmitFails
<1>4. CASE StaleRead(d)
    <2> DEFINE S == {q \in InStatus("PENDING") : entry[q].age = StaleAge}
    <2>1. job' = [job EXCEPT ![d].at = "rescue", ![d].todo = S]
        BY <1>4 DEF StaleRead
    <2>2. S \subseteq Questions
        BY DEF InStatus
    <2> HIDE DEF S
    <2>3. Moves(d) /\ job'[d].at = "rescue"
        <3> DEFINE j == [job[d] EXCEPT !.at = "rescue", !.todo = S]
        <3>1. j \in Job /\ j.at = "rescue"
            BY <2>2, <1>j, SetRescue
        <3>2. job' = [job EXCEPT ![d] = j]
            BY <2>1
        <3> HIDE DEF j
        <3> QED BY <3>1, <3>2
    <2> QED BY <1>4, <2>3, LocalStep DEF StaleRead
<1>5. CASE Rescue(d)
    <2>1. PICK q \in job[d].todo :
              job' = [job EXCEPT ![d].at = "compose", ![d].cur = q,
                                 ![d].todo = @ \ {q}, ![d].as = "FALLBACK"]
        BY <1>5 DEF Rescue
    <2>2. q \in Questions
        BY DEF Job
    <2>3. Moves(d) /\ job'[d].at = "compose" /\ job'[d].cur = q
        BY <2>1, <2>2 DEF Job, Points
    <2> QED BY <1>5, <2>2, <2>3, LocalStep DEF Rescue
<1>6. CASE RescueEnds(d)
    <2>1. Moves(d) /\ job'[d].at = "idle"
        BY <1>6, IdleTyped DEF RescueEnds, Rest, IdleJob
    <2> QED BY <1>6, <2>1, LocalStep DEF RescueEnds
<1> QED BY <1>1, <1>2, <1>3, <1>4, <1>5, <1>6

\* A submission takes an unused batch, so no DISPATCHED row and no other dispatch
\* refers to it.
LEMMA SubmitStep ==
    ASSUME IInv, NEW d \in Dispatchers, Submit(d)
    PROVE  IInv'
<1> d \in Procs
    BY DEF Procs, Workers
<1> USE DEF IInv, TypeOK
<1>j. job[d] \in Job
    OBVIOUS
<1>1. PICK b \in Batches :
          /\ batch[b].state = "unused"
          /\ batch' = [batch EXCEPT ![b].state = "in_progress", ![b].members = job[d].todo]
          /\ job' = [job EXCEPT ![d].at = "mark", ![d].batch = b]
    BY DEF Submit
<1>2. job[d].todo \subseteq Questions
    BY DEF Job
<1> DEFINE n == [batch[b] EXCEPT !.state = "in_progress", !.members = job[d].todo]
<1>d. n \in Batch /\ n.state = "in_progress" /\ n.members = job[d].todo
    BY <1>2, SetSubmitted
<1>e. batch' = [batch EXCEPT ![b] = n]
    BY <1>1
<1> HIDE DEF n
<1>3. batch' \in [Batches -> Batch]
    BY <1>d, <1>e
<1> DEFINE j == [job[d] EXCEPT !.at = "mark", !.batch = b]
<1>a. j \in Job /\ j.at = "mark" /\ j.batch = b /\ j.todo = job[d].todo
    BY <1>j, SetMark
<1>c. job' = [job EXCEPT ![d] = j]
    BY <1>1
<1> HIDE DEF j
<1>4. /\ job' \in [Procs -> Job]
      /\ \A r \in Procs \ {d} : job'[r] = job[r]
      /\ job'[d].at = "mark" /\ job'[d].batch = b /\ job'[d].todo = job[d].todo
    BY <1>a, <1>c
<1>5. batch'[b].state = "in_progress" /\ batch'[b].members = job[d].todo
    BY <1>d, <1>e
<1>6. \A c \in Batches \ {b} : batch'[c] = batch[c]
    BY <1>1
<1>7. TypeOK'
    BY <1>3, <1>4 DEF Submit, replies
<1>8. CurOK' /\ FinishOK'
    BY <1>4 DEF Submit, CurOK, FinishOK, At, replies
<1>9. MarkOK'
    BY <1>1, <1>4, <1>5, <1>6 DEF MarkOK, At
<1>10. DispatchedInBatch'
    BY <1>1, <1>5, <1>6 DEF Submit, DispatchedInBatch, InStatus
<1>11. ClosedIsBacked'
    BY DEF Submit, ClosedIsBacked, InStatus, replies
<1> QED BY <1>7, <1>8, <1>9, <1>10, <1>11

\* The two updateMany at the end of dispatchPending.
LEMMA MarkStep ==
    ASSUME IInv, NEW d \in Dispatchers, MarkDispatched(d) \/ MarkFailed(d)
    PROVE  IInv'
<1> d \in Procs
    BY DEF Procs, Workers
<1> USE DEF IInv, TypeOK
<1>a. job' = [job EXCEPT ![d] = AfterDispatch(d)]
    BY DEF MarkDispatched, MarkFailed
<1>b. AfterDispatch(d).at \in {"idle", "stale"}
    BY DEF AfterDispatch, IdleJob
<1>1. /\ job' \in [Procs -> Job]
      /\ \A r \in Procs \ {d} : job'[r] = job[r]
      /\ job'[d].at \in {"idle", "stale"}
    BY <1>a, <1>b, IdleTyped
<1>2. CurOK' /\ MarkOK' /\ FinishOK'
    BY <1>1 DEF MarkDispatched, MarkFailed, CurOK, MarkOK, FinishOK, At, replies
<1>3. CASE MarkDispatched(d)
    <2>1. /\ job[d].batch \in Batches
          /\ batch[job[d].batch].state # "unused"
          /\ job[d].todo \subseteq batch[job[d].batch].members
        BY <1>3 DEF MarkDispatched, MarkOK
    <2>2. entry' \in [Questions -> Entry]
        <3> DEFINE e(q) == [entry[q] EXCEPT !.status = "DISPATCHED", !.batch = job[d].batch]
        <3>1. \A q \in Questions : e(q) \in Entry
            BY <2>1 DEF Entry, Statuses
        <3>2. entry' = [q \in Questions |-> IF q \in job[d].todo THEN e(q) ELSE entry[q]]
            BY <1>3 DEF MarkDispatched
        <3> HIDE DEF e
        <3> QED BY <3>1, <3>2
    <2>3. \A q \in Questions :
              \/ entry'[q] = entry[q]
              \/ /\ q \in job[d].todo
                 /\ entry'[q].status = "DISPATCHED" /\ entry'[q].batch = job[d].batch
        BY <1>3 DEF MarkDispatched, Entry
    <2>4. TypeOK'
        BY <1>1, <1>3, <2>2 DEF MarkDispatched, replies
    <2>u. batch' = batch
        BY <1>3 DEF MarkDispatched
    <2>5. DispatchedInBatch'
        BY <2>u, <2>1, <2>3 DEF DispatchedInBatch, InStatus
    <2>6. ClosedIsBacked'
        BY <1>3, <2>3 DEF MarkDispatched, ClosedIsBacked, InStatus, replies
    <2> QED BY <1>2, <2>4, <2>5, <2>6
<1>4. CASE MarkFailed(d)
    <2>1. entry' \in [Questions -> Entry]
        <3> DEFINE e(q) == [entry[q] EXCEPT !.status = "FAILED"]
        <3>1. \A q \in Questions : e(q) \in Entry
            BY DEF Entry, Statuses, Final
        <3>2. entry' = [q \in Questions |-> IF q \in job[d].todo THEN e(q) ELSE entry[q]]
            BY <1>4 DEF MarkFailed
        <3> HIDE DEF e
        <3> QED BY <3>1, <3>2
    <2>2. \A q \in Questions : entry'[q] = entry[q] \/ entry'[q].status = "FAILED"
        BY <1>4 DEF MarkFailed, Entry
    <2>3. TypeOK'
        BY <1>1, <1>4, <2>1 DEF MarkFailed, replies
    <2>4. DispatchedInBatch' /\ ClosedIsBacked'
        BY <1>4, <2>2 DEF MarkFailed, DispatchedInBatch, ClosedIsBacked, InStatus, replies
    <2> QED BY <1>2, <2>3, <2>4
<1> QED BY <1>3, <1>4

\* A poll reads rows and batches, and routes each entry to its delivery.
LEMMA PollStep ==
    ASSUME IInv, NEW p \in Pollers,
           \/ PollRead(p) \/ PollSkips(p) \/ FinalizeRead(p) \/ Finalize(p)
           \/ FinalizeEnds(p) \/ PollEnds(p)
    PROVE  IInv'
<1> p \in Procs
    BY DEF Procs, Workers
<1> USE DEF IInv, TypeOK, Moves
<1>j. job[p] \in Job
    OBVIOUS
<1>1. CASE PollRead(p)
    <2> DEFINE S == {entry[q].batch : q \in InStatus("DISPATCHED")} \ {None}
               j == [job[p] EXCEPT !.at = "poll", !.queue = S]
    <2>1. S \subseteq Batches
        BY DEF InStatus, Entry
    <2> HIDE DEF S
    <2>2. j \in Job /\ j.at = "poll"
        BY <2>1, <1>j, SetPoll
    <2>3. job' = [job EXCEPT ![p] = j]
        BY <1>1 DEF PollRead, S
    <2> HIDE DEF j
    <2>4. Moves(p) /\ job'[p].at = "poll"
        BY <2>2, <2>3
    <2> QED BY <1>1, <2>4, LocalStep DEF PollRead
<1>2. CASE PollSkips(p)
    <2>1. PICK b \in job[p].queue : job' = [job EXCEPT ![p].queue = @ \ {b}]
        BY <1>2 DEF PollSkips
    <2> DEFINE j == [job[p] EXCEPT !.queue = @ \ {b}]
    <2>2. j \in Job /\ j.at = "poll"
        <3>1. job[p].queue \ {b} \in SUBSET Batches
            BY DEF Job
        <3> QED BY <1>2, <1>j, <3>1, SetQueue DEF PollSkips, At
    <2>3. job' = [job EXCEPT ![p] = j]
        BY <2>1
    <2> HIDE DEF j
    <2>4. Moves(p) /\ job'[p].at = "poll"
        BY <2>2, <2>3
    <2> QED BY <1>2, <2>4, LocalStep DEF PollSkips
<1>3. CASE FinalizeRead(p)
    <2>1. PICK b \in job[p].queue :
              /\ batch[b].state = "ended"
              /\ job' = [job EXCEPT ![p].at = "finalize", ![p].queue = @ \ {b}, ![p].batch = b,
                                    ![p].todo = {q \in InStatus("DISPATCHED") : entry[q].batch = b}]
        BY <1>3, Zenon DEF FinalizeRead
    <2> b \in Batches
        BY DEF Job
    <2> DEFINE S == {q \in InStatus("DISPATCHED") : entry[q].batch = b}
               Q == job[p].queue \ {b}
               j == [job[p] EXCEPT !.at = "finalize", !.queue = Q, !.batch = b, !.todo = S]
    <2>2. S \in SUBSET Questions /\ Q \in SUBSET Batches
        BY <1>j DEF InStatus, Job
    <2>3. job' = [job EXCEPT ![p] = j]
        BY <2>1
    <2> HIDE DEF S, Q
    <2>4. j \in Job /\ j.at = "finalize"
        <3> HIDE DEF IInv, TypeOK, Moves
        <3> QED BY <2>2, <1>j DEF Job, Points
    <2> HIDE DEF j
    <2>5. Moves(p) /\ job'[p].at = "finalize"
        BY <2>3, <2>4
    <2> QED BY <1>3, <2>5, LocalStep DEF FinalizeRead
<1>4. CASE Finalize(p)
    <2>1. PICK q \in job[p].todo :
              job' = [job EXCEPT ![p].at = Route(job[p].batch, q).at,
                                 ![p].as = Route(job[p].batch, q).as,
                                 ![p].cur = q, ![p].todo = @ \ {q}]
        BY <1>4 DEF Finalize
    <2>2. q \in Questions
        BY DEF Job
    <2> DEFINE at == Route(job[p].batch, q).at
               as == Route(job[p].batch, q).as
               T == job[p].todo \ {q}
               j == [job[p] EXCEPT !.at = at, !.as = as, !.cur = q, !.todo = T]
    <2>3. at \in {"mode", "compose", "fail"} /\ as \in {"ANSWERED", "FALLBACK"}
        BY DEF Route
    <2>4. T \in SUBSET Questions
        BY <1>j DEF Job
    <2>5. job' = [job EXCEPT ![p] = j]
        BY <2>1
    <2> HIDE DEF at, as, T
    <2>6. at \in Points
        BY <2>3 DEF Points
    <2>7. j \in Job /\ j.at = at /\ j.cur = q
        <3> HIDE DEF IInv, TypeOK, Moves
        <3> QED BY <2>2, <2>3, <2>4, <2>6, <1>j DEF Job
    <2> HIDE DEF j
    <2>8. Moves(p) /\ job'[p].at = at /\ job'[p].cur = q
        BY <2>5, <2>7
    <2>9. job'[p].at \notin {"mark", "finish"}
        BY <2>3, <2>8
    <2>10. UNCHANGED <<entry, batch, autoReply, replies, crashes>>
        BY <1>4 DEF Finalize
    <2> HIDE DEF IInv, Moves
    <2> QED BY <2>2, <2>8, <2>9, <2>10, LocalStep
<1>5. CASE FinalizeEnds(p)
    <2>1. Moves(p) /\ job'[p].at = "poll"
        BY <1>5, GotoMoves DEF FinalizeEnds, Points
    <2> QED BY <1>5, <2>1, LocalStep DEF FinalizeEnds
<1>6. CASE PollEnds(p)
    <2>1. Moves(p) /\ job'[p].at = "idle"
        BY <1>6, IdleTyped DEF PollEnds, Rest, IdleJob
    <2> QED BY <1>6, <2>1, LocalStep DEF PollEnds
<1> QED BY <1>1, <1>2, <1>3, <1>4, <1>5, <1>6

\* Delivery up to the send: composing, reading the mode, storing the message.
LEMMA ComposeStep ==
    ASSUME IInv, NEW p \in Workers, Compose(p) \/ NoAnswer(p) \/ DeliveryThrows(p) \/ ReadMode(p) \/ Save(p)
    PROVE  IInv'
<1> p \in Procs
    BY DEF Procs
<1> DEFINE c == job[p].cur
<1> USE DEF IInv, TypeOK
<1>j. job[p] \in Job
    OBVIOUS
<1>0. c \in Questions
    BY DEF Compose, NoAnswer, DeliveryThrows, ReadMode, Save, CurOK, At
<1>1. CASE Compose(p)
    <2>1. Moves(p) /\ job'[p].at = "mode" /\ job'[p].cur = c
        BY <1>1, GotoMoves DEF Compose, Points
    <2> QED BY <1>0, <1>1, <2>1, LocalStep DEF Compose
<1>2. CASE NoAnswer(p) \/ DeliveryThrows(p)
    <2>1. Moves(p) /\ job'[p].at = "fail" /\ job'[p].cur = c
        BY <1>2, GotoMoves DEF NoAnswer, DeliveryThrows, Points
    <2> QED BY <1>0, <1>2, <2>1, LocalStep DEF NoAnswer, DeliveryThrows
<1>3. CASE ReadMode(p)
    <2>0. PICK review \in {~autoReply, TRUE} :
              job' = [job EXCEPT ![p].at = "save", ![p].review = review]
        BY <1>3 DEF ReadMode
    <2> DEFINE j == [job[p] EXCEPT !.at = "save", !.review = review]
    <2>1. j \in Job /\ j.at = "save" /\ j.cur = c
        BY <1>j, SetSave
    <2>2. job' = [job EXCEPT ![p] = j]
        BY <2>0
    <2> HIDE DEF j
    <2>3. Moves(p) /\ job'[p].at = "save" /\ job'[p].cur = c
        BY <2>1, <2>2 DEF Moves
    <2> QED BY <1>0, <1>3, <2>3, LocalStep DEF ReadMode
<1>4. CASE Save(p)
    <2>1. Moves(p) /\ job'[p].cur = c
        BY <1>4, GotoMoves DEF Save, Points
    <2>2. job'[p].at = IF job[p].review THEN "finish" ELSE "post"
        BY <1>4, GotoMoves DEF Save, Points
    <2>3. RepliesGrow
        BY <1>0, <1>4 DEF Save, RepliesGrow
    <2>4. job[p].review => drafts'[c] > 0
        BY <1>0, <1>4 DEF Save
    <2> QED BY <1>0, <1>4, <2>1, <2>2, <2>3, <2>4, DeliveryStep DEF Save
<1> QED BY <1>1, <1>2, <1>3, <1>4

\* The update that closes a row, after its outcome is on record, or fails it.
LEMMA CloseStep ==
    ASSUME IInv, NEW p \in Workers, Finish(p) \/ Fail(p)
    PROVE  IInv'
<1> p \in Procs
    BY DEF Procs
<1> DEFINE c == job[p].cur
<1> USE DEF IInv, TypeOK
<1>0. c \in Questions
    BY DEF Finish, Fail, CurOK, At
<1>1. /\ job' \in [Procs -> Job]
      /\ \A r \in Procs \ {p} : job'[r] = job[r]
      /\ job'[p].at \in {"rescue", "finalize"}
    BY GotoMoves DEF Finish, Fail, Loop, Points, Moves
<1>2. CurOK' /\ MarkOK' /\ FinishOK'
    BY <1>1 DEF Finish, Fail, CurOK, MarkOK, FinishOK, At, replies
<1>a. PICK s \in Final : entry' = [entry EXCEPT ![c].status = s]
    BY DEF Finish, Fail, SetStatus, Final, Job
<1>3. /\ entry' \in [Questions -> Entry]
      /\ \A q \in Questions : q # c => entry'[q] = entry[q]
      /\ entry'[c].status \in Final
    BY <1>0, <1>a DEF Entry, Statuses
<1>4. TypeOK'
    BY <1>1, <1>3 DEF Finish, Fail, replies
<1>5. DispatchedInBatch'
    BY <1>3 DEF Finish, Fail, DispatchedInBatch, InStatus, Final
<1>6. entry'[c].status = "FAILED" \/ drafts[c] > 0 \/ c \in answered
    BY <1>0 DEF Finish, Fail, FinishOK, SetStatus, Entry
<1>7. ClosedIsBacked'
    BY <1>0, <1>3, <1>6 DEF Finish, Fail, ClosedIsBacked, InStatus, replies
<1> QED BY <1>2, <1>4, <1>5, <1>7

\* The environment: a batch keeps its members when it ends, time changes no
\* status, a crash leaves every activity idle.
LEMMA EnvironmentStep ==
    ASSUME IInv,
           \/ \E b \in Batches : BatchEnds(b)
           \/ \E q \in Questions : Age(q)
           \/ Toggle \/ Crash
    PROVE  IInv'
<1> USE DEF IInv, TypeOK
<1>1. ASSUME NEW b \in Batches, BatchEnds(b) PROVE IInv'
    <2>1. PICK res \in [batch[b].members -> Kinds] :
              batch' = [batch EXCEPT ![b].state = "ended",
                            ![b].result = [q \in Questions |->
                                IF q \in batch[b].members THEN res[q] ELSE @[q]]]
        BY <1>1, Zenon DEF BatchEnds
    <2> DEFINE R == [q \in Questions |->
                        IF q \in batch[b].members THEN res[q] ELSE batch[b].result[q]]
               n == [batch[b] EXCEPT !.state = "ended", !.result = R]
    <2>2. R \in [Questions -> Kinds]
        BY DEF Batch
    <2>3. batch' = [batch EXCEPT ![b] = n]
        BY <2>1
    <2> HIDE DEF R
    <2>4. n \in Batch /\ n.members = batch[b].members /\ n.state = "ended"
        BY <2>2, SetEnded
    <2> HIDE DEF n
    <2>5. batch' \in [Batches -> Batch]
        BY <2>3, <2>4
    <2>6. \A c \in Batches :
              /\ batch'[c].members = batch[c].members
              /\ batch[c].state # "unused" => batch'[c].state # "unused"
        BY <2>3, <2>4
    <2>u. UNCHANGED <<entry, job, autoReply, saved, drafts, posted, answered, crashes>>
        BY <1>1 DEF BatchEnds, replies
    <2>7. TypeOK'
        BY <2>u, <2>5
    <2>8. CurOK' /\ FinishOK' /\ ClosedIsBacked'
        BY <2>u DEF CurOK, FinishOK, ClosedIsBacked, InStatus, At
    <2>9. MarkOK'
        BY <2>u, <2>6 DEF MarkOK, At
    <2>10. DispatchedInBatch'
        BY <2>u, <2>6 DEF DispatchedInBatch, InStatus
    <2> QED BY <2>7, <2>8, <2>9, <2>10
<1>2. ASSUME NEW q \in Questions, Age(q) PROVE IInv'
    <2> DEFINE e == [entry[q] EXCEPT !.age = @ + 1]
    <2>a. e \in Entry
        BY <1>2 DEF Age, Entry, StaleAge
    <2>b. entry' = [entry EXCEPT ![q] = e]
        BY <1>2 DEF Age
    <2> HIDE DEF e
    <2>1. entry' \in [Questions -> Entry]
        BY <2>a, <2>b
    <2>2. \A r \in Questions : entry'[r].status = entry[r].status /\ entry'[r].batch = entry[r].batch
        BY <1>2 DEF Age, Entry
    <2>3. TypeOK' /\ CurOK' /\ MarkOK' /\ FinishOK'
        BY <1>2, <2>1 DEF Age, CurOK, MarkOK, FinishOK, At, replies
    <2>4. DispatchedInBatch' /\ ClosedIsBacked'
        BY <1>2, <2>2 DEF Age, DispatchedInBatch, ClosedIsBacked, InStatus, replies
    <2> QED BY <2>3, <2>4
<1>3. CASE Toggle
    BY <1>3 DEF Toggle, CurOK, MarkOK, FinishOK, DispatchedInBatch, ClosedIsBacked,
                InStatus, At, replies
<1>4. CASE Crash
    <2>1. TypeOK'
        BY <1>4, CrashBound, IdleTyped DEF Crash, replies
    <2>2. CurOK' /\ MarkOK' /\ FinishOK'
        BY <1>4 DEF Crash, CurOK, MarkOK, FinishOK, At, IdleJob
    <2>3. DispatchedInBatch' /\ ClosedIsBacked'
        BY <1>4 DEF Crash, DispatchedInBatch, ClosedIsBacked, InStatus, replies
    <2> QED BY <2>1, <2>2, <2>3
<1> QED BY <1>1, <1>2, <1>3, <1>4

\* An error nobody catches ends the tick, or sends the poll on to its next batch.
LEMMA UncaughtMoves ==
    ASSUME TypeOK, NEW p \in Workers, Uncaught(p)
    PROVE  /\ p \in Procs /\ Moves(p) /\ job'[p].at \in {"idle", "poll"}
           /\ job[p].as = "FALLBACK" => job'[p].as = "FALLBACK"
<1>1. p \in Procs /\ job[p] \in Job /\ job \in [Procs -> Job]
    BY DEF Procs, TypeOK
<1> DEFINE j == IF p \in Pollers THEN [job[p] EXCEPT !.at = "poll", !.todo = {}] ELSE IdleJob
<1>2. [job[p] EXCEPT !.at = "poll", !.todo = {}] \in Job
    BY <1>1 DEF Job, Points
<1>3. j \in Job /\ j.at \in {"idle", "poll"} /\ (job[p].as = "FALLBACK" => j.as = "FALLBACK")
    BY <1>1, <1>2, IdleTyped DEF Job, IdleJob
<1>4. job' = [job EXCEPT ![p] = j]
    BY DEF Uncaught
<1> HIDE DEF j
<1> QED
    BY <1>1, <1>3, <1>4 DEF Moves

LEMMA UncaughtStep ==
    ASSUME IInv, NEW p \in Workers, Uncaught(p)
    PROVE  IInv'
<1>1. p \in Procs /\ Moves(p) /\ job'[p].at \in {"idle", "poll"}
    BY UncaughtMoves DEF IInv
<1>2. crashes' \in 0 .. MaxCrashes
    BY CrashBound DEF Uncaught, IInv, TypeOK
<1>3. TypeOK'
    BY <1>1, <1>2 DEF Uncaught, IInv, TypeOK, Moves, replies
<1>4. CurOK' /\ MarkOK' /\ FinishOK'
    BY <1>1 DEF Uncaught, IInv, CurOK, MarkOK, FinishOK, Moves, At, replies
<1>5. DispatchedInBatch' /\ ClosedIsBacked'
    BY DEF Uncaught, IInv, DispatchedInBatch, ClosedIsBacked, InStatus, replies
<1> QED
    BY <1>3, <1>4, <1>5 DEF IInv

----------------------------------------------------------------------------
\* The invariant is inductive.
LEMMA NextInv == IInv /\ [Next]_vars => IInv'
<1> SUFFICES ASSUME IInv, [Next]_vars PROVE IInv'
    OBVIOUS
<1>1. ASSUME NEW w \in Webhooks, Webhook(w) PROVE IInv'
    <2> w \in Procs
        BY DEF Procs
    <2> QED BY <1>1, WebhookLocal, WebhookWrites, PostStep DEF Webhook
<1>2. ASSUME NEW p \in Workers, Deliver(p) PROVE IInv'
    <2> p \in Procs
        BY DEF Procs
    <2> QED BY <1>2, ComposeStep, CloseStep, PostStep DEF Deliver
<1>3. ASSUME NEW d \in Dispatchers, Dispatcher(d) PROVE IInv'
    <2> d \in Workers
        BY DEF Workers
    <2> QED BY <1>2, <1>3, DispatchLocal, SubmitStep, MarkStep DEF Dispatcher
<1>4. ASSUME NEW p \in Pollers, Poller(p) PROVE IInv'
    <2> p \in Workers
        BY DEF Workers
    <2> QED BY <1>2, <1>4, PollStep DEF Poller
<1>5. CASE UNCHANGED vars
    BY <1>5 DEF vars, IInv, TypeOK, CurOK, MarkOK, FinishOK, DispatchedInBatch,
                ClosedIsBacked, InStatus, At
<1> QED BY <1>1, <1>3, <1>4, <1>5, EnvironmentStep, UncaughtStep DEF Next

\* Every variable keeps its type.
THEOREM TypeCorrect == Spec => []TypeOK
BY InitInv, NextInv, PTL DEF Spec, IInv

\* However dispatches, polls and restarts interleave, a row waiting for a result
\* points at a submitted batch that contains it, so a poll can finish it.
THEOREM NoOrphanRow == Spec => []DispatchedInBatch
BY InitInv, NextInv, PTL DEF Spec, IInv

\* However activities overlap, a row closed as ANSWERED or FALLBACK left a draft
\* in the review panel or an answer at MercadoLibre.
THEOREM NoHollowClose == Spec => []ClosedIsBacked
BY InitInv, NextInv, PTL DEF Spec, IInv

----------------------------------------------------------------------------
(* What every step of an activity does to its point, question and rows to do. *)

\* Activity p goes to a point with a question in hand and rows still to do.
GoesTo(p, at, cur, todo) ==
    /\ job'[p].at = at /\ job'[p].cur = cur /\ job'[p].todo = todo
    /\ \A r \in Procs : r # p => job'[r] = job[r]

LEMMA BecomesGoesTo ==
    ASSUME TypeOK, NEW p \in Procs, NEW j, job' = [job EXCEPT ![p] = j]
    PROVE  GoesTo(p, j.at, j.cur, j.todo)
BY DEF TypeOK, GoesTo

LEMMA GotoGoesTo ==
    ASSUME TypeOK, NEW p \in Procs, NEW point, Goto(p, point)
    PROVE  GoesTo(p, point, job[p].cur, job[p].todo)
<1> DEFINE j == [job[p] EXCEPT !.at = point]
<1>1. job[p] \in Job
    BY DEF TypeOK
<1>2. j.at = point /\ j.cur = job[p].cur /\ j.todo = job[p].todo
    BY <1>1 DEF Job
<1>3. job' = [job EXCEPT ![p] = j]
    BY DEF Goto
<1> HIDE DEF j
<1> QED BY <1>2, <1>3, BecomesGoesTo

LEMMA RestGoesTo ==
    ASSUME TypeOK, NEW p \in Procs, Rest(p)
    PROVE  GoesTo(p, "idle", None, {})
<1>1. job' = [job EXCEPT ![p] = IdleJob]
    BY DEF Rest
<1>2. IdleJob.at = "idle" /\ IdleJob.cur = None /\ IdleJob.todo = {}
    BY DEF IdleJob
<1> QED BY <1>1, <1>2, BecomesGoesTo

LEMMA DispatchGoesTo ==
    ASSUME TypeOK, NEW p \in Procs
    PROVE  /\ DispatchRead(p) =>
                  GoesTo(p, "submit", job[p].cur, Oldest(InStatus("PENDING"), MaxBatch))
           /\ Submit(p) => GoesTo(p, "mark", job[p].cur, job[p].todo)
           /\ StaleRead(p) =>
                  GoesTo(p, "rescue", job[p].cur, {q \in InStatus("PENDING") : entry[q].age = StaleAge})
           /\ DispatchWaits(p) \/ MarkDispatched(p) \/ MarkFailed(p) =>
                  GoesTo(p, AfterDispatch(p).at, None, {})
           /\ Rescue(p) => \E q \in job[p].todo : GoesTo(p, "compose", q, job[p].todo \ {q})
<1>j. job[p] \in Job
    BY DEF TypeOK
<1>1. ASSUME NEW S, job' = [job EXCEPT ![p].at = "submit", ![p].todo = S]
      PROVE  GoesTo(p, "submit", job[p].cur, S)
    <2> DEFINE j == [job[p] EXCEPT !.at = "submit", !.todo = S]
    <2>1. j.at = "submit" /\ j.cur = job[p].cur /\ j.todo = S
        BY <1>j DEF Job
    <2>2. job' = [job EXCEPT ![p] = j]
        BY <1>1
    <2> HIDE DEF j
    <2> QED BY <2>1, <2>2, BecomesGoesTo
<1>2. ASSUME NEW S, job' = [job EXCEPT ![p].at = "rescue", ![p].todo = S]
      PROVE  GoesTo(p, "rescue", job[p].cur, S)
    <2> DEFINE j == [job[p] EXCEPT !.at = "rescue", !.todo = S]
    <2>1. j.at = "rescue" /\ j.cur = job[p].cur /\ j.todo = S
        BY <1>j DEF Job
    <2>2. job' = [job EXCEPT ![p] = j]
        BY <1>2
    <2> HIDE DEF j
    <2> QED BY <2>1, <2>2, BecomesGoesTo
<1>3. ASSUME NEW b, job' = [job EXCEPT ![p].at = "mark", ![p].batch = b]
      PROVE  GoesTo(p, "mark", job[p].cur, job[p].todo)
    <2> DEFINE j == [job[p] EXCEPT !.at = "mark", !.batch = b]
    <2>1. j.at = "mark" /\ j.cur = job[p].cur /\ j.todo = job[p].todo
        BY <1>j DEF Job
    <2>2. job' = [job EXCEPT ![p] = j]
        BY <1>3
    <2> HIDE DEF j
    <2> QED BY <2>1, <2>2, BecomesGoesTo
<1>4. ASSUME job' = [job EXCEPT ![p] = AfterDispatch(p)]
      PROVE  GoesTo(p, AfterDispatch(p).at, None, {})
    <2>1. AfterDispatch(p).cur = None /\ AfterDispatch(p).todo = {}
        BY DEF AfterDispatch, IdleJob
    <2> HIDE DEF AfterDispatch
    <2> QED BY <1>4, <2>1, BecomesGoesTo
<1>5. ASSUME NEW q \in job[p].todo,
             job' = [job EXCEPT ![p].at = "compose", ![p].cur = q,
                                ![p].todo = @ \ {q}, ![p].as = "FALLBACK"]
      PROVE  GoesTo(p, "compose", q, job[p].todo \ {q})
    <2> DEFINE j == [job[p] EXCEPT !.at = "compose", !.cur = q, !.todo = @ \ {q}, !.as = "FALLBACK"]
    <2>1. j.at = "compose" /\ j.cur = q /\ j.todo = job[p].todo \ {q}
        BY <1>j DEF Job
    <2>2. job' = [job EXCEPT ![p] = j]
        BY <1>5
    <2> HIDE DEF j
    <2> QED BY <2>1, <2>2, BecomesGoesTo
<1>6. DispatchRead(p) => GoesTo(p, "submit", job[p].cur, Oldest(InStatus("PENDING"), MaxBatch))
    BY <1>1 DEF DispatchRead
<1>7. StaleRead(p) =>
          GoesTo(p, "rescue", job[p].cur, {q \in InStatus("PENDING") : entry[q].age = StaleAge})
    BY <1>2 DEF StaleRead
<1>8. Submit(p) => GoesTo(p, "mark", job[p].cur, job[p].todo)
    BY <1>3 DEF Submit
<1>9. DispatchWaits(p) \/ MarkDispatched(p) \/ MarkFailed(p) => GoesTo(p, AfterDispatch(p).at, None, {})
    BY <1>4 DEF DispatchWaits, MarkDispatched, MarkFailed
<1>10. Rescue(p) => \E q \in job[p].todo : GoesTo(p, "compose", q, job[p].todo \ {q})
    BY <1>5 DEF Rescue
<1> QED BY <1>6, <1>7, <1>8, <1>9, <1>10

LEMMA PollGoesTo ==
    ASSUME TypeOK, NEW p \in Procs
    PROVE  /\ PollRead(p) \/ PollSkips(p) => GoesTo(p, "poll", job[p].cur, job[p].todo)
           /\ FinalizeRead(p) =>
                  \E S \in SUBSET InStatus("DISPATCHED") : GoesTo(p, "finalize", job[p].cur, S)
           /\ Finalize(p) =>
                  \E q \in job[p].todo, at \in {"mode", "compose", "fail"} :
                      GoesTo(p, at, q, job[p].todo \ {q})
           /\ ReadMode(p) => GoesTo(p, "save", job[p].cur, job[p].todo)
<1>j. job[p] \in Job
    BY DEF TypeOK
<1>1. ASSUME NEW S, job' = [job EXCEPT ![p].at = "poll", ![p].queue = S]
      PROVE  GoesTo(p, "poll", job[p].cur, job[p].todo)
    <2> DEFINE j == [job[p] EXCEPT !.at = "poll", !.queue = S]
    <2>1. j.at = "poll" /\ j.cur = job[p].cur /\ j.todo = job[p].todo
        BY <1>j DEF Job
    <2>2. job' = [job EXCEPT ![p] = j]
        BY <1>1
    <2> HIDE DEF j
    <2> QED BY <2>1, <2>2, BecomesGoesTo
<1>2. ASSUME NEW b, At(p, "poll"), job' = [job EXCEPT ![p].queue = @ \ {b}]
      PROVE  GoesTo(p, "poll", job[p].cur, job[p].todo)
    <2> DEFINE j == [job[p] EXCEPT !.queue = @ \ {b}]
    <2>1. j.at = "poll" /\ j.cur = job[p].cur /\ j.todo = job[p].todo
        BY <1>j, <1>2 DEF Job, At
    <2>2. job' = [job EXCEPT ![p] = j]
        BY <1>2
    <2> HIDE DEF j
    <2> QED BY <2>1, <2>2, BecomesGoesTo
<1>3. ASSUME NEW b, NEW S,
             job' = [job EXCEPT ![p].at = "finalize", ![p].queue = @ \ {b}, ![p].batch = b, ![p].todo = S]
      PROVE  GoesTo(p, "finalize", job[p].cur, S)
    <2> DEFINE j == [job[p] EXCEPT !.at = "finalize", !.queue = @ \ {b}, !.batch = b, !.todo = S]
    <2>1. j.at = "finalize" /\ j.cur = job[p].cur /\ j.todo = S
        BY <1>j DEF Job
    <2>2. job' = [job EXCEPT ![p] = j]
        BY <1>3
    <2> HIDE DEF j
    <2> QED BY <2>1, <2>2, BecomesGoesTo
<1>4. ASSUME NEW at, NEW as, NEW q,
             job' = [job EXCEPT ![p].at = at, ![p].as = as, ![p].cur = q, ![p].todo = @ \ {q}]
      PROVE  GoesTo(p, at, q, job[p].todo \ {q})
    <2> DEFINE j == [job[p] EXCEPT !.at = at, !.as = as, !.cur = q, !.todo = @ \ {q}]
    <2>1. j.at = at /\ j.cur = q /\ j.todo = job[p].todo \ {q}
        BY <1>j DEF Job
    <2>2. job' = [job EXCEPT ![p] = j]
        BY <1>4
    <2> HIDE DEF j
    <2> QED BY <2>1, <2>2, BecomesGoesTo
<1>5. ASSUME NEW review, job' = [job EXCEPT ![p].at = "save", ![p].review = review]
      PROVE  GoesTo(p, "save", job[p].cur, job[p].todo)
    <2> DEFINE j == [job[p] EXCEPT !.at = "save", !.review = review]
    <2>1. j.at = "save" /\ j.cur = job[p].cur /\ j.todo = job[p].todo
        BY <1>j DEF Job
    <2>2. job' = [job EXCEPT ![p] = j]
        BY <1>5
    <2> HIDE DEF j
    <2> QED BY <2>1, <2>2, BecomesGoesTo
<1>6. PollRead(p) \/ PollSkips(p) => GoesTo(p, "poll", job[p].cur, job[p].todo)
    BY <1>1, <1>2 DEF PollRead, PollSkips
<1>7. FinalizeRead(p) =>
          \E S \in SUBSET InStatus("DISPATCHED") : GoesTo(p, "finalize", job[p].cur, S)
    <2> SUFFICES ASSUME FinalizeRead(p)
                 PROVE  \E S \in SUBSET InStatus("DISPATCHED") : GoesTo(p, "finalize", job[p].cur, S)
        OBVIOUS
    <2>1. PICK b \in job[p].queue :
              job' = [job EXCEPT ![p].at = "finalize", ![p].queue = @ \ {b}, ![p].batch = b,
                                 ![p].todo = {q \in InStatus("DISPATCHED") : entry[q].batch = b}]
        BY Zenon DEF FinalizeRead
    <2> DEFINE S == {q \in InStatus("DISPATCHED") : entry[q].batch = b}
    <2>2. S \in SUBSET InStatus("DISPATCHED")
        OBVIOUS
    <2>3. job' = [job EXCEPT ![p].at = "finalize", ![p].queue = @ \ {b}, ![p].batch = b, ![p].todo = S]
        BY <2>1
    <2> HIDE DEF S
    <2>4. GoesTo(p, "finalize", job[p].cur, S)
        BY <1>3, <2>3
    <2> QED BY <2>2, <2>4
<1>8. Finalize(p) =>
          \E q \in job[p].todo, at \in {"mode", "compose", "fail"} :
              GoesTo(p, at, q, job[p].todo \ {q})
    <2> SUFFICES ASSUME Finalize(p)
                 PROVE  \E q \in job[p].todo, at \in {"mode", "compose", "fail"} :
                            GoesTo(p, at, q, job[p].todo \ {q})
        OBVIOUS
    <2>1. PICK q \in job[p].todo :
              job' = [job EXCEPT ![p].at = Route(job[p].batch, q).at,
                                 ![p].as = Route(job[p].batch, q).as,
                                 ![p].cur = q, ![p].todo = @ \ {q}]
        BY DEF Finalize
    <2>2. Route(job[p].batch, q).at \in {"mode", "compose", "fail"}
        BY DEF Route
    <2>3. GoesTo(p, Route(job[p].batch, q).at, q, job[p].todo \ {q})
        BY <1>4, <2>1
    <2> QED BY <2>2, <2>3
<1>9. ReadMode(p) => GoesTo(p, "save", job[p].cur, job[p].todo)
    BY <1>5 DEF ReadMode
<1> QED BY <1>6, <1>7, <1>8, <1>9

LEMMA PostGoesTo ==
    ASSUME TypeOK, NEW p \in Procs
    PROVE  /\ PostAccepted(p) \/ PostFails(p) => job'[p].at \in {"idle", "finish", "fail"}
           /\ (PostAccepted(p) \/ PostFails(p)) /\ p \notin Webhooks =>
                  \E at \in {"finish", "fail"} : GoesTo(p, at, job[p].cur, job[p].todo)
<1>1. ASSUME NEW at \in {"finish", "fail"}, job' = [job EXCEPT ![p] = AfterPost(p, at)]
      PROVE  /\ GoesTo(p, AfterPost(p, at).at, AfterPost(p, at).cur, AfterPost(p, at).todo)
             /\ job'[p].at \in {"idle", "finish", "fail"}
             /\ p \notin Webhooks => GoesTo(p, at, job[p].cur, job[p].todo)
    <2>1. GoesTo(p, AfterPost(p, at).at, AfterPost(p, at).cur, AfterPost(p, at).todo)
        BY <1>1, BecomesGoesTo
    <2>2. job[p] \in Job
        BY DEF TypeOK
    <2>3. AfterPost(p, at).at \in {"idle", "finish", "fail"}
        BY <2>2 DEF AfterPost, IdleJob, Job
    <2>4. p \notin Webhooks => /\ AfterPost(p, at).at = at
                               /\ AfterPost(p, at).cur = job[p].cur
                               /\ AfterPost(p, at).todo = job[p].todo
        BY <2>2 DEF AfterPost, Job
    <2> QED BY <2>1, <2>3, <2>4 DEF GoesTo
<1> QED BY <1>1 DEF PostAccepted, PostFails

----------------------------------------------------------------------------
(* Every draft and every send is in the conversation. *)

\* The activities that have stored a message of q and not yet flagged or sent it.
Owing(q) == {p \in Procs : job[p].at \in {"syncMode", "post"} /\ job[p].cur = q}

\* Every draft, every send and every send to come has its own message.
LoggedFirst == \A q \in Questions : drafts[q] + posted[q] + Cardinality(Owing(q)) <= saved[q]

LEMMA OwingFinite ==
    ASSUME NEW S \in SUBSET Procs
    PROVE  IsFiniteSet(S) /\ Cardinality(S) \in Nat
<1>1. IsFiniteSet(Procs)
    BY FiniteActivities DEF Procs, Workers, Dispatchers
<1> QED BY <1>1, FS_Subset, FS_CardinalityType

\* A step that owes nothing new and neither stores, flags nor sends.
LEMMA OwesNoMore ==
    ASSUME TypeOK, LoggedFirst, UNCHANGED <<saved, drafts, posted>>,
           \A q \in Questions : Owing(q)' \subseteq Owing(q)
    PROVE  LoggedFirst'
<1> SUFFICES ASSUME NEW q \in Questions
             PROVE  drafts'[q] + posted'[q] + Cardinality(Owing(q)') <= saved'[q]
    BY DEF LoggedFirst
<1>1. Owing(q) \in SUBSET Procs /\ Owing(q)' \in SUBSET Procs
    BY DEF Owing
<1>2. Cardinality(Owing(q)') <= Cardinality(Owing(q))
    BY <1>1, OwingFinite, FS_Subset
<1>3. Cardinality(Owing(q)) \in Nat /\ Cardinality(Owing(q)') \in Nat
    BY <1>1, OwingFinite
<1>4. saved[q] \in Nat /\ drafts[q] \in Nat /\ posted[q] \in Nat
    BY DEF TypeOK
<1> QED BY <1>2, <1>3, <1>4 DEF LoggedFirst

\* An activity goes to a point where it owes nothing, or goes on owing the same.
LEMMA MovesOwingNothing ==
    ASSUME TypeOK, LoggedFirst, NEW p \in Procs, NEW j,
           job' = [job EXCEPT ![p] = j],
           \/ j.at \notin {"syncMode", "post"}
           \/ job[p].at \in {"syncMode", "post"} /\ j.cur = job[p].cur,
           UNCHANGED <<saved, drafts, posted>>
    PROVE  LoggedFirst'
<1>1. job'[p] = j /\ \A r \in Procs : r # p => job'[r] = job[r]
    BY DEF TypeOK
<1>2. \A q \in Questions : Owing(q)' \subseteq Owing(q)
    BY <1>1 DEF Owing
<1> QED BY <1>2, OwesNoMore

\* One message stored, that an activity now owes or that is a draft at once.
LEMMA StoresOne ==
    ASSUME TypeOK, LoggedFirst, NEW p \in Procs, NEW j, NEW q \in Questions,
           job' = [job EXCEPT ![p] = j],
           saved' = [saved EXCEPT ![q] = @ + 1],
           posted' = posted,
           \/ drafts' = drafts /\ j.cur = q
           \/ j.at \notin {"syncMode", "post"} /\ drafts' = [drafts EXCEPT ![q] = @ + 1]
    PROVE  LoggedFirst'
<1>1. job'[p] = j /\ \A r \in Procs : r # p => job'[r] = job[r]
    BY DEF TypeOK
<1> SUFFICES ASSUME NEW r \in Questions
             PROVE  drafts'[r] + posted'[r] + Cardinality(Owing(r)') <= saved'[r]
    BY DEF LoggedFirst
<1>2. Owing(r) \in SUBSET Procs /\ Owing(r)' \in SUBSET Procs
    BY DEF Owing
<1>3. /\ IsFiniteSet(Owing(r)) /\ IsFiniteSet(Owing(r)')
      /\ Cardinality(Owing(r)) \in Nat /\ Cardinality(Owing(r)') \in Nat
    BY <1>2, OwingFinite
<1>4. saved[r] \in Nat /\ drafts[r] \in Nat /\ posted[r] \in Nat
    BY DEF TypeOK
<1>5. CASE r = q /\ drafts' = drafts
    <2>1. Owing(r)' \subseteq Owing(r) \cup {p}
        BY <1>1 DEF Owing
    <2>2. Owing(r) \cup {p} \in SUBSET Procs
        BY <1>2
    <2>3. Cardinality(Owing(r)') <= Cardinality(Owing(r) \cup {p})
        BY <2>1, <2>2, OwingFinite, FS_Subset
    <2>4. Cardinality(Owing(r) \cup {p}) <= Cardinality(Owing(r)) + 1
        <3> DEFINE S == Owing(r)
        <3>1. IsFiniteSet(S) /\ Cardinality(S) \in Nat
            BY <1>3
        <3> HIDE DEF S
        <3>2. Cardinality(S \cup {p}) = IF p \in S THEN Cardinality(S) ELSE Cardinality(S) + 1
            BY <3>1, FS_AddElement
        <3>3. Cardinality(S \cup {p}) <= Cardinality(S) + 1
            BY <3>1, <3>2
        <3> QED BY <3>3 DEF S
    <2>5. Cardinality(Owing(r) \cup {p}) \in Nat
        BY <2>2, OwingFinite
    <2> QED BY <1>3, <1>4, <1>5, <2>3, <2>4, <2>5 DEF LoggedFirst, TypeOK
<1>6. CASE r # q \/ j.at \notin {"syncMode", "post"}
    <2>1. Owing(r)' \subseteq Owing(r)
        BY <1>1, <1>6 DEF Owing
    <2>2. Cardinality(Owing(r)') <= Cardinality(Owing(r))
        BY <1>3, <2>1, FS_Subset
    <2>3. /\ saved'[r] = saved[r] + (IF r = q THEN 1 ELSE 0)
          /\ drafts'[r] \in Nat /\ drafts'[r] <= drafts[r] + (IF r = q THEN 1 ELSE 0)
        BY <1>4 DEF TypeOK
    <2>4. posted'[r] = posted[r] /\ drafts[r] + posted[r] + Cardinality(Owing(r)) <= saved[r]
        BY DEF LoggedFirst
    <2> QED BY <1>3, <1>4, <2>2, <2>3, <2>4
<1> QED BY <1>5, <1>6

\* What an activity owed is flagged or sent.
LEMMA PaysOne ==
    ASSUME TypeOK, LoggedFirst, NEW p \in Procs, NEW j, NEW q \in Questions,
           p \in Owing(q),
           job' = [job EXCEPT ![p] = j], j.at \notin {"syncMode", "post"},
           saved' = saved,
           \/ drafts' = drafts /\ posted' = [posted EXCEPT ![q] = @ + 1]
           \/ posted' = posted /\ drafts' = [drafts EXCEPT ![q] = @ + 1]
    PROVE  LoggedFirst'
<1>1. job'[p] = j /\ \A r \in Procs : r # p => job'[r] = job[r]
    BY DEF TypeOK
<1> SUFFICES ASSUME NEW r \in Questions
             PROVE  drafts'[r] + posted'[r] + Cardinality(Owing(r)') <= saved'[r]
    BY DEF LoggedFirst
<1>2. Owing(r) \in SUBSET Procs /\ Owing(r)' = Owing(r) \ {p}
    BY <1>1 DEF Owing
<1>3. Cardinality(Owing(r)) \in Nat /\ IsFiniteSet(Owing(r))
    BY <1>2, OwingFinite
<1>4. Cardinality(Owing(r)') = IF p \in Owing(r) THEN Cardinality(Owing(r)) - 1
                                                 ELSE Cardinality(Owing(r))
    BY <1>2, <1>3, FS_RemoveElement
<1>5. p \in Owing(r) <=> r = q
    BY DEF Owing
<1>6. saved[r] \in Nat /\ drafts[r] \in Nat /\ posted[r] \in Nat
    BY DEF TypeOK
<1>7. drafts'[r] + posted'[r] = drafts[r] + posted[r] + (IF r = q THEN 1 ELSE 0)
    BY <1>6 DEF TypeOK
<1>8. drafts[r] + posted[r] + Cardinality(Owing(r)) <= saved[r]
    BY DEF LoggedFirst
<1> QED BY <1>3, <1>4, <1>5, <1>6, <1>7, <1>8

\* The steps of a webhook.
LEMMA WebhookLogs ==
    ASSUME IInv, LoggedFirst, NEW w \in Webhooks, Webhook(w),
           ~PostAccepted(w), ~PostFails(w)
    PROVE  LoggedFirst'
<1> w \in Procs /\ TypeOK
    BY DEF Procs, IInv
<1>1. ASSUME NEW q \in Questions, Notified(w, q) PROVE LoggedFirst'
    <2>1. [IdleJob EXCEPT !.at = "create", !.cur = q].at = "create"
        BY DEF IdleJob
    <2> QED BY <1>1, <2>1, MovesOwingNothing DEF Notified, replies
<1>2. CASE Create(w) \/ SyncReplyFails(w)
    <2>1. job' = [job EXCEPT ![w] = IdleJob] /\ IdleJob.at = "idle"
        BY <1>2 DEF Create, SyncReplyFails, Rest, IdleJob
    <2> QED BY <1>2, <2>1, MovesOwingNothing DEF Create, SyncReplyFails, replies
<1>3. CASE CreateCollides(w)
    <2> DEFINE j == [job[w] EXCEPT !.at = "sync"]
    <2>1. job' = [job EXCEPT ![w] = j] /\ j.at = "sync"
        BY <1>3 DEF CreateCollides, Goto, TypeOK, Job
    <2> HIDE DEF j
    <2> QED BY <1>3, <2>1, MovesOwingNothing DEF CreateCollides, replies
<1>4. CASE SyncSend(w)
    <2> DEFINE j == [job[w] EXCEPT !.at = "post"]
    <2>1. job' = [job EXCEPT ![w] = j] /\ j.cur = job[w].cur
        BY <1>4 DEF SyncSend, Goto, TypeOK, Job
    <2> HIDE DEF j
    <2> QED BY <1>4, <2>1, MovesOwingNothing DEF SyncSend, At, replies
<1>5. CASE SyncReply(w)
    <2> DEFINE j == [job[w] EXCEPT !.at = "syncMode"]
    <2>1. job' = [job EXCEPT ![w] = j] /\ j.cur = job[w].cur
        BY <1>5 DEF SyncReply, Goto, TypeOK, Job
    <2>2. job[w].cur \in Questions
        BY <1>5 DEF SyncReply, IInv, CurOK, At
    <2> HIDE DEF j
    <2> QED BY <1>5, <2>1, <2>2, StoresOne DEF SyncReply
<1>6. CASE SyncDraft(w)
    <2>1. job' = [job EXCEPT ![w] = IdleJob] /\ IdleJob.at = "idle"
        BY <1>6 DEF SyncDraft, Rest, IdleJob
    <2>2. job[w].cur \in Questions
        BY <1>6 DEF SyncDraft, IInv, CurOK, At
    <2>3. w \in Owing(job[w].cur)
        BY <1>6 DEF SyncDraft, At, Owing
    <2> QED BY <1>6, <2>1, <2>2, <2>3, PaysOne DEF SyncDraft
<1> QED BY <1>1, <1>2, <1>3, <1>4, <1>5, <1>6 DEF Webhook

LEMMA PostLogs ==
    ASSUME IInv, LoggedFirst, NEW p \in Procs, PostAccepted(p) \/ PostFails(p)
    PROVE  LoggedFirst'
<1> TypeOK
    BY DEF IInv
<1>1. job[p].cur \in Questions /\ p \in Owing(job[p].cur)
    BY DEF PostAccepted, PostFails, IInv, CurOK, At, Owing
<1>2. PICK point \in {"finish", "fail"} : job' = [job EXCEPT ![p] = AfterPost(p, point)]
    BY DEF PostAccepted, PostFails
<1>3. AfterPost(p, point).at \notin {"syncMode", "post"}
    BY DEF AfterPost, IdleJob, TypeOK, Job
<1> HIDE DEF AfterPost
<1> QED BY <1>1, <1>2, <1>3, PaysOne DEF PostAccepted, PostFails

\* A delivery stores its message as a draft, or owes its send.
LEMMA DeliverLogs ==
    ASSUME IInv, LoggedFirst, NEW p \in Workers, Deliver(p),
           ~PostAccepted(p), ~PostFails(p)
    PROVE  LoggedFirst'
<1> p \in Procs /\ TypeOK
    BY DEF Procs, IInv
<1>1. CASE Compose(p) \/ NoAnswer(p) \/ DeliveryThrows(p) \/ ReadMode(p) \/ Finish(p) \/ Fail(p)
    <2>1. PICK j : job' = [job EXCEPT ![p] = j] /\ j.at \in {"mode", "fail", "save", "rescue", "finalize"}
        <3>1. ASSUME NEW a \in {"mode", "fail", "rescue", "finalize"}, Goto(p, a)
              PROVE  \E j : job' = [job EXCEPT ![p] = j] /\ j.at \in {"mode", "fail", "save", "rescue", "finalize"}
            <4> WITNESS [job[p] EXCEPT !.at = a]
            <4> QED BY <3>1 DEF Goto, TypeOK, Job
        <3>2. CASE ReadMode(p)
            <4>1. PICK review \in {~autoReply, TRUE} :
                      job' = [job EXCEPT ![p].at = "save", ![p].review = review]
                BY <3>2 DEF ReadMode
            <4> WITNESS [job[p] EXCEPT !.at = "save", !.review = review]
            <4> QED BY <4>1 DEF TypeOK, Job
        <3> QED BY <1>1, <3>1, <3>2 DEF Compose, NoAnswer, DeliveryThrows, Finish, Fail, Loop
    <2>2. UNCHANGED <<saved, drafts, posted>>
        BY <1>1 DEF Compose, NoAnswer, DeliveryThrows, ReadMode, Finish, Fail, replies
    <2> QED BY <2>1, <2>2, MovesOwingNothing
<1>2. CASE Save(p)
    <2> DEFINE j == [job[p] EXCEPT !.at = IF job[p].review THEN "finish" ELSE "post"]
               q == job[p].cur
    <2>1. job' = [job EXCEPT ![p] = j] /\ j.cur = q /\ (job[p].review => j.at = "finish")
        BY <1>2 DEF Save, Goto, TypeOK, Job
    <2>2. q \in Questions
        BY <1>2 DEF Save, IInv, CurOK, At
    <2>3. saved' = [saved EXCEPT ![q] = @ + 1] /\ posted' = posted
        BY <1>2 DEF Save
    <2>4. IF job[p].review THEN drafts' = [drafts EXCEPT ![q] = @ + 1] ELSE drafts' = drafts
        BY <1>2 DEF Save, TypeOK
    <2> HIDE DEF j, q
    <2> QED BY <2>1, <2>2, <2>3, <2>4, StoresOne
<1> QED BY <1>1, <1>2 DEF Deliver

\* The other steps of a tick only move the activity.
LEMMA TickLogs ==
    ASSUME IInv, LoggedFirst, NEW p \in Procs,
           \/ DispatchRead(p) \/ DispatchWaits(p) \/ Submit(p) \/ SubmitFails(p)
           \/ MarkDispatched(p) \/ MarkFailed(p)
           \/ StaleRead(p) \/ Rescue(p) \/ RescueEnds(p)
           \/ PollRead(p) \/ PollSkips(p) \/ FinalizeRead(p) \/ Finalize(p)
           \/ FinalizeEnds(p) \/ PollEnds(p)
    PROVE  LoggedFirst'
<1> TypeOK
    BY DEF IInv
<1>1. UNCHANGED <<saved, drafts, posted>>
    BY DEF DispatchRead, DispatchWaits, Submit, SubmitFails, MarkDispatched, MarkFailed,
           StaleRead, Rescue, RescueEnds, PollRead, PollSkips, FinalizeRead, Finalize,
           FinalizeEnds, PollEnds, replies
<1>3. job'[p].at \notin {"syncMode", "post"} /\ \A r \in Procs : r # p => job'[r] = job[r]
    <2>1. AfterDispatch(p).at \in {"idle", "stale"}
        BY DEF AfterDispatch, IdleJob
    <2>2. RescueEnds(p) \/ PollEnds(p) => GoesTo(p, "idle", None, {})
        BY RestGoesTo DEF RescueEnds, PollEnds
    <2>3. SubmitFails(p) => GoesTo(p, "markFailed", job[p].cur, job[p].todo)
        BY GotoGoesTo DEF SubmitFails
    <2>4. FinalizeEnds(p) => GoesTo(p, "poll", job[p].cur, job[p].todo)
        BY GotoGoesTo DEF FinalizeEnds
    <2>5. CASE DispatchRead(p) \/ DispatchWaits(p) \/ Submit(p) \/ SubmitFails(p)
                  \/ MarkDispatched(p) \/ MarkFailed(p)
        BY <2>1, <2>3, <2>5, DispatchGoesTo DEF GoesTo
    <2>6. CASE StaleRead(p) \/ Rescue(p) \/ RescueEnds(p) \/ PollEnds(p)
        BY <2>2, <2>6, DispatchGoesTo DEF GoesTo
    <2>7. CASE PollRead(p) \/ PollSkips(p) \/ FinalizeRead(p) \/ Finalize(p) \/ FinalizeEnds(p)
        BY <2>4, <2>7, PollGoesTo DEF GoesTo
    <2> QED BY <2>5, <2>6, <2>7
<1>4. \A q \in Questions : Owing(q)' \subseteq Owing(q)
    BY <1>3 DEF Owing
<1> QED BY <1>1, <1>4, OwesNoMore

LEMMA NextLogs == IInv /\ LoggedFirst /\ [Next]_vars => LoggedFirst'
<1> SUFFICES ASSUME IInv, LoggedFirst, [Next]_vars PROVE LoggedFirst'
    OBVIOUS
<1> USE DEF Procs, Workers, Dispatchers
<1>1. ASSUME NEW p \in Procs, PostAccepted(p) \/ PostFails(p) PROVE LoggedFirst'
    BY <1>1, PostLogs
<1>2. ASSUME NEW w \in Webhooks, Webhook(w) PROVE LoggedFirst'
    BY <1>1, <1>2, WebhookLogs
<1>3. ASSUME NEW p \in Workers, Deliver(p) PROVE LoggedFirst'
    BY <1>1, <1>3, DeliverLogs
<1>4. ASSUME NEW d \in Dispatchers, Dispatcher(d) PROVE LoggedFirst'
    BY <1>3, <1>4, TickLogs DEF Dispatcher
<1>5. ASSUME NEW p \in Pollers, Poller(p) PROVE LoggedFirst'
    BY <1>3, <1>5, TickLogs DEF Poller
<1>6. CASE Toggle \/ UNCHANGED vars \/ (\E b \in Batches : BatchEnds(b))
            \/ (\E q \in Questions : Age(q))
    <2>1. UNCHANGED <<saved, drafts, posted, job>>
        BY <1>6 DEF Toggle, vars, BatchEnds, Age, replies
    <2> QED BY <2>1 DEF LoggedFirst, Owing
<1>7. CASE Crash
    <2>1. \A q \in Questions : Owing(q)' \subseteq Owing(q)
        BY <1>7 DEF Crash, Owing, IdleJob
    <2> QED BY <1>7, <2>1, OwesNoMore DEF Crash, replies, IInv
<1>8. ASSUME NEW p \in Workers, Uncaught(p) PROVE LoggedFirst'
    <2>1. Moves(p) /\ job'[p].at \in {"idle", "poll"}
        BY <1>8, UncaughtMoves DEF IInv
    <2>2. \A q \in Questions : Owing(q)' \subseteq Owing(q)
        BY <2>1 DEF Owing, Moves
    <2> QED BY <1>8, <2>2, OwesNoMore DEF Uncaught, replies, IInv
<1> QED BY <1>2, <1>4, <1>5, <1>6, <1>7, <1>8 DEF Next

LEMMA LoggedInit == Init => LoggedFirst
<1> SUFFICES ASSUME Init, NEW q \in Questions
             PROVE  drafts[q] + posted[q] + Cardinality(Owing(q)) <= saved[q]
    BY DEF LoggedFirst
<1>1. Owing(q) = {}
    BY DEF Init, Owing, IdleJob
<1> QED
    BY <1>1, FS_EmptySet DEF Init

LEMMA LoggedPosts == IInv /\ LoggedFirst => PostedIsLogged
<1> SUFFICES ASSUME IInv, LoggedFirst, NEW q \in Questions
             PROVE  drafts[q] + posted[q] <= saved[q]
    BY DEF PostedIsLogged
<1>1. Owing(q) \in SUBSET Procs
    BY DEF Owing
<1>2. Cardinality(Owing(q)) \in Nat
    BY <1>1, OwingFinite
<1>3. saved[q] \in Nat /\ drafts[q] \in Nat /\ posted[q] \in Nat
    BY DEF IInv, TypeOK
<1> QED
    BY <1>2, <1>3 DEF LoggedFirst

\* Whatever overlaps, restarts or is notified twice, a draft or a send never
\* outnumbers the messages of its question that the conversation shows.
THEOREM PostsAreLogged == Spec => []PostedIsLogged
BY InitInv, NextInv, NextLogs, LoggedInit, LoggedPosts, PTL DEF Spec

----------------------------------------------------------------------------
(* Activations that do not overlap. *)

\* One activation of each kind at a time, no button, no restart and no error
\* outside the catches of the loops.
Alone ==
    /\ Forced = {} /\ MaxCrashes = 0
    /\ \A a, b \in Cron : a = b
    /\ \A a, b \in Pollers : a = b
    /\ \A a, b \in Webhooks : a = b

Late == {"post", "finish", "fail"}
AtWork == {"compose", "mode", "save"} \cup Late
Holding == {"submit", "mark", "markFailed", "rescue", "finalize"} \cup AtWork

\* The rows each tick works on: the dispatch tick the PENDING ones, the poll tick
\* the DISPATCHED ones.
Due(p) == IF p \in Pollers THEN "DISPATCHED" ELSE "PENDING"

\* What an activity has read is still so: nobody else moves rows of its status.
InLane ==
    /\ \A w \in Webhooks : job[w].at = "idle" \/ (job[w].at = "create" /\ entry[job[w].cur].status = "NONE")
    /\ \A p \in Workers : job[p].at \in Holding => job[p].todo \subseteq InStatus(Due(p))
    /\ \A p \in Workers : job[p].at \in AtWork =>
           job[p].cur \in InStatus(Due(p)) /\ job[p].cur \notin job[p].todo

\* A row that is open, with nobody past storing its message, has had no reply.
Unanswered ==
    /\ \A q \in Questions :
           /\ entry[q].status \notin Final
           /\ \A p \in Workers : job[p].at \in Late => job[p].cur # q
           => saved[q] = 0 /\ posted[q] = 0
    /\ \A p \in Workers : job[p].at = "post" => posted[job[p].cur] = 0

SerialInv == InLane /\ Unanswered /\ OneReply

\* Two workers never have one row in hand.
LEMMA OneWorker ==
    ASSUME Alone, InLane, NEW p \in Workers, NEW r \in Workers,
           job[p].at \in AtWork, job[r].at \in AtWork, job[p].cur = job[r].cur
    PROVE  p = r
<1>1. Due(p) = Due(r)
    BY DEF InLane, InStatus
<1> QED BY <1>1, ActorsDisjoint DEF Due, Alone, Workers, Dispatchers

\* A worker that only moves, with no row past its storing.
LEMMA LaneMove ==
    ASSUME SerialInv, NEW p \in Workers, NEW at, NEW cur, NEW todo,
           GoesTo(p, at, cur, todo),
           job[p].at \notin Late, at # "post", at # "finish",
           at \in Holding => todo \subseteq InStatus(Due(p)),
           at \in AtWork => cur \in InStatus(Due(p)) /\ cur \notin todo,
           UNCHANGED <<entry, saved, posted>>
    PROVE  SerialInv'
<1>1. OneReply'
    BY DEF SerialInv, OneReply
<1>2. \A w \in Webhooks : job'[w] = job[w]
    BY ActorsDisjoint DEF GoesTo, Procs, Workers, Dispatchers
<1>3. \A s : InStatus(s)' = InStatus(s)
    BY DEF InStatus
<1>4. InLane'
    BY <1>2, <1>3 DEF SerialInv, InLane, GoesTo, Procs
<1>5. Unanswered'
    BY DEF SerialInv, Unanswered, GoesTo, Procs
<1> QED BY <1>1, <1>4, <1>5 DEF SerialInv

\* The steps of the dispatch tick and of the poll tick that touch no row.
LEMMA TickMoves ==
    ASSUME Alone, IInv, SerialInv, NEW p \in Workers,
           \/ p \in Cron /\
                \/ DispatchRead(p) \/ DispatchWaits(p) \/ Submit(p) \/ SubmitFails(p)
                \/ StaleRead(p) \/ Rescue(p) \/ RescueEnds(p)
           \/ p \in Pollers /\
                \/ PollRead(p) \/ PollSkips(p) \/ FinalizeRead(p) \/ Finalize(p)
                \/ FinalizeEnds(p) \/ PollEnds(p)
           \/ Compose(p) \/ NoAnswer(p) \/ ReadMode(p)
    PROVE  SerialInv'
<1> p \in Procs /\ TypeOK
    BY DEF Procs, IInv
<1> DEFINE cur == job[p].cur
           todo == job[p].todo
<1>u. UNCHANGED <<entry, saved, posted>>
    BY DEF DispatchRead, DispatchWaits, Submit, SubmitFails, StaleRead, Rescue, RescueEnds,
           PollRead, PollSkips, FinalizeRead, Finalize, FinalizeEnds, PollEnds,
           Compose, NoAnswer, ReadMode, replies
<1>d. p \in Cron => Due(p) = "PENDING"
    BY ActorsDisjoint DEF Due
<1>h. job[p].at \in Holding => todo \subseteq InStatus(Due(p))
    BY DEF SerialInv, InLane
<1>w. job[p].at \in AtWork => cur \in InStatus(Due(p)) /\ cur \notin todo
    BY DEF SerialInv, InLane
<1>1. CASE p \in Cron /\ (DispatchRead(p) \/ StaleRead(p))
    <2>1. job[p].at \notin Late
        BY <1>1 DEF DispatchRead, StaleRead, At, Late
    <2>2. Oldest(InStatus("PENDING"), MaxBatch) \subseteq InStatus("PENDING")
        BY DEF Oldest, InStatus
    <2>3. CASE DispatchRead(p)
        <3>1. GoesTo(p, "submit", cur, Oldest(InStatus("PENDING"), MaxBatch))
            BY <2>3, DispatchGoesTo
        <3> QED BY <1>1, <1>d, <1>u, <2>1, <2>2, <3>1, LaneMove DEF AtWork, Late
    <2>4. CASE StaleRead(p)
        <3>1. GoesTo(p, "rescue", cur, {q \in InStatus("PENDING") : entry[q].age = StaleAge})
            BY <2>4, DispatchGoesTo
        <3>2. {q \in InStatus("PENDING") : entry[q].age = StaleAge} \subseteq InStatus("PENDING")
            OBVIOUS
        <3> QED BY <1>1, <1>d, <1>u, <2>1, <3>1, <3>2, LaneMove DEF AtWork, Late
    <2> QED BY <1>1, <2>3, <2>4
<1>2. CASE DispatchWaits(p) \/ RescueEnds(p) \/ PollEnds(p)
    <2>1. job[p].at \notin Late
        BY <1>2 DEF DispatchWaits, RescueEnds, PollEnds, At, Late
    <2>2. AfterDispatch(p).at \in {"idle", "stale"}
        BY DEF AfterDispatch, IdleJob
    <2>3. \E at \in {"idle", "stale"} : GoesTo(p, at, None, {})
        <3>1. DispatchWaits(p) => GoesTo(p, AfterDispatch(p).at, None, {})
            BY DispatchGoesTo
        <3>2. RescueEnds(p) \/ PollEnds(p) => GoesTo(p, "idle", None, {})
            BY RestGoesTo DEF RescueEnds, PollEnds
        <3> QED BY <1>2, <2>2, <3>1, <3>2
    <2> QED BY <1>u, <2>1, <2>3, LaneMove DEF Holding, AtWork, Late
<1>3. CASE Submit(p) \/ SubmitFails(p)
    <2>1. job[p].at = "submit"
        BY <1>3 DEF Submit, SubmitFails, At
    <2>2. \E at \in {"mark", "markFailed"} : GoesTo(p, at, cur, todo)
        BY <1>3, DispatchGoesTo, GotoGoesTo DEF SubmitFails
    <2> QED BY <1>u, <1>h, <2>1, <2>2, LaneMove DEF Holding, AtWork, Late
<1>4. CASE (p \in Cron /\ Rescue(p)) \/ (p \in Pollers /\ Finalize(p))
    <2>1. job[p].at \in {"rescue", "finalize"}
        BY <1>4 DEF Rescue, Finalize, At
    <2>2. PICK q \in todo, at \in {"mode", "compose", "fail"} : GoesTo(p, at, q, todo \ {q})
        BY <1>4, DispatchGoesTo, PollGoesTo
    <2>3. todo \subseteq InStatus(Due(p))
        BY <1>h, <2>1 DEF Holding
    <2>4. job[p].at \notin Late /\ at \notin {"post", "finish"}
        BY <2>1 DEF Late
    <2>5. q \in InStatus(Due(p)) /\ todo \ {q} \subseteq InStatus(Due(p)) /\ q \notin todo \ {q}
        BY <2>3
    <2> QED BY <1>u, <2>2, <2>4, <2>5, LaneMove
<1>5. CASE PollRead(p) \/ PollSkips(p) \/ FinalizeEnds(p)
    <2>1. job[p].at \notin Late
        BY <1>5 DEF PollRead, PollSkips, FinalizeEnds, At, Late
    <2>2. GoesTo(p, "poll", cur, todo)
        BY <1>5, PollGoesTo, GotoGoesTo DEF FinalizeEnds
    <2> QED BY <1>u, <2>1, <2>2, LaneMove DEF Holding, AtWork, Late
<1>6. CASE p \in Pollers /\ FinalizeRead(p)
    <2>1. job[p].at \notin Late
        BY <1>6 DEF FinalizeRead, At, Late
    <2>2. PICK S \in SUBSET InStatus("DISPATCHED") : GoesTo(p, "finalize", cur, S)
        BY <1>6, PollGoesTo
    <2> QED BY <1>6, <1>u, <2>1, <2>2, LaneMove DEF Due, AtWork, Late
<1>7. CASE Compose(p) \/ NoAnswer(p) \/ ReadMode(p)
    <2>1. job[p].at \in {"compose", "mode"}
        BY <1>7 DEF Compose, NoAnswer, ReadMode, At
    <2>2. PICK at \in {"mode", "fail", "save"} : GoesTo(p, at, cur, todo)
        BY <1>7, PollGoesTo, GotoGoesTo DEF Compose, NoAnswer
    <2> QED BY <1>u, <1>h, <1>w, <2>1, <2>2, LaneMove DEF Holding, AtWork, Late
<1> QED BY <1>1, <1>2, <1>3, <1>4, <1>5, <1>6, <1>7

\* A delivery that throws fails its row: what it has stored or sent, it keeps.
LEMMA ThrowsAlone ==
    ASSUME Alone, IInv, SerialInv, NEW p \in Workers, DeliveryThrows(p)
    PROVE  SerialInv'
<1> DEFINE cur == job[p].cur
           todo == job[p].todo
<1>1. p \in Procs /\ TypeOK /\ job[p].at \in AtWork
    BY DEF Procs, IInv, DeliveryThrows, AtWork, Late
<1>2. GoesTo(p, "fail", cur, todo) /\ UNCHANGED <<entry, saved, posted>>
    BY <1>1, GotoGoesTo DEF DeliveryThrows, replies
<1>3. todo \subseteq InStatus(Due(p)) /\ cur \in InStatus(Due(p)) /\ cur \notin todo
    BY <1>1 DEF SerialInv, InLane, Holding
<1>4. \A w \in Webhooks : job'[w] = job[w]
    BY <1>2, ActorsDisjoint DEF GoesTo, Procs, Workers, Dispatchers
<1>5. \A s : InStatus(s)' = InStatus(s)
    BY <1>2 DEF InStatus
<1>6. InLane'
    BY <1>2, <1>3, <1>4, <1>5 DEF SerialInv, InLane, GoesTo, Procs
<1>7. Unanswered'
    BY <1>2 DEF SerialInv, Unanswered, GoesTo, Procs, Late
<1>8. OneReply'
    BY <1>2 DEF SerialInv, OneReply
<1> QED
    BY <1>6, <1>7, <1>8 DEF SerialInv

\* The message is stored: it is the first of its question.
LEMMA SaveAlone ==
    ASSUME Alone, IInv, SerialInv, NEW p \in Workers, Save(p)
    PROVE  SerialInv'
<1> p \in Procs /\ TypeOK
    BY DEF Procs, IInv
<1> DEFINE c == job[p].cur
<1>1. job[p].at = "save"
    BY DEF Save, At
<1>2. c \in InStatus(Due(p)) /\ c \notin job[p].todo /\ job[p].todo \subseteq InStatus(Due(p))
    BY <1>1 DEF SerialInv, InLane, AtWork, Holding
<1>3. c \in Questions /\ entry[c].status \notin Final
    BY <1>2 DEF InStatus, Due, Final
<1>4. \A r \in Workers : job[r].at \in Late => job[r].cur # c
    BY <1>1, OneWorker DEF SerialInv, AtWork, Late
<1>5. saved[c] = 0 /\ posted[c] = 0
    BY <1>3, <1>4 DEF SerialInv, Unanswered
<1>6. PICK at \in {"finish", "post"} : GoesTo(p, at, c, job[p].todo)
    BY GotoGoesTo DEF Save
<1>7. UNCHANGED <<entry, posted>> /\ saved' = [saved EXCEPT ![c] = @ + 1]
    BY DEF Save
<1>8. \A q \in Questions : saved'[q] = IF q = c THEN 1 ELSE saved[q]
    BY <1>5, <1>7 DEF TypeOK
<1>9. OneReply'
    BY <1>7, <1>8 DEF SerialInv, OneReply
<1>10. \A w \in Webhooks : job'[w] = job[w]
    BY <1>6, ActorsDisjoint DEF GoesTo, Procs, Workers, Dispatchers
<1>11. \A s : InStatus(s)' = InStatus(s)
    BY <1>7 DEF InStatus
<1>12. InLane'
    BY <1>2, <1>6, <1>7, <1>10, <1>11 DEF SerialInv, InLane, GoesTo, Procs
<1>13. Unanswered'
    <2>1. ASSUME NEW q \in Questions, entry'[q].status \notin Final,
                 \A r \in Workers : job'[r].at \in Late => job'[r].cur # q
          PROVE  saved'[q] = 0 /\ posted'[q] = 0
        <3>1. q # c
            BY <1>6, <2>1 DEF GoesTo, Late
        <3>2. \A r \in Workers : job[r].at \in Late => job[r].cur # q
            BY <1>1, <1>6, <2>1 DEF GoesTo, Late, Procs
        <3> QED BY <1>7, <1>8, <2>1, <3>1, <3>2 DEF SerialInv, Unanswered
    <2>2. \A r \in Workers : job'[r].at = "post" => posted'[job'[r].cur] = 0
        BY <1>5, <1>6, <1>7 DEF SerialInv, Unanswered, GoesTo, Procs
    <2> QED BY <2>1, <2>2 DEF Unanswered
<1> QED BY <1>9, <1>12, <1>13 DEF SerialInv

\* The send: the first of its question.
LEMMA PostAlone ==
    ASSUME Alone, IInv, SerialInv, NEW p \in Workers, PostAccepted(p) \/ PostFails(p)
    PROVE  SerialInv'
<1> p \in Procs /\ TypeOK /\ p \notin Webhooks
    BY ActorsDisjoint DEF Procs, IInv, Workers, Dispatchers
<1> DEFINE c == job[p].cur
<1>1. job[p].at = "post"
    BY DEF PostAccepted, PostFails, At
<1>2. c \in InStatus(Due(p)) /\ c \notin job[p].todo /\ job[p].todo \subseteq InStatus(Due(p))
    BY <1>1 DEF SerialInv, InLane, AtWork, Holding, Late
<1>3. c \in Questions
    BY <1>2 DEF InStatus
<1>4. posted[c] = 0
    BY <1>1 DEF SerialInv, Unanswered
<1>5. PICK at \in {"finish", "fail"} : GoesTo(p, at, c, job[p].todo)
    BY PostGoesTo
<1>6. UNCHANGED <<entry, saved>> /\ posted' = [posted EXCEPT ![c] = @ + 1]
    BY DEF PostAccepted, PostFails
<1>7. \A q \in Questions : posted'[q] = IF q = c THEN 1 ELSE posted[q]
    BY <1>4, <1>6 DEF TypeOK
<1>8. OneReply'
    BY <1>6, <1>7 DEF SerialInv, OneReply
<1>9. \A w \in Webhooks : job'[w] = job[w]
    BY <1>5, ActorsDisjoint DEF GoesTo, Procs, Workers, Dispatchers
<1>10. \A s : InStatus(s)' = InStatus(s)
    BY <1>6 DEF InStatus
<1>11. InLane'
    BY <1>2, <1>5, <1>6, <1>9, <1>10 DEF SerialInv, InLane, GoesTo, Procs
<1>12. \A r \in Workers : r # p /\ job[r].at = "post" => job[r].cur # c /\ job[r].cur \in Questions
    BY <1>1, OneWorker DEF SerialInv, AtWork, Late, InLane, InStatus
<1>13. Unanswered'
    <2>1. ASSUME NEW q \in Questions, entry'[q].status \notin Final,
                 \A r \in Workers : job'[r].at \in Late => job'[r].cur # q
          PROVE  saved'[q] = 0 /\ posted'[q] = 0
        <3>1. q # c
            BY <1>5, <2>1 DEF GoesTo, Late
        <3>2. \A r \in Workers : job[r].at \in Late => job[r].cur # q
            BY <1>5, <2>1, <3>1 DEF GoesTo, Procs
        <3> QED BY <1>6, <1>7, <2>1, <3>1, <3>2 DEF SerialInv, Unanswered
    <2>2. \A r \in Workers : job'[r].at = "post" => posted'[job'[r].cur] = 0
        BY <1>5, <1>7, <1>12 DEF SerialInv, Unanswered, GoesTo, Procs
    <2> QED BY <2>1, <2>2 DEF Unanswered
<1> QED BY <1>8, <1>11, <1>13 DEF SerialInv

\* The row in hand is closed: it was open, and nobody else is at work on it.
LEMMA CloseAlone ==
    ASSUME Alone, IInv, SerialInv, NEW p \in Workers, Finish(p) \/ Fail(p)
    PROVE  /\ SerialInv'
           /\ \A q \in Questions : entry'[q].status # entry[q].status =>
                  Rank(entry'[q].status) > Rank(entry[q].status)
<1> p \in Procs /\ TypeOK
    BY DEF Procs, IInv
<1> DEFINE c == job[p].cur
<1>1. job[p].at \in {"finish", "fail"}
    BY DEF Finish, Fail, At
<1>2. c \in InStatus(Due(p)) /\ c \notin job[p].todo /\ job[p].todo \subseteq InStatus(Due(p))
    BY <1>1 DEF SerialInv, InLane, AtWork, Holding, Late
<1>3. c \in Questions /\ entry[c].status \in {"PENDING", "DISPATCHED"}
    BY <1>2 DEF InStatus, Due
<1>4. GoesTo(p, Loop(p), c, job[p].todo)
    BY GotoGoesTo DEF Finish, Fail
<1>5. Loop(p) \in {"rescue", "finalize"}
    BY DEF Loop
<1>6. PICK s \in Final : entry' = [entry EXCEPT ![c].status = s]
    BY DEF Finish, Fail, SetStatus, Final, TypeOK, Job
<1>7. \A q \in Questions : entry'[q].status = IF q = c THEN s ELSE entry[q].status
    BY <1>6 DEF TypeOK, Entry
<1>8. UNCHANGED <<saved, posted>>
    BY DEF Finish, Fail, replies
<1>9. OneReply'
    BY <1>8 DEF SerialInv, OneReply
<1>10. \A w \in Webhooks : job'[w] = job[w]
    BY <1>4, ActorsDisjoint DEF GoesTo, Procs, Workers, Dispatchers
<1>11. InLane'
    <2>1. \A w \in Webhooks : job'[w].at = "idle"
                              \/ (job'[w].at = "create" /\ entry'[job'[w].cur].status = "NONE")
        <3> SUFFICES ASSUME NEW w \in Webhooks, job[w].at # "idle"
                     PROVE  job[w].at = "create" /\ entry'[job[w].cur].status = "NONE"
            BY <1>10
        <3>1. job[w].at = "create" /\ entry[job[w].cur].status = "NONE"
            BY DEF SerialInv, InLane
        <3>2. job[w].cur \in Questions
            BY <3>1 DEF IInv, CurOK, Procs
        <3> QED BY <1>3, <1>7, <3>1, <3>2
    <2>2. \A r \in Workers : r # p /\ job[r].at \in Holding => c \notin job[r].todo
        <3> SUFFICES ASSUME NEW r \in Workers, r # p, job[r].at \in Holding, c \in job[r].todo
                     PROVE  FALSE
            OBVIOUS
        <3>1. c \in InStatus(Due(r))
            BY DEF SerialInv, InLane
        <3>2. Due(r) = Due(p)
            BY <1>2, <3>1 DEF InStatus
        <3> QED BY <3>2, ActorsDisjoint DEF Due, Alone, Workers, Dispatchers
    <2>3. \A r \in Workers : r # p /\ job[r].at \in AtWork => job[r].cur # c
        BY <1>1, OneWorker DEF SerialInv, AtWork, Late
    <2>4. \A r \in Workers : job'[r].at \in Holding => job'[r].todo \subseteq InStatus(Due(r))'
        BY <1>2, <1>4, <1>7, <2>2 DEF SerialInv, InLane, GoesTo, Procs, InStatus, Due
    <2>5. \A r \in Workers : job'[r].at \in AtWork =>
              job'[r].cur \in InStatus(Due(r))' /\ job'[r].cur \notin job'[r].todo
        BY <1>4, <1>5, <1>7, <2>3 DEF SerialInv, InLane, GoesTo, Procs, InStatus, Due, AtWork, Late
    <2> QED BY <2>1, <2>4, <2>5 DEF InLane, Due
<1>12. Unanswered'
    <2>1. ASSUME NEW q \in Questions, entry'[q].status \notin Final,
                 \A r \in Workers : job'[r].at \in Late => job'[r].cur # q
          PROVE  saved'[q] = 0 /\ posted'[q] = 0
        <3>1. q # c /\ entry[q].status \notin Final
            BY <1>6, <1>7, <2>1
        <3>2. \A r \in Workers : job[r].at \in Late => job[r].cur # q
            BY <1>4, <2>1, <3>1 DEF GoesTo, Procs
        <3> QED BY <1>8, <3>1, <3>2 DEF SerialInv, Unanswered
    <2>2. \A r \in Workers : job'[r].at = "post" => posted'[job'[r].cur] = 0
        BY <1>4, <1>5, <1>8 DEF SerialInv, Unanswered, GoesTo, Procs
    <2> QED BY <2>1, <2>2 DEF Unanswered
<1>13. \A q \in Questions : entry'[q].status # entry[q].status =>
           Rank(entry'[q].status) > Rank(entry[q].status)
    BY <1>3, <1>6, <1>7 DEF Rank, Final
<1> QED BY <1>9, <1>11, <1>12, <1>13 DEF SerialInv

\* The rows of a dispatch are still PENDING when it marks them.
LEMMA MarkAlone ==
    ASSUME Alone, IInv, SerialInv, NEW d \in Cron, MarkDispatched(d) \/ MarkFailed(d)
    PROVE  /\ SerialInv'
           /\ \A q \in Questions : entry'[q].status # entry[q].status =>
                  Rank(entry'[q].status) > Rank(entry[q].status)
<1> d \in Procs /\ d \in Workers /\ TypeOK
    BY DEF Procs, IInv, Workers, Dispatchers
<1> DEFINE T == job[d].todo
<1>1. job[d].at \in {"mark", "markFailed"}
    BY DEF MarkDispatched, MarkFailed, At
<1>2. Due(d) = "PENDING"
    BY ActorsDisjoint DEF Due
<1>3. T \subseteq InStatus("PENDING")
    BY <1>1, <1>2 DEF SerialInv, InLane, Holding
<1>4. AfterDispatch(d).at \in {"idle", "stale"}
    BY DEF AfterDispatch, IdleJob
<1>5. PICK at \in {"idle", "stale"} : GoesTo(d, at, None, {})
    BY <1>4, DispatchGoesTo
<1>6. PICK s \in {"DISPATCHED", "FAILED"} :
          \A q \in Questions : entry'[q].status = IF q \in T THEN s ELSE entry[q].status
    <2>1. \A q \in Questions : /\ [entry[q] EXCEPT !.status = "FAILED"].status = "FAILED"
                              /\ [entry[q] EXCEPT !.status = "DISPATCHED",
                                                 !.batch = job[d].batch].status = "DISPATCHED"
        BY DEF TypeOK, Entry
    <2>2. CASE MarkDispatched(d)
        <3> WITNESS "DISPATCHED" \in {"DISPATCHED", "FAILED"}
        <3> QED BY <2>1, <2>2 DEF MarkDispatched
    <2>3. CASE MarkFailed(d)
        <3> WITNESS "FAILED" \in {"DISPATCHED", "FAILED"}
        <3> QED BY <2>1, <2>3 DEF MarkFailed
    <2> QED BY <2>2, <2>3
<1>7. UNCHANGED <<saved, posted>>
    BY DEF MarkDispatched, MarkFailed, replies
<1>8. OneReply'
    BY <1>7 DEF SerialInv, OneReply
<1>9. \A w \in Webhooks : job'[w] = job[w]
    BY <1>5, ActorsDisjoint DEF GoesTo, Procs, Workers, Dispatchers
<1>10. \A r \in Workers : r # d => r \in Pollers /\ Due(r) = "DISPATCHED"
    BY DEF Due, Alone, Workers, Dispatchers
<1>11. InLane'
    <2>1. \A w \in Webhooks : job'[w].at = "idle"
                              \/ (job'[w].at = "create" /\ entry'[job'[w].cur].status = "NONE")
        <3> SUFFICES ASSUME NEW w \in Webhooks, job[w].at # "idle"
                     PROVE  job[w].at = "create" /\ entry'[job[w].cur].status = "NONE"
            BY <1>9
        <3>1. job[w].at = "create" /\ entry[job[w].cur].status = "NONE"
            BY DEF SerialInv, InLane
        <3>2. job[w].cur \in Questions
            BY <3>1 DEF IInv, CurOK, Procs
        <3> QED BY <1>3, <1>6, <3>1, <3>2 DEF InStatus
    <2>2. InStatus("DISPATCHED") \subseteq InStatus("DISPATCHED")'
        BY <1>3, <1>6 DEF InStatus
    <2>3. \A r \in Workers : job'[r].at \in Holding => job'[r].todo \subseteq InStatus(Due(r))'
        BY <1>5, <1>10, <2>2 DEF SerialInv, InLane, GoesTo, Procs
    <2>4. \A r \in Workers : job'[r].at \in AtWork =>
              job'[r].cur \in InStatus(Due(r))' /\ job'[r].cur \notin job'[r].todo
        BY <1>5, <1>10, <2>2 DEF SerialInv, InLane, GoesTo, Procs, AtWork, Late
    <2> QED BY <2>1, <2>3, <2>4 DEF InLane, Due
<1>12. Unanswered'
    <2>1. ASSUME NEW q \in Questions, entry'[q].status \notin Final,
                 \A r \in Workers : job'[r].at \in Late => job'[r].cur # q
          PROVE  saved'[q] = 0 /\ posted'[q] = 0
        <3>1. entry[q].status \notin Final
            BY <1>3, <1>6, <2>1 DEF InStatus, Final
        <3>2. \A r \in Workers : job[r].at \in Late => job[r].cur # q
            BY <1>1, <1>5, <2>1 DEF GoesTo, Procs, Late
        <3> QED BY <1>7, <3>1, <3>2 DEF SerialInv, Unanswered
    <2>2. \A r \in Workers : job'[r].at = "post" => posted'[job'[r].cur] = 0
        BY <1>5, <1>7 DEF SerialInv, Unanswered, GoesTo, Procs
    <2> QED BY <2>1, <2>2 DEF Unanswered
<1>13. \A q \in Questions : entry'[q].status # entry[q].status =>
           Rank(entry'[q].status) > Rank(entry[q].status)
    BY <1>3, <1>6 DEF Rank, InStatus
<1> QED BY <1>8, <1>11, <1>12, <1>13 DEF SerialInv

\* With one webhook the row is still missing when it is created, so the
\* synchronous answer of a collision never happens.
LEMMA WebhookAlone ==
    ASSUME Alone, IInv, SerialInv, NEW w \in Webhooks, Webhook(w)
    PROVE  /\ SerialInv'
           /\ \A q \in Questions : entry'[q].status # entry[q].status =>
                  Rank(entry'[q].status) > Rank(entry[q].status)
<1> w \in Procs /\ TypeOK
    BY DEF Procs, IInv
<1>1. job[w].at = "idle" \/ (job[w].at = "create" /\ entry[job[w].cur].status = "NONE")
    BY DEF SerialInv, InLane
<1>2. \A r \in Workers : r # w
    BY ActorsDisjoint DEF Workers, Dispatchers
<1>3. \A v \in Webhooks : v = w
    BY DEF Alone
<1>4. ASSUME NEW q \in Questions, Notified(w, q)
      PROVE  SerialInv' /\ entry' = entry
    <2> DEFINE j == [IdleJob EXCEPT !.at = "create", !.cur = q]
    <2>1. job' = [job EXCEPT ![w] = j] /\ j.at = "create" /\ j.cur = q
        BY <1>4 DEF Notified, IdleJob
    <2> HIDE DEF j
    <2>2. job'[w].at = "create" /\ job'[w].cur = q /\ \A r \in Procs : r # w => job'[r] = job[r]
        BY <2>1 DEF TypeOK
    <2>3. UNCHANGED <<entry, saved, posted>> /\ entry[q].status = "NONE"
        BY <1>4 DEF Notified, replies
    <2>4. \A s : InStatus(s)' = InStatus(s)
        BY <2>3 DEF InStatus
    <2>5. InLane'
        BY <1>2, <1>3, <2>2, <2>3, <2>4 DEF SerialInv, InLane, Procs
    <2>6. Unanswered' /\ OneReply'
        BY <1>2, <2>2, <2>3 DEF SerialInv, Unanswered, OneReply, Procs
    <2> QED BY <2>3, <2>5, <2>6 DEF SerialInv
<1>5. CASE Create(w)
    <2> DEFINE c == job[w].cur
    <2>1. c \in Questions
        BY <1>5 DEF Create, IInv, CurOK, At
    <2>2. entry[c].status = "NONE"
        BY <1>5 DEF Create
    <2>3. \A q \in Questions : entry'[q].status = IF q = c THEN "PENDING" ELSE entry[q].status
        BY <1>5, <2>1 DEF Create, TypeOK
    <2>4. GoesTo(w, "idle", None, {})
        BY <1>5, RestGoesTo DEF Create
    <2>5. UNCHANGED <<saved, posted>>
        BY <1>5 DEF Create, replies
    <2>6. \A s \in {"PENDING", "DISPATCHED"} : InStatus(s) \subseteq InStatus(s)'
        BY <2>2, <2>3 DEF InStatus
    <2>7. \A r \in Workers : job'[r] = job[r] /\ Due(r) \in {"PENDING", "DISPATCHED"}
        BY <1>2, <2>4 DEF GoesTo, Procs, Due
    <2>8. InLane'
        <3>1. \A v \in Webhooks : job'[v].at = "idle"
            BY <1>3, <2>4 DEF GoesTo
        <3>2. \A r \in Workers : InStatus(Due(r)) \subseteq InStatus(Due(r))'
            BY <2>6, <2>7
        <3>3. \A r \in Workers : job'[r].at \in Holding => job'[r].todo \subseteq InStatus(Due(r))'
            BY <2>7, <3>2 DEF SerialInv, InLane
        <3>4. \A r \in Workers : job'[r].at \in AtWork =>
                  job'[r].cur \in InStatus(Due(r))' /\ job'[r].cur \notin job'[r].todo
            BY <2>7, <3>2 DEF SerialInv, InLane
        <3> QED BY <3>1, <3>3, <3>4 DEF InLane, Due
    <2>9. Unanswered' /\ OneReply'
        BY <2>2, <2>3, <2>5, <2>7 DEF SerialInv, Unanswered, OneReply, Final
    <2>10. Rank("PENDING") > Rank("NONE")
        BY DEF Rank
    <2> QED BY <2>2, <2>3, <2>8, <2>9, <2>10 DEF SerialInv
<1>6. ~CreateCollides(w) /\ ~SyncReply(w) /\ ~SyncReplyFails(w) /\ ~SyncDraft(w) /\ ~SyncSend(w)
      /\ ~PostAccepted(w) /\ ~PostFails(w)
    BY <1>1 DEF CreateCollides, SyncReply, SyncReplyFails, SyncDraft, SyncSend,
                PostAccepted, PostFails, At
<1> QED BY <1>4, <1>5, <1>6 DEF Webhook

LEMMA NextAlone ==
    ASSUME Alone, IInv, SerialInv, [Next]_vars
    PROVE  /\ SerialInv'
           /\ \A q \in Questions : entry'[q].status # entry[q].status =>
                  Rank(entry'[q].status) > Rank(entry[q].status)
<1> DEFINE Forward == \A q \in Questions : entry'[q].status # entry[q].status =>
                          Rank(entry'[q].status) > Rank(entry[q].status)
<1> SUFFICES SerialInv' /\ Forward
    OBVIOUS
<1>1. ASSUME NEW w \in Webhooks, Webhook(w) PROVE SerialInv' /\ Forward
    BY <1>1, WebhookAlone
<1>2. ASSUME NEW p \in Workers, Deliver(p) PROVE SerialInv' /\ Forward
    <2>1. CASE Finish(p) \/ Fail(p)
        BY <2>1, CloseAlone
    <2>2. CASE Compose(p) \/ NoAnswer(p) \/ DeliveryThrows(p) \/ ReadMode(p) \/ Save(p)
                  \/ PostAccepted(p) \/ PostFails(p)
        <3>1. SerialInv'
            BY <2>2, TickMoves, ThrowsAlone, SaveAlone, PostAlone
        <3>2. entry' = entry
            BY <2>2 DEF Compose, NoAnswer, DeliveryThrows, ReadMode, Save, PostAccepted, PostFails
        <3> QED BY <3>1, <3>2
    <2> QED BY <1>2, <2>1, <2>2 DEF Deliver
<1>3. ASSUME NEW d \in Dispatchers, Dispatcher(d) PROVE SerialInv' /\ Forward
    <2>1. d \in Cron /\ d \in Workers
        BY DEF Dispatchers, Alone, Workers
    <2>2. CASE MarkDispatched(d) \/ MarkFailed(d)
        BY <2>1, <2>2, MarkAlone
    <2>3. CASE DispatchRead(d) \/ DispatchWaits(d) \/ Submit(d) \/ SubmitFails(d)
                  \/ StaleRead(d) \/ Rescue(d) \/ RescueEnds(d)
        <3>1. SerialInv'
            BY <2>1, <2>3, TickMoves
        <3>2. entry' = entry
            BY <2>3 DEF DispatchRead, DispatchWaits, Submit, SubmitFails, StaleRead, Rescue, RescueEnds
        <3> QED BY <3>1, <3>2
    <2> QED BY <1>2, <1>3, <2>1, <2>2, <2>3 DEF Dispatcher
<1>4. ASSUME NEW p \in Pollers, Poller(p) PROVE SerialInv' /\ Forward
    <2>1. p \in Workers
        BY DEF Workers
    <2>2. CASE PollRead(p) \/ PollSkips(p) \/ FinalizeRead(p) \/ Finalize(p)
                  \/ FinalizeEnds(p) \/ PollEnds(p)
        <3>1. SerialInv'
            BY <2>1, <2>2, TickMoves
        <3>2. entry' = entry
            BY <2>2 DEF PollRead, PollSkips, FinalizeRead, Finalize, FinalizeEnds, PollEnds
        <3> QED BY <3>1, <3>2
    <2> QED BY <1>2, <1>4, <2>1, <2>2 DEF Poller
<1>5. CASE Toggle \/ UNCHANGED vars \/ (\E b \in Batches : BatchEnds(b))
            \/ (\E q \in Questions : Age(q))
    <2>1. UNCHANGED <<job, saved, posted>>
        BY <1>5 DEF Toggle, vars, BatchEnds, Age, replies
    <2>2. \A q \in Questions : entry'[q].status = entry[q].status
        <3>1. entry' = entry \/ \E q \in Questions : entry' = [entry EXCEPT ![q].age = @ + 1]
            BY <1>5 DEF Toggle, vars, BatchEnds, Age
        <3> QED BY <3>1 DEF IInv, TypeOK, Entry
    <2>3. \A s : InStatus(s)' = InStatus(s)
        BY <2>2 DEF InStatus
    <2>4. InLane'
        <3>1. \A w \in Webhooks : job[w].at = "create" => job[w].cur \in Questions
            BY DEF IInv, CurOK, Procs
        <3> QED BY <2>1, <2>2, <2>3, <3>1 DEF SerialInv, InLane
    <2>5. Unanswered' /\ OneReply'
        BY <2>1, <2>2 DEF SerialInv, Unanswered, OneReply
    <2> QED BY <2>2, <2>4, <2>5 DEF SerialInv
<1>6. ~Crash /\ \A p \in Workers : ~Uncaught(p)
    BY DEF Crash, Uncaught, Alone, IInv, TypeOK
<1> QED BY <1>1, <1>3, <1>4, <1>5, <1>6 DEF Next

LEMMA InitAlone == Init => SerialInv
BY DEF Init, SerialInv, InLane, Unanswered, OneReply, IdleJob, Holding, AtWork, Late, Procs

\* With one activation of each tick at a time, no button and no restart, a question
\* gets one message and at most one send.
THEOREM OneReplyAlone == Alone => (Spec => []OneReply)
<1> SUFFICES ASSUME Alone PROVE Spec => []OneReply
    OBVIOUS
<1>1. SerialInv => OneReply
    BY DEF SerialInv
<1>2. IInv /\ SerialInv /\ [Next]_vars => SerialInv'
    BY NextAlone
<1> QED BY <1>1, <1>2, InitInv, NextInv, InitAlone, PTL DEF Spec

\* Under the same conditions a row only goes forward and stays closed.
THEOREM ForwardAlone == Alone => (Spec => ForwardOnly)
<1> SUFFICES ASSUME Alone PROVE Spec => ForwardOnly
    OBVIOUS
<1>1. IInv /\ SerialInv /\ [Next]_vars => SerialInv'
    BY NextAlone
<1>2. IInv /\ SerialInv /\ [Next]_vars =>
          [\A q \in Questions : entry'[q].status # entry[q].status =>
               Rank(entry'[q].status) > Rank(entry[q].status)]_vars
    BY NextAlone
<1> QED BY <1>1, <1>2, InitInv, NextInv, InitAlone, PTL DEF Spec, ForwardOnly

----------------------------------------------------------------------------
(* One activation of each kind at a time implements QuestionLife.          *)

\* A dispatch tick only rescues.
RescueOK == \A d \in Dispatchers : job[d].as = "FALLBACK"

LifeInv == IInv /\ LoggedFirst /\ SerialInv /\ RescueOK

Lives == [Life!LifeNext]_(Life!lifeVars)

LEMMA NothingLived ==
    ASSUME UNCHANGED replies, \A q \in Questions : entry'[q].status = entry[q].status
    PROVE  Lives
BY DEF Lives, Life!lifeVars, replies

\* A row that nobody has got past storing for has no message, draft or send.
LEMMA UntouchedRow ==
    ASSUME LifeInv, NEW q \in Questions, entry[q].status \notin Final,
           \A r \in Workers : job[r].at \in Late => job[r].cur # q
    PROVE  Life!Untouched(q)
<1>1. saved[q] = 0 /\ posted[q] = 0
    BY DEF LifeInv, SerialInv, Unanswered
<1>2. drafts[q] + posted[q] <= saved[q] /\ drafts[q] \in Nat
    BY LoggedPosts DEF LifeInv, PostedIsLogged, IInv, TypeOK
<1> QED
    BY <1>1, <1>2 DEF Life!Untouched

\* So it is with the rows of a worker that is not past storing.
LEMMA UntouchedByMine ==
    ASSUME Alone, LifeInv, NEW p \in Workers, job[p].at \notin Late, NEW q \in InStatus(Due(p))
    PROVE  q \in Questions /\ Life!Open(q) /\ Life!Untouched(q)
<1>1. q \in Questions /\ entry[q].status \in {"PENDING", "DISPATCHED"}
    BY DEF InStatus, Due
<1>2. ASSUME NEW r \in Workers, job[r].at \in Late, job[r].cur = q PROVE FALSE
    <2>1. q \in InStatus(Due(r))
        BY <1>2 DEF LifeInv, SerialInv, InLane, AtWork
    <2>2. Due(r) = Due(p)
        BY <2>1 DEF InStatus
    <2>3. r = p
        BY <2>2, ActorsDisjoint DEF Due, Alone, Workers, Dispatchers
    <2> QED
        BY <1>2, <2>3
<1>3. Life!Untouched(q)
    BY <1>1, <1>2, UntouchedRow DEF Final
<1> QED
    BY <1>1, <1>3 DEF Life!Open

\* The steps that neither reply nor touch a row.
LEMMA TickLives ==
    ASSUME NEW p \in Workers,
           \/ DispatchRead(p) \/ DispatchWaits(p) \/ Submit(p) \/ SubmitFails(p)
           \/ StaleRead(p) \/ Rescue(p) \/ RescueEnds(p)
           \/ PollRead(p) \/ PollSkips(p) \/ FinalizeRead(p) \/ Finalize(p)
           \/ FinalizeEnds(p) \/ PollEnds(p)
           \/ Compose(p) \/ NoAnswer(p) \/ DeliveryThrows(p) \/ ReadMode(p)
    PROVE  Lives
<1>1. UNCHANGED <<entry, replies>>
    BY DEF DispatchRead, DispatchWaits, Submit, SubmitFails, StaleRead, Rescue, RescueEnds,
           PollRead, PollSkips, FinalizeRead, Finalize, FinalizeEnds, PollEnds,
           Compose, NoAnswer, DeliveryThrows, ReadMode
<1> QED
    BY <1>1, NothingLived

LEMMA RescueStep == ASSUME IInv, RescueOK, [Next]_vars PROVE RescueOK'
<1> SUFFICES ASSUME NEW d \in Dispatchers PROVE job'[d].as = "FALLBACK"
    BY DEF RescueOK
<1>1. job \in [Procs -> Job] /\ job[d] \in Job /\ d \in Procs /\ job[d].as = "FALLBACK"
    BY DEF IInv, TypeOK, RescueOK, Procs, Workers
<1>2. IdleJob.as = "FALLBACK" /\ AfterDispatch(d).as = "FALLBACK"
    BY DEF IdleJob, AfterDispatch
<1>21. ASSUME NEW x, job' = [job EXCEPT ![d].at = x]
      PROVE  job'[d].as = "FALLBACK"
    <2> DEFINE j == [job[d] EXCEPT !.at = x]
    <2>1. j.as = "FALLBACK"
        BY <1>1 DEF Job
    <2>2. job' = [job EXCEPT ![d] = j]
        BY <1>21
    <2> HIDE DEF j
    <2> QED BY <1>1, <2>1, <2>2
<1>22. ASSUME NEW x, NEW y, job' = [job EXCEPT ![d].at = x, ![d].todo = y]
      PROVE  job'[d].as = "FALLBACK"
    <2> DEFINE j == [job[d] EXCEPT !.at = x, !.todo = y]
    <2>1. j.as = "FALLBACK"
        BY <1>1 DEF Job
    <2>2. job' = [job EXCEPT ![d] = j]
        BY <1>22
    <2> HIDE DEF j
    <2> QED BY <1>1, <2>1, <2>2
<1>23. ASSUME NEW x, NEW y, job' = [job EXCEPT ![d].at = x, ![d].batch = y]
      PROVE  job'[d].as = "FALLBACK"
    <2> DEFINE j == [job[d] EXCEPT !.at = x, !.batch = y]
    <2>1. j.as = "FALLBACK"
        BY <1>1 DEF Job
    <2>2. job' = [job EXCEPT ![d] = j]
        BY <1>23
    <2> HIDE DEF j
    <2> QED BY <1>1, <2>1, <2>2
<1>24. ASSUME NEW x, NEW y, job' = [job EXCEPT ![d].at = x, ![d].review = y]
      PROVE  job'[d].as = "FALLBACK"
    <2> DEFINE j == [job[d] EXCEPT !.at = x, !.review = y]
    <2>1. j.as = "FALLBACK"
        BY <1>1 DEF Job
    <2>2. job' = [job EXCEPT ![d] = j]
        BY <1>24
    <2> HIDE DEF j
    <2> QED BY <1>1, <2>1, <2>2
<1>25. ASSUME NEW q, job' = [job EXCEPT ![d].at = "compose", ![d].cur = q,
                                            ![d].todo = @ \ {q}, ![d].as = "FALLBACK"]
      PROVE  job'[d].as = "FALLBACK"
    <2> DEFINE j == [job[d] EXCEPT !.at = "compose", !.cur = q, !.todo = @ \ {q},
                                       !.as = "FALLBACK"]
    <2>1. j.as = "FALLBACK"
        BY <1>1 DEF Job
    <2>2. job' = [job EXCEPT ![d] = j]
        BY <1>25
    <2> HIDE DEF j
    <2> QED BY <1>1, <2>1, <2>2
<1>26. ASSUME NEW x, job' = [job EXCEPT ![d] = AfterPost(d, x)]
       PROVE  job'[d].as = "FALLBACK"
    <2>1. AfterPost(d, x).as = "FALLBACK"
        BY <1>1, <1>2 DEF Job, AfterPost
    <2> QED BY <1>1, <1>26, <2>1
<1>4. ASSUME Dispatcher(d) PROVE job'[d].as = "FALLBACK"
    <2>1. CASE DispatchRead(d) \/ StaleRead(d)
        BY <1>22, <2>1 DEF DispatchRead, StaleRead
    <2>2. CASE Submit(d) \/ ReadMode(d)
        BY <1>23, <1>24, <2>2 DEF Submit, ReadMode
    <2>3. CASE DispatchWaits(d) \/ MarkDispatched(d) \/ MarkFailed(d) \/ RescueEnds(d)
        BY <1>1, <1>2, <2>3 DEF DispatchWaits, MarkDispatched, MarkFailed, RescueEnds, Rest
    <2>4. CASE SubmitFails(d) \/ Compose(d) \/ NoAnswer(d) \/ DeliveryThrows(d) \/ Save(d)
                  \/ Finish(d) \/ Fail(d)
        BY <1>21, <2>4 DEF SubmitFails, Compose, NoAnswer, DeliveryThrows, Save, Finish, Fail, Goto
    <2>5. CASE Rescue(d)
        BY <1>25, <2>5 DEF Rescue
    <2>6. CASE PostAccepted(d) \/ PostFails(d)
        BY <1>26, <2>6 DEF PostAccepted, PostFails
    <2> QED
        BY <1>4, <2>1, <2>2, <2>3, <2>4, <2>5, <2>6 DEF Dispatcher, Deliver
<1>5. ASSUME NEW p \in Procs, p # d, Webhook(p) \/ Dispatcher(p) \/ Poller(p)
      PROVE  job'[d] = job[d]
    <2>1. CASE Webhook(p)
        BY <1>1, <1>5, <2>1 DEF Webhook, Notified, Create, CreateCollides, SyncReply,
            SyncReplyFails, SyncDraft, SyncSend, PostAccepted, PostFails, Goto, Rest
    <2>2. CASE Deliver(p)
        BY <1>1, <1>5, <2>2 DEF Deliver, Compose, NoAnswer, DeliveryThrows, ReadMode, Save,
            PostAccepted, PostFails, Finish, Fail, Goto
    <2>3. CASE Dispatcher(p) /\ ~Deliver(p)
        BY <1>1, <1>5, <2>3 DEF Dispatcher, DispatchRead, DispatchWaits, Submit, SubmitFails,
            MarkDispatched, MarkFailed, StaleRead, Rescue, RescueEnds, Goto, Rest
    <2>4. CASE Poller(p) /\ ~Deliver(p)
        BY <1>1, <1>5, <2>4 DEF Poller, PollRead, PollSkips, FinalizeRead, Finalize,
            FinalizeEnds, PollEnds, Goto, Rest
    <2> QED
        BY <1>5, <2>1, <2>2, <2>3, <2>4
<1>6. CASE Toggle \/ UNCHANGED vars \/ (\E b \in Batches : BatchEnds(b))
           \/ (\E q \in Questions : Age(q)) \/ Crash
    <2>1. job' = job \/ job' = [r \in Procs |-> IdleJob]
        BY <1>6 DEF Toggle, vars, BatchEnds, Age, Crash
    <2> QED
        BY <1>1, <1>2, <2>1
<1>7. d \notin Webhooks \cup Pollers /\ Webhooks \cup Dispatchers \cup Pollers \subseteq Procs
    BY ActorsDisjoint DEF Dispatchers, Procs, Workers
<1>8. ASSUME NEW w \in Webhooks, Webhook(w) PROVE job'[d].as = "FALLBACK"
    BY <1>1, <1>5, <1>7, <1>8
<1>9. ASSUME NEW p \in Pollers, Poller(p) PROVE job'[d].as = "FALLBACK"
    BY <1>1, <1>5, <1>7, <1>9
<1>10. ASSUME NEW r \in Dispatchers, Dispatcher(r) PROVE job'[d].as = "FALLBACK"
    BY <1>1, <1>4, <1>5, <1>7, <1>10
<1>11. ASSUME NEW p \in Workers, Uncaught(p) PROVE job'[d].as = "FALLBACK"
    BY <1>1, <1>11, UncaughtMoves DEF IInv, Moves
<1> QED
    BY <1>6, <1>8, <1>9, <1>10, <1>11 DEF Next

LEMMA SaveLives ==
    ASSUME Alone, LifeInv, NEW p \in Workers, Save(p)
    PROVE  Lives
<1> DEFINE c == job[p].cur
<1>0. /\ job \in [Procs -> Job] /\ p \in Procs /\ job[p].review \in BOOLEAN /\ job[p].at = "save"
      /\ saved \in [Questions -> Nat] /\ drafts \in [Questions -> Nat]
    BY DEF LifeInv, IInv, TypeOK, Procs, Save, At, Job
<1>1. c \in InStatus(Due(p))
    BY <1>0 DEF LifeInv, SerialInv, InLane, AtWork
<1>2. c \in Questions /\ Life!Open(c) /\ Life!Untouched(c)
    BY <1>0, <1>1, UntouchedByMine DEF Late
<1>3. /\ saved' = [saved EXCEPT ![c] = 1]
      /\ drafts' = [drafts EXCEPT ![c] = IF job[p].review THEN 1 ELSE 0]
      /\ UNCHANGED <<entry, posted, answered>>
      /\ job' = [job EXCEPT ![p].at = IF job[p].review THEN "finish" ELSE "post"]
    BY <1>0, <1>2 DEF Save, Life!Untouched, Goto
<1>4. Life!Stored(c, job[p].review)
    BY <1>2, <1>3 DEF Life!Stored
<1> QED
    BY <1>0, <1>2, <1>4 DEF Lives, Life!LifeNext

LEMMA TheOne ==
    ASSUME NEW s \in Nat, NEW d \in Nat, NEW n \in Nat, NEW k \in Nat,
           d + n + k <= s, s <= 1, k # 0
    PROVE  s = 1 /\ d = 0 /\ n = 0
OBVIOUS

\* A reply about to be sent is stored, is no draft and was not tried.
LEMMA AboutToPost ==
    ASSUME LifeInv, NEW p \in Workers, job[p].at = "post"
    PROVE  /\ job[p].cur \in Questions
           /\ saved[job[p].cur] = 1 /\ drafts[job[p].cur] = 0 /\ posted[job[p].cur] = 0
           /\ entry[job[p].cur].status \in {"PENDING", "DISPATCHED"}
<1> DEFINE c == job[p].cur
<1>1. c \in InStatus(Due(p))
    BY DEF LifeInv, SerialInv, InLane, AtWork, Late
<1>2. c \in Questions /\ entry[c].status \in {"PENDING", "DISPATCHED"}
    BY <1>1 DEF InStatus, Due
<1>3. Owing(c) \in SUBSET Procs /\ p \in Owing(c)
    BY DEF Owing, Procs
<1>4. Cardinality(Owing(c)) \in Nat /\ Cardinality(Owing(c)) # 0
    BY <1>3, OwingFinite, FS_EmptySet
<1>5. drafts[c] + posted[c] + Cardinality(Owing(c)) <= saved[c] /\ saved[c] <= 1
    BY <1>2 DEF LifeInv, LoggedFirst, SerialInv, OneReply
<1>6. saved[c] \in Nat /\ drafts[c] \in Nat /\ posted[c] \in Nat
    BY <1>2 DEF LifeInv, IInv, TypeOK
<1>7. saved[c] = 1 /\ drafts[c] = 0 /\ posted[c] = 0
    BY <1>4, <1>5, <1>6, TheOne
<1> QED
    BY <1>2, <1>7

LEMMA PostLives ==
    ASSUME Alone, LifeInv, NEW p \in Workers, PostAccepted(p) \/ PostFails(p)
    PROVE  Lives
<1> DEFINE c == job[p].cur
<1>0. /\ TypeOK /\ p \in Procs /\ p \notin Webhooks /\ job[p].at = "post"
      /\ posted \in [Questions -> Nat]
    BY ActorsDisjoint DEF LifeInv, IInv, TypeOK, Procs, Workers, Dispatchers, PostAccepted,
                          PostFails, At
<1>1. /\ c \in Questions /\ saved[c] = 1 /\ drafts[c] = 0 /\ posted[c] = 0
      /\ Life!Open(c)
    BY <1>0, AboutToPost DEF Life!Open
<1>2. /\ posted' = [posted EXCEPT ![c] = 1]
      /\ answered' \in {answered, answered \cup {c}}
      /\ UNCHANGED <<entry, saved, drafts>>
    BY <1>0, <1>1 DEF PostAccepted, PostFails
<1>3. Life!Sent(c)
    BY <1>1, <1>2 DEF Life!Sent
<1> QED
    BY <1>1, <1>3 DEF Lives, Life!LifeNext

\* The row is closed by what came of its reply.
LEMMA CloseLives ==
    ASSUME Alone, LifeInv, NEW p \in Workers, Finish(p) \/ Fail(p)
    PROVE  Lives
<1> DEFINE c == job[p].cur
<1>0. /\ TypeOK /\ p \in Procs /\ job[p].at \in {"finish", "fail"}
      /\ entry \in [Questions -> Entry]
    BY DEF LifeInv, IInv, TypeOK, Procs, Finish, Fail, At
<1>1. c \in InStatus(Due(p))
    BY <1>0 DEF LifeInv, SerialInv, InLane, AtWork, Late
<1>2. c \in Questions /\ entry[c].status = Due(p) /\ Due(p) \in {"PENDING", "DISPATCHED"}
    BY <1>1 DEF InStatus, Due
<1>3. UNCHANGED replies
    BY DEF Finish, Fail
<1>4. /\ saved[c] <= 1 /\ drafts[c] + posted[c] <= saved[c]
      /\ saved[c] \in Nat /\ drafts[c] \in Nat /\ posted[c] \in Nat
    BY <1>0, <1>2, LoggedPosts DEF LifeInv, SerialInv, OneReply, PostedIsLogged, TypeOK
<1>5. ASSUME NEW s \in Final, entry' = [entry EXCEPT ![c].status = s],
             \/ s = "ANSWERED" /\ Due(p) = "DISPATCHED" /\ (drafts[c] = 1 \/ c \in answered)
             \/ s = "FALLBACK" /\ (drafts[c] = 1 \/ c \in answered)
             \/ s = "FAILED"
      PROVE  Lives
    <2>1. \A q \in Questions : entry'[q].status = IF q = c THEN s ELSE entry[q].status
        BY <1>0, <1>2, <1>5 DEF Entry
    <2>2. Life!Open(c)
        BY <1>2 DEF Life!Open
    <2>3. [q \in Questions |-> entry'[q].status]
            = [[q \in Questions |-> entry[q].status] EXCEPT ![c] = s]
        BY <1>2, <2>1
    <2>4. Life!Closed(c, s)
        BY <1>2, <1>3, <1>5, <2>2, <2>3 DEF Life!Closed, replies
    <2> QED
        BY <1>2, <1>5, <2>4 DEF Lives, Life!LifeNext, Final
<1>6. ASSUME Finish(p) PROVE Lives
    <2>1. drafts[c] > 0 \/ c \in answered
        BY <1>0, <1>6 DEF LifeInv, IInv, FinishOK, Finish
    <2>2. drafts[c] = 1 \/ c \in answered
        <3> HIDE DEF c
        <3> QED
            BY <1>4, <2>1
    <2>3. job[p].as \in {"ANSWERED", "FALLBACK"}
        BY <1>0 DEF TypeOK, Job
    <2>4. job[p].as = "ANSWERED" => Due(p) = "DISPATCHED"
        BY DEF LifeInv, RescueOK, Due, Workers
    <2> QED
        BY <1>5, <1>6, <2>2, <2>3, <2>4 DEF Finish, SetStatus, Final
<1>7. ASSUME Fail(p) PROVE Lives
    BY <1>5, <1>7 DEF Fail, SetStatus, Final
<1> QED
    BY <1>6, <1>7

\* A submission takes its rows on, untouched, or fails them.
LEMMA MarkLives ==
    ASSUME Alone, LifeInv, NEW d \in Cron, MarkDispatched(d) \/ MarkFailed(d)
    PROVE  Lives
<1> DEFINE T == job[d].todo
<1>0. /\ TypeOK /\ d \in Procs /\ d \in Workers /\ job[d].at \in {"mark", "markFailed"}
      /\ Due(d) = "PENDING" /\ entry \in [Questions -> Entry]
    BY ActorsDisjoint
    DEF LifeInv, IInv, TypeOK, Procs, Workers, Dispatchers, Due, MarkDispatched, MarkFailed, At
<1>1. T \subseteq InStatus("PENDING")
    BY <1>0 DEF LifeInv, SerialInv, InLane, Holding
<1>2. \A q \in T : q \in Questions /\ entry[q].status = "PENDING" /\ Life!Untouched(q)
    BY <1>0, <1>1, UntouchedByMine DEF InStatus, Late
<1>3. UNCHANGED replies
    BY DEF MarkDispatched, MarkFailed
<1>4. PICK s \in {"DISPATCHED", "FAILED"} :
          \A q \in Questions : entry'[q].status = IF q \in T THEN s ELSE entry[q].status
    <2>1. \A q \in Questions : /\ [entry[q] EXCEPT !.status = "FAILED"].status = "FAILED"
                              /\ [entry[q] EXCEPT !.status = "DISPATCHED",
                                                 !.batch = job[d].batch].status = "DISPATCHED"
        BY <1>0 DEF Entry
    <2>2. CASE MarkDispatched(d)
        <3> WITNESS "DISPATCHED" \in {"DISPATCHED", "FAILED"}
        <3> QED BY <2>1, <2>2 DEF MarkDispatched
    <2>3. CASE MarkFailed(d)
        <3> WITNESS "FAILED" \in {"DISPATCHED", "FAILED"}
        <3> QED BY <2>1, <2>3 DEF MarkFailed
    <2> QED BY <2>2, <2>3
<1>5. Life!Submitted(T, s)
    <2>1. [q \in Questions |-> entry'[q].status]
            = [q \in Questions |-> IF q \in T THEN s
                                    ELSE [r \in Questions |-> entry[r].status][q]]
        BY <1>4
    <2> QED
        BY <1>2, <1>3, <1>4, <2>1 DEF Life!Submitted, replies
<1> QED
    BY <1>2, <1>5 DEF Lives, Life!LifeNext

\* A notification queues a question that was not in the queue.
LEMMA WebhookLives ==
    ASSUME Alone, LifeInv, NEW w \in Webhooks, Webhook(w)
    PROVE  Lives
<1>0. /\ TypeOK /\ w \in Procs /\ job \in [Procs -> Job] /\ entry \in [Questions -> Entry]
    BY DEF LifeInv, IInv, TypeOK, Procs
<1>1. job[w].at = "idle" \/ (job[w].at = "create" /\ entry[job[w].cur].status = "NONE")
    BY DEF LifeInv, SerialInv, InLane
<1>2. (\E q \in Questions : Notified(w, q)) \/ Create(w)
    BY <1>1 DEF Webhook, CreateCollides, SyncReply, SyncReplyFails, SyncDraft, SyncSend,
                PostAccepted, PostFails, At
<1>3. UNCHANGED replies
    BY <1>2 DEF Notified, Create
<1>4. CASE Create(w)
    <2>0. PICK c \in Questions : c = job[w].cur
        BY <1>0, <1>4 DEF Create, LifeInv, IInv, CurOK, At
    <2>1. entry[c].status = "NONE"
        BY <1>4, <2>0 DEF Create
    <2>2. \A q \in Questions : entry'[q].status = IF q = c THEN "PENDING" ELSE entry[q].status
        BY <1>0, <1>4, <2>0 DEF Create
    <2>3. [q \in Questions |-> entry'[q].status]
            = [[q \in Questions |-> entry[q].status] EXCEPT ![c] = "PENDING"]
        BY <2>1, <2>2
    <2>4. \A r \in Workers : job[r].at \in Late => job[r].cur # c
        BY <2>1 DEF LifeInv, SerialInv, InLane, AtWork, InStatus, Due
    <2>5. Life!Untouched(c)
        BY <2>1, <2>4, UntouchedRow DEF Final
    <2>6. Life!Queued(c)
        BY <1>3, <2>1, <2>3, <2>5 DEF Life!Queued, replies
    <2> QED
        BY <2>6 DEF Lives, Life!LifeNext
<1>5. CASE \E q \in Questions : Notified(w, q)
    BY <1>3, <1>5, NothingLived DEF Notified
<1> QED
    BY <1>2, <1>4, <1>5

LEMMA EnvironmentLives ==
    ASSUME Alone, LifeInv,
           \/ Toggle \/ UNCHANGED vars \/ \E b \in Batches : BatchEnds(b)
           \/ \E q \in Questions : Age(q)
    PROVE  Lives
<1>1. UNCHANGED <<job, replies>>
    BY DEF Toggle, vars, BatchEnds, Age, replies
<1>2. entry' = entry \/ \E q \in Questions : entry' = [entry EXCEPT ![q].age = @ + 1]
    BY DEF Toggle, vars, BatchEnds, Age
<1>3. \A q \in Questions : entry'[q].status = entry[q].status
    BY <1>2 DEF LifeInv, IInv, TypeOK, Entry
<1> QED
    BY <1>1, <1>3, NothingLived

LEMMA LifeStep == Alone /\ LifeInv /\ [Next]_vars => LifeInv' /\ Lives
<1> SUFFICES ASSUME Alone, LifeInv, [Next]_vars PROVE LifeInv' /\ Lives
    OBVIOUS
<1>1. LifeInv'
    BY NextInv, NextLogs, NextAlone, RescueStep DEF LifeInv
<1>2. ASSUME NEW p \in Workers, Deliver(p) PROVE Lives
    BY <1>2, TickLives, SaveLives, PostLives, CloseLives DEF Deliver
<1>3. ASSUME NEW d \in Dispatchers, Dispatcher(d) PROVE Lives
    <2>1. d \in Cron /\ d \in Workers
        BY DEF Dispatchers, Alone, Workers
    <2> QED
        BY <1>2, <1>3, <2>1, TickLives, MarkLives DEF Dispatcher
<1>4. ASSUME NEW p \in Pollers, Poller(p) PROVE Lives
    <2>1. p \in Workers
        BY DEF Workers
    <2> QED
        BY <1>2, <1>4, <2>1, TickLives DEF Poller
<1>5. ~Crash /\ \A p \in Workers : ~Uncaught(p)
    BY DEF Crash, Uncaught, Alone, LifeInv, IInv, TypeOK
<1>6. Lives
    BY <1>3, <1>4, <1>5, WebhookLives, EnvironmentLives DEF Next
<1> QED
    BY <1>1, <1>6

LEMMA LifeStart == Init => LifeInv /\ Life!LifeInit
<1> SUFFICES ASSUME Init PROVE LifeInv /\ Life!LifeInit
    OBVIOUS
<1>1. RescueOK
    BY DEF Init, RescueOK, IdleJob, Procs, Workers
<1>2. Life!LifeInit
    BY DEF Init, Life!LifeInit
<1> QED
    BY <1>1, <1>2, InitInv, LoggedInit, InitAlone DEF LifeInv

\* With one activation of each tick at a time, no button, no restart and no error
\* outside the catches, the queue implements QuestionLife: every question is queued
\* once, gets one message, which is a draft or is sent once, and its row is closed,
\* as replied to only if it was.
THEOREM LivesOnceAlone == Alone => (Spec => LivesOnce)
<1> SUFFICES ASSUME Alone PROVE Spec => LivesOnce
    OBVIOUS
<1>1. LifeInv /\ [Next]_vars => LifeInv'
    BY LifeStep
<1>2. LifeInv /\ [Next]_vars => [Life!LifeNext]_(Life!lifeVars)
    BY LifeStep DEF Lives
<1> QED
    BY <1>1, <1>2, LifeStart, PTL DEF Spec, LivesOnce, Life!LifeSpec
=============================================================================
