------------------------------- MODULE MlReview -------------------------------
(***************************************************************************)
(* The drafts of answers to the questions of one MercadoLibre buyer: the   *)
(* webhook that answers a question or leaves a draft of the answer         *)
(* (processNotificationWithAI), the backfill of unanswered questions, and  *)
(* the panel where operators edit, regenerate, release and discard drafts. *)
(* A draft is a flag and a question id in the metadata of an AI message;   *)
(* everyone reads the metadata, awaits, and writes all of it back.         *)
(***************************************************************************)
EXTENDS Naturals, FiniteSets

CONSTANTS
    Questions,   \* questions of the buyer
    Second,      \* those on publications of the second account
    Messages,    \* AI messages (bounds how many are ever stored)
    Handlers,    \* notifications and backfills that may be in progress at once
    Panels,      \* requests of the panel that may be in progress at once
    None         \* null

ASSUME SecondAccount == Second \subseteq Questions

VARIABLES
    row,       \* the AI messages of the conversation
    newest,    \* the one with the latest timestamp
    handler,   \* notifications and backfills in progress
    panel,     \* requests of the panel in progress
    given,     \* MercadoLibre: the answer of each question
    accepted,  \* MercadoLibre: questions for which it took an answer with a 200
    dropped,   \* history: questions whose draft an operator discarded
    mishaps    \* history: what the code does not guard against

reviewVars == <<row, newest, handler, panel, given, accepted, dropped, mishaps>>

\* What a text says, and who wrote it last.
Authors == {"ai", "edit", "again"}
Replies == [of : Questions, by : Authors]
ASSUME NoneIsNone == None \notin Questions \cup Messages \cup Replies

\* mlQuestionId, pendingReview, and whether mlAccountKey is there
Meta == [question : Questions \cup {None}, pending : BOOLEAN, account : BOOLEAN]
Row == [text : Replies \cup {None}, meta : Meta]
Mishaps == {"crossed", "outdated", "unheard", "rewritten", "astray"}

HandlerStages == {"idle", "next", "ai", "mode", "find", "stamp", "score", "scored", "post",
                  "queued", "deliver"}
Handler == [at : HandlerStages, backfill : BOOLEAN, question : Questions \cup {None},
            mine : Messages \cup {None}, message : Messages \cup {None}, meta : Meta,
            todo : SUBSET Questions]
PanelStages == {"idle", "look", "send", "clear", "cleared", "edit", "regenerate", "sweep"}
Panel == [at : PanelStages, message : Messages \cup {None}, question : Questions \cup {None},
          text : Replies \cup {None}, meta : Meta, todo : SUBSET Messages]

NoMeta == [question |-> None, pending |-> FALSE, account |-> FALSE]
NoHandler == [at |-> "idle", backfill |-> FALSE, question |-> None, mine |-> None,
              message |-> None, meta |-> NoMeta, todo |-> {}]
NoPanel == [at |-> "idle", message |-> None, question |-> None, text |-> None,
            meta |-> NoMeta, todo |-> {}]

ReviewInit ==
    /\ row = [m \in Messages |-> [text |-> None, meta |-> NoMeta]]
    /\ newest = None
    /\ handler = [h \in Handlers |-> NoHandler]
    /\ panel = [p \in Panels |-> NoPanel]
    /\ given = [q \in Questions |-> None]
    /\ accepted = {} /\ dropped = {} /\ mishaps = {}

----------------------------------------------------------------------------
Stored(m) == row[m].text # None
Pending(m) == row[m].meta.pending
Stamp(m) == row[m].meta.question
Stamped(q) == \E m \in Messages : Stamp(m) = q

Records(what, happened) == mishaps' = mishaps \cup (IF happened THEN {what} ELSE {})

\* A notification ends; a backfill goes on with its next question.
HandlerEnds(h) ==
    handler' = [handler EXCEPT ![h] =
        IF @.todo = {} THEN NoHandler
        ELSE [NoHandler EXCEPT !.at = "next", !.backfill = TRUE, !.todo = handler[h].todo]]
HandlerGoes(h, stage) == handler' = [handler EXCEPT ![h].at = stage]
PanelEnds(p) == panel' = [panel EXCEPT ![p] = NoPanel]

\* POST /answers: with the token of another account MercadoLibre answers 200
\* and the text lands nowhere (mercadolibre.service.ts 172-177).
Taken(q, t, ownToken) ==
    /\ given[q] = None
    /\ accepted' = accepted \cup {q}
    /\ given' = IF ownToken THEN [given EXCEPT ![q] = t] ELSE given

----------------------------------------------------------------------------
(* processNotificationWithAI and the loop of the backfill *)

\* The question is fetched and is unanswered.
QuestionArrives(h, q) ==
    /\ handler[h].at = "idle" /\ given[q] = None
    /\ handler' = [handler EXCEPT ![h] = [NoHandler EXCEPT !.at = "ai", !.question = q]]
    /\ UNCHANGED <<row, newest, panel, given, accepted, dropped, mishaps>>

\* findBackfillCandidates: unanswered, and no AI message has its id.
BackfillLists(h) ==
    LET needs == {q \in Questions : given[q] = None /\ ~Stamped(q)} IN
    /\ handler[h].at = "idle" /\ needs # {}
    /\ handler' = [handler EXCEPT ![h] =
           [NoHandler EXCEPT !.at = "next", !.backfill = TRUE, !.todo = needs]]
    /\ UNCHANGED <<row, newest, panel, given, accepted, dropped, mishaps>>

BackfillNext(h, q) ==
    /\ handler[h].at = "next" /\ q \in handler[h].todo
    /\ handler' = [handler EXCEPT ![h].at = "ai", ![h].question = q, ![h].todo = @ \ {q}]
    /\ UNCHANGED <<row, newest, panel, given, accepted, dropped, mishaps>>

\* An error, or a restart: the rest of the work is lost with it.
HandlerFails(h) ==
    /\ handler[h].at # "idle"
    /\ \/ handler[h].at # "next" /\ HandlerEnds(h)
       \/ handler' = [handler EXCEPT ![h] = NoHandler]
    /\ UNCHANGED <<row, newest, panel, given, accepted, dropped, mishaps>>

NewRow(m, q, meta) ==
    /\ ~Stored(m)
    /\ row' = [row EXCEPT ![m] = [text |-> [of |-> q, by |-> "ai"], meta |-> meta]]
    /\ newest' = m

\* handleMercadoLibreMessage: the reply, canned or from Claude, is stored.
ReplyStored(h, m) ==
    /\ handler[h].at = "ai"
    /\ NewRow(m, handler[h].question, NoMeta)
    /\ handler' = [handler EXCEPT ![h].at = "mode", ![h].mine = m]
    /\ UNCHANGED <<panel, given, accepted, dropped, mishaps>>

\* Batch mode: the question goes to MlBatchQueue and the handler has no reply.
\* A backfill counts it as failed and goes on (HandlerFails); the queue then
\* delivers as it does for a notification.
ReplyQueued(h) ==
    /\ handler[h].at = "ai" /\ ~handler[h].backfill
    /\ HandlerGoes(h, "queued")
    /\ UNCHANGED <<row, newest, panel, given, accepted, dropped, mishaps>>

\* deliverAnswer in review mode: message and flag in one statement, no account.
BatchDrafts(h, m) ==
    /\ handler[h].at = "queued"
    /\ NewRow(m, handler[h].question,
              [question |-> handler[h].question, pending |-> TRUE, account |-> FALSE])
    /\ HandlerEnds(h)
    /\ UNCHANGED <<panel, given, accepted, dropped, mishaps>>

\* Otherwise it is stored without a flag, and sent.
BatchStores(h, m) ==
    /\ handler[h].at = "queued"
    /\ NewRow(m, handler[h].question, NoMeta)
    /\ HandlerGoes(h, "deliver")
    /\ UNCHANGED <<panel, given, accepted, dropped, mishaps>>

\* The token is that of the conversation's account, the first one if it has none;
\* a question that came later may have set it to another than this question's.
BatchDelivers(h) ==
    LET q == handler[h].question IN
    /\ handler[h].at = "deliver"
    /\ \E own \in BOOLEAN :
          /\ Second = {} => own
          /\ Taken(q, [of |-> q, by |-> "ai"], own)
          /\ Records("astray", ~own)
    /\ HandlerEnds(h)
    /\ UNCHANGED <<row, newest, panel, dropped>>

\* The switches (the Configuration row, ML_QA_REVIEW_MODE, ML_AUTO_SEND_DISABLED)
\* are read here, once, and may have any value; the closed mode may pass them by
\* (forceAutoSend) and leaves its score.  The backfill never sends.
ModeReview(h) ==
    /\ handler[h].at = "mode"
    /\ HandlerGoes(h, "find")
    /\ UNCHANGED <<row, newest, panel, given, accepted, dropped, mishaps>>

ModeSend(h) ==
    /\ handler[h].at = "mode" /\ ~handler[h].backfill
    /\ \E stage \in {"score", "post"} : HandlerGoes(h, stage)
    /\ UNCHANGED <<row, newest, panel, given, accepted, dropped, mishaps>>

BackfillKeeps(h) ==
    /\ handler[h].at = "mode" /\ handler[h].backfill
    /\ HandlerEnds(h)
    /\ UNCHANGED <<row, newest, panel, given, accepted, dropped, mishaps>>

\* markLatestDraftPending and markLatestAutoSentConstrained: the newest AI message
FindsNewest(h) ==
    /\ handler[h].at \in {"find", "score"}
    /\ handler' = [handler EXCEPT ![h].at = IF @ = "find" THEN "stamp" ELSE "scored",
                                  ![h].message = newest,
                                  ![h].meta = IF handler[h].at = "find" THEN NoMeta
                                              ELSE row[newest].meta]
    /\ UNCHANGED <<row, newest, panel, given, accepted, dropped, mishaps>>

\* The account of a notification may be unknown.
StampsDraft(h) ==
    LET m == handler[h].message  q == handler[h].question IN
    /\ handler[h].at = "stamp"
    /\ \E known \in BOOLEAN :
          /\ handler[h].backfill => known
          /\ row' = [row EXCEPT ![m].meta =
                       [question |-> q, pending |-> TRUE, account |-> known]]
    /\ Records("crossed", m # handler[h].mine)
    /\ HandlerEnds(h)
    /\ UNCHANGED <<newest, panel, given, accepted, dropped>>

\* The score of the closed mode, with the metadata as it was read.
StampsScore(h) ==
    LET m == handler[h].message IN
    /\ handler[h].at = "scored"
    /\ \E known \in {TRUE, handler[h].meta.account} :
          row' = [row EXCEPT ![m].meta = [handler[h].meta EXCEPT !.account = known]]
    /\ Records("outdated", row[m].meta # handler[h].meta)
    /\ HandlerGoes(h, "post")
    /\ UNCHANGED <<newest, panel, given, accepted, dropped>>

\* answerQuestion without an account: the token of the first one
PostsReply(h) ==
    LET q == handler[h].question IN
    /\ handler[h].at = "post"
    /\ Taken(q, [of |-> q, by |-> "ai"], q \notin Second)
    /\ Records("astray", q \in Second)
    /\ HandlerEnds(h)
    /\ UNCHANGED <<row, newest, panel, dropped>>

----------------------------------------------------------------------------
(* The panel *)

\* The list of drafts on the screen; it is reloaded every minute.
Looks(p, m) ==
    /\ panel[p].at = "idle" /\ Pending(m)
    /\ panel' = [panel EXCEPT ![p] = [NoPanel EXCEPT !.at = "look", !.message = m,
                                       !.question = Stamp(m), !.text = row[m].text]]
    /\ UNCHANGED <<row, newest, handler, given, accepted, dropped, mishaps>>

\* A request fails, is refused, or dies with the process.
PanelFails(p) ==
    /\ panel[p].at # "idle"
    /\ Records("unheard", panel[p].at \in {"clear", "cleared"} /\ panel[p].text # None)
    /\ PanelEnds(p)
    /\ UNCHANGED <<row, newest, handler, given, accepted, dropped>>

Edited(t) == [t EXCEPT !.by = "edit"]

\* release: the draft is looked up again; the text is the one on the screen.
Releases(p) ==
    LET m == panel[p].message IN
    /\ panel[p].at = "look" /\ Pending(m) /\ Stamp(m) # None
    /\ \E t \in {panel[p].text, Edited(panel[p].text)} :
          panel' = [panel EXCEPT ![p].at = "send", ![p].text = t, ![p].meta = row[m].meta]
    /\ UNCHANGED <<row, newest, handler, given, accepted, dropped, mishaps>>

\* Mutant: what MercadoLibre says is not looked at.
ReleaseSendsBlindly(p) ==
    LET q == panel[p].meta.question
        own == q \notin Second \/ panel[p].meta.account IN
    /\ panel[p].at = "send"
    /\ Taken(q, panel[p].text, own) \/ UNCHANGED <<given, accepted>>
    /\ panel' = [panel EXCEPT ![p].at = "clear"]
    /\ Records("astray", ~own)
    /\ UNCHANGED <<row, newest, handler, dropped>>

\* Mutant: the stored text is sent, not the one on the operator's screen.
ReleaseSendsStored(p) ==
    LET q == panel[p].meta.question IN
    /\ panel[p].at = "send"
    /\ Taken(q, row[panel[p].message].text, TRUE)
    /\ panel' = [panel EXCEPT ![p].at = "clear"]
    /\ UNCHANGED <<row, newest, handler, dropped, mishaps>>

\* The answer goes to the question of the row; the response may not come back.
ReleaseSends(p) ==
    LET q == panel[p].meta.question
        own == q \notin Second \/ panel[p].meta.account IN
    /\ panel[p].at = "send"
    /\ Taken(q, panel[p].text, own)
    /\ \E heard \in BOOLEAN :
          /\ mishaps' = mishaps \cup (IF heard THEN {} ELSE {"unheard"})
                                \cup (IF own THEN {} ELSE {"astray"})
          /\ IF heard THEN panel' = [panel EXCEPT ![p].at = "clear"] ELSE PanelEnds(p)
    /\ UNCHANGED <<row, newest, handler, dropped>>

Discards(p) ==
    /\ panel[p].at = "look"
    /\ panel' = [panel EXCEPT ![p].at = "clear", ![p].text = None]
    /\ dropped' = dropped \cup {panel[p].question}
    /\ UNCHANGED <<row, newest, handler, given, accepted, mishaps>>

\* bulkDiscardPendingReview: the rows are listed first and cleared one by one.
DiscardsAll(p) ==
    LET old == {m \in Messages : Pending(m)} IN
    /\ panel[p].at = "idle" /\ old # {}
    /\ panel' = [panel EXCEPT ![p] = [NoPanel EXCEPT !.at = "sweep", !.todo = old]]
    /\ dropped' = dropped \cup {Stamp(m) : m \in old}
    /\ UNCHANGED <<row, newest, handler, given, accepted, mishaps>>

DiscardsNext(p, m) ==
    /\ panel[p].at = "sweep" /\ m \in panel[p].todo
    /\ panel' = [panel EXCEPT ![p].at = "clear", ![p].message = m, ![p].todo = @ \ {m}]
    /\ UNCHANGED <<row, newest, handler, given, accepted, dropped, mishaps>>

\* clearPendingReview, in two statements
ClearReads(p) ==
    /\ panel[p].at = "clear"
    /\ panel' = [panel EXCEPT ![p].at = "cleared", ![p].meta = row[panel[p].message].meta]
    /\ UNCHANGED <<row, newest, handler, given, accepted, dropped, mishaps>>

Outdated(p) == row[panel[p].message].meta # panel[p].meta

\* Mutant: a released text does not replace the content of the draft.
ClearWritesFlagOnly(p) ==
    LET m == panel[p].message IN
    /\ panel[p].at = "cleared"
    /\ row' = [row EXCEPT ![m].meta = [panel[p].meta EXCEPT !.pending = FALSE]]
    /\ Records("outdated", Outdated(p))
    /\ IF panel[p].todo = {} THEN PanelEnds(p)
       ELSE panel' = [panel EXCEPT ![p] = [NoPanel EXCEPT !.at = "sweep", !.todo = panel[p].todo]]
    /\ UNCHANGED <<newest, handler, given, accepted, dropped>>

ClearWrites(p) ==
    LET m == panel[p].message  t == panel[p].text IN
    /\ panel[p].at = "cleared"
    /\ row' = [row EXCEPT ![m] = [text |-> IF t = None THEN @.text ELSE t,
                                   meta |-> [panel[p].meta EXCEPT !.pending = FALSE]]]
    /\ Records("outdated", Outdated(p))
    /\ IF panel[p].todo = {} THEN PanelEnds(p)
       ELSE panel' = [panel EXCEPT ![p] = [NoPanel EXCEPT !.at = "sweep", !.todo = panel[p].todo]]
    /\ UNCHANGED <<newest, handler, given, accepted, dropped>>

\* updateDraftText
AutosaveReads(p) ==
    /\ panel[p].at = "look" /\ Pending(panel[p].message)
    /\ panel' = [panel EXCEPT ![p].at = "edit", ![p].text = Edited(@), ![p].meta = row[panel[p].message].meta]
    /\ UNCHANGED <<row, newest, handler, given, accepted, dropped, mishaps>>

AutosaveWrites(p) ==
    /\ panel[p].at = "edit"
    /\ row' = [row EXCEPT ![panel[p].message] = [text |-> panel[p].text, meta |-> panel[p].meta]]
    /\ Records("outdated", Outdated(p))
    /\ PanelEnds(p)
    /\ UNCHANGED <<newest, handler, given, accepted, dropped>>

\* regenerateDraft: any AI message, pending or not
RegenerateReads(p) ==
    /\ panel[p].at = "look"
    /\ panel' = [panel EXCEPT ![p].at = "regenerate", ![p].meta = row[panel[p].message].meta]
    /\ UNCHANGED <<row, newest, handler, given, accepted, dropped, mishaps>>

\* Mutant: the latest question of the buyer, whichever the draft is for.
RegeneratesLatest(p) ==
    LET m == panel[p].message IN
    /\ panel[p].at = "regenerate"
    /\ \E q \in Questions :
          row' = [row EXCEPT ![m] = [text |-> [of |-> q, by |-> "again"], meta |-> panel[p].meta]]
    /\ newest' = m
    /\ Records("outdated", Outdated(p))
    /\ PanelEnds(p)
    /\ UNCHANGED <<handler, given, accepted, dropped>>

\* Mutant: a regenerated draft is pending, whatever it was.
RegeneratesPending(p) ==
    LET m == panel[p].message IN
    /\ panel[p].at = "regenerate"
    /\ row' = [row EXCEPT ![m].meta = [panel[p].meta EXCEPT !.pending = TRUE]]
    /\ newest' = m
    /\ Records("outdated", Outdated(p))
    /\ PanelEnds(p)
    /\ UNCHANGED <<handler, given, accepted, dropped>>

\* Seconds later the text is replaced, and the message becomes the newest.  The
\* question is the one of the metadata, or failing that the latest of the buyer.
RegenerateWrites(p) ==
    LET m == panel[p].message IN
    /\ panel[p].at = "regenerate"
    /\ \E q \in Questions :
          /\ panel[p].meta.question \in {q, None}
          /\ row' = [row EXCEPT ![m] = [text |-> [of |-> q, by |-> "again"],
                                         meta |-> panel[p].meta]]
    /\ newest' = m
    /\ mishaps' = mishaps \cup (IF Outdated(p) THEN {"outdated"} ELSE {})
                          \cup (IF Pending(m) THEN {} ELSE {"rewritten"})
    /\ PanelEnds(p)
    /\ UNCHANGED <<handler, given, accepted, dropped>>

----------------------------------------------------------------------------
ReviewNext ==
    \/ \E h \in Handlers, q \in Questions : QuestionArrives(h, q) \/ BackfillNext(h, q)
    \/ \E h \in Handlers, m \in Messages :
          ReplyStored(h, m) \/ BatchDrafts(h, m) \/ BatchStores(h, m)
    \/ \E h \in Handlers :
          \/ BackfillLists(h) \/ HandlerFails(h) \/ ReplyQueued(h) \/ BatchDelivers(h)
          \/ ModeReview(h) \/ ModeSend(h) \/ BackfillKeeps(h)
          \/ FindsNewest(h) \/ StampsDraft(h) \/ StampsScore(h) \/ PostsReply(h)
    \/ \E p \in Panels, m \in Messages : Looks(p, m) \/ DiscardsNext(p, m)
    \/ \E p \in Panels :
          \/ PanelFails(p) \/ Releases(p) \/ ReleaseSends(p)
          \/ Discards(p) \/ DiscardsAll(p) \/ ClearReads(p) \/ ClearWrites(p)
          \/ AutosaveReads(p) \/ AutosaveWrites(p) \/ RegenerateReads(p) \/ RegenerateWrites(p)
ReviewSpec == ReviewInit /\ [][ReviewNext]_reviewVars

----------------------------------------------------------------------------
\* A handler in one of these stages has a reply that is in the log.
Replied == {"mode", "find", "stamp", "score", "scored", "post"}

ReviewTypeOK ==
    /\ row \in [Messages -> Row]
    /\ newest \in Messages \cup {None}
    /\ handler \in [Handlers -> Handler]
    /\ panel \in [Panels -> Panel]
    /\ given \in [Questions -> Replies \cup {None}]
    /\ accepted \subseteq Questions
    /\ dropped \subseteq Questions
    /\ mishaps \subseteq Mishaps
    /\ \A h \in Handlers : handler[h].at \in Replied =>
          Stored(handler[h].mine) /\ newest # None

\* The draft of a question carries the text written for it (markLatestDraftPending
\* marks "the freshly-saved AI message"), unless a mark met a newer message, or
\* metadata was written over newer metadata.
DraftFitsQuestion ==
    mishaps \cap {"crossed", "outdated"} = {} =>
        \A m \in Messages : Pending(m) => row[m].text.of = Stamp(m)

\* The backfill passes over every question whose id is on an AI message ("the
\* operator just hasn't released yet"): one that is still unanswered must then
\* have its draft in the panel, unless an operator dropped it, or the answer
\* went to another account.
NothingSlips ==
    mishaps = {} =>
        \A q \in Questions : given[q] = None /\ Stamped(q) =>
            \/ \E m \in Messages : Pending(m) /\ Stamp(m) = q
            \/ q \in dropped

Clearing(q) == \E p \in Panels : panel[p].at \in {"clear", "cleared"} /\ panel[p].question = q

\* "the conversation log shows what actually went out" (release)
LogShowsAnswer ==
    mishaps = {} =>
        \A q \in Questions : given[q] # None =>
            (\E m \in Messages : row[m].text = given[q]) \/ Clearing(q)

\* A draft that was released or discarded is back in the panel only if a handler
\* marks it, or by a write of metadata read before (updateDraftText "stays
\* pendingReview", regenerateDraft).
ReleasedStaysOut ==
    [][\A m \in Messages :
          Stamp(m) # None /\ ~Pending(m) /\ Pending(m)' =>
              \/ "outdated" \in mishaps'
              \/ \E h \in Handlers : handler[h].at = "stamp" /\ handler[h].message = m]_reviewVars

\* In flight: released by an operator, or sent by the automatic mode.
Approvals ==
    {<<panel[p].question, panel[p].text>> : p \in {x \in Panels : panel[x].at = "send"}}
    \cup {<<handler[h].question, [of |-> handler[h].question, by |-> "ai"]>> :
            h \in {x \in Handlers : handler[x].at \in {"score", "scored", "post", "deliver"}}}

Promise == INSTANCE Approval WITH Unanswered <- None, approved <- Approvals, mixed <- "crossed" \in mishaps

\* The buyer reads what was approved for the question, once.
BuyerReadsApproved == Promise!ApprovalSpec

\* An answer that MercadoLibre took is on the question ("we authenticate with
\* the right token", answerQuestion).
AcceptedIsGiven == \A q \in accepted : given[q] # None
=============================================================================
