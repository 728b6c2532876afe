# Servifibras: TLA+ models and proofs

Servifibras is a NestJS backend with a Next.js panel for a resin and fibreglass shop. It
answers customers on WhatsApp, MercadoLibre, Facebook, Instagram and the web shop with Claude,
hands conversations over to people, and follows the orders through the daily dispatch. Nearly
everything it does is a chain of `await`s over single Prisma statements: there is hardly a
transaction or a lock in the code, and what is hard in it is what another handler, cron tick,
operator or restart does *between* two statements. The models keep that structure: one action per
statement (or per group of statements nothing can observe apart), the local variables of each
activity as state, and every interleaving explored.

Paths below are relative to `src/backend/src/` unless they start with `src/`.

## 1. Inventory

### Components

| Component | Where | State it keeps | Operations | Status |
|---|---|---|---|---|
| MercadoLibre batch queue | `adapters/ai/ml-batch-queue.*`, part of `conversation-handler` and the ML webhook | rows of `ml_batch_queue_entries`, AI messages with `pendingReview` | `enqueue`, `dispatchPending`, `pollAndFinalize`, `finalizeBatch`, `deliverAnswer`, `fallbackStalePending`, two cron ticks, two buttons | **modelled**, `MlBatchQueue`, `QuestionLife` |
| WhatsApp connection | `adapters/whatsapp-qr/whatsapp-qr.service.ts` and its controller | `status`, `sock`, `reconnectTimer`, `transientSince`, the session directory | `start`, `disconnect`, reconnect timer, watchdog and hard reset, `onConnectionUpdate` | **partly**, `WhatsappLink` |
| WhatsApp conversations | `adapters/conversations/conversation-handler.service.ts` | `Conversation`, `Message`, `pendingSendTimers` | `handleWhatsAppMessage`, media inbound, phone mirror, close on ack, debounced send | **partly**, `ConversationDesk`, `Dialogue` |
| Human handoff | `adapters/lead-detection/human-handoff.service.ts`, its cron | `needsHumanAttention`, `status`, `assignedTo`, `escalatedAt` | `escalate`, two reconciliation passes | **modelled**, `ConversationDesk` |
| Operators' panel | `adapters/admin/conversation-management.service.ts`, its controller | the same rows | manual message, assign, takeover, transfer, status, AI pause | **partly**, `ConversationDesk` |
| Daily logistics rows | `adapters/admin/logistica-armado.service.ts`, its controller | `LogisticaArmado`, the state of a `PrfvPlaca` | mark, advance, ticks, bulk, courier, section, note, dispatch, archive, revert | **partly**, `LogisticaArmado`, `RowLife` |
| ML drafts and QA panel | `mercadolibre.controller`, `mercadolibre-qa.*` | message metadata (`pendingReview`, `mlQuestionId`, `mlAccountKey`) | webhook, review and automatic mode, backfill, autosave, regenerate, release, discard | **partly**, `MlReview`, `Approval` |
| Sessions | `adapters/auth`, `guards/auth.guard.ts`, `user-management`, `src/frontend/lib/api/client.ts` | `RefreshToken` families, lockout counters, last activity, the tokens in localStorage | login, rotate, logout, password change, idle guard, the tabs' refresh | **partly**, `RefreshTokens`, `Sessions`, `LoginGate`, `Lockout` |
| Leads | `adapters/lead-detection`, `lead-management` | `Lead`, `Contact.funnelStage` | automatic leads, panel edits, follow-up cron, stage writers | **partly**, `LeadFunnel` |
| PRFV plates, Claude budget, OAuth refresh, exchange rate, orders and TiendaNube sync | `adapters/admin`, `ai`, `oauth`, `pricing` | one row or one cached value each | see `PROJECT.json` | planned |
| Claude prompts, detectors, scorer | `claude.service.ts`, keyword and Claude detectors | none that others read | generate or classify text | abstracted: a message of a model carries its verdicts, Claude answers or fails |
| Reports, analytics, PDF and Excel builders, notifications, frontend | | none | pure reads, layout, fire-and-forget events | not modelled |

### How they interact

* A **MercadoLibre question** comes by webhook to `handleMercadoLibreMessage`. With the batch mode
  on it is *enqueued*; the dispatch tick submits the pending rows as one Anthropic batch, the poll
  tick delivers the results. A row that fails to enqueue, or waits too long, is answered
  synchronously. Either way the answer is stored as a message, and then posted to MercadoLibre or,
  in review mode, left as a draft.
* A **WhatsApp message** comes by the Baileys socket (`WhatsappLink`) to `onMessagesUpsert`, which
  calls the pipeline (`ConversationDesk`). The pipeline finds or creates the conversation, stores
  the message, may escalate to a person, and returns a reply that a 4 s timer sends through
  whatever socket is there by then. Baileys echoes what we send, and redelivers old messages.
* **Operators** write in the same `Conversation` rows from the panel or from the phone, and an
  hourly cron repairs flags that were left up.
* A **draft** is a flag and a question id in the metadata of an AI message (`MlReview`). The batch
  queue and the webhook set it, an operator releases it, which posts the answer to MercadoLibre.
* Every **request of the panel** passes `AuthGuard`, which measures idleness; a 401 makes the
  browser rotate its refresh token, which the tabs of one browser share through localStorage.
* **Inbound messages**, lead edits and orders each launch a handler nobody awaits that writes the
  funnel stage of the contact; the follow-up cron nudges contacts whose quote was not answered.
* **Orders and plates** become rows of the daily panel; each click reads the record of the row and
  writes it back in another statement; a dispatch also changes the placa behind the row.

### What makes each part right, and what makes it hard

* **Batch queue**: no question is lost, or answered twice; a row points at a batch that has it; a
  closed row left an answer or a draft. Hard: ticks that overlap with themselves and with the
  buttons (`@Cron` does not wait for the previous run), a restart between the submission and the
  marking, a response lost after MercadoLibre took the answer.
* **Connection**: never two live sockets (each would feed the pipeline), the status tells the
  truth, and a lost connection returns by itself. Hard: `start` awaits the session before it sets
  `this.sock`; events of an old socket reach handlers that do not look whose they are; two timers
  and two buttons act in between.
* **Desk**: nobody waits without being seen (flag and status agree), nothing reaches a customer
  that the log does not show, a duplicate is stored once, the last reply wins, an attended
  conversation leaves the queue. Hard: the pipeline reads the row, asks Claude for seconds, and
  writes by id; the reconciliation writes rows it read before.
* **Logistics row**: nothing is dispatched with items missing; the ticks that serve as evidence
  stay; a revert loses nothing administrative; placa and row agree. Hard: three paths to LISTO,
  and read-decide-write on every click.

* **Drafts**: what a buyer reads was approved for that very question; a draft carries the text of
  its question; a released or discarded draft stays out; no question is both passed over by the
  backfill and absent from the panel. Hard: everybody reads the metadata, awaits, and writes all of
  it back; the flag goes to *the newest* AI message of the buyer.
* **Sessions**: a family of tokens has one end, a revoked family stays so, a password change ends
  what came before it, the browser is left with the usable token; locks hold and come when they
  must. Hard: read, then issue, then revoke, without a transaction; two tabs; lost answers.
* **Leads**: one open automatic lead, a bounded number of nudges, a buyer shown as a buyer. Hard:
  candidates are read once and nudged one by one, handlers of one contact overlap.

`PROJECT.json` lists every hazard at its line with the properties aimed at it; a hazard no property
covers has a note.

## 2. Modules

| Module | Models | Implements | Proofs | TLC |
|---|---|---|---|---|
| `MlBatchQueue` | the queue, its ticks, the webhook that feeds it, Anthropic and MercadoLibre as environment | `QuestionLife` | `MlBatchQueue_proofs` | `MCMlBatchQueue` |
| `WhatsappLink` | one connection and its sockets | | `WhatsappLink_proofs` | `MCWhatsappLink` |
| `ConversationDesk` | the conversations of one customer with everybody who writes in them | `Dialogue` | `ConversationDesk_proofs` | `MCConversationDesk` |
| `LogisticaArmado` | one row of the daily panel | `RowLife` | `LogisticaArmado_proofs` | `MCLogisticaArmado` |
| `MlReview` | the drafts of one MercadoLibre buyer | `Approval` | `MlReview_proofs` | `MCMlReview` |
| `RefreshTokens` | the refresh tokens of one account and the tabs of its browser | `Sessions` | `RefreshTokens_proofs` | `MCBackoffice` |
| `LoginGate` | lockout and idle limit of one account | `Lockout` | `LoginGate_proofs` | `MCBackoffice` |
| `LeadFunnel` | the leads and the funnel stage of one contact | | `LeadFunnel_proofs` | `MCBackoffice` |

The modules named under *Implements* are small abstract specifications: what a component promises to
whoever looks at it from outside, with no awaits, copies or local variables. A detailed module
instantiates its abstract one under a refinement mapping, states the abstract specification as a
property that TLC checks, and its proof module proves the implementation for all constants.

The actions have the names of what the code does, and `PROJECT.json` gives each its lines. Where a
model has an operator called *Mutant* in its comment, it is the definition that follows it with a
bug, most often one the comments of the code tell of; the runs must see each of them.

### MlBatchQueue

`entry` is the table, one row per question (`questionId` is unique), with `age` counting the two
thresholds the code compares `createdAt` with and `born` the order of creation. `batch` is what
Anthropic has. `job[p]` is the stack of an activity: the point where it awaits, the rows still to
do, the row in hand, the result route (`as`), the mode read. `saved`, `drafts`, `posted` count per
question; `answered` is what MercadoLibre holds, whatever we believe. `Crash` drops every `job` and
keeps the tables. Every statement of a delivery may throw (`DeliveryThrows`), also after the message
is stored or MercadoLibre took the answer; the catch then fails the row. What throws outside those
catches, the catch's own update among it, is `Uncaught`: the tick, or the poll of that batch, ends
and the rows stay as they are. `crashes` counts both and `MaxCrashes` bounds them. A dispatch tick goes on to `fallbackStalePending`, as in the cron; a forced one
does not. Abstracted: the text, the account keys, the tools a `tool_use` result asks for.

`QuestionLife` is the header comment's "Lifecycle of an entry" taken at its word: a question is queued
once, submitted or not, gets one message, which is a draft or is sent once, and its row is closed by
what came of that (ANSWERED only out of a batch; ANSWERED and FALLBACK only with a draft or an answer
at MercadoLibre; an open row FAILED at any time: a statement that throws after the draft or the post
leaves a FAILED row of a question that has one). `LivesOnce` says
that the queue implements it: `status` is that of the rows, `stored`, `drafted`, `sent`, `taken` are
`saved`, `drafts`, `posted`, `answered`; batches and activities are not visible. It holds when
activations of one kind do not overlap and nothing throws outside the catches: a row whose reply is
out and whose closing update fails twice stays open, and is replied to again.

### WhatsappLink

`socket[s]` is what a Baileys socket is really doing, `sock` and `status` what the service
believes. A `mute` socket never emits anything (the silent limbo of 2026-07-29). `act[a]` is where
a request or a timer awaits: loading the session, the pause of the hard reset, the logout. A socket
that has closed can be reused as the next one, so that a small set of sockets stands for an
unbounded series; if all are busy `Loaded` waits, which the runs with liveness never need (three
sockets: one live, one dying, one being created).
`Prompt` states a timing assumption: local work of milliseconds (loading the session, a close event
after `end()`) ends before a timer of 5 s or 120 s fires. It is TRUE only in the runs that say so.

### ConversationDesk

`conv[c]` is a row with its messages (`log`), `h[d]` the handler of a delivery, `esc[x]` an
escalation in progress (awaited by the pipeline, or launched and forgotten by `tryHandoff`),
`pending` the timer of the debounced send, `desk` the half-done manual message, `sweep` the cron.
The text of a message is reduced to its kind: what the detectors say of it (`human`, `complaint`,
`wholesale`, `delicate`, `ack`, `media`, `plain`). A stored message and the update of its
conversation that follows at once are one step, except in `sendManualMessage`, where other
statements lie in between. `Serial` is TRUE when all deliveries belong to one upsert event: its
loop awaits each message; two events run concurrently. Left out: the review mode
(`WHATSAPP_AUTO_SEND_DISABLED`), unread marks, previews, the history compression, the other
channels.

`Dialogue` is what the customer sees: he writes a message, it is kept, it is answered or left before
the next one is looked at, and an answer that has not gone out gives way to a newer one. Under
`Serial`, `AnswersInTurn` maps the messages stored in any row to `kept`, "some delivery is past its first
await" to `answering`, `pending` to `waiting` and `sent` to `got`. Rows, flags, escalations, staff and
reconciliation are not visible: whatever they do, the mapped step is a stutter. From `Dialogue`
follows `AnswersInOrder` (no answer twice, none after that to a newer message).

### LogisticaArmado

One row. A request is at `ask` (the extra read of `advance` and of the courier rule), `cascade` (the
update of the placa, for a dispatch of a PRFV row), `read` or `write`; the write applies to the record
as it is by then the values computed from the record it read. The history variable `collided` becomes
TRUE when a request writes, or fails to write, over a record that has changed since it read it, or
when a dispatch writes a row whose placa another dispatch has written after its own cascade (`left`
remembers what it left). An undo that comes whole between the cascade and the read of a dispatch is
of that second kind. `PlacaFaults` allows a dispatch to do one of its two writes only: the placa's
throws, which is swallowed, or the request ends after it. The properties are guarded by `~collided`: they show
that a lost update, or two dispatches that cross, is the *only* way in which the code breaks them, and the theorems below show it
for any number of requests. The bulk endpoints make the same calls in a loop.

`RowLife` has one action per click, on the row as it is: `ActsAtOnce` says that until `collided` the
read, the decision and the write of a request act as one such action at the instant of the write. A missing
record maps to the untouched row, the four columns that do not interact to the set `Marked(row)`.

### Approval and MlReview

`row[m]` is an AI message: whose question its text answers and who wrote it last (`ai`, an `edit`,
`again` for a regeneration), with the three pieces of metadata that matter. `newest` is the one
with the latest timestamp, which is how `markLatestDraftPending` finds *its* message; a
regeneration moves the timestamp and so becomes the newest. `handler[h]` is a notification, or a
backfill with the questions still to do; `panel[p]` is an operator with a draft on the screen and
the request made from there. A question queued for a batch and what `deliverAnswer` does with it are
part of the handler, without the bookkeeping of the queue; it posts with the token of the conversation's
account, which a later question may have set to another than this question's. The account of a
notification, and so of its draft, may be unknown. `given` is what MercadoLibre holds;
`accepted` differs from it when an answer was posted with the other account's token. A release sends
the text of the operator's screen to the question of the row as it is looked up again. The score of the closed
mode is a write of metadata read before. The switches are read once and may have any value.

`mishaps` remembers what the code does not guard against: a flag that met another message
(`crossed`), metadata written over newer metadata (`outdated`), a release whose second half did not
happen (`unheard`), a regeneration of a draft that is no longer pending (`rewritten`), and a post
with the other account's token (`astray`). The invariants are guarded by those that can break them,
which names the only ways in which the code does.

`Approval` says what all this is for: an answer is given once, and it is one that was approved for
that question. `BuyerReadsApproved` is its specification under the refinement mapping
`Approvals`: what is approved is what an operator's release, or the automatic mode, is about to
send. A step of `MlReview` that posts an answer maps to `Answer(q)`, any other to `Deliberate` or a
stutter. The abstract machine gives up its promise once a draft was put on another question's
message (`mixed`), and only then: outdated writes, lost responses, restarts and regenerations cannot
make a buyer read something nobody approved.

### RefreshTokens

`token[x]` is a row, `call[c]` a handler of the server *and* what the browser does with its answer
(`by` is the tab that still listens), `store` is localStorage, `flight` the `inflightRefresh` of each tab,
`told` the tabs with a `storage` event to come. `handed` has the tokens whose raw value a call has returned:
the database keeps a hash, so nobody can present another. Every statement of a call may throw
(`CallFails`); a rotation that ends between its issue and its revocation leaves two live rows, one of
which nobody was handed, and a retry rotates the old one again. Passwords are counted (`changes`). An
access token has the count when it was made (`made`) and the last change that `validateToken` will not hold
against it (`upto`): it compares whole seconds, and takes `passwordChangedAt` before it writes it, so a
change that comes right after the token may leave it accepted (`Slack`). A password change is two statements,
`PasswordChanges` and `PasswordRevokes`, of which the second may throw. `odd` is the history of what the rotation does not provide
for: `raced` (two statements of two handlers ran between one another), `unrevoked` (the second statement of a
password change failed), `shared` (two tabs presented one token), `lost`, and `late` (an answer that came
after another login).

`Sessions` has a key per session, none or one, and a password change that ends them all at once.
`SessionsInOrder` maps to it the live tokens of a family that somebody was handed (`KeyOf`), so a rotation
hands over the key with its *last* statement, and one that fails before that has done nothing; the era of the
password is advanced by the second statement of the change, so until then the change has not happened.
A token whose family was revoked just before it is handed out is a key that opens nothing (`HandVoid`).
`loose` is `raced` or `unrevoked`: what the two pairs of statements without a transaction leave open.

### LoginGate

One account. A login reads the row, compares for some hundred milliseconds and writes counters computed
from what it read; a request is let through or bounced and its write of `lastActiveAt` is not
awaited. `streak` counts the wrong passwords as the comment of `recordFailedLogin` defines them, not as
the row does, and `served` the last request let through: the properties relate the two. `touchActivity`
fails open: a request whose read of the user throws, or finds none active, passes without a check or a
write (`ServedUnchecked`), however idle, and the next check knows nothing of it; `unseen` remembers that
the last request was such a one, and `IdleIsMeasured` says nothing of the check after it. A tick
comes when nothing is in progress, since handlers take milliseconds and the limits are minutes.
`Lockout` is a lockout whose logins take no time; `LocksAtOnce` says that the row is its state until a
login writes over a row that has changed since it read it, or a write is lost (`slipped`).

### LeadFunnel

One contact. `tick[k]` is an activation of the follow-up cron with its candidates, `inbound` the
messages between the check and the creation of a lead, `writer[w]` a handler of
`contact-dimensions` between count, read and write. `due` and `recent` stand for the comparisons
with the clock. `upsets` plays the part of `mishaps`.

### MCBackoffice

The three components above share no state, so one run explores their sum: `part` is chosen at the
start and only that component moves. Its states are those of the three put side by side, each with its own
bounds, and each action of each still has to be fired.

## 3. Runs

| Run | Question | Bounds | Distinct states |
|---|---|---|---|
| `batch_serial` | Without overlapping activations: one reply per question, rows only move forward, DISPATCHED rows are in their batch, and the queue, whose deliveries may throw anywhere, implements `QuestionLife` | 2 questions, 2 submissions, one activation of each kind | 211 k |
| `batch_overlap` | Overlapping ticks and buttons: a closed row has a draft or an answer | 1 question, cron + button, 2 polls, 1 webhook | 938 k |
| `batch_live` | Every queued question is closed; every send is logged | 1 question, 2 notifications of it, 1 restart or error that nobody catches, fairness | 232 k |
| `link_overlap` | Whatever overlaps, `connected` means an open socket | 3 sockets, 1 request, no timing assumption | 969 k |
| `link_live` | No requests: one live socket, sends reach it, the link recovers | 3 sockets, `Prompt`, 1 failed load, the phone may unlink | 3.5 k |
| `desk_waits` | WAITING is never without the flag; what is sent is logged | 2 messages, 1 conversation, 1 reply of the staff, cron on | 1.87 M |
| `desk_serial` | Within one event nothing is stored twice, and the desk implements `Dialogue` | 2 messages delivered twice, 2 conversations | 601 k |
| `desk_live` | A stale flag goes down by itself | 1 message of six kinds, echoes, pauses, status changes, fairness | 145 k |
| `desk_ack` | *violation*: an ack closes only after our reply | 2 messages | |
| `armado_row` | Ticks before LISTO, evidence, lost ticks, placa; the row implements `RowLife` | 2 requests, 3 items of 2 SKUs | 3.2 M |
| `review` | Buyers read what was approved (`MlReview` implements `Approval`); drafts fit, stay out, do not slip; the log shows the answer | 2 questions (one of the second account), 2 messages, 2 handlers, 2 operators, 2 activities at once | 1.33 M |
| `backoffice` | Refresh tokens (which implement `Sessions`), lockout (which implements `Lockout`) and idle limit, leads and stage | 2 tabs, calls, tokens, families, 1 password change; threshold and window 2, lock 3, idle limit 3, clock 5; 2 leads, ticks, messages, writers, 2 orders, 1 nudge | 728 k |

**Why the bounds suffice.** Every interaction in the code is between two activities over one row:
two of each kind that can overlap, one row (two where the code orders or batches rows), and one
restart or fault at any await reach all of them. `batch_serial` has no restart, and two questions are
fewer than a batch holds: that `DispatchedInBatch` survives both is shown by `NoOrphanRow` only. `desk_waits` has two messages so that an
escalation of one meets the sweep, the reply or the assignment of the other. `History = 2` makes
the window of the history shorter than the log in two messages and an answer. In `armado_row` a
pack has two positions of one SKU and one of another, so that an untick can remove several keys;
the writes of note, section and archive are left out there (the courier stands for them in the
revert); the same properties also hold on the complementary set of operations (archive, courier,
note, section, revert, dispatch: 8.9 M states), and the proofs cover them all together.

`review` and `backoffice` explore nothing *after* a mishap (constraint `Calm`; the step into it is
explored). `NothingSlips`, `LogShowsAnswer` and `StoredIsUsable` are guarded by every mishap so cut,
and hold trivially in the states left out. The others are guarded by fewer, and go on holding after
the rest: that is what the proofs, which have no such constraint, add. At most two activities overlap in `review`, of any two kinds; `LeadFunnel`
explores nudges, automatic leads and stages one at a time, since they meet only in the status of a
lead, which the panel moves in each case. The tokens alone also pass with three rows and one tab (0.61 M states), two
rotations of one family in a row, and `review` passes with both questions of the first account
(1.6 M). In `LoginGate` the clock leaves room for a window that expires and begins again.

**Deadlock** is checked except where the system does stop: the desk without its cron once the
messages and replies of the bound are used up (`desk_serial`, `desk_ack`), and the connection after
the phone unlinked it, or after a start that threw, when no request comes (`link_live`,
`link_overlap`), and `review` and `backoffice`, where messages, tokens and the clock are used up. Symmetry is used in runs without liveness properties only.

**Fairness.** `MlBatchQueue.FairSpec`: crons tick for ever, a started activity goes on, Anthropic
ends its batches, and a poll of an ended batch does not fail *every* time (strong fairness of
`FinalizeRead`). Buttons, the mode switch and restarts are never forced. `WhatsappLink.LiveSpec`:
due timers fire, awaits return, Baileys reports the close of a socket we ended, and the network is
not down for ever, that is, of the sockets created some are not mute and some open.
`ConversationDesk.LiveSpec`: only the hourly cron, and that its tick runs to the end.

## 4. Proofs

TLAPS proves, for every value of the constants allowed by the named assumptions:

| Module | Theorem | Says |
|---|---|---|
| `MlBatchQueue_proofs` | `TypeCorrect`, `NoOrphanRow`, `NoHollowClose`, `PostsAreLogged` | the types, `DispatchedInBatch`, `ClosedIsBacked`, `PostedIsLogged` under any overlap and any number of restarts |
| | `OneReplyAlone`, `ForwardAlone`, `LivesOnceAlone` | `OneReply`, `ForwardOnly` and `LivesOnce` (it implements `QuestionLife`) if `Alone`: one cron, one poller, one webhook at a time, no button, no restart and no error outside the catches |
| `WhatsappLink_proofs` | `TypeCorrect`, `ConnectedStatusIsReal` | the types, `ConnectedIsReal` for any number of sockets and requests, no timing assumption |
| | `OneSocketLives`, `SendsGoOut` | `OneLiveSocket` and `SendsReachWhatsApp` if `Unattended`: nobody at the controller, and sockets that close before a timer fires |
| `ConversationDesk_proofs` | `TypeCorrect`, `WaitingHasFlag`, `SentWasLogged` | `TypeOK`, `WaitingIsFlagged` if the panel does not write the status, `SentIsLogged` |
| | `SavedOnceInTurn`, `DialogueInTurn`, `AnsweredInOrder`, `NewestReplyWins` | `SavedOnce`, `AnswersInTurn` (it implements `Dialogue`), the answers come in the order of the messages, and `LatestReplyWins`, if `Serial`: the deliveries come in one upsert event |
| `MlReview_proofs` | `ReviewTyped`, `DraftsFit`, `ReleasedStayOut`, `NothingIsLost`, `AnswersAreShown`, `BuyersReadApproved` | the types, `DraftFitsQuestion`, `ReleasedStaysOut`, `NothingSlips`, `LogShowsAnswer`, and that `MlReview` implements `Approval` |
| `RefreshTokens_proofs` | `TokensTyped`, `FamiliesAreLinear`, `PasswordEnds`, `DeadFamiliesStayDead`, `StoredStaysUsable`, `AccountInOrder` | `LinearFamilies`, `PasswordEndsSessions`, `DeadStaysDead`, `StoredIsUsable`, `SessionsInOrder` (it implements `Sessions`) for any number of tabs, calls and tokens |
| `LoginGate_proofs` | `GateTyped`, `StreaksLock`, `LocksHold`, `IdlenessIsMeasured`, `LockoutAtOnce` | `StreakLocks`, `LockHolds`, `IdleIsMeasured`, `LocksAtOnce` (it implements `Lockout`) for every limit, with any number of logins and requests |
| `LeadFunnel_proofs` | `FunnelTyped`, `NudgesAreBounded`, `OneLeadIsOpen`, `OrdersAreShown` | `NudgesBounded`, `OneOpenLead`, `OrdersShow` for any number of leads, ticks, messages and writers |
| `LogisticaArmado_proofs` | `TypeCorrect`, `ReadyIsTicked`, `EvidenceStays`, `TicksStay`, `RevertKeeps`, `PlacaStays`, `ActsAsOne` | all properties of `armado_row`, among them that it implements `RowLife`, for any number of requests and items, and that a revert keeps the marks; `PlacaFollows` if neither half of a dispatch fails alone (`PlacaFaults = FALSE`) |

*MlBatchQueue.* `IInv` adds three facts about activities to the properties: one past its read has a
question in hand (`CurOK`); one that is about to mark rows holds a batch submitted with exactly
those rows (`MarkOK`), which is what makes the blind `updateMany` by ids sound however stale; and
one that is about to close a row has already left a draft or an accepted answer (`FinishOK`), which
nothing takes back. The crash step is trivial: the facts are about activities, and it removes them.
`LoggedFirst` counts: drafts, posts and the activities that have saved a message of a question but
not yet used it (`Owing`) are never more than its rows; a restart only lowers the count.
If `Alone`, each kind of activity has rows of one status to itself (`InLane`), and what an activity
is about to answer has not been answered (`Unanswered`): a reply is then the first, and a row that
is closed was open. For the refinement one fact is added: a dispatch tick never records ANSWERED
(`RescueOK`). What a delivery did before it throws does not matter to the FAILED it ends in, only that
the row was still open, which is the lane's. A row nobody
has got past storing for is `Untouched`, because `LoggedFirst` counts its drafts among its messages;
the counting also shows that a reply about to be sent is stored, is no draft and was not tried, since its
sender is in `Owing`. Every other step of the ticks is a stutter, and with one webhook the synchronous
answer of a collision never happens.

*WhatsappLink.* `ConnectedIsReal` is inductive with the types. The argument is that every event
which takes an open socket away also writes the status, although it may not be the current socket:
over-reporting a disconnection is what keeps `connected` honest. If `Unattended`, `AloneInv` says that
a live socket is `this.sock` and that nothing else starts one meanwhile; without it an orphan lives on,
and the send goes to a socket that is not the open one.

*ConversationDesk.* The types are proved in three parts: the rows, by one lemma per way of writing a
row, each saying that it keeps the type and that logs only grow (`Grows`); the handlers
(`HandlersOK`: one past its first awaits has a conversation); and the rest. `WaitingHasFlag` needs
only the types, since each writer moves both columns in one statement. `SentWasLogged` rests on
`Replied`: what is pending or sent is in a log, and logs only grow. If `Serial`, one handler is at
work and it is that of the newest message (`OneBusy`, `BusyIsNewest`); before it saves, the message
is in no log, and whatever else was written is in one (`EarlyIsNew`, `StoredOrComing`). So a second
delivery finds the first stored, and only `SaveInbound` adds a message of the customer. For `Dialogue`
the working handler is that of `Newest`, which is stored exactly if the handler is past `SaveInbound`; each of its
steps keeps, answers or leaves that message or stutters, and all that others do leaves the stored messages and the
pending reply alone but for the timer. `AnsweredInOrder` is an invariant on top of it: the pending reply is to a
message written after those of all the answers that went out.

*LogisticaArmado.* `IInv` says that a request nobody has overtaken holds the record as it is, and
that this record did not refuse its call (`Granted`). `WrittenIsReady` then shows, call by call,
that a call which the guard let through leaves the record sound: it is here that every path to
LISTO has to go through the guard. The three action properties follow from the same invariant with
`FreshWrite`. For the placa, `Left` says that a dispatch past its cascade remembers having left the
placa as it asked: if it writes without `collided`, the placa is still so, and an undo that took it back since is
`Undoing`, about to take the row back as well. For `RowLife`, a write that does not set
`collided` applies to the very record that was read, so what the guards of the code found at the read still holds, and
`OneOperation` names, call by call, the operation it is. Two facts are added: a call only ever sets ARMADO or
LISTO (`Upward`), and without a record the row shows as untouched (`Absent`).

*MlReview.* `IInv` is `Kept /\ NoClash /\ Settled`. `Kept` has the types and that what a
handler or a request refers to is stored. `Claim(m, q)` says that something (the row's metadata, a
handler or a request) takes message m for one about question q; `NoClash`: unless a flag has
crossed, all that refer to a message name one question. `Settled`: while nothing is crossed
or outdated, the text of a message is about what is claimed of it, and so is the text a request
carries. Each action is shown to add no claim, or one about a message that had none; the newest
message of a handler that has just stored its own is that message exactly when nothing crosses. For
the refinement, every step that changes `given` is one of three, and each holds its pair in
`Approvals`; every other step leaves `given` alone, which is all that `Deliberate` asks.
`NothingSlips` and `LogShowsAnswer` come from a second invariant, `LogInv`: while `mishaps = {}`, a
reply that a handler has just stored carries no stamp, a stamped message without a flag is about a
question that is `Done` with, and a message that shows an answer `Keeps` it, since whatever could
flag or rewrite it would first have to be outdated.

*RefreshTokens.* `IInv` adds to the types that whatever is stored, presented or answered was handed out
(`Handing`), and that a rotation about to retire a token holds a successor in the same family which nobody was
handed and which, unless something was `raced`, lives and dies with the token it replaces (`Successor`). Between
issue and revocation, and for good if the call ends there, a family so has two live rows, but one that counts;
the revocation and the handing out of the successor are one step of the answer. `Current`: until two activities overlapped
or a revocation failed, what is live, stored or on its way under the present password was opened with it.
`DeadStaysDead` then needs only that an issue gives a family a token when the family had one live.
`StoredIsUsable` has invariants of its own: what a rotation issues is a new token of the family of the one presented (`Descends`),
and while nothing odd happened no two rotations present one token, and the only one at work on the family of the stored token presents
that token for a tab that still listens (`Held`). So who revokes the stored token is that rotation, whose answer is then
on its way, or a revocation that leaves an excuse. For `Sessions`, `KeyOf` counts what was handed out, so keys are handed over
one for one by the step that retires; a call that fails hands out nothing and leaves the keys alone. `Era` is advanced by the
revocation of a password change, which leaves no key because it revokes every live row of the account.

*LoginGate.* Three equations between row and history hold while nothing slipped: the row's counter
is at least the streak unless the window has expired, a lock reached is at the last wrong password
plus the duration, and `lastActive` lags `served` by at most one debounce, unless the last request passed
unchecked. A login in progress that
is still fresh has read the row as it is. So, for `Lockout`, what it writes is what a login that
takes no time would write; the lock it found open is still open, since time does not pass under a login.

*LeadFunnel.* Nudges stored are nudges counted plus those of ticks about to count (`NudgesCounted`); a
recent open automatic lead excludes a message between check and creation (`OpensOne`); and for the
stage, each order is either shown or has a writer coming whose count saw it (`WritersWell`, `OrdersComing`), where
`Moves` never goes back.

**Only model-checked**: liveness (`EventuallyClosed`, `Recovers`, `StaleFlagGoesDown`), which needs
ENABLED and fairness and is out of this prover's reach. Every safety property that a passing run
checks is stated by a theorem.

## 5. Where code and words differ

One disagreement has a run of its own, which must find the violation:

* `desk_ack`: the guard of the close on an ack expects the history newest first and gets it oldest
  first; an ack that follows an unanswered question closes the conversation.

The modules state further promises of the comments. TLC refutes each under the constants named (the
other constants as in the run of the same module); they have no run of their own:

| Statement | Refuted with | What happens |
|---|---|---|
| `BuyerHeard` | one question | one failed submission leaves the row FAILED for good, although the comments promise the buyer an answer or the operator a way to ask for one (`ml-batch-queue.service.ts` 193-194, 451-452) |
| `OneLiveSocket` | `Admins = {a1, a2}`, `Prompt` | `start` is documented idempotent (198-199) but refuses a second call only once `this.sock` is set: two requests while disconnected create two sockets |
| `AnsweredIsPosted` | one question, review mode | ANSWERED also means "draft saved" |
| `OneReply` | `Pollers = {poll1, poll2}` | two polls that overlap deliver the same result twice (so does, with `MaxCrashes = 1`, a restart or a failed update before the row is closed) |
| `ErroredIsRetried` | `LiveSpec`, no requests, one failed load | the watchdog does not look at `errored` |
| `SessionOutlivesDisconnect` | one request, `Prompt` | logout unlinks the device: the close event wipes the session although `wipeSession` was not asked |
| `SavedOnce` | one message, two deliveries, `Serial = FALSE` | both pass the dedup before either is stored |
| `LatestReplyWins` | two messages, `Serial = FALSE` | handlers end in the other order and the older reply replaces the newer |
| `PausedIsQuiet` | `Panel = {"pause"}` | an answer in preparation outlives the pause |
| `PhoneIsStaff` | `Echoes = TRUE` | the echo of our own reply is mirrored as typed on the phone |
| `WaitingIsFlagged` | `Panel = {"status"}` | the panel sets WAITING without the flag |
| `AssigneeKept` | `Panel = {"assign"}`, a delicate message | an escalation writes the assignee it read before |
| `SweepSparesUnattended` | a delicate message, one reply, cron | the sweep clears rows it read before a new escalation |
| `PlacaFollows` | `PlacaFaults = TRUE` | the failed update of the placa is swallowed; a request that ends after it leaves the row behind |
| `AcceptedIsGiven` | `Second = {q2}` | the webhook answers without an account key (`mercadolibre.controller.ts` 393-396) and a batch draft has none (`ml-batch-queue.service.ts` 397): MercadoLibre takes the answer with a 200 and it lands nowhere |
| `RevokedWithPassword` | one tab, call, token, family and password change | `schema.prisma` 43-44 says that the refresh tokens are revoked "in the same transaction" as the password changes; `update` does it in two statements (`user-management.service.ts` 158-165, 173-178), and in between, or for good if the second fails, a token of the old password is live |
| `LoginEndsIdleness` | as in `backoffice` | a login does not touch `lastActiveAt`: whoever comes back after the idle limit is bounced from a fresh session (`auth.service.ts` 373-381), although the message says to log in to go on (`auth.guard.ts` 47-48) |
| `LossSparesBuyers` | as in `backoffice` | a lost lead makes a buyer NO_CONCRETO, although the comment limits that to CONSULTA and COTIZADO (`contact-dimensions.service.ts` 128-129) |

What guards the properties of `MlReview`, `RefreshTokens`, `LoginGate`, `LogisticaArmado` and `LeadFunnel` is also a
list of what the code leaves open: two tabs that present one token end the session of both, which
client.ts 175-188 means to prevent (the storage event comes after the request has gone); a rotation or login that
overlaps a password change leaves a live token, and a login with the *new* password between the two statements is revoked; overlapping wrong passwords
count once; a rotation that fails after its issue leaves a live row nobody was handed; a read that fails lets an
idle session pass; a dispatch and its undo that cross leave a dispatched row over an undispatched placa; the flag of a draft can land on another question's message and the score of the closed
mode can erase one; autosave and `regenerateDraft` (which does not look at `pendingReview`) can put
a released draft back; the backfill reads `ML_QA_REVIEW_MODE` with the opposite default of the webhook (465 against
`isAutoReplyOn`); nudges go on although the customer has answered, candidates are not read again, and
`followupCount` is not reset by a new quote.

The row model also shows what the comment of `schema.prisma` 1486-1488 ("never goes backwards
except via the explicit unmark") leaves out: a bulk or plain mark as ARMADO moves a LISTO row back,
a courier can be cleared after the dispatch, and a revert leaves a dispatched placa dispatched.

## 6. Plan

The runs stay at a dozen: a new module joins `MCBackoffice` or replaces a run.

1. Composition of `WhatsappLink` and `ConversationDesk`: a reply is handed to the socket of the
   moment; with two sockets alive a message is handled twice. The unread reconciliation of
   `whatsapp-qr.service.ts` belongs here.
2. Composition of `MlBatchQueue` and `MlReview`, whose queue is abstracted: both should implement
   `Approval` together.
3. `PrfvPlaca` next to `LogisticaArmado`: the plate edited from its own page and by the cascade;
   the exchange-rate cache; the budget cap; the OAuth refresh.
4. Post-venta packs and claims of MercadoLibre; the pipelines of the other channels; the review
   mode of WhatsApp.

## 7. Not modelled

Reports, analytics, PDF and Excel builders, the catalogue and the settings read or write single
rows and have no interaction between steps; Claude's prompts, the detectors and the quotation
formulas are data or real arithmetic; notifications and the frontend (but for its tokens and its drafts
panel) change no state others depend on. They make up most of the lines of the repository.
