-------------------------- MODULE ConversationDesk --------------------------
(***************************************************************************)
(* The WhatsApp conversations of one customer: the inbound pipeline of     *)
(* ConversationHandlerService, the escalations of HumanHandoffService, the *)
(* debounced send of WhatsappQrService, the operators' panel and the       *)
(* hourly reconciliation.  A handler is cut at the awaits where the        *)
(* others change what it goes on to use; the row of a message and the      *)
(* update of its conversation that follows at once are one step, except    *)
(* in sendManualMessage.  The review mode (WHATSAPP_AUTO_SEND_DISABLED),   *)
(* the unread marks and the previews are left out.                         *)
(***************************************************************************)
EXTENDS Integers, FiniteSets, Sequences

CONSTANTS
    Msgs,        \* messages the customer writes (their waMessageId)
    Copies,      \* deliveries of one message: notify, append
    Convs,       \* conversation rows that may exist
    Kinds,       \* the kinds of message the customer may write
    History,     \* historyFetchLimit
    MaxReplies,  \* bound on the replies of the staff
    Serial,      \* TRUE: the deliveries come in one upsert event, a loop that awaits
    StartPaused, \* WHATSAPP_DEFAULT_AI_PAUSED
    Panel,       \* what operators may do: a subset of {"pause", "assign", "status"}
    Echoes,      \* TRUE: Baileys reports our own sends as fromMe messages
    Cron,        \* HANDOFF_RECONCILE_ENABLED
    None         \* null

ASSUME Booleans == {Serial, StartPaused, Echoes, Cron} \subseteq BOOLEAN
ASSUME HistoryType == History \in Nat \ {0}
ASSUME ReplyBound == MaxReplies \in Nat
ASSUME KindType ==
    Kinds \subseteq {"plain", "delicate", "complaint", "wholesale", "human", "ack", "media"}
ASSUME NoneIsNew == None \notin Msgs \cup Convs \cup Kinds

VARIABLES
    conv,     \* the Conversation rows, each with its messages
    wrote,    \* what the customer wrote, in order
    kind,     \* the kind of each message written
    h,        \* the handler of every delivery
    esc,      \* the escalations in progress
    pending,  \* pendingSendTimers: the reply waiting for its debounce
    sent,     \* replies the customer received, in order
    echo,     \* sends Baileys has not reported back yet
    desk,     \* the row whose update a staff reply still has to write
    replies,  \* staff replies so far
    sweep     \* the reconciliation cron

vars == <<conv, wrote, kind, h, esc, pending, sent, echo, desk, replies, sweep>>

Deliveries == Msgs \X Copies
\* What runs escalate: the pipeline itself (awaited) or tryHandoff (not awaited)
Escalations == Deliveries \X {"pipeline", "handoff"}

Business == {"ai", "staff", "phone"}
Entry == [by : Business \cup {"customer"}, of : Msgs \cup {None}]
\* answered: the staff wrote since escalatedAt; recent: since less than the
\* HANDOFF_STAFF_REPLY_DEBOUNCE_MS
Conv == [status : {"none", "ACTIVE", "WAITING", "CLOSED"}, flag : BOOLEAN,
         assigned : BOOLEAN, paused : BOOLEAN, log : Seq(Entry),
         answered : BOOLEAN, recent : BOOLEAN]
\* ours: recentMessages[0] is of the business; next: what follows an escalation
Handler == [at : {"idle", "find", "create", "save", "ack", "verdict", "gate",
                  "wait", "canned", "claude", "done"},
            conv : Convs \cup {None}, ours : BOOLEAN,
            next : {"done", "canned", "claude"}]
Escalation == [at : {"idle", "read", "route"}, conv : Convs \cup {None}, assigned : BOOLEAN]
Sweep == [at : {"idle", "clear", "align", "acks", "close"}, ids : SUBSET Convs]

NewConv == [status |-> "none", flag |-> FALSE, assigned |-> FALSE, paused |-> FALSE,
            log |-> <<>>, answered |-> FALSE, recent |-> FALSE]
NoHandler == [at |-> "idle", conv |-> None, ours |-> FALSE, next |-> "done"]
Finished == [NoHandler EXCEPT !.at = "done"]
NoEscalation == [at |-> "idle", conv |-> None, assigned |-> FALSE]
Escalating(c) == [at |-> "read", conv |-> c, assigned |-> FALSE]
NoSweep == [at |-> "idle", ids |-> {}]

Init ==
    /\ conv = [c \in Convs |-> NewConv]
    /\ wrote = <<>>
    /\ kind = [m \in Msgs |-> None]
    /\ h = [d \in Deliveries |-> NoHandler]
    /\ esc = [x \in Escalations |-> NoEscalation]
    /\ pending = None
    /\ sent = <<>>
    /\ echo = {}
    /\ desk = None
    /\ replies = 0
    /\ sweep = NoSweep

----------------------------------------------------------------------------
MsgOf(d) == d[1]
KindOf(d) == kind[MsgOf(d)]
At(d, point) == h[d].at = point
Goto(d, point) ==
    h' = [h EXCEPT ![d] = IF point = "done" THEN Finished ELSE [@ EXCEPT !.at = point]]

Entries(c) == {conv[c].log[i] : i \in DOMAIN conv[c].log}
Stored(m) == \E c \in Convs : [by |-> "customer", of |-> m] \in Entries(c)
Last(log) == log[Len(log)].by
Open == {c \in Convs : conv[c].status \in {"ACTIVE", "WAITING"}}
Unused == {c \in Convs : conv[c].status = "none"}

----------------------------------------------------------------------------
(* What is written on a row r of Conversation, and on its messages *)

Put(c, r) == conv' = [conv EXCEPT ![c] = r]

Opened(r) == [r EXCEPT !.status = "ACTIVE", !.paused = StartPaused]

\* saveMessage: the row r with one more entry
With(r, by, m) ==
    [r EXCEPT !.log = Append(@, [by |-> by, of |-> m]),
              !.answered = @ \/ by \in {"staff", "phone"},
              !.recent = @ \/ by \in {"staff", "phone"}]
\* Mutant: the flag goes down and the status stays (186 rows on 2026-07-21).
ClaimedFlagOnly(r) == [r EXCEPT !.flag = FALSE, !.assigned = TRUE]

\* A message of the team clears the flag and reopens the row.
Attended(r) == [r EXCEPT !.flag = FALSE, !.status = "ACTIVE"]
Claimed(r) == [Attended(r) EXCEPT !.assigned = TRUE]

Raised(r) == [r EXCEPT !.flag = TRUE]
Waiting(r, assigned) ==
    [r EXCEPT !.flag = TRUE, !.status = "WAITING", !.answered = FALSE, !.assigned = assigned]
Closed(r) == [r EXCEPT !.flag = FALSE, !.status = "CLOSED"]

\* The first of the History last messages, that is recentMessages[0]
Oldest(log) == log[IF Len(log) > History THEN Len(log) - History + 1 ELSE 1].by

\* scheduleDebouncedSend: a newer reply replaces the pending one
Schedule(m) == pending' = m

----------------------------------------------------------------------------
(* handleWhatsAppMessage and recordWhatsAppMediaInbound *)

Unwritten == {m \in Msgs : kind[m] = None}
\* Mutant: the loop over the messages of the event does not await.
HandlesAtOnce(d) == TRUE

MayHandle(d) == Serial => \A x \in Deliveries \ {d} : h[x].at \in {"idle", "done"}

\* Baileys emits a message the customer has just written.
Writes(d) ==
    /\ At(d, "idle")
    /\ MsgOf(d) \in Unwritten
    /\ MayHandle(d)
    /\ \E k \in Kinds : kind' = [kind EXCEPT ![MsgOf(d)] = k]
    /\ wrote' = Append(wrote, MsgOf(d))
    /\ Goto(d, "find")
    /\ UNCHANGED <<conv, esc, pending, sent, echo, desk, replies, sweep>>

\* Mutant: the second delivery of a message is not recognised.
RedeliversBlindly(d) ==
    /\ At(d, "idle")
    /\ MsgOf(d) \notin Unwritten
    /\ MayHandle(d)
    /\ Goto(d, "find")
    /\ UNCHANGED <<conv, wrote, kind, esc, pending, sent, echo, desk, replies, sweep>>

\* It emits it again, as history after a reconnection: dedup by waMessageId.
Redelivers(d) ==
    /\ At(d, "idle")
    /\ MsgOf(d) \notin Unwritten
    /\ MayHandle(d)
    /\ Goto(d, IF Stored(MsgOf(d)) THEN "done" ELSE "find")
    /\ UNCHANGED <<conv, wrote, kind, esc, pending, sent, echo, desk, replies, sweep>>

\* getConversationHistory: is recentMessages[0], in any of the conversations
\* cs of the contact, one of ours?  Only an ack asks.
OursFirst(d, cs) ==
    {KindOf(d) = "ack" /\ conv[c].log # <<>> /\ Oldest(conv[c].log) \in Business : c \in cs}

Enters(d, c, p) == h' = [h EXCEPT ![d] = [@ EXCEPT !.at = "save", !.conv = c, !.ours = p]]

\* findOrCreateConversation
FindConversation(d) ==
    /\ At(d, "find")
    /\ IF Open = {}
       THEN Goto(d, "create")
       ELSE \E c \in Open, p \in OursFirst(d, Convs \ Unused) : Enters(d, c, p)
    /\ UNCHANGED <<conv, wrote, kind, esc, pending, sent, echo, desk, replies, sweep>>

CreateConversation(d) ==
    /\ At(d, "create")
    /\ \E c \in Unused :
          /\ Put(c, Opened(conv[c]))
          /\ \E p \in OursFirst(d, {c} \cup (Convs \ Unused)) : Enters(d, c, p)
    /\ UNCHANGED <<wrote, kind, esc, pending, sent, echo, desk, replies, sweep>>

SaveInbound(d) ==
    LET r == With(conv[h[d].conv], "customer", MsgOf(d)) IN
    /\ At(d, "save")
    /\ Put(h[d].conv, IF KindOf(d) = "media" THEN Raised(r) ELSE r)
    /\ Goto(d, CASE KindOf(d) = "media" -> "done"
                 [] KindOf(d) = "ack" -> "ack"
                 [] OTHER -> "gate")
    /\ UNCHANGED <<wrote, kind, esc, pending, sent, echo, desk, replies, sweep>>

\* maybeAutoCloseOnAck up to the question to Claude
ChecksAck(d) ==
    /\ At(d, "ack")
    /\ IF conv[h[d].conv].paused \/ ~h[d].ours
       THEN Goto(d, "gate")
       ELSE \E point \in {"gate", "verdict"} : Goto(d, point)   \* an open question?
    /\ UNCHANGED <<conv, wrote, kind, esc, pending, sent, echo, desk, replies, sweep>>

\* Claude confirms: the farewell is stored and returned to be sent.
ClosesOnAck(d) ==
    /\ At(d, "verdict")
    /\ Put(h[d].conv, Closed(With(conv[h[d].conv], "ai", MsgOf(d))))
    /\ Schedule(MsgOf(d))
    /\ Goto(d, "done")
    /\ UNCHANGED <<wrote, kind, esc, sent, echo, desk, replies, sweep>>

KeepsOpen(d) ==
    /\ At(d, "verdict")
    /\ Goto(d, "gate")
    /\ UNCHANGED <<conv, wrote, kind, esc, pending, sent, echo, desk, replies, sweep>>

\* The escalations that start when message d passes the gate
Starts(d, paused) ==
    (IF KindOf(d) = "human" THEN {<<d, "handoff">>} ELSE {}) \cup
    (IF paused \/ KindOf(d) \in {"delicate", "complaint", "wholesale"}
     THEN {<<d, "pipeline">>} ELSE {})

\* What follows the awaited escalation, or its absence
After(d, paused) ==
    CASE paused \/ KindOf(d) = "complaint" -> "done"
      [] ~paused /\ KindOf(d) = "wholesale" -> "canned"
      [] OTHER -> "claude"

\* tryHandoff is launched, isAiPaused is read, and the message is classified.
Gate(d) ==
    LET paused == conv[h[d].conv].paused IN
    /\ At(d, "gate")
    /\ esc' = [x \in Escalations |->
           IF x \in Starts(d, paused) THEN Escalating(h[d].conv) ELSE esc[x]]
    /\ h' = [h EXCEPT ![d] = [@ EXCEPT !.at = "wait", !.next = After(d, paused)]]
    /\ UNCHANGED <<conv, wrote, kind, pending, sent, echo, desk, replies, sweep>>

\* A paused conversation still answers from the catalogue, the FAQ or the
\* state of the order, and then only tryHandoff escalates.
PausedReply(d) ==
    LET c == h[d].conv IN
    /\ At(d, "gate") /\ conv[c].paused
    /\ Put(c, With(conv[c], "ai", MsgOf(d)))
    /\ Schedule(MsgOf(d))
    /\ esc' = [x \in Escalations |->
           IF x \in Starts(d, FALSE) /\ x[2] = "handoff"
           THEN Escalating(c) ELSE esc[x]]
    /\ Goto(d, "done")
    /\ UNCHANGED <<wrote, kind, sent, echo, desk, replies, sweep>>

Escalated(d) ==
    /\ At(d, "wait")
    /\ esc[<<d, "pipeline">>].at = "idle"
    /\ Goto(d, h[d].next)
    /\ UNCHANGED <<conv, wrote, kind, esc, pending, sent, echo, desk, replies, sweep>>

\* Mutant: the reply is sent without being stored.
ReplyUnstored(d) ==
    /\ At(d, "canned") \/ At(d, "claude")
    /\ Schedule(MsgOf(d))
    /\ Goto(d, "done")
    /\ UNCHANGED <<conv, wrote, kind, esc, sent, echo, desk, replies, sweep>>

\* The canned acknowledgment, or Claude's answer, is stored and returned; the
\* answer may say that a person will take over (tryHandoff 'ai').
Reply(d) ==
    LET c == h[d].conv IN
    /\ At(d, "canned") \/ At(d, "claude")
    /\ Put(c, With(conv[c], "ai", MsgOf(d)))
    /\ Schedule(MsgOf(d))
    /\ \/ UNCHANGED esc
       \/ /\ At(d, "claude") /\ esc[<<d, "handoff">>].at = "idle"
          /\ esc' = [esc EXCEPT ![<<d, "handoff">>] = Escalating(c)]
    /\ Goto(d, "done")
    /\ UNCHANGED <<wrote, kind, sent, echo, desk, replies, sweep>>

ClaudeFails(d) ==
    /\ At(d, "claude")
    /\ Goto(d, "done")
    /\ UNCHANGED <<conv, wrote, kind, esc, pending, sent, echo, desk, replies, sweep>>

----------------------------------------------------------------------------
(* escalate *)

EscalateReads(x) ==
    LET r == conv[esc[x].conv] IN
    /\ esc[x].at = "read"
    /\ esc' = [esc EXCEPT ![x] =
           IF (r.flag /\ r.assigned) \/ r.recent THEN NoEscalation
           ELSE [@ EXCEPT !.at = "route", !.assigned = r.assigned]]
    /\ UNCHANGED <<conv, wrote, kind, h, pending, sent, echo, desk, replies, sweep>>

\* pickRoute keeps the user it was told of, or finds one, or none is active.
EscalateWrites(x) ==
    LET c == esc[x].conv IN
    /\ esc[x].at = "route"
    /\ \E found \in BOOLEAN : Put(c, Waiting(conv[c], esc[x].assigned \/ found))
    /\ esc' = [esc EXCEPT ![x] = NoEscalation]
    /\ UNCHANGED <<wrote, kind, h, pending, sent, echo, desk, replies, sweep>>

\* HANDOFF_STAFF_REPLY_DEBOUNCE_MS go by.
WindowPasses(c) ==
    /\ conv[c].recent
    /\ Put(c, [conv[c] EXCEPT !.recent = FALSE])
    /\ UNCHANGED <<wrote, kind, h, esc, pending, sent, echo, desk, replies, sweep>>

----------------------------------------------------------------------------
(* The debounced send, and what Baileys reports of it *)

\* Mutant: the timer does not look whether a reply is still there.
SendFiresBlindly ==
    /\ sent' = Append(sent, pending)
    /\ pending' = None
    /\ UNCHANGED <<conv, wrote, kind, h, esc, echo, desk, replies, sweep>>

SendFires ==
    /\ pending # None
    /\ sent' = Append(sent, pending)
    /\ echo' = IF Echoes THEN echo \cup {pending} ELSE echo
    /\ pending' = None
    /\ UNCHANGED <<conv, wrote, kind, h, esc, desk, replies, sweep>>

SendFails ==
    /\ pending # None
    /\ pending' = None
    /\ UNCHANGED <<conv, wrote, kind, h, esc, sent, echo, desk, replies, sweep>>

\* recordPhoneSideOutbound, in the open conversation or in a new one
RecordPhone(m) ==
    \E c \in IF Open = {} THEN Unused ELSE Open :
        Put(c, Attended(With(IF c \in Open THEN conv[c] ELSE Opened(conv[c]), "phone", m)))

\* The stored reply carries no waMessageId, so the dedup does not find it.
EchoArrives(m) ==
    /\ m \in echo
    /\ echo' = echo \ {m}
    /\ RecordPhone(m)
    /\ UNCHANGED <<wrote, kind, h, esc, pending, sent, desk, replies, sweep>>

----------------------------------------------------------------------------
(* The operators *)

PhoneReplies ==
    /\ replies < MaxReplies
    /\ replies' = replies + 1
    /\ RecordPhone(None)
    /\ UNCHANGED <<wrote, kind, h, esc, pending, sent, echo, desk, sweep>>

\* sendManualMessage: message.create, then conversation.update
StaffWrites(c) ==
    /\ replies < MaxReplies /\ desk = None
    /\ c \notin Unused
    /\ replies' = replies + 1
    /\ Put(c, With(conv[c], "staff", None))
    /\ desk' = c
    /\ UNCHANGED <<wrote, kind, h, esc, pending, sent, echo, sweep>>

StaffUpdates ==
    /\ desk # None
    /\ Put(desk, Claimed(conv[desk]))
    /\ desk' = None
    /\ UNCHANGED <<wrote, kind, h, esc, pending, sent, echo, replies, sweep>>

SetPaused(c) ==
    /\ "pause" \in Panel /\ c \notin Unused
    /\ Put(c, [conv[c] EXCEPT !.paused = ~@])
    /\ UNCHANGED <<wrote, kind, h, esc, pending, sent, echo, desk, replies, sweep>>

\* assignConversation and transferConversation
Assign(c) ==
    /\ "assign" \in Panel /\ c \notin Unused
    /\ Put(c, [conv[c] EXCEPT !.assigned = TRUE, !.status = "ACTIVE"])
    /\ UNCHANGED <<wrote, kind, h, esc, pending, sent, echo, desk, replies, sweep>>

UpdateStatus(c, status) ==
    /\ "status" \in Panel /\ c \notin Unused
    /\ Put(c, [conv[c] EXCEPT !.status = status])
    /\ UNCHANGED <<wrote, kind, h, esc, pending, sent, echo, desk, replies, sweep>>

----------------------------------------------------------------------------
(* HandoffReconcileCron: reconcileStaleNeedsHumanAttention, reconcileStuckOnAck *)

Flagged == {c \in Convs : conv[c].flag}

\* Mutant: only the first signal, a staff message after escalatedAt, is used.
StaleByStaff(r) == r.answered

\* A staff message since the escalation, or one of ours is the last
Stale(r) == r.answered \/ (r.log # <<>> /\ Last(r.log) \in Business)

SweepReads ==
    /\ Cron /\ sweep.at = "idle"
    /\ sweep' = [at |-> "clear", ids |-> {c \in Flagged : Stale(conv[c])}]
    /\ UNCHANGED <<conv, wrote, kind, h, esc, pending, sent, echo, desk, replies>>

\* updateMany by id: the rows are not looked at again.
SweepClears ==
    /\ sweep.at = "clear"
    /\ conv' = [c \in Convs |-> IF c \in sweep.ids THEN Attended(conv[c]) ELSE conv[c]]
    /\ sweep' = [at |-> "align", ids |-> {}]
    /\ UNCHANGED <<wrote, kind, h, esc, pending, sent, echo, desk, replies>>

SweepAligns ==
    /\ sweep.at = "align"
    /\ conv' = [c \in Convs |->
           IF conv[c].status = "WAITING" /\ ~conv[c].flag
           THEN [conv[c] EXCEPT !.status = "ACTIVE"] ELSE conv[c]]
    /\ sweep' = [at |-> "acks", ids |-> {}]
    /\ UNCHANGED <<wrote, kind, h, esc, pending, sent, echo, desk, replies>>

\* The rows whose last message is an ack, as far as Claude agrees
SweepFindsAcks ==
    /\ sweep.at = "acks"
    /\ \E ids \in SUBSET {c \in Flagged : /\ conv[c].log # <<>>
                                          /\ Last(conv[c].log) = "customer"
                                          /\ kind[conv[c].log[Len(conv[c].log)].of] = "ack"} :
          sweep' = [at |-> "close", ids |-> ids]
    /\ UNCHANGED <<conv, wrote, kind, h, esc, pending, sent, echo, desk, replies>>

SweepCloses ==
    /\ sweep.at = "close"
    /\ conv' = [c \in Convs |-> IF c \in sweep.ids THEN Closed(conv[c]) ELSE conv[c]]
    /\ sweep' = NoSweep
    /\ UNCHANGED <<wrote, kind, h, esc, pending, sent, echo, desk, replies>>

----------------------------------------------------------------------------
Arrives(d) == Writes(d) \/ Redelivers(d)
Handles(d) ==
    \/ FindConversation(d) \/ CreateConversation(d) \/ SaveInbound(d)
    \/ ChecksAck(d) \/ ClosesOnAck(d) \/ KeepsOpen(d)
    \/ Gate(d) \/ PausedReply(d) \/ Escalated(d) \/ Reply(d) \/ ClaudeFails(d)
Inbound == \E d \in Deliveries : Arrives(d) \/ Handles(d)
Handoff == \E x \in Escalations : EscalateReads(x) \/ EscalateWrites(x)
Outbound == SendFires \/ SendFails \/ \E m \in Msgs : EchoArrives(m)
Operators ==
    \/ PhoneReplies \/ StaffUpdates
    \/ \E c \in Convs :
          \/ StaffWrites(c) \/ SetPaused(c) \/ Assign(c) \/ WindowPasses(c)
          \/ \E status \in {"ACTIVE", "WAITING", "CLOSED"} : UpdateStatus(c, status)
Reconcile == SweepReads \/ SweepClears \/ SweepAligns \/ SweepFindsAcks \/ SweepCloses

Next == Inbound \/ Handoff \/ Outbound \/ Operators \/ Reconcile
Spec == Init /\ [][Next]_vars

\* The cron ticks every hour and a tick runs to its end; nothing is assumed of
\* the customer, of Claude or of the operators.
LiveSpec == Spec /\ WF_vars(Reconcile)

----------------------------------------------------------------------------
TypeOK ==
    /\ conv \in [Convs -> Conv]
    /\ wrote \in Seq(Msgs)
    /\ kind \in [Msgs -> Kinds \cup {None}]
    /\ h \in [Deliveries -> Handler]
    /\ esc \in [Escalations -> Escalation]
    /\ pending \in Msgs \cup {None}
    /\ sent \in Seq(Msgs)
    /\ echo \subseteq Msgs
    /\ desk \in Convs \cup {None}
    /\ replies \in 0 .. MaxReplies
    /\ sweep \in Sweep

\* "WAITING sin flag es un estado imposible" (human-handoff.service.ts 276):
\* every writer moves the two columns together.
WaitingIsFlagged == \A c \in Convs : conv[c].status = "WAITING" => conv[c].flag

\* A reply the customer got, or is about to get, is in the conversation log.
SentIsLogged ==
    \A i \in DOMAIN sent : \E c \in Convs : [by |-> "ai", of |-> sent[i]] \in Entries(c)

Rows(m) == {x \in UNION {{c} \X DOMAIN conv[c].log : c \in Convs} :
               conv[x[1]].log[x[2]] = [by |-> "customer", of |-> m]}

\* A message delivered twice is stored once (the dedup of lines 558-571).
SavedOnce == \A m \in Msgs : Cardinality(Rows(m)) <= 1

\* What the customer sees of it all is a dialogue: each message is stored before
\* it is answered, an answer is to the newest message, and only the last one goes
\* out (whatsapp-qr.service.ts 894-899, and the awaiting loop of 731-737).
Talk == INSTANCE Dialogue WITH
    Messages <- Msgs, Nothing <- None,
    kept <- {m \in Msgs : Stored(m)},
    answering <- \E d \in Deliveries : h[d].at \notin {"idle", "done"},
    waiting <- pending, got <- sent
AnswersInTurn == Talk!DialogueSpec

\* While the AI is paused on a conversation it writes nothing there: the humans
\* answer (setAiPaused, 743-745).  The canned replies to paused conversations,
\* which the code sends on purpose, do not count.
PausedIsQuiet ==
    [][(\E d \in Deliveries : PausedReply(d)) \/ \A c \in Convs :
          conv[c].paused /\ Len(conv'[c].log) > Len(conv[c].log) => Last(conv'[c].log) # "ai"]_vars

\* "Already assigned: keep that user" (pickRoute, 475): an escalation never
\* leaves without a user a conversation that has one.
AssigneeKept ==
    [][\A x \in Escalations : EscalateWrites(x) =>
          (conv[esc[x].conv].assigned => conv'[esc[x].conv].assigned)]_vars

\* A message is mirrored as typed on the phone only if somebody typed it there.
PhoneIsStaff == \A c \in Convs : \A e \in Entries(c) : e.by = "phone" => e.of = None

\* The conversation is closed on an ack only if the message before it is ours.
AckFollowsReply ==
    [][\A d \in Deliveries : ClosesOnAck(d) =>
          LET log == conv[h[d].conv].log
          IN  \E i \in 2 .. Len(log) : log[i] = [by |-> "customer", of |-> MsgOf(d)]
                                       /\ log[i - 1].by \in Business]_vars

\* The cron lowers the flag of a row only if the staff wrote in it after the
\* last thing the customer wrote: then somebody has attended it.
SweepSparesUnattended ==
    [][SweepClears => \A c \in sweep.ids : conv[c].flag =>
          \E i \in DOMAIN conv[c].log :
              /\ conv[c].log[i].by \in {"staff", "phone"}
              /\ \A j \in i .. Len(conv[c].log) : conv[c].log[j].by # "customer"]_vars

\* A flag left up after one of us had the last word goes down by itself, or the
\* customer writes again.
StaleFlagGoesDown ==
    \A c \in Convs :
        (conv[c].flag /\ conv[c].log # <<>> /\ Last(conv[c].log) \in Business)
        ~> (~conv[c].flag \/ Last(conv[c].log) = "customer")
=============================================================================
