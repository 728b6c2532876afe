------------------------------ MODULE LeadFunnel ------------------------------
(***************************************************************************)
(* The leads of one contact and its place in the funnel: the wholesale     *)
(* leads that an inbound message creates (lead-auto-assignment), what the  *)
(* panel does with leads (lead-management), the nudges that a cron sends   *)
(* for quotes nobody answered (lead-followup), and the stage that messages,*)
(* leads and orders write on the contact (contact-dimensions).  None of    *)
(* them waits for another, and each reads, awaits and writes by id.        *)
(***************************************************************************)
EXTENDS Naturals, FiniteSets

CONSTANTS
    Leads,        \* leads of the contact (bounds how many are ever created)
    Ticks,        \* activations of the follow-up cron that may overlap
    Inbounds,     \* inbound messages with a wholesale signal that may be in progress at once
    Writers,      \* handlers of contact-dimensions that may be in progress at once
    MaxAttempts,  \* LEAD_FOLLOWUP_MAX_ATTEMPTS
    MaxOrders,    \* bound on the orders of the contact
    Nil           \* no lead, no stage

ASSUME FunnelBounds == MaxAttempts \in Nat \ {0} /\ MaxOrders \in Nat

VARIABLES
    lead,      \* the Lead rows
    tick,      \* activations of the cron
    inbound,   \* those of Inbounds that found no open lead and have not created theirs
    writer,    \* handlers of contact-dimensions
    stage,     \* Contact.funnelStage
    orders,    \* how many orders the contact has
    nudges,    \* history: nudges stored for each lead
    auto,      \* history: leads created by an inbound message
    upsets     \* history: what the code does not guard against

funnelVars == <<lead, tick, inbound, writer, stage, orders, nudges, auto, upsets>>

LeadStatus == {"NEW", "CONTACTED", "QUOTE_SENT", "NEGOTIATING", "WON", "LOST"}
\* due: the time since the last nudge, or failing that since the last write, has
\* passed; recent: created within MAYORISTA_DEDUP_HOURS
Lead == [status : LeadStatus \cup {"none", "deleted"}, count : Nat, due : BOOLEAN, recent : BOOLEAN]
FunnelStage == {"CONSULTA", "COTIZADO", "NO_CONCRETO", "COMPRADOR", "FRECUENTE", "REACTIVAR"}
FunnelTick == [at : {"idle", "next", "count"}, todo : SUBSET Leads, lead : Leads \cup {Nil}]
\* target: the stage to be written; saw: the one that was read
Writer == [at : {"idle", "count", "read", "write"}, order : BOOLEAN,
           target : FunnelStage \cup {Nil}, saw : FunnelStage \cup {Nil}]
Upsets == {"overtaken", "uncounted", "raced", "reopened", "stale", "failed", "lost", "override"}

ASSUME NilIsNew == Nil \notin Leads \cup FunnelStage

NoLead == [status |-> "none", count |-> 0, due |-> FALSE, recent |-> FALSE]
NoTick == [at |-> "idle", todo |-> {}, lead |-> Nil]
NoWriter == [at |-> "idle", order |-> FALSE, target |-> Nil, saw |-> Nil]

FunnelInit ==
    /\ lead = [l \in Leads |-> NoLead]
    /\ tick = [k \in Ticks |-> NoTick]
    /\ inbound = {}
    /\ writer = [w \in Writers |-> NoWriter]
    /\ stage = Nil
    /\ orders = 0
    /\ nudges = [l \in Leads |-> 0]
    /\ auto = {}
    /\ upsets = {}

----------------------------------------------------------------------------
Exists(l) == lead[l].status \in LeadStatus
Upset(what, happened) == upsets' = upsets \cup (IF happened THEN {what} ELSE {})

\* Any write moves updatedAt, which counts until the first nudge.
Updated(l) == [lead[l] EXCEPT !.due = @ /\ lead[l].count > 0]

Creates(l) ==
    /\ lead[l].status = "none"
    /\ lead' = [lead EXCEPT ![l] = [NoLead EXCEPT !.status = "NEW", !.recent = TRUE]]

\* A handler of contact-dimensions is launched and nobody awaits it.
Launches(at, target) ==
    \E w \in Writers :
        /\ writer[w].at = "idle"
        /\ writer' = [writer EXCEPT ![w] = [at |-> at, order |-> at = "count",
                                            target |-> target, saw |-> Nil]]

----------------------------------------------------------------------------
(* Leads: the panel, Meta Ads, time *)

LeadCreated(l) ==
    /\ Creates(l)
    /\ UNCHANGED <<tick, inbound, writer, stage, orders, nudges, auto, upsets>>

\* updateLead, assignLead
LeadEdited(l) ==
    /\ Exists(l)
    /\ lead' = [lead EXCEPT ![l] = Updated(l)]
    /\ UNCHANGED <<tick, inbound, writer, stage, orders, nudges, auto, upsets>>

LeadDeleted(l) ==
    /\ Exists(l)
    /\ lead' = [lead EXCEPT ![l].status = "deleted"]
    /\ UNCHANGED <<tick, inbound, writer, stage, orders, nudges, auto, upsets>>

StageOf(status) ==
    CASE status = "QUOTE_SENT" -> "COTIZADO"
      [] status = "WON" -> "COMPRADOR"
      [] status = "LOST" -> "NO_CONCRETO"
      [] OTHER -> Nil

Closed == {"WON", "LOST"}

\* updateLeadStatus: any status follows any other.
LeadMoves(l, status) ==
    /\ Exists(l)
    /\ lead' = [lead EXCEPT ![l] = [Updated(l) EXCEPT !.status = status]]
    /\ IF StageOf(status) = Nil THEN UNCHANGED writer ELSE Launches("read", StageOf(status))
    /\ Upset("reopened", lead[l].status \in Closed /\ status \notin Closed)
    /\ UNCHANGED <<tick, inbound, stage, orders, nudges, auto>>

TimePasses(l) ==
    /\ Exists(l)
    /\ \/ lead' = [lead EXCEPT ![l].due = TRUE]
       \/ lead' = [lead EXCEPT ![l].recent = FALSE]
    /\ UNCHANGED <<tick, inbound, writer, stage, orders, nudges, auto, upsets>>

----------------------------------------------------------------------------
(* processInboundMessage *)

\* Mutant: a lead under negotiation does not count as open.
OpenStatusBeforeQuote == {"NEW", "CONTACTED", "QUOTE_SENT"}

OpenStatus == {"NEW", "CONTACTED", "QUOTE_SENT", "NEGOTIATING"}

Open(l) == lead[l].status \in {"NEW", "CONTACTED", "QUOTE_SENT", "NEGOTIATING"}

\* No open recent lead of the contact was found; the seller is looked up next.
InboundChecks(i) ==
    /\ i \notin inbound
    /\ \A l \in Leads : ~(lead[l].status \in OpenStatus /\ lead[l].recent)
    /\ inbound' = inbound \cup {i}
    /\ Upset("raced", inbound # {})
    /\ UNCHANGED <<lead, tick, writer, stage, orders, nudges, auto>>

InboundCreates(i, l) ==
    /\ i \in inbound
    /\ Creates(l)
    /\ auto' = auto \cup {l}
    /\ inbound' = inbound \ {i}
    /\ UNCHANGED <<tick, writer, stage, orders, nudges, upsets>>

InboundFails(i) ==
    /\ i \in inbound
    /\ inbound' = inbound \ {i}
    /\ UNCHANGED <<lead, tick, writer, stage, orders, nudges, auto, upsets>>

----------------------------------------------------------------------------
(* runDueFollowups *)

Due(l) ==
    /\ lead[l].status = "QUOTE_SENT"
    /\ lead[l].count < MaxAttempts
    /\ lead[l].due

TickReads(k) ==
    LET found == {l \in Leads : Due(l)} IN
    /\ tick[k].at = "idle" /\ found # {}
    /\ tick' = [tick EXCEPT ![k] = [NoTick EXCEPT !.at = "next", !.todo = found]]
    /\ UNCHANGED <<lead, inbound, writer, stage, orders, nudges, auto, upsets>>

TickGoesOn(k, todo) ==
    tick' = [tick EXCEPT ![k] = IF todo = {} THEN NoTick
                                ELSE [NoTick EXCEPT !.at = "next", !.todo = todo]]

\* No conversation on the channel of the lead, or an error before anything is written.
TickSkips(k, l) ==
    /\ tick[k].at = "next" /\ l \in tick[k].todo
    /\ TickGoesOn(k, tick[k].todo \ {l})
    /\ UNCHANGED <<lead, inbound, writer, stage, orders, nudges, auto, upsets>>

\* The list was read before the previous nudges were sent: the lead may have
\* been moved since, or another tick may have it.
Overtook(k, l) ==
    \/ ~Due(l)
    \/ \E j \in Ticks \ {k} : tick[j].at = "count" /\ tick[j].lead = l

\* The message is stored, and sent whatever comes of it.
TickNudges(k, l) ==
    /\ tick[k].at = "next" /\ l \in tick[k].todo
    /\ nudges' = [nudges EXCEPT ![l] = @ + 1]
    /\ tick' = [tick EXCEPT ![k] = [at |-> "count", todo |-> @.todo \ {l}, lead |-> l]]
    /\ Upset("overtaken", Overtook(k, l))
    /\ UNCHANGED <<lead, inbound, writer, stage, orders, auto>>

\* Mutant: a nudge that could not be sent is not counted.
TickCountsSent(k) ==
    LET l == tick[k].lead IN
    /\ tick[k].at = "count"
    /\ \/ lead' = lead
       \/ lead' = IF Exists(l) THEN [lead EXCEPT ![l].count = @ + 1, ![l].due = FALSE] ELSE lead
    /\ TickGoesOn(k, tick[k].todo)
    /\ UNCHANGED <<inbound, writer, stage, orders, nudges, auto, upsets>>

\* "Always increment counter & timestamp"; the row may be gone, an error like another.
TickCounts(k) ==
    LET l == tick[k].lead IN
    /\ tick[k].at = "count"
    /\ lead' = IF Exists(l) THEN [lead EXCEPT ![l].count = @ + 1, ![l].due = FALSE] ELSE lead
    /\ TickGoesOn(k, tick[k].todo)
    /\ UNCHANGED <<inbound, writer, stage, orders, nudges, auto, upsets>>

\* The update fails and the next lead follows, or the process restarts.
TickLoses(k) ==
    /\ \/ tick[k].at = "count" /\ TickGoesOn(k, tick[k].todo)
       \/ tick[k].at # "idle" /\ tick' = [tick EXCEPT ![k] = NoTick]
    /\ Upset("uncounted", tick[k].at = "count")
    /\ UNCHANGED <<lead, inbound, writer, stage, orders, nudges, auto>>

----------------------------------------------------------------------------
(* contact-dimensions *)

\* STAGE_ORDER; no stage comes before all
Rank(s) ==
    CASE s = "CONSULTA" -> 1 [] s = "COTIZADO" -> 2 [] s = "NO_CONCRETO" -> 3
      [] s = "COMPRADOR" -> 4 [] s = "FRECUENTE" -> 5 [] s = "REACTIVAR" -> 6 [] OTHER -> 0

\* classifyOnInbound
MessageArrives ==
    /\ Launches("read", "CONSULTA")
    /\ UNCHANGED <<lead, tick, inbound, stage, orders, nudges, auto, upsets>>

\* onOrderCreated
OrderCreated ==
    /\ orders < MaxOrders
    /\ orders' = orders + 1
    /\ Launches("count", Nil)
    /\ UNCHANGED <<lead, tick, inbound, stage, nudges, auto, upsets>>

WriterCounts(w) ==
    /\ writer[w].at = "count"
    /\ writer' = [writer EXCEPT ![w].at = "read",
                                ![w].target = IF orders >= 2 THEN "FRECUENTE" ELSE "COMPRADOR"]
    /\ UNCHANGED <<lead, tick, inbound, stage, orders, nudges, auto, upsets>>

\* Mutant: the stage is written whatever it was.
MovesAlways(from, to) == TRUE

\* Forward only, except NO_CONCRETO; CONSULTA only on a contact without a stage.
Moves(from, to) ==
    \/ to = "NO_CONCRETO"
    \/ Rank(from) < Rank(to)

WriterReads(w) ==
    /\ writer[w].at = "read"
    /\ writer' = [writer EXCEPT ![w] = IF Moves(stage, @.target)
                                       THEN [@ EXCEPT !.at = "write", !.saw = stage] ELSE NoWriter]
    /\ UNCHANGED <<lead, tick, inbound, stage, orders, nudges, auto, upsets>>

WriterWrites(w) ==
    /\ writer[w].at = "write"
    /\ stage' = writer[w].target
    /\ writer' = [writer EXCEPT ![w] = NoWriter]
    /\ upsets' = upsets \cup (IF stage # writer[w].saw THEN {"stale"} ELSE {})
                        \cup (IF writer[w].target = "NO_CONCRETO" THEN {"lost"} ELSE {})
    /\ UNCHANGED <<lead, tick, inbound, orders, nudges, auto>>

\* Errors are logged and nothing is done about them.
WriterFails(w) ==
    /\ writer[w].at # "idle"
    /\ writer' = [writer EXCEPT ![w] = NoWriter]
    /\ Upset("failed", writer[w].order)
    /\ UNCHANGED <<lead, tick, inbound, stage, orders, nudges, auto>>

\* updateContact of the panel writes any stage.
StageOverridden(s) ==
    /\ stage' = s
    /\ Upset("override", TRUE)
    /\ UNCHANGED <<lead, tick, inbound, writer, orders, nudges, auto>>

----------------------------------------------------------------------------
FunnelNext ==
    \/ \E l \in Leads : LeadCreated(l) \/ LeadEdited(l) \/ LeadDeleted(l) \/ TimePasses(l)
    \/ \E l \in Leads, status \in LeadStatus : LeadMoves(l, status)
    \/ \E i \in Inbounds : InboundChecks(i) \/ InboundFails(i)
    \/ \E i \in Inbounds, l \in Leads : InboundCreates(i, l)
    \/ \E k \in Ticks : TickReads(k) \/ TickCounts(k) \/ TickLoses(k)
    \/ \E k \in Ticks, l \in Leads : TickSkips(k, l) \/ TickNudges(k, l)
    \/ MessageArrives \/ OrderCreated
    \/ \E w \in Writers : WriterCounts(w) \/ WriterReads(w) \/ WriterWrites(w) \/ WriterFails(w)
    \/ \E s \in FunnelStage \cup {Nil} : StageOverridden(s)
FunnelSpec == FunnelInit /\ [][FunnelNext]_funnelVars

----------------------------------------------------------------------------
FunnelTypeOK ==
    /\ lead \in [Leads -> Lead]
    /\ tick \in [Ticks -> FunnelTick]
    /\ inbound \subseteq Inbounds
    /\ writer \in [Writers -> Writer]
    /\ stage \in FunnelStage \cup {Nil}
    /\ orders \in 0 .. MaxOrders
    /\ nudges \in [Leads -> Nat]
    /\ auto \subseteq Leads
    /\ upsets \subseteq Upsets

\* "total nudges per lead" (LEAD_FOLLOWUP_MAX_ATTEMPTS): a customer is not nudged
\* more often, unless two ticks overlapped on the lead or a nudge was not counted.
NudgesBounded ==
    upsets \cap {"overtaken", "uncounted"} = {} =>
        \A l \in Leads : nudges[l] <= MaxAttempts

\* "if there's already an open lead for this contact within the configured
\* window, skip": two messages leave one open lead, unless the second came
\* between the check and the creation of the first, or a lead was reopened.
OneOpenLead ==
    upsets \cap {"raced", "reopened"} = {} =>
        \A l, m \in auto : Open(l) /\ Open(m) /\ lead[l].recent /\ lead[m].recent => l = m

OrderBeingCounted == \E w \in Writers : writer[w].order

\* "first order -> COMPRADOR, 2nd+ -> FRECUENTE" (order-management) and "State
\* NEVER regresses on its own": once the handlers of its orders are done the
\* contact shows them, whatever messages and leads wrote meanwhile, unless one of
\* them wrote over a stage it had not read, failed, or a lead was lost.
OrdersShow ==
    upsets \cap {"stale", "failed", "lost", "override"} = {} /\ ~OrderBeingCounted =>
        /\ orders >= 1 => stage \in {"COMPRADOR", "FRECUENTE"}
        /\ orders >= 2 => stage = "FRECUENTE"

\* "NO_CONCRETO which can replace CONSULTA/COTIZADO": a buyer stays one when
\* another lead of his is lost (contact-dimensions 128-130).
LossSparesBuyers ==
    [][(stage \in {"COMPRADOR", "FRECUENTE"} /\ upsets' \cap {"stale", "override"} = {}) =>
          stage' # "NO_CONCRETO"]_funnelVars
=============================================================================
