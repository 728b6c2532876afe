-------------------------- MODULE LeadFunnel_proofs --------------------------
(***************************************************************************)
(* Theorems about LeadFunnel, for any number of leads, ticks, messages,    *)
(* orders and nudges.                                                      *)
(***************************************************************************)
EXTENDS LeadFunnel, TLAPS

Recent(l) == lead[l].recent
Statuses == LeadStatus \cup {"none", "deleted"}

----------------------------------------------------------------------------
(* The rows of leads *)

LEMMA LeadFields ==
    ASSUME NEW r \in Lead, NEW b \in BOOLEAN, NEW s \in Statuses, NEW n \in Nat
    PROVE  /\ [r EXCEPT !.due = b] \in Lead
           /\ [r EXCEPT !.recent = b] \in Lead
           /\ [r EXCEPT !.status = s] \in Lead
           /\ [r EXCEPT !.count = n, !.due = b] \in Lead
BY DEF Lead, Statuses

LEMMA UpdatedTyped ==
    ASSUME FunnelTypeOK, NEW l \in Leads
    PROVE  /\ Updated(l) \in Lead
           /\ Updated(l).status = lead[l].status
           /\ Updated(l).count = lead[l].count
           /\ Updated(l).recent = lead[l].recent
<1>1. PICK b \in BOOLEAN : b = (lead[l].due /\ lead[l].count > 0)
    OBVIOUS
<1>2. Updated(l) = [lead[l] EXCEPT !.due = b]
    BY <1>1 DEF Updated
<1>3. lead[l] \in Lead
    BY DEF FunnelTypeOK
<1>4. PICK r : r = lead[l]
    OBVIOUS
<1>5. Updated(l) = [r EXCEPT !.due = b] /\ r \in Lead
    BY <1>2, <1>3, <1>4
<1>6. /\ [r EXCEPT !.due = b].status = r.status
      /\ [r EXCEPT !.due = b].count = r.count
      /\ [r EXCEPT !.due = b].recent = r.recent
    BY <1>5 DEF Lead
<1>7. Updated(l) \in Lead
    BY <1>5 DEF Lead
<1> QED
    BY <1>4, <1>5, <1>6, <1>7, Zenon

LEMMA NewLead == NoLead \in Lead /\ [NoLead EXCEPT !.status = "NEW", !.recent = TRUE] \in Lead
BY DEF NoLead, Lead, LeadStatus

\* What a handler or the passing of time does to the row of a lead that exists.
TouchesLead(l) ==
    /\ Exists(l)
    /\ \E r \in Lead :
          /\ lead' = [lead EXCEPT ![l] = r]
          /\ r.count = lead[l].count /\ r.status # "none"
          /\ r.recent => Recent(l)
          /\ r.status \in OpenStatus =>
                \/ lead[l].status \in OpenStatus
                \/ lead[l].status \in Closed /\ "reopened" \in upsets'

LEMMA TouchedLead ==
    ASSUME FunnelTypeOK, NEW l \in Leads,
           \/ LeadEdited(l) \/ LeadDeleted(l) \/ TimePasses(l)
           \/ \E status \in LeadStatus : LeadMoves(l, status)
    PROVE  TouchesLead(l)
<1>0. lead[l] \in Lead /\ lead \in [Leads -> Lead]
    BY DEF FunnelTypeOK
<1>1. CASE LeadEdited(l)
    <2>1. Exists(l) /\ lead' = [lead EXCEPT ![l] = Updated(l)] /\ lead[l].status # "none"
        BY <1>1 DEF LeadEdited, Exists, LeadStatus
    <2>2. Updated(l).recent => Recent(l)
        BY UpdatedTyped DEF Recent
    <2>3. Updated(l).count = lead[l].count /\ Updated(l).status = lead[l].status
        BY UpdatedTyped
    <2> QED
        BY <2>1, <2>2, <2>3, UpdatedTyped DEF TouchesLead
<1>2. CASE LeadDeleted(l)
    <2>0. PICK r : r = [lead[l] EXCEPT !.status = "deleted"]
        OBVIOUS
    <2>1. Exists(l) /\ lead' = [lead EXCEPT ![l] = r]
        BY <1>0, <1>2, <2>0 DEF LeadDeleted
    <2>2. r \in Lead /\ r.recent = lead[l].recent /\ r.count = lead[l].count /\ r.status = "deleted"
        BY <1>0, <2>0 DEF Lead
    <2>3. r.recent => Recent(l)
        BY <2>2 DEF Recent
    <2> QED
        BY <2>1, <2>2, <2>3 DEF TouchesLead, OpenStatus
<1>3. CASE TimePasses(l)
    <2>0. PICK r : lead' = [lead EXCEPT ![l] = r]
                   /\ (r = [lead[l] EXCEPT !.due = TRUE] \/ r = [lead[l] EXCEPT !.recent = FALSE])
        BY <1>0, <1>3 DEF TimePasses
    <2>1. Exists(l) /\ lead[l].status # "none"
        BY <1>3 DEF TimePasses, Exists, LeadStatus
    <2>2. r \in Lead /\ r.count = lead[l].count /\ r.status = lead[l].status
        BY <1>0, <2>0 DEF Lead
    <2>3. r.recent = lead[l].recent \/ r.recent = FALSE
        BY <1>0, <2>0 DEF Lead
    <2>4. r.recent => Recent(l)
        BY <2>3 DEF Recent
    <2> QED
        BY <2>0, <2>1, <2>2, <2>4 DEF TouchesLead
<1>4. ASSUME NEW status \in LeadStatus, LeadMoves(l, status) PROVE TouchesLead(l)
    <2>0. PICK r : r = [Updated(l) EXCEPT !.status = status]
        OBVIOUS
    <2>1. Exists(l) /\ lead' = [lead EXCEPT ![l] = r]
        BY <1>4, <2>0 DEF LeadMoves
    <2>2. r \in Lead /\ r.recent = lead[l].recent /\ r.count = lead[l].count /\ r.status = status
        BY <2>0, UpdatedTyped DEF Lead
    <2>3. r.recent => Recent(l)
        BY <2>2 DEF Recent
    <2>4. status \in OpenStatus =>
              \/ lead[l].status \in OpenStatus
              \/ lead[l].status \in Closed /\ "reopened" \in upsets'
        BY <1>4 DEF LeadMoves, Upset, OpenStatus, Closed, Exists, LeadStatus
    <2>5. r.status # "none"
        BY <2>2 DEF LeadStatus
    <2> QED
        BY <2>1, <2>2, <2>3, <2>4, <2>5 DEF TouchesLead
<1> QED
    BY <1>1, <1>2, <1>3, <1>4

\* A lead that was none becomes a new one.
LEMMA CreatedLead ==
    ASSUME FunnelTypeOK, NEW l \in Leads, Creates(l)
    PROVE  /\ lead' \in [Leads -> Lead]
           /\ lead[l].status = "none" /\ lead'[l].status = "NEW" /\ lead'[l].count = 0
           /\ \A m \in Leads \ {l} : lead'[m] = lead[m]
BY NewLead DEF FunnelTypeOK, Creates, NoLead, Lead

\* What is done to a lead when its nudge is counted.
LEMMA CountedLead ==
    ASSUME FunnelTypeOK, NEW k \in Ticks, TickCounts(k)
    PROVE  /\ lead' \in [Leads -> Lead]
           /\ \A m \in Leads \ {tick[k].lead} : lead'[m] = lead[m]
           /\ \A m \in Leads : lead'[m].status = lead[m].status
           /\ \A m \in Leads : Recent(m)' = Recent(m)
           /\ tick[k].lead \in Leads /\ ~Exists(tick[k].lead) => lead' = lead
           /\ tick[k].lead \in Leads /\ Exists(tick[k].lead) =>
                lead'[tick[k].lead].count = lead[tick[k].lead].count + 1
<1> PICK l : l = tick[k].lead
    OBVIOUS
<1>1. CASE l \in Leads /\ Exists(l)
    <2>1. PICK n : n = lead[l].count + 1
        OBVIOUS
    <2>2. lead' = [lead EXCEPT ![l] = [lead[l] EXCEPT !.count = n, !.due = FALSE]]
        BY <1>1, <2>1 DEF TickCounts, FunnelTypeOK
    <2>3. n \in Nat /\ lead[l] \in Lead
        BY <1>1, <2>1 DEF FunnelTypeOK, Lead
    <2>4. /\ [lead[l] EXCEPT !.count = n, !.due = FALSE] \in Lead
          /\ [lead[l] EXCEPT !.count = n, !.due = FALSE].status = lead[l].status
          /\ [lead[l] EXCEPT !.count = n, !.due = FALSE].recent = lead[l].recent
          /\ [lead[l] EXCEPT !.count = n, !.due = FALSE].count = n
        BY <2>3, LeadFields DEF Lead
    <2>5. PICK r : r = [lead[l] EXCEPT !.count = n, !.due = FALSE]
        OBVIOUS
    <2> QED
        BY <1>1, <2>1, <2>2, <2>4, <2>5 DEF FunnelTypeOK, Recent
<1>2. CASE l \notin Leads \/ ~Exists(l)
    <2>1. lead' = lead
        BY <1>2 DEF TickCounts, FunnelTypeOK
    <2> QED
        BY <1>2, <2>1 DEF FunnelTypeOK, Recent
<1> QED
    BY <1>1, <1>2

----------------------------------------------------------------------------
(* The ticks *)

Counting(k) == tick[k].at = "count"

\* The tick goes on with the rest of its list, or ends.
LEMMA GoingOn ==
    ASSUME FunnelTypeOK, NEW k \in Ticks, NEW todo \in SUBSET Leads,
           TickGoesOn(k, todo) \/ tick' = [tick EXCEPT ![k] = NoTick]
    PROVE  /\ tick' \in [Ticks -> FunnelTick]
           /\ ~Counting(k)'
           /\ \A j \in Ticks \ {k} : tick'[j] = tick[j]
<1>1. NoTick \in FunnelTick /\ [NoTick EXCEPT !.at = "next", !.todo = todo] \in FunnelTick
    BY DEF FunnelTick, NoTick
<1>2. NoTick.at = "idle" /\ [NoTick EXCEPT !.at = "next", !.todo = todo].at = "next"
    BY DEF NoTick
<1>3. PICK r \in FunnelTick : r.at # "count" /\ tick' = [tick EXCEPT ![k] = r]
    BY <1>1, <1>2 DEF TickGoesOn
<1> QED
    BY <1>3 DEF FunnelTypeOK, Counting

LEMMA Nudging ==
    ASSUME FunnelTypeOK, NEW k \in Ticks, NEW l \in Leads, TickNudges(k, l)
    PROVE  /\ tick' \in [Ticks -> FunnelTick]
           /\ ~Counting(k) /\ Counting(k)' /\ tick'[k].lead = l
           /\ \A j \in Ticks \ {k} : tick'[j] = tick[j]
           /\ nudges' \in [Leads -> Nat] /\ nudges'[l] = nudges[l] + 1
           /\ \A m \in Leads \ {l} : nudges'[m] = nudges[m]
<1>1. PICK r : r = [at |-> "count", todo |-> tick[k].todo \ {l}, lead |-> l]
    OBVIOUS
<1>2. tick[k] \in FunnelTick
    BY DEF FunnelTypeOK
<1>3. r \in FunnelTick /\ r.at = "count" /\ r.lead = l
    BY <1>1, <1>2 DEF FunnelTick
<1>4. tick' = [tick EXCEPT ![k] = r] /\ tick[k].at = "next"
    BY <1>1 DEF TickNudges, FunnelTypeOK
<1>5. nudges' = [nudges EXCEPT ![l] = nudges[l] + 1]
    BY DEF TickNudges, FunnelTypeOK
<1> QED
    BY <1>3, <1>4, <1>5 DEF FunnelTypeOK, Counting

----------------------------------------------------------------------------
(* The handlers of contact-dimensions *)

Ordering(w) == writer[w].order

LEMMA NoWriterTyped == NoWriter \in Writer /\ NoWriter.at = "idle" /\ NoWriter.order = FALSE
BY DEF NoWriter, Writer

\* A handler is launched in an idle slot.
Launched(w, target) ==
    /\ writer[w].at = "idle"
    /\ writer'[w].at \in {"count", "read"} /\ writer'[w].target = target
    /\ Ordering(w)' <=> writer'[w].at = "count"
    /\ \A v \in Writers \ {w} : writer'[v] = writer[v]

LEMMA Launching ==
    ASSUME FunnelTypeOK, NEW at \in {"count", "read"}, NEW target \in FunnelStage \cup {Nil},
           Launches(at, target)
    PROVE  /\ writer' \in [Writers -> Writer]
           /\ \E w \in Writers : Launched(w, target) /\ writer'[w].at = at
<1>1. PICK w \in Writers :
          /\ writer[w].at = "idle"
          /\ writer' = [writer EXCEPT ![w] = [at |-> at, order |-> at = "count",
                                              target |-> target, saw |-> Nil]]
    BY DEF Launches
<1>2. PICK b \in BOOLEAN : b = (at = "count")
    OBVIOUS
<1>3. PICK r : r = [at |-> at, order |-> b, target |-> target, saw |-> Nil]
    OBVIOUS
<1>4. r \in Writer /\ r.at = at /\ r.target = target /\ r.order = b
    BY <1>3 DEF Writer
<1>5. writer' = [writer EXCEPT ![w] = r]
    BY <1>1, <1>2, <1>3
<1>6. /\ writer' \in [Writers -> Writer] /\ writer'[w] = r
      /\ \A v \in Writers \ {w} : writer'[v] = writer[v]
    BY <1>4, <1>5 DEF FunnelTypeOK
<1>7. Ordering(w)' <=> at = "count"
    BY <1>2, <1>4, <1>6 DEF Ordering
<1>8. writer'[w].at = at /\ writer'[w].target = target
    BY <1>4, <1>6
<1> QED
    BY <1>1, <1>6, <1>7, <1>8 DEF Launched

LEMMA Counted ==
    ASSUME FunnelTypeOK, NEW w \in Writers, WriterCounts(w)
    PROVE  /\ writer' \in [Writers -> Writer]
           /\ writer'[w].at = "read" /\ writer'[w].saw = writer[w].saw
           /\ writer'[w].target = IF orders >= 2 THEN "FRECUENTE" ELSE "COMPRADOR"
           /\ Ordering(w)' <=> Ordering(w)
           /\ \A v \in Writers \ {w} : writer'[v] = writer[v]
<1>1. PICK t \in FunnelStage : t = IF orders >= 2 THEN "FRECUENTE" ELSE "COMPRADOR"
    BY DEF FunnelStage
<1>2. writer' = [writer EXCEPT ![w].at = "read", ![w].target = t]
    BY <1>1 DEF WriterCounts
<1>3. writer[w] \in Writer
    BY DEF FunnelTypeOK
<1>4. writer'[w] = [writer[w] EXCEPT !.at = "read", !.target = t]
    BY <1>2 DEF FunnelTypeOK
<1>5. PICK r : r = [writer[w] EXCEPT !.at = "read", !.target = t]
    OBVIOUS
<1>6. /\ r \in Writer /\ r.at = "read" /\ r.target = t
      /\ r.saw = writer[w].saw
    BY <1>3, <1>5 DEF Writer
<1>7. r.order = writer[w].order
    BY <1>3, <1>5 DEF Writer
<1>8. Ordering(w)' <=> Ordering(w)
    BY <1>4, <1>5, <1>7 DEF Ordering
<1> QED
    BY <1>1, <1>2, <1>4, <1>5, <1>6, <1>8 DEF FunnelTypeOK

LEMMA ReadStage ==
    ASSUME FunnelTypeOK, NEW w \in Writers, WriterReads(w), Moves(stage, writer[w].target)
    PROVE  /\ writer' \in [Writers -> Writer]
           /\ writer'[w].at = "write" /\ writer'[w].saw = stage
           /\ writer'[w].target = writer[w].target
           /\ Ordering(w)' <=> Ordering(w)
           /\ \A v \in Writers \ {w} : writer'[v] = writer[v]
<1>1. writer[w] \in Writer /\ stage \in FunnelStage \cup {Nil}
    BY DEF FunnelTypeOK
<1>2. PICK r : r = [writer[w] EXCEPT !.at = "write", !.saw = stage]
    OBVIOUS
<1>3. writer' = [writer EXCEPT ![w] = r]
    BY <1>2 DEF WriterReads, FunnelTypeOK
<1>4. r \in Writer /\ r.at = "write" /\ r.saw = stage /\ r.target = writer[w].target
    BY <1>1, <1>2 DEF Writer
<1>5. r.order = writer[w].order
    BY <1>1, <1>2 DEF Writer
<1>6. /\ writer' \in [Writers -> Writer] /\ writer'[w] = r
      /\ \A v \in Writers \ {w} : writer'[v] = writer[v]
    BY <1>3, <1>4 DEF FunnelTypeOK
<1>7. Ordering(w)' <=> Ordering(w)
    BY <1>5, <1>6 DEF Ordering
<1> QED
    BY <1>4, <1>6, <1>7

\* A handler that ends.
LEMMA WriterEnds ==
    ASSUME FunnelTypeOK, NEW w \in Writers, writer' = [writer EXCEPT ![w] = NoWriter]
    PROVE  /\ writer' \in [Writers -> Writer]
           /\ writer'[w].at = "idle" /\ writer'[w].target = Nil /\ ~Ordering(w)'
           /\ \A v \in Writers \ {w} : writer'[v] = writer[v]
<1>1. writer' \in [Writers -> Writer] /\ writer'[w] = NoWriter
      /\ \A v \in Writers \ {w} : writer'[v] = writer[v]
    BY NoWriterTyped DEF FunnelTypeOK
<1>2. ~Ordering(w)'
    BY <1>1, NoWriterTyped DEF Ordering
<1> QED
    BY <1>1, <1>2 DEF NoWriter

----------------------------------------------------------------------------
(* The types *)

LEMMA InitTyped == FunnelInit => FunnelTypeOK
<1> SUFFICES ASSUME FunnelInit PROVE FunnelTypeOK
    OBVIOUS
<1>1. lead \in [Leads -> Lead]
    BY NewLead DEF FunnelInit
<1>2. tick \in [Ticks -> FunnelTick]
    BY DEF FunnelInit, NoTick, FunnelTick
<1>3. writer \in [Writers -> Writer]
    BY NoWriterTyped DEF FunnelInit
<1> QED
    BY <1>1, <1>2, <1>3, FunnelBounds DEF FunnelInit, FunnelTypeOK

LEMMA NotedUpset ==
    ASSUME FunnelTypeOK, NEW what \in Upsets, NEW happened, Upset(what, happened)
    PROVE  upsets \subseteq upsets' /\ upsets' \subseteq Upsets
BY DEF FunnelTypeOK, Upset

LEMMA LeadStepTyped ==
    ASSUME FunnelTypeOK, NEW l \in Leads,
           \/ LeadCreated(l) \/ LeadEdited(l) \/ LeadDeleted(l) \/ TimePasses(l)
           \/ \E status \in LeadStatus : LeadMoves(l, status)
    PROVE  FunnelTypeOK'
<1>1. CASE LeadCreated(l)
    <2>1. lead' \in [Leads -> Lead]
        BY <1>1, CreatedLead DEF LeadCreated
    <2> QED
        BY <1>1, <2>1 DEF LeadCreated, FunnelTypeOK
<1>2. CASE LeadEdited(l) \/ LeadDeleted(l) \/ TimePasses(l)
    <2>1. lead' \in [Leads -> Lead]
        BY <1>2, TouchedLead DEF TouchesLead, FunnelTypeOK
    <2> QED
        BY <1>2, <2>1 DEF LeadEdited, LeadDeleted, TimePasses, FunnelTypeOK
<1>3. ASSUME NEW status \in LeadStatus, LeadMoves(l, status) PROVE FunnelTypeOK'
    <2>1. lead' \in [Leads -> Lead]
        BY <1>3, TouchedLead DEF TouchesLead, FunnelTypeOK
    <2>2. writer' \in [Writers -> Writer]
        <3>1. StageOf(status) \in FunnelStage \cup {Nil}
            BY <1>3 DEF StageOf, FunnelStage, LeadStatus
        <3>2. CASE UNCHANGED writer
            BY <3>2 DEF FunnelTypeOK
        <3>3. CASE Launches("read", StageOf(status))
            BY <3>1, <3>3, Launching
        <3> QED
            BY <1>3, <3>2, <3>3 DEF LeadMoves
    <2>3. upsets' \subseteq Upsets
        BY <1>3, NotedUpset DEF LeadMoves, Upsets
    <2> QED
        BY <1>3, <2>1, <2>2, <2>3 DEF LeadMoves, FunnelTypeOK
<1> QED
    BY <1>1, <1>2, <1>3

LEMMA InboundStepTyped ==
    ASSUME FunnelTypeOK, NEW i \in Inbounds,
           \/ InboundChecks(i) \/ InboundFails(i)
           \/ \E l \in Leads : InboundCreates(i, l)
    PROVE  FunnelTypeOK'
<1>1. CASE InboundChecks(i)
    <2>1. upsets' \subseteq Upsets
        BY <1>1, NotedUpset DEF InboundChecks, Upsets
    <2> QED
        BY <1>1, <2>1 DEF InboundChecks, FunnelTypeOK
<1>2. CASE InboundFails(i)
    BY <1>2 DEF InboundFails, FunnelTypeOK
<1>3. ASSUME NEW l \in Leads, InboundCreates(i, l) PROVE FunnelTypeOK'
    <2>1. lead' \in [Leads -> Lead]
        BY <1>3, CreatedLead DEF InboundCreates
    <2> QED
        BY <1>3, <2>1 DEF InboundCreates, FunnelTypeOK
<1> QED
    BY <1>1, <1>2, <1>3

LEMMA TickStepTyped ==
    ASSUME FunnelTypeOK, NEW k \in Ticks,
           \/ TickReads(k) \/ TickCounts(k) \/ TickLoses(k)
           \/ \E l \in Leads : TickSkips(k, l) \/ TickNudges(k, l)
    PROVE  FunnelTypeOK'
<1>0. tick[k].todo \in SUBSET Leads
    BY DEF FunnelTypeOK, FunnelTick
<1>1. CASE TickReads(k)
    <2>1. PICK found \in SUBSET Leads :
              tick' = [tick EXCEPT ![k] = [NoTick EXCEPT !.at = "next", !.todo = found]]
        BY <1>1 DEF TickReads
    <2>2. [NoTick EXCEPT !.at = "next", !.todo = found] \in FunnelTick
        BY DEF NoTick, FunnelTick
    <2>3. tick' \in [Ticks -> FunnelTick]
        BY <2>1, <2>2 DEF FunnelTypeOK
    <2> QED
        BY <1>1, <2>3 DEF TickReads, FunnelTypeOK
<1>2. CASE TickCounts(k)
    <2>1. tick' \in [Ticks -> FunnelTick]
        BY <1>0, <1>2, GoingOn DEF TickCounts
    <2>2. lead' \in [Leads -> Lead]
        BY <1>2, CountedLead
    <2> QED
        BY <1>2, <2>1, <2>2 DEF TickCounts, FunnelTypeOK
<1>3. CASE TickLoses(k)
    <2>1. tick' \in [Ticks -> FunnelTick]
        BY <1>0, <1>3, GoingOn DEF TickLoses
    <2>2. upsets' \subseteq Upsets
        BY <1>3, NotedUpset DEF TickLoses, Upsets
    <2> QED
        BY <1>3, <2>1, <2>2 DEF TickLoses, FunnelTypeOK
<1>4. ASSUME NEW l \in Leads, TickSkips(k, l) PROVE FunnelTypeOK'
    <2>1. tick[k].todo \ {l} \in SUBSET Leads
        BY <1>0
    <2>2. tick' \in [Ticks -> FunnelTick]
        BY <1>4, <2>1, GoingOn DEF TickSkips
    <2> QED
        BY <1>4, <2>2 DEF TickSkips, FunnelTypeOK
<1>5. ASSUME NEW l \in Leads, TickNudges(k, l) PROVE FunnelTypeOK'
    <2>1. tick' \in [Ticks -> FunnelTick] /\ nudges' \in [Leads -> Nat]
        BY <1>5, Nudging
    <2>2. upsets' \subseteq Upsets
        BY <1>5, NotedUpset DEF TickNudges, Upsets
    <2> QED
        BY <1>5, <2>1, <2>2 DEF TickNudges, FunnelTypeOK
<1> QED
    BY <1>1, <1>2, <1>3, <1>4, <1>5

LEMMA WriterStepTyped ==
    ASSUME FunnelTypeOK,
           \/ MessageArrives \/ OrderCreated
           \/ \E w \in Writers :
                 WriterCounts(w) \/ WriterReads(w) \/ WriterWrites(w) \/ WriterFails(w)
           \/ \E s \in FunnelStage \cup {Nil} : StageOverridden(s)
    PROVE  FunnelTypeOK'
<1>1. CASE MessageArrives
    <2>1. "CONSULTA" \in FunnelStage \cup {Nil}
        BY DEF FunnelStage
    <2>2. writer' \in [Writers -> Writer]
        BY <1>1, <2>1, Launching DEF MessageArrives
    <2> QED
        BY <1>1, <2>2 DEF MessageArrives, FunnelTypeOK
<1>2. CASE OrderCreated
    <2>1. writer' \in [Writers -> Writer]
        BY <1>2, Launching DEF OrderCreated
    <2>2. orders' \in 0 .. MaxOrders
        BY <1>2, FunnelBounds DEF OrderCreated, FunnelTypeOK
    <2> QED
        BY <1>2, <2>1, <2>2 DEF OrderCreated, FunnelTypeOK
<1>3. ASSUME NEW w \in Writers, WriterCounts(w) PROVE FunnelTypeOK'
    <2>1. writer' \in [Writers -> Writer]
        BY <1>3, Counted
    <2> QED
        BY <1>3, <2>1 DEF WriterCounts, FunnelTypeOK
<1>4. ASSUME NEW w \in Writers, WriterReads(w) PROVE FunnelTypeOK'
    <2>1. CASE Moves(stage, writer[w].target)
        <3>1. writer' \in [Writers -> Writer]
            BY <1>4, <2>1, ReadStage
        <3> QED
            BY <1>4, <3>1 DEF WriterReads, FunnelTypeOK
    <2>2. CASE ~Moves(stage, writer[w].target)
        <3>1. writer' = [writer EXCEPT ![w] = NoWriter]
            BY <1>4, <2>2 DEF WriterReads, FunnelTypeOK
        <3>2. writer' \in [Writers -> Writer]
            BY <3>1, WriterEnds
        <3> QED
            BY <1>4, <3>2 DEF WriterReads, FunnelTypeOK
    <2> QED
        BY <2>1, <2>2
<1>5. ASSUME NEW w \in Writers, WriterWrites(w) PROVE FunnelTypeOK'
    <2>1. writer' \in [Writers -> Writer]
        BY <1>5, WriterEnds DEF WriterWrites
    <2>2. stage' \in FunnelStage \cup {Nil}
        BY <1>5 DEF WriterWrites, FunnelTypeOK, Writer
    <2>3. upsets' \subseteq Upsets
        BY <1>5 DEF WriterWrites, FunnelTypeOK, Upsets
    <2> QED
        BY <1>5, <2>1, <2>2, <2>3 DEF WriterWrites, FunnelTypeOK
<1>6. ASSUME NEW w \in Writers, WriterFails(w) PROVE FunnelTypeOK'
    <2>1. writer' \in [Writers -> Writer]
        BY <1>6, WriterEnds DEF WriterFails
    <2>2. upsets' \subseteq Upsets
        BY <1>6, NotedUpset DEF WriterFails, Upsets
    <2> QED
        BY <1>6, <2>1, <2>2 DEF WriterFails, FunnelTypeOK
<1>7. ASSUME NEW s \in FunnelStage \cup {Nil}, StageOverridden(s) PROVE FunnelTypeOK'
    <2>1. upsets' \subseteq Upsets
        BY <1>7, NotedUpset DEF StageOverridden, Upsets
    <2> QED
        BY <1>7, <2>1 DEF StageOverridden, FunnelTypeOK
<1> QED
    BY <1>1, <1>2, <1>3, <1>4, <1>5, <1>6, <1>7

LEMMA NextTyped ==
    ASSUME FunnelTypeOK, FunnelNext PROVE FunnelTypeOK'
BY LeadStepTyped, InboundStepTyped, TickStepTyped, WriterStepTyped DEF FunnelNext

\* What happened stays noted.
LEMMA UpsetsGrow == ASSUME FunnelNext PROVE upsets \subseteq upsets'
BY DEF FunnelNext, LeadCreated, LeadEdited, LeadDeleted, TimePasses, LeadMoves,
       InboundChecks, InboundFails, InboundCreates, TickReads, TickCounts, TickLoses,
       TickSkips, TickNudges, MessageArrives, OrderCreated, WriterCounts, WriterReads,
       WriterWrites, WriterFails, StageOverridden, Upset

----------------------------------------------------------------------------
(* The nudges *)

\* A row that was not created was not counted, and no message created it.
NotYet == \A l \in Leads : lead[l].status = "none" => lead[l].count = 0 /\ l \notin auto

NudgesCalm == upsets \cap {"overtaken", "uncounted"} = {}
CountingLead(l) == \E k \in Ticks : Counting(k) /\ tick[k].lead = l

\* A nudge is stored before it is counted, by one tick; a lead that is gone was
\* nudged no more than the others.
NudgesCounted ==
    NudgesCalm =>
        /\ \A k \in Ticks : Counting(k) => /\ tick[k].lead \in Leads
                                           /\ lead[tick[k].lead].status # "none"
        /\ \A j, k \in Ticks :
              Counting(j) /\ Counting(k) /\ tick[j].lead = tick[k].lead => j = k
        /\ \A l \in Leads :
              /\ nudges[l] <= MaxAttempts
              /\ lead[l].status # "deleted" =>
                    /\ CountingLead(l) => nudges[l] = lead[l].count + 1
                    /\ ~CountingLead(l) => nudges[l] = lead[l].count

NudgesInv == FunnelTypeOK /\ NotYet /\ NudgesCounted

\* A step that leaves the ticks and the nudges alone, and moves leads only among
\* those that exist, with their counts.
LEMMA NudgesSame ==
    ASSUME NudgesInv, UNCHANGED <<tick, nudges>>, upsets \subseteq upsets',
           \A l \in Leads : /\ lead'[l].count = lead[l].count
                            /\ lead'[l].status = "none" => lead[l].status = "none"
                            /\ lead[l].status = "deleted" => lead'[l].status = "deleted"
    PROVE  NudgesCounted'
<1>1. NudgesCalm' => NudgesCalm
    BY DEF NudgesCalm
<1>2. /\ \A k \in Ticks : Counting(k)' <=> Counting(k)
      /\ \A l \in Leads : CountingLead(l)' <=> CountingLead(l)
    BY DEF Counting, CountingLead
<1> QED
    BY <1>1, <1>2 DEF NudgesInv, NudgesCounted

LEMMA LeadsKeepNudges ==
    ASSUME NudgesInv, upsets \subseteq upsets', NEW l \in Leads,
           \/ LeadCreated(l) \/ LeadEdited(l) \/ LeadDeleted(l) \/ TimePasses(l)
           \/ \E status \in LeadStatus : LeadMoves(l, status)
           \/ \E i \in Inbounds : InboundCreates(i, l)
    PROVE  NotYet' /\ NudgesCounted'
<1>0. UNCHANGED <<tick, nudges>>
    BY DEF LeadCreated, LeadEdited, LeadDeleted, TimePasses, LeadMoves, InboundCreates
<1>1. CASE Creates(l)
    <2>1. /\ lead[l].status = "none" /\ lead'[l].status = "NEW" /\ lead'[l].count = 0
          /\ \A m \in Leads \ {l} : lead'[m] = lead[m]
        BY <1>1, CreatedLead DEF NudgesInv
    <2>2. lead[l].count = 0
        BY <2>1 DEF NudgesInv, NotYet
    <2>3. NudgesCounted'
        BY <1>0, <2>1, <2>2, NudgesSame
    <2>4. auto' \subseteq auto \cup {l}
        BY DEF LeadCreated, LeadEdited, LeadDeleted, TimePasses, LeadMoves, InboundCreates
    <2> QED
        BY <2>1, <2>3, <2>4 DEF NudgesInv, NotYet
<1>2. CASE ~Creates(l)
    <2>1. TouchesLead(l) /\ auto' = auto
        BY <1>2, TouchedLead DEF LeadCreated, LeadEdited, LeadDeleted, TimePasses, LeadMoves,
                                 InboundCreates, NudgesInv
    <2>2. lead[l].status # "none" /\ lead[l].status # "deleted"
        BY <2>1 DEF TouchesLead, Exists, LeadStatus
    <2>3. /\ lead'[l].count = lead[l].count /\ lead'[l].status # "none"
          /\ \A m \in Leads \ {l} : lead'[m] = lead[m]
        BY <2>1 DEF TouchesLead, NudgesInv, FunnelTypeOK
    <2>4. NudgesCounted'
        BY <1>0, <2>2, <2>3, NudgesSame
    <2> QED
        BY <2>1, <2>2, <2>3, <2>4 DEF NudgesInv, NotYet
<1> QED
    BY <1>1, <1>2

\* A tick that is no longer counting, and counted nothing.
LEMMA TickDropped ==
    ASSUME NudgesInv, upsets \subseteq upsets', NEW k \in Ticks,
           ~Counting(k), ~Counting(k)', \A j \in Ticks \ {k} : tick'[j] = tick[j],
           UNCHANGED <<lead, nudges>>
    PROVE  NudgesCounted'
<1>1. \A j \in Ticks : (Counting(j)' <=> Counting(j)) /\ (Counting(j) => tick'[j] = tick[j])
    BY DEF Counting
<1>2. \A l \in Leads : CountingLead(l)' <=> CountingLead(l)
    BY <1>1 DEF CountingLead
<1>3. NudgesCalm' => NudgesCalm
    BY DEF NudgesCalm
<1> QED
    BY <1>1, <1>2, <1>3 DEF NudgesInv, NudgesCounted

LEMMA TicksKeepNudges ==
    ASSUME NudgesInv, upsets \subseteq upsets', NEW k \in Ticks,
           \/ TickReads(k) \/ TickCounts(k) \/ TickLoses(k)
           \/ \E l \in Leads : TickSkips(k, l) \/ TickNudges(k, l)
    PROVE  NotYet' /\ NudgesCounted'
<1>0. FunnelTypeOK /\ tick[k].todo \in SUBSET Leads
    BY DEF NudgesInv, FunnelTypeOK, FunnelTick
<1>1. CASE TickReads(k)
    <2>1. PICK r : r.at = "next" /\ tick' = [tick EXCEPT ![k] = r] /\ ~Counting(k)
        BY <1>1 DEF TickReads, NoTick, Counting
    <2>2. ~Counting(k)' /\ \A j \in Ticks \ {k} : tick'[j] = tick[j]
        BY <1>0, <2>1 DEF FunnelTypeOK, Counting
    <2>3. UNCHANGED <<lead, nudges, auto>>
        BY <1>1 DEF TickReads
    <2>4. NudgesCounted'
        BY <2>1, <2>2, <2>3, TickDropped
    <2> QED
        BY <2>3, <2>4 DEF NudgesInv, NotYet
<1>2. ASSUME NEW l \in Leads, TickSkips(k, l) PROVE NotYet' /\ NudgesCounted'
    <2>1. tick[k].todo \ {l} \in SUBSET Leads /\ ~Counting(k)
        BY <1>0, <1>2 DEF TickSkips, Counting
    <2>2. ~Counting(k)' /\ \A j \in Ticks \ {k} : tick'[j] = tick[j]
        BY <1>0, <1>2, <2>1, GoingOn DEF TickSkips
    <2>3. UNCHANGED <<lead, nudges, auto>>
        BY <1>2 DEF TickSkips
    <2>4. NudgesCounted'
        BY <2>1, <2>2, <2>3, TickDropped
    <2> QED
        BY <2>3, <2>4 DEF NudgesInv, NotYet
<1>3. CASE TickLoses(k)
    <2>1. ~Counting(k)' /\ \A j \in Ticks \ {k} : tick'[j] = tick[j]
        BY <1>0, <1>3, GoingOn DEF TickLoses
    <2>2. UNCHANGED <<lead, nudges, auto>>
        BY <1>3 DEF TickLoses
    <2>3. ASSUME Counting(k) PROVE NudgesCounted'
        <3>1. "uncounted" \in upsets'
            BY <1>3, <2>3 DEF TickLoses, Upset, Counting
        <3> QED
            BY <3>1 DEF NudgesCounted, NudgesCalm
    <2>4. ASSUME ~Counting(k) PROVE NudgesCounted'
        BY <2>1, <2>2, <2>4, TickDropped
    <2>5. NotYet'
        BY <2>2 DEF NudgesInv, NotYet
    <2> QED
        BY <2>3, <2>4, <2>5
<1>4. ASSUME NEW l \in Leads, TickNudges(k, l) PROVE NotYet' /\ NudgesCounted'
    <2>1. UNCHANGED <<lead, auto>>
        BY <1>4 DEF TickNudges
    <2>2. SUFFICES ASSUME NudgesCalm' PROVE NudgesCounted'
        BY <2>1 DEF NudgesInv, NotYet, NudgesCounted
    <2>3. NudgesCalm /\ ~Overtook(k, l)
        BY <1>4, <2>2 DEF NudgesCalm, TickNudges, Upset
    <2>4. /\ ~Counting(k) /\ Counting(k)' /\ tick'[k].lead = l
          /\ \A j \in Ticks \ {k} : tick'[j] = tick[j]
          /\ nudges' \in [Leads -> Nat] /\ nudges'[l] = nudges[l] + 1
          /\ \A m \in Leads \ {l} : nudges'[m] = nudges[m]
        BY <1>0, <1>4, Nudging
    <2>5. /\ lead[l].status = "QUOTE_SENT" /\ lead[l].count < MaxAttempts
          /\ ~CountingLead(l)
        BY <2>3, <2>4 DEF Overtook, Due, CountingLead, Counting
    <2>6. \A j \in Ticks : (Counting(j)' <=> Counting(j) \/ j = k)
                           /\ (Counting(j) => tick'[j] = tick[j])
        BY <2>4 DEF Counting
    <2>7. CountingLead(l)' /\ \A m \in Leads \ {l} : CountingLead(m)' <=> CountingLead(m)
        BY <2>4, <2>6 DEF CountingLead
    <2>8. nudges[l] = lead[l].count /\ lead[l].count \in Nat
        BY <1>0, <2>3, <2>5 DEF NudgesInv, NudgesCounted, FunnelTypeOK, Lead
    <2>9. \A j \in Ticks : Counting(j)' => /\ tick'[j].lead \in Leads
                                           /\ lead'[tick'[j].lead].status # "none"
        BY <2>1, <2>3, <2>4, <2>5, <2>6 DEF NudgesInv, NudgesCounted
    <2>10. \A i, j \in Ticks :
               Counting(i)' /\ Counting(j)' /\ tick'[i].lead = tick'[j].lead => i = j
        BY <2>3, <2>4, <2>5, <2>6 DEF NudgesInv, NudgesCounted, CountingLead
    <2>11. \A m \in Leads :
               /\ nudges'[m] <= MaxAttempts
               /\ lead'[m].status # "deleted" =>
                     /\ CountingLead(m)' => nudges'[m] = lead'[m].count + 1
                     /\ ~CountingLead(m)' => nudges'[m] = lead'[m].count
        BY <2>1, <2>3, <2>4, <2>5, <2>7, <2>8, FunnelBounds DEF NudgesInv, NudgesCounted
    <2> QED
        BY <2>9, <2>10, <2>11 DEF NudgesCounted
<1>5. CASE TickCounts(k)
    <2> PICK l : l = tick[k].lead
        OBVIOUS
    <2>1. /\ Counting(k) /\ ~Counting(k)'
          /\ \A j \in Ticks \ {k} : tick'[j] = tick[j]
        BY <1>0, <1>5, GoingOn DEF TickCounts, Counting
    <2>2. UNCHANGED <<nudges, auto, upsets>>
        BY <1>5 DEF TickCounts
    <2>3. /\ \A m \in Leads \ {l} : lead'[m] = lead[m]
          /\ \A m \in Leads : lead'[m].status = lead[m].status
          /\ l \in Leads /\ ~Exists(l) => lead' = lead
          /\ l \in Leads /\ Exists(l) => lead'[l].count = lead[l].count + 1
        BY <1>0, <1>5, CountedLead
    <2>4. NotYet'
        BY <2>2, <2>3 DEF NudgesInv, NotYet, Exists, LeadStatus
    <2>5. SUFFICES ASSUME NudgesCalm' PROVE NudgesCounted'
        BY <2>4 DEF NudgesCounted
    <2>6. NudgesCalm /\ l \in Leads /\ lead[l].status # "none"
        BY <2>1, <2>2, <2>5 DEF NudgesCalm, NudgesInv, NudgesCounted
    <2>7. \A j \in Ticks : (Counting(j)' <=> Counting(j) /\ j # k)
                           /\ (Counting(j)' => tick'[j] = tick[j])
        BY <2>1 DEF Counting
    <2>8. ~CountingLead(l)' /\ CountingLead(l)
        BY <2>1, <2>6, <2>7 DEF CountingLead, NudgesInv, NudgesCounted
    <2>9. \A m \in Leads \ {l} : CountingLead(m)' <=> CountingLead(m)
        BY <2>7 DEF CountingLead
    <2>10. lead[l].status # "deleted" => Exists(l)
        BY <1>0, <2>6 DEF Exists, FunnelTypeOK, Lead
    <2>11. \A j \in Ticks : Counting(j)' => /\ tick'[j].lead \in Leads
                                            /\ lead'[tick'[j].lead].status # "none"
        BY <2>3, <2>6, <2>7 DEF NudgesInv, NudgesCounted
    <2>12. \A i, j \in Ticks :
               Counting(i)' /\ Counting(j)' /\ tick'[i].lead = tick'[j].lead => i = j
        BY <2>6, <2>7 DEF NudgesInv, NudgesCounted
    <2>13. \A m \in Leads :
               /\ nudges'[m] <= MaxAttempts
               /\ lead'[m].status # "deleted" =>
                     /\ CountingLead(m)' => nudges'[m] = lead'[m].count + 1
                     /\ ~CountingLead(m)' => nudges'[m] = lead'[m].count
        BY <2>2, <2>3, <2>6, <2>8, <2>9, <2>10 DEF NudgesInv, NudgesCounted
    <2> QED
        BY <2>11, <2>12, <2>13 DEF NudgesCounted
<1> QED
    BY <1>1, <1>2, <1>3, <1>4, <1>5

LEMMA RestKeepsNudges ==
    ASSUME NudgesInv, upsets \subseteq upsets', UNCHANGED <<lead, tick, nudges, auto>>
    PROVE  NotYet' /\ NudgesCounted'
<1>1. NudgesCounted'
    BY NudgesSame
<1> QED
    BY <1>1 DEF NudgesInv, NotYet

LEMMA NudgesKept == ASSUME NudgesInv, FunnelNext PROVE NudgesInv'
<1>1. upsets \subseteq upsets'
    BY UpsetsGrow
<1>2. FunnelTypeOK'
    BY NextTyped DEF NudgesInv
<1>3. CASE \/ \E l \in Leads : LeadCreated(l) \/ LeadEdited(l) \/ LeadDeleted(l) \/ TimePasses(l)
           \/ \E l \in Leads, status \in LeadStatus : LeadMoves(l, status)
           \/ \E i \in Inbounds, l \in Leads : InboundCreates(i, l)
    BY <1>1, <1>2, <1>3, LeadsKeepNudges DEF NudgesInv
<1>4. CASE \/ \E k \in Ticks : TickReads(k) \/ TickCounts(k) \/ TickLoses(k)
           \/ \E k \in Ticks, l \in Leads : TickSkips(k, l) \/ TickNudges(k, l)
    BY <1>1, <1>2, <1>4, TicksKeepNudges DEF NudgesInv
<1>5. CASE UNCHANGED <<lead, tick, nudges, auto>>
    BY <1>1, <1>2, <1>5, RestKeepsNudges DEF NudgesInv
<1>6. ASSUME \/ \E i \in Inbounds : InboundChecks(i) \/ InboundFails(i)
             \/ MessageArrives \/ OrderCreated
             \/ \E w \in Writers :
                   WriterCounts(w) \/ WriterReads(w) \/ WriterWrites(w) \/ WriterFails(w)
             \/ \E s \in FunnelStage \cup {Nil} : StageOverridden(s)
      PROVE  UNCHANGED <<lead, tick, nudges, auto>>
    BY <1>6 DEF InboundChecks, InboundFails, MessageArrives, OrderCreated, WriterCounts,
                WriterReads, WriterWrites, WriterFails, StageOverridden
<1> QED
    BY <1>3, <1>4, <1>5, <1>6 DEF FunnelNext

----------------------------------------------------------------------------
(* The leads that messages create *)

OpensCalm == upsets \cap {"raced", "reopened"} = {}

OpenRecent(l) == lead[l].status \in OpenStatus /\ Recent(l)

\* While a message is about to create a lead there is no open recent one of a message.
OpensOne ==
    OpensCalm =>
        /\ \A i, j \in inbound : i = j
        /\ inbound # {} => \A l \in auto : ~OpenRecent(l)
        /\ \A l, m \in auto : OpenRecent(l) /\ OpenRecent(m) => l = m

OpensInv == FunnelTypeOK /\ NotYet /\ OpensOne

\* A step that makes no lead open or recent again.
LEMMA OpensSame ==
    ASSUME OpensInv, upsets \subseteq upsets', inbound' \subseteq inbound, auto' = auto,
           OpensCalm' => \A l \in auto : OpenRecent(l)' => OpenRecent(l)
    PROVE  OpensOne'
<1>1. OpensCalm' => OpensCalm
    BY DEF OpensCalm
<1> QED
    BY <1>1 DEF OpensInv, OpensOne

LEMMA LeadsKeepOpens ==
    ASSUME OpensInv, upsets \subseteq upsets', NEW l \in Leads,
           \/ LeadCreated(l) \/ LeadEdited(l) \/ LeadDeleted(l) \/ TimePasses(l)
           \/ \E status \in LeadStatus : LeadMoves(l, status)
    PROVE  OpensOne'
<1>0. inbound' = inbound /\ auto' = auto
    BY DEF LeadCreated, LeadEdited, LeadDeleted, TimePasses, LeadMoves
<1>1. CASE LeadCreated(l)
    <2>1. lead[l].status = "none" /\ \A m \in Leads \ {l} : lead'[m] = lead[m]
        BY <1>1, CreatedLead DEF LeadCreated, OpensInv
    <2>2. l \notin auto /\ auto \subseteq Leads
        BY <2>1 DEF OpensInv, NotYet, FunnelTypeOK
    <2>3. \A m \in auto : lead'[m].status = lead[m].status /\ (Recent(m)' => Recent(m))
        BY <2>1, <2>2 DEF Recent
    <2>4. \A m \in auto : OpenRecent(m)' => OpenRecent(m)
        BY <2>3 DEF OpenRecent
    <2> QED
        BY <1>0, <2>4, OpensSame
<1>2. CASE ~LeadCreated(l)
    <2>1. TouchesLead(l)
        BY <1>2, TouchedLead DEF OpensInv
    <2>2. PICK r \in Lead :
              /\ lead' = [lead EXCEPT ![l] = r]
              /\ r.recent => Recent(l)
              /\ r.status \in OpenStatus =>
                    \/ lead[l].status \in OpenStatus
                    \/ lead[l].status \in Closed /\ "reopened" \in upsets'
        BY <2>1 DEF TouchesLead
    <2>3. lead'[l] = r /\ \A m \in Leads \ {l} : lead'[m] = lead[m]
        BY <2>2 DEF OpensInv, FunnelTypeOK
    <2>4. \A m \in Leads : Recent(m)' => Recent(m)
        BY <2>2, <2>3 DEF Recent
    <2>5. OpensCalm' => "reopened" \notin upsets'
        BY DEF OpensCalm
    <2>6. \A m \in Leads : OpensCalm' /\ lead'[m].status \in OpenStatus =>
                               lead[m].status \in OpenStatus
        BY <2>2, <2>3, <2>5
    <2>7. auto \subseteq Leads
        BY DEF OpensInv, FunnelTypeOK
    <2>8. OpensCalm' => \A m \in auto : OpenRecent(m)' => OpenRecent(m)
        BY <2>4, <2>6, <2>7 DEF OpenRecent
    <2> QED
        BY <1>0, <2>8, OpensSame
<1> QED
    BY <1>1, <1>2

LEMMA MessagesKeepOpens ==
    ASSUME OpensInv, upsets \subseteq upsets', NEW i \in Inbounds,
           \/ InboundChecks(i) \/ InboundFails(i)
           \/ \E l \in Leads : InboundCreates(i, l)
    PROVE  OpensOne'
<1>0. auto \subseteq Leads
    BY DEF OpensInv, FunnelTypeOK
<1>1. CASE InboundChecks(i)
    <2>1. SUFFICES ASSUME OpensCalm' PROVE OpensOne'
        BY DEF OpensOne
    <2>2. inbound = {} /\ OpensCalm
        BY <1>1, <2>1 DEF InboundChecks, Upset, OpensCalm
    <2>3. /\ inbound' = {i} /\ lead' = lead /\ auto' = auto
          /\ \A l \in Leads : ~OpenRecent(l)
        BY <1>1, <2>2 DEF InboundChecks, Recent, OpenRecent
    <2>4. \A l \in Leads : ~OpenRecent(l)'
        BY <2>3 DEF Recent, OpenRecent
    <2> QED
        BY <1>0, <2>3, <2>4 DEF OpensOne
<1>2. CASE InboundFails(i)
    <2>1. \A l \in auto : OpenRecent(l)' => OpenRecent(l)
        BY <1>2 DEF InboundFails, Recent, OpenRecent
    <2> QED
        BY <1>2, <2>1, OpensSame DEF InboundFails
<1>3. ASSUME NEW l \in Leads, InboundCreates(i, l) PROVE OpensOne'
    <2>1. SUFFICES ASSUME OpensCalm' PROVE OpensOne'
        BY DEF OpensOne
    <2>2. OpensCalm /\ i \in inbound /\ inbound' = inbound \ {i} /\ auto' = auto \cup {l}
        BY <1>3, <2>1 DEF InboundCreates, OpensCalm
    <2>3. /\ \A j \in inbound : j = i
          /\ \A m \in auto : ~OpenRecent(m)
        BY <2>2 DEF OpensInv, OpensOne
    <2>4. \A m \in Leads \ {l} : lead'[m] = lead[m]
        BY <1>3, CreatedLead DEF InboundCreates, OpensInv
    <2>5. \A m \in Leads \ {l} : OpenRecent(m)' <=> OpenRecent(m)
        BY <2>4 DEF Recent, OpenRecent
    <2>6. \A m \in auto \ {l} : ~OpenRecent(m)'
        BY <1>0, <2>3, <2>5
    <2> QED
        BY <2>2, <2>3, <2>6 DEF OpensOne
<1> QED
    BY <1>1, <1>2, <1>3

LEMMA OpensKept == ASSUME OpensInv, NotYet', FunnelNext PROVE OpensInv'
<1>1. upsets \subseteq upsets'
    BY UpsetsGrow
<1>2. FunnelTypeOK'
    BY NextTyped DEF OpensInv
<1>3. CASE \/ \E l \in Leads : LeadCreated(l) \/ LeadEdited(l) \/ LeadDeleted(l) \/ TimePasses(l)
           \/ \E l \in Leads, status \in LeadStatus : LeadMoves(l, status)
    BY <1>1, <1>2, <1>3, LeadsKeepOpens DEF OpensInv
<1>4. CASE \/ \E i \in Inbounds : InboundChecks(i) \/ InboundFails(i)
           \/ \E i \in Inbounds, l \in Leads : InboundCreates(i, l)
    BY <1>1, <1>2, <1>4, MessagesKeepOpens DEF OpensInv
<1>5. ASSUME NEW k \in Ticks, TickCounts(k) PROVE OpensInv'
    <2>1. UNCHANGED <<inbound, auto>> /\ auto \subseteq Leads
        BY <1>5 DEF TickCounts, OpensInv, FunnelTypeOK
    <2>2. \A l \in Leads : OpenRecent(l)' => OpenRecent(l)
        BY <1>5, CountedLead DEF OpensInv, OpenRecent
    <2>3. OpensOne'
        BY <1>1, <2>1, <2>2, OpensSame
    <2> QED
        BY <1>2, <2>3 DEF OpensInv
<1>6. CASE UNCHANGED <<lead, inbound, auto>>
    <2>1. \A l \in auto : OpenRecent(l)' => OpenRecent(l)
        BY <1>6 DEF Recent, OpenRecent
    <2>2. OpensOne'
        BY <1>1, <1>6, <2>1, OpensSame
    <2> QED
        BY <1>2, <2>2 DEF OpensInv
<1>7. ASSUME \/ \E k \in Ticks : TickReads(k) \/ TickLoses(k)
             \/ \E k \in Ticks, l \in Leads : TickSkips(k, l) \/ TickNudges(k, l)
             \/ MessageArrives \/ OrderCreated
             \/ \E w \in Writers :
                   WriterCounts(w) \/ WriterReads(w) \/ WriterWrites(w) \/ WriterFails(w)
             \/ \E s \in FunnelStage \cup {Nil} : StageOverridden(s)
      PROVE  UNCHANGED <<lead, inbound, auto>>
    BY <1>7 DEF TickReads, TickLoses, TickSkips, TickNudges, MessageArrives, OrderCreated,
                WriterCounts, WriterReads, WriterWrites, WriterFails, StageOverridden
<1> QED
    BY <1>3, <1>4, <1>5, <1>6, <1>7 DEF FunnelNext

----------------------------------------------------------------------------
(* The stage and the orders *)

StageCalm == upsets \cap {"stale", "failed", "lost", "override"} = {}

\* What a handler is about to write: it moves the stage it read forward.
WritersWell ==
    \A w \in Writers :
        /\ Ordering(w) => writer[w].at # "idle"
        /\ writer[w].at \in {"read", "write"} => writer[w].target # "REACTIVAR"
        /\ Ordering(w) /\ writer[w].at \in {"read", "write"} =>
              writer[w].target \in {"COMPRADOR", "FRECUENTE"}
        /\ writer[w].at = "write" => \/ writer[w].target = "NO_CONCRETO"
                                     \/ Rank(writer[w].saw) < Rank(writer[w].target)

Repeated(w) == Ordering(w) /\ (writer[w].at = "count" \/ writer[w].target = "FRECUENTE")

\* The contact shows its orders, or a handler of one of them is about to see to it.
OrdersComing ==
    StageCalm =>
        /\ stage \notin {"REACTIVAR", "NO_CONCRETO"}
        /\ orders >= 1 => Rank(stage) >= 4 \/ \E w \in Writers : Ordering(w)
        /\ orders >= 2 => Rank(stage) >= 5 \/ \E w \in Writers : Repeated(w)

StageInv == FunnelTypeOK /\ WritersWell /\ OrdersComing

LEMMA Ranks == \A s : Rank(s) \in 0 .. 6
BY DEF Rank

\* A handler that is launched for a lead or a message leaves the others.
LEMMA LaunchKeeps ==
    ASSUME StageInv, NEW w \in Writers, NEW target, Launched(w, target),
           writer'[w].at = "count" \/ target # "REACTIVAR"
    PROVE  /\ WritersWell'
           /\ \A v \in Writers : Ordering(v) => Ordering(v)'
           /\ \A v \in Writers : Repeated(v) => Repeated(v)'
<1>1. \A v \in Writers \ {w} : /\ Ordering(v)' <=> Ordering(v)
                               /\ Repeated(v)' <=> Repeated(v)
                               /\ writer'[v] = writer[v]
    BY DEF Launched, Ordering, Repeated
<1>2. ~Ordering(w) /\ ~Repeated(w)
    BY DEF Launched, StageInv, WritersWell, Repeated
<1>3. /\ Ordering(w)' <=> writer'[w].at = "count"
      /\ writer'[w].at \in {"count", "read"} /\ writer'[w].target = target
    BY DEF Launched
<1> QED
    BY <1>1, <1>2, <1>3 DEF StageInv, WritersWell

\* A handler that ends leaves the others.
LEMMA EndKeeps ==
    ASSUME StageInv, NEW w \in Writers, writer' = [writer EXCEPT ![w] = NoWriter]
    PROVE  /\ WritersWell'
           /\ \A v \in Writers \ {w} : /\ Ordering(v)' <=> Ordering(v)
                                       /\ Repeated(v)' <=> Repeated(v)
<1>1. /\ writer'[w].at = "idle" /\ writer'[w].target = Nil /\ ~Ordering(w)'
      /\ \A v \in Writers \ {w} : writer'[v] = writer[v]
    BY WriterEnds DEF StageInv
<1>2. \A v \in Writers \ {w} : (Ordering(v)' <=> Ordering(v)) /\ (Repeated(v)' <=> Repeated(v))
    BY <1>1 DEF Ordering, Repeated
<1> QED
    BY <1>1, <1>2 DEF StageInv, WritersWell

\* The stage and the orders are as they were, and so are the handlers of orders.
LEMMA ComingSame ==
    ASSUME StageInv, UNCHANGED <<stage, orders>>, upsets \subseteq upsets',
           \A w \in Writers : Ordering(w) => Ordering(w)',
           \A w \in Writers : Repeated(w) => Repeated(w)'
    PROVE  OrdersComing'
<1>1. StageCalm' => StageCalm
    BY DEF StageCalm
<1> QED
    BY <1>1 DEF StageInv, OrdersComing

LEMMA LeadsKeepStage ==
    ASSUME StageInv, upsets \subseteq upsets', NEW l \in Leads, NEW status \in LeadStatus,
           LeadMoves(l, status)
    PROVE  WritersWell' /\ OrdersComing'
<1>0. UNCHANGED <<stage, orders>>
    BY DEF LeadMoves
<1>1. CASE UNCHANGED writer
    <2>1. \A w \in Writers : (Ordering(w)' <=> Ordering(w)) /\ (Repeated(w)' <=> Repeated(w))
        BY <1>1 DEF Ordering, Repeated
    <2> QED
        BY <1>0, <1>1, <2>1, ComingSame DEF StageInv, WritersWell
<1>2. CASE Launches("read", StageOf(status)) /\ StageOf(status) # Nil
    <2>1. StageOf(status) \in FunnelStage /\ StageOf(status) # "REACTIVAR"
        BY <1>2 DEF StageOf, FunnelStage, LeadStatus
    <2>2. PICK w \in Writers : Launched(w, StageOf(status))
        BY <1>2, <2>1, Launching DEF StageInv
    <2> QED
        BY <1>0, <2>1, <2>2, LaunchKeeps, ComingSame
<1> QED
    BY <1>1, <1>2 DEF LeadMoves

LEMMA ArrivalsKeepStage ==
    ASSUME StageInv, upsets \subseteq upsets', MessageArrives \/ OrderCreated
    PROVE  WritersWell' /\ OrdersComing'
<1>1. CASE MessageArrives
    <2>1. PICK w \in Writers : Launched(w, "CONSULTA")
        BY <1>1, Launching DEF StageInv, MessageArrives, FunnelStage
    <2>2. UNCHANGED <<stage, orders>>
        BY <1>1 DEF MessageArrives
    <2> QED
        BY <2>1, <2>2, LaunchKeeps, ComingSame
<1>2. CASE OrderCreated
    <2>1. PICK w \in Writers : Launched(w, Nil) /\ writer'[w].at = "count"
        BY <1>2, Launching DEF StageInv, OrderCreated
    <2>2. WritersWell'
        BY <2>1, LaunchKeeps
    <2>3. Ordering(w)' /\ Repeated(w)'
        BY <2>1 DEF Launched, Repeated
    <2>4. stage' = stage /\ upsets' = upsets
        BY <1>2 DEF OrderCreated
    <2>5. StageCalm' => stage' \notin {"REACTIVAR", "NO_CONCRETO"}
        BY <2>4 DEF StageInv, OrdersComing, StageCalm
    <2> QED
        BY <2>2, <2>3, <2>5 DEF OrdersComing
<1> QED
    BY <1>1, <1>2

LEMMA CountKeepsStage ==
    ASSUME StageInv, upsets \subseteq upsets', NEW w \in Writers, WriterCounts(w)
    PROVE  WritersWell' /\ OrdersComing'
<1>1. /\ writer[w].at = "count" /\ UNCHANGED <<stage, orders, upsets>>
      /\ writer'[w].at = "read"
      /\ writer'[w].target = IF orders >= 2 THEN "FRECUENTE" ELSE "COMPRADOR"
      /\ \A v \in Writers \ {w} : writer'[v] = writer[v]
    BY Counted DEF WriterCounts, StageInv
<1>2. \A v \in Writers : Ordering(v)' <=> Ordering(v)
    BY <1>1, Counted DEF StageInv, Ordering
<1>3. WritersWell'
    BY <1>1, <1>2 DEF StageInv, WritersWell
<1>4. orders >= 2 => \A v \in Writers : Repeated(v) => Repeated(v)'
    BY <1>1, <1>2 DEF Repeated
<1>5. StageCalm' => StageCalm
    BY <1>1 DEF StageCalm
<1> QED
    BY <1>1, <1>2, <1>3, <1>4, <1>5 DEF StageInv, OrdersComing

LEMMA ReadKeepsStage ==
    ASSUME StageInv, upsets \subseteq upsets', NEW w \in Writers, WriterReads(w)
    PROVE  WritersWell' /\ OrdersComing'
<1>0. UNCHANGED <<stage, orders, upsets>> /\ writer[w].at = "read"
    BY DEF WriterReads
<1>1. CASE Moves(stage, writer[w].target)
    <2>1. /\ writer'[w].at = "write" /\ writer'[w].saw = stage
          /\ writer'[w].target = writer[w].target
          /\ \A v \in Writers \ {w} : writer'[v] = writer[v]
        BY <1>1, ReadStage DEF StageInv
    <2>2. \A v \in Writers : Ordering(v)' <=> Ordering(v)
        BY <1>1, <2>1, ReadStage DEF StageInv, Ordering
    <2>3. \A v \in Writers : Repeated(v) => Repeated(v)'
        BY <1>0, <2>1, <2>2 DEF Repeated
    <2>4. WritersWell'
        BY <1>0, <1>1, <2>1, <2>2 DEF StageInv, WritersWell, Moves
    <2> QED
        BY <1>0, <2>2, <2>3, <2>4, ComingSame
<1>2. CASE ~Moves(stage, writer[w].target)
    <2>1. writer' = [writer EXCEPT ![w] = NoWriter]
        BY <1>2 DEF WriterReads, StageInv, FunnelTypeOK
    <2>2. /\ WritersWell'
          /\ \A v \in Writers \ {w} : /\ Ordering(v)' <=> Ordering(v)
                                      /\ Repeated(v)' <=> Repeated(v)
        BY <2>1, EndKeeps
    <2>3. Rank(stage) >= Rank(writer[w].target)
        BY <1>2, Ranks DEF Moves
    <2>4. Ordering(w) => Rank(stage) >= 4
        BY <1>0, <2>3, Ranks DEF StageInv, WritersWell, Rank
    <2>5. Repeated(w) => Rank(stage) >= 5
        BY <1>0, <2>3, Ranks DEF Repeated, Rank
    <2>6. StageCalm' => StageCalm
        BY <1>0 DEF StageCalm
    <2> QED
        BY <1>0, <2>2, <2>4, <2>5, <2>6 DEF StageInv, OrdersComing
<1> QED
    BY <1>1, <1>2

LEMMA WriteKeepsStage ==
    ASSUME StageInv, upsets \subseteq upsets', NEW w \in Writers, WriterWrites(w)
    PROVE  WritersWell' /\ OrdersComing'
<1>1. writer' = [writer EXCEPT ![w] = NoWriter] /\ writer[w].at = "write"
      /\ stage' = writer[w].target /\ orders' = orders
    BY DEF WriterWrites
<1>2. /\ WritersWell'
      /\ \A v \in Writers \ {w} : /\ Ordering(v)' <=> Ordering(v)
                                  /\ Repeated(v)' <=> Repeated(v)
    BY <1>1, EndKeeps
<1>3. SUFFICES ASSUME StageCalm' PROVE OrdersComing'
    BY <1>2 DEF OrdersComing
<1>4. StageCalm /\ stage = writer[w].saw /\ writer[w].target # "NO_CONCRETO"
    BY <1>3 DEF StageCalm, WriterWrites
<1>5. Rank(stage) < Rank(stage') /\ stage' \notin {"REACTIVAR", "NO_CONCRETO"}
    BY <1>1, <1>4 DEF StageInv, WritersWell
<1>6. Ordering(w) => Rank(stage') >= 4
    BY <1>1 DEF StageInv, WritersWell, Rank
<1>7. Repeated(w) => Rank(stage') >= 5
    BY <1>1 DEF Repeated, Rank
<1>8. Rank(stage) \in 0 .. 6 /\ Rank(stage') \in 0 .. 6
    BY Ranks
<1> QED
    BY <1>1, <1>2, <1>4, <1>5, <1>6, <1>7, <1>8 DEF StageInv, OrdersComing

LEMMA FailKeepsStage ==
    ASSUME StageInv, upsets \subseteq upsets', NEW w \in Writers, WriterFails(w)
    PROVE  WritersWell' /\ OrdersComing'
<1>1. writer' = [writer EXCEPT ![w] = NoWriter] /\ UNCHANGED <<stage, orders>>
    BY DEF WriterFails
<1>2. /\ WritersWell'
      /\ \A v \in Writers \ {w} : /\ Ordering(v)' <=> Ordering(v)
                                  /\ Repeated(v)' <=> Repeated(v)
    BY <1>1, EndKeeps
<1>3. SUFFICES ASSUME StageCalm' PROVE OrdersComing'
    BY <1>2 DEF OrdersComing
<1>4. ~Ordering(w)
    BY <1>3 DEF StageCalm, WriterFails, Upset, Ordering
<1>5. ~Repeated(w)
    BY <1>4 DEF Repeated
<1> QED
    BY <1>1, <1>2, <1>4, <1>5, ComingSame

LEMMA StageKept == ASSUME StageInv, FunnelNext PROVE StageInv'
<1>1. upsets \subseteq upsets'
    BY UpsetsGrow
<1>2. FunnelTypeOK'
    BY NextTyped DEF StageInv
<1>3. ASSUME NEW l \in Leads, NEW status \in LeadStatus, LeadMoves(l, status) PROVE StageInv'
    BY <1>1, <1>2, <1>3, LeadsKeepStage DEF StageInv
<1>4. CASE \/ MessageArrives \/ OrderCreated
           \/ \E w \in Writers :
                 WriterCounts(w) \/ WriterReads(w) \/ WriterWrites(w) \/ WriterFails(w)
    BY <1>1, <1>2, <1>4, ArrivalsKeepStage, CountKeepsStage, ReadKeepsStage, WriteKeepsStage,
       FailKeepsStage DEF StageInv
<1>5. ASSUME NEW s, StageOverridden(s) PROVE StageInv'
    <2>1. writer' = writer /\ "override" \in upsets'
        BY <1>5 DEF StageOverridden, Upset
    <2>2. OrdersComing'
        BY <2>1 DEF OrdersComing, StageCalm
    <2>3. \A w \in Writers : Ordering(w)' <=> Ordering(w)
        BY <2>1 DEF Ordering
    <2> QED
        BY <1>2, <2>1, <2>2, <2>3 DEF StageInv, WritersWell
<1>6. CASE UNCHANGED <<writer, stage, orders>>
    <2>1. \A w \in Writers : (Ordering(w)' <=> Ordering(w)) /\ (Repeated(w)' <=> Repeated(w))
        BY <1>6 DEF Ordering, Repeated
    <2>2. WritersWell'
        BY <1>6, <2>1 DEF StageInv, WritersWell
    <2> QED
        BY <1>1, <1>2, <1>6, <2>1, <2>2, ComingSame DEF StageInv
<1>7. ASSUME \/ \E l \in Leads : LeadCreated(l) \/ LeadEdited(l) \/ LeadDeleted(l) \/ TimePasses(l)
             \/ \E i \in Inbounds : InboundChecks(i) \/ InboundFails(i)
             \/ \E i \in Inbounds, l \in Leads : InboundCreates(i, l)
             \/ \E k \in Ticks : TickReads(k) \/ TickCounts(k) \/ TickLoses(k)
             \/ \E k \in Ticks, l \in Leads : TickSkips(k, l) \/ TickNudges(k, l)
      PROVE  UNCHANGED <<writer, stage, orders>>
    BY <1>7 DEF LeadCreated, LeadEdited, LeadDeleted, TimePasses, InboundChecks, InboundFails,
                InboundCreates, TickReads, TickCounts, TickLoses, TickSkips, TickNudges
<1> QED
    BY <1>3, <1>4, <1>5, <1>6, <1>7 DEF FunnelNext

----------------------------------------------------------------------------
IInv ==
    /\ FunnelTypeOK
    /\ NotYet
    /\ NudgesCounted
    /\ OpensOne
    /\ WritersWell
    /\ OrdersComing

LEMMA InitIInv == FunnelInit => IInv
<1> SUFFICES ASSUME FunnelInit PROVE IInv
    OBVIOUS
<1>1. FunnelTypeOK
    BY InitTyped
<1>2. \A l \in Leads : lead[l].status = "none" /\ lead[l].count = 0
    BY DEF FunnelInit, NoLead
<1>3. \A k \in Ticks : ~Counting(k)
    BY DEF FunnelInit, NoTick, Counting
<1>4. \A w \in Writers : writer[w].at = "idle" /\ ~Ordering(w)
    BY DEF FunnelInit, NoWriter, Ordering
<1>5. NotYet /\ NudgesCounted
    BY <1>2, <1>3, FunnelBounds DEF FunnelInit, NotYet, NudgesCounted, CountingLead
<1>6. OpensOne
    BY DEF FunnelInit, OpensOne
<1>7. WritersWell
    BY <1>4 DEF WritersWell
<1>8. OrdersComing
    BY NilIsNew DEF FunnelInit, OrdersComing, FunnelStage
<1> QED
    BY <1>1, <1>5, <1>6, <1>7, <1>8 DEF IInv

LEMMA NextKeeps == IInv /\ [FunnelNext]_funnelVars => IInv'
<1> SUFFICES ASSUME IInv, [FunnelNext]_funnelVars PROVE IInv'
    OBVIOUS
<1>1. CASE FunnelNext
    <2>1. NudgesInv'
        BY <1>1, NudgesKept DEF IInv, NudgesInv
    <2>2. OpensInv'
        BY <1>1, <2>1, OpensKept DEF IInv, NudgesInv, OpensInv
    <2>3. StageInv'
        BY <1>1, StageKept DEF IInv, StageInv
    <2> QED
        BY <2>1, <2>2, <2>3 DEF IInv, NudgesInv, OpensInv, StageInv
<1>2. CASE UNCHANGED funnelVars
    <2>1. UNCHANGED <<lead, tick, inbound, writer, stage, orders, nudges, auto, upsets>>
        BY <1>2 DEF funnelVars
    <2>2. FunnelTypeOK' /\ NotYet'
        BY <2>1 DEF IInv, FunnelTypeOK, NotYet
    <2>3. NudgesCounted'
        BY <2>1 DEF IInv, NudgesCounted, NudgesCalm, CountingLead, Counting
    <2>4. OpensOne'
        BY <2>1 DEF IInv, OpensOne, OpensCalm, OpenRecent, Recent
    <2>5. WritersWell' /\ OrdersComing'
        BY <2>1 DEF IInv, WritersWell, OrdersComing, Ordering, Repeated, StageCalm
    <2> QED
        BY <2>2, <2>3, <2>4, <2>5 DEF IInv
<1> QED
    BY <1>1, <1>2

LEMMA Invariant == FunnelSpec => []IInv
<1> QED
    BY InitIInv, NextKeeps, PTL DEF FunnelSpec

\* The variables keep their types.
THEOREM FunnelTyped == FunnelSpec => []FunnelTypeOK
<1>1. IInv => FunnelTypeOK
    BY DEF IInv
<1> QED
    BY <1>1, Invariant, PTL

\* No lead is nudged more often than LEAD_FOLLOWUP_MAX_ATTEMPTS, however many
\* ticks run, unless two overlapped on the lead or a nudge was not counted.
THEOREM NudgesAreBounded == FunnelSpec => []NudgesBounded
<1>1. IInv => NudgesBounded
    BY DEF IInv, NudgesCounted, NudgesCalm, NudgesBounded
<1> QED
    BY <1>1, Invariant, PTL

\* Messages leave one open lead within the window, unless one came between the
\* check and the creation of another, or a lead was reopened.
THEOREM OneLeadIsOpen == FunnelSpec => []OneOpenLead
<1>1. IInv => OneOpenLead
    BY DEF IInv, OpensOne, OpensCalm, OpenRecent, Recent, OneOpenLead, Open, OpenStatus
<1> QED
    BY <1>1, Invariant, PTL

\* A contact shows its orders once their handlers are done, whatever else wrote
\* its stage, unless one wrote over what it had not read, failed, or a lead was lost.
THEOREM OrdersAreShown == FunnelSpec => []OrdersShow
<1>1. IInv => OrdersShow
    <2>1. SUFFICES ASSUME IInv, StageCalm, ~OrderBeingCounted
                   PROVE  /\ orders >= 1 => stage \in {"COMPRADOR", "FRECUENTE"}
                          /\ orders >= 2 => stage = "FRECUENTE"
        BY DEF OrdersShow, StageCalm
    <2>2. \A w \in Writers : ~Ordering(w) /\ ~Repeated(w)
        BY <2>1 DEF OrderBeingCounted, Ordering, Repeated
    <2>3. /\ orders >= 1 => Rank(stage) >= 4
          /\ orders >= 2 => Rank(stage) >= 5
          /\ stage # "REACTIVAR"
        BY <2>1, <2>2 DEF IInv, OrdersComing
    <2> QED
        BY <2>3 DEF Rank
<1> QED
    BY <1>1, Invariant, PTL
=============================================================================
