--------------------------- MODULE LogisticaArmado ---------------------------
(***************************************************************************)
(* One row of the daily logistics panel: its LogisticaArmado record, the   *)
(* PRFV placa behind it when the row has one, and the requests of the      *)
(* operators on it (adapters/admin/logistica-armado.service.ts and the     *)
(* daily-logistica controller).  Every request reads the record, decides,  *)
(* and writes it in another statement: requests interleave there.  The     *)
(* bulk endpoints loop over rows with the same calls.  The timestamps, the *)
(* author and the texts are left out; unarchive has no caller.             *)
(***************************************************************************)
EXTENDS Integers, FiniteSets

CONSTANTS
    Requests,    \* requests that may be in progress at once
    Items,       \* item keys (SKU:idx) the panel may send
    SameSku,     \* the sets of item keys that share a SKU prefix
    Counts,      \* values of itemsExpected the panel sends
    Ops,         \* what the operators ask for
    PlacaFaults, \* TRUE: the update of the placa may throw, which is swallowed,
                 \* or a dispatch may end between that of the placa and its own
    None         \* no item

ASSUME CountType == Counts \subseteq Nat \ {0}
ASSUME ItemsFinite == IsFiniteSet(Items) /\ None \notin Items
ASSUME SkuType == SameSku \subseteq SUBSET Items
ASSUME FaultType == PlacaFaults \in BOOLEAN

VARIABLES
    row,    \* the LogisticaArmado record of the row
    prfv,   \* the rowKey is 'prfv:<id>'
    placa,  \* the placa is DESPACHADA_RETIRADA
    req,    \* the requests in progress
    collided \* history: a request wrote, or failed to write, over a newer record,
             \* or over a placa that another dispatch had written after its own

vars == <<row, prfv, placa, req, collided>>

States == {"PENDIENTE", "ARMADO", "LISTO"}
\* flexCourier, notes, archivedAt, sectionOverride, manuallyDispatchedAt: set or null
Row == [there : BOOLEAN, state : States, checked : SUBSET Items, expected : Nat,
        courier : BOOLEAN, noted : BOOLEAN, archived : BOOLEAN, moved : BOOLEAN,
        dispatched : BOOLEAN]
NoRow == [there |-> FALSE, state |-> "PENDIENTE", checked |-> {}, expected |-> 0,
          courier |-> FALSE, noted |-> FALSE, archived |-> FALSE, moved |-> FALSE,
          dispatched |-> FALSE]

AllOps == {"state", "advance", "check", "note", "courier", "section", "dispatch", "archive",
           "unmark"}
Call == {c \in [op : AllOps, to : States, item : Items \cup {None}, on : BOOLEAN, count : Nat] :
            c.op = "check" => c.item \in Items}
Asking(op, on) == [op |-> op, to |-> "PENDIENTE", item |-> None, on |-> on, count |-> 0]
\* Mutant: a tick without its key (the check of the controller is gone).
TickingNothing(i, on, n) == [Asking("check", on) EXCEPT !.count = n]

SettingTo(state) == [Asking("state", TRUE) EXCEPT !.to = state]
Ticking(i, on, n) == [Asking("check", on) EXCEPT !.item = i, !.count = n]

\* What the endpoints let through
Orders == {Asking(op, TRUE) : op \in {"advance", "archive", "unmark"}}
Switches == {Asking(op, on) : op \in {"note", "courier", "section", "dispatch"}, on \in BOOLEAN}
Targets == {SettingTo(state) : state \in {"ARMADO", "LISTO"}}
Ticks == {Ticking(i, on, n) : i \in Items, on \in BOOLEAN, n \in Counts}
Calls == {c \in Orders \cup Switches \cup Targets \cup Ticks : c.op \in Ops}

\* fresh: no other request has written the record since this one read it;
\* left: the placa as the cascade of this dispatch left it
Request == [at : {"idle", "ask", "cascade", "read", "write"}, call : Call, seen : Row,
            fresh : BOOLEAN, left : BOOLEAN]
Idle == [at |-> "idle", call |-> Asking("note", FALSE), seen |-> NoRow, fresh |-> FALSE,
         left |-> FALSE]

Init ==
    /\ row = NoRow
    /\ prfv \in BOOLEAN
    /\ placa = FALSE
    /\ req = [r \in Requests |-> Idle]
    /\ collided = FALSE

----------------------------------------------------------------------------
(* Decisions on a record q as it was read *)

Biggest(a, b) == IF a >= b THEN a ELSE b

\* guardItemsCompleteForListo
Incomplete(q) == q.expected > 1 /\ Cardinality(q.checked) < q.expected

Promotes(q, c) == c.op = "courier" /\ c.on /\ q.there /\ q.state # "LISTO"

\* Mutant: assigning a courier promotes without the guard (before 2026-06-25).
ToListoByState(q, c) == c.op = "state" /\ c.to = "LISTO" /\ q.there

\* The calls the guard looks at
ToListo(q, c) == (c.op = "state" /\ c.to = "LISTO" /\ q.there) \/ Promotes(q, c)

\* Mutant: only the panel disables the ticks of a LISTO row (before 2026-06-27).
FrozenInPanel(q, c) == FALSE

Frozen(q, c) == c.op = "check" /\ q.there /\ q.state = "LISTO"

\* The calls that stop after reading q
Refused(q, c) ==
    \/ ToListo(q, c) /\ Incomplete(q)
    \/ Frozen(q, c)
    \/ c.op = "unmark" /\ ~q.there

\* The next rung of advanceState
NextState(q) == IF q.there /\ q.state # "PENDIENTE" THEN "LISTO" ELSE "ARMADO"

\* toggleItemCheck: a tick adds the key, an untick removes every key of its SKU.
Untick(i) == {i} \cup UNION {s \in SameSku : i \in s}

\* Mutant: the array is replaced by the last key.
TickedAlone(q, c) == IF c.on THEN {c.item} ELSE q.checked \ Untick(c.item)

Ticked(q, c) ==
    IF c.on THEN q.checked \cup {c.item} ELSE q.checked \ Untick(c.item)
Expected(q, c) ==
    Biggest(c.count, Biggest(Cardinality(q.checked), Cardinality(Ticked(q, c))))

HasAdmin(q) == q.moved \/ q.courier \/ q.noted \/ q.archived

----------------------------------------------------------------------------
(* What a call c that read q writes on the record w *)

Created(c) ==
    [NoRow EXCEPT !.there = TRUE,
                  !.state = CASE c.op = "state" -> c.to
                              [] c.op = "check" \/ (c.op = "courier" /\ c.on) -> "ARMADO"
                              [] c.op = "dispatch" -> "LISTO"
                              [] OTHER -> "PENDIENTE"]

Checked(w, q, c) ==
    [w EXCEPT !.checked = Ticked(q, c), !.expected = Expected(q, c),
              !.state = IF q.state = "LISTO" THEN "LISTO" ELSE "ARMADO"]
Couriered(w, q, c) ==
    [w EXCEPT !.courier = c.on, !.state = IF Promotes(q, c) THEN "LISTO" ELSE @]

\* Mutant: a revert deletes the record whatever it holds (before 2026-06-11).
UnmarkedDeletes(w, q) == NoRow

\* unmark keeps a record that holds anything administrative.
Cleaned(w) == [w EXCEPT !.state = "PENDIENTE", !.checked = {}, !.dispatched = FALSE]
Unmarked(w, q) == IF HasAdmin(q) THEN Cleaned(w) ELSE NoRow

Written(w, q, c) ==
    CASE c.op = "state"    -> [w EXCEPT !.state = c.to]
      [] c.op = "check"    -> Checked(w, q, c)
      [] c.op = "courier"  -> Couriered(w, q, c)
      [] c.op = "note"     -> [w EXCEPT !.noted = c.on]
      [] c.op = "section"  -> [w EXCEPT !.moved = c.on]
      [] c.op = "dispatch" -> [w EXCEPT !.dispatched = c.on]
      [] c.op = "archive"  -> [w EXCEPT !.archived = TRUE]
      [] c.op = "unmark"   -> Unmarked(w, q)

----------------------------------------------------------------------------
At(r, point) == req[r].at = point

\* A dispatch of a PRFV row writes the placa behind it as well.
OfPlaca(c) == prfv /\ c.op = "dispatch"

\* advanceState and the rule of the courier read the record once more first, and
\* the placa is written before the record is read.
AsksFirst(c) == c.op = "advance" \/ (c.op = "dispatch" /\ c.on /\ ~prfv)
First(c) == IF AsksFirst(c) THEN "ask" ELSE IF OfPlaca(c) THEN "cascade" ELSE "read"

Arrives(r) ==
    /\ At(r, "idle")
    /\ \E c \in Calls : req' = [req EXCEPT ![r] = [Idle EXCEPT !.at = First(c), !.call = c]]
    /\ UNCHANGED <<row, prfv, placa, collided>>

\* advanceState, then setState: the target is the one of this first read.
Advances(r) ==
    /\ At(r, "ask") /\ req[r].call.op = "advance"
    /\ req' = [req EXCEPT ![r] =
           IF NextState(row) = "LISTO" /\ Incomplete(row) THEN Idle
           ELSE [@ EXCEPT !.at = "read", !.call = SettingTo(NextState(row))]]
    /\ UNCHANGED <<row, prfv, placa, collided>>

\* setManualDispatch: no dispatch without a courier.
AsksCourier(r) ==
    /\ At(r, "ask") /\ req[r].call.op = "dispatch"
    /\ req' = [req EXCEPT ![r] =
           IF row.there /\ row.courier THEN [@ EXCEPT !.at = "read"] ELSE Idle]
    /\ UNCHANGED <<row, prfv, placa, collided>>

\* Mutant: the dispatch stays in the panel (before 2026-06-12).
CascadesNothing(r) ==
    /\ At(r, "cascade")
    /\ req' = [req EXCEPT ![r].at = "read", ![r].left = placa]
    /\ UNCHANGED <<row, prfv, placa, collided>>

\* maybeCascadePrfvDispatch; what it throws is swallowed.
Cascades(r) ==
    /\ At(r, "cascade")
    /\ \/ placa' = req[r].call.on
       \/ PlacaFaults /\ placa' = placa
    /\ req' = [req EXCEPT ![r].at = "read", ![r].left = placa']
    /\ UNCHANGED <<row, prfv, collided>>

Reads(r) ==
    /\ At(r, "read")
    /\ req' = [req EXCEPT ![r] =
           IF Refused(row, @.call) THEN Idle
           ELSE [@ EXCEPT !.at = "write", !.seen = row, !.fresh = TRUE]]
    /\ UNCHANGED <<row, prfv, placa, collided>>

\* A request whose statement throws, or that a restart takes with it, leaves what
\* it has written.
Fails(r) ==
    /\ ~At(r, "idle")
    /\ OfPlaca(req[r].call) /\ req[r].at \in {"read", "write"} => PlacaFaults
    /\ req' = [req EXCEPT ![r] = Idle]
    /\ UNCHANGED <<row, prfv, placa, collided>>

\* An update of a record deleted meanwhile (P2025) or a second create (P2002) throws.
Throws(r) ==
    /\ At(r, "write")
    /\ req[r].seen.there # row.there
    /\ collided' = TRUE
    /\ req' = [req EXCEPT ![r] = Idle]
    /\ UNCHANGED <<row, prfv, placa>>

\* Another dispatch has written the placa between this one's placa and its record.
Crossed(r) == OfPlaca(req[r].call) /\ placa # req[r].left

\* An update writes the fields of its call on the record as it is by now.
Writes(r) ==
    LET c == req[r].call  q == req[r].seen IN
    /\ At(r, "write")
    /\ q.there = row.there
    /\ row' = Written(IF row.there THEN row ELSE Created(c), q, c)
    /\ collided' = (collided \/ ~req[r].fresh \/ Crossed(r))
    /\ req' = [s \in Requests |-> IF s = r THEN Idle ELSE [req[s] EXCEPT !.fresh = FALSE]]
    /\ UNCHANGED <<prfv, placa>>

Next == \E r \in Requests :
    \/ Arrives(r) \/ Advances(r) \/ AsksCourier(r) \/ Cascades(r)
    \/ Reads(r) \/ Fails(r) \/ Throws(r) \/ Writes(r)
Spec == Init /\ [][Next]_vars

----------------------------------------------------------------------------
TypeOK ==
    /\ row \in Row
    /\ prfv \in BOOLEAN /\ placa \in BOOLEAN /\ collided \in BOOLEAN
    /\ req \in [Requests -> Request]

\* Nothing with items to tick goes to the dispatch list before they are all
\* ticked, whichever of the paths to LISTO it takes (the shared guard, lines
\* 214-226): only a write over a record that changed meanwhile can break it.
TicksBeforeListo == ~collided => ~(row.there /\ row.state = "LISTO" /\ Incomplete(row))

\* The ticks of a LISTO row are evidence for a claim: they stay as they are
\* while the row is LISTO (toggleItemCheck, lines 257-263).
ListoIsEvidence ==
    [][~collided' /\ row.state = "LISTO" /\ row'.state = "LISTO" => row'.checked = row.checked]_vars

\* A tick is lost only when somebody unticks an item of that SKU or reverts the row.
TicksSurvive ==
    [][~collided' => \A i \in row.checked \ row'.checked :
          \E r \in Requests : /\ Writes(r)
                              /\ \/ req[r].call.op = "unmark"
                                 \/ /\ req[r].call.op = "check" /\ ~req[r].call.on
                                    /\ i \in Untick(req[r].call.item)]_vars

\* A PRFV row shown as dispatched has its placa in DESPACHADA_RETIRADA, unless an
\* undo has taken the placa back and is about to take the row back as well, or two
\* dispatches crossed (maybeCascadePrfvDispatch).
Undoing(r) ==
    req[r].at \in {"read", "write"} /\ req[r].call.op = "dispatch" /\ ~req[r].call.on
PlacaFollows ==
    ~collided /\ prfv /\ row.there /\ row.dispatched /\ ~placa =>
        \E r \in Requests : Undoing(r)

----------------------------------------------------------------------------
(* The row as the panel shows it, and what RowLife promises of it *)

Marked(q) ==
    {m \in {"courier", "section", "note", "archived"} :
        \/ m = "courier" /\ q.courier
        \/ m = "section" /\ q.moved
        \/ m = "note" /\ q.noted
        \/ m = "archived" /\ q.archived}
Panel == INSTANCE RowLife WITH
    state <- row.state, ticked <- row.checked, expected <- row.expected,
    dispatched <- row.dispatched, marks <- Marked(row), loose <- collided

\* Each request of the panel, read and write, acts on the row at the one instant
\* of its write: it only ticks, moves, marks, dispatches or reverts the row as it
\* was just before (every operation of the service; TicksBeforeListo,
\* ListoIsEvidence and a revert that keeps the marks are parts of it).
ActsAtOnce == Panel!RowSpec
=============================================================================
