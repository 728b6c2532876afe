------------------------------- MODULE RowLife -------------------------------
(***************************************************************************)
(* What the panel promises of one row of the daily logistics: each         *)
(* operation takes the row as it is and changes it at one instant.  The    *)
(* record behind the row, and whether there is one, is not visible here.   *)
(* loose says that an operation was written over a record that had changed *)
(* since it was read; nothing is promised from there on.  LogisticaArmado  *)
(* implements it.                                                          *)
(***************************************************************************)
EXTENDS Integers, FiniteSets

CONSTANTS
    Items,   \* what is to be packed
    SameSku  \* the sets of items of one SKU

VARIABLES
    state,      \* the lifecycle state
    ticked,     \* the items ticked
    expected,   \* how many there are to tick, as far as anybody said
    dispatched, \* the row is shown as dispatched
    marks,      \* what holds of the row besides: courier, section, note, archived
    loose

rowVars == <<state, ticked, expected, dispatched, marks, loose>>
Marks == {"courier", "section", "note", "archived"}

RowInit ==
    /\ state = "PENDIENTE"
    /\ ticked = {} /\ expected = 0
    /\ dispatched = FALSE /\ marks = {}
    /\ loose = FALSE

Untouched == state = "PENDIENTE" /\ ticked = {} /\ expected = 0 /\ ~dispatched /\ marks = {}
Ready == expected > 1 => Cardinality(ticked) >= expected

\* The row moves up, or from LISTO to ARMADO; to LISTO only with every item ticked.
SetState(target) ==
    /\ target = "LISTO" => Ready
    /\ state' = target
    /\ UNCHANGED <<ticked, expected, dispatched, marks>>

\* An item is ticked or every item of its SKU unticked, never in LISTO.
TickItem(i) ==
    /\ state # "LISTO"
    /\ \/ ticked' = ticked \cup {i}
       \/ ticked' = ticked \ ({i} \cup UNION {s \in SameSku : i \in s})
    /\ expected' \in Nat
    /\ Cardinality(ticked) <= expected' /\ Cardinality(ticked') <= expected'
    /\ state' = "ARMADO"
    /\ UNCHANGED <<dispatched, marks>>

\* A courier makes a row that is ready LISTO, and starts one nobody has touched.
GiveCourier ==
    /\ marks' = marks \cup {"courier"}
    /\ \/ Ready /\ state' = "LISTO"
       \/ Untouched /\ state' = "ARMADO"
    /\ UNCHANGED <<ticked, expected, dispatched>>

\* The other marks come, and all but the archived one go, by themselves.
SetMark(m) ==
    /\ m # "courier" /\ marks' = marks \cup {m}
    /\ UNCHANGED <<state, ticked, expected, dispatched>>
ClearMark(m) ==
    /\ m # "archived" /\ marks' = marks \ {m}
    /\ UNCHANGED <<state, ticked, expected, dispatched>>

\* A row nobody has touched goes to LISTO with its dispatch.
Dispatch(on) ==
    /\ dispatched' = on
    /\ state' = state \/ (Untouched /\ state' = "LISTO")
    /\ UNCHANGED <<ticked, expected, marks>>

\* A revert takes the row back to the beginning and keeps its marks; how many
\* items there were may be forgotten when it has none.
Revert ==
    /\ state' = "PENDIENTE" /\ ticked' = {} /\ dispatched' = FALSE
    /\ expected' = expected \/ (marks = {} /\ expected' = 0)
    /\ UNCHANGED marks

Operate ==
    \/ \E target \in {"ARMADO", "LISTO"} : SetState(target)
    \/ \E i \in Items : TickItem(i)
    \/ GiveCourier
    \/ \E m \in Marks : SetMark(m) \/ ClearMark(m)
    \/ \E on \in BOOLEAN : Dispatch(on)
    \/ Revert

RowNext == loose' = TRUE \/ (UNCHANGED loose /\ Operate)
RowSpec == RowInit /\ [][RowNext]_rowVars
=============================================================================
