----------------------- MODULE LogisticaArmado_proofs -----------------------
(* Theorems about LogisticaArmado, for any number of requests and of items. *)
EXTENDS LogisticaArmado, FiniteSetTheorems, TLAPS

\* Every tick count is a number: the items are finitely many.
LEMMA TickCount ==
    ASSUME NEW S \in SUBSET Items
    PROVE  Cardinality(S) \in Nat
<1>1. IsFiniteSet(S)
  BY ItemsFinite, FS_Subset
<1> QED
  BY <1>1, FS_CardinalityType

\* What is written is a record, and it is there unless nothing is left of it.
LEMMA WrittenType ==
    ASSUME NEW w \in Row, NEW q \in Row, NEW c \in Call, c.op # "advance", w.there
    PROVE  /\ Written(w, q, c) \in Row
           /\ Written(w, q, c).there \/ Written(w, q, c) = NoRow
<1>1. CASE c.op = "check"
  <2>1. c.item \in Items /\ c.count \in Nat
    BY <1>1 DEF Call
  <2>2. Ticked(q, c) \in SUBSET Items
    BY <2>1 DEF Ticked, Row
  <2>3. Cardinality(q.checked) \in Nat /\ Cardinality(Ticked(q, c)) \in Nat
    BY <2>2, TickCount DEF Row
  <2>4. Expected(q, c) \in Nat
    BY <2>1, <2>3 DEF Expected, Biggest
  <2>5. Checked(w, q, c) \in Row /\ Checked(w, q, c).there
    BY <2>2, <2>4 DEF Checked, Row, States
  <2> QED
    BY <1>1, <2>5 DEF Written
<1>2. CASE c.op = "courier"
  <2>1. Couriered(w, q, c) \in Row /\ Couriered(w, q, c).there
    BY DEF Couriered, Row, States, Call
  <2> QED
    BY <1>2, <2>1 DEF Written
<1>3. CASE c.op = "unmark"
  <2>1. /\ Unmarked(w, q) \in Row
        /\ Unmarked(w, q).there \/ Unmarked(w, q) = NoRow
    BY DEF Unmarked, Cleaned, NoRow, Row, States
  <2> QED
    BY <1>3, <2>1 DEF Written
<1>4. CASE c.op \in {"state", "note", "section", "dispatch", "archive"}
  BY <1>4 DEF Written, Row, Call
<1> QED
  BY <1>1, <1>2, <1>3, <1>4 DEF Call, AllOps

\* A new record is there and has nothing to tick.
LEMMA CreatedType ==
    ASSUME NEW c \in Call
    PROVE  /\ Created(c) \in Row
           /\ Created(c).there /\ Created(c).expected = 0
           /\ c.op # "state" /\ c.op # "dispatch" => Created(c).state # "LISTO"
BY DEF Created, NoRow, Row, Call, States

\* Ready for dispatch with items missing: what the guard is there to prevent
Unready(q) == q.there /\ q.state = "LISTO" /\ Incomplete(q)

\* A call that was not refused by the record it changes leaves it sound.
LEMMA WrittenIsReady ==
    ASSUME NEW q \in Row, NEW c \in Call, ~Refused(q, c), ~Unready(q), c.op # "advance",
           ~q.there => q = NoRow
    PROVE  ~Unready(Written(IF q.there THEN q ELSE Created(c), q, c))
<1> DEFINE w == IF q.there THEN q ELSE Created(c)
<1>1. w \in Row /\ w.there /\ ~Unready(w)
  BY CreatedType DEF Unready, Incomplete
<1>2. Written(w, q, c) \in Row
  BY <1>1, WrittenType
<1>3. w = q \/ (q = NoRow /\ w = Created(c))
  OBVIOUS
<1>4. ~q.there => w.expected = 0
  BY CreatedType
<1>5. CASE c.op = "state"
  <2>1. Written(w, q, c) = [w EXCEPT !.state = c.to]
    BY <1>5 DEF Written
  <2>2. Written(w, q, c).checked = w.checked /\ Written(w, q, c).expected = w.expected
    BY <1>1, <2>1 DEF Row
  <2>3. Written(w, q, c).state = "LISTO" => c.to = "LISTO"
    BY <1>1, <2>1 DEF Row
  <2>4. q.there /\ c.to = "LISTO" => ~Incomplete(q)
    BY <1>5 DEF Refused, ToListo
  <2> QED
    BY <1>3, <1>4, <2>2, <2>3, <2>4 DEF Unready, Incomplete
<1>6. CASE c.op = "check"
  <2>1. q.state # "LISTO"
    BY <1>6 DEF Refused, Frozen, NoRow
  <2>2. Written(w, q, c) = Checked(w, q, c)
    BY <1>6 DEF Written
  <2>3. Checked(w, q, c).state = "ARMADO"
    BY <1>1, <2>1 DEF Checked, Row
  <2> QED
    BY <2>2, <2>3 DEF Unready
<1>7. CASE c.op = "courier"
  <2>1. Written(w, q, c) = Couriered(w, q, c)
    BY <1>7 DEF Written
  <2>2. /\ Couriered(w, q, c).checked = w.checked
        /\ Couriered(w, q, c).expected = w.expected
        /\ Couriered(w, q, c).there = w.there
        /\ Couriered(w, q, c).state = (IF Promotes(q, c) THEN "LISTO" ELSE w.state)
    BY <1>1 DEF Couriered, Row
  <2>3. Promotes(q, c) => w = q /\ ~Incomplete(q)
    BY DEF Refused, ToListo, Promotes
  <2> QED
    BY <1>1, <2>1, <2>2, <2>3 DEF Unready, Incomplete
<1>8. CASE c.op = "unmark"
  <2>1. Written(w, q, c) = Unmarked(w, q)
    BY <1>8 DEF Written
  <2>2. Unmarked(w, q).state = "PENDIENTE"
    BY <1>1 DEF Unmarked, Cleaned, NoRow, Row
  <2> QED
    BY <2>1, <2>2 DEF Unready
<1>9. CASE c.op \in {"note", "section", "dispatch", "archive"}
  <2>1. /\ Written(w, q, c).checked = w.checked
        /\ Written(w, q, c).expected = w.expected
        /\ Written(w, q, c).there = w.there
        /\ Written(w, q, c).state = w.state
    BY <1>1, <1>9 DEF Written, Row
  <2> QED
    BY <1>1, <2>1 DEF Unready, Incomplete
<1> QED
  BY <1>5, <1>6, <1>7, <1>8, <1>9 DEF Call, AllOps

\* No record is no data; an advance has become a write of a state when it reads
\* the record to write it; only dispatches write a placa; and a request nobody has
\* overtaken still has in hand the record as it is, which did not refuse its call.
Absent == ~row.there => row = NoRow
Laddered == \A r \in Requests : At(r, "read") \/ At(r, "write") => req[r].call.op # "advance"
Placas == \A r \in Requests : At(r, "cascade") => req[r].call.op = "dispatch"
Granted == \A r \in Requests :
    At(r, "write") /\ req[r].fresh => req[r].seen = row /\ ~Refused(row, req[r].call)
IInv == TypeOK /\ Absent /\ Laddered /\ Placas /\ Granted /\ TicksBeforeListo

LEMMA CallsType ==
    /\ \A c \in Calls : c \in Call
    /\ \A state \in States : SettingTo(state) \in Call /\ SettingTo(state).op = "state"
    /\ Idle \in Request /\ Idle.call.op # "advance" /\ Idle.at = "idle"
    /\ NoRow \in Row
<1>1. \A op \in AllOps \ {"check"}, on \in BOOLEAN : Asking(op, on) \in Call
  BY DEF Asking, Call, AllOps, States
<1>2. \A state \in States : SettingTo(state) \in Call /\ SettingTo(state).op = "state"
  BY DEF SettingTo, Asking, Call, AllOps, States
<1>3. \A i \in Items, on \in BOOLEAN, n \in Counts : Ticking(i, on, n) \in Call
  BY CountType DEF Ticking, Asking, Call, AllOps, States
<1>4. NoRow \in Row
  BY DEF NoRow, Row, States
<1>5. Asking("note", FALSE) \in Call /\ Asking("note", FALSE).op = "note"
  BY <1>1 DEF AllOps, Asking
<1>6. Idle \in Request /\ Idle.call.op # "advance" /\ Idle.at = "idle"
  BY <1>4, <1>5 DEF Idle, Request
<1>7. \A c \in Orders \cup Switches : c \in Call
  <2>1. \A op \in {"advance", "archive", "unmark"} : Asking(op, TRUE) \in Call
    BY <1>1 DEF AllOps
  <2>2. \A op \in {"note", "courier", "section", "dispatch"}, on \in BOOLEAN :
           Asking(op, on) \in Call
    BY <1>1 DEF AllOps
  <2>3. \A c \in Orders : c \in Call
    BY <2>1, Zenon DEF Orders
  <2>4. \A c \in Switches : c \in Call
    BY <2>2 DEF Switches
  <2> QED
    BY <2>3, <2>4
<1>8. \A c \in Targets : c \in Call
  BY <1>2 DEF Targets, States
<1>9. \A c \in Ticks : c \in Call
  BY <1>3 DEF Ticks
<1>10. \A c \in Calls : c \in Call
  BY <1>7, <1>8, <1>9 DEF Calls
<1> QED
  BY <1>2, <1>4, <1>6, <1>10

\* A request overtaken by another's write goes on as it was.
LEMMA Overtaken ==
    ASSUME NEW q \in Request
    PROVE  LET p == [q EXCEPT !.fresh = FALSE] IN
           /\ p \in Request /\ ~p.fresh
           /\ p.at = q.at /\ p.call = q.call /\ p.left = q.left
BY DEF Request

LEMMA Initially == Init => IInv
<1> SUFFICES ASSUME Init PROVE IInv
  OBVIOUS
<1>1. TypeOK
  BY CallsType DEF Init, TypeOK
<1>2. Absent /\ Laddered /\ Placas /\ Granted /\ TicksBeforeListo
  BY CallsType DEF Init, Absent, Laddered, Placas, Granted, TicksBeforeListo, At, NoRow
<1> QED
  BY <1>1, <1>2 DEF IInv

\* A step that leaves the record alone: only the request it moves counts.
LEMMA Moved ==
    ASSUME IInv, NEW r \in Requests, NEW q \in Request, UNCHANGED <<row, prfv>>,
           placa' \in BOOLEAN, collided' \in BOOLEAN, collided => collided',
           req' = [req EXCEPT ![r] = q],
           q.at \in {"read", "write"} => q.call.op # "advance",
           q.at = "cascade" => q.call.op = "dispatch",
           q.at = "write" /\ q.fresh => q.seen = row /\ ~Refused(row, q.call)
    PROVE  IInv'
<1>1. TypeOK'
  BY DEF IInv, TypeOK
<1>2. \A s \in Requests : req'[s] = IF s = r THEN q ELSE req[s]
  BY DEF IInv, TypeOK
<1>3. Laddered' /\ Placas'
  BY <1>2 DEF IInv, Laddered, Placas, At
<1>4. \A s \in Requests : req'[s].at = "write" /\ req'[s].fresh =>
          req'[s].seen = row /\ ~Refused(row, req'[s].call)
  BY <1>2 DEF IInv, Granted, At
<1>5. Granted'
  BY <1>4 DEF Granted, At, Refused, ToListo, Promotes, Frozen, Incomplete
<1>6. Absent' /\ TicksBeforeListo'
  BY DEF IInv, Absent, TicksBeforeListo, Incomplete
<1> QED
  BY <1>1, <1>3, <1>5, <1>6 DEF IInv

LEMMA Step == IInv /\ [Next]_vars => IInv'
<1> SUFFICES ASSUME IInv, [Next]_vars PROVE IInv'
  OBVIOUS
<1> USE DEF IInv
<1>1. CASE UNCHANGED vars
  BY <1>1 DEF vars, TypeOK, Absent, Laddered, Placas, Granted, TicksBeforeListo, At, Incomplete,
              Refused, ToListo, Promotes, Frozen
<1>2. ASSUME NEW r \in Requests, Arrives(r) PROVE IInv'
  <2>1. PICK c \in Calls :
           req' = [req EXCEPT ![r] = [Idle EXCEPT !.at = First(c), !.call = c]]
    BY <1>2 DEF Arrives
  <2> DEFINE q == [Idle EXCEPT !.at = First(c), !.call = c]
  <2>2. q \in Request /\ q.call = c /\ q.at = First(c)
    BY CallsType DEF Request, First
  <2>3. /\ q.at # "write" /\ (q.at = "read" => q.call.op # "advance")
        /\ q.at = "cascade" => q.call.op = "dispatch"
    BY <2>2 DEF First, AsksFirst, OfPlaca
  <2>4. req' = [req EXCEPT ![r] = q]
    BY <2>1
  <2> HIDE DEF q
  <2> QED
    BY <1>2, <2>2, <2>3, <2>4, Moved DEF Arrives, TypeOK
<1>3. ASSUME NEW r \in Requests, Advances(r) PROVE IInv'
  <2> DEFINE q == IF NextState(row) = "LISTO" /\ Incomplete(row) THEN Idle
                  ELSE [req[r] EXCEPT !.at = "read", !.call = SettingTo(NextState(row))]
  <2>1. NextState(row) \in States
    BY DEF NextState, States
  <2>2. q \in Request /\ (q = Idle \/ (q.call.op = "state" /\ q.at = "read"))
    BY <2>1, CallsType DEF Request, TypeOK
  <2> QED
    BY <1>3, <2>2, Moved, CallsType DEF Advances, TypeOK
<1>4. ASSUME NEW r \in Requests, AsksCourier(r) PROVE IInv'
  <2> DEFINE q == IF row.there /\ row.courier THEN [req[r] EXCEPT !.at = "read"] ELSE Idle
  <2>1. q \in Request /\ (q = Idle \/ (q.call = req[r].call /\ q.at = "read"))
    BY CallsType DEF Request, TypeOK
  <2> QED
    BY <1>4, <2>1, Moved, CallsType DEF AsksCourier, TypeOK
<1>5. ASSUME NEW r \in Requests, Cascades(r) PROVE IInv'
  <2> DEFINE q == [req[r] EXCEPT !.at = "read", !.left = placa']
  <2>1. placa' \in BOOLEAN
    BY <1>5 DEF Cascades, TypeOK, Request, Call
  <2>2. q \in Request /\ q.call = req[r].call /\ q.at = "read"
    BY <2>1 DEF Request, TypeOK
  <2>3. req' = [req EXCEPT ![r] = q] /\ req[r].call.op = "dispatch"
    BY <1>5 DEF Cascades, Placas
  <2> HIDE DEF q
  <2> QED
    BY <1>5, <2>1, <2>2, <2>3, Moved DEF Cascades, TypeOK
<1>6. ASSUME NEW r \in Requests, Reads(r) PROVE IInv'
  <2> DEFINE q == IF Refused(row, req[r].call) THEN Idle
                  ELSE [req[r] EXCEPT !.at = "write", !.seen = row, !.fresh = TRUE]
  <2>1. q \in Request /\ (q = Idle \/ (/\ q.call = req[r].call /\ q.at = "write"
                                       /\ q.seen = row /\ ~Refused(row, req[r].call)))
    BY CallsType DEF Request, TypeOK
  <2>2. req[r].call.op # "advance"
    BY <1>6 DEF Reads, Laddered
  <2> QED
    BY <1>6, <2>1, <2>2, Moved, CallsType DEF Reads, TypeOK
<1>7. ASSUME NEW r \in Requests, Fails(r) PROVE IInv'
  BY <1>7, Moved, CallsType DEF Fails, TypeOK
<1>8. ASSUME NEW r \in Requests, Throws(r) PROVE IInv'
  BY <1>8, Moved, CallsType DEF Throws, TypeOK
<1>9. ASSUME NEW r \in Requests, Writes(r) PROVE IInv'
  <2> DEFINE c == req[r].call
             q == req[r].seen
             w == IF row.there THEN row ELSE Created(c)
  <2>1. c \in Call /\ q \in Row /\ row \in Row /\ req[r].fresh \in BOOLEAN
    BY DEF TypeOK, Request
  <2>2. c.op # "advance"
    BY <1>9 DEF Writes, Laddered
  <2>3. w \in Row /\ w.there
    BY <2>1, CreatedType
  <2>4. row' = Written(w, q, c)
    BY <1>9 DEF Writes
  <2>5. row' \in Row /\ (row'.there \/ row' = NoRow)
    BY <2>1, <2>2, <2>3, <2>4, WrittenType
  <2>6. \A s \in Requests : req'[s] = IF s = r THEN Idle ELSE [req[s] EXCEPT !.fresh = FALSE]
    BY <1>9 DEF Writes
  <2>7. \A s \in Requests : /\ req'[s] \in Request
                            /\ ~req'[s].fresh
                            /\ req'[s] = Idle \/ (/\ req'[s].at = req[s].at
                                                  /\ req'[s].call = req[s].call)
    <3> SUFFICES ASSUME NEW s \in Requests
                 PROVE  /\ req'[s] \in Request
                        /\ ~req'[s].fresh
                        /\ req'[s] = Idle \/ (/\ req'[s].at = req[s].at
                                              /\ req'[s].call = req[s].call)
      OBVIOUS
    <3>1. CASE s = r
      <4>1. req'[s] = Idle
        BY <2>6, <3>1
      <4>2. ~Idle.fresh
        BY DEF Idle
      <4> QED
        BY <4>1, <4>2, CallsType
    <3>2. CASE s # r
      <4>1. req[s] \in Request /\ req'[s] = [req[s] EXCEPT !.fresh = FALSE]
        BY <2>6, <3>2 DEF TypeOK
      <4> QED
        BY <4>1, Overtaken
    <3> QED
      BY <3>1, <3>2
  <2>8. TypeOK'
    BY <1>9, <2>1, <2>5, <2>7 DEF Writes, TypeOK
  <2>9. Laddered' /\ Placas'
    BY <2>7, CallsType DEF Laddered, Placas, At
  <2>10. Granted'
    BY <2>7 DEF Granted
  <2>11. ~collided' => ~Unready(row')
    <3> SUFFICES ASSUME ~collided' PROVE ~Unready(row')
      OBVIOUS
    <3>1. ~collided /\ req[r].fresh
      BY <1>9, <2>1 DEF Writes, TypeOK
    <3>2. q = row /\ ~Refused(row, c)
      BY <1>9, <3>1 DEF Writes, Granted
    <3>3. ~Unready(row)
      BY <3>1 DEF TicksBeforeListo, Unready
    <3> QED
      BY <2>1, <2>2, <2>4, <3>2, <3>3, WrittenIsReady DEF Absent
  <2>12. Absent' /\ TicksBeforeListo'
    BY <2>5, <2>11 DEF Absent, TicksBeforeListo, Unready, Incomplete
  <2> QED
    BY <2>8, <2>9, <2>10, <2>12
<1> QED
  BY <1>1, <1>2, <1>3, <1>4, <1>5, <1>6, <1>7, <1>8, <1>9 DEF Next

\* The record, the placa and the requests keep their types.
THEOREM TypeCorrect == Spec => []TypeOK
<1>1. IInv => TypeOK
  BY DEF IInv
<1> QED
  BY Initially, Step, <1>1, PTL DEF Spec

\* For any number of requests, packs and items: while no request has written over
\* a record that changed under it, a row in LISTO has all its items ticked.
THEOREM ReadyIsTicked == Spec => []TicksBeforeListo
<1>1. IInv => TicksBeforeListo
  BY DEF IInv
<1> QED
  BY Initially, Step, <1>1, PTL DEF Spec

\* What a request that nobody has overtaken does to the record
LEMMA FreshWrite ==
    ASSUME IInv, NEW r \in Requests, Writes(r), ~collided'
    PROVE  LET c == req[r].call  w == IF row.there THEN row ELSE Created(c) IN
           /\ c \in Call /\ row \in Row /\ w \in Row /\ c.op # "advance"
           /\ ~Refused(row, c)
           /\ row' = Written(w, row, c)
<1>1. req[r].fresh /\ req[r].seen = row /\ ~Refused(row, req[r].call)
  BY DEF Writes, IInv, Granted, TypeOK, Request
<1>2. req[r].call \in Call /\ row \in Row /\ req[r].call.op # "advance"
  BY DEF Writes, IInv, Laddered, TypeOK, Request
<1> QED
  BY <1>1, <1>2, CreatedType DEF Writes

\* Only a request that writes changes the record.
LEMMA OthersLeaveRow ==
    ASSUME [Next]_vars, row' # row
    PROVE  \E r \in Requests : Writes(r)
BY DEF Next, vars, Arrives, Advances, AsksCourier, Cascades, Reads, Fails, Throws

\* For any number of requests and items: the ticks of a LISTO row stay as they
\* are while it is LISTO, unless a request wrote over a record that had changed.
THEOREM EvidenceStays == Spec => ListoIsEvidence
<1> DEFINE Kept == ~collided' /\ row.state = "LISTO" /\ row'.state = "LISTO"
                      => row'.checked = row.checked
<1>1. ASSUME IInv, [Next]_vars PROVE [Kept]_vars
  <2> SUFFICES ASSUME ~collided', row.state = "LISTO", row'.state = "LISTO", row' # row
               PROVE  row'.checked = row.checked
    OBVIOUS
  <2>1. PICK r \in Requests : Writes(r)
    BY <1>1, OthersLeaveRow
  <2> DEFINE c == req[r].call
  <2>2. row.there
    BY <1>1 DEF IInv, Absent, NoRow
  <2>3. /\ c \in Call /\ row \in Row /\ c.op # "advance"
        /\ ~Refused(row, c)
        /\ row' = Written(row, row, c)
    BY <1>1, <2>1, <2>2, FreshWrite
  <2>4. c.op # "check"
    BY <2>2, <2>3 DEF Refused, Frozen
  <2>5. c.op # "unmark"
    BY <2>3 DEF Written, Unmarked, Cleaned, NoRow, Row
  <2>6. CASE c.op = "courier"
    BY <2>3, <2>6 DEF Written, Couriered, Row
  <2>7. CASE c.op \in {"state", "note", "section", "dispatch", "archive"}
    BY <2>3, <2>7 DEF Written, Row
  <2> QED
    BY <2>3, <2>4, <2>5, <2>6, <2>7 DEF Call, AllOps
<1>2. Spec => []IInv
  BY Initially, Step, PTL DEF Spec
<1>3. Spec => [][Kept]_vars
  BY <1>1, <1>2, PTL DEF Spec
<1> QED
  BY <1>3 DEF ListoIsEvidence

\* Reverting a row never loses the courier, the section, the note or the
\* archived mark (the loss of 2026-06-11 told at unmark).
RevertKeepsAdmin ==
    [][\A r \in Requests : Writes(r) /\ req[r].call.op = "unmark" /\ ~collided' =>
          /\ row'.courier = row.courier /\ row'.moved = row.moved
          /\ row'.noted = row.noted /\ row'.archived = row.archived]_vars

\* For any number of requests and items: a revert keeps the courier, the section,
\* the note and the archived mark, unless it wrote over a record that had changed.
THEOREM RevertKeeps == Spec => RevertKeepsAdmin
<1> DEFINE Kept == \A r \in Requests : Writes(r) /\ req[r].call.op = "unmark" /\ ~collided' =>
                      /\ row'.courier = row.courier /\ row'.moved = row.moved
                      /\ row'.noted = row.noted /\ row'.archived = row.archived
<1>1. ASSUME IInv, [Next]_vars PROVE [Kept]_vars
  <2> SUFFICES ASSUME NEW r \in Requests, Writes(r), req[r].call.op = "unmark", ~collided'
               PROVE  /\ row'.courier = row.courier /\ row'.moved = row.moved
                      /\ row'.noted = row.noted /\ row'.archived = row.archived
    OBVIOUS
  <2> DEFINE c == req[r].call
  <2>1. row \in Row /\ ~Refused(row, c)
    BY <1>1, FreshWrite
  <2>2. row.there
    BY <2>1 DEF Refused
  <2>3. row' = Unmarked(row, row)
    BY <1>1, <2>2, FreshWrite DEF Written
  <2>4. CASE HasAdmin(row)
    BY <2>1, <2>3, <2>4 DEF Unmarked, Cleaned, Row
  <2>5. CASE ~HasAdmin(row)
    BY <2>1, <2>3, <2>5 DEF Unmarked, HasAdmin, NoRow, Row
  <2> QED
    BY <2>4, <2>5
<1>2. Spec => []IInv
  BY Initially, Step, PTL DEF Spec
<1>3. Spec => [][Kept]_vars
  BY <1>1, <1>2, PTL DEF Spec
<1> QED
  BY <1>3 DEF RevertKeepsAdmin

\* For any number of requests and items: a tick goes only with an untick of its
\* SKU or a revert, unless a request wrote over a record that had changed.
THEOREM TicksStay == Spec => TicksSurvive
<1> DEFINE Kept == ~collided' => \A i \in row.checked \ row'.checked :
          \E r \in Requests : /\ Writes(r)
                              /\ \/ req[r].call.op = "unmark"
                                 \/ /\ req[r].call.op = "check" /\ ~req[r].call.on
                                    /\ i \in Untick(req[r].call.item)
<1>1. ASSUME IInv, [Next]_vars PROVE [Kept]_vars
  <2> SUFFICES ASSUME ~collided', NEW i \in row.checked, i \notin row'.checked
               PROVE  \E r \in Requests :
                          /\ Writes(r)
                          /\ \/ req[r].call.op = "unmark"
                             \/ /\ req[r].call.op = "check" /\ ~req[r].call.on
                                /\ i \in Untick(req[r].call.item)
    OBVIOUS
  <2>1. PICK r \in Requests : Writes(r)
    BY <1>1, OthersLeaveRow
  <2> DEFINE c == req[r].call
  <2>2. row.there
    BY <1>1 DEF IInv, Absent, NoRow
  <2>3. c \in Call /\ row \in Row /\ c.op # "advance" /\ row' = Written(row, row, c)
    BY <1>1, <2>1, <2>2, FreshWrite
  <2>4. CASE c.op = "check"
    <3>1. row'.checked = Ticked(row, c)
      BY <2>3, <2>4 DEF Written, Checked, Row
    <3>2. ~c.on /\ i \in Untick(c.item)
      BY <3>1, <2>3 DEF Ticked, Call
    <3> QED
      BY <2>1, <2>4, <3>2
  <2>5. c.op # "courier"
    BY <2>3 DEF Written, Couriered, Row
  <2>6. c.op \notin {"state", "note", "section", "dispatch", "archive"}
    BY <2>3 DEF Written, Row
  <2> QED
    BY <2>1, <2>3, <2>4, <2>5, <2>6 DEF Call, AllOps
<1>2. Spec => []IInv
  BY Initially, Step, PTL DEF Spec
<1>3. Spec => [][Kept]_vars
  BY <1>1, <1>2, PTL DEF Spec
<1> QED
  BY <1>3 DEF TicksSurvive

(* The placa follows the row when its update does not fail.  A dispatch past its *)
(* cascade left the placa as it is going to leave the row.                       *)
Left == prfv => \A r \in Requests : req[r].call.op = "dispatch" =>
    ~At(r, "ask") /\ (req[r].at \in {"read", "write"} => req[r].left = req[r].call.on)
PInv == IInv /\ Left /\ PlacaFollows

LEMMA PlacaInitially == Init => PInv
BY Initially DEF PInv, Init, Left, PlacaFollows, At, Idle, NoRow

\* A step that leaves the record and the placa alone, and is not the end of an undo
LEMMA PlacaKept ==
    ASSUME PInv, NEW r \in Requests, NEW q \in Request,
           UNCHANGED <<row, prfv, placa, collided>>, req' = [req EXCEPT ![r] = q],
           prfv /\ Undoing(r) => q.at \in {"read", "write"} /\ q.call = req[r].call,
           prfv /\ q.call.op = "dispatch" =>
               q.at # "ask" /\ (q.at \in {"read", "write"} => q.left = q.call.on)
    PROVE  Left' /\ PlacaFollows'
<1>1. \A s \in Requests : req'[s] = IF s = r THEN q ELSE req[s]
  BY DEF PInv, IInv, TypeOK
<1>2. Left'
  BY <1>1 DEF PInv, Left, At
<1>3. prfv => \A s \in Requests : Undoing(s) => Undoing(s)'
  BY <1>1 DEF Undoing
<1>4. PlacaFollows'
  BY <1>3 DEF PInv, PlacaFollows
<1> QED
  BY <1>2, <1>4

LEMMA PlacaStep == PlacaFaults = FALSE /\ PInv /\ [Next]_vars => PInv'
<1> SUFFICES ASSUME PlacaFaults = FALSE, PInv, [Next]_vars PROVE Left' /\ PlacaFollows'
  BY Step DEF PInv
<1> USE DEF PInv, IInv, TypeOK
<1>1. CASE UNCHANGED vars
  BY <1>1 DEF vars, Left, PlacaFollows, Undoing, At
<1>2. ASSUME NEW r \in Requests, Arrives(r) PROVE Left' /\ PlacaFollows'
  <2>1. PICK c \in Calls : req' = [req EXCEPT ![r] = [Idle EXCEPT !.at = First(c), !.call = c]]
    BY <1>2 DEF Arrives
  <2> DEFINE q == [Idle EXCEPT !.at = First(c), !.call = c]
  <2>2. q \in Request /\ q.call = c /\ q.at = First(c)
    BY CallsType DEF Request, First
  <2>3. prfv /\ c.op = "dispatch" => First(c) = "cascade"
    BY DEF First, AsksFirst, OfPlaca
  <2>4. req' = [req EXCEPT ![r] = q] /\ ~Undoing(r)
    BY <1>2, <2>1 DEF Arrives, Undoing, At
  <2> HIDE DEF q
  <2> QED
    BY <1>2, <2>2, <2>3, <2>4, PlacaKept DEF Arrives
<1>3. ASSUME NEW r \in Requests, Advances(r) PROVE Left' /\ PlacaFollows'
  <2> DEFINE q == IF NextState(row) = "LISTO" /\ Incomplete(row) THEN Idle
                  ELSE [req[r] EXCEPT !.at = "read", !.call = SettingTo(NextState(row))]
  <2>1. NextState(row) \in States
    BY DEF NextState, States
  <2>2. q \in Request /\ q.call.op # "dispatch"
    BY <2>1, CallsType DEF Request, Idle, Asking
  <2>3. req' = [req EXCEPT ![r] = q] /\ ~Undoing(r)
    BY <1>3 DEF Advances, Undoing, At
  <2> HIDE DEF q
  <2> QED
    BY <1>3, <2>2, <2>3, PlacaKept DEF Advances
<1>4. ASSUME NEW r \in Requests, AsksCourier(r) PROVE Left' /\ PlacaFollows'
  <2> DEFINE q == IF row.there /\ row.courier THEN [req[r] EXCEPT !.at = "read"] ELSE Idle
  <2>1. q \in Request /\ ~prfv
    BY <1>4, CallsType DEF AsksCourier, Left, Request
  <2>2. req' = [req EXCEPT ![r] = q]
    BY <1>4 DEF AsksCourier
  <2> HIDE DEF q
  <2> QED
    BY <1>4, <2>1, <2>2, PlacaKept DEF AsksCourier
<1>5. ASSUME NEW r \in Requests, Reads(r) PROVE Left' /\ PlacaFollows'
  <2> DEFINE c == req[r].call
             q == IF Refused(row, c) THEN Idle
                  ELSE [req[r] EXCEPT !.at = "write", !.seen = row, !.fresh = TRUE]
  <2>1. req' = [req EXCEPT ![r] = q]
    BY <1>5 DEF Reads
  <2>2. q \in Request /\ (q = Idle \/ (q.at = "write" /\ q.call = c /\ q.left = req[r].left))
    BY CallsType DEF Request
  <2>3. c.op = "dispatch" => ~Refused(row, c)
    BY DEF Refused, ToListo, Promotes, Frozen
  <2>4. Idle.call.op # "dispatch" /\ Idle.at = "idle"
    BY DEF Idle, Asking
  <2>5. c.op = "dispatch" => q.at = "write" /\ q.call = c /\ q.left = req[r].left
    BY <2>2, <2>3 DEF Request
  <2>6. prfv /\ q.call.op = "dispatch" => q.at = "write" /\ q.left = q.call.on
    BY <1>5, <2>2, <2>4 DEF Reads, Left, At
  <2> HIDE DEF q
  <2> QED
    BY <1>5, <2>1, <2>2, <2>5, <2>6, PlacaKept DEF Reads, Undoing
<1>6. ASSUME NEW r \in Requests, Cascades(r) PROVE Left' /\ PlacaFollows'
  <2>1. /\ placa' = req[r].call.on /\ req[r].call.op = "dispatch"
        /\ UNCHANGED <<row, prfv, collided>>
    BY <1>6 DEF Cascades, Placas
  <2>2. /\ req'[r].at = "read" /\ req'[r].left = placa' /\ req'[r].call = req[r].call
        /\ \A s \in Requests \ {r} : req'[s] = req[s]
    BY <1>6 DEF Cascades, Request
  <2>3. Left'
    BY <2>1, <2>2 DEF Left, At
  <2>4. ~placa' => Undoing(r)'
    BY <2>1, <2>2 DEF Undoing
  <2> QED
    BY <2>3, <2>4 DEF PlacaFollows
<1>7. ASSUME NEW r \in Requests, Fails(r) PROVE Left' /\ PlacaFollows'
  <2>1. Idle \in Request /\ Idle.call.op # "dispatch"
    BY CallsType DEF Idle, Asking
  <2>2. prfv => ~Undoing(r)
    BY <1>7 DEF Fails, Undoing, OfPlaca
  <2> QED
    BY <1>7, <2>1, <2>2, PlacaKept DEF Fails
<1>8. ASSUME NEW r \in Requests, Throws(r) PROVE Left' /\ PlacaFollows'
  <2>1. \A s \in Requests : req'[s] = IF s = r THEN Idle ELSE req[s]
    BY <1>8 DEF Throws
  <2>2. Idle.call.op # "dispatch"
    BY DEF Idle, Asking
  <2> QED
    BY <1>8, <2>1, <2>2 DEF Throws, Left, PlacaFollows, At
<1>9. ASSUME NEW r \in Requests, Writes(r) PROVE Left' /\ PlacaFollows'
  <2> DEFINE c == req[r].call
  <2>1. \A s \in Requests : req'[s] = IF s = r THEN Idle ELSE [req[s] EXCEPT !.fresh = FALSE]
    BY <1>9 DEF Writes
  <2>2. \A s \in Requests \ {r} : /\ req'[s].at = req[s].at /\ req'[s].call = req[s].call
                                   /\ req'[s].left = req[s].left
    <3> SUFFICES ASSUME NEW s \in Requests \ {r}
                 PROVE  /\ req'[s].at = req[s].at /\ req'[s].call = req[s].call
                        /\ req'[s].left = req[s].left
      OBVIOUS
    <3>1. req[s] \in Request /\ req'[s] = [req[s] EXCEPT !.fresh = FALSE]
      BY <2>1
    <3> QED
      BY <3>1, Overtaken
  <2>3. Idle.call.op # "dispatch"
    BY DEF Idle, Asking
  <2>4. Left'
    BY <1>9, <2>1, <2>2, <2>3 DEF Writes, Left, At
  <2>5. SUFFICES ASSUME ~collided', prfv, row'.there, row'.dispatched, ~placa
                 PROVE  \E s \in Requests : Undoing(s)'
    BY <1>9, <2>4 DEF Writes, PlacaFollows
  <2>6. ~collided /\ ~Crossed(r) /\ At(r, "write")
    BY <1>9, <2>5 DEF Writes
  <2> DEFINE w == IF row.there THEN row ELSE Created(c)
  <2>7. /\ c \in Call /\ w \in Row /\ c.op # "advance"
        /\ row' = Written(w, row, c)
    BY <1>9, <2>5, FreshWrite
  <2>8. c.op # "dispatch"
    <3> SUFFICES ASSUME c.op = "dispatch" PROVE FALSE
      OBVIOUS
    <3>1. row'.dispatched = c.on
      BY <2>7 DEF Written, Row
    <3>2. req[r].left = c.on /\ placa = req[r].left
      BY <2>5, <2>6 DEF Left, Crossed, OfPlaca, At
    <3> QED
      BY <2>5, <3>1, <3>2
  <2>9. w.dispatched
    <3>1. CASE c.op = "check"
      BY <2>5, <2>7, <3>1 DEF Written, Checked, Row
    <3>2. CASE c.op = "courier"
      BY <2>5, <2>7, <3>2 DEF Written, Couriered, Row
    <3>3. CASE c.op = "unmark"
      BY <2>5, <2>7, <3>3 DEF Written, Unmarked, Cleaned, NoRow, Row
    <3>4. CASE c.op \in {"state", "note", "section", "archive"}
      BY <2>5, <2>7, <3>4 DEF Written, Row
    <3> QED
      BY <2>7, <2>8, <3>1, <3>2, <3>3, <3>4 DEF Call, AllOps
  <2>10. row.there /\ row.dispatched
    BY <2>9 DEF Created, NoRow
  <2>11. PICK s \in Requests : Undoing(s)
    BY <2>5, <2>6, <2>10 DEF PlacaFollows
  <2>12. s # r
    BY <2>8, <2>11 DEF Undoing
  <2> QED
    BY <2>2, <2>11, <2>12 DEF Undoing
<1> QED
  BY <1>1, <1>2, <1>3, <1>4, <1>5, <1>6, <1>7, <1>8, <1>9 DEF Next

\* For any number of requests and items, as long as the update of the placa
\* does not fail and no dispatch ends after it: a row shown as dispatched has its
\* placa dispatched, unless an undo that has taken the placa back is about to take
\* the row back, or a request wrote over a record or a placa that had changed.
THEOREM PlacaStays == PlacaFaults = FALSE => (Spec => []PlacaFollows)
<1> SUFFICES ASSUME PlacaFaults = FALSE PROVE Spec => []PlacaFollows
  OBVIOUS
<1>1. PInv /\ [Next]_vars => PInv'
  BY PlacaStep
<1>2. PInv => PlacaFollows
  BY DEF PInv
<1> QED
  BY PlacaInitially, <1>1, <1>2, PTL DEF Spec

(* The refinement of RowLife.  The calls that set a state never ask for         *)
(* PENDIENTE: only a revert goes back there.                                    *)
Upward == \A r \in Requests :
    req[r].call.op = "state" => req[r].call.to \in {"ARMADO", "LISTO"}
RInv == IInv /\ Upward

LEMMA CallsUpward == \A c \in Calls : c.op = "state" => c.to \in {"ARMADO", "LISTO"}
<1>1. \A c \in Orders \cup Switches \cup Ticks : c.op # "state"
  <2>1. \A op \in AllOps, on \in BOOLEAN : Asking(op, on).op = op
    BY DEF Asking
  <2>2. \A c \in Orders : c.op \in {"advance", "archive", "unmark"}
    BY <2>1, Zenon DEF Orders, AllOps
  <2>3. \A c \in Switches : c.op \in {"note", "courier", "section", "dispatch"}
    BY <2>1 DEF Switches, AllOps
  <2>4. \A i \in Items, on \in BOOLEAN, n \in Counts : Ticking(i, on, n).op = "check"
    BY DEF Ticking, Asking
  <2>5. \A c \in Ticks : c.op = "check"
    BY <2>4 DEF Ticks
  <2> QED
    BY <2>2, <2>3, <2>5
<1>2. \A c \in Targets : c.to \in {"ARMADO", "LISTO"}
  BY DEF Targets, SettingTo, Asking
<1> QED
  BY <1>1, <1>2 DEF Calls

LEMMA UpwardStep == IInv /\ Upward /\ [Next]_vars => Upward'
<1> SUFFICES ASSUME IInv, Upward, [Next]_vars PROVE Upward'
  OBVIOUS
<1> USE DEF IInv, TypeOK
<1>1. \A state \in {"ARMADO", "LISTO"} : SettingTo(state).to = state
  BY DEF SettingTo, Asking
<1>2. Idle.call.op # "state"
  BY DEF Idle, Asking
<1>3. ASSUME NEW r \in Requests, Arrives(r) PROVE Upward'
  <2>1. PICK c \in Calls : req'[r].call = c
    BY <1>3 DEF Arrives, Idle
  <2>2. \A s \in Requests \ {r} : req'[s] = req[s]
    BY <1>3 DEF Arrives
  <2> QED
    BY <2>1, <2>2, CallsUpward DEF Upward
<1>4. ASSUME NEW r \in Requests, Advances(r) PROVE Upward'
  <2>1. NextState(row) \in {"ARMADO", "LISTO"}
    BY DEF NextState
  <2>2. req'[r].call = Idle.call \/ req'[r].call = SettingTo(NextState(row))
    BY <1>4 DEF Advances, Request
  <2>3. \A s \in Requests \ {r} : req'[s] = req[s]
    BY <1>4 DEF Advances
  <2> QED
    BY <1>1, <1>2, <2>1, <2>2, <2>3 DEF Upward
<1>5. ASSUME NEW r \in Requests,
             AsksCourier(r) \/ Cascades(r) \/ Reads(r) \/ Fails(r) \/ Throws(r)
      PROVE  Upward'
  <2>1. req'[r].call = Idle.call \/ req'[r].call = req[r].call
    BY <1>5 DEF AsksCourier, Cascades, Reads, Fails, Throws, Request
  <2>2. \A s \in Requests \ {r} : req'[s] = req[s]
    BY <1>5 DEF AsksCourier, Cascades, Reads, Fails, Throws
  <2> QED
    BY <1>2, <2>1, <2>2 DEF Upward
<1>6. ASSUME NEW r \in Requests, Writes(r) PROVE Upward'
  <2>1. \A s \in Requests : req'[s].call = Idle.call \/ req'[s].call = req[s].call
    BY <1>6 DEF Writes, Request
  <2> QED
    BY <1>2, <2>1 DEF Upward
<1>7. CASE UNCHANGED vars
  BY <1>7 DEF vars, Upward
<1> QED
  BY <1>3, <1>4, <1>5, <1>6, <1>7 DEF Next


\* A new record shows what no record does, but for the state it starts in.
LEMMA CreatedShows ==
    ASSUME NEW c \in Call
    PROVE  LET w == Created(c) IN
           /\ w.checked = {} /\ w.expected = 0 /\ ~w.dispatched
           /\ ~w.courier /\ ~w.moved /\ ~w.noted /\ ~w.archived
           /\ w.state = CASE c.op = "state" -> c.to
                          [] c.op = "check" \/ (c.op = "courier" /\ c.on) -> "ARMADO"
                          [] c.op = "dispatch" -> "LISTO"
                          [] OTHER -> "PENDIENTE"
BY DEF Created, NoRow

LEMMA MarkedShows ==
    ASSUME NEW q \in Row
    PROVE  \A m : m \in Marked(q) <=> \/ m = "courier" /\ q.courier
                                      \/ m = "section" /\ q.moved
                                      \/ m = "note" /\ q.noted
                                      \/ m = "archived" /\ q.archived
BY DEF Marked

\* The count of the abstract machine is ours.
LEMMA SameCount == \A S : Panel!Cardinality(S) = Cardinality(S)
BY Zenon DEF Cardinality, Panel!Cardinality

\* A call that the record did not refuse is one operation of the panel.
LEMMA OneOperation ==
    ASSUME TypeOK, Absent, row' \in Row, NEW c \in Call,
           ~Refused(row, c), c.op # "advance",
           c.op = "state" => c.to \in {"ARMADO", "LISTO"},
           row.there /\ row.state = "LISTO" => ~Incomplete(row),
           row' = Written(IF row.there THEN row ELSE Created(c), row, c)
    PROVE  Panel!Operate
<1> DEFINE w == IF row.there THEN row ELSE Created(c)
<1> USE DEF Panel!Operate
<1>1. /\ w \in Row /\ row \in Row /\ row' = Written(w, row, c)
      /\ row.expected \in Nat /\ row.checked \in SUBSET Items
      /\ Cardinality(row.checked) \in Nat
  BY CreatedType, TickCount DEF TypeOK, Row
<1>2. /\ w.checked = row.checked /\ w.expected = row.expected
      /\ w.dispatched = row.dispatched /\ w.courier = row.courier /\ w.moved = row.moved
      /\ w.noted = row.noted /\ w.archived = row.archived
  <2>1. CASE row.there
    BY <2>1
  <2>2. CASE ~row.there
    <3>1. w = Created(c) /\ row = NoRow
      BY <2>2 DEF Absent
    <3>2. /\ w.checked = {} /\ w.expected = 0 /\ w.dispatched = FALSE
          /\ w.courier = FALSE /\ w.moved = FALSE /\ w.noted = FALSE /\ w.archived = FALSE
      BY <3>1 DEF Created, NoRow
    <3> QED
      BY <3>1, <3>2 DEF NoRow
  <2> QED
    BY <2>1, <2>2
<1>3. ~row.there => Panel!Untouched
  BY MarkedShows, <1>1 DEF Absent, NoRow, Panel!Untouched
<1>4. ~Incomplete(row) => Panel!Ready
  BY <1>1, SameCount DEF Incomplete, Panel!Ready
<1>5. ~row.there => Panel!Ready
  BY DEF Absent, NoRow, Panel!Ready
<1> HIDE DEF w
<1>6. CASE c.op = "state"
  <2>1. row' = [w EXCEPT !.state = c.to]
    BY <1>1, <1>6 DEF Written
  <2>2. row'.state = c.to /\ \A m : m \in Marked(row)' <=> m \in Marked(row)
    BY <1>1, <1>2, <2>1, MarkedShows DEF Row
  <2>3. c.to = "LISTO" => Panel!Ready
    BY <1>4, <1>5, <1>6 DEF Refused, ToListo
  <2>4. Panel!SetState(c.to)
    BY <1>1, <1>2, <2>1, <2>2, <2>3 DEF Panel!SetState, Row
  <2> QED
    BY <1>6, <2>4
<1>7. CASE c.op = "check"
  <2>1. row.state # "LISTO" /\ c.item \in Items /\ c.on \in BOOLEAN /\ c.count \in Nat
    BY <1>7 DEF Refused, Frozen, Absent, NoRow, Call
  <2>2. row' = Checked(w, row, c)
    BY <1>1, <1>7 DEF Written
  <2>3. /\ row'.checked = Ticked(row, c) /\ row'.expected = Expected(row, c)
        /\ row'.state = "ARMADO" /\ row'.dispatched = row.dispatched
        /\ Marked(row)' = Marked(row)
    <3>1. /\ row'.checked = Ticked(row, c) /\ row'.expected = Expected(row, c)
          /\ row'.state = "ARMADO" /\ row'.dispatched = w.dispatched
          /\ row'.courier = w.courier /\ row'.moved = w.moved
          /\ row'.noted = w.noted /\ row'.archived = w.archived
      BY <1>1, <2>1, <2>2 DEF Checked, Row
    <3> QED
      BY <1>2, <3>1 DEF Marked
  <2>4. Ticked(row, c) \in SUBSET Items
    BY <1>1, <2>1 DEF Ticked
  <2>5. /\ Expected(row, c) \in Nat
        /\ Cardinality(row.checked) <= Expected(row, c)
        /\ Cardinality(Ticked(row, c)) <= Expected(row, c)
    BY <1>1, <2>1, <2>4, TickCount DEF Expected, Biggest
  <2>6. \/ row'.checked = row.checked \cup {c.item}
        \/ row'.checked = row.checked \ ({c.item} \cup UNION {s \in SameSku : c.item \in s})
    BY <2>3 DEF Ticked, Untick
  <2>7. Panel!TickItem(c.item)
    BY <2>1, <2>3, <2>5, <2>6, SameCount DEF Panel!TickItem
  <2> QED
    BY <2>1, <2>7
<1>8. CASE c.op = "courier"
  <2>1. row' = Couriered(w, row, c) /\ c.on \in BOOLEAN
    BY <1>1, <1>8 DEF Written, Call
  <2>2. /\ row'.checked = row.checked /\ row'.expected = row.expected
        /\ row'.dispatched = row.dispatched
        /\ row'.state = (IF Promotes(row, c) THEN "LISTO" ELSE w.state)
        /\ row'.courier = c.on /\ row'.moved = row.moved
        /\ row'.noted = row.noted /\ row'.archived = row.archived
    BY <1>1, <1>2, <2>1 DEF Couriered, Row
  <2>3. CASE c.on = TRUE
    <3>1. Marked(row)' = Marked(row) \cup {"courier"}
      BY <1>1, <2>2, <2>3, MarkedShows
    <3>2. CASE row.there
      <4>1. row'.state = "LISTO"
        BY <1>8, <2>2, <2>3, <3>2 DEF Promotes, w
      <4>2. ~Incomplete(row)
        BY <1>8, <2>3, <3>2 DEF Refused, ToListo, Promotes
      <4> QED
        BY <1>4, <2>2, <3>1, <4>1, <4>2 DEF Panel!GiveCourier
    <3>3. CASE ~row.there
      <4>1. row'.state = "ARMADO"
        BY <1>8, <2>2, <2>3, <3>3, CreatedShows DEF Promotes, w
      <4> QED
        BY <1>3, <2>2, <3>1, <3>3, <4>1 DEF Panel!GiveCourier
    <3> QED
      BY <3>2, <3>3
  <2>4. CASE c.on = FALSE
    <3>1. Marked(row)' = Marked(row) \ {"courier"}
      BY <1>1, <2>2, <2>4, MarkedShows
    <3>2. w.state = row.state
      BY <1>8, <2>4, CreatedShows DEF w, Absent, NoRow
    <3>3. Panel!ClearMark("courier")
      BY <2>2, <2>4, <3>1, <3>2 DEF Panel!ClearMark, Promotes
    <3> QED
      BY <3>3 DEF Panel!Marks
  <2> QED
    BY <2>1, <2>3, <2>4
<1>9. CASE c.op \in {"note", "section", "archive"}
  <2>1. c.on \in BOOLEAN /\ w.state = row.state
    BY <1>9, CreatedShows DEF w, Absent, NoRow, Call
  <2>2. CASE c.op = "note"
    <3>1. row' = [w EXCEPT !.noted = c.on]
      BY <1>1, <2>2 DEF Written
    <3>2. /\ row'.checked = row.checked /\ row'.expected = row.expected
          /\ row'.dispatched = row.dispatched /\ row'.state = row.state
          /\ row'.courier = row.courier /\ row'.moved = row.moved
          /\ row'.noted = c.on /\ row'.archived = row.archived
      BY <1>1, <1>2, <2>1, <3>1 DEF Row
    <3>3. Marked(row)' = IF c.on THEN Marked(row) \cup {"note"} ELSE Marked(row) \ {"note"}
      BY <1>1, <2>1, <3>2, MarkedShows
    <3> QED
      BY <3>2, <3>3 DEF Panel!SetMark, Panel!ClearMark, Panel!Marks
  <2>3. CASE c.op = "section"
    <3>1. row' = [w EXCEPT !.moved = c.on]
      BY <1>1, <2>3 DEF Written
    <3>2. /\ row'.checked = row.checked /\ row'.expected = row.expected
          /\ row'.dispatched = row.dispatched /\ row'.state = row.state
          /\ row'.courier = row.courier /\ row'.moved = c.on
          /\ row'.noted = row.noted /\ row'.archived = row.archived
      BY <1>1, <1>2, <2>1, <3>1 DEF Row
    <3>3. Marked(row)' = IF c.on THEN Marked(row) \cup {"section"}
                                 ELSE Marked(row) \ {"section"}
      BY <1>1, <2>1, <3>2, MarkedShows
    <3> QED
      BY <3>2, <3>3 DEF Panel!SetMark, Panel!ClearMark, Panel!Marks
  <2>4. CASE c.op = "archive"
    <3>1. row' = [w EXCEPT !.archived = TRUE]
      BY <1>1, <2>4 DEF Written
    <3>2. /\ row'.checked = row.checked /\ row'.expected = row.expected
          /\ row'.dispatched = row.dispatched /\ row'.state = row.state
          /\ row'.courier = row.courier /\ row'.moved = row.moved
          /\ row'.noted = row.noted /\ row'.archived = TRUE
      BY <1>1, <1>2, <2>1, <3>1 DEF Row
    <3>3. Marked(row)' = Marked(row) \cup {"archived"}
      BY <1>1, <3>2, MarkedShows
    <3> QED
      BY <3>2, <3>3 DEF Panel!SetMark, Panel!Marks
  <2> QED
    BY <1>9, <2>2, <2>3, <2>4
<1>10. CASE c.op = "dispatch"
  <2>1. /\ row'.checked = row.checked /\ row'.expected = row.expected
        /\ row'.dispatched = c.on /\ row'.state = w.state /\ c.on \in BOOLEAN
        /\ row'.courier = row.courier /\ row'.moved = row.moved
        /\ row'.noted = row.noted /\ row'.archived = row.archived
    BY <1>1, <1>2, <1>10 DEF Written, Row, Call
  <2>2. Marked(row)' = Marked(row)
    BY <2>1 DEF Marked
  <2>3. w.state = row.state \/ (~row.there /\ w.state = "LISTO")
    BY <1>10, CreatedShows DEF w
  <2>4. Panel!Dispatch(c.on)
    BY <1>3, <2>1, <2>2, <2>3 DEF Panel!Dispatch
  <2> QED
    BY <2>1, <2>4
<1>11. CASE c.op = "unmark"
  <2>1. row.there /\ w = row /\ row' = Unmarked(row, row)
    <3>1. row.there
      BY <1>11 DEF Refused
    <3> QED
      BY <1>1, <1>11, <3>1 DEF Written, Unmarked, w
  <2>2. /\ row'.state = "PENDIENTE" /\ row'.checked = {} /\ row'.dispatched = FALSE
        /\ row'.expected = row.expected \/ (~HasAdmin(row) /\ row'.expected = 0)
        /\ row'.courier = row.courier /\ row'.moved = row.moved
        /\ row'.noted = row.noted /\ row'.archived = row.archived
    <3>1. CASE HasAdmin(row)
      BY <1>1, <2>1, <3>1 DEF Unmarked, Cleaned, Row
    <3>2. CASE ~HasAdmin(row)
      BY <1>1, <2>1, <3>2 DEF Unmarked, HasAdmin, NoRow, Row
    <3> QED
      BY <3>1, <3>2
  <2>3. Marked(row)' = Marked(row) /\ (~HasAdmin(row) => Marked(row) = {})
    BY <2>2 DEF Marked, HasAdmin
  <2> QED
    BY <2>2, <2>3 DEF Panel!Revert
<1> QED
  BY <1>6, <1>7, <1>8, <1>9, <1>10, <1>11 DEF Call, AllOps

\* For any number of requests, packs and items: LogisticaArmado implements RowLife.
THEOREM ActsAsOne == Spec => ActsAtOnce
<1>1. Init => Panel!RowInit
  BY DEF Init, NoRow, Panel!RowInit, Marked
<1>2. ASSUME RInv, [Next]_vars PROVE [Panel!RowNext]_(Panel!rowVars)
  <2>1. collided' = TRUE => Panel!RowNext
    BY DEF Panel!RowNext
  <2>2. CASE row' = row /\ collided' = collided
    BY <2>2 DEF Panel!rowVars, Marked
  <2>3. ASSUME NEW r \in Requests, Writes(r), ~collided' PROVE Panel!RowNext
    <3> DEFINE c == req[r].call
    <3>1. /\ c \in Call /\ row \in Row /\ c.op # "advance" /\ ~Refused(row, c)
          /\ row' = Written(IF row.there THEN row ELSE Created(c), row, c)
      BY <1>2, <2>3, FreshWrite DEF RInv
    <3>2. c.op = "state" => c.to \in {"ARMADO", "LISTO"}
      BY <1>2 DEF RInv, Upward
    <3>3. collided = FALSE /\ collided' = FALSE
      BY <1>2, <2>3 DEF Writes, RInv, IInv, TypeOK, Request
    <3>4. row.there /\ row.state = "LISTO" => ~Incomplete(row)
      BY <1>2, <3>3 DEF RInv, IInv, TicksBeforeListo
    <3>5. TypeOK /\ Absent /\ row' \in Row
      BY <1>2, Step DEF RInv, IInv, TypeOK
    <3> HIDE DEF c
    <3>6. Panel!Operate
      BY <3>1, <3>2, <3>4, <3>5, OneOperation
    <3> QED
      BY <3>3, <3>6 DEF Panel!RowNext
  <2>4. collided' \in BOOLEAN
    BY <1>2, Step DEF RInv, IInv, TypeOK
  <2>5. \/ row' = row /\ collided' = collided
        \/ collided' = TRUE
        \/ \E r \in Requests : Writes(r)
    BY <1>2 DEF Next, vars, Arrives, Advances, AsksCourier, Cascades, Reads, Fails, Throws
  <2> QED
    BY <2>1, <2>2, <2>3, <2>4, <2>5
<1>3. Init => RInv
  BY Initially DEF RInv, Upward, Init, Idle, Asking
<1>4. RInv /\ [Next]_vars => RInv'
  BY Step, UpwardStep DEF RInv
<1> QED
  BY <1>1, <1>2, <1>3, <1>4, PTL DEF Spec, ActsAtOnce, Panel!RowSpec

=============================================================================
